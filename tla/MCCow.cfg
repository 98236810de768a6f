SPECIFICATION CowSpec
CONSTANTS
    MM = {m1, m2}
    Page = {p1, p2, p3}
    Word = {w0, w1}
    Zero = w0
    FileWord = w1
    zero_page = zp
    none = none
INVARIANT MappedCounted
CHECK_DEADLOCK FALSE
