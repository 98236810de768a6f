----------------------------- MODULE MCBootMem -----------------------------
(* BootMem on a small memory: eight pages of two bytes. *)
EXTENDS BootMem, TLC

Ask(o, s, z, c) == [order |-> o, start |-> s, zero |-> z, comp |-> c]

TwoZones == "DMA" :> 4 @@ "DMA32" :> 8 @@ "NORMAL" :> 8

(* One page of each kind of zone, blocks, compound and zeroed blocks, and   *)
(* an order that does not exist.                                            *)
Mixed == {Ask(0, 0, FALSE, FALSE), Ask(0, 2, TRUE, FALSE), Ask(1, 0, FALSE, TRUE),
          Ask(1, 1, FALSE, FALSE), Ask(2, 1, FALSE, TRUE), Ask(3, 0, FALSE, FALSE)}

(* The kernel, the first page and, for some, the BIOS and the brk behind    *)
(* the kernel.                                                              *)
Apart == {<<Rgn(6, 3), Rgn(0, 2)>>, <<Rgn(9, 2), Rgn(0, 2), Rgn(5, 1)>>,
          <<Rgn(6, 2), Rgn(0, 2), Rgn(2, 1), Rgn(8, 1)>>, <<Rgn(0, 2)>>}

(* The brk begins in the last page of the kernel. *)
BrkInside == {<<Rgn(8, 4), Rgn(0, 2), Rgn(4, 2), Rgn(11, 3)>>}

(* One entry; a hole; neighbours; odd ends; a descending table; slivers;    *)
(* neighbours in descending order.                                          *)
Maps == {<<Rgn(0, 16)>>, <<Rgn(0, 7), Rgn(9, 7)>>, <<Rgn(0, 5), Rgn(5, 11)>>,
         <<Rgn(1, 14)>>, <<Rgn(10, 5), Rgn(0, 9)>>, <<Rgn(0, 8), Rgn(9, 1), Rgn(11, 5)>>,
         <<Rgn(10, 6), Rgn(0, 10)>>}

Early == {[size |-> 1, align |-> 1, min |-> 0], [size |-> 2, align |-> 2, min |-> 8],
          [size |-> 3, align |-> 4, min |-> 4]}
=============================================================================
