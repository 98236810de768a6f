------------------------------- MODULE MCCow -------------------------------
(* A small instance of the page faults for TLC. *)
EXTENDS Cow
=============================================================================
