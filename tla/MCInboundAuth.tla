---------------------------- MODULE MCInboundAuth ----------------------------
(***************************************************************************)
(* A small instance of InboundAuth: two keys that come and go, a token     *)
(* that expires and one that does not.                                     *)
(***************************************************************************)
EXTENDS InboundAuth, TLC

CONSTANTS t1, t2

MCExp == [t \in {t1, t2} |-> IF t = t1 THEN 2 ELSE NoExp]

Symmetry == Permutations(Caller) \cup Permutations(Key)
=============================================================================
