---------------------------- MODULE MCHTTPClient ----------------------------
(***************************************************************************)
(* Small instances of HTTPClient: callers a1, a2, a3 of alice, b1 of bob.  *)
(***************************************************************************)
EXTENDS HTTPClient

CONSTANTS a1, a2, a3, b1, alice, bob

MCKeyOf == [c \in Caller |-> IF c = b1 THEN bob ELSE alice]
=============================================================================
