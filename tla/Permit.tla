------------------------------- MODULE Permit -------------------------------
(***************************************************************************)
(* What the confirmation flow promises, whatever stores it: a permit is    *)
(* issued, a human may approve or reject it as often as wanted, it is used *)
(* at most once and only while approved, and a permit that is used or void *)
(* (expired, or lost with the process) stays so.                           *)
(* internal/confirmation implements it: see Confirmation!Permits.          *)
(***************************************************************************)
EXTENDS Naturals

CONSTANT Id

VARIABLES status,   \* of each permit
          useCount  \* how often it was used

vars == <<status, useCount>>

Open   == {"pending", "approved"}
Status == {"unissued", "used", "void"} \cup Open

Init ==
    /\ status = [i \in Id |-> "unissued"]
    /\ useCount = [i \in Id |-> 0]

Issue(i) ==
    /\ status[i] = "unissued"
    /\ status' = [status EXCEPT ![i] = "pending"]
    /\ UNCHANGED useCount

Decide(i, approve) ==
    /\ status[i] \in Open
    /\ status' = [status EXCEPT ![i] = IF approve THEN "approved" ELSE "pending"]
    /\ UNCHANGED useCount

Use(i) ==
    /\ status[i] = "approved"
    /\ status' = [status EXCEPT ![i] = "used"]
    /\ useCount' = [useCount EXCEPT ![i] = @ + 1]

\* Time or a restart takes any number of open permits at once.
Void(S) ==
    /\ \A i \in S : status[i] \in Open
    /\ status' = [i \in Id |-> IF i \in S THEN "void" ELSE status[i]]
    /\ UNCHANGED useCount

Next ==
    \/ \E i \in Id : Issue(i) \/ Use(i)
    \/ \E i \in Id, approve \in BOOLEAN : Decide(i, approve)
    \/ \E S \in SUBSET Id : Void(S)

Spec == Init /\ [][Next]_vars
=============================================================================
