------------------------------ MODULE MCExecute ------------------------------
(***************************************************************************)
(* Small instances of Execute: one write and one read endpoint, the agent  *)
(* uses one URL and asks for confirmations of exactly that write and of    *)
(* one to another URL, or of the operation whatever its URL.  There are    *)
(* two deployments: one that confirms writes, one that executes nothing.   *)
(***************************************************************************)
EXTENDS Execute, TLC

CONSTANTS u1, u2

MCMethodOf == [createUser |-> "POST", getUser |-> "GET"]
MCURL      == {u1, u2}

Open == [mode |-> "execute_write", allowedMethods |-> {}, deniedMethods |-> {},
         allowedOps |-> {}, deniedOps |-> {}, requireConfirmation |-> TRUE]

MCDeployment == {Open, [Open EXCEPT !.mode = "plan_only", !.deniedOps = {"getUser"}]}

Exactly(url) == [op |-> "createUser", method |-> "POST", url |-> url]

MCAsked     == {Exactly(u1), Exactly(u2)}
MCAskedOpen == {Exactly(u2), [op |-> "createUser", method |-> Unset, url |-> Unset]}

MCTried ==
    [op: {"createUser"}, url: {u1}, id: Id]
        \cup [op: {"createUser", "getUser"}, url: {u1}, id: {NoId}]

Symmetry == Permutations(Call) \cup Permutations(Id)
=============================================================================
