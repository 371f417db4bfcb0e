--------------------------- MODULE PolicyHardening ---------------------------
(***************************************************************************)
(* The deployments an operator can reach by tightening the policy of       *)
(* internal/policy/policy.go one environment variable at a time (each step *)
(* is a restart of the server with one setting changed).  It checks the    *)
(* decision procedure over every configuration of small lists, and what a  *)
(* change of configuration may do to it.                                   *)
(***************************************************************************)
EXTENDS Policy, Naturals, Sequences

CONSTANTS Op,       \* operationIds of the Swagger document
          Method    \* HTTP methods of its operations

VARIABLE config     \* what NewEvaluator was given

Init == config \in Config(Op, Method)

DenyOp(o) == config' = [config EXCEPT !.deniedOps = @ \cup {o}]

DenyMethod(m) == config' = [config EXCEPT !.deniedMethods = @ \cup {m}]

\* Taking the last name off an allowlist lifts the restriction, so it is no
\* tightening: an empty ALLOWED_OPERATION_IDS allows every operation.
RevokeAllowedOp(o) ==
    /\ config.allowedOps \ {o} # {}
    /\ config' = [config EXCEPT !.allowedOps = @ \ {o}]

RevokeAllowedMethod(m) ==
    /\ config.allowedMethods \ {m} # {}
    /\ config' = [config EXCEPT !.allowedMethods = @ \ {m}]

IntroduceAllowedOps(S) ==
    /\ config.allowedOps = {} /\ S # {}
    /\ config' = [config EXCEPT !.allowedOps = S]

LowerMode ==
    \/ /\ config.mode \in {"execute_write", "sandbox"}
       /\ config' = [config EXCEPT !.mode = "execute_readonly"]
    \/ /\ config.mode = "execute_readonly"
       /\ config' = [config EXCEPT !.mode = "plan_only"]

RequireConfirmation == config' = [config EXCEPT !.requireConfirmation = TRUE]

Next ==
    \/ \E o \in Op : DenyOp(o) \/ RevokeAllowedOp(o)
    \/ \E m \in Method : DenyMethod(m) \/ RevokeAllowedMethod(m)
    \/ \E S \in SUBSET Op : IntroduceAllowedOps(S)
    \/ LowerMode
    \/ RequireConfirmation

Spec == Init /\ [][Next]_config

(***************************************************************************)
(* Properties                                                              *)
(***************************************************************************)

\* The README's priority table: each row triggers or not, and the first row
\* that triggers decides.
PriorityTable(op, m) ==
    << [on |-> op \in config.deniedOps, result |-> "policy_denied"],
       [on |-> m \in config.deniedMethods, result |-> "policy_denied"],
       [on |-> config.allowedOps # {} /\ op \notin config.allowedOps,
        result |-> "policy_denied"],
       [on |-> config.allowedMethods # {} /\ m \notin config.allowedMethods,
        result |-> "policy_denied"],
       [on |-> config.mode \notin {"execute_readonly", "execute_write", "sandbox"},
        result |-> "plan_only"],
       [on |-> config.mode = "execute_readonly" /\ m \notin {"GET", "HEAD", "OPTIONS"},
        result |-> "policy_denied"],
       [on |-> config.requireConfirmation /\ m \in {"POST", "PUT", "PATCH", "DELETE"},
        result |-> "confirmation_required"],
       [on |-> TRUE, result |-> "allow"] >>

FirstRow(table) ==
    table[CHOOSE i \in DOMAIN table :
            table[i].on /\ \A j \in DOMAIN table : table[j].on => i <= j].result

\* Evaluate's early returns decide every call as the README's deterministic
\* order does: denials before allowlists, those before the mode, and the
\* confirmation of writes last.
FollowsPriorityTable ==
    \A op \in Op, m \in Method :
        Evaluate(config, op, m) = FirstRow(PriorityTable(op, m))

\* A denied call never runs, one to confirm runs once a human agrees.
Leniency(decision) ==
    CASE decision = "allow" -> 2
      [] decision = "confirmation_required" -> 1
      [] OTHER -> 0

\* No tightening of the configuration lets Evaluate pass a call it refused, nor
\* turns a refusal into something a confirmation can lift.
HardeningNeverLoosens ==
    [][\A op \in Op, m \in Method :
          Leniency(Evaluate(config', op, m)) <= Leniency(Evaluate(config, op, m))]_config
=============================================================================
