------------------------------- MODULE Policy -------------------------------
(***************************************************************************)
(* The execution policy of internal/policy/policy.go.  One deployment has  *)
(* one immutable configuration, a record                                   *)
(*   [mode, allowedMethods, deniedMethods, allowedOps, deniedOps,          *)
(*    requireConfirmation]                                                 *)
(* and Evaluate classifies one call of it.  The result is the code of the  *)
(* Decision, "allow" standing for Decision{Allow: true}.                   *)
(* Names are already trimmed and methods upper-cased, as NewEvaluator and  *)
(* Evaluate leave them.  Evaluate also refuses an empty operationId or     *)
(* method under an allowlist; its only caller passes an endpoint's own     *)
(* (synthesised if absent) id and method, so neither is ever empty.        *)
(***************************************************************************)
EXTENDS FiniteSets

ReadonlyMethod == {"GET", "HEAD", "OPTIONS"}
WriteMethod    == {"POST", "PUT", "PATCH", "DELETE"}

\* "other" stands for any MCP_API_MODE the evaluator does not know.
Mode == {"plan_only", "execute_readonly", "execute_write", "sandbox", "other"}

isReadonlyMethod(m) == m \in ReadonlyMethod
isWriteMethod(m)    == m \in WriteMethod

Decision == {"allow", "policy_denied", "plan_only", "confirmation_required"}

Config(Op, Method) ==
    [ mode: Mode,
      allowedMethods: SUBSET Method, deniedMethods: SUBSET Method,
      allowedOps: SUBSET Op, deniedOps: SUBSET Op,
      requireConfirmation: BOOLEAN ]

\* Steps 1 and 2: the explicit denials.
ExplicitlyDenied(cfg, op, m) ==
    op \in cfg.deniedOps \/ m \in cfg.deniedMethods

\* Steps 3 and 4: an allowlist restricts only when it is not empty.
OutsideAllowlist(cfg, op, m) ==
    \/ cfg.allowedOps # {} /\ op \notin cfg.allowedOps
    \/ cfg.allowedMethods # {} /\ m \notin cfg.allowedMethods

\* Step 5: what the mode alone says, "pass" leaving it to step 6.
ModeDecision(cfg, m) ==
    CASE cfg.mode = "execute_readonly" ->
            IF isReadonlyMethod(m) THEN "allow" ELSE "policy_denied"
      [] cfg.mode \in {"execute_write", "sandbox"} -> "pass"
      [] OTHER -> "plan_only"

\* Step 6: a write that has come this far may have to be confirmed.
ConfirmationDecision(cfg, m) ==
    IF cfg.requireConfirmation /\ isWriteMethod(m)
    THEN "confirmation_required" ELSE "allow"

\* A faulty form of Evaluate: the confirmation of a write is asked for before the mode is
\* looked at, so that a confirmed write would run in any mode.
EvaluateConfirmFirst(cfg, op, m) ==
    IF ExplicitlyDenied(cfg, op, m) \/ OutsideAllowlist(cfg, op, m)
    THEN "policy_denied"
    ELSE IF ConfirmationDecision(cfg, m) # "allow" THEN ConfirmationDecision(cfg, m)
    ELSE IF ModeDecision(cfg, m) = "pass" THEN "allow" ELSE ModeDecision(cfg, m)

Evaluate(cfg, op, m) ==
    IF ExplicitlyDenied(cfg, op, m) \/ OutsideAllowlist(cfg, op, m)
    THEN "policy_denied"
    ELSE IF ModeDecision(cfg, m) # "pass" THEN ModeDecision(cfg, m)
    ELSE ConfirmationDecision(cfg, m)
=============================================================================
