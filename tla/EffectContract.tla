--------------------------- MODULE EffectContract ---------------------------
(***************************************************************************)
(* What the owner of one external effect promises, whatever crashes,       *)
(* retries, waiters and cancellations do: the effect is entered again only *)
(* when it may be repeated, it has at most one outcome for ever, no effect *)
(* is entered once there is an outcome, and the outcome does not lie:      *)
(* "denied" says that nothing was entered, "reported" is something the     *)
(* entered effect said.  ToolExecution is shown to implement it.           *)
(***************************************************************************)
EXTENDS Naturals

VARIABLES
    repeatable,  \* the effect is idempotent under its key
    effects,     \* how often the effect was entered
    outcome      \* "none" until it is settled

contractVars == <<repeatable, effects, outcome>>

Outcomes == {"reported", "denied", "interrupted", "error"}

ContractInit ==
    /\ repeatable \in BOOLEAN
    /\ effects = 0
    /\ outcome = "none"

Enter ==
    /\ outcome = "none"
    /\ effects = 0 \/ repeatable
    /\ effects' = effects + 1
    /\ UNCHANGED <<repeatable, outcome>>

Honest(o) ==
    /\ o = "denied" => effects = 0
    /\ o = "reported" => effects > 0

Settle(o) ==
    /\ outcome = "none"
    /\ Honest(o)
    /\ outcome' = o
    /\ UNCHANGED <<repeatable, effects>>

ContractNext == Enter \/ \E o \in Outcomes : Settle(o)

ContractSpec == ContractInit /\ [][ContractNext]_contractVars
=============================================================================
