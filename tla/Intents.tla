------------------------------- MODULE Intents -------------------------------
(***************************************************************************)
(* The intents that the Execution service and the Windows order gateway    *)
(* exchange.  A plan has a fixed set of child orders, and the send intent  *)
(* of a child has a deterministic id (active_plan_resume.py                *)
(* expected_send_intent_bindings), so a child stands for its intent.  A    *)
(* cancel is deduplicated by its idempotency key                           *)
(* cancel-<target>-<fencing token> (orchestrator.py                        *)
(* _prepare_control_cancellation), so target and leader epoch stand for    *)
(* the cancel intent.                                                      *)
(***************************************************************************)
EXTENDS Naturals

CONSTANTS
    Send,       \* the child orders of the plan
    MaxEpoch    \* bound: largest leader epoch

ASSUME EpochAssumption == MaxEpoch \in Nat

SendIntent(s)      == [act |-> "send", of |-> s, epoch |-> 0]
CancelIntent(s, e) == [act |-> "cancel", of |-> s, epoch |-> e]

Sends   == {SendIntent(s) : s \in Send}
Cancels == {CancelIntent(s, e) : s \in Send, e \in 1..MaxEpoch}
Intent  == Sends \cup Cancels
=============================================================================
