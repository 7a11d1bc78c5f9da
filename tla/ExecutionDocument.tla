-------------------------- MODULE ExecutionDocument --------------------------
(***************************************************************************)
(* The durable execution document and every transaction that rewrites it   *)
(* (backend/app/execution/orchestrator.py).  A transaction is a writer     *)
(* passed to DurableExecutionRepository.mutate: it runs on the newest      *)
(* document and commits atomically, so each writer is an operator from a   *)
(* document to the next one.                                               *)
(*                                                                         *)
(* There is one plan; what the properties do not tell apart (hashes,       *)
(* timestamps, audit rows, archives, command receipts) is left out.  The   *)
(* lease, also stored in the document, is modelled by LeaderFencer and by  *)
(* the composition.                                                        *)
(***************************************************************************)
EXTENDS Intents

VARIABLE doc

Halts == {"HALTED_RECONCILE_REQUIRED", "HALTED_UNKNOWN_OUTCOME"}

\* ACTIVE_INTENT_STATES and TERMINAL_INTENT_STATES.
Active == {"PERSISTED", "SUBMITTED", "ACKNOWLEDGED", "CANCEL_REQUESTED"}
Closed == {"TERMINAL", "RECONCILED", "CANCELLED"}

IntentState == {"NONE", "UNKNOWN_OUTCOME"} \cup Active \cup Closed

\* What a query of the gateway may answer.
Reply == {"UNKNOWN", "SUBMITTED", "ACKNOWLEDGED", "TERMINAL", "CANCELLED",
          "REJECTED"}

Document ==
    [lifecycle : {"STARTING", "READY", "DRAINING"} \cup Halts,
     recon     : {"REQUIRED", "UNKNOWN", "RECONCILED"},
     authority : {"DISABLED", "ENABLED", "REVOKED"},
     plan      : {"IDLE", "PREVIEWED", "ACTIVE", "TERMINAL"},
     intent    : [Intent -> IntentState],
     known     : SUBSET Intent,     \* intents with a broker_order_id
     unknown   : SUBSET Intent,     \* unknown_outcomes
     seen      : SUBSET Send]       \* broker.orders of the last snapshot

\* _initial_state.
InitialDocument ==
    [lifecycle |-> "STARTING", recon |-> "REQUIRED", authority |-> "DISABLED",
     plan |-> "IDLE", intent |-> [i \in Intent |-> "NONE"],
     known |-> {}, unknown |-> {}, seen |-> {}]

-----------------------------------------------------------------------------
(* Writers of the order path.                                              *)

\* Wrong: an intent that was not answered yet is not doubted.
Bootstrap_TrustsPersisted(d) ==
    [d EXCEPT !.lifecycle = IF d.unknown = {} THEN "HALTED_RECONCILE_REQUIRED"
                                              ELSE "HALTED_UNKNOWN_OUTCOME",
              !.recon = IF d.unknown = {} THEN "REQUIRED" ELSE "UNKNOWN"]

\* _bootstrap_halted: a starting process doubts every active intent.
Bootstrap(d) ==
    LET doubted == {i \in Intent : d.intent[i] \in Active}
        unknown == d.unknown \cup doubted
    IN [d EXCEPT
          !.intent = [i \in Intent |-> IF i \in doubted THEN "UNKNOWN_OUTCOME"
                                                        ELSE d.intent[i]],
          !.unknown = unknown,
          !.lifecycle = IF unknown = {} THEN "HALTED_RECONCILE_REQUIRED"
                                        ELSE "HALTED_UNKNOWN_OUTCOME",
          !.recon = IF unknown = {} THEN "REQUIRED" ELSE "UNKNOWN"]

\* persist_intent: the intent and its idempotency key, before any call.
PersistIntent(d, i) ==
    [d EXCEPT !.intent[i] = IF i \in Sends THEN "PERSISTED"
                                           ELSE "CANCEL_REQUESTED"]

\* _mark_unknown.
MarkUnknown(d, i) ==
    [d EXCEPT !.intent[i] = "UNKNOWN_OUTCOME",
              !.unknown = @ \cup {i},
              !.recon = "UNKNOWN",
              !.lifecycle = "HALTED_UNKNOWN_OUTCOME"]

\* Wrong: the gateway's word is stored as it comes.
MarkResult_Verbatim(d, i, reply, hasId) ==
    [d EXCEPT !.intent[i] = reply, !.known = IF hasId THEN @ \cup {i} ELSE @]

\* _apply_intent_result_transition; hasId: the answer carries a broker id.
\* The entry in unknown_outcomes, if there is one, stays.
MarkResult(d, i, reply, hasId) ==
    [d EXCEPT !.intent[i] = IF reply = "REJECTED" THEN "TERMINAL" ELSE reply,
              !.known = IF hasId THEN @ \cup {i} ELSE @]

\* _mark_cancelled_target.
MarkCancelledTarget(d, s) == [d EXCEPT !.intent[SendIntent(s)] = "TERMINAL"]

\* _close_unknown_if_resolved.
CloseUnknown(d, i) ==
    LET unknown == d.unknown \ {i}
    IN [d EXCEPT
          !.intent[i] = "RECONCILED",
          !.unknown = unknown,
          !.recon = IF unknown = {} THEN "RECONCILED" ELSE @,
          !.lifecycle = IF unknown = {} /\ @ = "HALTED_UNKNOWN_OUTCOME"
                        THEN "READY" ELSE @]

\* fail_closed_halt, _mark_cancel_failure and _mark_reconcile_halted.
HaltReconcile(d) ==
    [d EXCEPT !.lifecycle = "HALTED_RECONCILE_REQUIRED", !.recon = "REQUIRED"]

\* _force_revoke_after_cancel_failure.
ForceRevoke(d) ==
    [d EXCEPT !.authority = "REVOKED",
              !.lifecycle = IF @ = "HALTED_RECONCILE_REQUIRED" THEN @
                            ELSE "HALTED_UNKNOWN_OUTCOME"]

\* The writer of emergency_stop.
EmergencyStop(d) ==
    [d EXCEPT !.authority = "REVOKED",
              !.plan = "TERMINAL",
              !.lifecycle = IF d.unknown = {} THEN "READY"
                            ELSE "HALTED_UNKNOWN_OUTCOME"]

\* _apply_snapshot.
ApplySnapshot(d, live) == [d EXCEPT !.seen = live]

-----------------------------------------------------------------------------
(* Writers of the commands (_apply_command).                               *)

Preview(d) == [d EXCEPT !.plan = "PREVIEWED"]

Enable(d) ==
    [d EXCEPT !.authority = "ENABLED",
              !.lifecycle = IF @ = "STARTING" THEN "HALTED_RECONCILE_REQUIRED"
                            ELSE @]

\* With the gate of FinalExecutionRuntime.process_command in front of it.
Startable(d) ==
    /\ d.plan = "PREVIEWED"
    /\ d.authority = "ENABLED"
    /\ d.lifecycle \notin Halts \cup {"DRAINING"}
    /\ d.recon = "RECONCILED"

Start(d) == [d EXCEPT !.plan = "ACTIVE", !.lifecycle = "READY"]

Stop(d) ==
    [d EXCEPT !.plan = "TERMINAL",
              !.lifecycle = IF @ \in Halts THEN @ ELSE "READY"]

Revoke(d) == [d EXCEPT !.authority = "REVOKED"]

Drain(d) == [d EXCEPT !.lifecycle = "DRAINING"]

-----------------------------------------------------------------------------
(* Reconciliation.                                                         *)

\* _validate_reconcile_snapshot: an active order must match, by broker id, a
\* send intent that is not closed.
SnapshotCloses(d, live) ==
    \A s \in live : /\ SendIntent(s) \in d.known
                    /\ d.intent[SendIntent(s)] \notin Closed

\* The intents a reconcile queries: every unknown one, every SUBMITTED one.
Recovery(d) == d.unknown \cup {i \in Intent : d.intent[i] = "SUBMITTED"}

\* Wrong: every definite answer ends a SUBMITTED intent.
Recovered_AnyAnswer(d, i, reply) ==
    IF reply = "UNKNOWN" THEN "UNKNOWN_OUTCOME"
    ELSE IF i \in d.unknown THEN "RECONCILED" ELSE "TERMINAL"

\* The new state of a queried intent.  An unknown intent is closed by any
\* definite answer, whatever it says of the order.
Recovered(d, i, reply) ==
    CASE reply = "UNKNOWN" -> "UNKNOWN_OUTCOME"
      [] reply # "UNKNOWN" /\ i \in d.unknown -> "RECONCILED"
      [] reply \in {"TERMINAL", "REJECTED"} /\ i \notin d.unknown -> "TERMINAL"
      [] reply = "CANCELLED" /\ i \notin d.unknown -> "CANCELLED"
      [] OTHER -> d.intent[i]

\* Wrong: a SUBMITTED intent that turns unknown is not listed.
Reconciled_ListsOldOnly(d, live, out) ==
    LET unknown == {i \in d.unknown : out[i] = "UNKNOWN"}
    IN [d EXCEPT
          !.intent = [i \in Intent |-> IF i \in Recovery(d)
                                       THEN Recovered(d, i, out[i])
                                       ELSE d.intent[i]],
          !.unknown = unknown,
          !.recon = IF unknown = {} THEN "RECONCILED" ELSE "UNKNOWN",
          !.lifecycle = IF unknown = {} THEN "READY"
                        ELSE "HALTED_UNKNOWN_OUTCOME",
          !.seen = live]

\* The reconcile transaction up to its finalization.
Reconciled(d, live, out) ==
    LET unknown == {i \in Recovery(d) : out[i] = "UNKNOWN"}
    IN [d EXCEPT
          !.intent = [i \in Intent |-> IF i \in Recovery(d)
                                       THEN Recovered(d, i, out[i])
                                       ELSE d.intent[i]],
          !.unknown = unknown,
          !.recon = IF unknown = {} THEN "RECONCILED" ELSE "UNKNOWN",
          !.lifecycle = IF unknown = {} THEN "READY"
                        ELSE "HALTED_UNKNOWN_OUTCOME",
          !.seen = live]

\* _apply_finalization_evidence raises unless the authority is still enabled
\* (its expiry is not looked at); then the whole transaction is dropped.
Finalizable(d) == d.plan = "ACTIVE" /\ d.unknown = {} => d.authority = "ENABLED"

\* _apply_finalization_evidence: PENDING, COMPLETED or POSITION_MISMATCH.
Finalized(d, onTarget) ==
    IF \/ d.plan # "ACTIVE" \/ d.unknown # {} \/ d.seen # {}
       \/ \E i \in Sends : d.intent[i] \notin Closed
    THEN d
    ELSE IF onTarget
         THEN [d EXCEPT !.plan = "TERMINAL", !.authority = "REVOKED"]
         ELSE HaltReconcile(d)

\* _safe_to_restart_state, without the process-local halt.
SafeToRestart(d) ==
    /\ d.lifecycle \in {"READY", "DRAINING"}
    /\ d.recon = "RECONCILED"
    /\ d.unknown = {}
    /\ d.plan \in {"IDLE", "TERMINAL"}
    /\ d.seen = {}

-----------------------------------------------------------------------------
(* The document on its own: any transaction at any time, in any order, as  *)
(* long as its own checks on the document pass.  Every caller is an        *)
(* instance of this.                                                       *)

DocumentInit == doc = InitialDocument

Exists(i) == doc.intent[i] # "NONE"

DocumentNext ==
    \/ doc' = Bootstrap(doc)
    \/ \E i \in Intent : ~Exists(i) /\ doc' = PersistIntent(doc, i)
    \/ \E i \in Intent : Exists(i) /\ doc' = MarkUnknown(doc, i)
    \/ \E i \in Intent, reply \in Reply \ {"UNKNOWN"}, hasId \in BOOLEAN :
          Exists(i) /\ doc' = MarkResult(doc, i, reply, hasId)
    \/ \E s \in Send : Exists(SendIntent(s)) /\ doc' = MarkCancelledTarget(doc, s)
    \/ \E i \in Intent : Exists(i) /\ doc' = CloseUnknown(doc, i)
    \/ doc' = HaltReconcile(doc)
    \/ doc' = ForceRevoke(doc)
    \/ doc' = EmergencyStop(doc)
    \/ doc' = ApplySnapshot(doc, {})
    \/ doc' = Preview(doc)
    \/ doc' = Enable(doc)
    \/ Startable(doc) /\ doc' = Start(doc)
    \/ doc' = Stop(doc)
    \/ doc' = Revoke(doc)
    \/ doc' = Drain(doc)
    \/ \E live \in SUBSET Send, out \in [Recovery(doc) -> Reply], onTarget \in BOOLEAN :
          LET d == Reconciled(doc, live, out)
          IN Finalizable(d) /\ doc' = Finalized(d, onTarget)

DocumentSpec == DocumentInit /\ [][DocumentNext]_doc

DocumentTypeOK == doc \in Document

\* Whatever sequence of transactions runs: an intent whose outcome is unknown
\* is listed in unknown_outcomes, a listed intent exists (repository.py
\* _validate_state refuses to load anything else), and a document that claims
\* RECONCILED lists none.  So the RECONCILED test of _mutation_preflight stops
\* new orders as long as any outcome is unknown.
UnknownAccounted ==
    /\ \A i \in Intent : doc.intent[i] = "UNKNOWN_OUTCOME" => i \in doc.unknown
    /\ \A i \in doc.unknown : doc.intent[i] # "NONE"
    /\ doc.recon = "RECONCILED" => doc.unknown = {}
=============================================================================
