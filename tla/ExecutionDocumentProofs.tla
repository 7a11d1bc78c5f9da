----------------------- MODULE ExecutionDocumentProofs -----------------------
(***************************************************************************)
(* The document keeps its type and its account of unknown outcomes through *)
(* any sequence of transactions, for any number of children and epochs.    *)
(* One lemma per writer of orchestrator.py: a good document stays good.    *)
(***************************************************************************)
EXTENDS ExecutionDocument, TLAPS

\* UnknownAccounted of an arbitrary document.
Accounted(d) ==
    /\ \A i \in Intent : d.intent[i] = "UNKNOWN_OUTCOME" => i \in d.unknown
    /\ \A i \in d.unknown : d.intent[i] # "NONE"
    /\ d.recon = "RECONCILED" => d.unknown = {}

Good(d) == d \in Document /\ Accounted(d)

\* Send intents are intents.
LEMMA SendIsIntent == \A s \in Send : SendIntent(s) \in Intent
BY DEF Intent, Sends

\* _initial_state.
LEMMA InitialGood == Good(InitialDocument)
BY DEF Good, Accounted, InitialDocument, Document, IntentState, Halts

\* _bootstrap_halted lists every intent it doubts.
LEMMA BootstrapGood == ASSUME NEW d, Good(d)  PROVE Good(Bootstrap(d))
<1> DEFINE doubted == {i \in Intent : d.intent[i] \in Active}
           unknown == d.unknown \cup doubted
           b == Bootstrap(d)
<1>1. /\ b.intent = [i \in Intent |-> IF i \in doubted THEN "UNKNOWN_OUTCOME"
                                                       ELSE d.intent[i]]
      /\ b.unknown = unknown
      /\ b.recon \in {"REQUIRED", "UNKNOWN"}
  BY DEF Bootstrap, Good, Document
<1>2. b \in Document
  BY DEF Bootstrap, Good, Document, Halts, IntentState
<1>3. Accounted(b)
  BY <1>1 DEF Accounted, Good, Active, Document
<1> QED  BY <1>2, <1>3 DEF Good

\* persist_intent creates an intent whose outcome is not in doubt.
LEMMA PersistGood ==
    ASSUME NEW d, Good(d), NEW i \in Intent, d.intent[i] = "NONE"
    PROVE  Good(PersistIntent(d, i))
BY DEF Good, Accounted, PersistIntent, Document, IntentState, Active

\* _mark_unknown lists the intent and withdraws RECONCILED.
LEMMA MarkUnknownGood ==
    ASSUME NEW d, Good(d), NEW i \in Intent  PROVE Good(MarkUnknown(d, i))
BY DEF Good, Accounted, MarkUnknown, Document, IntentState, Halts

\* _mark_intent_result never records an unknown outcome.
LEMMA MarkResultGood ==
    ASSUME NEW d, Good(d), NEW i \in Intent, NEW reply \in Reply \ {"UNKNOWN"},
           NEW hasId \in BOOLEAN
    PROVE  Good(MarkResult(d, i, reply, hasId))
<1> DEFINE r == MarkResult(d, i, reply, hasId)
           new == IF reply = "REJECTED" THEN "TERMINAL" ELSE reply
<1>1. new \in IntentState \ {"NONE", "UNKNOWN_OUTCOME"}
  BY DEF Reply, IntentState, Active, Closed
<1>2. /\ r.intent = [d.intent EXCEPT ![i] = new]
      /\ r.unknown = d.unknown /\ r.recon = d.recon
  BY DEF MarkResult, Good, Document
<1>3. r \in Document
  BY <1>1 DEF MarkResult, Good, Document
<1>4. Accounted(r)
  BY <1>1, <1>2 DEF Accounted, Good, Document
<1> QED  BY <1>3, <1>4 DEF Good

\* _mark_cancelled_target.
LEMMA CancelledTargetGood ==
    ASSUME NEW d, Good(d), NEW s \in Send  PROVE Good(MarkCancelledTarget(d, s))
BY SendIsIntent
   DEF Good, Accounted, MarkCancelledTarget, Document, IntentState, Closed

\* _close_unknown_if_resolved reconciles only when nothing is left unknown.
LEMMA CloseUnknownGood ==
    ASSUME NEW d, Good(d), NEW i \in Intent  PROVE Good(CloseUnknown(d, i))
<1> DEFINE c == CloseUnknown(d, i)
<1>1. /\ c.intent = [d.intent EXCEPT ![i] = "RECONCILED"]
      /\ c.unknown = d.unknown \ {i}
      /\ c.recon = IF c.unknown = {} THEN "RECONCILED" ELSE d.recon
  BY DEF CloseUnknown, Good, Document
<1>2. c \in Document
  BY DEF CloseUnknown, Good, Document, IntentState, Closed, Halts
<1>3. Accounted(c)
  BY <1>1 DEF Accounted, Good, Document
<1> QED  BY <1>2, <1>3 DEF Good

\* The writers of the halts, of the snapshot and of the commands touch
\* neither the intents nor the unknown outcomes.
LEMMA OtherGood ==
    ASSUME NEW d, Good(d), NEW live \in SUBSET Send
    PROVE  /\ Good(HaltReconcile(d)) /\ Good(ForceRevoke(d))
           /\ Good(EmergencyStop(d)) /\ Good(ApplySnapshot(d, live))
           /\ Good(Preview(d)) /\ Good(Enable(d)) /\ Good(Start(d))
           /\ Good(Stop(d)) /\ Good(Revoke(d)) /\ Good(Drain(d))
<1> USE DEF Good, Accounted, Document, Halts
<1>1. Good(HaltReconcile(d))        BY DEF HaltReconcile
<1>2. Good(ForceRevoke(d))          BY DEF ForceRevoke
<1>3. Good(EmergencyStop(d))        BY DEF EmergencyStop
<1>4. Good(ApplySnapshot(d, live))  BY DEF ApplySnapshot
<1>5. Good(Preview(d))              BY DEF Preview
<1>6. Good(Enable(d))               BY DEF Enable
<1>7. Good(Start(d))                BY DEF Start
<1>8. Good(Stop(d))                 BY DEF Stop
<1>9. Good(Revoke(d))               BY DEF Revoke
<1>10. Good(Drain(d))               BY DEF Drain
<1> QED
  BY <1>1, <1>2, <1>3, <1>4, <1>5, <1>6, <1>7, <1>8, <1>9, <1>10

\* The reconcile transaction keeps exactly the unanswered intents listed.
LEMMA ReconciledGood ==
    ASSUME NEW d, Good(d), NEW live \in SUBSET Send,
           NEW out \in [Recovery(d) -> Reply]
    PROVE  Good(Reconciled(d, live, out))
<1> DEFINE unknown == {i \in Recovery(d) : out[i] = "UNKNOWN"}
           r == Reconciled(d, live, out)
<1>1. Recovery(d) \subseteq Intent  BY DEF Recovery, Good, Document
<1>2. ASSUME NEW i \in Recovery(d)
      PROVE  /\ Recovered(d, i, out[i]) \in IntentState \ {"NONE"}
             /\ Recovered(d, i, out[i]) = "UNKNOWN_OUTCOME" => out[i] = "UNKNOWN"
  <2>1. out[i] \in Reply  OBVIOUS
  <2>2. i \notin d.unknown => d.intent[i] = "SUBMITTED"  BY DEF Recovery
  <2> QED  BY <2>1, <2>2 DEF Recovered, Reply, IntentState, Active, Closed
<1>3. /\ r.intent = [i \in Intent |-> IF i \in Recovery(d)
                                      THEN Recovered(d, i, out[i])
                                      ELSE d.intent[i]]
      /\ r.unknown = unknown
      /\ r.recon = IF unknown = {} THEN "RECONCILED" ELSE "UNKNOWN"
  BY DEF Reconciled, Good, Document
<1>4. r.intent \in [Intent -> IntentState]
  BY <1>2, <1>3 DEF Good, Document
<1>5. r \in Document
  <2> DEFINE int == [i \in Intent |-> IF i \in Recovery(d)
                                      THEN Recovered(d, i, out[i])
                                      ELSE d.intent[i]]
             rec == IF unknown = {} THEN "RECONCILED" ELSE "UNKNOWN"
             lif == IF unknown = {} THEN "READY" ELSE "HALTED_UNKNOWN_OUTCOME"
  <2>1. int \in [Intent -> IntentState]  BY <1>3, <1>4
  <2>2. unknown \in SUBSET Intent  BY <1>1
  <2>3. rec \in {"REQUIRED", "UNKNOWN", "RECONCILED"} /\ lif \in {"READY"} \cup Halts
    BY DEF Halts
  <2>4. r = [d EXCEPT !.intent = int, !.unknown = unknown, !.recon = rec,
                      !.lifecycle = lif, !.seen = live]
    BY DEF Reconciled
  <2> HIDE DEF int, unknown, rec, lif, r
  <2> QED  BY <2>1, <2>2, <2>3, <2>4 DEF Good, Document
<1>6. Accounted(r)
  <2>1. ASSUME NEW i \in Intent, r.intent[i] = "UNKNOWN_OUTCOME"
        PROVE  i \in r.unknown
    <3>1. CASE i \in Recovery(d)  BY <1>2, <1>3, <2>1, <3>1
    <3>2. CASE i \notin Recovery(d)
      BY <1>3, <2>1, <3>2 DEF Good, Accounted, Recovery
    <3> QED  BY <3>1, <3>2
  <2>2. ASSUME NEW i \in r.unknown  PROVE r.intent[i] # "NONE"
    BY <1>1, <1>2, <1>3
  <2>3. r.recon = "RECONCILED" => r.unknown = {}  BY <1>3
  <2> QED  BY <2>1, <2>2, <2>3 DEF Accounted
<1> QED  BY <1>5, <1>6 DEF Good

\* _apply_finalization_evidence.
LEMMA FinalizedGood ==
    ASSUME NEW d, Good(d), NEW onTarget \in BOOLEAN
    PROVE  Good(Finalized(d, onTarget))
<1>1. Good(HaltReconcile(d))  BY OtherGood
<1>2. Good([d EXCEPT !.plan = "TERMINAL", !.authority = "REVOKED"])
  BY DEF Good, Accounted, Document
<1> QED  BY <1>1, <1>2 DEF Finalized

-----------------------------------------------------------------------------
GoodDoc == Good(doc)

\* Every transaction keeps the document good.
LEMMA GoodStep == GoodDoc /\ [DocumentNext]_doc => GoodDoc'
<1> SUFFICES ASSUME Good(doc), DocumentNext  PROVE Good(doc')
  BY DEF GoodDoc
<1>1. CASE doc' = Bootstrap(doc)  BY <1>1, BootstrapGood
<1>2. CASE \E i \in Intent : ~Exists(i) /\ doc' = PersistIntent(doc, i)
  BY <1>2, PersistGood DEF Exists
<1>3. CASE \E i \in Intent : Exists(i) /\ doc' = MarkUnknown(doc, i)
  BY <1>3, MarkUnknownGood
<1>4. CASE \E i \in Intent, reply \in Reply \ {"UNKNOWN"}, hasId \in BOOLEAN :
              Exists(i) /\ doc' = MarkResult(doc, i, reply, hasId)
  BY <1>4, MarkResultGood
<1>5. CASE \E s \in Send : Exists(SendIntent(s)) /\ doc' = MarkCancelledTarget(doc, s)
  BY <1>5, CancelledTargetGood
<1>6. CASE \E i \in Intent : Exists(i) /\ doc' = CloseUnknown(doc, i)
  BY <1>6, CloseUnknownGood
<1>7. CASE \/ doc' = HaltReconcile(doc) \/ doc' = ForceRevoke(doc)
           \/ doc' = EmergencyStop(doc) \/ doc' = ApplySnapshot(doc, {})
           \/ doc' = Preview(doc) \/ doc' = Enable(doc) \/ doc' = Start(doc)
           \/ doc' = Stop(doc) \/ doc' = Revoke(doc) \/ doc' = Drain(doc)
  BY <1>7, OtherGood
<1>8. CASE \E live \in SUBSET Send, out \in [Recovery(doc) -> Reply], onTarget \in BOOLEAN :
              doc' = Finalized(Reconciled(doc, live, out), onTarget)
  BY <1>8, ReconciledGood, FinalizedGood
<1> QED
  BY <1>1, <1>2, <1>3, <1>4, <1>5, <1>6, <1>7, <1>8 DEF DocumentNext

\* Of every behaviour of the document: it is good.
LEMMA AlwaysGood == DocumentSpec => []GoodDoc
<1>1. DocumentInit => GoodDoc  BY InitialGood DEF DocumentInit, GoodDoc
<1> QED  BY <1>1, GoodStep, PTL DEF DocumentSpec

\* Every document the transactions of orchestrator.py can write has the shape
\* that repository.py _validate_state accepts.
THEOREM DocumentTypeCorrect == DocumentSpec => []DocumentTypeOK
<1>1. GoodDoc => DocumentTypeOK  BY DEF GoodDoc, Good, DocumentTypeOK
<1> QED  BY <1>1, AlwaysGood, PTL

\* An unknown outcome is listed until it is resolved, and while one is listed
\* the document does not claim RECONCILED, which is what _mutation_preflight
\* asks for before every order.
THEOREM UnknownAlwaysAccounted == DocumentSpec => []UnknownAccounted
<1>1. GoodDoc => UnknownAccounted  BY DEF GoodDoc, Good, Accounted, UnknownAccounted
<1> QED  BY <1>1, AlwaysGood, PTL
=============================================================================
