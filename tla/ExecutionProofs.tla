--------------------------- MODULE ExecutionProofs ---------------------------
(***************************************************************************)
(* The composed service for any number of processes, children and epochs,  *)
(* with every command and every fault: it performs only transactions of    *)
(* ExecutionDocument and requests of WindowsFence, and places no child     *)
(* twice.                                                                  *)
(***************************************************************************)
EXTENDS Execution, ExecutionDocumentProofs, WindowsFenceProofs

-----------------------------------------------------------------------------
(* The invariant.                                                          *)

Exist(i) == doc.intent[i] # "NONE"

\* Which operation runs on which thread, and what a resume asks about.  A process
\* that is not running has no operation.
Fits(th, c) ==
    /\ th = "cmd" => c.op \in {"idle", "reconcile", "stop", "revoke", "drain"}
    /\ c.pc = "mutating" => c.op \notin {"idle", "query", "reconcile"} /\ c.epoch > 0
    /\ c.op \in {"resume", "query"} => "resume" \in Commands
    /\ c.op = "query" =>
          /\ \A s \in c.todo \cup c.live : Exist(SendIntent(s))
          /\ c.pc \in {"mark", "close"} => c.reply # "UNKNOWN"

ThreadInv ==
    \A p \in Proc, th \in Thread :
        Fits(th, call[p][th]) /\ (p \notin up => call[p][th] = IdleCall)

\* What a process may hold its mutation lock for.
Sound(h) ==
    /\ h.pc = "idle" <=> h.i = NoIntent
    /\ h.pc = "target" => h.i \in Cancels /\ h.reply = "CANCELLED"
    /\ h.pc = "replied" => \/ h.i \in Sends /\ h.reply = "SUBMITTED"
                           \/ h.i \in Cancels /\ h.reply \in {"CANCELLED", "REJECTED"}

\* What holds the mutation lock is in the document, and so is the target of a
\* cancel; its caller waits.
LockInv ==
    \A p \in Proc :
        /\ Sound(mut[p])
        /\ mut[p].i \in Intent => Exist(mut[p].i)
        /\ mut[p].i \in Cancels => Exist(SendIntent(mut[p].i.of))
        /\ mut[p].pc # "idle" => Caller(p).pc = "mutating"

\* No request for child s is on its way.
Silent(s) == \A m \in net : m.i # SendIntent(s)

\* The right to place the order of a child is passed on, never copied: from the
\* document without an intent to one holder of the lock, to one request, to the
\* order.
SendInv ==
    /\ \A s \in Send :
          /\ placed[s] <= 1
          /\ placed[s] = 1 => Silent(s)
          /\ ~Exist(SendIntent(s)) => Silent(s) /\ placed[s] = 0
          /\ \A p \in Proc : mut[p].i = SendIntent(s) /\ mut[p].pc = "persisted"
                             => Silent(s) /\ placed[s] = 0
    /\ \A m, n \in net : m.i = n.i /\ m.i \in Sends => m = n
    /\ \A p, q \in Proc : mut[p].i = mut[q].i /\ mut[p].i \in Sends => p = q

\* The process variables.
ProcInv ==
    /\ lease \in [owner : Proc \cup {NoProc}, epoch : 0..MaxEpoch, live : BOOLEAN]
    /\ lease.live => lease.epoch > 0
    /\ started \in BOOLEAN /\ expired \in BOOLEAN
    /\ up \subseteq Proc /\ halted \subseteq Proc /\ clean \subseteq Proc
    /\ tok \in [Proc -> 0..MaxEpoch]
    /\ call \in [Proc -> [Thread -> Operation]]
    /\ ThreadInv

MutInv == mut \in [Proc -> Holding] /\ net \subseteq Message /\ LockInv

ExecInv == GoodDoc /\ FenceInv /\ ProcInv /\ MutInv /\ SendInv

-----------------------------------------------------------------------------
(* Intents.                                                                *)

LEMMA IntentsApart ==
    /\ NoIntent \notin Intent
    /\ \A i \in Sends : i \notin Cancels
    /\ \A s \in Send, e \in 1..MaxEpoch :
          /\ CancelIntent(s, e) \in Cancels /\ CancelIntent(s, e) \in Intent
          /\ CancelIntent(s, e).of = s
    /\ \A r, s \in Send : SendIntent(r) = SendIntent(s) => r = s
<1>1. \A i \in Sends : i.act = "send"  BY DEF Sends, SendIntent
<1>2. \A i \in Cancels : i.act = "cancel"  BY DEF Cancels, CancelIntent
<1>3. NoIntent.act = "none"  BY DEF NoIntent
<1>4. NoIntent \notin Intent  BY <1>1, <1>2, <1>3 DEF Intent
<1>5. \A s \in Send, e \in 1..MaxEpoch :
          /\ CancelIntent(s, e) \in Cancels /\ CancelIntent(s, e) \in Intent
          /\ CancelIntent(s, e).of = s
  <2> TAKE s \in Send, e \in 1..MaxEpoch
  <2>1. CancelIntent(s, e) \in Cancels  BY DEF Cancels
  <2>2. CancelIntent(s, e).of = s  BY DEF CancelIntent
  <2> QED  BY <2>1, <2>2 DEF Intent
<1>6. \A r, s \in Send : SendIntent(r) = SendIntent(s) => r = s
  BY DEF SendIntent
<1> QED  BY <1>1, <1>2, <1>4, <1>5, <1>6

-----------------------------------------------------------------------------
(* The document.                                                           *)

\* A step of the document: one of its transactions, or none.
DocStep == DocumentNext \/ UNCHANGED doc

\* Intents are never removed.
Grows == \A i \in Intent : Exist(i) => Exist(i)'

LEMMA TransactionsKeepIntents ==
    ASSUME GoodDoc, DocumentNext  PROVE Grows
<1> USE DEF Grows, Exist
<1>0. doc \in Document /\ doc.intent \in [Intent -> IntentState]
  BY DEF GoodDoc, Good, Document
<1>1. CASE doc' = Bootstrap(doc)  BY <1>0, <1>1 DEF Bootstrap, Document
<1>2. ASSUME NEW i \in Intent, doc' = PersistIntent(doc, i)  PROVE Grows
  BY <1>0, <1>2 DEF PersistIntent, Document
<1>3. ASSUME NEW i \in Intent, doc' = MarkUnknown(doc, i)  PROVE Grows
  BY <1>0, <1>3 DEF MarkUnknown, Document
<1>4. ASSUME NEW i \in Intent, NEW reply \in Reply \ {"UNKNOWN"}, NEW hasId \in BOOLEAN,
             doc' = MarkResult(doc, i, reply, hasId)
      PROVE  Grows
  BY <1>0, <1>4 DEF MarkResult, Document, Reply
<1>5. ASSUME NEW s \in Send, doc' = MarkCancelledTarget(doc, s)  PROVE Grows
  BY <1>0, <1>5 DEF MarkCancelledTarget, Document
<1>6. ASSUME NEW i \in Intent, doc' = CloseUnknown(doc, i)  PROVE Grows
  BY <1>0, <1>6 DEF CloseUnknown, Document
<1>7. ASSUME NEW live \in SUBSET Send, NEW out \in [Recovery(doc) -> Reply],
             NEW onTarget \in BOOLEAN,
             doc' = Finalized(Reconciled(doc, live, out), onTarget)
      PROVE  Grows
  <2> DEFINE d == Reconciled(doc, live, out)
  <2>1. Recovery(doc) \subseteq Intent /\ \A i \in Recovery(doc) : Exist(i)
    BY <1>0 DEF Recovery, GoodDoc, Good, Accounted, Document
  <2>2. d.intent = [i \in Intent |-> IF i \in Recovery(doc) THEN Recovered(doc, i, out[i])
                                     ELSE doc.intent[i]]
    BY <1>0 DEF Reconciled, Document
  <2>3. ASSUME NEW i \in Recovery(doc)  PROVE Recovered(doc, i, out[i]) # "NONE"
    BY <2>1, <2>3 DEF Recovered, Reply
  <2>4. doc'.intent = d.intent
    <3>1. d \in Document  BY ReconciledGood DEF GoodDoc, Good
    <3> HIDE DEF d
    <3> QED  BY <1>7, <3>1 DEF Finalized, HaltReconcile, Document, d
  <2> QED  BY <2>1, <2>2, <2>3, <2>4
<1>8. CASE \/ doc' = HaltReconcile(doc) \/ doc' = ForceRevoke(doc)
           \/ doc' = EmergencyStop(doc) \/ doc' = ApplySnapshot(doc, {})
           \/ doc' = Preview(doc) \/ doc' = Enable(doc) \/ doc' = Start(doc)
           \/ doc' = Stop(doc) \/ doc' = Revoke(doc) \/ doc' = Drain(doc)
  BY <1>0, <1>8 DEF HaltReconcile, ForceRevoke, EmergencyStop, ApplySnapshot,
         Preview, Enable, Start, Stop, Revoke, Drain, Document
<1> QED
  BY <1>1, <1>2, <1>3, <1>4, <1>5, <1>6, <1>7, <1>8 DEF DocumentNext

LEMMA DocGrows == ASSUME GoodDoc, DocStep  PROVE Grows
BY TransactionsKeepIntents DEF DocStep, Grows, Exist

-----------------------------------------------------------------------------
(* Operations.                                                             *)

\* The thread has an operation, or its process can begin one.
Running(p, th) == p \in up \/ call[p][th] # IdleCall

LEMMA BusyRuns ==
    ASSUME NEW p, NEW th, call[p][th].op # "idle" \/ call[p][th].pc # "next"
    PROVE  Running(p, th)
BY DEF Running, IdleCall

\* A step gives thread th of p the operation c.
LEMMA CallUpdate ==
    ASSUME ProcInv, Grows, NEW p \in Proc, NEW th \in Thread, NEW c \in Operation,
           Fits(th, c), Running(p, th), UNCHANGED up, call' = [call EXCEPT ![p][th] = c]
    PROVE  call' \in [Proc -> [Thread -> Operation]] /\ ThreadInv'
<1>1. call' \in [Proc -> [Thread -> Operation]]  BY DEF ProcInv
<1>2. ASSUME NEW t \in Thread, NEW d \in Operation, Fits(t, d)  PROVE Fits(t, d)'
  BY <1>2, IntentFacts DEF Fits, Grows, Exist, Operation
<1>3. ASSUME NEW q \in Proc, NEW t \in Thread
      PROVE  Fits(t, call[q][t])' /\ (q \notin up' => call'[q][t] = IdleCall)
  <2> DEFINE d == IF q = p /\ t = th THEN c ELSE call[q][t]
  <2>1. d \in Operation /\ Fits(t, d)  BY DEF ProcInv, ThreadInv
  <2>2. call'[q][t] = d  BY DEF ProcInv
  <2>3. Fits(t, d)'  BY <1>2, <2>1
  <2>4. q \notin up' => d = IdleCall  BY DEF Running, ProcInv, ThreadInv
  <2> QED  BY <2>2, <2>3, <2>4
<1> QED  BY <1>1, <1>3 DEF ThreadInv

LEMMA CallSame ==
    ASSUME ProcInv, Grows, UNCHANGED call, up \subseteq up'
    PROVE  call' \in [Proc -> [Thread -> Operation]] /\ ThreadInv'
<1>1. ASSUME NEW t \in Thread, NEW d \in Operation, Fits(t, d)  PROVE Fits(t, d)'
  BY <1>1, IntentFacts DEF Fits, Grows, Exist, Operation
<1> QED  BY <1>1 DEF ProcInv, ThreadInv

LEMMA IdleFits == IdleCall \in Operation /\ \A th \in Thread : Fits(th, IdleCall)
BY EpochAssumption DEF IdleCall, Operation, Fits, Reply

\* A step gives thread th of p a sound operation.
Moves(p, th) ==
  /\ Running(p, th)
  /\ \E c \in Operation : Fits(th, c) /\ call' = [call EXCEPT ![p][th] = c]

LEMMA MovesKeeps ==
    ASSUME ProcInv, Grows, NEW p \in Proc, NEW th \in Thread, Moves(p, th), UNCHANGED up
    PROVE  call' \in [Proc -> [Thread -> Operation]] /\ ThreadInv'
BY CallUpdate DEF Moves

LEMMA CallFits ==
    ASSUME ProcInv, NEW p \in Proc, NEW th \in Thread
    PROVE  call[p][th] \in Operation /\ Fits(th, call[p][th])
BY DEF ProcInv, ThreadInv

LEMMA GotoMoves ==
    ASSUME ProcInv, NEW p \in Proc, NEW th \in Thread, Running(p, th),
           NEW pc \in {"next", "failed", "apply", "final", "halt", "close"},
           pc = "close" => call[p][th].pc = "mark", Goto(p, th, pc)
    PROVE  Moves(p, th)
<1> DEFINE c == [call[p][th] EXCEPT !.pc = pc]
<1>1. c \in Operation  BY CallFits DEF Operation
<1>2. Fits(th, c)  BY CallFits DEF Fits, Operation
<1>3. call' = [call EXCEPT ![p][th] = c]  BY DEF Goto
<1> QED  BY <1>1, <1>2, <1>3 DEF Moves

LEMMA DoneMoves ==
    ASSUME NEW p \in Proc, NEW th \in Thread, Running(p, th), Done(p, th)
    PROVE  Moves(p, th)
BY IdleFits DEF Done, SetCall, Moves

LEMMA DidMoves ==
    ASSUME ProcInv, NEW p \in Proc, NEW th \in Thread, Running(p, th),
           NEW s, Did(p, th, s)
    PROVE  Moves(p, th)
<1> DEFINE c == call[p][th]
           d == [c EXCEPT !.todo = @ \ {s}, !.pc = "next", !.live = {}, !.reply = "UNKNOWN"]
<1>0. c \in Operation /\ Fits(th, c)  BY CallFits
<1>1. call' = [call EXCEPT ![p][th] = IdleCall] \/ call' = [call EXCEPT ![p][th] = d]
  BY DEF Did, SetCall
<1> HIDE DEF c
<1>2. d \in Operation  BY <1>0 DEF Operation, Reply
<1>3. Fits(th, d)  BY <1>0 DEF Fits, Operation
<1> HIDE DEF d
<1> QED  BY <1>1, <1>2, <1>3, IdleFits DEF Moves

LEMMA EmergencyFits ==
    ASSUME ProcInv, NEW p \in Proc
    PROVE  /\ EmergencyCall(p) \in Operation
           /\ \A th \in Thread \ {"cmd"} : Fits(th, EmergencyCall(p))
<1> DEFINE e == EmergencyCall(p)
<1>1. tok[p] \in 0..MaxEpoch  BY DEF ProcInv
<1>2. e \in Operation
  BY <1>1, IdleFits DEF EmergencyCall, Operation, Control
<1>3. e.op = "emergency" /\ e.pc = "next"  BY DEF EmergencyCall, IdleCall
<1> QED  BY <1>2, <1>3 DEF Fits

LEMMA RaiseMoves ==
    ASSUME ProcInv, NEW p \in Proc, NEW th \in Thread, Running(p, th), Raise(p, th)
    PROVE  Moves(p, th)
<1> DEFINE c == call[p][th]
           d == [c EXCEPT !.pc = "abort"]
<1>0. c \in Operation /\ Fits(th, c)  BY CallFits
<1>1. \/ c.op = "dispatch" /\ call' = [call EXCEPT ![p][th] = EmergencyCall(p)]
      \/ call' = [call EXCEPT ![p][th] = d]
      \/ call' = [call EXCEPT ![p][th] = IdleCall]
  BY DEF Raise, SetCall
<1> HIDE DEF c
<1>2. d \in Operation /\ Fits(th, d)  BY <1>0 DEF Operation, Fits
<1>3. c.op = "dispatch" => th # "cmd"  BY <1>0 DEF Fits
<1> HIDE DEF d
<1> QED  BY <1>1, <1>2, <1>3, IdleFits, EmergencyFits DEF Moves

\* What a step does to the process variables, apart from leadership and the set
\* of running processes: one thread goes on, p may halt, reconciles may be lost.
Proceeds(p, th) ==
    /\ Moves(p, th) \/ UNCHANGED call
    /\ UNCHANGED envVars
    /\ halted' \in {halted, halted \cup {p}}
    /\ clean' \in {clean, {}, clean \cup {p}}

LEMMA ProceedsKeeps ==
    ASSUME ProcInv, Grows, NEW p \in Proc, NEW th \in Thread, Proceeds(p, th)
    PROVE  ProcInv'
<1>1. call' \in [Proc -> [Thread -> Operation]] /\ ThreadInv'
  BY MovesKeeps, CallSame DEF Proceeds, envVars
<1>2. halted' \subseteq Proc /\ clean' \subseteq Proc  BY DEF Proceeds, ProcInv
<1> QED  BY <1>1, <1>2 DEF Proceeds, ProcInv, envVars

-----------------------------------------------------------------------------
(* Steps that have no part in the life of an order.                        *)

\* Transactions that leave the intents alone.
PlainWrite ==
    \/ UNCHANGED doc
    \/ doc' = HaltReconcile(doc) \/ doc' = ForceRevoke(doc) \/ doc' = EmergencyStop(doc)
    \/ doc' = ApplySnapshot(doc, {}) \/ doc' = Preview(doc) \/ doc' = Enable(doc)
    \/ Startable(doc) /\ doc' = Start(doc)
    \/ doc' = Stop(doc) \/ doc' = Revoke(doc) \/ doc' = Drain(doc)

LEMMA PlainWrites ==
    ASSUME GoodDoc, PlainWrite
    PROVE  DocStep /\ doc'.intent = doc.intent /\ doc'.unknown = doc.unknown
<1>1. DocStep  BY DEF PlainWrite, DocStep, DocumentNext
<1>2. doc \in Document  BY DEF GoodDoc, Good
<1>3. doc'.intent = doc.intent /\ doc'.unknown = doc.unknown
  BY <1>2 DEF PlainWrite, HaltReconcile, ForceRevoke, EmergencyStop, ApplySnapshot,
         Preview, Enable, Start, Stop, Revoke, Drain, Document
<1> QED  BY <1>1, <1>3

\* An operation that holds the mutation lock waits for its outcome.
CallersWait ==
    \A p \in Proc, th \in Thread : call[p][th].pc = "mutating" => call'[p][th].pc = "mutating"

Apart ==
    /\ PlainWrite
    /\ UNCHANGED <<winVars, mut, net, up>>
    /\ halted \subseteq halted'
    /\ CallersWait

\* A step of one thread that does not wait for an outcome.
Aside(p, th) ==
    /\ UNCHANGED <<winVars, mut, net>>
    /\ Proceeds(p, th)
    /\ call[p][th].pc # "mutating"

Plain(p, th) == PlainWrite /\ Aside(p, th)

LEMMA AsideKeeps ==
    ASSUME ExecInv, NEW p \in Proc, NEW th \in Thread, Aside(p, th), DocStep
    PROVE  ProcInv' /\ CallersWait
<1>1. ProcInv'  BY DocGrows, ProceedsKeeps DEF ExecInv, Aside
<1>2. CallersWait
  BY DEF CallersWait, Aside, Proceeds, Moves, ExecInv, ProcInv
<1> QED  BY <1>1, <1>2

LEMMA PlainApart ==
    ASSUME ExecInv, NEW p \in Proc, NEW th \in Thread, Plain(p, th)
    PROVE  Apart /\ ProcInv'
<1>1. DocStep  BY PlainWrites DEF ExecInv, Plain
<1>2. ProcInv' /\ CallersWait  BY <1>1, AsideKeeps DEF Plain
<1>3. halted \subseteq halted'  BY DEF Plain, Aside, Proceeds
<1> QED  BY <1>2, <1>3 DEF Apart, Plain, Aside, Proceeds, envVars

\* A write of d that may fail and may halt the process.
LEMMA Writes ==
    ASSUME NEW p \in Proc, NEW d, CommitOrHalt(p, d)
    PROVE  /\ doc' = d \/ UNCHANGED doc
           /\ halted' \in {halted, halted \cup {p}}
           /\ clean' \in {clean, {}}
BY DEF CommitOrHalt, WriteHalts, WriteFails, Commit

LEMMA WriteOrNot ==
    ASSUME NEW d, Commit(d) \/ WriteFails(d)
    PROVE  (doc' = d \/ UNCHANGED doc) /\ clean' \in {clean, {}}
BY DEF WriteFails, Commit

LEMMA BeginControlStep ==
    ASSUME ExecInv, NEW p \in Proc, NEW op \in Control, BeginControl(p, op)
    PROVE  Plain(p, "cmd")
<1> DEFINE c == [IdleCall EXCEPT !.op = op, !.epoch = tok[p],
                   !.todo = {s \in Send : doc.intent[SendIntent(s)] \in Active}]
<1>1. op \in {"stop", "revoke", "drain"}
  BY ExecutionAssumption DEF BeginControl, Control
<1>2. c \in Operation  BY IdleFits DEF ExecInv, ProcInv, Operation
<1>3. c.op = op  BY DEF IdleCall
<1>4. Fits("cmd", c)  BY <1>1, <1>3 DEF Fits, IdleCall
<1>5. call' = [call EXCEPT ![p]["cmd"] = c]  BY DEF BeginControl
<1> HIDE DEF c
<1>6. Moves(p, "cmd")
  BY <1>2, <1>4, <1>5 DEF Moves, Running, BeginControl, CommandLock
<1>7. call[p]["cmd"].pc # "mutating"
  BY CallFits DEF BeginControl, CommandLock, ExecInv, Fits, Thread
<1> QED  BY <1>6, <1>7 DEF BeginControl, NoWrite, Plain, Aside, PlainWrite, Proceeds, envVars

LEMMA CancelFailsStep ==
    ASSUME ExecInv, NEW p \in Proc, NEW th \in Thread, CancelFails(p, th)
    PROVE  Plain(p, th)
<1>1. Moves(p, th)  BY BusyRuns, RaiseMoves DEF CancelFails, ExecInv
<1>2. CommitOrHalt(p, HaltReconcile(doc))  BY DEF CancelFails
<1> QED
  BY <1>1, <1>2, Writes DEF CancelFails, Plain, Aside, PlainWrite, Proceeds, envVars

LEMMA TakeSnapshotStep ==
    ASSUME ExecInv, NEW p \in Proc, NEW th \in Thread, TakeSnapshot(p, th)
    PROVE  Plain(p, th)
<1> DEFINE c == [call[p][th] EXCEPT !.pc = "apply", !.live = Live]
<1>1. call[p][th] \in Operation /\ Fits(th, call[p][th]) /\ call[p][th].op \in Control
  BY CallFits DEF TakeSnapshot, ExecInv
<1>2. c \in Operation /\ c.op = call[p][th].op  BY <1>1 DEF Operation, Live
<1>3. Fits(th, c)  BY <1>1, <1>2 DEF Fits, Control
<1>4. call' = [call EXCEPT ![p][th] = c]  BY DEF TakeSnapshot, SetCall
<1> HIDE DEF c
<1>5. Moves(p, th)  BY <1>1, <1>2, <1>3, <1>4, BusyRuns DEF Moves, Control
<1> QED  BY <1>5 DEF TakeSnapshot, NoWrite, Plain, Aside, PlainWrite, Proceeds, envVars

LEMMA UseSnapshotStep ==
    ASSUME ExecInv, NEW p \in Proc, NEW th \in Thread, UseSnapshot(p, th)
    PROVE  Plain(p, th)
<1>1. Moves(p, th)
  BY BusyRuns, GotoMoves, RaiseMoves DEF UseSnapshot, ExecInv
<1>2. /\ doc' = ApplySnapshot(doc, {}) \/ UNCHANGED doc
      /\ clean' \in {clean, {}} /\ halted' \in {halted, halted \cup {p}}
  BY DEF UseSnapshot, Commit, WriteFails
<1> QED  BY <1>1, <1>2 DEF UseSnapshot, Plain, Aside, PlainWrite, Proceeds, envVars

LEMMA RevokeAnywayStep ==
    ASSUME ExecInv, NEW p \in Proc, NEW th \in Thread, RevokeAnyway(p, th)
    PROVE  Plain(p, th)
<1>1. Moves(p, th)  BY BusyRuns, DoneMoves DEF RevokeAnyway
<1>2. CommitOrHalt(p, ForceRevoke(doc))  BY DEF RevokeAnyway
<1> QED
  BY <1>1, <1>2, Writes DEF RevokeAnyway, Plain, Aside, PlainWrite, Proceeds, envVars

LEMMA ApplyControlStep ==
    ASSUME ExecInv, NEW p \in Proc, ApplyControl(p)
    PROVE  Plain(p, "cmd")
<1>1. Moves(p, "cmd")  BY BusyRuns, DoneMoves DEF ApplyControl, Thread
<1>2. call[p]["cmd"].op \in {"stop", "revoke", "drain"}
  BY CallFits DEF ApplyControl, ExecInv, Fits, Thread, Control
<1>3. /\ doc' \in {doc, Stop(doc), Revoke(doc), Drain(doc)}
      /\ clean' \in {clean, {}}
  BY <1>2 DEF ApplyControl, Commit, WriteFails
<1> QED  BY <1>1, <1>3 DEF ApplyControl, Plain, Aside, PlainWrite, Proceeds, envVars

LEMMA ApplyEmergencyStep ==
    ASSUME ExecInv, NEW p \in Proc, NEW th \in Thread, ApplyEmergency(p, th)
    PROVE  Plain(p, th)
<1>1. Moves(p, th)  BY BusyRuns, DoneMoves, GotoMoves DEF ApplyEmergency, ExecInv
<1>2. Commit(EmergencyStop(doc)) \/ WriteFails(EmergencyStop(doc))
  BY DEF ApplyEmergency
<1> QED
  BY <1>1, <1>2, WriteOrNot DEF ApplyEmergency, Plain, Aside, PlainWrite, Proceeds, envVars

LEMMA HaltRunnerStep ==
    ASSUME ExecInv, NEW p \in Proc, NEW th \in Thread, HaltRunner(p, th)
    PROVE  Plain(p, th)
<1>1. Moves(p, th)  BY BusyRuns, DoneMoves DEF HaltRunner
<1>2. \/ Commit(HaltReconcile(doc)) \/ WriteFails(HaltReconcile(doc))
      \/ UNCHANGED <<doc, clean>>
  BY DEF HaltRunner
<1> QED
  BY <1>1, <1>2, WriteOrNot DEF HaltRunner, Plain, Aside, PlainWrite, Proceeds, envVars

LEMMA PreviewEnableStep ==
    ASSUME ExecInv, NEW p \in Proc, PreviewPlan(p) \/ EnableAuthority(p)
    PROVE  Plain(p, "cmd")
<1>1. call[p]["cmd"].pc # "mutating"
  BY CallFits DEF PreviewPlan, EnableAuthority, CommandLock, ExecInv, Fits, Thread
<1> QED
  BY <1>1 DEF PreviewPlan, EnableAuthority, Commit, Plain, Aside, PlainWrite, Proceeds

\* An operation begins on an idle thread.
LEMMA BeginMoves ==
    ASSUME ExecInv, NEW p \in Proc, NEW th \in Thread, NEW c \in Operation, Fits(th, c),
           call[p][th].op = "idle", p \in up, call' = [call EXCEPT ![p][th] = c]
    PROVE  Moves(p, th) /\ call[p][th].pc # "mutating"
BY CallFits DEF ExecInv, Moves, Running, Fits

LEMMA DispatchFits ==
    ASSUME ProcInv, NEW p \in Proc
    PROVE  /\ DispatchCall(p) \in Operation
           /\ \A th \in Thread \ {"cmd"} : Fits(th, DispatchCall(p))
<1> DEFINE c == DispatchCall(p)
<1>1. tok[p] \in 0..MaxEpoch  BY DEF ProcInv
<1>2. c \in Operation  BY <1>1, IdleFits DEF DispatchCall, Operation
<1>3. c.op = "dispatch" /\ c.pc = "next"  BY DEF DispatchCall, IdleCall
<1> QED  BY <1>2, <1>3 DEF Fits

LEMMA RetryStartStep ==
    ASSUME ExecInv, NEW p \in Proc, RetryStart(p)  PROVE Plain(p, "req")
<1>1. DispatchCall(p) \in Operation /\ Fits("req", DispatchCall(p))
  BY DispatchFits DEF ExecInv, Thread
<1>2. Moves(p, "req") /\ call[p]["req"].pc # "mutating"
  BY <1>1, BeginMoves DEF RetryStart, CommandLock, Thread
<1> QED  BY <1>2 DEF RetryStart, NoWrite, Plain, Aside, PlainWrite, Proceeds

LEMMA BeginReconcileStep ==
    ASSUME ExecInv, NEW p \in Proc, BeginReconcile(p)  PROVE Plain(p, "cmd")
<1> DEFINE c == [IdleCall EXCEPT !.op = "reconcile", !.pc = "commit", !.live = Live,
                                 !.onTarget = OnTarget]
<1>1. c \in Operation  BY IdleFits DEF Operation, Live, OnTarget
<1>2. c.op = "reconcile" /\ c.pc = "commit"  BY DEF IdleCall
<1>3. Fits("cmd", c)  BY <1>2 DEF Fits
<1>4. call' = [call EXCEPT ![p]["cmd"] = c]  BY DEF BeginReconcile
<1> HIDE DEF c
<1>5. Moves(p, "cmd") /\ call[p]["cmd"].pc # "mutating"
  BY <1>1, <1>3, <1>4, BeginMoves DEF BeginReconcile, CommandLock, Thread
<1> QED  BY <1>5 DEF BeginReconcile, Plain, Aside, PlainWrite, Proceeds

LEMMA BeginResumeStep ==
    ASSUME ExecInv, NEW p \in Proc, BeginResume(p)  PROVE Plain(p, "req")
<1> DEFINE queried == {s \in Send : doc.intent[SendIntent(s)]
                                      \in {"PERSISTED", "SUBMITTED", "UNKNOWN_OUTCOME"}}
           missing == {s \in Send : doc.intent[SendIntent(s)] = "NONE"}
           c == [IdleCall EXCEPT !.op = IF queried = {} THEN "resume" ELSE "query",
                                 !.todo = IF queried = {} THEN missing ELSE queried,
                                 !.epoch = tok[p]]
<1>1. call' = [call EXCEPT ![p]["req"] = c]  BY DEF BeginResume
<1>2. \A s \in queried : Exist(SendIntent(s))  BY DEF Exist
<1>3. queried \in SUBSET Send /\ missing \in SUBSET Send  OBVIOUS
<1> HIDE DEF queried, missing
<1>4. c \in Operation
  BY <1>3, IdleFits DEF ExecInv, ProcInv, Operation
<1>5. c.op = "query" => c.todo = queried  BY DEF IdleCall
<1>6. c.live = {} /\ c.pc = "next"  BY DEF IdleCall
<1>7. Fits("req", c)  BY <1>2, <1>5, <1>6 DEF Fits, BeginResume
<1> HIDE DEF c
<1>8. Moves(p, "req") /\ call[p]["req"].pc # "mutating"
  BY <1>1, <1>4, <1>7, BeginMoves DEF BeginResume, Thread
<1> QED  BY <1>8 DEF BeginResume, NoWrite, Plain, Aside, PlainWrite, Proceeds

LEMMA QueryReply ==
    ASSUME NEW i, NEW known, NEW reply \in QueryReplies(i, known)  PROVE reply \in Reply
BY DEF QueryReplies, StatusReply, Reply

LEMMA ResumeQueryStep ==
    ASSUME ExecInv, NEW p \in Proc, ResumeQuery(p)  PROVE Plain(p, "req")
<1> DEFINE c == call[p]["req"]
<1>0. c \in Operation /\ Fits("req", c) /\ c.op = "query" /\ c.pc = "next"
  BY CallFits DEF ExecInv, Thread, ResumeQuery
<1>1. CASE Done(p, "req") \/ \E s \in Send : Did(p, "req", s)
  <2>1. Moves(p, "req")  BY <1>0, <1>1, BusyRuns, DoneMoves, DidMoves DEF ExecInv, Thread
  <2> QED  BY <1>0, <2>1 DEF ResumeQuery, NoWrite, Plain, Aside, PlainWrite, Proceeds
<1>2. ASSUME NEW s \in Send, First(s, c.todo), NEW reply \in Reply \ {"UNKNOWN"},
             SetCall(p, "req", [c EXCEPT !.pc = "mark", !.live = {s}, !.reply = reply])
      PROVE  Plain(p, "req")
  <2> DEFINE d == [c EXCEPT !.pc = "mark", !.live = {s}, !.reply = reply]
  <2>1. d \in Operation  BY <1>0, <1>2 DEF Operation
  <2>2. s \in c.todo  BY <1>2 DEF First
  <2>3. Fits("req", d)  BY <1>0, <1>2, <2>2 DEF Fits, Operation
  <2>4. call' = [call EXCEPT ![p]["req"] = d]  BY <1>2 DEF SetCall
  <2> HIDE DEF d
  <2>5. Moves(p, "req")  BY <1>0, <2>1, <2>3, <2>4, BusyRuns DEF Moves
  <2> QED  BY <1>0, <2>5 DEF ResumeQuery, NoWrite, Plain, Aside, PlainWrite, Proceeds
<1> QED  BY <1>1, <1>2, QueryReply DEF ResumeQuery

\* Leadership, expiry and an accepted start.
LEMMA EnvironmentStep ==
    ASSUME ExecInv,
           \/ \E p \in Proc : Acquire(p) \/ Renew(p) \/ StartPlan(p)
           \/ LeaseLapses \/ AuthorityExpires
    PROVE  Apart /\ ProcInv'
<1> USE DEF ExecInv
<1>0. GoodDoc /\ ProcInv  OBVIOUS
<1>1. ASSUME NEW p \in Proc, Acquire(p)  PROVE Apart /\ ProcInv'
  <2>1. PlainWrite /\ Grows  BY <1>1 DEF Acquire, Commit, PlainWrite, Grows, Exist
  <2>2. call' \in [Proc -> [Thread -> Operation]] /\ ThreadInv'
    BY <1>1, <2>1, CallSame DEF Acquire
  <2>3. /\ lease'.live => lease'.epoch > 0
        /\ lease' \in [owner : Proc \cup {NoProc}, epoch : 0..MaxEpoch, live : BOOLEAN]
        /\ tok' \in [Proc -> 0..MaxEpoch]
    BY <1>1, EpochAssumption DEF Acquire, ProcInv
  <2> QED  BY <1>1, <2>1, <2>2, <2>3 DEF Acquire, Commit, ProcInv, Apart, CallersWait
<1>2. ASSUME NEW p \in Proc, Renew(p)  PROVE Apart /\ ProcInv'
  <2> DEFINE new(th) == [call[p][th] EXCEPT !.stale = call[p][th].op # "idle"]
  <2>1. PlainWrite /\ UNCHANGED doc  BY <1>2 DEF Renew, Commit, PlainWrite
  <2>2. call' = [call EXCEPT ![p] = [th \in Thread |-> new(th)]]  BY <1>2 DEF Renew
  <2>3. ASSUME NEW th \in Thread
        PROVE  new(th) \in Operation /\ Fits(th, new(th)) /\ new(th).pc = call[p][th].pc
    <3>1. call[p][th] \in Operation /\ Fits(th, call[p][th])  BY CallFits
    <3>2. /\ new(th) \in Operation
          /\ \A f \in {"op", "pc", "todo", "epoch", "live", "reply"} :
                new(th)[f] = call[p][th][f]
      BY <3>1 DEF Operation
    <3> QED  BY <3>1, <3>2 DEF Fits
  <2> HIDE DEF new
  <2>4. call' \in [Proc -> [Thread -> Operation]]  BY <2>2, <2>3 DEF ProcInv
  <2>5. ASSUME NEW q \in Proc, NEW th \in Thread
        PROVE  Fits(th, call'[q][th]) /\ call'[q][th].pc = call[q][th].pc
    BY <2>2, <2>3, CallFits DEF ProcInv
  <2>6. \A q \in Proc : q # p => call'[q] = call[q]  BY <2>2 DEF ProcInv
  <2>7. p \in up /\ UNCHANGED up  BY <1>2 DEF Renew, envVars
  <2>8. ThreadInv'
    <3>1. ASSUME NEW q \in Proc, NEW th \in Thread
          PROVE  Fits(th, call[q][th])' /\ (q \notin up' => call'[q][th] = IdleCall)
      <4>1. Fits(th, call'[q][th])  BY <2>5
      <4>2. q \notin up' => call'[q][th] = IdleCall
        BY <2>6, <2>7 DEF ProcInv, ThreadInv
      <4> QED  BY <2>1, <4>1, <4>2 DEF Fits, Exist
    <3> QED  BY <3>1 DEF ThreadInv
  <2> QED
    BY <1>2, <2>1, <2>4, <2>5, <2>8
    DEF Renew, Commit, envVars, ProcInv, Apart, CallersWait
<1>3. ASSUME NEW p \in Proc, StartPlan(p)  PROVE Apart /\ ProcInv'
  <2>1. /\ (Startable(doc) /\ doc' = Start(doc)) \/ UNCHANGED doc
        /\ clean' \in {clean, {}}
    BY <1>3 DEF StartPlan, Commit, WriteFails
  <2>2. PlainWrite  BY <2>1 DEF PlainWrite
  <2>3. Grows  BY <2>2, PlainWrites DEF Grows, Exist
  <2>4. /\ call[p]["run"].op = "idle" /\ "run" \in Thread
        /\ p \in up /\ UNCHANGED up
    BY <1>3 DEF StartPlan, CommandLock, Thread
  <2>5. CASE UNCHANGED call
    <3>1. call' \in [Proc -> [Thread -> Operation]] /\ ThreadInv'
      BY <2>3, <2>4, <2>5, CallSame
    <3>2. started' \in BOOLEAN  BY <1>3 DEF StartPlan, ProcInv
    <3> QED
      BY <1>3, <2>1, <2>2, <2>5, <3>1, <3>2
      DEF StartPlan, ProcInv, Apart, CallersWait
  <2>6. CASE call' = [call EXCEPT ![p]["run"] = DispatchCall(p)]
    <3>1. DispatchCall(p) \in Operation /\ Fits("run", DispatchCall(p))
      BY DispatchFits DEF Thread
    <3>2. Moves(p, "run") /\ call[p]["run"].pc # "mutating"
      BY <2>4, <2>6, <3>1, BeginMoves
    <3>3. call' \in [Proc -> [Thread -> Operation]] /\ ThreadInv'
      BY <2>3, <2>4, <3>2, MovesKeeps
    <3>4. CallersWait  BY <2>6, <3>2 DEF CallersWait, ProcInv
    <3>5. started' \in BOOLEAN  BY <1>3 DEF StartPlan, ProcInv
    <3> QED
      BY <1>3, <2>1, <2>2, <3>3, <3>4, <3>5 DEF StartPlan, ProcInv, Apart
  <2> QED  BY <1>3, <2>5, <2>6 DEF StartPlan
<1>4. CASE LeaseLapses \/ AuthorityExpires
  <2>1. PlainWrite /\ Grows /\ UNCHANGED <<call, up>>
    BY <1>4 DEF LeaseLapses, AuthorityExpires, PlainWrite, Grows, Exist
  <2>2. call' \in [Proc -> [Thread -> Operation]] /\ ThreadInv'  BY <2>1, CallSame
  <2>3. /\ lease'.live => lease'.epoch > 0
        /\ lease' \in [owner : Proc \cup {NoProc}, epoch : 0..MaxEpoch, live : BOOLEAN]
        /\ started' \in BOOLEAN /\ expired' \in BOOLEAN
    BY <1>4 DEF LeaseLapses, AuthorityExpires, ProcInv
  <2> QED
    BY <1>4, <2>1, <2>2, <2>3
    DEF LeaseLapses, AuthorityExpires, ProcInv, Apart, CallersWait
<1> QED  BY <1>1, <1>2, <1>3, <1>4

-----------------------------------------------------------------------------
(* What a step may do without creating a right to place an order.          *)

\* The right is not created by losing requests, by giving up the lock or by
\* writing to the document.
LEMMA RightsKept ==
    ASSUME SendInv, Grows, UNCHANGED placed, net' \subseteq net,
           \A q \in Proc : mut'[q].i \in Sends =>
               mut'[q].i = mut[q].i /\ (mut'[q].pc = "persisted" => mut[q].pc = "persisted")
    PROVE  SendInv'
<1>1. \A s \in Send : Silent(s) => Silent(s)'  BY DEF Silent
<1>2. \A s \in Send : ~Exist(SendIntent(s))' => ~Exist(SendIntent(s))
  BY IntentFacts DEF Grows
<1>3. ASSUME NEW s \in Send
      PROVE  /\ placed'[s] <= 1
             /\ placed'[s] = 1 => Silent(s)'
             /\ ~Exist(SendIntent(s))' => Silent(s)' /\ placed'[s] = 0
             /\ \A p \in Proc : mut'[p].i = SendIntent(s) /\ mut'[p].pc = "persisted"
                                => Silent(s)' /\ placed'[s] = 0
  BY <1>1, <1>2, IntentFacts DEF SendInv
<1>4. \A m, n \in net' : m.i = n.i /\ m.i \in Sends => m = n  BY DEF SendInv
<1>5. \A p, q \in Proc : mut'[p].i = mut'[q].i /\ mut'[p].i \in Sends => p = q
  BY DEF SendInv
<1> QED  BY <1>3, <1>4, <1>5 DEF SendInv

LEMMA IdleHolds ==
    IdleMut \in Holding /\ Sound(IdleMut) /\ IdleMut.i = NoIntent /\ IdleMut.pc = "idle"
BY DEF IdleMut, Holding, Thread, Sound

\* A process keeps what holds its lock, with the caller waiting, or gives it up.
LEMMA LocksKept ==
    ASSUME MutInv, Grows, mut' \in [Proc -> Holding], net' \subseteq Message,
           \A q \in Proc :
              \/ mut'[q] = IdleMut
              \/ /\ mut'[q].i = mut[q].i /\ mut'[q].by = mut[q].by
                 /\ Sound(mut'[q])
                 /\ mut[q].pc # "idle" => call'[q][mut[q].by].pc = "mutating"
    PROVE  MutInv'
<1> SUFFICES ASSUME NEW q \in Proc
             PROVE  /\ Sound(mut'[q])
                    /\ mut'[q].i \in Intent => doc'.intent[mut'[q].i] # "NONE"
                    /\ mut'[q].i \in Cancels => doc'.intent[SendIntent(mut'[q].i.of)] # "NONE"
                    /\ mut'[q].pc # "idle" => call'[q][mut'[q].by].pc = "mutating"
  BY DEF MutInv, LockInv, Exist, Caller, Sound
<1>1. CASE mut'[q] = IdleMut
  <2>1. NoIntent \notin Intent /\ NoIntent \notin Cancels  BY IntentsApart DEF Intent
  <2> QED  BY <1>1, <2>1, IdleHolds
<1>2. CASE /\ mut'[q].i = mut[q].i /\ mut'[q].by = mut[q].by
           /\ Sound(mut'[q])
           /\ mut[q].pc # "idle" => call'[q][mut[q].by].pc = "mutating"
  <2>1. mut[q].i \in Intent => doc'.intent[mut[q].i] # "NONE"
    BY DEF MutInv, LockInv, Grows, Exist
  <2>2. mut[q].i \in Cancels => doc'.intent[SendIntent(mut[q].i.of)] # "NONE"
    BY IntentFacts DEF MutInv, LockInv, Grows, Exist
  <2>3. mut'[q].pc = "idle" <=> mut[q].pc = "idle"  BY <1>2 DEF MutInv, LockInv, Sound
  <2> QED  BY <1>2, <2>1, <2>2, <2>3
<1> QED  BY <1>1, <1>2

\* A step of the document and a step of the gateway keep their own invariants.
LEMMA PartsKept ==
    ASSUME ExecInv, DocStep, [WindowsNext]_winVars  PROVE GoodDoc' /\ FenceInv' /\ Grows
BY GoodStep, FenceStep, DocGrows DEF ExecInv, DocStep

\* Steps that touch neither the gateway, nor the locks, nor the requests.
LEMMA StaysSound ==
    ASSUME ExecInv, DocStep, UNCHANGED <<winVars, mut, net>>, CallersWait, ProcInv'
    PROVE  ExecInv'
<1> USE DEF ExecInv
<1>1. GoodDoc' /\ FenceInv' /\ Grows  BY PartsKept
<1>2. SendInv'  BY <1>1, RightsKept DEF winVars
<1>3. \A q \in Proc : mut[q].pc # "idle" => call'[q][mut[q].by].pc = "mutating"
  BY DEF CallersWait, MutInv, LockInv, Caller, Holding
<1>4. MutInv'  BY <1>1, <1>3, LocksKept DEF MutInv, LockInv
<1> QED  BY <1>1, <1>2, <1>4

LEMMA ApartKeeps == ASSUME ExecInv, Apart, ProcInv'  PROVE ExecInv'
<1>1. DocStep  BY PlainWrites DEF Apart, ExecInv
<1> QED  BY <1>1, StaysSound DEF Apart

-----------------------------------------------------------------------------
(* The transaction that makes an intent durable.                           *)

\* p takes its lock for i, or the write fails after it was done.
Persists(p, th, i) ==
    /\ mut[p].pc = "idle" /\ ~Exist(i)
    /\ i \in Cancels => Exist(SendIntent(i.of))
    /\ doc' = PersistIntent(doc, i)
    /\ UNCHANGED <<winVars, halted, net>>
    /\ Proceeds(p, th) /\ call[p][th].pc # "mutating"
    /\ \/ UNCHANGED mut
       \/ /\ mut' = [mut EXCEPT ![p] = [IdleMut EXCEPT !.pc = "persisted", !.i = i, !.by = th]]
          /\ call'[p][th].pc = "mutating"

LEMMA MutateStep ==
    ASSUME ExecInv, NEW p \in Proc, NEW th \in Thread, NEW i, NEW ok,
           call[p][th].op \notin {"idle", "query", "reconcile"}, call[p][th].pc # "mutating",
           ok => /\ i \in Intent /\ ~Exist(i)
                 /\ call[p][th].epoch > 0
                 /\ i \in Cancels => Exist(SendIntent(i.of)),
           Mutate(p, th, i, ok), UNCHANGED <<winVars, envVars, net>>
    PROVE  Plain(p, th) \/ (i \in Intent /\ Persists(p, th, i))
<1> DEFINE c == [call[p][th] EXCEPT !.pc = "mutating"]
<1>0. ProcInv /\ call[p][th] \in Operation /\ Fits(th, call[p][th])
  BY CallFits DEF ExecInv
<1>1. CASE ok /\ mut[p].pc = "idle" /\ Persist(p, th, i) /\ UNCHANGED halted
  <2>1. c \in Operation  BY <1>0 DEF Operation
  <2>2. Fits(th, c)  BY <1>0, <1>1 DEF Fits, Operation
  <2>3. call' = [call EXCEPT ![p][th] = c]  BY <1>1 DEF Persist, Goto
  <2>4. call'[p][th].pc = "mutating"  BY <1>0, <2>3 DEF ProcInv, Operation
  <2> HIDE DEF c
  <2>5. Moves(p, th)  BY <2>1, <2>2, <2>3, BusyRuns DEF Moves
  <2> QED  BY <1>1, <2>4, <2>5 DEF Persist, Commit, Persists, Proceeds
<1>2. CASE /\ ok /\ mut[p].pc = "idle" /\ WriteFails(PersistIntent(doc, i))
           /\ Raise(p, th) /\ UNCHANGED <<mut, halted>>
  <2>1. Moves(p, th)  BY <1>0, <1>2, BusyRuns, RaiseMoves
  <2> QED
    BY <1>2, <2>1 DEF WriteFails, Commit, Persists, Proceeds, Plain, Aside, PlainWrite
<1>3. CASE Refuse(p, th)
  <2>1. Moves(p, th)  BY <1>0, <1>3, BusyRuns, RaiseMoves DEF Refuse
  <2> QED  BY <1>3, <2>1 DEF Refuse, NoWrite, Plain, Aside, PlainWrite, Proceeds
<1> QED  BY <1>1, <1>2, <1>3 DEF Mutate

LEMMA ReuseStep ==
    ASSUME ExecInv, NEW p \in Proc, NEW th \in Thread, NEW s,
           call[p][th].op # "idle", call[p][th].pc # "mutating",
           Reuse(p, th, s) \/ Refuse(p, th), UNCHANGED <<winVars, envVars, net>>
    PROVE  Plain(p, th)
<1>1. Moves(p, th)  BY BusyRuns, DidMoves, RaiseMoves DEF Reuse, Refuse, ExecInv
<1> QED  BY <1>1 DEF Reuse, Refuse, NoWrite, Plain, Aside, PlainWrite, Proceeds

\* Only the holder of the unexpired lease passes a preflight.
LEMMA HoldsEpoch ==
    ASSUME ProcInv, NEW p, NEW e, Holds(p, e)  PROVE e \in 1..MaxEpoch
BY EpochAssumption DEF ProcInv, Holds

LEMMA DispatchStep ==
    ASSUME ExecInv, NEW p \in Proc, NEW th \in Thread, Dispatch(p, th)
    PROVE  Plain(p, th) \/ \E i \in Intent : Persists(p, th, i)
<1> DEFINE c == call[p][th]
           ok == doc.lifecycle = "READY" /\ SendPreflight(p, c.epoch)
<1>1. c.op = "dispatch" /\ c.pc = "next" /\ UNCHANGED <<winVars, envVars, net>>
  BY DEF Dispatch
<1>2. PICK s \in Send :
         \/ Reuse(p, th, s) \/ Refuse(p, th)
         \/ doc.intent[SendIntent(s)] = "NONE" /\ Mutate(p, th, SendIntent(s), ok)
  BY DEF Dispatch
<1>3. CASE Reuse(p, th, s) \/ Refuse(p, th)  BY <1>1, <1>3, ReuseStep
<1>4. CASE doc.intent[SendIntent(s)] = "NONE" /\ Mutate(p, th, SendIntent(s), ok)
  <2>1. ok => c.epoch > 0  BY HoldsEpoch DEF SendPreflight, ExecInv
  <2>2. SendIntent(s) \in Intent /\ SendIntent(s) \notin Cancels
    BY IntentFacts, IntentsApart
  <2>3. ~Exist(SendIntent(s))  BY <1>4 DEF Exist
  <2> HIDE DEF ok
  <2> QED  BY <1>1, <1>4, <2>1, <2>2, <2>3, MutateStep
<1> QED  BY <1>2, <1>3, <1>4

LEMMA ResumeSendStep ==
    ASSUME ExecInv, NEW p \in Proc, ResumeSend(p)
    PROVE  Plain(p, "req") \/ \E i \in Intent : Persists(p, "req", i)
<1> DEFINE c == call[p]["req"]
           ok == doc.lifecycle = "READY" /\ SendPreflight(p, c.epoch)
<1>1. /\ c.op = "resume" /\ c.pc = "next" /\ UNCHANGED <<winVars, envVars, net>>
      /\ "req" \in Thread
  BY DEF ResumeSend, Thread
<1>2. PICK s \in Send :
         \/ Reuse(p, "req", s) \/ Refuse(p, "req")
         \/ doc.intent[SendIntent(s)] = "NONE" /\ Mutate(p, "req", SendIntent(s), ok)
  BY DEF ResumeSend
<1>3. CASE Reuse(p, "req", s) \/ Refuse(p, "req")  BY <1>1, <1>3, ReuseStep
<1>4. CASE doc.intent[SendIntent(s)] = "NONE" /\ Mutate(p, "req", SendIntent(s), ok)
  <2>1. ok => c.epoch > 0  BY HoldsEpoch DEF SendPreflight, ExecInv
  <2>2. SendIntent(s) \in Intent /\ SendIntent(s) \notin Cancels
    BY IntentFacts, IntentsApart
  <2>3. ~Exist(SendIntent(s))  BY <1>4 DEF Exist
  <2> HIDE DEF ok
  <2> QED  BY <1>1, <1>4, <2>1, <2>2, <2>3, MutateStep
<1> QED  BY <1>2, <1>3, <1>4

LEMMA CancelNextStep ==
    ASSUME ExecInv, NEW p \in Proc, NEW th \in Thread, CancelNext(p, th)
    PROVE  Plain(p, th) \/ \E i \in Intent : Persists(p, th, i)
<1> DEFINE c == call[p][th]
<1>1. c.op \in Control /\ c.pc = "next" /\ UNCHANGED <<winVars, envVars, net>>
  BY DEF CancelNext
<1>2. PICK s \in Send :
         LET state == IF c.epoch = 0 THEN "NONE" ELSE doc.intent[CancelIntent(s, c.epoch)]
             ok == CancelPreflight(p, s, c.epoch, c.stale, c.op = "emergency")
         IN \/ Reuse(p, th, s)
            \/ Goto(p, th, "failed") /\ NoWrite /\ UNCHANGED mut
            \/ state = "NONE" /\ Mutate(p, th, CancelIntent(s, c.epoch), ok)
  BY DEF CancelNext
<1> DEFINE i == CancelIntent(s, c.epoch)
           ok == CancelPreflight(p, s, c.epoch, c.stale, c.op = "emergency")
<1>3. CASE Reuse(p, th, s)  BY <1>1, <1>3, ReuseStep DEF Control
<1>4. CASE Goto(p, th, "failed") /\ NoWrite /\ UNCHANGED mut
  <2>1. Moves(p, th)  BY <1>1, <1>4, BusyRuns, GotoMoves DEF ExecInv, Control
  <2> QED  BY <1>1, <1>4, <2>1 DEF NoWrite, Plain, Aside, PlainWrite, Proceeds
<1>5. CASE /\ (IF c.epoch = 0 THEN "NONE" ELSE doc.intent[i]) = "NONE"
           /\ Mutate(p, th, i, ok)
  <2>1. ASSUME ok
        PROVE  /\ i \in Intent /\ i.of = s /\ c.epoch > 0 /\ ~Exist(i)
               /\ Exist(SendIntent(s))
    <3>1. c.epoch \in 1..MaxEpoch /\ c.epoch > 0
      BY <2>1, HoldsEpoch, EpochAssumption DEF CancelPreflight, Admitted, ExecInv
    <3>2. i \in Intent /\ i.of = s  BY <3>1, IntentsApart
    <3>3. Exist(SendIntent(s))  BY <2>1 DEF CancelPreflight, Exist
    <3>4. ~Exist(i)  BY <1>5, <3>1 DEF Exist
    <3> QED  BY <3>1, <3>2, <3>3, <3>4
  <2>2. c.op \notin {"idle", "query", "reconcile"}  BY <1>1 DEF Control
  <2> HIDE DEF ok, i
  <2> QED  BY <1>1, <1>5, <2>1, <2>2, MutateStep
<1> QED  BY <1>2, <1>3, <1>4, <1>5

\* The intent is new, so no request and no order of it exists, and nobody else
\* holds it.
LEMMA PersistsKeeps ==
    ASSUME ExecInv, NEW p \in Proc, NEW th \in Thread, NEW i \in Intent, Persists(p, th, i)
    PROVE  ExecInv' /\ DocStep
<1> USE DEF ExecInv
<1> DEFINE h == [IdleMut EXCEPT !.pc = "persisted", !.i = i, !.by = th]
<1>1. DocStep  BY DEF Persists, DocStep, DocumentNext, Exist, Exists
<1>2. UNCHANGED <<winVars, net>>  BY DEF Persists
<1>3. GoodDoc' /\ FenceInv' /\ Grows  BY <1>1, <1>2, PartsKept
<1>4. ProcInv'  BY <1>3, ProceedsKeeps DEF Persists
<1>5. CallersWait
  BY DEF CallersWait, Persists, Proceeds, Moves, ProcInv
<1>6. CASE UNCHANGED mut
  BY <1>1, <1>2, <1>4, <1>5, <1>6, StaysSound
<1>7. CASE /\ mut' = [mut EXCEPT ![p] = h]
           /\ call'[p][th].pc = "mutating"
  <2>1. /\ h \in Holding /\ h.pc = "persisted" /\ h.i = i /\ h.by = th
        /\ Sound(h)
    BY IdleHolds, IntentsApart DEF Holding, Sound
  <2> HIDE DEF h
  <2>2. mut' \in [Proc -> Holding] /\ mut'[p] = h
    BY <1>7, <2>1 DEF MutInv
  <2>3. \A q \in Proc \ {p} : mut'[q] = mut[q]  BY <1>7 DEF MutInv
  <2>4. doc'.intent[i] # "NONE"
    <3>1. doc \in Document  BY DEF GoodDoc, Good
    <3> QED  BY <3>1 DEF Persists, PersistIntent, Document
  <2>5. ASSUME NEW q \in Proc
        PROVE  /\ Sound(mut'[q])
               /\ mut'[q].i \in Intent => doc'.intent[mut'[q].i] # "NONE"
               /\ mut'[q].i \in Cancels => doc'.intent[SendIntent(mut'[q].i.of)] # "NONE"
               /\ mut'[q].pc # "idle" => call'[q][mut'[q].by].pc = "mutating"
    <3>1. CASE q = p
      <4>1. i \in Cancels => doc'.intent[SendIntent(i.of)] # "NONE"
        BY <1>3, IntentFacts DEF Persists, Grows, Exist
      <4> QED  BY <1>7, <2>1, <2>2, <2>4, <3>1, <4>1
    <3>2. CASE q # p
      <4>1. mut'[q] = mut[q]  BY <2>3, <3>2
      <4>2. mut[q].i \in Intent => doc'.intent[mut[q].i] # "NONE"
        BY <1>3 DEF MutInv, LockInv, Grows, Exist
      <4>3. mut[q].i \in Cancels => doc'.intent[SendIntent(mut[q].i.of)] # "NONE"
        BY <1>3, IntentFacts DEF MutInv, LockInv, Grows, Exist
      <4>4. mut[q].pc # "idle" => call'[q][mut[q].by].pc = "mutating"
        BY <1>5 DEF CallersWait, MutInv, LockInv, Caller, Holding
      <4> QED  BY <4>1, <4>2, <4>3, <4>4 DEF MutInv, LockInv
    <3> QED  BY <3>1, <3>2
  <2>6. LockInv'  BY <2>5 DEF LockInv, Exist, Caller, Sound
  <2>7. MutInv'  BY <1>2, <2>2, <2>6 DEF MutInv
  <2>8. SendInv'
    <3>1. \A s \in Send : Silent(s)' = Silent(s)  BY <1>2 DEF Silent
    <3>2. \A s \in Send : ~Exist(SendIntent(s))' => ~Exist(SendIntent(s))
      BY <1>3, IntentFacts DEF Grows
    <3>3. \A s \in Send : i = SendIntent(s) => Silent(s) /\ placed[s] = 0
      BY DEF Persists, SendInv
    <3>4. \A q \in Proc : mut[q].i # i  BY DEF Persists, MutInv, LockInv
    <3>5. ASSUME NEW s \in Send
          PROVE  /\ placed'[s] <= 1
                 /\ placed'[s] = 1 => Silent(s)'
                 /\ ~Exist(SendIntent(s))' => Silent(s)' /\ placed'[s] = 0
                 /\ \A q \in Proc : mut'[q].i = SendIntent(s) /\ mut'[q].pc = "persisted"
                                    => Silent(s)' /\ placed'[s] = 0
      <4>1. placed' = placed  BY <1>2 DEF winVars
      <4> QED  BY <2>1, <2>2, <2>3, <3>1, <3>2, <3>3, <4>1 DEF SendInv
    <3>6. \A m, n \in net' : m.i = n.i /\ m.i \in Sends => m = n
      BY <1>2 DEF SendInv
    <3>7. \A q, r \in Proc : mut'[q].i = mut'[r].i /\ mut'[q].i \in Sends => q = r
      BY <2>1, <2>2, <2>3, <3>4 DEF SendInv
    <3> QED  BY <3>5, <3>6, <3>7 DEF SendInv
  <2> QED  BY <1>1, <1>3, <1>4, <2>7, <2>8
<1> QED  BY <1>1, <1>6, <1>7 DEF Persists

-----------------------------------------------------------------------------
(* The end of a mutation.                                                  *)

\* p gives up its lock and the caller goes on.
Releases(p) ==
    /\ mut[p].pc # "idle"
    /\ Release(p)
    /\ Proceeds(p, mut[p].by)
    /\ UNCHANGED <<winVars, net>>

LEMMA ReleasesKeeps ==
    ASSUME ExecInv, NEW p \in Proc, Releases(p), DocStep  PROVE ExecInv'
<1> USE DEF ExecInv
<1>1. mut[p].by \in Thread  BY DEF MutInv, Holding
<1>2. GoodDoc' /\ FenceInv' /\ Grows  BY PartsKept DEF Releases
<1>3. ProcInv'  BY <1>1, <1>2, ProceedsKeeps DEF Releases
<1>4. /\ mut' \in [Proc -> Holding] /\ mut'[p] = IdleMut
      /\ \A q \in Proc \ {p} : mut'[q] = mut[q]
  BY IdleHolds DEF Releases, Release, MutInv
<1>5. \A q \in Proc \ {p} : mut[q].pc # "idle" => call'[q][mut[q].by].pc = "mutating"
  BY <1>1 DEF Releases, Proceeds, Moves, ProcInv, MutInv, LockInv, Caller
<1>6. MutInv'  BY <1>2, <1>4, <1>5, LocksKept DEF Releases, MutInv, LockInv
<1>7. SendInv'
  BY <1>2, <1>4, IdleHolds, IntentsApart, RightsKept DEF Releases, winVars, Intent
<1> QED  BY <1>2, <1>3, <1>6, <1>7

\* What a mutation that ends writes.
GivesUp(p) == mut[p].pc = "persisted" /\ Releases(p) /\ UNCHANGED doc

Doubts(p) ==
    /\ mut[p].pc \in {"install", "register", "call", "replied"}
    /\ Releases(p)
    /\ doc' = MarkUnknown(doc, mut[p].i) \/ (UNCHANGED doc /\ p \in halted')

Believes(p) ==
    /\ mut[p].pc = "replied"
    /\ \/ doc' = MarkResult(doc, mut[p].i, mut[p].reply, TRUE)
       \/ UNCHANGED doc /\ p \in halted'

Closes(p) ==
    /\ mut[p].pc = "target"
    /\ Releases(p)
    /\ doc' = MarkCancelledTarget(doc, mut[p].i.of) \/ UNCHANGED doc

\* The answer CANCELLED leaves the target to close.
Targets(p) ==
    /\ mut[p].reply = "CANCELLED"
    /\ mut' = [mut EXCEPT ![p].pc = "target"]
    /\ Proceeds(p, mut[p].by)
    /\ UNCHANGED <<winVars, net, call>>

LEMMA HeldIntent ==
    ASSUME ExecInv, NEW p \in Proc, mut[p].pc # "idle"
    PROVE  /\ mut[p].i \in Intent /\ Exist(mut[p].i) /\ mut[p].by \in Thread
           /\ mut[p].i \in Cancels => Exist(SendIntent(mut[p].i.of))
           /\ Running(p, mut[p].by)
<1>1. call[p][mut[p].by].pc = "mutating"  BY DEF ExecInv, MutInv, LockInv, Caller
<1>2. Running(p, mut[p].by)  BY <1>1, BusyRuns
<1> QED  BY <1>2 DEF ExecInv, MutInv, LockInv, Holding, Sound

LEMMA MutationWrites ==
    ASSUME ExecInv, NEW p \in Proc, GivesUp(p) \/ Doubts(p) \/ Believes(p) \/ Closes(p)
    PROVE  DocStep
<1>1. /\ mut[p].i \in Intent /\ Exists(mut[p].i)
      /\ mut[p].i \in Cancels => mut[p].i.of \in Send /\ Exists(SendIntent(mut[p].i.of))
  BY HeldIntent, IntentFacts DEF GivesUp, Doubts, Believes, Closes, Exist, Exists
<1>2. CASE GivesUp(p)  BY <1>2 DEF GivesUp, DocStep
<1>3. CASE Doubts(p)  BY <1>1, <1>3 DEF Doubts, DocStep, DocumentNext
<1>4. CASE Believes(p)
  <2>1. mut[p].reply \in Reply \ {"UNKNOWN"}
    BY <1>4 DEF Believes, ExecInv, MutInv, LockInv, Sound, Reply
  <2> QED  BY <1>1, <1>4, <2>1 DEF Believes, DocStep, DocumentNext
<1>5. CASE Closes(p)
  <2>1. mut[p].i \in Cancels  BY <1>5 DEF Closes, ExecInv, MutInv, LockInv, Sound
  <2> QED  BY <1>1, <1>5, <2>1 DEF Closes, DocStep, DocumentNext
<1> QED  BY <1>2, <1>3, <1>4, <1>5

LEMMA TargetsKeeps ==
    ASSUME ExecInv, NEW p \in Proc, Believes(p), Targets(p)  PROVE ExecInv'
<1> USE DEF ExecInv
<1>0. DocStep  BY MutationWrites
<1>1. mut[p].by \in Thread  BY DEF MutInv, Holding
<1>2. GoodDoc' /\ FenceInv' /\ Grows  BY <1>0, PartsKept DEF Targets
<1>3. ProcInv'  BY <1>1, <1>2, ProceedsKeeps DEF Targets
<1>4. /\ mut' \in [Proc -> Holding]
      /\ mut'[p].i = mut[p].i /\ mut'[p].by = mut[p].by /\ mut'[p].reply = mut[p].reply
      /\ mut'[p].pc = "target"
      /\ \A q \in Proc \ {p} : mut'[q] = mut[q]
  BY DEF Targets, MutInv, Holding
<1>5. Sound(mut'[p])
  BY <1>4, HeldIntent, IntentsApart DEF Believes, Targets, Sound, MutInv, LockInv
<1>6. \A q \in Proc : mut[q].pc # "idle" => call'[q][mut[q].by].pc = "mutating"
  BY DEF Targets, MutInv, LockInv, Caller
<1>7. MutInv'  BY <1>2, <1>4, <1>5, <1>6, LocksKept DEF Targets, MutInv, LockInv
<1>8. SendInv'  BY <1>2, <1>4, RightsKept DEF Targets, winVars
<1> QED  BY <1>2, <1>3, <1>7, <1>8

LEMMA OutcomeUnknownStep ==
    ASSUME ExecInv, NEW p \in Proc, OutcomeUnknown(p)  PROVE Doubts(p)
<1>1. mut[p].by \in Thread  BY DEF ExecInv, MutInv, Holding
<1>2. Moves(p, mut[p].by)  BY <1>1, HeldIntent, RaiseMoves DEF OutcomeUnknown, ExecInv
<1>3. /\ doc' = MarkUnknown(doc, mut[p].i) \/ (UNCHANGED doc /\ p \in halted')
      /\ halted' \in {halted, halted \cup {p}} /\ clean' \in {clean, {}}
  BY DEF OutcomeUnknown, CommitOrHalt, Commit, WriteHalts, WriteFails
<1> QED  BY <1>2, <1>3 DEF OutcomeUnknown, Doubts, Releases, Proceeds

LEMMA AcceptReplyStep ==
    ASSUME ExecInv, NEW p \in Proc, AcceptReply(p)
    PROVE  Doubts(p) \/ (Believes(p) /\ (Releases(p) \/ Targets(p)))
<1> DEFINE m == mut[p]
<1>0. /\ m.pc = "replied" /\ m.by \in Thread /\ Running(p, m.by)
      /\ UNCHANGED <<winVars, envVars, net>> /\ ProcInv
  BY HeldIntent DEF AcceptReply, ExecInv
<1>1. CASE CommitOrHalt(p, MarkUnknown(doc, m.i)) /\ Release(p) /\ Raise(p, m.by)
  <2>1. Moves(p, m.by)  BY <1>0, <1>1, RaiseMoves
  <2>2. /\ doc' = MarkUnknown(doc, m.i) \/ (UNCHANGED doc /\ p \in halted')
        /\ halted' \in {halted, halted \cup {p}} /\ clean' \in {clean, {}}
    BY <1>1 DEF CommitOrHalt, Commit, WriteHalts, WriteFails
  <2> QED  BY <1>0, <1>1, <2>1, <2>2 DEF Doubts, Releases, Proceeds
<1>2. CASE WriteHalts(p, MarkResult(doc, m.i, m.reply, TRUE)) /\ Release(p) /\ Raise(p, m.by)
  <2>1. Moves(p, m.by)  BY <1>0, <1>2, RaiseMoves
  <2>2. /\ \/ doc' = MarkResult(doc, m.i, m.reply, TRUE)
           \/ UNCHANGED doc /\ p \in halted'
        /\ halted' \in {halted, halted \cup {p}} /\ clean' \in {clean, {}}
    BY <1>2 DEF Commit, WriteHalts, WriteFails
  <2> QED  BY <1>0, <1>2, <2>1, <2>2 DEF Believes, Releases, Proceeds
<1>3. CASE /\ Commit(MarkResult(doc, m.i, m.reply, TRUE)) /\ UNCHANGED halted
           /\ m.reply = "CANCELLED" /\ mut' = [mut EXCEPT ![p].pc = "target"]
           /\ UNCHANGED call
  BY <1>0, <1>3 DEF Commit, Believes, Targets, Proceeds
<1>4. CASE /\ Commit(MarkResult(doc, m.i, m.reply, TRUE)) /\ UNCHANGED halted
           /\ Release(p) /\ (Goto(p, m.by, "failed") \/ Goto(p, m.by, "next"))
  <2>1. Moves(p, m.by)  BY <1>0, <1>4, GotoMoves
  <2> QED  BY <1>0, <1>4, <2>1 DEF Commit, Believes, Releases, Proceeds
<1> QED  BY <1>1, <1>2, <1>3, <1>4 DEF AcceptReply

LEMMA CloseTargetStep ==
    ASSUME ExecInv, NEW p \in Proc, CloseTarget(p)  PROVE Closes(p)
<1>1. mut[p].by \in Thread  BY DEF ExecInv, MutInv, Holding
<1>2. Moves(p, mut[p].by)  BY <1>1, HeldIntent, RaiseMoves, GotoMoves DEF CloseTarget, ExecInv
<1>3. /\ doc' = MarkCancelledTarget(doc, mut[p].i.of) \/ UNCHANGED doc
      /\ clean' \in {clean, {}}
  BY DEF CloseTarget, Commit, WriteFails
<1> QED  BY <1>2, <1>3 DEF CloseTarget, Closes, Releases, Proceeds

-----------------------------------------------------------------------------
(* Requests.                                                               *)

\* The first request.
Enters(p) ==
    /\ mut[p].pc = "persisted"
    /\ mut' = [mut EXCEPT ![p].pc = "install"]
    /\ net' = net \cup {Request(p, "install")}
    /\ UNCHANGED <<winVars, doc, envVars, halted, clean, call>>

LEMMA EnterGatewayStep ==
    ASSUME ExecInv, NEW p \in Proc, EnterGateway(p)  PROVE GivesUp(p) \/ Enters(p)
<1>1. mut[p].by \in Thread  BY DEF ExecInv, MutInv, Holding
<1>2. CASE Release(p) /\ Raise(p, mut[p].by) /\ UNCHANGED net
  <2>1. Moves(p, mut[p].by)
    BY <1>1, <1>2, HeldIntent, RaiseMoves DEF EnterGateway, ExecInv
  <2> QED  BY <1>2, <2>1 DEF EnterGateway, NoWrite, GivesUp, Releases, Proceeds
<1> QED  BY <1>2 DEF EnterGateway, Enters, NoWrite

\* A request of a process whose lock is taken.
LEMMA RequestTyped ==
    ASSUME ExecInv, NEW p \in Proc, mut[p].pc # "idle", NEW op \in {"install", "register", "call"}
    PROVE  Request(p, op) \in Message /\ Request(p, op).i = mut[p].i
<1>1. mut[p].i \in Intent /\ mut[p].by \in Thread  BY HeldIntent
<1>2. Caller(p) \in Operation /\ Caller(p).pc = "mutating" /\ Fits(mut[p].by, Caller(p))
  BY <1>1, CallFits DEF Caller, ExecInv, MutInv, LockInv
<1>3. Caller(p).epoch \in 1..MaxEpoch
  BY <1>2, EpochAssumption DEF Fits, Operation
<1> QED  BY <1>1, <1>3 DEF Request, Message

LEMMA EntersKeeps == ASSUME ExecInv, NEW p \in Proc, Enters(p)  PROVE ExecInv'
<1> USE DEF ExecInv
<1> DEFINE m == Request(p, "install")
<1>1. m \in Message /\ m.i = mut[p].i  BY RequestTyped DEF Enters
<1> HIDE DEF m
<1>2. net' = net \cup {m} /\ UNCHANGED <<winVars, doc>>  BY DEF Enters, m
<1>3. GoodDoc' /\ FenceInv' /\ Grows  BY <1>2, PartsKept DEF DocStep
<1>4. Proceeds(p, "run") /\ "run" \in Thread  BY DEF Enters, Proceeds, Thread
<1>5. ProcInv'  BY <1>3, <1>4, ProceedsKeeps
<1>6. /\ mut' \in [Proc -> Holding]
      /\ mut'[p].i = mut[p].i /\ mut'[p].by = mut[p].by /\ mut'[p].pc = "install"
      /\ \A q \in Proc \ {p} : mut'[q] = mut[q]
  BY DEF Enters, MutInv, Holding
<1>7. Sound(mut'[p])
  BY <1>6, HeldIntent, IntentsApart DEF Enters, Sound
<1>8. \A q \in Proc : mut[q].pc # "idle" => call'[q][mut[q].by].pc = "mutating"
  BY DEF Enters, MutInv, LockInv, Caller
<1>9. MutInv'  BY <1>1, <1>2, <1>3, <1>6, <1>7, <1>8, LocksKept DEF MutInv, LockInv
<1>10. SendInv'
  <2>1. ASSUME NEW s \in Send
        PROVE  /\ m.i # SendIntent(s) => Silent(s)' = Silent(s)
               /\ m.i = SendIntent(s) => Silent(s) /\ placed[s] = 0 /\ Exist(SendIntent(s))
    <3>1. m.i # SendIntent(s) => Silent(s)' = Silent(s)  BY <1>2 DEF Silent
    <3>2. m.i = SendIntent(s) => Silent(s) /\ placed[s] = 0
      BY <1>1 DEF SendInv, Enters
    <3>3. m.i = SendIntent(s) => Exist(SendIntent(s))
      BY <1>1, HeldIntent DEF Enters
    <3> QED  BY <3>1, <3>2, <3>3
  <2>2. ASSUME NEW s \in Send
        PROVE  /\ placed'[s] <= 1
               /\ placed'[s] = 1 => Silent(s)'
               /\ ~Exist(SendIntent(s))' => Silent(s)' /\ placed'[s] = 0
               /\ \A q \in Proc : mut'[q].i = SendIntent(s) /\ mut'[q].pc = "persisted"
                                  => Silent(s)' /\ placed'[s] = 0
    <3>1. placed' = placed /\ Exist(SendIntent(s))' = Exist(SendIntent(s))
      BY <1>2 DEF winVars, Exist
    <3>2. CASE m.i = SendIntent(s)
      <4>1. \A q \in Proc : mut'[q].i = SendIntent(s) => q = p
        BY <1>1, <1>6, <3>2, IntentFacts DEF SendInv
      <4> QED  BY <1>6, <2>1, <3>1, <3>2, <4>1
    <3>3. CASE m.i # SendIntent(s)
      BY <1>1, <1>6, <2>1, <3>1, <3>3 DEF SendInv
    <3> QED  BY <3>2, <3>3
  <2>3. \A n \in net : n.i \in Sends => n.i # m.i
    <3>1. ASSUME NEW n \in net, n.i \in Sends, n.i = m.i  PROVE FALSE
      <4>1. n.i.of \in Send /\ n.i = SendIntent(n.i.of)  BY <3>1, IntentFacts
      <4> QED  BY <2>1, <3>1, <4>1 DEF Silent
    <3> QED  BY <3>1
  <2>4. \A n, k \in net' : n.i = k.i /\ n.i \in Sends => n = k
    BY <1>2, <2>3 DEF SendInv
  <2>5. \A q, r \in Proc : mut'[q].i = mut'[r].i /\ mut'[q].i \in Sends => q = r
    BY <1>6 DEF SendInv
  <2> QED  BY <2>2, <2>4, <2>5 DEF SendInv
<1> QED  BY <1>3, <1>5, <1>9, <1>10

\* The fates of a handled request: it is consumed, the client that waits for it
\* sends the next one, or it gets its answer.
Consumed(m) == net' = net \ {m} /\ UNCHANGED mut

Forwarded(p, m, op) ==
    /\ mut[p].pc = m.op /\ mut[p].i = m.i
    /\ mut' = [mut EXCEPT ![p].pc = op, ![p].reply = "ERROR"]
    /\ net' = (net \ {m}) \cup {Request(p, op)}

Answered(p, m, reply) ==
    /\ mut[p].pc = "call" /\ mut[p].i = m.i
    /\ mut' = [mut EXCEPT ![p].pc = "replied", ![p].reply = reply]
    /\ net' = net \ {m}

Others == UNCHANGED <<doc, envVars, halted, clean, call>>

LEMMA OthersKeep == ASSUME ExecInv, Others  PROVE GoodDoc' /\ ProcInv' /\ Grows
<1>1. GoodDoc' /\ Grows  BY GoodStep, DocGrows DEF ExecInv, Others, DocStep
<1>2. call' \in [Proc -> [Thread -> Operation]] /\ ThreadInv'
  BY <1>1, CallSame DEF ExecInv, Others, envVars
<1> QED  BY <1>1, <1>2 DEF ExecInv, Others, ProcInv, envVars

LEMMA ConsumedKeeps ==
    ASSUME ExecInv, NEW m \in net, Consumed(m), Others, UNCHANGED placed
    PROVE  MutInv' /\ SendInv'
<1> USE DEF ExecInv
<1>1. Grows  BY OthersKeep
<1>2. SendInv'  BY <1>1, RightsKept DEF Consumed
<1>3. \A q \in Proc : mut[q].pc # "idle" => call'[q][mut[q].by].pc = "mutating"
  BY DEF Others, MutInv, LockInv, Caller
<1>4. MutInv'  BY <1>1, <1>3, LocksKept DEF Consumed, MutInv, LockInv
<1> QED  BY <1>2, <1>4

\* A client passes its lock on with the same intent.
LEMMA ForwardLocks ==
    ASSUME ExecInv, NEW m \in net, NEW p \in Proc, Others,
           mut[p].pc = m.op, mut[p].i = m.i,
           NEW pc \in {"register", "call", "replied"},
           NEW reply \in {"ERROR", "SUBMITTED", "CANCELLED", "REJECTED"},
           pc = "replied" => \/ m.i \in Sends /\ reply = "SUBMITTED"
                             \/ m.i \in Cancels /\ reply \in {"CANCELLED", "REJECTED"},
           mut' = [mut EXCEPT ![p].pc = pc, ![p].reply = reply], net' \subseteq Message
    PROVE  /\ MutInv'
           /\ mut'[p].i = m.i /\ mut'[p].pc = pc
           /\ \A q \in Proc \ {p} : mut'[q] = mut[q]
<1> USE DEF ExecInv
<1>0. m.op \in {"install", "register", "call"} /\ m.i \in Intent  BY DEF MutInv, Message
<1>1. Grows  BY OthersKeep
<1>2. /\ mut' \in [Proc -> Holding]
      /\ mut'[p].i = mut[p].i /\ mut'[p].by = mut[p].by /\ mut'[p].pc = pc
      /\ mut'[p].reply = reply
      /\ \A q \in Proc \ {p} : mut'[q] = mut[q]
  BY DEF MutInv, Holding
<1>3. Sound(mut'[p])  BY <1>0, <1>2, IntentsApart DEF Sound
<1>4. \A q \in Proc : mut[q].pc # "idle" => call'[q][mut[q].by].pc = "mutating"
  BY DEF Others, MutInv, LockInv, Caller
<1>5. MutInv'  BY <1>1, <1>2, <1>3, <1>4, LocksKept DEF MutInv, LockInv
<1> QED  BY <1>2, <1>5

LEMMA ForwardedKeeps ==
    ASSUME ExecInv, NEW m \in net, NEW p \in Proc, NEW op \in {"register", "call"},
           Forwarded(p, m, op), Others, UNCHANGED placed
    PROVE  MutInv' /\ SendInv'
<1> USE DEF ExecInv
<1> DEFINE n == Request(p, op)
<1>1. m.op \in {"install", "register", "call"}  BY DEF MutInv, Message
<1>2. n \in Message /\ n.i = m.i  BY <1>1, RequestTyped DEF Forwarded
<1> HIDE DEF n
<1>3. net' = (net \ {m}) \cup {n} /\ net' \subseteq Message
  BY <1>2 DEF Forwarded, MutInv, n
<1>4. MutInv' /\ mut'[p].i = m.i /\ mut'[p].pc = op /\ \A q \in Proc \ {p} : mut'[q] = mut[q]
  BY <1>3, ForwardLocks DEF Forwarded
<1>5. ASSUME NEW s \in Send
      PROVE  Silent(s) => Silent(s)'
  BY <1>2, <1>3 DEF Silent
<1>6. ASSUME NEW s \in Send
      PROVE  /\ placed'[s] <= 1
             /\ placed'[s] = 1 => Silent(s)'
             /\ ~Exist(SendIntent(s))' => Silent(s)' /\ placed'[s] = 0
             /\ \A q \in Proc : mut'[q].i = SendIntent(s) /\ mut'[q].pc = "persisted"
                                => Silent(s)' /\ placed'[s] = 0
  <2>1. Exist(SendIntent(s))' = Exist(SendIntent(s))  BY DEF Others, Exist
  <2> QED  BY <1>4, <1>5, <2>1 DEF SendInv
<1>7. \A k, l \in net' : k.i = l.i /\ k.i \in Sends => k = l
  BY <1>2, <1>3 DEF SendInv
<1>8. \A q, r \in Proc : mut'[q].i = mut'[r].i /\ mut'[q].i \in Sends => q = r
  <2>1. \A q \in Proc : mut'[q].i = mut[q].i  BY <1>4 DEF Forwarded
  <2> QED  BY <2>1 DEF SendInv
<1> QED  BY <1>4, <1>6, <1>7, <1>8 DEF SendInv

LEMMA AnsweredKeeps ==
    ASSUME ExecInv, NEW m \in net, NEW p \in Proc, NEW reply,
           m.op = "call", Answered(p, m, reply), Others, UNCHANGED placed,
           \/ m.i \in Sends /\ reply = "SUBMITTED"
           \/ m.i \in Cancels /\ reply \in {"CANCELLED", "REJECTED"}
    PROVE  MutInv' /\ SendInv'
<1> USE DEF ExecInv
<1>1. net' \subseteq net /\ net' \subseteq Message  BY DEF Answered, MutInv
<1>2. MutInv' /\ mut'[p].i = m.i /\ mut'[p].pc = "replied"
      /\ \A q \in Proc \ {p} : mut'[q] = mut[q]
  BY <1>1, ForwardLocks DEF Answered
<1>3. SendInv'  BY <1>1, <1>2, OthersKeep, RightsKept DEF Answered
<1> QED  BY <1>2, <1>3

\* The one request for the child becomes its one order.
LEMMA PlacedKeeps ==
    ASSUME ExecInv, NEW m \in net, m.op = "call", m.i \in Sends, Others,
           PlaceOrder(m.i, m.epoch),
           Consumed(m) \/ \E p \in Proc : Answered(p, m, "SUBMITTED")
    PROVE  MutInv' /\ SendInv' /\ placed[m.i.of] = 0
<1> USE DEF ExecInv
<1> DEFINE r == m.i.of
<1>1. r \in Send /\ m.i = SendIntent(r)  BY IntentFacts
<1>2. ~Silent(r)  BY <1>1 DEF Silent
<1>3. placed \in [Send -> Nat]  BY DEF FenceInv, WindowsTypeOK
<1>4. placed[r] = 0
  <2>1. placed[r] <= 1 /\ placed[r] # 1  BY <1>1, <1>2 DEF SendInv
  <2> QED  BY <1>1, <1>3, <2>1
<1>5. placed' = [placed EXCEPT ![r] = 1]
  BY <1>1, <1>3, <1>4 DEF PlaceOrder, NativeSend
<1>6. net' = net \ {m}  BY DEF Consumed, Answered
<1>7. MutInv' /\ \A q \in Proc : mut'[q].i = mut[q].i
                                /\ (mut'[q].pc = "persisted" => mut[q].pc = "persisted")
  <2>1. CASE Consumed(m)
    <3>1. \A q \in Proc : mut[q].pc # "idle" => call'[q][mut[q].by].pc = "mutating"
      BY DEF Others, MutInv, LockInv, Caller
    <3>2. MutInv'  BY <2>1, <3>1, OthersKeep, LocksKept DEF Consumed, MutInv, LockInv
    <3> QED  BY <2>1, <3>2 DEF Consumed
  <2>2. ASSUME NEW p \in Proc, Answered(p, m, "SUBMITTED")
        PROVE  MutInv' /\ \A q \in Proc : mut'[q].i = mut[q].i
                                /\ (mut'[q].pc = "persisted" => mut[q].pc = "persisted")
    <3>1. MutInv' /\ mut'[p].i = m.i /\ mut'[p].pc = "replied"
          /\ \A q \in Proc \ {p} : mut'[q] = mut[q]
      BY <1>6, <2>2, ForwardLocks DEF Answered, MutInv
    <3> QED  BY <2>2, <3>1 DEF Answered
  <2> QED  BY <2>1, <2>2
<1>8. ASSUME NEW s \in Send
      PROVE  /\ placed'[s] <= 1
             /\ placed'[s] = 1 => Silent(s)'
             /\ ~Exist(SendIntent(s))' => Silent(s)' /\ placed'[s] = 0
             /\ \A q \in Proc : mut'[q].i = SendIntent(s) /\ mut'[q].pc = "persisted"
                                => Silent(s)' /\ placed'[s] = 0
  <2>1. Exist(SendIntent(s))' = Exist(SendIntent(s))  BY DEF Others, Exist
  <2>2. CASE s = r
    <3>1. Silent(s)'  BY <1>1, <1>6, <2>2 DEF Silent, SendInv
    <3>2. Exist(SendIntent(s))  BY <1>1, <1>2, <2>2 DEF SendInv
    <3>3. \A q \in Proc : ~(mut[q].i = SendIntent(s) /\ mut[q].pc = "persisted")
      BY <1>1, <1>2, <2>2 DEF SendInv
    <3> QED  BY <1>1, <1>3, <1>5, <1>7, <2>1, <2>2, <3>1, <3>2, <3>3
  <2>3. CASE s # r
    <3>1. placed'[s] = placed[s]  BY <1>3, <1>5, <2>3
    <3>2. Silent(s) => Silent(s)'  BY <1>6 DEF Silent
    <3> QED  BY <1>7, <2>1, <3>1, <3>2 DEF SendInv
  <2> QED  BY <2>2, <2>3
<1>9. \A k, l \in net' : k.i = l.i /\ k.i \in Sends => k = l  BY <1>6 DEF SendInv
<1>10. \A p, q \in Proc : mut'[p].i = mut'[q].i /\ mut'[p].i \in Sends => p = q
  BY <1>7 DEF SendInv
<1> QED  BY <1>4, <1>7, <1>8, <1>9, <1>10 DEF SendInv

\* What the gateway does with a request, and what becomes of the request.
Passed(m) ==
    /\ m.op \in {"install", "register"}
    /\ m.op = "register" => receipt'[m.i] > 0
    /\ UNCHANGED <<order, placed>>

Cancelled(m, reply) ==
    /\ m.op = "call" /\ m.i \in Cancels
    /\ RequestCancel(m.i, m.epoch)
    /\ reply = CancelReply(order'[m.i.of])

LEMMA HandleStep ==
    ASSUME ExecInv, NEW m \in net, Handle(m)
    PROVE  /\ Others /\ [WindowsNext]_winVars
           /\ \/ Consumed(m) /\ UNCHANGED winVars
              \/ /\ Passed(m)
                 /\ \/ Consumed(m)
                    \/ \E p \in Proc : Forwarded(p, m, IF m.op = "install" THEN "register"
                                                                          ELSE "call")
              \/ /\ m.op = "call" /\ m.i \in Sends /\ PlaceOrder(m.i, m.epoch)
                 /\ Consumed(m) \/ \E p \in Proc : Answered(p, m, "SUBMITTED")
              \/ \E reply \in {"ERROR", "CANCELLED", "REJECTED"} :
                   /\ Cancelled(m, reply)
                   /\ \/ Consumed(m)
                      \/ reply # "ERROR" /\ \E p \in Proc : Answered(p, m, reply)
<1>0. m.i \in Intent /\ m.epoch \in 1..MaxEpoch  BY DEF ExecInv, MutInv, Message
<1>1. Others  BY DEF Handle, NoWrite, Others
<1>2. CASE HandleInstall(m)
  <2>1. CASE InstallFence(m.epoch) /\ Answer(m, "register", "ERROR")
    <3>1. Consumed(m) \/ \E p \in Proc : Forwarded(p, m, "register")
      BY <2>1 DEF Answer, Waiting, Advance, Consumed, Forwarded
    <3>2. [WindowsNext]_winVars  BY <1>0, <2>1 DEF WindowsNext
    <3>3. Passed(m) /\ m.op = "install"  BY <1>2, <2>1 DEF HandleInstall, InstallFence, Passed
    <3> QED  BY <1>1, <3>1, <3>2, <3>3
  <2>2. CASE InstallDoubtful(m.epoch) /\ Consumed(m)
    <3>1. [WindowsNext]_winVars  BY <1>0, <2>2 DEF WindowsNext
    <3>2. Passed(m)  BY <1>2, <2>2 DEF HandleInstall, InstallDoubtful, Passed
    <3> QED  BY <1>1, <2>2, <3>1, <3>2
  <2>3. CASE UNCHANGED winVars /\ Consumed(m)  BY <1>1, <2>3
  <2> QED  BY <1>2, <2>1, <2>2, <2>3 DEF HandleInstall, Consumed
<1>3. CASE HandleRegister(m)
  <2>1. CASE RegisterReceipt(m.i, m.epoch) /\ Answer(m, "call", "ERROR")
    <3>1. Consumed(m) \/ \E p \in Proc : Forwarded(p, m, "call")
      BY <2>1 DEF Answer, Waiting, Advance, Consumed, Forwarded
    <3>2. [WindowsNext]_winVars  BY <1>0, <2>1 DEF WindowsNext
    <3>3. receipt'[m.i] > 0
      BY <1>0, <2>1, EpochAssumption DEF RegisterReceipt, ExecInv, FenceInv, WindowsTypeOK
    <3>4. Passed(m) /\ m.op = "register"
      BY <1>3, <2>1, <3>3 DEF HandleRegister, RegisterReceipt, Passed
    <3> QED  BY <1>1, <3>1, <3>2, <3>4
  <2>2. CASE UNCHANGED winVars /\ Consumed(m)  BY <1>1, <2>2
  <2> QED  BY <1>3, <2>1, <2>2 DEF HandleRegister, Consumed
<1>4. CASE HandleSend(m)
  <2>1. CASE PlaceOrder(m.i, m.epoch) /\ Answer(m, "replied", "SUBMITTED")
    <3>0. m.op = "call" /\ m.i \in Sends  BY <1>4 DEF HandleSend
    <3>1. Consumed(m) \/ \E p \in Proc : Answered(p, m, "SUBMITTED")
      BY <2>1, <3>0 DEF Answer, Waiting, Advance, Consumed, Answered
    <3>2. placed[m.i.of] = 0  BY <1>1, <2>1, <3>0, <3>1, PlacedKeeps
    <3>3. [WindowsNext]_winVars
      BY <1>0, <2>1, <3>0, <3>2 DEF WindowsNext, MaxPlaced
    <3> QED  BY <1>1, <2>1, <3>0, <3>1, <3>3
  <2>2. CASE UNCHANGED winVars /\ Consumed(m)  BY <1>1, <2>2
  <2> QED  BY <1>4, <2>1, <2>2 DEF HandleSend, Consumed
<1>5. CASE HandleCancel(m)
  <2> DEFINE reply == CancelReply(order'[m.i.of])
  <2>0. m.op = "call" /\ m.i \in Cancels  BY <1>5 DEF HandleCancel
  <2>1. CASE /\ RequestCancel(m.i, m.epoch)
             /\ IF reply = "ERROR" THEN Consumed(m) ELSE Answer(m, "replied", reply)
    <3>1. reply \in {"ERROR", "CANCELLED", "REJECTED"}  BY DEF CancelReply
    <3>2. Cancelled(m, reply)  BY <2>0, <2>1 DEF Cancelled
    <3>3. Consumed(m) \/ (reply # "ERROR" /\ \E p \in Proc : Answered(p, m, reply))
      BY <2>0, <2>1 DEF Answer, Waiting, Advance, Consumed, Answered
    <3>4. [WindowsNext]_winVars  BY <1>0, <2>0, <2>1 DEF WindowsNext
    <3> HIDE DEF reply
    <3> QED  BY <1>1, <3>1, <3>2, <3>3, <3>4
  <2>2. CASE UNCHANGED winVars /\ Consumed(m)  BY <1>1, <2>2
  <2> QED  BY <1>5, <2>1, <2>2 DEF HandleCancel, Consumed
<1> QED  BY <1>2, <1>3, <1>4, <1>5 DEF Handle

LEMMA HandleKeeps == ASSUME ExecInv, NEW m \in net, Handle(m)  PROVE ExecInv'
<1>1. Others /\ [WindowsNext]_winVars  BY HandleStep
<1>2. GoodDoc' /\ ProcInv' /\ FenceInv'
  BY <1>1, OthersKeep, FenceStep DEF ExecInv
<1>3. CASE Consumed(m) /\ UNCHANGED placed  BY <1>1, <1>2, <1>3, ConsumedKeeps DEF ExecInv
<1>4. ASSUME NEW p \in Proc, NEW op \in {"register", "call"}, Forwarded(p, m, op),
             UNCHANGED placed
      PROVE  ExecInv'
  BY <1>1, <1>2, <1>4, ForwardedKeeps DEF ExecInv
<1>5. CASE /\ m.op = "call" /\ m.i \in Sends /\ PlaceOrder(m.i, m.epoch)
           /\ Consumed(m) \/ \E p \in Proc : Answered(p, m, "SUBMITTED")
  BY <1>1, <1>2, <1>5, PlacedKeeps DEF ExecInv
<1>6. ASSUME NEW reply \in {"CANCELLED", "REJECTED"}, Cancelled(m, reply),
             NEW p \in Proc, Answered(p, m, reply)
      PROVE  ExecInv'
  <2>1. UNCHANGED placed /\ m.op = "call" /\ m.i \in Cancels
    BY <1>6 DEF Cancelled, RequestCancel, NativeCancel
  <2>2. MutInv' /\ SendInv'  BY <1>1, <1>6, <2>1, AnsweredKeeps
  <2> QED  BY <1>2, <2>2 DEF ExecInv
<1>7. ASSUME NEW reply, Cancelled(m, reply)  PROVE UNCHANGED placed
  BY <1>7 DEF Cancelled, RequestCancel, NativeCancel
<1>8. Passed(m) \/ UNCHANGED winVars => UNCHANGED placed  BY DEF Passed, winVars
<1> QED  BY <1>3, <1>4, <1>5, <1>6, <1>7, <1>8, HandleStep

-----------------------------------------------------------------------------
(* Reconciliation, resume, start and crash of a process, the world.        *)

\* A reconcile that closes: the answers are those of the gateway.
Reconciles ==
    \E live \in SUBSET Send, out \in [Recovery(doc) -> Reply], onTarget \in BOOLEAN :
       /\ \A i \in Recovery(doc) : out[i] \in QueryReplies(i, i \in doc.known)
       /\ Finalizable(Reconciled(doc, live, out))
       /\ doc' = Finalized(Reconciled(doc, live, out), onTarget)

LEMMA FinishReconcileStep ==
    ASSUME ExecInv, NEW p \in Proc, FinishReconcile(p)
    PROVE  Aside(p, "cmd") /\ (PlainWrite \/ Reconciles)
<1> DEFINE c == call[p]["cmd"]
<1>0. c \in Operation /\ Fits("cmd", c) /\ c.op = "reconcile" /\ "cmd" \in Thread
  BY CallFits DEF ExecInv, FinishReconcile, Thread
<1>1. Moves(p, "cmd") /\ c.pc # "mutating"
  BY <1>0, BusyRuns, DoneMoves DEF FinishReconcile, Fits
<1>2. c.live \in SUBSET Send /\ c.onTarget \in BOOLEAN  BY <1>0 DEF Operation
<1> HIDE DEF c
<1>3. /\ UNCHANGED <<winVars, envVars, mut, net>>
      /\ halted' \in {halted, halted \cup {p}} /\ clean' \in {clean, {}}
  BY DEF FinishReconcile, CommitOrHalt, WriteHalts, WriteFails, Commit, NoWrite
<1>4. Aside(p, "cmd")  BY <1>1, <1>3 DEF Aside, Proceeds, c
<1>5. CASE CommitOrHalt(p, HaltReconcile(doc))
  BY <1>4, <1>5, Writes DEF PlainWrite
<1>6. ASSUME NEW out \in [Recovery(doc) -> Reply],
             \A i \in Recovery(doc) : out[i] \in QueryReplies(i, i \in doc.known),
             LET e == Finalized(Reconciled(doc, c.live, out), c.onTarget)
             IN IF Finalizable(Reconciled(doc, c.live, out)) THEN Commit(e) \/ WriteFails(e)
                ELSE UNCHANGED <<doc, clean>>
      PROVE  PlainWrite \/ Reconciles
  BY <1>2, <1>6 DEF Commit, WriteFails, PlainWrite, Reconciles
<1>7. CASE NoWrite  BY <1>4, <1>7 DEF NoWrite, PlainWrite
<1> QED
  BY <1>4, <1>5, <1>6, <1>7 DEF FinishReconcile, c

\* The two transactions that resume makes of an answer.
Resolves ==
    \/ UNCHANGED doc
    \/ \E s \in Send :
         /\ Exist(SendIntent(s))
         /\ \/ \E reply \in Reply \ {"UNKNOWN"}, hasId \in BOOLEAN :
                  doc' = MarkResult(doc, SendIntent(s), reply, hasId)
            \/ doc' = CloseUnknown(doc, SendIntent(s))

LEMMA ResumeWritesStep ==
    ASSUME ExecInv, NEW p \in Proc, ResumeMark(p) \/ ResumeClose(p)
    PROVE  Aside(p, "req") /\ Resolves /\ "resume" \in Commands
<1> DEFINE c == call[p]["req"]
<1>0. /\ c \in Operation /\ Fits("req", c) /\ c.op = "query" /\ c.pc \in {"mark", "close"}
      /\ "req" \in Thread /\ ProcInv /\ "resume" \in Commands
  BY CallFits DEF ExecInv, ResumeMark, ResumeClose, Thread, Fits
<1>1. Moves(p, "req")
  BY <1>0, BusyRuns, GotoMoves, DoneMoves, DidMoves DEF ResumeMark, ResumeClose
<1>2. Aside(p, "req")
  <2>1. /\ UNCHANGED <<winVars, envVars, mut, net>>
        /\ halted' \in {halted, halted \cup {p}} /\ clean' \in {clean, {}}
    BY DEF ResumeMark, ResumeClose, WriteHalts, WriteFails, Commit
  <2> QED  BY <1>0, <1>1, <2>1 DEF Aside, Proceeds
<1>3. \A s \in c.live : s \in Send /\ Exist(SendIntent(s))
  BY <1>0 DEF Fits, Operation
<1>4. c.reply \in Reply \ {"UNKNOWN"}  BY <1>0 DEF Fits, Operation
<1> HIDE DEF c
<1>5. CASE ResumeMark(p)
  <2>1. PICK s \in c.live : \/ doc' = MarkResult(doc, SendIntent(s), c.reply,
                                                 receipt[SendIntent(s)] # 0)
                            \/ UNCHANGED doc
    BY <1>5 DEF ResumeMark, Commit, WriteHalts, WriteFails, c
  <2>2. (receipt[SendIntent(s)] # 0) \in BOOLEAN  OBVIOUS
  <2>3. Resolves  BY <1>3, <1>4, <2>1, <2>2 DEF Resolves
  <2> QED  BY <1>0, <1>2, <2>3 DEF c
<1>6. CASE ResumeClose(p)
  <2>1. PICK s \in c.live : doc' = CloseUnknown(doc, SendIntent(s)) \/ UNCHANGED doc
    BY <1>6 DEF ResumeClose, Commit, WriteFails, c
  <2>2. Resolves  BY <1>3, <2>1 DEF Resolves
  <2> QED  BY <1>0, <1>2, <2>2 DEF c
<1> QED  BY <1>5, <1>6

LEMMA SettlesKeeps ==
    ASSUME ExecInv, NEW p \in Proc, NEW th \in Thread, Aside(p, th), Reconciles \/ Resolves
    PROVE  ExecInv' /\ DocStep
<1>1. DocStep
  <2>1. CASE Reconciles  BY <2>1 DEF Reconciles, DocStep, DocumentNext
  <2>2. CASE Resolves
    BY <2>2, IntentFacts DEF Resolves, DocStep, DocumentNext, Exist, Exists
  <2> QED  BY <2>1, <2>2
<1>2. ProcInv' /\ CallersWait  BY <1>1, AsideKeeps
<1> QED  BY <1>1, <1>2, StaysSound DEF Aside

LEMMA BootKeeps == ASSUME ExecInv, NEW p \in Proc, Boot(p)  PROVE ExecInv' /\ DocStep
<1>1. DocStep  BY DEF Boot, Commit, DocStep, DocumentNext
<1>2. CallersWait  BY DEF Boot, CallersWait
<1>3. call' \in [Proc -> [Thread -> Operation]] /\ ThreadInv'
  BY <1>1, DocGrows, CallSame DEF ExecInv, Boot
<1>4. ProcInv'  BY <1>3 DEF Boot, Commit, ExecInv, ProcInv
<1> QED  BY <1>1, <1>2, <1>4, StaysSound DEF Boot

LEMMA CrashKeeps == ASSUME ExecInv, NEW p \in Proc, Crash(p)  PROVE ExecInv'
<1> USE DEF ExecInv
<1>1. GoodDoc' /\ FenceInv' /\ Grows  BY PartsKept DEF Crash, DocStep
<1>2. call' \in [Proc -> [Thread -> Operation]] /\ ThreadInv'
  <2>1. call' \in [Proc -> [Thread -> Operation]]  BY IdleFits DEF Crash, ProcInv
  <2>2. ASSUME NEW q \in Proc, NEW th \in Thread
        PROVE  Fits(th, call'[q][th]) /\ (q \notin up' => call'[q][th] = IdleCall)
    BY IdleFits, CallFits DEF Crash, ProcInv, ThreadInv
  <2>3. ThreadInv'  BY <2>2 DEF ThreadInv, Fits, Exist, Crash
  <2> QED  BY <2>1, <2>3
<1>3. ProcInv'  BY <1>2, EpochAssumption DEF Crash, ProcInv
<1>4. /\ mut' \in [Proc -> Holding] /\ mut'[p] = IdleMut
      /\ \A q \in Proc \ {p} : mut'[q] = mut[q] /\ call'[q] = call[q]
  BY IdleHolds DEF Crash, MutInv, ProcInv
<1>5. \A q \in Proc \ {p} : mut[q].pc # "idle" => call'[q][mut[q].by].pc = "mutating"
  BY <1>4 DEF MutInv, LockInv, Caller
<1>6. MutInv'  BY <1>1, <1>4, <1>5, LocksKept DEF Crash, MutInv, LockInv
<1>7. SendInv'
  BY <1>1, <1>4, IdleHolds, IntentsApart, RightsKept DEF Crash, winVars, Intent
<1> QED  BY <1>1, <1>3, <1>6, <1>7

LEMMA WorldKeeps == ASSUME ExecInv, World  PROVE ExecInv' /\ [WindowsNext]_winVars
<1> USE DEF ExecInv
<1>1. WindowsNext /\ UNCHANGED placed
  BY DEF World, WindowsNext, BrokerStep, WindowsRestart
<1>2. GoodDoc' /\ FenceInv' /\ Grows  BY <1>1, PartsKept DEF World, DocStep
<1>3. Others /\ UNCHANGED <<mut, net>>  BY DEF World, procVars, Others
<1>4. ProcInv'  BY <1>3, OthersKeep
<1>5. SendInv'  BY <1>1, <1>2, <1>3, RightsKept
<1>6. \A q \in Proc : mut[q].pc # "idle" => call'[q][mut[q].by].pc = "mutating"
  BY <1>3 DEF Others, MutInv, LockInv, Caller
<1>7. MutInv'  BY <1>2, <1>3, <1>6, LocksKept DEF MutInv, LockInv
<1> QED  BY <1>1, <1>2, <1>4, <1>5, <1>7

-----------------------------------------------------------------------------
(* Every step is of one of these kinds.                                    *)

Kinds ==
    \/ Apart
    \/ \E p \in Proc, th \in Thread, i \in Intent : Persists(p, th, i)
    \/ \E p \in Proc : GivesUp(p) \/ Doubts(p) \/ Closes(p) \/ Enters(p)
    \/ \E p \in Proc : Believes(p) /\ (Releases(p) \/ Targets(p))
    \/ \E p \in Proc : Aside(p, "cmd") /\ Reconciles
    \/ \E p \in Proc : Aside(p, "req") /\ Resolves /\ "resume" \in Commands
    \/ \E p \in Proc : Boot(p) \/ Crash(p)
    \/ \E m \in net : Handle(m)
    \/ World

StepSound == Kinds /\ ExecInv' /\ [DocumentNext]_doc /\ [WindowsNext]_winVars

LEMMA EveryStep ==
    ASSUME ExecInv, Next
    PROVE  StepSound
<1>0. "cmd" \in Thread /\ "req" \in Thread  BY DEF Thread
<1>1. ASSUME Apart, ProcInv'  PROVE StepSound
  <2>1. DocStep /\ UNCHANGED winVars  BY <1>1, PlainWrites DEF Apart, ExecInv
  <2>2. ExecInv'  BY <1>1, ApartKeeps
  <2> QED  BY <1>1, <2>1, <2>2 DEF StepSound, Kinds, DocStep
<1>2. ASSUME NEW p \in Proc, NEW th \in Thread, Plain(p, th)  PROVE StepSound
  BY <1>1, <1>2, PlainApart
<1>3. ASSUME NEW p \in Proc, NEW th \in Thread, NEW i \in Intent, Persists(p, th, i)
      PROVE  StepSound
  <2>1. ExecInv' /\ DocStep  BY <1>3, PersistsKeeps
  <2>2. UNCHANGED winVars  BY <1>3 DEF Persists
  <2> QED  BY <1>3, <2>1, <2>2 DEF StepSound, Kinds, DocStep
<1>4. ASSUME NEW p \in Proc,
             GivesUp(p) \/ Doubts(p) \/ Closes(p) \/ (Believes(p) /\ Releases(p))
      PROVE  StepSound
  <2>1. DocStep /\ Releases(p)
    BY <1>4, MutationWrites DEF GivesUp, Doubts, Closes
  <2>2. ExecInv'  BY <2>1, ReleasesKeeps
  <2>3. UNCHANGED winVars  BY <2>1 DEF Releases
  <2> QED  BY <1>4, <2>1, <2>2, <2>3 DEF StepSound, Kinds, DocStep
<1>5. ASSUME NEW p \in Proc, Believes(p), Targets(p)  PROVE StepSound
  <2>1. DocStep /\ ExecInv'  BY <1>5, MutationWrites, TargetsKeeps
  <2>2. UNCHANGED winVars  BY <1>5 DEF Targets
  <2> QED  BY <1>5, <2>1, <2>2 DEF StepSound, Kinds, DocStep
<1>6. ASSUME NEW p \in Proc, Enters(p)  PROVE StepSound
  <2>1. ExecInv'  BY <1>6, EntersKeeps
  <2>2. UNCHANGED <<doc, winVars>>  BY <1>6 DEF Enters
  <2> QED  BY <1>6, <2>1, <2>2 DEF StepSound, Kinds
<1>7. ASSUME NEW p \in Proc, Mutation(p)  PROVE StepSound
  BY <1>4, <1>5, <1>6, <1>7, EnterGatewayStep, OutcomeUnknownStep, AcceptReplyStep,
     CloseTargetStep DEF Mutation
<1>8. ASSUME NEW p \in Proc, Aside(p, "cmd"), Reconciles  PROVE StepSound
  <2>1. ExecInv' /\ DocStep  BY <1>0, <1>8, SettlesKeeps
  <2>2. UNCHANGED winVars  BY <1>8 DEF Aside
  <2> QED  BY <1>8, <2>1, <2>2 DEF StepSound, Kinds, DocStep
<1>9. ASSUME NEW p \in Proc, ResumeMark(p) \/ ResumeClose(p)  PROVE StepSound
  <2>0. Aside(p, "req") /\ Resolves /\ "resume" \in Commands
    BY <1>9, ResumeWritesStep
  <2>1. ExecInv' /\ DocStep  BY <1>0, <2>0, SettlesKeeps
  <2>2. UNCHANGED winVars  BY <2>0 DEF Aside
  <2> QED  BY <2>0, <2>1, <2>2 DEF StepSound, Kinds, DocStep
<1>10. ASSUME NEW p \in Proc, Boot(p)  PROVE StepSound
  <2>1. ExecInv' /\ DocStep  BY <1>10, BootKeeps
  <2>2. UNCHANGED winVars  BY <1>10 DEF Boot
  <2> QED  BY <1>10, <2>1, <2>2 DEF StepSound, Kinds, DocStep
<1>11. ASSUME NEW p \in Proc, Crash(p)  PROVE StepSound
  <2>1. ExecInv'  BY <1>11, CrashKeeps
  <2>2. UNCHANGED <<winVars, doc>>  BY <1>11 DEF Crash
  <2> QED  BY <1>11, <2>1, <2>2 DEF StepSound, Kinds
<1>12. ASSUME NEW p \in Proc, Resume(p) \/ BeginResume(p)  PROVE StepSound
  BY <1>0, <1>2, <1>3, <1>9, <1>12, ResumeSendStep, ResumeQueryStep, BeginResumeStep
  DEF Resume
<1>13. ASSUME NEW p \in Proc, NEW th \in Thread, Runner(p, th) \/ Cancelling(p, th)
       PROVE  StepSound
  BY <1>2, <1>3, <1>13, DispatchStep, ApplyEmergencyStep, HaltRunnerStep, CancelNextStep,
     CancelFailsStep, TakeSnapshotStep, UseSnapshotStep, RevokeAnywayStep
  DEF Runner, Cancelling
<1>14. ASSUME NEW p \in Proc,
              \/ \E op \in Control : BeginControl(p, op)
              \/ ApplyControl(p) \/ BeginReconcile(p) \/ PreviewPlan(p)
              \/ EnableAuthority(p) \/ RetryStart(p)
       PROVE  StepSound
  BY <1>0, <1>2, <1>14, BeginControlStep, ApplyControlStep, BeginReconcileStep,
     PreviewEnableStep, RetryStartStep
<1>15. ASSUME NEW p \in Proc, FinishReconcile(p)  PROVE StepSound
  BY <1>0, <1>2, <1>8, <1>15, FinishReconcileStep DEF Plain
<1>16. CASE \/ \E p \in Proc : Acquire(p) \/ Renew(p) \/ StartPlan(p)
            \/ LeaseLapses \/ AuthorityExpires
  BY <1>1, <1>16, EnvironmentStep
<1>17. ASSUME NEW m \in net, Handle(m)  PROVE StepSound
  <2>1. ExecInv' /\ Others /\ [WindowsNext]_winVars  BY <1>17, HandleKeeps, HandleStep
  <2> QED  BY <1>17, <2>1 DEF StepSound, Kinds, Others
<1>18. CASE World
  <2>1. ExecInv' /\ [WindowsNext]_winVars  BY <1>18, WorldKeeps
  <2> QED  BY <1>18, <2>1 DEF StepSound, Kinds, World
<1>19. ASSUME NEW p \in Proc,
              \/ Mutation(p) \/ Resume(p) \/ BeginResume(p)
              \/ \E th \in Thread : Runner(p, th) \/ Cancelling(p, th)
              \/ \E op \in Control : BeginControl(p, op)
              \/ ApplyControl(p) \/ BeginReconcile(p) \/ FinishReconcile(p)
              \/ PreviewPlan(p) \/ EnableAuthority(p) \/ StartPlan(p) \/ RetryStart(p)
              \/ Acquire(p) \/ Renew(p) \/ Boot(p) \/ Crash(p)
       PROVE  StepSound
  BY <1>7, <1>10, <1>11, <1>12, <1>13, <1>14, <1>15, <1>16, <1>19
<1> QED  BY <1>16, <1>17, <1>18, <1>19 DEF Next

-----------------------------------------------------------------------------
(* The composition.                                                        *)

LEMMA InitialExec == Init => ExecInv
<1> SUFFICES ASSUME Init  PROVE ExecInv
  OBVIOUS
<1> USE DEF Init
<1>1. GoodDoc /\ FenceInv
  BY InitialGood, FenceInit DEF DocumentInit, GoodDoc
<1>2. ProcInv
  <2>1. \A p \in Proc, th \in Thread : call[p][th] = IdleCall  OBVIOUS
  <2>2. ThreadInv  BY <2>1, IdleFits DEF ThreadInv
  <2>3. call \in [Proc -> [Thread -> Operation]]  BY IdleFits
  <2>4. /\ lease \in [owner : Proc \cup {NoProc}, epoch : 0..MaxEpoch, live : BOOLEAN]
        /\ lease.live => lease.epoch > 0
    BY EpochAssumption
  <2> QED  BY <2>2, <2>3, <2>4, EpochAssumption DEF ProcInv
<1>3. NoIntent \notin Intent /\ NoIntent \notin Cancels /\ NoIntent \notin Sends
  BY IntentsApart DEF Intent
<1>4. MutInv
  BY <1>3, IdleHolds DEF MutInv, LockInv
<1>5. SendInv
  BY <1>3, IdleHolds, IntentFacts DEF SendInv, Silent, WindowsInit
<1> QED  BY <1>1, <1>2, <1>4, <1>5 DEF ExecInv

\* ExecInv only speaks of the variables of Execution.
LEMMA StutterExec == ASSUME ExecInv, UNCHANGED vars  PROVE ExecInv'
<1>1. Others /\ UNCHANGED <<winVars, mut, net>>
  BY DEF vars, procVars, Others
<1>2. DocStep /\ CallersWait  BY <1>1 DEF Others, DocStep, CallersWait
<1>3. ProcInv'  BY <1>1, OthersKeep
<1> QED  BY <1>1, <1>2, <1>3, StaysSound

LEMMA ExecAlways == Spec => []ExecInv
<1>1. ExecInv /\ [Next]_vars => ExecInv'
  BY EveryStep, StutterExec DEF StepSound
<1> QED  BY <1>1, InitialExec, PTL DEF Spec

\* The state of the composed service has its types, whatever the numbers of
\* processes, children and epochs: no operation runs on a thread where it does
\* not belong, no request leaves under epoch 0 (orchestrator.py, gateway.py).
THEOREM ExecutionTypeCorrect == Spec => []TypeOK
<1>1. ExecInv => TypeOK
  BY DEF ExecInv, GoodDoc, Good, DocumentTypeOK, FenceInv, ProcInv, MutInv, TypeOK
<1> QED  BY <1>1, ExecAlways, PTL

\* Every step of every thread of every process changes the document by one of
\* the transactions of orchestrator.py whose own checks pass, or not at all.
THEOREM ExecutionImplementsDocument == Spec => DocumentSpec
<1>1. Init => DocumentInit  BY DEF Init
<1>2. ExecInv /\ [Next]_vars => [DocumentNext]_doc
  BY EveryStep DEF StepSound, vars
<1> QED  BY <1>1, <1>2, ExecAlways, PTL DEF Spec, DocumentSpec

\* What the processes do to the gateway is what clients may do to it: one
\* fenced request at a time, each order placed from a request of its own.
THEOREM ExecutionImplementsFence == Spec => WindowsSpec
<1>1. Init => WindowsInit  BY DEF Init
<1>2. ExecInv /\ [Next]_vars => [WindowsNext]_winVars
  BY EveryStep DEF StepSound, vars
<1> QED  BY <1>1, <1>2, ExecAlways, PTL DEF Spec, WindowsSpec

\* In the composed service an unknown outcome is listed until it is resolved
\* (_mark_unknown, _bootstrap_halted, _reconcile_command).
THEOREM ExecutionAccountsUnknown == Spec => []UnknownAccounted
BY ExecutionImplementsDocument, UnknownAlwaysAccounted, PTL

\* In the composed service a leader that was replaced cannot trade
\* (final_admission_v1.py _validate against the requests of gateway.py).
THEOREM ExecutionFencesStaleLeader == Spec => StaleLeaderFenced /\ []OrderHasReceipt
BY ExecutionImplementsFence, ReplacedLeaderFenced, OrdersHaveReceipts, PTL

\* A child order of the plan is placed at the broker at most once, whatever
\* crashes, times out, fails over or is repeated (_mutate_order).
THEOREM OneOrderPerChild == Spec => []AtMostOneOrder
<1>1. ExecInv => AtMostOneOrder  BY DEF ExecInv, SendInv, AtMostOneOrder
<1> QED  BY <1>1, ExecAlways, PTL

-----------------------------------------------------------------------------
(* Every call ends with a durable outcome.                                 *)

\* The strengthening: the intent of a request that is on its way is held too.
DurableInv ==
    up = Proc /\ halted = {}
      => \A s \in Send :
            doc.intent[SendIntent(s)] = "PERSISTED" /\ (placed[s] > 0 \/ ~Silent(s))
              => \E p \in Proc : mut[p].i = SendIntent(s)

\* Only persist_intent writes PERSISTED.
LEMMA PersistedStays ==
    ASSUME GoodDoc, NEW s \in Send,
           \/ PlainWrite \/ Reconciles \/ Resolves
           \/ \E i \in Intent : doc' = MarkUnknown(doc, i)
           \/ \E i \in Intent, reply \in Reply : doc' = MarkResult(doc, i, reply, TRUE)
           \/ \E r \in Send : doc' = MarkCancelledTarget(doc, r),
           doc'.intent[SendIntent(s)] = "PERSISTED"
    PROVE  doc.intent[SendIntent(s)] = "PERSISTED"
<1>0. /\ doc \in Document /\ doc.intent \in [Intent -> IntentState]
      /\ SendIntent(s) \in Intent
  BY IntentFacts DEF GoodDoc, Good, Document
<1>1. CASE PlainWrite  BY <1>1, PlainWrites
<1>2. CASE Reconciles
  <2>1. PICK live \in SUBSET Send, out \in [Recovery(doc) -> Reply], onTarget \in BOOLEAN :
           doc' = Finalized(Reconciled(doc, live, out), onTarget)
    BY <1>2 DEF Reconciles
  <2> DEFINE d == Reconciled(doc, live, out)
  <2>2. d.intent = [i \in Intent |-> IF i \in Recovery(doc) THEN Recovered(doc, i, out[i])
                                     ELSE doc.intent[i]]
    BY <1>0 DEF Reconciled, Document
  <2>3. doc'.intent = d.intent
    <3>1. d \in Document  BY ReconciledGood DEF GoodDoc, Good
    <3> HIDE DEF d
    <3> QED  BY <2>1, <3>1 DEF Finalized, HaltReconcile, Document, d
  <2> QED  BY <1>0, <2>2, <2>3 DEF Recovered
<1>3. CASE Resolves
  <2>1. ASSUME NEW r \in Send, NEW reply \in Reply, NEW hasId \in BOOLEAN,
               doc' = MarkResult(doc, SendIntent(r), reply, hasId)
        PROVE  doc.intent[SendIntent(s)] = "PERSISTED"
    BY <1>0, <2>1 DEF MarkResult, Document, Reply
  <2>2. ASSUME NEW r \in Send, doc' = CloseUnknown(doc, SendIntent(r))
        PROVE  doc.intent[SendIntent(s)] = "PERSISTED"
    BY <1>0, <2>2 DEF CloseUnknown, Document
  <2> QED  BY <1>3, <2>1, <2>2 DEF Resolves
<1>4. ASSUME NEW i \in Intent, doc' = MarkUnknown(doc, i)
      PROVE  doc.intent[SendIntent(s)] = "PERSISTED"
  BY <1>0, <1>4 DEF MarkUnknown, Document
<1>5. ASSUME NEW i \in Intent, NEW reply \in Reply, doc' = MarkResult(doc, i, reply, TRUE)
      PROVE  doc.intent[SendIntent(s)] = "PERSISTED"
  BY <1>0, <1>5 DEF MarkResult, Document, Reply
<1>6. ASSUME NEW r \in Send, doc' = MarkCancelledTarget(doc, r)
      PROVE  doc.intent[SendIntent(s)] = "PERSISTED"
  BY <1>0, <1>6 DEF MarkCancelledTarget, Document
<1> QED  BY <1>1, <1>2, <1>3, <1>4, <1>5, <1>6

\* An order or a request of a child that is new to a handled request.
LEMMA HandleLocal ==
    ASSUME ExecInv, NEW m \in net, Handle(m), NEW s \in Send
    PROVE  /\ placed'[s] > 0 \/ ~Silent(s)' => placed[s] > 0 \/ ~Silent(s)
           /\ \A p \in Proc : mut'[p].i = mut[p].i
<1>0. /\ placed \in [Send -> Nat] /\ mut \in [Proc -> Holding] /\ m \in Message
  BY DEF ExecInv, FenceInv, WindowsTypeOK, MutInv
<1>1. \/ Consumed(m)
      \/ \E p \in Proc, op \in {"register", "call"} : Forwarded(p, m, op)
      \/ \E p \in Proc, reply \in {"SUBMITTED", "CANCELLED", "REJECTED"} :
            Answered(p, m, reply)
  BY HandleStep
<1>2. \A p \in Proc : mut'[p].i = mut[p].i
  <2>1. CASE Consumed(m)  BY <2>1 DEF Consumed
  <2>2. ASSUME NEW p \in Proc, NEW op \in {"register", "call"}, Forwarded(p, m, op)
        PROVE  \A q \in Proc : mut'[q].i = mut[q].i
    BY <1>0, <2>2 DEF Forwarded, Holding
  <2>3. ASSUME NEW p \in Proc, NEW reply, Answered(p, m, reply)
        PROVE  \A q \in Proc : mut'[q].i = mut[q].i
    BY <1>0, <2>3 DEF Answered, Holding
  <2> QED  BY <1>1, <2>1, <2>2, <2>3
<1>3. Silent(s) => Silent(s)'
  <2>1. CASE Consumed(m) \/ \E p \in Proc : \E reply : Answered(p, m, reply)
    BY <2>1 DEF Consumed, Answered, Silent
  <2>2. ASSUME NEW p \in Proc, NEW op, Forwarded(p, m, op)  PROVE Silent(s) => Silent(s)'
    BY <2>2 DEF Forwarded, Request, Silent
  <2> QED  BY <1>1, <2>1, <2>2
<1>4. UNCHANGED placed \/ (m.i \in Sends /\ PlaceOrder(m.i, m.epoch))
  BY HandleStep DEF Passed, winVars, Cancelled, RequestCancel, NativeCancel
<1>5. ASSUME m.i \in Sends, PlaceOrder(m.i, m.epoch), placed'[s] # placed[s]
      PROVE  ~Silent(s)
  <2>1. s = m.i.of  BY <1>0, <1>5, IntentFacts DEF PlaceOrder, NativeSend
  <2> QED  BY <1>5, <2>1, IntentFacts DEF Silent
<1> QED  BY <1>2, <1>3, <1>4, <1>5

LEMMA DurableStep == ASSUME ExecInv, DurableInv, Next  PROVE DurableInv'
<1> SUFFICES ASSUME up' = Proc, halted' = {}, NEW s \in Send,
                    doc'.intent[SendIntent(s)] = "PERSISTED",
                    placed'[s] > 0 \/ ~Silent(s)'
             PROVE  \E p \in Proc : mut'[p].i = SendIntent(s)
  BY DEF DurableInv
<1> DEFINE i == SendIntent(s)
<1>0. /\ i \in Intent /\ i \in Sends /\ i \notin Cancels /\ i # NoIntent
      /\ mut \in [Proc -> Holding] /\ placed \in [Send -> Nat] /\ doc \in Document
  BY IntentFacts, IntentsApart
  DEF ExecInv, MutInv, FenceInv, WindowsTypeOK, GoodDoc, Good
<1> HIDE DEF i
<1>1. ASSUME doc.intent[i] = "PERSISTED", up = Proc, halted = {},
             placed[s] > 0 \/ ~Silent(s)
      PROVE  \E p \in Proc : mut[p].i = i
  BY <1>1 DEF DurableInv, i
<1>2. Kinds  BY EveryStep DEF StepSound
<1>3. \A p \in Proc : Proceeds(p, "run") \/ Proceeds(p, "cmd") \/ Proceeds(p, "req")
                      => up = Proc /\ halted = {} /\ p \notin halted'
  BY DEF Proceeds, envVars
<1>4. CASE Apart
  <2>1. doc.intent[i] = "PERSISTED"  BY <1>4, PlainWrites DEF Apart, ExecInv, i
  <2>2. up = Proc /\ halted = {} /\ UNCHANGED <<placed, net, mut>>
    BY <1>4 DEF Apart, winVars
  <2>3. placed[s] > 0 \/ ~Silent(s)  BY <2>2 DEF Silent
  <2> QED  BY <1>1, <2>1, <2>2, <2>3 DEF i
<1>5. ASSUME NEW p \in Proc, NEW th \in Thread, NEW j \in Intent, Persists(p, th, j)
      PROVE  \E q \in Proc : mut'[q].i = i
  <2>1. up = Proc /\ halted = {} /\ UNCHANGED <<placed, net>>
    BY <1>5 DEF Persists, Proceeds, envVars, winVars
  <2>2. placed[s] > 0 \/ ~Silent(s)  BY <2>1 DEF Silent
  <2>3. i # j
    BY <1>0, <1>5, <2>2 DEF Persists, ExecInv, SendInv, i
  <2>4. doc.intent[i] = "PERSISTED"
    BY <1>0, <1>5, <2>3 DEF Persists, PersistIntent, Document, i
  <2>5. PICK q \in Proc : mut[q].i = i  BY <1>1, <2>1, <2>2, <2>4
  <2>6. q # p  BY <1>0, <1>5, <2>5 DEF Persists, ExecInv, MutInv, LockInv, Sound
  <2> QED  BY <1>0, <1>5, <2>5, <2>6 DEF Persists
<1>6. ASSUME NEW p \in Proc, Releases(p), doc.intent[i] = "PERSISTED", mut[p].i # i
      PROVE  \E q \in Proc : mut'[q].i = i
  <2>1. up = Proc /\ halted = {} /\ UNCHANGED <<placed, net>>
    BY <1>6 DEF Releases, Proceeds, envVars, winVars
  <2>2. placed[s] > 0 \/ ~Silent(s)  BY <2>1 DEF Silent
  <2>3. PICK q \in Proc : mut[q].i = i  BY <1>1, <1>6, <2>1, <2>2
  <2> QED  BY <1>0, <1>6, <2>3 DEF Releases, Release
<1>7. ASSUME NEW p \in Proc, GivesUp(p)  PROVE \E q \in Proc : mut'[q].i = i
  <2>1. UNCHANGED <<placed, net>>  BY <1>7 DEF GivesUp, Releases, winVars
  <2>2. mut[p].i # i
    BY <1>0, <1>7, <2>1 DEF GivesUp, ExecInv, SendInv, Silent, i
  <2> QED  BY <1>6, <1>7, <2>2 DEF GivesUp, i
<1>8. ASSUME NEW p \in Proc, Doubts(p)  PROVE \E q \in Proc : mut'[q].i = i
  <2>1. doc' = MarkUnknown(doc, mut[p].i)  BY <1>8 DEF Doubts
  <2>2. mut[p].i \in Intent  BY <1>8, HeldIntent DEF Doubts
  <2>3. mut[p].i # i  BY <1>0, <2>1, <2>2 DEF MarkUnknown, Document, i
  <2>4. doc.intent[i] = "PERSISTED"
    BY <2>1, <2>2, PersistedStays DEF ExecInv, i
  <2> QED  BY <1>6, <1>8, <2>3, <2>4 DEF Doubts
<1>9. ASSUME NEW p \in Proc, Believes(p), Releases(p) \/ Targets(p)
      PROVE  \E q \in Proc : mut'[q].i = i
  <2>1. doc' = MarkResult(doc, mut[p].i, mut[p].reply, TRUE)  BY <1>9 DEF Believes
  <2>2. /\ mut[p].i \in Intent
        /\ mut[p].reply \in Reply
    BY <1>9, HeldIntent DEF Believes, ExecInv, MutInv, LockInv, Sound, Reply
  <2>3. mut[p].i # i  BY <1>0, <2>1, <2>2 DEF MarkResult, Document, Reply, i
  <2>4. doc.intent[i] = "PERSISTED"
    BY <2>1, <2>2, PersistedStays DEF ExecInv, i
  <2>5. CASE Targets(p)
    <3>1. up = Proc /\ halted = {} /\ UNCHANGED <<placed, net>>
      BY <2>5 DEF Targets, Proceeds, envVars, winVars
    <3>2. placed[s] > 0 \/ ~Silent(s)  BY <3>1 DEF Silent
    <3>3. PICK q \in Proc : mut[q].i = i  BY <1>1, <2>4, <3>1, <3>2
    <3> QED  BY <1>0, <2>5, <3>3 DEF Targets, Holding
  <2> QED  BY <1>6, <1>9, <2>3, <2>4, <2>5
<1>10. ASSUME NEW p \in Proc, Closes(p)  PROVE \E q \in Proc : mut'[q].i = i
  <2>1. mut[p].i \in Cancels /\ mut[p].i.of \in Send
    BY <1>10, IntentFacts DEF Closes, ExecInv, MutInv, LockInv, Sound
  <2>2. mut[p].i # i  BY <1>0, <2>1
  <2>3. doc.intent[i] = "PERSISTED"
    BY <1>10, <2>1, PersistedStays DEF Closes, ExecInv, i
  <2> QED  BY <1>6, <1>10, <2>2, <2>3 DEF Closes
<1>11. ASSUME NEW p \in Proc, Enters(p)  PROVE \E q \in Proc : mut'[q].i = i
  <2>1. \A q \in Proc : mut'[q].i = mut[q].i  BY <1>0, <1>11 DEF Enters, Holding
  <2>2. CASE mut[p].i = i  BY <2>1, <2>2
  <2>3. CASE mut[p].i # i
    <3>1. placed[s] > 0 \/ ~Silent(s)
      BY <1>11, <2>3 DEF Enters, Request, Silent, winVars, i
    <3>2. doc.intent[i] = "PERSISTED" /\ up = Proc /\ halted = {}
      BY <1>11 DEF Enters, envVars, i
    <3> QED  BY <1>1, <2>1, <3>1, <3>2
  <2> QED  BY <2>2, <2>3
<1>12. ASSUME NEW p \in Proc, NEW th \in Thread, Aside(p, th), Reconciles \/ Resolves
       PROVE  \E q \in Proc : mut'[q].i = i
  <2>1. doc.intent[i] = "PERSISTED"  BY <1>12, PersistedStays DEF ExecInv, i
  <2>2. up = Proc /\ halted = {} /\ UNCHANGED <<placed, net, mut>>
    BY <1>12 DEF Aside, Proceeds, envVars, winVars
  <2>3. placed[s] > 0 \/ ~Silent(s)  BY <2>2 DEF Silent
  <2> QED  BY <1>1, <2>1, <2>2, <2>3
<1>13. ASSUME NEW p \in Proc, Boot(p)  PROVE FALSE
  <2>1. doc'.intent[i] # "PERSISTED"
    BY <1>0, <1>13 DEF Boot, Commit, Bootstrap, Document, Active
  <2> QED  BY <2>1 DEF i
<1>14. ASSUME NEW p \in Proc, Crash(p)  PROVE FALSE
  BY <1>14 DEF Crash
<1>15. ASSUME NEW m \in net, Handle(m)  PROVE \E q \in Proc : mut'[q].i = i
  <2>1. Others  BY <1>15, HandleStep
  <2>2. doc.intent[i] = "PERSISTED" /\ up = Proc /\ halted = {}
    BY <2>1 DEF Others, envVars, i
  <2> QED  BY <1>1, <1>15, <2>2, HandleLocal
<1>16. CASE World
  <2>1. UNCHANGED <<doc, up, halted, net, mut, placed>>
    BY <1>16 DEF World, procVars, envVars, BrokerStep, WindowsRestart
  <2>2. placed[s] > 0 \/ ~Silent(s)  BY <2>1 DEF Silent
  <2> QED  BY <1>1, <2>1, <2>2 DEF i
<1>17. "cmd" \in Thread /\ "req" \in Thread  BY DEF Thread
<1> QED
  BY <1>2, <1>4, <1>5, <1>7, <1>8, <1>9, <1>10, <1>11, <1>12, <1>13, <1>14, <1>15,
     <1>16, <1>17 DEF Kinds, i

\* No gateway call ends without a durable outcome: once every process is up and
\* none has halted, an order whose intent still says PERSISTED belongs to a
\* call in progress (_mark_unknown, _mark_intent_result, _bootstrap_halted).
THEOREM OutcomesDurable == Spec => []DurableOutcome
<1>1. Init => DurableInv
  BY IntentFacts DEF Init, DocumentInit, InitialDocument, DurableInv
<1>2. ASSUME ExecInv, DurableInv, [Next]_vars  PROVE DurableInv'
  <2>1. CASE UNCHANGED vars
    BY <1>2, <2>1 DEF vars, procVars, envVars, winVars, DurableInv, Silent
  <2> QED  BY <1>2, <2>1, DurableStep
<1>3. DurableInv => DurableOutcome  BY DEF DurableInv, DurableOutcome
<1> QED  BY <1>1, <1>2, <1>3, ExecAlways, PTL DEF Spec

-----------------------------------------------------------------------------
(* What the document calls terminal is gone at the broker.  A resume marks  *)
(* an intent on an answer it got earlier, so there it does not hold.        *)

Final == {"FILLED", "CANCELLED", "REJECTED"}

\* An answer that is believed, and a SUBMITTED intent, stand for an order.
TermInv ==
    /\ \A s \in Send :
          /\ order[s] = "NONE" <=> placed[s] = 0
          /\ doc.intent[SendIntent(s)] \in {"TERMINAL", "CANCELLED"} => order[s] \in Final
          /\ doc.intent[SendIntent(s)] = "SUBMITTED" => placed[s] > 0
    /\ \A p \in Proc :
          /\ mut[p].pc = "replied" /\ mut[p].i \in Sends => placed[mut[p].i.of] > 0
          /\ mut[p].pc \in {"replied", "target"} /\ mut[p].i \in Cancels
                /\ mut[p].reply = "CANCELLED" => order[mut[p].i.of] \in Final

\* Orders are never replaced, and a final status stays final.
LEMMA OrdersGoOn ==
    ASSUME ExecInv, ExecInv', [WindowsNext]_winVars, NEW s \in Send,
           order[s] = "NONE" <=> placed[s] = 0
    PROVE  /\ order'[s] = "NONE" <=> placed'[s] = 0
           /\ order[s] \in Final => order'[s] \in Final
           /\ placed[s] > 0 => placed'[s] > 0
           /\ \A i \in Intent : receipt[i] > 0 => receipt'[i] > 0
<1>0. /\ order \in [Send -> Status] /\ placed \in [Send -> Nat] /\ receipt \in [Intent -> Nat]
      /\ placed'[s] <= 1
  BY DEF ExecInv, FenceInv, WindowsTypeOK, SendInv
<1>1. ASSUME NEW i \in Sends, NEW e \in 1..MaxEpoch, PlaceOrder(i, e)
      PROVE  /\ order'[s] = "NONE" <=> placed'[s] = 0
             /\ order[s] \in Final => order'[s] \in Final
             /\ placed[s] > 0 => placed'[s] > 0
             /\ UNCHANGED receipt
  <2>1. i.of \in Send  BY IntentFacts DEF Intent
  <2>2. /\ order' = [order EXCEPT ![i.of] = "SUBMITTING"]
        /\ placed' = [placed EXCEPT ![i.of] = @ + 1]
        /\ UNCHANGED receipt
    BY <1>1 DEF PlaceOrder, NativeSend
  <2>3. CASE s = i.of
    <3>1. placed[s] = 0  BY <1>0, <2>1, <2>2, <2>3
    <3> QED  BY <1>0, <2>1, <2>2, <2>3, <3>1 DEF Final
  <2>4. CASE s # i.of  BY <1>0, <2>1, <2>2, <2>4
  <2> QED  BY <2>3, <2>4
<1>2. ASSUME NEW i \in Cancels, NEW e \in 1..MaxEpoch, RequestCancel(i, e)
      PROVE  /\ order'[s] = "NONE" <=> order[s] = "NONE"
             /\ order[s] \in Final => order'[s] \in Final
             /\ UNCHANGED <<placed, receipt>>
  BY <1>0, <1>2, IntentFacts DEF RequestCancel, NativeCancel, Live, Final
<1>3. ASSUME NEW r \in Send, BrokerStep(r)
      PROVE  /\ order'[s] = "NONE" <=> order[s] = "NONE"
             /\ order[s] \in Final => order'[s] \in Final
             /\ UNCHANGED <<placed, receipt>>
  BY <1>0, <1>3 DEF BrokerStep, Final
<1>4. ASSUME NEW i \in Intent, NEW e \in 1..MaxEpoch, RegisterReceipt(i, e)
      PROVE  /\ UNCHANGED <<order, placed>>
             /\ \A j \in Intent : receipt[j] > 0 => receipt'[j] > 0
  BY <1>0, <1>4, EpochAssumption DEF RegisterReceipt
<1>5. CASE \/ \E e \in 1..MaxEpoch : InstallFence(e) \/ InstallDoubtful(e)
           \/ WindowsRestart \/ UNCHANGED winVars
  BY <1>5 DEF InstallFence, InstallDoubtful, WindowsRestart, winVars
<1> QED  BY <1>1, <1>2, <1>3, <1>4, <1>5 DEF WindowsNext

\* How a process comes to hold an answer.
LEMMA AnswersArise ==
    ASSUME ExecInv, Kinds, NEW q \in Proc
    PROVE  \/ mut'[q] = mut[q]
           \/ mut'[q].pc \notin {"replied", "target"}
           \/ /\ mut[q].pc = "replied" /\ mut[q].i \in Cancels
              /\ mut'[q].i = mut[q].i /\ mut'[q].reply = mut[q].reply
           \/ \E m \in net :
                 /\ m.i \in Sends /\ mut'[q].i = m.i
                 /\ PlaceOrder(m.i, m.epoch)
           \/ \E m \in net :
                 /\ mut'[q].i = m.i /\ Cancelled(m, mut'[q].reply)
<1> DEFINE Goal ==
           \/ mut'[q] = mut[q]
           \/ mut'[q].pc \notin {"replied", "target"}
           \/ /\ mut[q].pc = "replied" /\ mut[q].i \in Cancels
              /\ mut'[q].i = mut[q].i /\ mut'[q].reply = mut[q].reply
           \/ \E m \in net :
                 /\ m.i \in Sends /\ mut'[q].i = m.i
                 /\ PlaceOrder(m.i, m.epoch)
           \/ \E m \in net :
                 /\ mut'[q].i = m.i /\ Cancelled(m, mut'[q].reply)
<1>0. mut \in [Proc -> Holding]  BY DEF ExecInv, MutInv
<1>1. CASE Apart \/ World  BY <1>1 DEF Apart, World, procVars
<1>2. ASSUME NEW p \in Proc, NEW th \in Thread, NEW i \in Intent, Persists(p, th, i)
      PROVE  Goal
  <2>1. [IdleMut EXCEPT !.pc = "persisted", !.i = i, !.by = th].pc = "persisted"
    BY DEF IdleMut
  <2> QED  BY <1>0, <1>2, <2>1 DEF Persists
<1>3. ASSUME NEW p \in Proc, Releases(p)  PROVE Goal
  BY <1>0, <1>3, IdleHolds DEF Releases, Release
<1>4. ASSUME NEW p \in Proc, Enters(p)  PROVE Goal
  BY <1>0, <1>4 DEF Enters, Holding
<1>5. ASSUME NEW p \in Proc, Believes(p), Targets(p)  PROVE Goal
  <2>1. mut[p].i \in Cancels /\ mut[p].pc = "replied"
    BY <1>5 DEF Believes, Targets, ExecInv, MutInv, LockInv, Sound
  <2>2. CASE q = p
    BY <1>0, <1>5, <2>1, <2>2 DEF Targets, Holding
  <2>3. CASE q # p  BY <1>0, <1>5, <2>3 DEF Targets
  <2> QED  BY <2>2, <2>3
<1>6. ASSUME NEW p \in Proc, NEW th \in Thread, Aside(p, th)  PROVE Goal
  BY <1>6 DEF Aside
<1>7. ASSUME NEW p \in Proc, Boot(p) \/ Crash(p)  PROVE Goal
  BY <1>0, <1>7, IdleHolds DEF Boot, Crash
<1>8. ASSUME NEW m \in net, Handle(m)  PROVE Goal
  <2>1. CASE Consumed(m)  BY <2>1 DEF Consumed
  <2>2. ASSUME NEW p \in Proc, NEW op \in {"register", "call"}, Forwarded(p, m, op)
        PROVE  Goal
    BY <1>0, <2>2 DEF Forwarded, Holding
  <2>3. ASSUME m.i \in Sends, PlaceOrder(m.i, m.epoch), NEW p \in Proc,
               Answered(p, m, "SUBMITTED")
        PROVE  Goal
    <3>1. mut'[q] = mut[q] \/ mut'[q].i = m.i  BY <1>0, <2>3 DEF Answered, Holding
    <3> QED  BY <2>3, <3>1
  <2>4. ASSUME NEW reply \in {"CANCELLED", "REJECTED"}, Cancelled(m, reply), NEW p \in Proc,
               Answered(p, m, reply)
        PROVE  Goal
    <3>1. mut'[q] = mut[q] \/ (mut'[q].i = m.i /\ mut'[q].reply = reply)
      BY <1>0, <2>4 DEF Answered, Holding
    <3> QED  BY <2>4, <3>1
  <2> QED  BY <1>8, <2>1, <2>2, <2>3, <2>4, HandleStep
<1>9. "cmd" \in Thread /\ "req" \in Thread  BY DEF Thread
<1> QED
  BY <1>1, <1>2, <1>3, <1>4, <1>5, <1>6, <1>7, <1>8, <1>9
  DEF Kinds, GivesUp, Doubts, Closes

\* What a reconcile makes of a child.
LEMMA ReconciledChild ==
    ASSUME ExecInv, Reconciles, NEW s \in Send
    PROVE  LET i == SendIntent(s)
           IN \/ /\ i \notin Recovery(doc) /\ doc'.intent[i] = doc.intent[i]
                 /\ i \notin doc'.unknown
              \/ /\ i \in Recovery(doc)
                 /\ \E reply \in QueryReplies(i, i \in doc.known) :
                       doc'.intent[i] = Recovered(doc, i, reply)
<1> DEFINE i == SendIntent(s)
<1>0. doc \in Document /\ i \in Intent
  BY IntentFacts DEF ExecInv, GoodDoc, Good
<1>1. PICK live \in SUBSET Send, out \in [Recovery(doc) -> Reply], onTarget \in BOOLEAN :
         /\ \A j \in Recovery(doc) : out[j] \in QueryReplies(j, j \in doc.known)
         /\ doc' = Finalized(Reconciled(doc, live, out), onTarget)
  BY DEF Reconciles
<1> DEFINE d == Reconciled(doc, live, out)
<1>2. /\ d.intent = [j \in Intent |-> IF j \in Recovery(doc) THEN Recovered(doc, j, out[j])
                                      ELSE doc.intent[j]]
      /\ d.unknown = {j \in Recovery(doc) : out[j] = "UNKNOWN"}
  BY <1>0 DEF Reconciled, Document
<1>3. doc'.intent = d.intent /\ doc'.unknown = d.unknown
  <2>1. d \in Document  BY ReconciledGood DEF ExecInv, GoodDoc, Good
  <2> HIDE DEF d
  <2> QED  BY <1>1, <2>1 DEF Finalized, HaltReconcile, Document, d
<1> HIDE DEF i, d
<1>4. CASE i \in Recovery(doc)
  <2>1. doc'.intent[i] = Recovered(doc, i, out[i])  BY <1>0, <1>2, <1>3, <1>4
  <2> QED  BY <1>1, <1>4, <2>1 DEF i
<1>5. CASE i \notin Recovery(doc)
  BY <1>0, <1>2, <1>3, <1>5 DEF i
<1> QED  BY <1>4, <1>5

\* An intent becomes terminal, or submitted, only for an order that is final,
\* or there.
Arises(s) ==
    LET i == SendIntent(s)
    IN /\ doc'.intent[i] \in {"TERMINAL", "CANCELLED"}
            => doc.intent[i] \in {"TERMINAL", "CANCELLED"} \/ order[s] \in Final
       /\ doc'.intent[i] = "SUBMITTED" => doc.intent[i] = "SUBMITTED" \/ placed[s] > 0

LEMMA TerminalArises ==
    ASSUME ExecInv, TermInv, Kinds, "resume" \notin Commands, NEW s \in Send
    PROVE  Arises(s)
<1> DEFINE i == SendIntent(s)
<1> USE DEF Arises
<1>0. /\ doc \in Document /\ doc.intent \in [Intent -> IntentState]
      /\ i \in Intent /\ i \in Sends /\ i \notin Cancels /\ i.of = s
  BY IntentFacts, IntentsApart DEF ExecInv, GoodDoc, Good, Document
<1>1. CASE UNCHANGED doc  BY <1>1
<1>2. CASE Apart  BY <1>2, PlainWrites DEF Apart, ExecInv
<1>3. ASSUME NEW p \in Proc, NEW th \in Thread, NEW j \in Intent, Persists(p, th, j)
      PROVE  Arises(s)
  BY <1>0, <1>3 DEF Persists, PersistIntent, Document
<1>4. ASSUME NEW p \in Proc, GivesUp(p) \/ Enters(p) \/ Crash(p)  PROVE Arises(s)
  BY <1>4 DEF GivesUp, Enters, Crash
<1>5. ASSUME NEW p \in Proc, Doubts(p)  PROVE Arises(s)
  <2>1. mut[p].i \in Intent  BY <1>5, HeldIntent DEF Doubts
  <2>2. CASE doc' = MarkUnknown(doc, mut[p].i)
    <3>1. doc'.intent = [doc.intent EXCEPT ![mut[p].i] = "UNKNOWN_OUTCOME"]
      BY <1>0, <2>2 DEF MarkUnknown, Document
    <3> QED  BY <1>0, <2>1, <3>1
  <2> QED  BY <1>1, <1>5, <2>2 DEF Doubts
<1>6. ASSUME NEW p \in Proc, Closes(p)  PROVE Arises(s)
  <2>1. /\ mut[p].i \in Cancels /\ mut[p].i.of \in Send /\ SendIntent(mut[p].i.of) \in Intent
        /\ mut[p].reply = "CANCELLED" /\ mut[p].pc = "target"
    BY <1>6, IntentFacts DEF Closes, ExecInv, MutInv, LockInv, Sound
  <2>2. order[mut[p].i.of] \in Final  BY <2>1 DEF TermInv
  <2>3. i = SendIntent(mut[p].i.of) => s = mut[p].i.of  BY <2>1, IntentsApart
  <2>4. CASE doc' = MarkCancelledTarget(doc, mut[p].i.of)
    <3>1. doc'.intent = [doc.intent EXCEPT ![SendIntent(mut[p].i.of)] = "TERMINAL"]
      BY <1>0, <2>4 DEF MarkCancelledTarget, Document
    <3> QED  BY <1>0, <2>1, <2>2, <2>3, <3>1
  <2> QED  BY <1>1, <1>6, <2>4 DEF Closes
<1>7. ASSUME NEW p \in Proc, Believes(p)  PROVE Arises(s)
  <2>1. /\ mut[p].i \in Intent
        /\ \/ mut[p].i \in Sends /\ mut[p].reply = "SUBMITTED"
           \/ mut[p].i \in Cancels
    BY <1>7, HeldIntent DEF Believes, ExecInv, MutInv, LockInv, Sound
  <2>2. CASE doc' = MarkResult(doc, mut[p].i, mut[p].reply, TRUE)
    <3>1. doc'.intent = [doc.intent EXCEPT ![mut[p].i] =
                           IF mut[p].reply = "REJECTED" THEN "TERMINAL" ELSE mut[p].reply]
      BY <1>0, <2>2 DEF MarkResult, Document
    <3>2. CASE mut[p].i = i
      <4>1. mut[p].reply = "SUBMITTED" /\ placed[s] > 0
        BY <1>0, <1>7, <2>1, <3>2 DEF Believes, TermInv
      <4> QED  BY <1>0, <3>1, <3>2, <4>1
    <3>3. CASE mut[p].i # i  BY <1>0, <2>1, <3>1, <3>3
    <3> QED  BY <3>2, <3>3
  <2> QED  BY <1>1, <1>7, <2>2 DEF Believes
<1>8. CASE Reconciles
  <2>1. CASE doc'.intent[i] = doc.intent[i]  BY <2>1
  <2>2. ASSUME i \in Recovery(doc), NEW reply \in QueryReplies(i, i \in doc.known),
               doc'.intent[i] = Recovered(doc, i, reply)
        PROVE  Arises(s)
    <3>1. i \notin doc.unknown => placed[s] > 0 /\ receipt[i] # 0 /\ order[s] # "NONE"
      BY <2>2, <1>0 DEF Recovery, TermInv, ExecInv, FenceInv, OrderHasReceipt, WindowsTypeOK
    <3>2. i \notin doc.unknown => reply \in {"UNKNOWN", StatusReply(order[s])}
      BY <1>0, <3>1 DEF QueryReplies
    <3>3. StatusReply(order[s]) \in {"TERMINAL", "REJECTED", "CANCELLED"} => order[s] \in Final
      BY DEF StatusReply, Final
    <3> HIDE DEF i
    <3>4. /\ doc'.intent[i] \in {"TERMINAL", "CANCELLED"} => order[s] \in Final
          /\ doc'.intent[i] = "SUBMITTED" => placed[s] > 0
      <4>1. CASE i \in doc.unknown  BY <2>2, <4>1 DEF Recovered
      <4>2. CASE i \notin doc.unknown
        <5>1. doc.intent[i] = "SUBMITTED"  BY <2>2, <4>2 DEF Recovery
        <5> QED  BY <2>2, <3>1, <3>2, <3>3, <4>2, <5>1 DEF Recovered
      <4> QED  BY <4>1, <4>2
    <3> QED  BY <3>4 DEF i
  <2> QED  BY <1>8, <2>1, <2>2, ReconciledChild
<1>9. ASSUME NEW p \in Proc, Boot(p)  PROVE Arises(s)
  BY <1>0, <1>9 DEF Boot, Commit, Bootstrap, Document
<1>10. ASSUME NEW m \in net, Handle(m)  PROVE Arises(s)
  BY <1>1, <1>10, HandleStep DEF Others
<1>11. CASE World  BY <1>1, <1>11 DEF World
<1> HIDE DEF Arises
<1> QED
  BY <1>2, <1>3, <1>4, <1>5, <1>6, <1>7, <1>8, <1>9, <1>10, <1>11 DEF Kinds

LEMMA TermStep ==
    ASSUME ExecInv, TermInv, Next, "resume" \notin Commands  PROVE TermInv'
<1>1. Kinds /\ ExecInv' /\ [WindowsNext]_winVars  BY EveryStep DEF StepSound
<1>2. ASSUME NEW s \in Send
      PROVE  /\ order'[s] = "NONE" <=> placed'[s] = 0
             /\ order[s] \in Final => order'[s] \in Final
             /\ placed[s] > 0 => placed'[s] > 0
  BY <1>1, OrdersGoOn DEF TermInv
<1>3. ASSUME NEW s \in Send
      PROVE  /\ doc'.intent[SendIntent(s)] \in {"TERMINAL", "CANCELLED"} => order'[s] \in Final
             /\ doc'.intent[SendIntent(s)] = "SUBMITTED" => placed'[s] > 0
  BY <1>1, <1>2, TerminalArises DEF TermInv, Arises
<1>4. ASSUME NEW p \in Proc
      PROVE  /\ mut'[p].pc = "replied" /\ mut'[p].i \in Sends => placed'[mut'[p].i.of] > 0
             /\ mut'[p].pc \in {"replied", "target"} /\ mut'[p].i \in Cancels
                  /\ mut'[p].reply = "CANCELLED" => order'[mut'[p].i.of] \in Final
  <2>0. /\ \A i \in Sends : i.of \in Send /\ i \notin Cancels
        /\ \A i \in Cancels : i.of \in Send
    BY IntentFacts, IntentsApart DEF Intent
  <2>1. CASE mut'[p] = mut[p]  BY <1>2, <2>0, <2>1 DEF TermInv
  <2>2. CASE mut'[p].pc \notin {"replied", "target"}  BY <2>2
  <2>3. CASE /\ mut[p].pc = "replied" /\ mut[p].i \in Cancels
             /\ mut'[p].i = mut[p].i /\ mut'[p].reply = mut[p].reply
    BY <1>2, <2>0, <2>3 DEF TermInv
  <2>4. ASSUME NEW m \in net, m.i \in Sends, mut'[p].i = m.i, PlaceOrder(m.i, m.epoch)
        PROVE  mut'[p].i \notin Cancels /\ placed'[mut'[p].i.of] > 0
    <3>1. placed \in [Send -> Nat]  BY DEF ExecInv, FenceInv, WindowsTypeOK
    <3>2. placed'[m.i.of] = placed[m.i.of] + 1
      BY <2>0, <2>4, <3>1 DEF PlaceOrder, NativeSend
    <3> QED  BY <2>0, <2>4, <3>1, <3>2
  <2>5. ASSUME NEW m \in net, mut'[p].i = m.i, Cancelled(m, mut'[p].reply)
        PROVE  /\ mut'[p].i \notin Sends
               /\ mut'[p].reply = "CANCELLED" => order'[mut'[p].i.of] \in Final
    BY <2>0, <2>5 DEF Cancelled, CancelReply, Final
  <2> QED  BY <1>1, <2>1, <2>2, <2>3, <2>4, <2>5, AnswersArise
<1> QED  BY <1>2, <1>3, <1>4 DEF TermInv

\* Without resume, an intent recorded as TERMINAL or CANCELLED has no active
\* order (_mark_cancelled_target, _reconcile_command).
THEOREM TerminalOrdersGone ==
    ASSUME "resume" \notin Commands  PROVE Spec => []TerminalMeansGone
<1>1. Init => TermInv
  BY IntentFacts, IdleHolds, IntentsApart
  DEF Init, DocumentInit, InitialDocument, WindowsInit, TermInv
<1>2. ASSUME ExecInv, TermInv, [Next]_vars  PROVE TermInv'
  <2>1. CASE UNCHANGED vars  BY <1>2, <2>1 DEF vars, procVars, winVars, TermInv
  <2> QED  BY <1>2, <2>1, TermStep
<1>3. TermInv => TerminalMeansGone  BY DEF TermInv, TerminalMeansGone, Live, Final
<1> QED  BY <1>1, <1>2, <1>3, ExecAlways, PTL DEF Spec

-----------------------------------------------------------------------------
(* No order after the close.  With one process: a second one doubts, as it *)
(* starts, the call that the first still makes.                            *)

\* A request for the native call has a receipt, so a query finds its order or
\* learns nothing; the holder of the lock is in no doubt.
CloseInv ==
    /\ \A s \in Send :
          doc.intent[SendIntent(s)] \in Closed
            => placed[s] > 0 \/ \A m \in net : m.i = SendIntent(s) => m.op # "call"
    /\ \A s \in Send, p \in Proc :
          mut[p].i = SendIntent(s)
            => doc.intent[SendIntent(s)] = "PERSISTED" /\ SendIntent(s) \notin doc.unknown
    /\ \A m \in net : m.op = "call" => receipt[m.i] > 0

\* Only a reconcile writes RECONCILED.
ClosesLate(s) ==
    /\ doc'.intent[SendIntent(s)] = "RECONCILED"
    /\ doc.intent[SendIntent(s)] # "RECONCILED"

LEMMA ReconciledArises ==
    ASSUME ExecInv, Kinds, "resume" \notin Commands, NEW s \in Send, ClosesLate(s)
    PROVE  Reconciles
<1> DEFINE i == SendIntent(s)
<1>0. doc \in Document /\ doc.intent \in [Intent -> IntentState] /\ i \in Intent
  BY IntentFacts DEF ExecInv, GoodDoc, Good, Document
<1> USE DEF ClosesLate
<1>1. doc'.intent[i] # doc.intent[i]  OBVIOUS
<1>2. ~Apart  BY <1>1, PlainWrites DEF Apart, ExecInv
<1>3. ASSUME NEW p \in Proc, NEW th \in Thread, NEW j \in Intent, Persists(p, th, j)
      PROVE  FALSE
  BY <1>0, <1>3 DEF Persists, PersistIntent, Document
<1>4. ASSUME NEW p \in Proc, GivesUp(p) \/ Enters(p) \/ Crash(p)  PROVE FALSE
  BY <1>1, <1>4 DEF GivesUp, Enters, Crash
<1>5. ASSUME NEW p \in Proc, Doubts(p)  PROVE FALSE
  <2>1. CASE doc' = MarkUnknown(doc, mut[p].i)
    <3>1. doc'.intent = [doc.intent EXCEPT ![mut[p].i] = "UNKNOWN_OUTCOME"]
      BY <1>0, <2>1 DEF MarkUnknown, Document
    <3> QED  BY <1>0, <3>1
  <2> QED  BY <1>1, <1>5, <2>1 DEF Doubts
<1>6. ASSUME NEW p \in Proc, Closes(p)  PROVE FALSE
  BY <1>0, <1>1, <1>6 DEF Closes, MarkCancelledTarget, Document
<1>7. ASSUME NEW p \in Proc, Believes(p)  PROVE FALSE
  <2>1. mut[p].reply \in {"SUBMITTED", "CANCELLED", "REJECTED"}
    BY <1>7 DEF Believes, ExecInv, MutInv, LockInv, Sound
  <2>2. CASE doc' = MarkResult(doc, mut[p].i, mut[p].reply, TRUE)
    <3>1. doc'.intent = [doc.intent EXCEPT ![mut[p].i] =
                           IF mut[p].reply = "REJECTED" THEN "TERMINAL" ELSE mut[p].reply]
      BY <1>0, <2>2 DEF MarkResult, Document
    <3> QED  BY <1>0, <2>1, <3>1
  <2> QED  BY <1>1, <1>7, <2>2 DEF Believes
<1>8. ASSUME NEW p \in Proc, Boot(p)  PROVE FALSE
  BY <1>0, <1>8 DEF Boot, Commit, Bootstrap, Document
<1>9. ASSUME NEW m \in net, Handle(m)  PROVE FALSE
  BY <1>1, <1>9, HandleStep DEF Others
<1>10. ~World  BY <1>1 DEF World
<1> HIDE DEF ClosesLate
<1> QED
  BY <1>2, <1>3, <1>4, <1>5, <1>6, <1>7, <1>8, <1>9, <1>10 DEF Kinds

\* A new request for the native call comes from the holder of the lock, which has
\* its receipt.
LEMMA CallArises ==
    ASSUME ExecInv, Kinds, NEW m \in net', m \notin net, m.op = "call"
    PROVE  UNCHANGED doc /\ receipt'[m.i] > 0 /\ \E p \in Proc : mut[p].i = m.i
<1> DEFINE Goal == UNCHANGED doc /\ receipt'[m.i] > 0 /\ \E p \in Proc : mut[p].i = m.i
<1>1. net' # net  OBVIOUS
<1>2. ~Apart /\ ~World  BY <1>1 DEF Apart, World, procVars
<1>3. ASSUME NEW p \in Proc, NEW th \in Thread, NEW j \in Intent, Persists(p, th, j)
      PROVE  FALSE
  BY <1>1, <1>3 DEF Persists
<1>4. ASSUME NEW p \in Proc,
             Releases(p) \/ Targets(p) \/ Boot(p) \/ Crash(p)
                \/ Aside(p, "cmd") \/ Aside(p, "req")
      PROVE  FALSE
  BY <1>1, <1>4 DEF Releases, Targets, Boot, Crash, Aside
<1>5. ASSUME NEW p \in Proc, Enters(p)  PROVE FALSE
  BY <1>5 DEF Enters, Request
<1>6. ASSUME NEW n \in net, Handle(n)  PROVE Goal
  <2>1. /\ ~Consumed(n)
        /\ \A p \in Proc : \A reply : ~Answered(p, n, reply)
    BY DEF Consumed, Answered
  <2>2. PICK p \in Proc :
           /\ Passed(n) /\ Others
           /\ Forwarded(p, n, IF n.op = "install" THEN "register" ELSE "call")
    BY <1>6, <2>1, HandleStep
  <2>3. m = Request(p, IF n.op = "install" THEN "register" ELSE "call")
    BY <2>2 DEF Forwarded
  <2>4. n.op = "register" /\ m.i = n.i /\ mut[p].i = m.i
    BY <2>2, <2>3 DEF Request, Passed, Forwarded
  <2> QED  BY <2>2, <2>4 DEF Passed, Others
<1> QED
  BY <1>2, <1>3, <1>4, <1>5, <1>6 DEF Kinds, GivesUp, Doubts, Closes

\* A single process that holds its lock does so in no doubt.
LEMMA HolderSure ==
    ASSUME ExecInv, CloseInv, Kinds, "resume" \notin Commands,
           NEW p \in Proc, \A q \in Proc : q = p,
           NEW s \in Send, mut'[p].i = SendIntent(s)
    PROVE  doc'.intent[SendIntent(s)] = "PERSISTED" /\ SendIntent(s) \notin doc'.unknown
<1> DEFINE i == SendIntent(s)
           Goal == doc'.intent[i] = "PERSISTED" /\ i \notin doc'.unknown
<1>0. /\ i \in Intent /\ i \in Sends /\ i \notin Cancels /\ i # NoIntent
      /\ mut \in [Proc -> Holding] /\ doc \in Document /\ doc.intent \in [Intent -> IntentState]
  BY IntentFacts, IntentsApart DEF ExecInv, MutInv, GoodDoc, Good, Document
<1>1. ASSUME mut[p].i = i  PROVE doc.intent[i] = "PERSISTED" /\ i \notin doc.unknown
  BY <1>1 DEF CloseInv
<1>2. CASE UNCHANGED <<doc, mut>>  BY <1>1, <1>2
<1>3. CASE Apart
  BY <1>1, <1>3, PlainWrites DEF Apart, ExecInv
<1>4. ASSUME NEW th \in Thread, NEW j \in Intent, Persists(p, th, j)  PROVE Goal
  <2>1. mut[p].i = NoIntent  BY <1>4 DEF Persists, ExecInv, MutInv, LockInv, Sound
  <2>2. j = i  BY <1>0, <1>4, <2>1 DEF Persists, IdleMut
  <2>3. doc' = PersistIntent(doc, i) /\ ~Exist(i)  BY <1>4, <2>2 DEF Persists
  <2>4. i \notin doc.unknown
    BY <2>3 DEF ExecInv, GoodDoc, Good, Accounted, Exist
  <2> QED  BY <1>0, <2>3, <2>4 DEF PersistIntent, Document
<1>5. ~Releases(p) /\ ~Crash(p)
  BY <1>0, IdleHolds DEF Releases, Release, Crash
<1>6. ~(Believes(p) /\ Targets(p))
  <2>1. ASSUME Believes(p), Targets(p)  PROVE mut[p].i \in Cancels /\ mut'[p].i = mut[p].i
    BY <1>0, <2>1 DEF Believes, Targets, ExecInv, MutInv, LockInv, Sound, Holding
  <2> QED  BY <1>0, <2>1
<1>7. CASE Enters(p)
  <2>1. mut'[p].i = mut[p].i  BY <1>0, <1>7 DEF Enters, Holding
  <2> QED  BY <1>1, <1>7, <2>1 DEF Enters
<1>8. CASE Aside(p, "cmd") /\ Reconciles
  <2>1. i \notin Recovery(doc) /\ doc.intent[i] = "PERSISTED"
    BY <1>0, <1>1, <1>8 DEF Aside, Recovery
  <2> HIDE DEF i
  <2>2. doc'.intent[i] = doc.intent[i] /\ i \notin doc'.unknown
    BY <1>8, <2>1, ReconciledChild DEF i
  <2> QED  BY <2>1, <2>2 DEF i
<1>9. ~Boot(p)
  <2>1. ASSUME Boot(p)  PROVE mut[p].pc # "idle"
    BY <1>0, <2>1 DEF Boot, ExecInv, MutInv, LockInv, Sound
  <2>2. ASSUME Boot(p)  PROVE FALSE
    BY <2>1, <2>2, HeldIntent DEF Boot, Running, ExecInv, ProcInv, ThreadInv
  <2> QED  BY <2>2
<1>10. ASSUME NEW m \in net, Handle(m)  PROVE Goal
  <2>1. Others /\ mut'[p].i = mut[p].i  BY <1>10, HandleStep, HandleLocal
  <2> QED  BY <1>1, <2>1 DEF Others
<1>11. CASE World  BY <1>2, <1>11 DEF World, procVars
<1> HIDE DEF i
<1> QED
  BY <1>3, <1>4, <1>5, <1>6, <1>7, <1>8, <1>9, <1>10, <1>11
  DEF Kinds, GivesUp, Doubts, Closes, i

LEMMA CloseStep ==
    ASSUME ExecInv, TermInv, CloseInv, Next, "resume" \notin Commands,
           \A p, q \in Proc : p = q
    PROVE  CloseInv'
<1>1. Kinds /\ ExecInv' /\ [WindowsNext]_winVars  BY EveryStep DEF StepSound
<1>2. ASSUME NEW m \in net', m.op = "call"  PROVE receipt'[m.i] > 0
  <2>1. CASE m \in net
    <3>1. m.i \in Intent /\ m.i.of \in Send
      BY <2>1, IntentFacts DEF ExecInv, MutInv, Message
    <3> QED  BY <1>1, <1>2, <2>1, <3>1, OrdersGoOn DEF TermInv, CloseInv
  <2> QED  BY <1>1, <1>2, <2>1, CallArises
<1>3. ASSUME NEW s \in Send, NEW p \in Proc, mut'[p].i = SendIntent(s)
      PROVE  doc'.intent[SendIntent(s)] = "PERSISTED" /\ SendIntent(s) \notin doc'.unknown
  BY <1>1, <1>3, HolderSure
<1>4. ASSUME NEW s \in Send, doc'.intent[SendIntent(s)] \in Closed, ~(placed'[s] > 0),
             NEW m \in net', m.i = SendIntent(s), m.op = "call"
      PROVE  FALSE
  <2> DEFINE i == SendIntent(s)
  <2>0. /\ placed[s] = 0 /\ order[s] = "NONE" /\ i \in Intent /\ i.of = s
    <3>1. placed \in [Send -> Nat] /\ (order[s] = "NONE" <=> placed[s] = 0)
      BY DEF ExecInv, FenceInv, WindowsTypeOK, TermInv
    <3> QED  BY <1>1, <1>4, <3>1, OrdersGoOn, IntentFacts DEF TermInv
  <2>1. m \in net
    <3>1. ASSUME m \notin net  PROVE FALSE
      <4>1. UNCHANGED doc /\ \E p \in Proc : mut[p].i = i
        BY <1>1, <1>4, <3>1, CallArises
      <4>2. doc.intent[i] = "PERSISTED"  BY <4>1 DEF CloseInv
      <4> QED  BY <1>4, <4>1, <4>2 DEF Closed
    <3> QED  BY <3>1
  <2>2. doc.intent[i] \notin Closed  BY <1>4, <2>0, <2>1 DEF CloseInv
  <2>3. receipt[i] > 0  BY <1>4, <2>1 DEF CloseInv
  <2>4. doc'.intent[i] = "RECONCILED"
    BY <1>1, <1>4, <2>0, <2>2, TerminalArises DEF Arises, Closed, Final
  <2>5. Reconciles
    BY <1>1, <2>2, <2>4, ReconciledArises DEF ClosesLate, Closed
  <2>6. PICK reply \in QueryReplies(i, i \in doc.known) :
           doc'.intent[i] = Recovered(doc, i, reply)
    BY <2>2, <2>4, <2>5, ReconciledChild DEF Closed
  <2> HIDE DEF i
  <2>7. reply = "UNKNOWN"  BY <2>0, <2>3, <2>6 DEF QueryReplies
  <2> QED  BY <2>4, <2>6, <2>7 DEF Recovered
<1> QED  BY <1>2, <1>3, <1>4 DEF CloseInv

\* A step that places an order.
LEMMA OrderArises ==
    ASSUME ExecInv, Kinds, NEW s \in Send, placed'[s] # placed[s]
    PROVE  \E m \in net : m.op = "call" /\ m.i = SendIntent(s)
<1>1. ~UNCHANGED winVars  BY DEF winVars
<1>2. ~Apart /\ ~World
  BY <1>1 DEF Apart, World, BrokerStep, WindowsRestart
<1>3. ASSUME NEW p \in Proc, NEW th \in Thread, NEW j \in Intent, Persists(p, th, j)
      PROVE  FALSE
  BY <1>1, <1>3 DEF Persists
<1>4. ASSUME NEW p \in Proc,
             Releases(p) \/ Targets(p) \/ Boot(p) \/ Crash(p) \/ Enters(p)
                \/ Aside(p, "cmd") \/ Aside(p, "req")
      PROVE  FALSE
  BY <1>1, <1>4 DEF Releases, Targets, Boot, Crash, Enters, Aside
<1>5. ASSUME NEW m \in net, Handle(m)  PROVE m.op = "call" /\ m.i = SendIntent(s)
  <2>1. m.op = "call" /\ m.i \in Sends /\ PlaceOrder(m.i, m.epoch)
    BY <1>1, <1>5, HandleStep DEF Passed, Cancelled, RequestCancel, NativeCancel
  <2>2. m.i.of = s
    BY <2>1 DEF PlaceOrder, NativeSend, ExecInv, FenceInv, WindowsTypeOK
  <2> QED  BY <2>1, <2>2, IntentFacts
<1> QED  BY <1>2, <1>3, <1>4, <1>5 DEF Kinds, GivesUp, Doubts, Closes

\* Without resume and with one process, no order is placed for a send intent
\* after the document called it closed (_reconcile_command).
THEOREM NothingPlacedAfterClose ==
    ASSUME "resume" \notin Commands, \A p, q \in Proc : p = q
    PROVE  Spec => NoOrderAfterClose
<1>1. Init => TermInv /\ CloseInv
  BY IntentFacts, IdleHolds, IntentsApart
  DEF Init, DocumentInit, InitialDocument, WindowsInit, TermInv, CloseInv, Closed
<1>2. ASSUME ExecInv, TermInv /\ CloseInv, [Next]_vars  PROVE (TermInv /\ CloseInv)'
  <2>1. CASE UNCHANGED vars
    BY <1>2, <2>1 DEF vars, procVars, winVars, TermInv, CloseInv
  <2> QED  BY <1>2, <2>1, TermStep, CloseStep
<1>3. ASSUME ExecInv, CloseInv, [Next]_vars
      PROVE  [\A s \in Send :
                placed'[s] # placed[s] => doc.intent[SendIntent(s)] \notin Closed]_vars
  <2>1. SUFFICES ASSUME Next, NEW s \in Send, placed'[s] # placed[s]
                 PROVE  doc.intent[SendIntent(s)] \notin Closed
    BY <1>3
  <2>2. Kinds /\ ExecInv' /\ [WindowsNext]_winVars  BY <1>3, <2>1, EveryStep DEF StepSound
  <2>3. PICK m \in net : m.op = "call" /\ m.i = SendIntent(s)
    BY <1>3, <2>1, <2>2, OrderArises
  <2>4. placed[s] = 0
    BY <1>3, <2>3 DEF ExecInv, FenceInv, WindowsTypeOK, SendInv, Silent
  <2> QED  BY <1>3, <2>3, <2>4 DEF CloseInv
<1> QED  BY <1>1, <1>2, <1>3, ExecAlways, PTL DEF Spec, NoOrderAfterClose
=============================================================================
