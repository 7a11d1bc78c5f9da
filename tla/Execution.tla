------------------------------ MODULE Execution ------------------------------
(***************************************************************************)
(* The Execution service in front of the Windows order gateway: the        *)
(* leader's plan runner, the control commands, reconciliation and resume   *)
(* (backend/app/execution/orchestrator.py, final_runtime.py, gateway.py)   *)
(* composed with the durable document (ExecutionDocument) and the gateway  *)
(* (WindowsFence).                                                         *)
(*                                                                         *)
(* A process has three threads that matter: "run" dispatches the children  *)
(* of a started plan, "cmd" is inside the command lock, "req" resumes the  *)
(* plan or repeats its start.  They share the mutation lock, which a send or cancel  *)
(* holds from its durable intent to its durable outcome.  A step is a      *)
(* transaction of the repository or a request handled by the gateway.      *)
(***************************************************************************)
EXTENDS WindowsFence, ExecutionDocument

CONSTANTS
    Proc,       \* Execution processes sharing the repository
    NoProc,     \* no lease owner
    Commands,   \* the commands a run explores
    Faults      \* the faults a run explores

ASSUME ExecutionAssumption ==
    /\ NoProc \notin Proc
    /\ Send \subseteq Nat       \* numbered in plan order
    /\ Commands \subseteq {"preview", "enable", "stop", "revoke", "drain",
                           "reconcile", "resume", "retry"}
    /\ Faults \subseteq {"crash", "timeout", "storage", "conflict", "lease",
                         "renew", "expiry", "gateway"}

VARIABLES
    lease,      \* the lease in the document: owner, epoch, unexpired
    started,    \* the durable receipt of an accepted start exists
    expired,    \* the authority of the plan has passed its expiry
    up,         \* running processes
    halted,     \* _local_halted
    tok,        \* tok[p]: epoch of the leader token p holds, 0 if none
    mut,        \* mut[p]: the send or cancel holding the mutation lock of p
    call,       \* call[p][th]: the operation a thread of p is in
    clean,      \* processes whose reconcile has seen no write since it began
    net         \* requests on their way to the gateway

envVars == <<lease, started, expired, up, tok>>
procVars == <<envVars, halted, mut, call, clean, net>>
vars == <<winVars, doc, procVars>>

Thread == {"run", "cmd", "req"}

\* Children, and the targets of a cancellation, are taken in plan order.
First(s, todo) == s \in todo /\ \A t \in todo : s <= t

Control == {"stop", "revoke", "drain", "emergency"}

\* An operation: its children or targets still to do, the leader epoch and
\* token it captured (stale once the lease is renewed), the snapshot it took.
IdleCall == [op |-> "idle", pc |-> "next", todo |-> {}, epoch |-> 0,
             stale |-> FALSE, live |-> {}, reply |-> "UNKNOWN", onTarget |-> FALSE]

NoIntent == [act |-> "none"]
IdleMut  == [pc |-> "idle", i |-> NoIntent, by |-> "run", reply |-> "ERROR"]

\* The values of call[p][th], of mut[p] and of a request.
Operation ==
    [op : {"idle", "dispatch", "resume", "query", "reconcile"} \cup Control,
     pc : {"next", "mutating", "failed", "abort", "apply", "final", "halt",
           "mark", "close", "commit"},
     todo : SUBSET Send, epoch : 0..MaxEpoch, stale : BOOLEAN,
     live : SUBSET Send, reply : Reply, onTarget : BOOLEAN]

Holding ==
    [pc : {"idle", "persisted", "install", "register", "call", "replied", "target"},
     i : Intent \cup {NoIntent}, by : Thread,
     reply : {"ERROR", "SUBMITTED", "CANCELLED", "REJECTED"}]

Message == [op : {"install", "register", "call"}, i : Intent, epoch : 1..MaxEpoch]

TypeOK ==
    /\ WindowsTypeOK
    /\ DocumentTypeOK
    /\ lease \in [owner : Proc \cup {NoProc}, epoch : 0..MaxEpoch, live : BOOLEAN]
    /\ started \in BOOLEAN /\ expired \in BOOLEAN
    /\ up \subseteq Proc /\ halted \subseteq Proc /\ clean \subseteq Proc
    /\ tok \in [Proc -> 0..MaxEpoch]
    /\ mut \in [Proc -> Holding]
    /\ call \in [Proc -> [Thread -> Operation]]
    /\ net \subseteq Message

Init ==
    /\ WindowsInit
    /\ DocumentInit
    /\ lease = [owner |-> NoProc, epoch |-> 0, live |-> FALSE]
    /\ started = FALSE /\ expired = FALSE
    /\ up = {} /\ halted = {} /\ clean = {} /\ net = {}
    /\ tok = [p \in Proc |-> 0]
    /\ mut = [p \in Proc |-> IdleMut]
    /\ call = [p \in Proc |-> [th \in Thread |-> IdleCall]]

-----------------------------------------------------------------------------
(* The repository.  A transaction advances the version, so every reconcile *)
(* that began before it will fail its compare-and-swap.                    *)

Commit(d) == doc' = d /\ clean' = {}

\* The write of d fails: before the file was replaced, or after it, when the
\* directory sync fails (DurableRepository!Unsynced).
WriteFails(d) == "storage" \in Faults /\ (UNCHANGED <<doc, clean>> \/ Commit(d))

\* Wrong: a failed write is ignored.
CommitOrHalt_Ignores(p, d) == UNCHANGED halted /\ (Commit(d) \/ WriteFails(d))

\* Writers that answer a storage failure by halting the process.
WriteHalts(p, d) == WriteFails(d) /\ halted' = halted \cup {p}

CommitOrHalt(p, d) == (Commit(d) /\ UNCHANGED halted) \/ WriteHalts(p, d)

NoWrite == UNCHANGED <<doc, clean, halted>>

-----------------------------------------------------------------------------
(* Admission.  A token captured before a renewal differs from the lease in *)
(* its expiry: the strict admission refuses it, the planned-dispatch       *)
(* admission looks at the identity only.                                   *)

Holds(p, e) == lease.owner = p /\ lease.live /\ lease.epoch = e /\ tok[p] = e

Admitted(p, e, stale) == e > 0 /\ Holds(p, e) /\ ~stale

Authorized == doc.authority = "ENABLED" /\ ~expired

\* _mutation_preflight of a send.
SendPreflight(p, e) ==
    /\ p \notin halted
    /\ doc.unknown = {}
    /\ doc.lifecycle \notin Halts \cup {"DRAINING"}
    /\ doc.recon = "RECONCILED"
    /\ Holds(p, e)
    /\ Authorized
    /\ doc.plan = "ACTIVE"

\* _mutation_preflight of a cancel; an emergency cancel skips the checks on
\* unknown outcomes, lifecycle and reconciliation.
CancelPreflight(p, s, e, stale, emerg) ==
    LET target == SendIntent(s)
    IN /\ p \notin halted
       /\ emerg \/ /\ doc.unknown = {}
                   /\ doc.lifecycle \notin Halts
                   /\ doc.recon = "RECONCILED"
       /\ doc.intent[target] \notin {"NONE", "UNKNOWN_OUTCOME"}
       /\ target \notin doc.unknown
       /\ emerg => doc.intent[target] = "ACKNOWLEDGED"
       /\ Admitted(p, e, stale)
       /\ Authorized
       /\ doc.plan = "ACTIVE"

-----------------------------------------------------------------------------
(* How an operation goes on.                                               *)

SetCall(p, th, c) == call' = [call EXCEPT ![p][th] = c]
Goto(p, th, pc)   == call' = [call EXCEPT ![p][th].pc = pc]
Done(p, th)       == SetCall(p, th, IdleCall)

\* The child is done; the operation ends with the last one.
Did(p, th, s) ==
    LET c == call[p][th]
    IN SetCall(p, th, IF c.todo = {s} /\ c.op \notin Control THEN IdleCall
                      ELSE [c EXCEPT !.todo = @ \ {s}, !.pc = "next",
                                     !.live = {}, !.reply = "UNKNOWN"])

\* _halt_runner_after_failure calls emergency_stop, which reads its targets
\* and its token first.
EmergencyCall(p) ==
    [IdleCall EXCEPT !.op = "emergency", !.epoch = tok[p],
       !.todo = {s \in Send : doc.intent[SendIntent(s)] = "ACKNOWLEDGED"}]

\* Wrong: a failed cancellation ends the command.
Raise_Plain(p, th) ==
    SetCall(p, th, IF call[p][th].op = "dispatch" THEN EmergencyCall(p) ELSE IdleCall)

\* A raised exception: the runner stops in an emergency, revoke and
\* emergency_stop still revoke the authority, the rest just end.
Raise(p, th) ==
    LET c == call[p][th]
    IN SetCall(p, th, CASE c.op = "dispatch" -> EmergencyCall(p)
                        [] c.op \in {"revoke", "emergency"} -> [c EXCEPT !.pc = "abort"]
                        [] OTHER -> IdleCall)

-----------------------------------------------------------------------------
(* _mutate_order, after its intent is durable.                             *)

Caller(p)      == call[p][mut[p].by]
Request(p, op) == [op |-> op, i |-> mut[p].i, epoch |-> Caller(p).epoch]
Release(p)     == mut' = [mut EXCEPT ![p] = IdleMut]

Preflight(p) ==
    LET c == Caller(p)
    IN IF mut[p].i \in Sends THEN SendPreflight(p, c.epoch)
       ELSE CancelPreflight(p, mut[p].i.of, c.epoch, c.stale, c.op = "emergency")

\* The second preflight, on the newest document, then the first request.
EnterGateway(p) ==
    /\ mut[p].pc = "persisted"
    /\ \/ /\ Preflight(p)
          /\ mut' = [mut EXCEPT ![p].pc = "install"]
          /\ net' = net \cup {Request(p, "install")}
          /\ UNCHANGED call
       \/ /\ ~Preflight(p)
          /\ Release(p) /\ Raise(p, mut[p].by)
          /\ UNCHANGED net
    /\ NoWrite
    /\ UNCHANGED <<winVars, envVars>>

\* The gateway handles a request.  Its effect does not depend on whether the
\* client still waits; answered: the reply reaches the client in time.
Advance(p, m, pc, reply) ==
    /\ mut' = [mut EXCEPT ![p].pc = pc, ![p].reply = reply]
    /\ net' = (net \ {m}) \cup
              IF pc \in {"register", "call"} THEN {Request(p, pc)} ELSE {}

Waiting(p, m) == mut[p].pc = m.op /\ mut[p].i = m.i

\* Wrong: a request whose client is gone is delivered again.
Answer_Redelivers(m, pc, reply) ==
    \/ \E p \in Proc : Waiting(p, m) /\ Advance(p, m, pc, reply)
    \/ ~(\E p \in Proc : Waiting(p, m)) /\ UNCHANGED <<net, mut>>

Answer(m, pc, reply) ==
    \/ \E p \in Proc : Waiting(p, m) /\ Advance(p, m, pc, reply)
    \/ /\ "timeout" \in Faults \/ ~\E p \in Proc : Waiting(p, m)
       /\ net' = net \ {m}
       /\ UNCHANGED mut

HandleInstall(m) ==
    /\ m.op = "install"
    /\ \/ InstallFence(m.epoch) /\ Answer(m, "register", "ERROR")
       \/ /\ "gateway" \in Faults
          /\ InstallDoubtful(m.epoch)
          /\ net' = net \ {m}
          /\ UNCHANGED mut
       \/ /\ ~Installable(m.epoch)
          /\ net' = net \ {m}
          /\ UNCHANGED <<winVars, mut>>

HandleRegister(m) ==
    /\ m.op = "register"
    /\ \/ RegisterReceipt(m.i, m.epoch) /\ Answer(m, "call", "ERROR")
       \/ /\ ~Registrable(m.i, m.epoch)
          /\ net' = net \ {m}
          /\ UNCHANGED <<winVars, mut>>

\* An admitted send fails too if the native handler returns no order id.
HandleSend(m) ==
    /\ m.op = "call" /\ m.i \in Sends
    /\ \/ PlaceOrder(m.i, m.epoch) /\ Answer(m, "replied", "SUBMITTED")
       \/ /\ net' = net \ {m}
          /\ UNCHANGED <<winVars, mut>>

HandleCancel(m) ==
    /\ m.op = "call" /\ m.i \in Cancels
    /\ \E found \in Resolutions(m.i, SendIntent(m.i.of) \in doc.known) :
         \/ /\ found
            /\ RequestCancel(m.i, m.epoch)
            /\ LET reply == CancelReply(order'[m.i.of])
               IN IF reply = "ERROR" THEN net' = net \ {m} /\ UNCHANGED mut
                  ELSE Answer(m, "replied", reply)
         \/ /\ ~found \/ ~Admissible(m.i, m.epoch)
            /\ net' = net \ {m}
            /\ UNCHANGED <<winVars, mut>>

Handle(m) ==
    /\ HandleInstall(m) \/ HandleRegister(m) \/ HandleSend(m) \/ HandleCancel(m)
    /\ NoWrite
    /\ UNCHANGED <<envVars, call>>

\* Wrong: without an answer the request is sent again.
OutcomeUnknown_Retries(p) ==
    /\ mut[p].pc \in {"install", "register", "call"}
    /\ Request(p, mut[p].pc) \notin net
    /\ net' = net \cup {Request(p, mut[p].pc)}
    /\ NoWrite
    /\ UNCHANGED <<winVars, envVars, mut, call>>

\* Wrong: the client waits for an answer however long it takes.
OutcomeUnknown_NoTimeout(p) ==
    /\ mut[p].pc \in {"install", "register", "call"}
    /\ Request(p, mut[p].pc) \notin net
    /\ CommitOrHalt(p, MarkUnknown(doc, mut[p].i))
    /\ Release(p) /\ Raise(p, mut[p].by)
    /\ UNCHANGED <<winVars, envVars, net>>

\* An error answer, or none before the timeout: the outcome is unknown.  The
\* request may still be on its way.
OutcomeUnknown(p) ==
    /\ mut[p].pc \in {"install", "register", "call"}
    /\ "timeout" \in Faults \/ Request(p, mut[p].pc) \notin net
    /\ CommitOrHalt(p, MarkUnknown(doc, mut[p].i))
    /\ Release(p) /\ Raise(p, mut[p].by)
    /\ UNCHANGED <<winVars, envVars, net>>

\* The answer is accepted only under the lease of the call.
AcceptReply(p) ==
    LET m == mut[p]
        c == Caller(p)
        admitted == Holds(p, c.epoch) /\ (m.i \in Cancels => ~c.stale)
    IN /\ m.pc = "replied"
       /\ \/ /\ ~admitted
             /\ CommitOrHalt(p, MarkUnknown(doc, m.i))
             /\ Release(p) /\ Raise(p, m.by)
          \/ /\ admitted
             /\ WriteHalts(p, MarkResult(doc, m.i, m.reply, TRUE))
             /\ Release(p) /\ Raise(p, m.by)
          \/ /\ admitted
             /\ Commit(MarkResult(doc, m.i, m.reply, TRUE))
             /\ CASE m.reply = "CANCELLED" ->
                       mut' = [mut EXCEPT ![p].pc = "target"] /\ UNCHANGED call
                  [] m.reply = "REJECTED" -> Release(p) /\ Goto(p, m.by, "failed")
                  [] OTHER -> Release(p) /\ Goto(p, m.by, "next")
             /\ UNCHANGED halted
       /\ UNCHANGED <<winVars, envVars, net>>

CloseTarget(p) ==
    /\ mut[p].pc = "target"
    /\ Release(p)
    /\ \/ /\ Commit(MarkCancelledTarget(doc, mut[p].i.of))
          /\ Goto(p, mut[p].by, "next")
       \/ /\ WriteFails(MarkCancelledTarget(doc, mut[p].i.of))
          /\ Raise(p, mut[p].by)
    /\ UNCHANGED <<winVars, envVars, halted, net>>

\* The transaction that makes an intent durable; preflight and write are one
\* compare-and-swap.  Losing the swap to another writer refuses the mutation,
\* and so does a failed write, which may leave the intent behind.
Persist(p, th, i) ==
    /\ Commit(PersistIntent(doc, i))
    /\ mut' = [mut EXCEPT ![p] = [IdleMut EXCEPT !.pc = "persisted", !.i = i, !.by = th]]
    /\ Goto(p, th, "mutating")

Refuse(p, th) ==
    /\ mut[p].pc = "idle"
    /\ Raise(p, th)
    /\ NoWrite
    /\ UNCHANGED mut

Mutate(p, th, i, ok) ==
    \/ /\ mut[p].pc = "idle" /\ ok
       /\ \/ Persist(p, th, i)
          \/ WriteFails(PersistIntent(doc, i)) /\ Raise(p, th) /\ UNCHANGED mut
       /\ UNCHANGED halted
    \/ (~ok \/ "conflict" \in Faults) /\ Refuse(p, th)

\* Wrong: the intent that is there is written again as a new one.
Reuse_Rewrites(p, th, s) ==
    /\ mut[p].pc = "idle"
    /\ Did(p, th, s)
    /\ Commit(PersistIntent(doc, SendIntent(s)))
    /\ UNCHANGED <<halted, mut>>

\* A mutation whose intent exists returns what the document says of it.
Reuse(p, th, s) ==
    /\ mut[p].pc = "idle"
    /\ Did(p, th, s)
    /\ NoWrite
    /\ UNCHANGED mut

-----------------------------------------------------------------------------
(* The runner (_dispatch_accepted_start, send_plan_order) and the first    *)
(* sends of a resume.                                                      *)

\* A child that is there is not sent again: SUBMITTED and ACKNOWLEDGED pass,
\* any other state stops the runner.  A missing child is sent under the
\* identity the runner started with.
Dispatch(p, th) ==
    LET c == call[p][th]
    IN /\ c.op = "dispatch" /\ c.pc = "next"
       /\ \E s \in Send :
            LET state == doc.intent[SendIntent(s)]
                ok == doc.lifecycle = "READY" /\ SendPreflight(p, c.epoch)
            IN /\ First(s, c.todo)
               /\ \/ state \in {"SUBMITTED", "ACKNOWLEDGED"} /\ Reuse(p, th, s)
                  \/ /\ state \notin {"NONE", "SUBMITTED", "ACKNOWLEDGED"}
                     /\ Refuse(p, th)
                  \/ state = "NONE" /\ Mutate(p, th, SendIntent(s), ok)
       /\ UNCHANGED <<winVars, envVars, net>>

\* resume_active_plan: the boundary checks, with a fresh snapshot.  Missing
\* children are sent only if no child has to be queried and the document
\* agrees with the snapshot; otherwise the open children are queried.
BeginResume(p) ==
    LET state(s) == doc.intent[SendIntent(s)]
        queried  == {s \in Send : state(s) \in {"PERSISTED", "SUBMITTED", "UNKNOWN_OUTCOME"}}
        missing  == {s \in Send : state(s) = "NONE"}
    IN /\ "resume" \in Commands
       /\ p \in up /\ call[p]["req"].op = "idle"
       /\ Admitted(p, tok[p], FALSE)
       /\ doc.plan = "ACTIVE"
       /\ SnapshotCloses(doc, Live)
       /\ missing # {} => /\ doc.lifecycle = "READY" /\ doc.recon = "RECONCILED"
                          /\ doc.unknown = {} /\ doc.seen = Live
       /\ queried \cup missing # {}
       /\ call' = [call EXCEPT ![p]["req"] =
             [IdleCall EXCEPT !.op = IF queried = {} THEN "resume" ELSE "query",
                              !.todo = IF queried = {} THEN missing ELSE queried,
                              !.epoch = tok[p]]]
       /\ NoWrite
       /\ UNCHANGED <<winVars, envVars, mut, net>>

\* require_current_active precedes every child.
ResumeSend(p) ==
    LET c == call[p]["req"]
        current == Admitted(p, c.epoch, c.stale) /\ doc.plan = "ACTIVE"
    IN /\ c.op = "resume" /\ c.pc = "next"
       /\ \E s \in Send :
            LET missing == doc.intent[SendIntent(s)] = "NONE"
                ok == doc.lifecycle = "READY" /\ SendPreflight(p, c.epoch)
            IN /\ First(s, c.todo)
               /\ \/ current /\ missing /\ Mutate(p, "req", SendIntent(s), ok)
                  \/ current /\ ~missing /\ Reuse(p, "req", s)
                  \/ ~current /\ Refuse(p, "req")
       /\ UNCHANGED <<winVars, envVars, net>>

\* query_intent for each open child: the answer, then two transactions.
ResumeQuery(p) ==
    LET c == call[p]["req"]
        current == Admitted(p, c.epoch, c.stale) /\ doc.plan = "ACTIVE"
    IN /\ c.op = "query" /\ c.pc = "next"
       /\ \/ /\ current
             /\ \E s \in Send :
                  /\ First(s, c.todo)
                  /\ \E reply \in QueryReplies(SendIntent(s), SendIntent(s) \in doc.known) :
                       IF reply = "UNKNOWN" THEN Did(p, "req", s)
                       ELSE SetCall(p, "req", [c EXCEPT !.pc = "mark", !.live = {s},
                                                        !.reply = reply])
          \/ ~current /\ Done(p, "req")
       /\ NoWrite
       /\ UNCHANGED <<winVars, envVars, mut, net>>

ResumeMark(p) ==
    LET c == call[p]["req"]
    IN /\ c.op = "query" /\ c.pc = "mark"
       /\ \E s \in c.live :
            LET d == MarkResult(doc, SendIntent(s), c.reply, receipt[SendIntent(s)] # 0)
            IN \/ Commit(d) /\ UNCHANGED halted /\ Goto(p, "req", "close")
               \/ WriteHalts(p, d) /\ Done(p, "req")
       /\ UNCHANGED <<winVars, envVars, mut, net>>

ResumeClose(p) ==
    LET c == call[p]["req"]
    IN /\ c.op = "query" /\ c.pc = "close"
       /\ \E s \in c.live :
            \/ Commit(CloseUnknown(doc, SendIntent(s))) /\ Did(p, "req", s)
            \/ WriteFails(CloseUnknown(doc, SendIntent(s))) /\ Done(p, "req")
       /\ UNCHANGED <<winVars, envVars, halted, mut, net>>

-----------------------------------------------------------------------------
(* Commands that cancel first: stop, revoke, drain under the command lock, *)
(* and emergency_stop on the runner's thread.                              *)

CommandLock(p) == p \in up /\ call[p]["cmd"].op = "idle"

\* The HTTP layer admits a command only from the current leader; targets and
\* token are read once.
BeginControl(p, op) ==
    /\ op \in Commands /\ op \in Control
    /\ CommandLock(p)
    /\ Admitted(p, tok[p], FALSE)
    /\ call' = [call EXCEPT ![p]["cmd"] =
          [IdleCall EXCEPT !.op = op, !.epoch = tok[p],
             !.todo = {s \in Send : doc.intent[SendIntent(s)] \in Active}]]
    /\ NoWrite
    /\ UNCHANGED <<winVars, envVars, mut, net>>

\* _prepare_control_cancellation: one target after the other.  A cancel that
\* was requested before under this epoch is not requested again.
CancelNext(p, th) ==
    LET c == call[p][th]
    IN /\ c.op \in Control /\ c.pc = "next"
       /\ \E s \in Send :
            LET state == IF c.epoch = 0 THEN "NONE" ELSE doc.intent[CancelIntent(s, c.epoch)]
                ok == CancelPreflight(p, s, c.epoch, c.stale, c.op = "emergency")
            IN /\ First(s, c.todo)
               /\ \/ state \in Closed /\ Reuse(p, th, s)
                  \/ /\ state \notin Closed \cup {"NONE"} /\ mut[p].pc = "idle"
                     /\ Goto(p, th, "failed") /\ NoWrite /\ UNCHANGED mut
                  \/ state = "NONE" /\ Mutate(p, th, CancelIntent(s, c.epoch), ok)
       /\ UNCHANGED <<winVars, envVars, net>>

\* _mark_cancel_failure: the cancel was answered, but not with CANCELLED.
CancelFails(p, th) ==
    /\ call[p][th].op \in Control /\ call[p][th].pc = "failed"
    /\ CommitOrHalt(p, HaltReconcile(doc))
    /\ Raise(p, th)
    /\ UNCHANGED <<winVars, envVars, mut, net>>

\* The broker snapshot after the cancels, read from the gateway.
TakeSnapshot(p, th) ==
    LET c == call[p][th]
    IN /\ c.op \in Control /\ c.pc = "next" /\ c.todo = {}
       /\ SetCall(p, th, [c EXCEPT !.pc = "apply", !.live = Live])
       /\ NoWrite
       /\ UNCHANGED <<winVars, envVars, mut, net>>

\* The snapshot is applied if it shows no active order.  If it shows one, or
\* could not be taken, the process halts in memory only: the audit row of
\* _mark_cancel_failure("all") does not pass the repository's validation, so
\* its transaction fails.
UseSnapshot(p, th) ==
    /\ call[p][th].op \in Control /\ call[p][th].pc = "apply"
    /\ \/ /\ call[p][th].live = {}
          /\ Commit(ApplySnapshot(doc, {}))
          /\ UNCHANGED halted
          /\ Goto(p, th, "final")
       \/ /\ \/ /\ call[p][th].live # {} \/ "timeout" \in Faults
                /\ UNCHANGED <<doc, clean>>
             \/ call[p][th].live = {} /\ WriteFails(ApplySnapshot(doc, {}))
          /\ halted' = halted \cup {p}
          /\ Raise(p, th)
    /\ UNCHANGED <<winVars, envVars, mut, net>>

\* _force_revoke_after_cancel_failure.
RevokeAnyway(p, th) ==
    /\ call[p][th].pc = "abort"
    /\ CommitOrHalt(p, ForceRevoke(doc))
    /\ Done(p, th)
    /\ UNCHANGED <<winVars, envVars, mut, net>>

\* The command's own transaction.  It reads the newest version first, and
\* expects the leader epoch of the command.
ApplyControl(p) ==
    LET c == call[p]["cmd"]
        d == CASE c.op = "stop"   -> Stop(doc)
               [] c.op = "revoke" -> Revoke(doc)
               [] c.op = "drain"  -> Drain(doc)
    IN /\ c.op \in Control /\ c.pc = "final"
       /\ \/ lease.epoch = c.epoch /\ (Commit(d) \/ WriteFails(d))
          \/ /\ lease.epoch # c.epoch \/ "conflict" \in Faults
             /\ UNCHANGED <<doc, clean>>
       /\ Done(p, "cmd")
       /\ UNCHANGED <<winVars, envVars, halted, mut, net>>

ApplyEmergency(p, th) ==
    /\ call[p][th].op = "emergency" /\ call[p][th].pc = "final"
    /\ \/ Commit(EmergencyStop(doc)) /\ Goto(p, th, "halt")
       \/ WriteFails(EmergencyStop(doc)) /\ Done(p, th)
    /\ UNCHANGED <<winVars, envVars, halted, mut, net>>

\* fail_closed_halt, unless an outcome is unknown.
HaltRunner(p, th) ==
    /\ call[p][th].op = "emergency" /\ call[p][th].pc = "halt"
    /\ \/ doc.unknown = {} /\ Commit(HaltReconcile(doc))
       \/ doc.unknown = {} /\ WriteFails(HaltReconcile(doc))
       \/ doc.unknown # {} /\ UNCHANGED <<doc, clean>>
    /\ Done(p, th)
    /\ UNCHANGED <<winVars, envVars, halted, mut, net>>

-----------------------------------------------------------------------------
(* Commands of one transaction, and reconcile.                             *)

PreviewPlan(p) ==
    /\ "preview" \in Commands /\ CommandLock(p) /\ doc.plan # "PREVIEWED"
    /\ Commit(Preview(doc))
    /\ UNCHANGED <<winVars, envVars, halted, mut, call, net>>

EnableAuthority(p) ==
    /\ "enable" \in Commands /\ CommandLock(p) /\ ~expired /\ doc.authority # "ENABLED"
    /\ Commit(Enable(doc))
    /\ UNCHANGED <<winVars, envVars, halted, mut, call, net>>

DispatchCall(p) == [IdleCall EXCEPT !.op = "dispatch", !.todo = Send, !.epoch = tok[p]]

StartPlan(p) ==
    /\ CommandLock(p) /\ Admitted(p, tok[p], FALSE)
    /\ call[p]["run"].op = "idle"
    /\ Startable(doc) /\ ~expired
    /\ \/ /\ Commit(Start(doc))
          /\ started' = TRUE
          /\ call' = [call EXCEPT ![p]["run"] = DispatchCall(p)]
       \/ /\ WriteFails(Start(doc))
          /\ started' = (started \/ doc' # doc)
          /\ UNCHANGED call
    /\ UNCHANGED <<winVars, lease, expired, up, halted, tok, mut, net>>

\* A repeated start command finds its receipt and dispatches again.
RetryStart(p) ==
    /\ "retry" \in Commands
    /\ CommandLock(p) /\ Admitted(p, tok[p], FALSE)
    /\ call[p]["req"].op = "idle"
    /\ started
    /\ call' = [call EXCEPT ![p]["req"] = DispatchCall(p)]
    /\ NoWrite
    /\ UNCHANGED <<winVars, envVars, mut, net>>

\* The positions of the snapshot are the plan's target when all orders of
\* the plan are filled.
OnTarget == \A s \in Send : order[s] = "FILLED"

\* _reconcile_command needs no leader.  It takes the snapshot first.
BeginReconcile(p) ==
    /\ "reconcile" \in Commands
    /\ CommandLock(p)
    /\ call' = [call EXCEPT ![p]["cmd"] =
          [IdleCall EXCEPT !.op = "reconcile", !.pc = "commit", !.live = Live,
                           !.onTarget = OnTarget]]
    /\ clean' = clean \cup {p}
    /\ UNCHANGED <<winVars, doc, envVars, halted, mut, net>>

\* The intents are queried and the outcome committed against the version of
\* the command; a snapshot that does not close halts whatever the version.
FinishReconcile(p) ==
    LET c == call[p]["cmd"]
        answers(i) == QueryReplies(i, i \in doc.known)
    IN /\ c.op = "reconcile"
       /\ \/ /\ ~SnapshotCloses(doc, c.live)
             /\ CommitOrHalt(p, HaltReconcile(doc))
          \/ /\ SnapshotCloses(doc, c.live) /\ p \in clean
             /\ \E out \in [Recovery(doc) -> Reply] :
                  LET d == Reconciled(doc, c.live, out)
                      e == Finalized(d, c.onTarget)
                  IN /\ \A i \in Recovery(doc) : out[i] \in answers(i)
                     /\ IF Finalizable(d) THEN Commit(e) \/ WriteFails(e)
                        ELSE UNCHANGED <<doc, clean>>
             /\ UNCHANGED halted
          \/ SnapshotCloses(doc, c.live) /\ p \notin clean /\ NoWrite
       /\ Done(p, "cmd")
       /\ UNCHANGED <<winVars, envVars, mut, net>>

-----------------------------------------------------------------------------
(* Leadership (LeaderFencer in short), processes and the world.            *)

Acquire(p) ==
    /\ p \in up /\ ~lease.live /\ lease.epoch < MaxEpoch
    /\ lease' = [owner |-> p, epoch |-> lease.epoch + 1, live |-> TRUE]
    /\ tok' = [tok EXCEPT ![p] = lease.epoch + 1]
    /\ Commit(doc)
    /\ UNCHANGED <<winVars, started, expired, up, halted, mut, call, net>>

\* A renewal makes the tokens captured before it stale.
Renew(p) ==
    /\ "renew" \in Faults
    /\ p \in up /\ Admitted(p, tok[p], FALSE)
    /\ \E th \in Thread : call[p][th].op # "idle" /\ ~call[p][th].stale
    /\ call' = [call EXCEPT ![p] =
          [th \in Thread |-> [call[p][th] EXCEPT !.stale = call[p][th].op # "idle"]]]
    /\ Commit(doc)
    /\ UNCHANGED <<winVars, envVars, halted, mut, net>>

LeaseLapses ==
    /\ "lease" \in Faults /\ lease.live
    /\ lease' = [lease EXCEPT !.live = FALSE]
    /\ UNCHANGED <<winVars, doc, started, expired, up, halted, tok, mut, call, clean, net>>

AuthorityExpires ==
    /\ "expiry" \in Faults /\ ~expired
    /\ expired' = TRUE
    /\ UNCHANGED <<winVars, doc, lease, started, up, halted, tok, mut, call, clean, net>>

Boot(p) ==
    /\ p \notin up
    /\ up' = up \cup {p}
    /\ Commit(Bootstrap(doc))
    /\ UNCHANGED <<winVars, lease, started, expired, halted, tok, mut, call, net>>

Crash(p) ==
    /\ "crash" \in Faults /\ p \in up
    /\ up' = up \ {p}
    /\ halted' = halted \ {p}
    /\ tok' = [tok EXCEPT ![p] = 0]
    /\ mut' = [mut EXCEPT ![p] = IdleMut]
    /\ call' = [call EXCEPT ![p] = [th \in Thread |-> IdleCall]]
    /\ clean' = clean \ {p}
    /\ UNCHANGED <<winVars, doc, lease, started, expired, net>>

World ==
    /\ \/ \E s \in Send : BrokerStep(s)
       \/ "gateway" \in Faults /\ fence.active /\ WindowsRestart
    /\ UNCHANGED <<doc, procVars>>

Runner(p, th) ==
    \/ Dispatch(p, th) \/ ApplyEmergency(p, th) \/ HaltRunner(p, th)

Resume(p) ==
    ResumeSend(p) \/ ResumeQuery(p) \/ ResumeMark(p) \/ ResumeClose(p)

Cancelling(p, th) ==
    \/ CancelNext(p, th) \/ CancelFails(p, th) \/ TakeSnapshot(p, th)
    \/ UseSnapshot(p, th) \/ RevokeAnyway(p, th)

Mutation(p) == EnterGateway(p) \/ OutcomeUnknown(p) \/ AcceptReply(p) \/ CloseTarget(p)

Next ==
    \/ \E p \in Proc :
         \/ Mutation(p) \/ Resume(p) \/ BeginResume(p)
         \/ \E th \in Thread : Runner(p, th) \/ Cancelling(p, th)
         \/ \E op \in Control : BeginControl(p, op)
         \/ ApplyControl(p) \/ BeginReconcile(p) \/ FinishReconcile(p)
         \/ PreviewPlan(p) \/ EnableAuthority(p) \/ StartPlan(p) \/ RetryStart(p)
         \/ Acquire(p) \/ Renew(p) \/ Boot(p) \/ Crash(p)
    \/ \E m \in net : Handle(m)
    \/ LeaseLapses \/ AuthorityExpires \/ World

Spec == Init /\ [][Next]_vars

\* A step of the operation a thread is in.
StepOf(p, th) ==
    \/ Runner(p, th) \/ Cancelling(p, th)
    \/ th = "cmd" /\ (ApplyControl(p) \/ FinishReconcile(p))
    \/ th = "req" /\ Resume(p)

\* Every gateway call returns or times out (gateway.py ZmqRpcTransport.call)
\* and every running thread goes on.  Nothing is assumed of the gateway, the
\* broker, the operator or the lease.
Fairness ==
    \A p \in Proc : /\ WF_vars(Mutation(p))
                    /\ \A th \in Thread : WF_vars(StepOf(p, th))

-----------------------------------------------------------------------------
\* Whatever times out, crashes or is repeated: a child order of the plan is
\* placed at the broker at most once (orchestrator.py _mutate_order persists
\* the intent first and never repeats a call whose outcome is unknown).
AtMostOneOrder == \A s \in Send : placed[s] <= 1

\* No gateway call ends without a durable outcome: once every process is up
\* and none has halted, an order whose intent still says PERSISTED belongs to
\* a call in progress (_mark_unknown, _mark_intent_result, _bootstrap_halted).
DurableOutcome ==
    up = Proc /\ halted = {}
      => \A s \in Send : placed[s] > 0 /\ doc.intent[SendIntent(s)] = "PERSISTED"
                         => \E p \in Proc : mut[p].i = SendIntent(s)

\* An intent recorded as TERMINAL or CANCELLED has no active order, however
\* cancels, fills, reconciles and timeouts interleave (_mark_cancelled_target,
\* _reconcile_command).
TerminalMeansGone ==
    \A s \in Send : doc.intent[SendIntent(s)] \in {"TERMINAL", "CANCELLED"} => s \notin Live

\* What the document calls closed stays closed at the broker: no request that
\* timed out, was overtaken or outlived its process places an order for a send
\* intent after its state became TERMINAL, CANCELLED or RECONCILED
\* (_reconcile_command closes an unknown intent on the answer of a query).
NoOrderAfterClose ==
    [][ \A s \in Send : placed'[s] # placed[s] => doc.intent[SendIntent(s)] \notin Closed ]_vars

\* Every operation ends: no interleaving of the runner, a control command, a
\* reconcile and late answers leaves a thread waiting for the mutation lock,
\* for an answer or for a target that no step will ever clear.
OperationsEnd ==
    \A p \in Proc, th \in Thread : call[p][th].op # "idle" ~> call[p][th].op = "idle"

\* A revoke command and an emergency stop disarm: whatever their cancels run
\* into, the authority ends up REVOKED or the process halts ("never leave
\* effective authority enabled", _process_envelope).
RevokeDisarms ==
    \A p \in Proc, th \in Thread :
      call[p][th].op \in {"revoke", "emergency"} ~> doc.authority = "REVOKED" \/ p \in halted

-----------------------------------------------------------------------------
(* Statements of the documents and comments that the code does not keep.   *)

\* docs/architecture/issue-267-migration-and-acceptance-v1.md: a switch needs
\* safe_to_restart, which blocks on an active order.  While a running process
\* reports safe_to_restart (_safe_to_restart_state), no order is active.
SafeMeansQuiet == (SafeToRestart(doc) /\ \E p \in up : p \notin halted) => Live = {}

\* docs/architecture/issue-291-phase-a-contract-v1.md: the terminal states of
\* plans and intents are create-only, history is not overwritten.  A closed
\* send intent does not leave the closed states.
ClosedStaysClosed ==
    [][ \A s \in Send : doc.intent[SendIntent(s)] \in Closed
                         => doc'.intent[SendIntent(s)] \in Closed ]_vars
=============================================================================
