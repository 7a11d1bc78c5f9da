-------------------------- MODULE MarketDataWorker --------------------------
(***************************************************************************)
(* The market-data worker (scripts/phase_b_workers/market_data_worker.py)  *)
(* with its QuestDB writer.  Ticks from the wire get a source sequence and *)
(* wait in a bounded queue; a group of them is journaled inside a prepared *)
(* source fence, then written to the database, then acknowledged.  The     *)
(* worker is one thread; pc is the step it is about to take, and it can be *)
(* killed before any of them.  It holds the lock of the stream from the    *)
(* prepared fence to the finalized one.                                    *)
(***************************************************************************)
EXTENDS TickStream

CONSTANTS
    Content,            \* what ticks say, without their transport identity
    BatchMax,           \* QUESTDB_BATCH_MAX_SIZE
    Reservation,        \* SEQUENCE_RESERVATION_SIZE
    MaxSeq,             \* bound: source sequences
    MaxFaults,          \* bound: failed writes, kills and host crashes
    NoEvent             \* no envelope yet

ASSUME MarketAssumption ==
    /\ BatchMax \in Nat \ {0} /\ Reservation \in Nat \ {0}
    /\ MaxSeq \in Nat /\ MaxFaults \in Nat

VARIABLES
    pc,         \* the next step of the worker
    cursor,     \* file: the last source sequence reserved
    source,     \* the next source sequence
    ingress,    \* the queue of envelopes
    turn,       \* the group in hand, see Idle
    fence,      \* file source_fence.json: last envelope, prepared batch
    fenceState, \* _source_fence_state, the worker's copy of it
    pending,    \* _questdb_pending
    committed,  \* _questdb_pending_committed
    recovered,  \* _finalize_recovered_ticks
    rows,       \* external: the rows of the database, unique by key
    faults,     \* faults so far
    forgotten   \* history: journaled, and no longer in the memory of the worker

memory == <<source, ingress, turn, fenceState, pending, committed, recovered>>
workerVars == <<streamVars, pc, cursor, memory, fence, rows, faults, forgotten>>

\* batch: the envelopes being journaled; rest: those still to be tried one by
\* one; prefix: the ticks of those that were.
Idle == [batch |-> <<>>, rest |-> <<>>, single |-> FALSE, prefix |-> {}]

NoFence == [last |-> NoEvent, batch |-> {}, final |-> NoEvent]

Position(e) == IF e = NoEvent THEN 0 ELSE e.seq

WorkerInit ==
    /\ StreamInit
    /\ pc = "down" /\ cursor = 0 /\ source = 1
    /\ ingress = <<>> /\ turn = Idle
    /\ fence = NoFence /\ fenceState = NoFence
    /\ pending = {} /\ committed = FALSE /\ recovered = {}
    /\ rows = {} /\ faults = 0
    /\ forgotten = {}

Goto(p) == pc' = p

Fault == faults < MaxFaults /\ faults' = faults + 1

\* AtomicCheckpoint.write
WriteFence(f) == fence' = f /\ fenceState' = f

\* It raised: before the replacement, or after it in the sync of the directory.
WriteFenceFails(f) == Fault /\ fence' \in {fence, f} /\ UNCHANGED fenceState

-----------------------------------------------------------------------------
(* The source: ZmqTickWireSourceV1 and the queue.                          *)

Reserve ==
    cursor' = IF source > cursor THEN source + Reservation - 1 ELSE cursor

\* poll, _next_source_seq, accept
Poll(c) ==
    /\ pc = "idle" /\ source <= MaxSeq
    /\ Len(ingress) < BatchMax
    /\ Reserve
    /\ source' = source + 1
    /\ ingress' = Append(ingress, [seq |-> source, content |-> c])
    /\ UNCHANGED <<streamVars, pc, turn, fence, fenceState, pending, committed,
                   recovered, rows, faults, forgotten>>

\* The reservation is on disk, but its write raised: the message is dropped.
PollFails ==
    /\ pc = "idle" /\ source <= MaxSeq /\ source > cursor
    /\ Len(ingress) < BatchMax
    /\ Fault
    /\ Reserve
    /\ UNCHANGED <<streamVars, pc, memory, fence, rows, forgotten>>

-----------------------------------------------------------------------------
(* A group of envelopes becomes ticks: _durably_ingest_batch.              *)

\* _assert_source_fence, envelope by envelope
Admitted(b) ==
    \A i \in DOMAIN b :
        LET prior == IF i = 1 THEN fenceState.last ELSE b[i - 1]
        IN  b[i].seq > Position(prior) \/ b[i] = prior

\* Wrong: a duplicate within the group is not noticed.
Fresh_Apart(b) == {i \in DOMAIN b : b[i].content \notin Contents(Indexed)}

\* The envelopes with content that is neither journaled nor earlier in the group.
Fresh(b) ==
    {i \in DOMAIN b : /\ b[i].content \notin Contents(Indexed)
                      /\ \A j \in 1..(i - 1) : b[j].content # b[i].content}

\* The place of n among the numbers of S.
Rank(n, S) == Cardinality({m \in S : m <= n})

\* The new ticks, from next_sequence on.
Staged(b) ==
    [k \in 1..Cardinality(Fresh(b)) |->
        LET e == b[CHOOSE i \in Fresh(b) : Rank(i, Fresh(b)) = k]
        IN  [seq |-> watermark + k, event |-> e.seq, content |-> e.content]]

\* The ticks that the envelopes of b resolve to, new or journaled before.
TicksOf(b) ==
    {t \in Indexed \cup ToSet(Staged(b)) : t.content \in Contents(ToSet(b))}

Finalized(b) == [last |-> Last(b), batch |-> {}, final |-> NoEvent]

Prepared(b) ==
    [last |-> fenceState.last, batch |-> Contents(ToSet(b)), final |-> Last(b)]

\* Nothing or all of the prepared batch can be found in the stream.
Resolvable(f) ==
    f.batch \subseteq Contents(Indexed) \/ f.batch \cap Contents(Indexed) = {}

\* Wrong: the batch is taken to be journaled.
Resolved_Final(f) == [last |-> f.final, batch |-> {}, final |-> NoEvent]

\* _recover_prepared_source_fence
Resolved(f) ==
    [last |-> IF f.batch \subseteq Contents(Indexed) THEN f.final ELSE f.last,
     batch |-> {}, final |-> NoEvent]

\* Wrong: the ticks that wait already are not counted.
Room_Whole == BatchMax

\* How many ticks still fit into the batch for the database.
Room == BatchMax - Cardinality(pending)

\* _process_questdb_queue takes a group off the queue: at most what fits, and
\* fewer if the limit of the turn or the end of the queue comes first.
Draw ==
    /\ pc \in {"idle", "turn"} /\ ~committed
    /\ \E n \in 1..Len(ingress) :
        /\ n <= Room
        /\ turn' = [Idle EXCEPT !.batch = SubSeq(ingress, 1, n)]
        /\ ingress' = SubSeq(ingress, n + 1, Len(ingress))
    /\ Goto("stage")
    /\ UNCHANGED <<streamVars, cursor, source, fence, fenceState, pending,
                   committed, recovered, rows, faults, forgotten>>

\* What a step of the group leaves alone, apart from the stream and the fence.
GroupUnchanged ==
    UNCHANGED <<cursor, source, ingress, turn, pending, committed, recovered,
                rows, forgotten>>

\* An intent that an earlier finalize left behind is resolved first.
Settle ==
    /\ pc = "stage" /\ fenceState.batch # {}
    /\ \/ Resolvable(fenceState) /\ WriteFence(Resolved(fenceState))
          /\ UNCHANGED <<pc, faults>>
       \/ Resolvable(fenceState) /\ WriteFenceFails(Resolved(fenceState))
          /\ Goto("raised")
       \/ ~Resolvable(fenceState) /\ Goto("raised")
          /\ UNCHANGED <<fence, fenceState, faults>>
    /\ UNCHANGED streamVars /\ GroupUnchanged

Staging == pc = "stage" /\ fenceState.batch = {}

\* A stale envelope, or new ticks for a poisoned stream.
Reject ==
    /\ Staging
    /\ ~Admitted(turn.batch) \/ (Fresh(turn.batch) # {} /\ poisoned)
    /\ Goto("raised")
    /\ UNCHANGED <<streamVars, fence, fenceState, faults>> /\ GroupUnchanged

\* Nothing is new: only the fence moves.
Advance ==
    /\ Staging /\ Admitted(turn.batch) /\ Fresh(turn.batch) = {}
    /\ \/ /\ WriteFence(Finalized(turn.batch))
          /\ Goto(IF poisoned THEN "raised" ELSE "durable")
          /\ UNCHANGED faults
       \/ WriteFenceFails(Finalized(turn.batch)) /\ Goto("raised")
    /\ UNCHANGED streamVars /\ GroupUnchanged

\* _prepare_source_fence_batch, before_journal
Prepare ==
    /\ Staging /\ Admitted(turn.batch) /\ Fresh(turn.batch) # {} /\ ~poisoned
    /\ \/ WriteFence(Prepared(turn.batch)) /\ Goto("append") /\ UNCHANGED faults
       \/ WriteFenceFails(Prepared(turn.batch)) /\ Goto("raised")
    /\ UNCHANGED streamVars /\ GroupUnchanged

\* A write of the stream failed: every later one is refused.
Poison == poisoned' = TRUE /\ UNCHANGED index

\* The journal
Journal ==
    /\ pc = "append"
    /\ \/ AppendGroup(Staged(turn.batch)) /\ Goto("mark") /\ UNCHANGED faults
       \/ AppendCut(Staged(turn.batch)) /\ Poison /\ Fault /\ Goto("resolve")
    /\ UNCHANGED <<fence, fenceState>> /\ GroupUnchanged

\* the watermark
Mark ==
    /\ pc = "mark"
    /\ \/ /\ MarkTail /\ UNCHANGED <<index, poisoned, faults>>
          /\ Goto("finalize")
       \/ /\ MarkTail \/ UNCHANGED streamFiles
          /\ Poison /\ Fault
          /\ Goto("resolve")
    /\ UNCHANGED <<fence, fenceState>> /\ GroupUnchanged

\* and after_journal.
Finalize ==
    /\ pc = "finalize"
    /\ \/ WriteFence(Finalized(turn.batch)) /\ Goto("durable") /\ UNCHANGED faults
       \/ WriteFenceFails(Finalized(turn.batch)) /\ Goto("resolve")
    /\ UNCHANGED streamVars /\ GroupUnchanged

\* The handler of a failed append_many: the intent is resolved, from what the
\* index has, and the ticks are set aside as durable.
Resolve ==
    /\ pc = "resolve" /\ Goto("raised")
    /\ \/ /\ Resolvable(fenceState)
          /\ WriteFence(Resolved(fenceState))
          /\ recovered' = TicksOf(turn.batch)
          /\ UNCHANGED faults
       \/ /\ Resolvable(fenceState)
          /\ WriteFenceFails(Resolved(fenceState))
          /\ UNCHANGED recovered
       \/ /\ ~Resolvable(fenceState)
          /\ UNCHANGED <<fence, fenceState, recovered, faults>>
    /\ UNCHANGED <<streamVars, cursor, source, ingress, turn, pending, committed,
                   rows, forgotten>>

-----------------------------------------------------------------------------
(* What becomes of the group: _process_questdb_queue.                      *)

TurnUnchanged ==
    UNCHANGED <<streamVars, cursor, source, fence, fenceState, committed, rows,
                faults>>

One(values, prefix) ==
    [batch |-> <<Head(values)>>, rest |-> Tail(values), single |-> TRUE,
     prefix |-> prefix]

Seqs(ticks) == {t.seq : t \in ticks}

Durable ==
    /\ pc = "durable" /\ ~turn.single
    /\ pending' = pending \cup TicksOf(turn.batch)
    /\ turn' = Idle
    /\ Goto("turn")
    /\ UNCHANGED <<ingress, recovered, forgotten>> /\ TurnUnchanged

\* The next envelope is tried; after the last one the error of the group is
\* raised again, and the ticks of its envelopes are not queued.
DurableOne ==
    /\ pc = "durable" /\ turn.single
    /\ LET prefix == turn.prefix \cup TicksOf(turn.batch)
       IN  \/ /\ turn.rest # <<>>
              /\ turn' = One(turn.rest, prefix)
              /\ Goto("stage")
              /\ UNCHANGED forgotten
           \/ /\ turn.rest = <<>>
              /\ turn' = Idle
              /\ Goto("idle")
              /\ forgotten' = forgotten \cup Seqs(prefix)
    /\ UNCHANGED <<ingress, pending, recovered>> /\ TurnUnchanged

\* The group failed, with ticks set aside: they are queued for the database
\* and the envelopes are done with, also when the ticks are those that an earlier
\* retry left behind and some of this group are journaled without a record.
HandOver ==
    /\ pc = "raised" /\ ~turn.single /\ recovered # {}
    /\ pending' = pending \cup recovered
    /\ recovered' = {} /\ turn' = Idle
    /\ forgotten' = forgotten \cup Seqs((TicksOf(turn.batch) \cap Indexed) \ pending')
    /\ Goto("idle")
    /\ UNCHANGED ingress /\ TurnUnchanged

\* The group failed otherwise: its envelopes are tried one by one.
TrySingly ==
    /\ pc = "raised" /\ ~turn.single /\ recovered = {}
    /\ turn' = One(turn.batch, {})
    /\ Goto("stage")
    /\ UNCHANGED <<ingress, pending, recovered, forgotten>> /\ TurnUnchanged

\* Wrong: the failed envelope goes back without the ones behind it.
PutBack_HeadOnly ==
    /\ pc = "raised" /\ turn.single
    /\ ingress' = turn.batch \o ingress
    /\ pending' = pending \cup turn.prefix
    /\ turn' = Idle
    /\ Goto(IF pending' = {} THEN "idle" ELSE "flush")
    /\ UNCHANGED <<recovered, forgotten>> /\ TurnUnchanged

\* One of them failed: it and the rest go back to the front (put_front_many),
\* and what was journaled before it is flushed.
PutBack ==
    /\ pc = "raised" /\ turn.single
    /\ ingress' = turn.batch \o turn.rest \o ingress
    /\ pending' = pending \cup turn.prefix
    /\ turn' = Idle
    /\ Goto(IF pending' = {} THEN "idle" ELSE "flush")
    /\ UNCHANGED <<recovered, forgotten>> /\ TurnUnchanged

-----------------------------------------------------------------------------
(* The database: _flush_questdb_pending and _write_questdb_batch.          *)

FlushUnchanged ==
    UNCHANGED <<cursor, source, ingress, turn, fence, fenceState, recovered,
                forgotten>>

Flushing == pc \in {"turn", "flush"} \/ (pc = "idle" /\ pending # {})

Unwritten == {t \in pending : t.seq \notin acks}

\* Nothing to write, or nothing that is not acknowledged.
FlushNothing ==
    /\ Flushing /\ ~committed /\ Unwritten = {}
    /\ pending' = {}
    /\ Goto("idle")
    /\ UNCHANGED <<streamVars, committed, rows, faults>> /\ FlushUnchanged

\* The insert is committed; it is remembered until the acknowledgement.
FlushWrite ==
    /\ Flushing /\ ~committed /\ Unwritten # {}
    /\ rows' = rows \cup Unwritten
    /\ committed' = TRUE
    /\ Goto("ack")
    /\ UNCHANGED <<streamVars, pending, faults>> /\ FlushUnchanged

\* Wrong: a failed write counts as done.
FlushFails_Committed ==
    /\ Flushing /\ ~committed /\ Unwritten # {}
    /\ Fault
    /\ rows' \in {rows, rows \cup Unwritten}
    /\ committed' = TRUE
    /\ Goto("idle")
    /\ UNCHANGED <<streamVars, pending>> /\ FlushUnchanged

\* Wrong: the batch is dropped after a failed write.
FlushFails_Drops ==
    /\ Flushing /\ ~committed /\ Unwritten # {}
    /\ Fault
    /\ rows' \in {rows, rows \cup Unwritten}
    /\ pending' = {}
    /\ Goto("idle")
    /\ UNCHANGED <<streamVars, committed>> /\ FlushUnchanged

\* It raised, perhaps after the commit.
FlushFails ==
    /\ Flushing /\ ~committed /\ Unwritten # {}
    /\ Fault
    /\ rows' \in {rows, rows \cup Unwritten}
    /\ Goto("idle")
    /\ UNCHANGED <<streamVars, pending, committed>> /\ FlushUnchanged

\* A batch known to be committed is only acknowledged.
FlushCommitted ==
    /\ Flushing /\ committed
    /\ Goto("ack")
    /\ UNCHANGED <<streamVars, pending, committed, rows, faults>> /\ FlushUnchanged

\* acknowledge_tick_writes
Ack ==
    /\ pc = "ack" /\ Goto("idle")
    /\ \/ /\ ~poisoned
          /\ Acknowledge(Seqs(Unwritten)) /\ UNCHANGED <<index, poisoned>>
          /\ pending' = {} /\ committed' = FALSE
          /\ UNCHANGED faults
       \/ /\ ~poisoned /\ Fault
          /\ AcknowledgeCut(Seqs(Unwritten)) /\ Poison
          /\ UNCHANGED <<pending, committed>>
       \/ poisoned /\ UNCHANGED <<streamVars, pending, committed, faults>>
    /\ UNCHANGED rows /\ FlushUnchanged

-----------------------------------------------------------------------------
(* Start: recover and replay_pending; and the end of a process.            *)

Recover ==
    /\ pc = "down" /\ Loadable
    /\ Load
    /\ fenceState' = fence
    /\ source' = cursor + 1
    /\ Goto("fence")
    /\ UNCHANGED <<cursor, ingress, turn, fence, pending, committed, recovered,
                   rows, faults, forgotten>>

\* Wrong: every prepared batch is refused.
RecoverFence_Refuses ==
    /\ pc = "fence"
    /\ Goto(IF fenceState.batch = {} THEN "replay" ELSE "down")
    /\ UNCHANGED <<streamVars, cursor, memory, fence, rows, faults, forgotten>>

\* A partly journaled batch is refused, and the process ends.
RecoverFence ==
    /\ pc = "fence"
    /\ \/ /\ Resolvable(fenceState)
          /\ IF fenceState.batch = {} THEN UNCHANGED <<fence, fenceState>>
             ELSE WriteFence(Resolved(fenceState))
          /\ Goto("replay")
       \/ /\ ~Resolvable(fenceState)
          /\ Goto("down")
          /\ UNCHANGED <<fence, fenceState>>
    /\ UNCHANGED <<streamVars, cursor, source, ingress, turn, pending, committed,
                   recovered, rows, faults, forgotten>>

\* A row that is there is acknowledged,
ReplayAck(n) ==
    /\ pc = "replay" /\ n \in Unacked /\ journal[n] \in rows
    /\ Acknowledge({n}) /\ UNCHANGED <<index, poisoned>>
    /\ UNCHANGED <<pc, cursor, memory, fence, rows, faults, forgotten>>

\* the other ticks of a batch are inserted,
ReplayWrite ==
    /\ pc = "replay"
    /\ LET group == {journal[n] : n \in {m \in Unacked : Rank(m, Unacked) <= BatchMax}}
       IN  /\ group # {} /\ group \cap rows = {}
           /\ rows' = rows \cup group
    /\ UNCHANGED <<streamVars, pc, cursor, memory, fence, faults, forgotten>>

\* and then the source is bound.
ReplayDone ==
    /\ pc = "replay" /\ Unacked = {}
    /\ Goto("idle")
    /\ UNCHANGED <<streamVars, cursor, memory, fence, rows, faults, forgotten>>

\* The memory of the worker is gone.
Die ==
    /\ pc' = "down"
    /\ index' = 0 /\ poisoned' = FALSE
    /\ source' = 1 /\ ingress' = <<>> /\ turn' = Idle /\ fenceState' = NoFence
    /\ pending' = {} /\ committed' = FALSE /\ recovered' = {}
    /\ forgotten' = {}

\* The worker is killed, or its start fails: before a step or within a write.
Kill ==
    /\ pc # "down" /\ Fault
    /\ \/ UNCHANGED streamFiles
       \/ pc = "append" /\ AppendCut(Staged(turn.batch))
       \/ pc = "ack" /\ ~poisoned /\ AcknowledgeCut(Seqs(Unwritten))
       \/ /\ pc = "replay"
          /\ \E n \in Unacked : journal[n] \in rows /\ AcknowledgeCut({n})
    /\ Die
    /\ UNCHANGED <<cursor, fence, rows>>

-----------------------------------------------------------------------------
\* The steps of one group, from the queue to the stream.
Ingest ==
    \/ Settle \/ Reject \/ Advance \/ Prepare
    \/ Journal \/ Mark \/ Finalize \/ Resolve
    \/ Durable \/ DurableOne \/ HandOver \/ TrySingly \/ PutBack

Flush == FlushNothing \/ FlushWrite \/ FlushFails \/ FlushCommitted

Start ==
    \/ Recover \/ RecoverFence \/ ReplayWrite \/ ReplayDone
    \/ \E n \in DOMAIN journal : ReplayAck(n)

Receive == PollFails \/ \E c \in Content : Poll(c)

WorkerNext == Receive \/ Draw \/ Ingest \/ Flush \/ Ack \/ Start \/ Kill

\* The steps of the stream that hold its lock.
Locked == pc \in {"append", "mark", "finalize"}
=============================================================================
