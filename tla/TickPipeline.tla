---------------------------- MODULE TickPipeline ----------------------------
(***************************************************************************)
(* The market-data worker and the execution-quality worker                 *)
(* (scripts/phase_b_workers/execution_quality_worker.py), which follows    *)
(* the same journal from another process: one piece of evidence per tick   *)
(* in an append-only log, then a checkpoint.  The two meet only in the     *)
(* files of the stream, under its lock.                                    *)
(***************************************************************************)
EXTENDS MarketDataWorker

VARIABLES
    consumer,       \* "down", "idle", "measured" or "failing"
    evidence,       \* the ticks in the evidence log
    evidenceSynced, \* how many of them survive a host crash
    checkpoint,     \* file: last_ingest_seq
    undone          \* history: a host crash took back what had been relied on

consumerVars == <<consumer, evidence, evidenceSynced, checkpoint, undone>>
vars == <<workerVars, consumerVars>>

Init ==
    /\ WorkerInit
    /\ consumer = "down"
    /\ evidence = <<>> /\ evidenceSynced = 0 /\ checkpoint = 0
    /\ undone = FALSE

-----------------------------------------------------------------------------
\* Wrong: evidence without its checkpoint is refused.
Consistent_Exact ==
    /\ torn = {} /\ Loadable /\ watermark = Len(journal)
    /\ IsPrefix(evidence, journal)
    /\ checkpoint = Len(evidence)

\* recover: a read-only reader refuses a watermark that is not the tail, and
\* evidence or a checkpoint without their tick.
Consistent ==
    /\ torn = {} /\ Loadable /\ watermark = Len(journal)
    /\ IsPrefix(evidence, journal)
    /\ checkpoint <= Len(evidence)

ConsumerUnchanged == UNCHANGED <<workerVars, undone>>

Follow ==
    /\ consumer = "down" /\ ~Locked
    /\ Consistent
    /\ consumer' = "idle"
    /\ UNCHANGED <<evidence, evidenceSynced, checkpoint>> /\ ConsumerUnchanged

\* Wrong: the evidence is not looked up.
Measure_Again ==
    /\ consumer = "idle" /\ ~Locked /\ checkpoint < Len(journal)
    /\ evidence' = Append(evidence, journal[checkpoint + 1])
    /\ evidenceSynced' = Len(evidence')
    /\ consumer' = "measured"
    /\ UNCHANGED checkpoint /\ ConsumerUnchanged

\* process_one: the tick after the checkpoint (next_after reads to the end of the
\* file, whatever the watermark says), measured unless its evidence is there.
Measure ==
    /\ consumer = "idle" /\ ~Locked /\ checkpoint < Len(journal)
    /\ \/ /\ Len(evidence) = checkpoint
          /\ evidence' = Append(evidence, journal[checkpoint + 1])
          /\ evidenceSynced' = Len(evidence')
       \/ /\ Len(evidence) > checkpoint
          /\ UNCHANGED <<evidence, evidenceSynced>>
    /\ consumer' = "measured"
    /\ UNCHANGED checkpoint /\ ConsumerUnchanged

CheckpointWrite ==
    /\ consumer = "measured"
    /\ checkpoint' = checkpoint + 1
    /\ consumer' = "idle"
    /\ UNCHANGED <<evidence, evidenceSynced>> /\ ConsumerUnchanged

\* The evidence line may have reached the file, whole or torn, without a sync.
EvidenceCut ==
    \/ UNCHANGED <<evidence, torn>>
    \/ torn' = torn \cup {"evidence"} /\ UNCHANGED evidence
    \/ evidence' = Append(evidence, journal[checkpoint + 1]) /\ UNCHANGED torn

ConsumerFault ==
    /\ Fault
    /\ UNCHANGED <<journal, synced, watermark, acks, index, poisoned, pc, cursor,
                   memory, fence, rows, forgotten, evidenceSynced, undone>>

\* The log is poisoned: every later turn raises.
MeasureFails ==
    /\ consumer = "idle" /\ ~Locked
    /\ checkpoint < Len(journal) /\ Len(evidence) = checkpoint
    /\ EvidenceCut
    /\ consumer' = "failing"
    /\ UNCHANGED checkpoint /\ ConsumerFault

\* Not written: the turn is repeated.  Written, with the sync of its directory
\* failed: the cursor is now behind the checkpoint and every later turn raises.
CheckpointFails ==
    /\ consumer = "measured"
    /\ \/ consumer' = "idle" /\ UNCHANGED checkpoint
       \/ consumer' = "failing" /\ checkpoint' = checkpoint + 1
    /\ UNCHANGED <<evidence, torn>> /\ ConsumerFault

ConsumerKill ==
    /\ consumer # "down"
    /\ \/ UNCHANGED <<evidence, torn>>
       \/ /\ consumer = "idle" /\ ~Locked
          /\ checkpoint < Len(journal) /\ Len(evidence) = checkpoint
          /\ EvidenceCut
    /\ consumer' = "down"
    /\ UNCHANGED checkpoint /\ ConsumerFault

-----------------------------------------------------------------------------
\* The host goes down with both workers: what was not synced may be lost.
HostCrash ==
    /\ Fault
    /\ \E k \in evidenceSynced..Len(evidence) :
        /\ evidence' = SubSeq(evidence, 1, k)
        /\ UnsyncedLost({f \in {"evidence"} : k < Len(evidence)})
    /\ Die /\ consumer' = "down"
    /\ undone' = (undone \/ Len(journal') < Len(evidence')
                         \/ Len(evidence') < checkpoint)
    /\ UNCHANGED <<cursor, fence, rows, evidenceSynced, checkpoint>>

ConsumerNext ==
    \/ Follow \/ Measure \/ CheckpointWrite
    \/ MeasureFails \/ CheckpointFails \/ ConsumerKill

Next ==
    \/ WorkerNext /\ UNCHANGED consumerVars
    \/ ConsumerNext
    \/ HostCrash

\* A thread that can go on does.  A pending batch is due after 50 ms, and the
\* loop then flushes it before anything else.  Nothing makes ticks arrive.  That
\* a worker that ended is started again (Start, Follow) is an assumption about
\* its operator: no compose file of the repository restarts one.
Fairness ==
    /\ WF_vars((Draw \/ Ingest \/ Flush \/ Ack \/ Start) /\ UNCHANGED consumerVars)
    /\ SF_vars(Flush /\ UNCHANGED consumerVars)
    /\ WF_vars(Follow \/ Measure \/ CheckpointWrite)

Spec == Init /\ [][Next]_vars /\ Fairness

-----------------------------------------------------------------------------
(* Properties.                                                             *)

Tick == [seq : Nat, event : 1..MaxSeq, content : Content]

\* The files and the memory of both workers have the shapes that the code
\* declares, and the watermark, the index and the checkpoint are positions in
\* the journal and in the evidence log.
TypeOK ==
    /\ journal \in Seq(Tick) /\ synced \in 0..Len(journal)
    /\ watermark \in 0..Len(journal) /\ index \in 0..Len(journal)
    /\ acks \subseteq DOMAIN journal /\ torn \subseteq {"ticks", "acks", "evidence"}
    /\ pending \subseteq Tick /\ rows \subseteq Tick
    /\ fence.batch \subseteq Content /\ evidenceSynced \in 0..Len(evidence)

\* The journal can always be loaded again: its sequences have no gap and neither
\* an event nor a content is in it twice, though groups fail half-written, are
\* retried one by one and are received again under new source sequences.
TicksUnique ==
    \A m, n \in DOMAIN journal :
        /\ journal[n].seq = n
        /\ m # n => /\ journal[m].content # journal[n].content
                    /\ journal[m].event # journal[n].event

\* The watermark, which a start refuses when it is ahead of the journal, never
\* points at ticks that a host crash can undo, even if a start repaired it from
\* lines whose own sync had failed.
WatermarkBacked == watermark <= synced

\* What is acknowledged, and so never written again, is in the database and in
\* the part of the journal that survives a host crash.
AckedStored == \A n \in acks : n <= synced /\ journal[n] \in rows

\* The source fence, below which envelopes are refused as stale, has only moved
\* to an envelope whose content is durably journaled.
FenceBacked ==
    \/ fence.last = NoEvent
    \/ fence.last.content \in Contents(ToSet(SubSeq(journal, 1, synced)))

\* Between two turns every journaled tick that is not acknowledged is queued for
\* the database or will be met again in the queue; the exceptions are a group that
\* failed once and succeeded one by one, and one that failed for the second time
\* with ticks of an earlier retry set aside: those only a restart writes.
Tracked ==
    pc = "idle" =>
        \A n \in Unacked :
            \/ n \in forgotten \/ journal[n] \in pending
            \/ journal[n].content \in Contents(ToSet(ingress))

\* The batch for the database has room for the group in hand, also when groups
\* failed and ticks of earlier ones were handed over; an acknowledgement of more
\* ticks than the limit is refused each time.
BatchFits ==
    Cardinality(pending \cup turn.prefix) + Len(turn.batch \o turn.rest) <= BatchMax

InHand == ToSet(ingress \o turn.batch \o turn.rest)

\* While the worker lives, an envelope leaves the queue and its hands only when
\* its content is in the journal; the exception is HandOver after a failed append
\* or with ticks that an earlier retry left behind.
NothingLost ==
    [][(pc # "down" /\ pc' # "down") =>
            \/ \A e \in InHand \ InHand' : e.content \in Contents(ToSet(journal'))
            \/ HandOver /\ (poisoned \/ recovered # TicksOf(turn.batch))]_vars

\* The evidence is that of the ticks of the journal, in their order and once
\* each, and the checkpoint is behind it; the exception is a host crash that
\* takes back lines the consumer had read or had found without a sync.
EvidenceAnchored ==
    ~undone => IsPrefix(evidence, journal) /\ checkpoint <= Len(evidence)

\* The market-data worker refuses to start: a torn file, or a prepared batch of
\* which some ticks are in the journal and some are not.
Refused ==
    LET found == fence.batch \cap Contents(ToSet(journal))
    IN  torn \cap {"ticks", "acks"} # {} \/ found \notin {{}, fence.batch}

\* The envelope at the head of the queue is behind the fence for good.
Blocked == ingress # <<>> /\ Head(ingress).seq < Position(fenceState.last)

\* Every journaled tick gets into the database and is acknowledged, through
\* failed writes, kills and host crashes, unless the worker is in one of the
\* states it does not leave without help.
AckedAgain ==
    []<>(\/ 1..synced \subseteq acks \cup forgotten
         \/ poisoned \/ Refused \/ Blocked)

\* Every journaled tick is measured and checkpointed in turn, unless the consumer
\* or the producer has a failed writer or a file is torn.
MeasuredAgain ==
    []<>(\/ synced <= checkpoint
         \/ consumer = "failing" \/ torn # {} \/ undone \/ poisoned)

\* market_data_worker.py, _durably_ingest_batch: what is set aside after a failed
\* append is durable, so the database has journaled ticks only.
RowsJournaled == rows \subseteq ToSet(journal)
=============================================================================
