----------------------------- MODULE TickStream -----------------------------
(***************************************************************************)
(* The verified tick stream (scripts/phase_b_workers/durable.py): a        *)
(* journal of ticks, a watermark and a journal of acknowledgements, all    *)
(* written by one producer and read by any process.                        *)
(*                                                                         *)
(* A tick is told apart by the source event it came from and by its        *)
(* content; the hash chain of the files is that the entries are compared   *)
(* as wholes.  Files are written line by line and then synced: an append   *)
(* that fails or is cut short leaves a prefix of its lines, perhaps with a *)
(* torn one, that other processes can read and a host crash may undo.      *)
(***************************************************************************)
EXTENDS Naturals, Sequences, FiniteSets, SequencesExt

VARIABLES
    journal,    \* the ticks in the journal file
    synced,     \* how many of them survive a host crash
    watermark,  \* last_ingest_seq of the watermark file
    acks,       \* the sequences in the acknowledgement journal
    torn,       \* the files that end in an incomplete line
    index,      \* producer's memory: how many ticks it has indexed
    poisoned    \* producer's memory: _write_poisoned

streamFiles == <<journal, synced, watermark, acks, torn>>
streamVars == <<streamFiles, index, poisoned>>

StreamInit ==
    /\ journal = <<>> /\ synced = 0
    /\ watermark = 0
    /\ acks = {} /\ torn = {}
    /\ index = 0 /\ poisoned = FALSE

\* The ticks that lookups by event, by content and by ingest id can find.
Indexed == ToSet(SubSeq(journal, 1, index))

Contents(ticks) == {t.content : t \in ticks}

Unacked == 1..index \ acks

-----------------------------------------------------------------------------
(* initialize and _load_index: the two journals are synced, the watermark  *)
(* is brought up to the journal, the index and the acknowledgements are    *)
(* read back.                                                              *)

\* A torn line, a gap and a watermark ahead of the journal are refused.
Loadable ==
    /\ torn \cap {"ticks", "acks"} = {}
    /\ watermark <= Len(journal)
    /\ \A n \in DOMAIN journal : journal[n].seq = n
    /\ acks \subseteq DOMAIN journal

\* Wrong: the journal that is found is taken to be on disk.
Load_NoSync ==
    /\ watermark' = Len(journal)
    /\ index' = Len(journal) /\ poisoned' = FALSE
    /\ UNCHANGED <<journal, synced, acks, torn>>

Load ==
    /\ synced' = Len(journal)
    /\ watermark' = Len(journal)
    /\ index' = Len(journal) /\ poisoned' = FALSE
    /\ UNCHANGED <<journal, acks, torn>>

-----------------------------------------------------------------------------
(* append_many.  The steps after a failed one are the caller's.            *)

AppendGroup(ticks) ==
    /\ journal' = journal \o ticks
    /\ synced' = Len(journal')
    /\ index' = Len(journal')
    /\ UNCHANGED <<watermark, acks, torn, poisoned>>

\* AppendOnlyJsonl.append_many failed or was cut short: a prefix of the lines is
\* in the file, the next one perhaps torn, and none of them is indexed.
AppendCut(ticks) ==
    /\ \E k \in 0..Len(ticks) :
        /\ journal' = journal \o SubSeq(ticks, 1, k)
        /\ torn' \in {torn, torn \cup {f \in {"ticks"} : k < Len(ticks)}}
    /\ UNCHANGED <<synced, watermark, acks>>

\* Wrong: next_sequence is stored.
MarkTail_Next ==
    /\ watermark' = index + 1
    /\ UNCHANGED <<journal, synced, acks, torn>>

MarkTail ==
    /\ watermark' = index
    /\ UNCHANGED <<journal, synced, acks, torn>>

-----------------------------------------------------------------------------
(* acknowledge_tick_writes: one line per tick, in the order of sequence.   *)

Acknowledge(seqs) ==
    /\ acks' = acks \cup seqs
    /\ UNCHANGED <<journal, synced, watermark, torn>>

AcknowledgeCut(seqs) ==
    /\ \E k \in {0} \cup seqs :
        LET kept == {n \in seqs : n <= k}
        IN  /\ acks' = acks \cup kept
            /\ torn' \in {torn, torn \cup {f \in {"acks"} : kept # seqs}}
    /\ UNCHANGED <<journal, synced, watermark>>

-----------------------------------------------------------------------------
\* The host goes down: lines that were not synced may be gone, the last one may
\* be torn, as may those of the files in others.  A line of acknowledgement
\* without its sync is one that AcknowledgeCut left out or tore.
UnsyncedLost(others) ==
    /\ \E k \in synced..Len(journal) :
        /\ journal' = SubSeq(journal, 1, k)
        /\ torn' \in SUBSET (torn \cup others \cup {f \in {"ticks"} : k < Len(journal)})
    /\ UNCHANGED <<synced, watermark, acks>>
=============================================================================
