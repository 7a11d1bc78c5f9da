-------------------------- MODULE TickJournalProofs --------------------------
(***************************************************************************)
(* What the tick pipeline keeps in its files and its memory, for any batch *)
(* size, any contents and any number of faults: the journal is unique, the *)
(* source fence is behind it, no journaled tick is lost from sight and the *)
(* evidence follows it.  The steps are those of TickPipelineProofs, whose  *)
(* invariant is assumed to hold.                                           *)
(***************************************************************************)
EXTENDS TickPipelineProofs

\* The envelopes that the worker still has to do with.
Hand == ToSet(turn.batch) \cup ToSet(turn.rest) \cup ToSet(ingress)

\* What a host crash leaves of the journal.
Stored == Contents(ToSet(SubSeq(journal, 1, synced)))

-----------------------------------------------------------------------------
(* The invariants.                                                         *)

\* Whatever was set aside for the database are ticks.
ShapeInv ==
    /\ pending \subseteq Tick /\ recovered \subseteq Tick /\ rows \subseteq Tick
    /\ torn \subseteq {"ticks", "acks", "evidence"}

\* Source sequences are reserved before they are given out.
SourceInv ==
    /\ source <= cursor + 1
    /\ \A e \in Hand : e.seq < source
    /\ \A n \in 1..Len(journal) :
        /\ journal[n].event <= cursor
        /\ pc # "down" => journal[n].event < source

\* A source sequence stands for one content, in hand and in the journal.
IdentityInv ==
    /\ \A e, f \in Hand : e.seq = f.seq => e.content = f.content
    /\ \A e \in Hand, n \in 1..Len(journal) :
        journal[n].event = e.seq => journal[n].content = e.content

UniqueInv ==
    \A m, n \in 1..Len(journal) :
        m # n => /\ journal[m].content # journal[n].content
                 /\ journal[m].event # journal[n].event

\* The fence, in its file and in the worker's copy of it, is behind the journal,
\* and where it will move to is in the prepared batch.
FenceOK(f) ==
    /\ f.last = NoEvent \/ f.last.content \in Stored
    /\ f.final = NoEvent \/ f.final.content \in f.batch
    /\ f.batch \subseteq Content

FenceInv == FenceOK(fence) /\ FenceOK(fenceState)

\* How a journaled tick that is not acknowledged can be found.
Found(n) ==
    \/ n \in forgotten
    \/ journal[n] \in pending \cup turn.prefix
    \/ journal[n].content \in Contents(Hand)

TrackInv ==
    /\ ~Starting => \A n \in 1..index : n \in acks \/ Found(n)
    /\ ~turn.single => turn.prefix = {} /\ turn.rest = <<>>
    /\ ~Handling => turn = Idle

\* The evidence log copies the journal, and one entry of it is not checkpointed
\* while the consumer is about to.
FollowInv ==
    /\ evidence \in Seq(Tick) /\ evidenceSynced \in 0..Len(evidence)
    /\ checkpoint \in Nat
    /\ ~undone =>
        /\ Len(evidence) <= Len(journal)
        /\ \A n \in 1..Len(evidence) : evidence[n] = journal[n]
        /\ checkpoint <= Len(evidence)
        /\ consumer = "measured" => checkpoint < Len(evidence)

-----------------------------------------------------------------------------
(* The sets of sequences.                                                  *)

LEMMA SetOf ==
    ASSUME NEW S, NEW s \in Seq(S)
    PROVE  /\ ToSet(s) = {s[i] : i \in 1..Len(s)} /\ ToSet(s) \subseteq S
           /\ Len(s) \in Nat /\ \A i \in 1..Len(s) : s[i] \in S
BY LenProperties, ElementOfSeq DEF ToSet

LEMMA NoneInEmpty == ToSet(<<>>) = {}
BY DEF ToSet

LEMMA SetOfAppend ==
    ASSUME NEW S, NEW s \in Seq(S), NEW x \in S
    PROVE  ToSet(Append(s, x)) = ToSet(s) \cup {x}
<1> DEFINE a == Append(s, x)
<1>1. /\ a \in Seq(S) /\ Len(a) = Len(s) + 1 /\ a[Len(s) + 1] = x
      /\ \A i \in 1..Len(s) : a[i] = s[i]
  BY AppendProperties
<1> HIDE DEF a
<1>2. ToSet(a) = {a[i] : i \in 1..(Len(s) + 1)} /\ Len(s) \in Nat
  BY <1>1, SetOf
<1>3. ToSet(s) = {s[i] : i \in 1..Len(s)}  BY SetOf
<1>4. ASSUME NEW y \in ToSet(a)  PROVE y \in ToSet(s) \cup {x}
  <2>1. PICK i \in 1..(Len(s) + 1) : y = a[i]  BY <1>2
  <2>2. i = Len(s) + 1 \/ i \in 1..Len(s)  BY <1>2
  <2> QED  BY <1>1, <1>3, <2>1, <2>2
<1>5. ASSUME NEW y \in ToSet(s) \cup {x}  PROVE y \in ToSet(a)
  <2>1. CASE y = x
    <3>1. Len(s) + 1 \in 1..(Len(s) + 1)  BY <1>2
    <3> QED  BY <1>1, <1>2, <2>1, <3>1
  <2>2. CASE y \in ToSet(s)
    <3>1. PICK i \in 1..Len(s) : y = s[i]  BY <1>3, <2>2
    <3>2. i \in 1..(Len(s) + 1)  BY <1>2
    <3> QED  BY <1>1, <1>2, <3>1, <3>2
  <2> QED  BY <2>1, <2>2
<1> QED  BY <1>4, <1>5 DEF a

LEMMA SetOfConcat ==
    ASSUME NEW S, NEW s \in Seq(S), NEW t \in Seq(S)
    PROVE  ToSet(s \o t) = ToSet(s) \cup ToSet(t)
<1> DEFINE c == s \o t
<1>1. /\ c \in Seq(S) /\ Len(c) = Len(s) + Len(t)
      /\ \A i \in 1..Len(s) + Len(t) :
            c[i] = IF i <= Len(s) THEN s[i] ELSE t[i - Len(s)]
  BY ConcatProperties
<1> HIDE DEF c
<1>2. /\ ToSet(c) = {c[i] : i \in 1..Len(c)} /\ ToSet(s) = {s[i] : i \in 1..Len(s)}
      /\ ToSet(t) = {t[i] : i \in 1..Len(t)} /\ Len(s) \in Nat /\ Len(t) \in Nat
  BY <1>1, SetOf
<1>3. ASSUME NEW i \in 1..Len(c)  PROVE c[i] \in ToSet(s) \cup ToSet(t)
  <2>1. CASE i <= Len(s)
    <3>1. i \in 1..Len(s) /\ c[i] = s[i]  BY <1>1, <1>2, <2>1
    <3> QED  BY <1>2, <3>1
  <2>2. CASE i > Len(s)
    <3>1. i - Len(s) \in 1..Len(t) /\ c[i] = t[i - Len(s)]  BY <1>1, <1>2, <2>2
    <3> QED  BY <1>2, <3>1
  <2> QED  BY <1>1, <1>2, <2>1, <2>2
<1>4. ASSUME NEW i \in 1..Len(s)  PROVE s[i] \in ToSet(c)
  <2>1. i \in 1..Len(c) /\ c[i] = s[i]  BY <1>1, <1>2
  <2> QED  BY <1>2, <2>1
<1>5. ASSUME NEW i \in 1..Len(t)  PROVE t[i] \in ToSet(c)
  <2>1. /\ Len(s) + i \in 1..Len(s) + Len(t) /\ ~(Len(s) + i <= Len(s))
        /\ Len(s) + i - Len(s) = i
    BY <1>2
  <2>2. Len(s) + i \in 1..Len(c) /\ c[Len(s) + i] = t[i]  BY <1>1, <2>1
  <2> QED  BY <1>2, <2>2
<1> QED  BY <1>2, <1>3, <1>4, <1>5 DEF c

\* Taking a sequence apart loses nothing.
LEMMA SetOfParts ==
    ASSUME NEW S, NEW s \in Seq(S), NEW n \in 1..Len(s)
    PROVE  ToSet(SubSeq(s, 1, n)) \cup ToSet(SubSeq(s, n + 1, Len(s))) = ToSet(s)
<1> DEFINE a == SubSeq(s, 1, n)
           b == SubSeq(s, n + 1, Len(s))
<1>1. Len(s) \in Nat /\ \A i \in 1..Len(s) : s[i] \in S  BY SetOf
<1>2. a \in Seq(S) /\ Len(a) = n /\ \A i \in 1..n : a[i] = s[i]
  BY <1>1, SubSeqProperties
<1>3. b \in Seq(S) /\ Len(b) = Len(s) - n /\ \A i \in 1..(Len(s) - n) : b[i] = s[n + i]
  <2>1. \A i \in (n + 1)..Len(s) : s[i] \in S  BY <1>1
  <2>2. /\ b \in Seq(S) /\ Len(b) = IF n + 1 <= Len(s) THEN Len(s) - (n + 1) + 1 ELSE 0
        /\ \A i \in 1..(Len(s) - (n + 1) + 1) : b[i] = s[(n + 1) + i - 1]
    BY <1>1, <2>1, SubSeqProperties
  <2> HIDE DEF b
  <2>3. Len(b) = Len(s) - n  BY <1>1, <2>2
  <2>4. ASSUME NEW i \in 1..(Len(s) - n)  PROVE b[i] = s[n + i]
    <3>1. i \in 1..(Len(s) - (n + 1) + 1) /\ (n + 1) + i - 1 = n + i  BY <1>1
    <3> QED  BY <2>2, <3>1
  <2> QED  BY <2>2, <2>3, <2>4
<1> HIDE DEF a, b
<1>4. /\ ToSet(a) = {a[i] : i \in 1..n} /\ ToSet(b) = {b[i] : i \in 1..(Len(s) - n)}
      /\ ToSet(s) = {s[i] : i \in 1..Len(s)}
  BY <1>2, <1>3, SetOf
<1>5. ASSUME NEW i \in 1..n  PROVE a[i] \in ToSet(s)
  <2>1. i \in 1..Len(s)  BY <1>1
  <2> QED  BY <1>2, <1>4, <2>1
<1>6. ASSUME NEW i \in 1..(Len(s) - n)  PROVE b[i] \in ToSet(s)
  <2>1. n + i \in 1..Len(s)  BY <1>1
  <2> QED  BY <1>3, <1>4, <2>1
<1>7. ASSUME NEW i \in 1..Len(s)  PROVE s[i] \in ToSet(a) \cup ToSet(b)
  <2>1. CASE i <= n
    <3>1. i \in 1..n  BY <1>1, <2>1
    <3> QED  BY <1>2, <1>4, <3>1
  <2>2. CASE i > n
    <3>1. i - n \in 1..(Len(s) - n) /\ n + (i - n) = i  BY <1>1, <2>2
    <3>2. b[i - n] = s[i]  BY <1>3, <3>1
    <3> QED  BY <1>4, <3>1, <3>2
  <2> QED  BY <1>1, <2>1, <2>2
<1> QED  BY <1>4, <1>5, <1>6, <1>7 DEF a, b

LEMMA SetOfHead ==
    ASSUME NEW S, NEW s \in Seq(S), s # <<>>
    PROVE  ToSet(<<Head(s)>>) \cup ToSet(Tail(s)) = ToSet(s)
<1>1. Len(s) \in Nat /\ Len(s) # 0  BY EmptySeq
<1>2. SubSeq(s, 1, 1) = <<Head(s)>>
  <2>1. s[1] \in S  BY <1>1, SetOf
  <2>2. /\ SubSeq(s, 1, 1) \in Seq(S) /\ Len(SubSeq(s, 1, 1)) = 1
        /\ SubSeq(s, 1, 1)[1] = s[1]
    BY <2>1, SubSeqProperties
  <2>3. Head(s) = s[1]  BY <1>1
  <2> DEFINE h == <<Head(s)>>
             u == SubSeq(s, 1, 1)
  <2>4. h \in Seq(S) /\ Len(h) = 1 /\ h[1] = s[1]  BY <2>1, <2>3
  <2> HIDE DEF h, u
  <2>5. Len(u) = Len(h) /\ \A i \in 1..Len(u) : u[i] = h[i]  BY <2>2, <2>4 DEF u
  <2>6. u = h  BY <2>2, <2>4, <2>5, SeqEqual DEF u
  <2> QED  BY <2>6 DEF h, u
<1>3. Tail(s) = SubSeq(s, 2, Len(s))  BY TailIsSubSeq
<1>4. 1 \in 1..Len(s) /\ 1 + 1 = 2  BY <1>1
<1>5. ToSet(SubSeq(s, 1, 1)) \cup ToSet(SubSeq(s, 2, Len(s))) = ToSet(s)
  BY <1>4, SetOfParts
<1> QED  BY <1>2, <1>3, <1>5

-----------------------------------------------------------------------------
(* The kinds of steps.                                                     *)

\* What only moves envelopes and ticks in memory and in the database.
Quiet ==
    \/ Receive \/ Draw \/ Reject \/ Durable \/ DurableOne \/ HandOver
    \/ TrySingly \/ PutBack \/ Flush \/ ReplayWrite \/ ReplayDone

\* What may write the source fence.
Fencing == Settle \/ Advance \/ Prepare \/ Finalize \/ Resolve \/ RecoverFence

Replaying == \E n \in DOMAIN journal : ReplayAck(n)

LEMMA Kinds ==
    ASSUME WorkerNext
    PROVE  Quiet \/ Fencing \/ Journal \/ Mark \/ Ack \/ Replaying \/ Recover \/ Kill
BY DEF WorkerNext, Ingest, Start, Quiet, Fencing, Replaying

LEMMA QuietStep ==
    ASSUME Quiet
    PROVE  /\ UNCHANGED <<streamVars, fence, fenceState>>
           /\ pc # "down" /\ pc' # "down"
<1> USE DEF Goto
<1>1. CASE Receive
  BY <1>1 DEF Receive, PollFails, Poll, memory
<1>2. CASE Draw  BY <1>2 DEF Draw
<1>3. CASE Reject  BY <1>3 DEF Reject, Staging
<1>4. CASE Durable \/ DurableOne \/ HandOver \/ TrySingly \/ PutBack
  BY <1>4 DEF Durable, DurableOne, HandOver, TrySingly, PutBack, TurnUnchanged
<1>5. CASE Flush
  BY <1>5 DEF Flush, FlushNothing, FlushWrite, FlushFails, FlushCommitted, Flushing,
              FlushUnchanged
<1>6. CASE ReplayWrite \/ ReplayDone
  BY <1>6 DEF ReplayWrite, ReplayDone, memory
<1> QED  BY <1>1, <1>2, <1>3, <1>4, <1>5, <1>6 DEF Quiet

LEMMA FencingStep ==
    ASSUME Fencing
    PROVE  /\ UNCHANGED <<streamVars, cursor, source, ingress, turn, pending, committed,
                          rows, forgotten>>
           /\ pc # "down"
BY DEF Fencing, Settle, Advance, Prepare, Finalize, Resolve, RecoverFence, Staging,
       GroupUnchanged

\* The worker only ever adds to the journal.
LEMMA WorkerExtends ==
    ASSUME PipelineInv, WorkerNext
    PROVE  /\ Extends(journal', journal)
           /\ synced \in Nat /\ synced' \in synced..Len(journal')
<1>0. /\ Extends(journal, journal) /\ synced \in 0..Len(journal)
      /\ Len(journal) \in Nat /\ synced \in Nat
  BY Lengths DEF PipelineInv, StreamInv, Extends
<1>1. CASE UNCHANGED <<journal, synced>>  BY <1>0, <1>1
<1>2. CASE Journal
  <2>1. pc = "append"  BY <1>2 DEF Journal
  <2>2. CASE AppendGroup(Staged(turn.batch))
    <3>1. UNCHANGED turn /\ synced' = Len(journal')
      BY <1>2, <2>2 DEF Journal, GroupUnchanged, AppendGroup
    <3>2. Extends(journal', journal)  BY <2>1, <2>2, <3>1, AppendExtends DEF PipelineInv
    <3> QED  BY <1>0, <3>1, <3>2 DEF Extends
  <2>3. CASE AppendCut(Staged(turn.batch))
    <3>1. Extends(journal', journal)  BY <2>1, <2>3, CutExtends DEF PipelineInv
    <3> QED  BY <1>0, <2>3, <3>1 DEF Extends, AppendCut
  <2> QED  BY <1>2, <2>2, <2>3 DEF Journal
<1>3. CASE Recover
  BY <1>0, <1>3 DEF Recover, Load, Extends
<1>4. CASE Kill
  <2>1. CASE pc = "append" /\ AppendCut(Staged(turn.batch))
    <3>1. Extends(journal', journal)  BY <2>1, CutExtends DEF PipelineInv
    <3> QED  BY <1>0, <2>1, <3>1 DEF Extends, AppendCut
  <2> QED  BY <1>1, <1>4, <2>1 DEF Kill, AcknowledgeCut, streamFiles
<1>5. CASE Quiet \/ Fencing
  BY <1>1, <1>5, QuietStep, FencingStep DEF streamVars, streamFiles
<1>6. CASE Mark \/ Ack \/ Replaying
  <2>1. UNCHANGED <<journal, synced>>
    BY <1>6 DEF Mark, MarkTail, Ack, Acknowledge, AcknowledgeCut, Replaying, ReplayAck,
                streamVars, streamFiles
  <2> QED  BY <1>1, <2>1
<1> QED  BY <1>2, <1>3, <1>4, <1>5, <1>6, Kinds

-----------------------------------------------------------------------------
(* Ticks and files have their shape.                                       *)

LEMMA TicksType ==
    ASSUME StreamInv, NEW b \in Seq(Envelope)
    PROVE  TicksOf(b) \subseteq Tick /\ Indexed \subseteq Tick
<1>1. watermark \in Nat /\ index \in 0..Len(journal)  BY Lengths DEF StreamInv
<1>2. ToSet(Staged(b)) \subseteq Tick  BY <1>1, StagedType, SetOf
<1>3. Indexed = {journal[n] : n \in 1..index}
  BY <1>1, FirstTicks DEF Indexed, StreamInv
<1>4. \A n \in 1..index : journal[n] \in Tick
  BY <1>1, Lengths, ElementOfSeq DEF StreamInv
<1> QED  BY <1>2, <1>3, <1>4 DEF TicksOf

LEMMA ShapeStep ==
    ASSUME PipelineInv, ShapeInv, WorkerNext
    PROVE  ShapeInv'
<1> USE DEF ShapeInv
<1>0. turn.batch \in Seq(Envelope) /\ turn.prefix \subseteq Tick  BY DEF PipelineInv, WorkInv
<1>1. TicksOf(turn.batch) \subseteq Tick  BY <1>0, TicksType DEF PipelineInv
<1>2. CASE Quiet
  <2>1. UNCHANGED torn  BY <1>2, QuietStep DEF streamVars, streamFiles
  <2>2. CASE Receive \/ Draw \/ Reject \/ TrySingly \/ DurableOne \/ ReplayDone
    BY <2>1, <2>2 DEF Receive, Poll, PollFails, Draw, Reject, GroupUnchanged, TrySingly, DurableOne,
                TurnUnchanged, ReplayDone, memory
  <2>3. CASE Durable \/ HandOver \/ PutBack
    BY <1>0, <1>1, <2>1, <2>3 DEF Durable, HandOver, PutBack, TurnUnchanged
  <2>4. CASE Flush
    BY <2>1, <2>4 DEF Flush, FlushNothing, FlushWrite, FlushFails, FlushCommitted,
                      FlushUnchanged, Unwritten
  <2>5. CASE ReplayWrite
    <3> DEFINE group == {journal[n] : n \in {m \in Unacked : Rank(m, Unacked) <= BatchMax}}
    <3>1. \A n \in 1..index : journal[n] \in Tick
      <4>1. index \in 0..Len(journal)  BY Lengths DEF PipelineInv, StreamInv
      <4> QED  BY <4>1, Lengths, ElementOfSeq DEF PipelineInv, StreamInv
    <3>2. group \subseteq Tick  BY <3>1 DEF Unacked
    <3>3. rows' = rows \cup group /\ UNCHANGED memory  BY <2>5 DEF ReplayWrite
    <3> QED  BY <2>1, <3>2, <3>3 DEF memory
  <2> QED  BY <1>2, <2>2, <2>3, <2>4, <2>5 DEF Quiet
<1>3. CASE Fencing
  <2>1. UNCHANGED <<torn, pending, rows>>
    BY <1>3, FencingStep DEF streamVars, streamFiles
  <2>2. recovered' \in {recovered, TicksOf(turn.batch)}
    BY <1>3 DEF Fencing, Settle, Advance, Prepare, Finalize, Resolve, RecoverFence,
                GroupUnchanged
  <2> QED  BY <1>1, <2>1, <2>2
<1>4. CASE Journal \/ Mark
  <2>1. UNCHANGED <<pending, recovered, rows>>
    BY <1>4 DEF Journal, Mark, GroupUnchanged
  <2>2. torn' \subseteq torn \cup {"ticks"}
    BY <1>4 DEF Journal, AppendGroup, AppendCut, Mark, MarkTail, streamFiles
  <2> QED  BY <2>1, <2>2
<1>5. CASE Ack
  <2>1. UNCHANGED <<recovered, rows>> /\ pending' \subseteq pending
    BY <1>5 DEF Ack, FlushUnchanged
  <2>2. torn' \subseteq torn \cup {"acks"}
    BY <1>5 DEF Ack, Acknowledge, AcknowledgeCut, streamVars, streamFiles
  <2> QED  BY <2>1, <2>2
<1>6. CASE Replaying \/ Recover
  BY <1>6 DEF Replaying, ReplayAck, Acknowledge, Recover, Load, memory
<1>7. CASE Kill
  <2>1. UNCHANGED rows /\ pending' = {} /\ recovered' = {}  BY <1>7 DEF Kill, Die
  <2>2. torn' \subseteq torn \cup {"ticks", "acks"}
    BY <1>7 DEF Kill, AppendCut, AcknowledgeCut, streamFiles
  <2> QED  BY <2>1, <2>2
<1> QED  BY <1>2, <1>3, <1>4, <1>5, <1>6, <1>7, Kinds

-----------------------------------------------------------------------------
(* The source fence.                                                       *)

LEMMA Smallest ==
    ASSUME NEW S \in SUBSET Nat, IsFiniteSet(S), S # {}
    PROVE  \E m \in S : \A j \in S : m <= j
<1>1. Cardinality(S) \in Nat /\ Cardinality(S) # 0  BY FS_CardinalityType, FS_EmptySet
<1>2. PICK m \in S : Rank(m, S) = 1  BY <1>1, RankOnto
<1>3. ASSUME NEW j \in S, ~(m <= j)  PROVE FALSE
  <2> DEFINE J == {k \in S : k <= j}
             M == {k \in S : k <= m}
  <2>1. J \subseteq M
    <3>1. j \in Nat /\ m \in Nat /\ \A k \in S : k \in Nat  OBVIOUS
    <3>2. ASSUME NEW k \in S, k <= j  PROVE k <= m  BY <1>3, <3>1, <3>2
    <3> QED  BY <3>2
  <2>2. IsFiniteSet(M) /\ IsFiniteSet(J)  BY FS_Subset
  <2>3. Cardinality(J) <= Cardinality(M)  BY <2>1, <2>2, FS_Subset
  <2>4. Rank(j, S) <= 1  BY <1>2, <2>3 DEF Rank
  <2>5. Rank(j, S) \in 1..Cardinality(S)  BY RankType
  <2>6. j = m  BY <1>1, <1>2, <2>4, <2>5, RankInjective
  <2> QED  BY <1>3, <2>6
<1> QED  BY <1>3

\* What the index finds survives a host crash.
LEMMA StoredSet ==
    ASSUME StreamInv
    PROVE  /\ Stored = {journal[n].content : n \in 1..synced}
           /\ Contents(Indexed) = {journal[n].content : n \in 1..index}
           /\ Contents(Indexed) \subseteq Stored
<1>1. /\ synced \in 0..Len(journal) /\ index \in 0..Len(journal)
      /\ 1..index \subseteq 1..synced
  BY Lengths DEF StreamInv
<1>2. Stored = {journal[n].content : n \in 1..synced}
  BY <1>1, FirstTicks DEF Stored, StreamInv
<1>3. Contents(Indexed) = {journal[n].content : n \in 1..index}
  BY <1>1, FirstTicks DEF Indexed, StreamInv
<1> QED  BY <1>1, <1>2, <1>3

LEMMA StoredKept ==
    ASSUME StreamInv, journal' \in Seq(Tick), synced' \in 0..Len(journal'),
           synced <= synced', \A n \in 1..synced : journal'[n] = journal[n]
    PROVE  Stored \subseteq Stored'
<1>1. Contents(ToSet(SubSeq(journal', 1, synced')))
          = {journal'[n].content : n \in 1..synced'}
  BY FirstTicks
<1>2. Stored' = {journal'[n].content : n \in 1..synced'}
  BY <1>1 DEF Stored, Contents
<1>3. Len(journal') \in Nat  BY LenProperties
<1>4. 1..synced \subseteq 1..synced'  BY <1>3, Lengths
<1> QED  BY <1>2, <1>4, StoredSet

\* A content in hand is journaled, or the first envelope with it is fresh.
LEMMA OldOrFresh ==
    ASSUME NEW b \in Seq(Envelope), NEW c \in Contents(ToSet(b)), c \notin Contents(Indexed)
    PROVE  \E m \in Fresh(b) : b[m].content = c
<1>1. /\ ToSet(b) = {b[i] : i \in 1..Len(b)} /\ Len(b) \in Nat /\ DOMAIN b = 1..Len(b)
  BY SetOf, LenProperties
<1> DEFINE S == {j \in 1..Len(b) : b[j].content = c}
<1>2. S \in SUBSET Nat /\ S # {} /\ IsFiniteSet(S)
  <2>1. IsFiniteSet(1..Len(b))  BY <1>1, FS_Interval
  <2>2. S \subseteq 1..Len(b)  OBVIOUS
  <2>3. S # {}  BY <1>1 DEF Contents
  <2> QED  BY <1>1, <2>1, <2>2, <2>3, FS_Subset
<1>3. PICK m \in S : \A j \in S : m <= j  BY <1>2, Smallest
<1>4. \A j \in 1..(m - 1) : b[j].content # b[m].content
  <2>1. \A j \in 1..(m - 1) : j \in 1..Len(b) /\ ~(m <= j)  BY <1>1
  <2> QED  BY <1>3, <2>1
<1>5. m \in DOMAIN b /\ b[m].content = c  BY <1>1
<1> QED  BY <1>4, <1>5 DEF Fresh

LEMMA OldContents ==
    ASSUME NEW b \in Seq(Envelope), Fresh(b) = {}
    PROVE  Contents(ToSet(b)) \subseteq Contents(Indexed)
BY OldOrFresh

LEMMA FinalizedOK ==
    ASSUME StreamInv, NEW b \in Seq(Envelope), b # <<>>, Fresh(b) = {}
    PROVE  FenceOK(Finalized(b))
<1>1. Len(b) \in 1..Len(b)  BY EmptySeq
<1>2. Last(b) \in ToSet(b)  BY <1>1, SetOf DEF Last
<1>3. Last(b).content \in Contents(ToSet(b))  BY <1>2 DEF Contents
<1>4. Last(b).content \in Stored  BY <1>3, OldContents, StoredSet
<1> QED  BY <1>4 DEF FenceOK, Finalized

LEMMA PreparedOK ==
    ASSUME FenceOK(fenceState), NEW b \in Seq(Envelope), b # <<>>
    PROVE  FenceOK(Prepared(b))
<1>1. Len(b) \in 1..Len(b)  BY EmptySeq
<1>2. Last(b) \in ToSet(b) /\ ToSet(b) \subseteq Envelope  BY <1>1, SetOf DEF Last
<1>3. Last(b).content \in Contents(ToSet(b)) /\ Contents(ToSet(b)) \subseteq Content
  BY <1>2 DEF Contents, Envelope
<1> QED  BY <1>3 DEF FenceOK, Prepared

LEMMA ResolvedOK ==
    ASSUME StreamInv, FenceOK(fenceState)
    PROVE  FenceOK(Resolved(fenceState))
BY StoredSet DEF FenceOK, Resolved

LEMMA FenceMoves ==
    ASSUME FenceInv, Stored \subseteq Stored', NEW f, FenceOK(f),
           fence' \in {fence, f}, fenceState' \in {fenceState, f}
    PROVE  FenceInv'
<1>1. FenceOK(fence)'  BY DEF FenceInv, FenceOK
<1>2. FenceOK(fenceState)'  BY DEF FenceInv, FenceOK
<1> QED  BY <1>1, <1>2 DEF FenceInv

LEMMA FenceStep ==
    ASSUME PipelineInv, PipelineInv', FenceInv, WorkerNext
    PROVE  FenceInv'
<1>0. Stored \subseteq Stored'
  <2>1. Extends(journal', journal) /\ synced' \in synced..Len(journal') /\ synced \in Nat
    BY WorkerExtends
  <2>2. Len(journal') \in Nat /\ journal' \in Seq(Tick) /\ synced <= Len(journal)
    BY <2>1, Lengths DEF Extends, PipelineInv, StreamInv
  <2>3. \A n \in 1..synced : n \in 1..Len(journal)  BY <2>1, <2>2, Lengths DEF PipelineInv
  <2> QED  BY <2>1, <2>2, <2>3, StoredKept DEF Extends, PipelineInv
<1>1. turn.batch \in Seq(Envelope) /\ FenceOK(fenceState) /\ FenceOK(fence)
  BY DEF PipelineInv, WorkInv, FenceInv
<1>2. CASE Fencing
  <2>1. CASE Settle \/ Resolve \/ RecoverFence
    <3>1. /\ fence' \in {fence, Resolved(fenceState)}
          /\ fenceState' \in {fenceState, Resolved(fenceState)}
      BY <2>1 DEF Settle, Resolve, RecoverFence, WriteFence, WriteFenceFails
    <3> QED  BY <1>0, <1>1, <3>1, ResolvedOK, FenceMoves DEF PipelineInv
  <2>2. CASE Advance \/ Finalize
    <3>1. /\ fence' \in {fence, Finalized(turn.batch)}
          /\ fenceState' \in {fenceState, Finalized(turn.batch)}
          /\ Fresh(turn.batch) = {} /\ turn.batch # <<>>
      BY <2>2 DEF Advance, Finalize, Staging, WriteFence, WriteFenceFails, PipelineInv,
                  WorkInv, GroupInv, Handling
    <3> QED  BY <1>0, <1>1, <3>1, FinalizedOK, FenceMoves DEF PipelineInv
  <2>3. CASE Prepare
    <3>1. /\ fence' \in {fence, Prepared(turn.batch)}
          /\ fenceState' \in {fenceState, Prepared(turn.batch)}
          /\ turn.batch # <<>>
      BY <2>3 DEF Prepare, Staging, WriteFence, WriteFenceFails, PipelineInv, WorkInv,
                  Handling
    <3> QED  BY <1>0, <1>1, <3>1, PreparedOK, FenceMoves
  <2> QED  BY <1>2, <2>1, <2>2, <2>3 DEF Fencing
<1>3. CASE UNCHANGED <<fence, fenceState>>  BY <1>0, <1>1, <1>3, FenceMoves
<1>4. CASE Recover
  <2>1. fence' = fence /\ fenceState' = fence  BY <1>4 DEF Recover
  <2> QED  BY <1>0, <1>1, <2>1, FenceMoves
<1>5. CASE Kill
  <2>1. fence' = fence /\ fenceState' = NoFence  BY <1>5 DEF Kill, Die
  <2>2. FenceOK(NoFence)  BY DEF FenceOK, NoFence
  <2> QED  BY <1>0, <1>1, <2>1, <2>2, FenceMoves
<1>6. CASE Quiet  BY <1>3, <1>6, QuietStep
<1>7. CASE Journal \/ Mark \/ Ack \/ Replaying
  <2>1. UNCHANGED <<fence, fenceState>>
    BY <1>7 DEF Journal, Mark, Ack, FlushUnchanged, Replaying, ReplayAck, memory
  <2> QED  BY <1>3, <2>1
<1> QED  BY <1>2, <1>4, <1>5, <1>6, <1>7, Kinds

-----------------------------------------------------------------------------
(* The envelopes in hand, and the ticks that are to be found.              *)

LEMMA ContentsOf ==
    ASSUME NEW A, NEW B
    PROVE  /\ Contents(A \cup B) = Contents(A) \cup Contents(B)
           /\ A \subseteq B => Contents(A) \subseteq Contents(B)
BY DEF Contents

\* A group is taken off the queue, taken apart and put back as a whole.
LEMMA HandKept ==
    ASSUME PipelineInv, TrackInv, Draw \/ TrySingly \/ PutBack
    PROVE  Hand' = Hand
<1> USE NoneInEmpty
<1>0. turn.batch \in Seq(Envelope) /\ turn.rest \in Seq(Envelope) /\ ingress \in Seq(Envelope)
  BY DEF PipelineInv, WorkInv
<1>1. CASE Draw
  <2>1. turn = Idle  BY <1>1 DEF Draw, TrackInv, Handling
  <2>2. PICK n \in 1..Len(ingress) :
            /\ turn' = [Idle EXCEPT !.batch = SubSeq(ingress, 1, n)]
            /\ ingress' = SubSeq(ingress, n + 1, Len(ingress))
    BY <1>1 DEF Draw
  <2>3. turn'.batch = SubSeq(ingress, 1, n) /\ turn'.rest = <<>>  BY <2>2 DEF Idle
  <2>4. ToSet(turn'.batch) \cup ToSet(ingress') = ToSet(ingress)
    BY <1>0, <2>2, <2>3, SetOfParts
  <2>5. Hand' = ToSet(turn'.batch) \cup ToSet(turn'.rest) \cup ToSet(ingress')
    BY DEF Hand
  <2>6. Hand = ToSet(ingress)  BY <2>1 DEF Hand, Idle
  <2> QED  BY <2>3, <2>4, <2>5, <2>6
<1>2. CASE TrySingly
  <2>1. /\ turn.rest = <<>> /\ turn.batch # <<>>
        /\ turn'.batch = <<Head(turn.batch)>> /\ turn'.rest = Tail(turn.batch)
        /\ ingress' = ingress
    BY <1>2 DEF TrySingly, TrackInv, One, PipelineInv, WorkInv, Handling
  <2>2. ToSet(turn'.batch) \cup ToSet(turn'.rest) = ToSet(turn.batch)
    BY <1>0, <2>1, SetOfHead
  <2>3. Hand' = ToSet(turn'.batch) \cup ToSet(turn'.rest) \cup ToSet(ingress')
    BY DEF Hand
  <2> QED  BY <2>1, <2>2, <2>3 DEF Hand
<1>3. CASE PutBack
  <2>1. ingress' = turn.batch \o turn.rest \o ingress /\ turn' = Idle
    BY <1>3 DEF PutBack
  <2>2. /\ turn.batch \o turn.rest \in Seq(Envelope)
        /\ ToSet(turn.batch \o turn.rest) = ToSet(turn.batch) \cup ToSet(turn.rest)
    BY <1>0, SetOfConcat, ConcatProperties
  <2> DEFINE group == turn.batch \o turn.rest
  <2> HIDE DEF group
  <2>a. group \in Seq(Envelope) /\ ToSet(group) = ToSet(turn.batch) \cup ToSet(turn.rest)
    BY <2>2 DEF group
  <2>b. ToSet(group \o ingress) = ToSet(group) \cup ToSet(ingress)
    BY <1>0, <2>a, SetOfConcat
  <2>3. ToSet(ingress') = Hand  BY <2>1, <2>a, <2>b DEF Hand, group
  <2>4. Hand' = ToSet(ingress')  BY <2>1 DEF Hand, Idle
  <2> QED  BY <2>3, <2>4
<1> QED  BY <1>1, <1>2, <1>3

\* What was tried leaves the hands.
LEMMA HandDone ==
    ASSUME PipelineInv, TrackInv, Durable \/ DurableOne \/ HandOver
    PROVE  Hand = ToSet(turn.batch) \cup Hand'
<1> USE NoneInEmpty
<1>1. Hand' = ToSet(turn'.batch) \cup ToSet(turn'.rest) \cup ToSet(ingress')
  BY DEF Hand
<1>2. CASE turn' = Idle /\ turn.rest = <<>> /\ ingress' = ingress
  BY <1>1, <1>2 DEF Hand, Idle
<1>3. CASE DurableOne /\ turn.rest # <<>>
  <2>1. /\ turn'.batch = <<Head(turn.rest)>> /\ turn'.rest = Tail(turn.rest)
        /\ ingress' = ingress
    <3>1. /\ turn' = One(turn.rest, turn.prefix \cup TicksOf(turn.batch))
          /\ ingress' = ingress
      BY <1>3 DEF DurableOne
    <3> QED  BY <3>1 DEF One
  <2>2. ToSet(turn'.batch) \cup ToSet(turn'.rest) = ToSet(turn.rest)
    BY <1>3, <2>1, SetOfHead DEF PipelineInv, WorkInv
  <2> QED  BY <1>1, <2>1, <2>2 DEF Hand
<1>4. CASE DurableOne /\ turn.rest = <<>>
  BY <1>2, <1>4 DEF DurableOne
<1>5. CASE Durable \/ HandOver
  BY <1>2, <1>5 DEF Durable, HandOver, TrackInv
<1> QED  BY <1>3, <1>4, <1>5

LEMMA HandPolled ==
    ASSUME PipelineInv, NEW c \in Content, Poll(c)
    PROVE  Hand' = Hand \cup {[seq |-> source, content |-> c]}
<1>1. [seq |-> source, content |-> c] \in Envelope /\ ingress \in Seq(Envelope)
  BY DEF Poll, PipelineInv, WorkInv, Envelope
<1>2. ingress' = Append(ingress, [seq |-> source, content |-> c]) /\ turn' = turn
  BY DEF Poll
<1>3. ToSet(ingress') = ToSet(ingress) \cup {[seq |-> source, content |-> c]}
  BY <1>1, <1>2, SetOfAppend
<1> QED  BY <1>2, <1>3 DEF Hand

LEMMA HandSame == ASSUME UNCHANGED <<turn, ingress>>  PROVE Hand' = Hand
BY DEF Hand

\* A journaled tick is among those that its envelope stands for.
LEMMA TickOfEnvelope ==
    ASSUME StreamInv, NEW b, NEW n \in 1..index, journal[n].content \in Contents(ToSet(b))
    PROVE  journal[n] \in TicksOf(b) \cap Indexed /\ journal[n].seq = n
<1>1. index \in 0..Len(journal)  BY Lengths DEF StreamInv
<1>2. Indexed = {journal[k] : k \in 1..index}
  BY <1>1, FirstTicks DEF Indexed, StreamInv
<1>3. journal[n].seq = n  BY <1>1, Lengths DEF StreamInv
<1> QED  BY <1>2, <1>3 DEF TicksOf

LEMMA FoundKept ==
    ASSUME NEW n, Found(n), journal'[n] = journal[n], forgotten \subseteq forgotten',
           pending \cup turn.prefix \subseteq pending' \cup turn'.prefix,
           Hand \subseteq Hand'
    PROVE  Found(n)'
<1>1. Contents(Hand) \subseteq Contents(Hand')  BY ContentsOf
<1>2. Contents(Hand)' = Contents(Hand')  BY DEF Contents
<1> QED  BY <1>1, <1>2 DEF Found

\* A tick that only its envelope stood for, when that has been handled.
LEMMA FoundMoves ==
    ASSUME PipelineInv, TrackInv, Durable \/ DurableOne \/ HandOver,
           NEW n \in 1..index, Found(n)
    PROVE  Found(n)'
<1>1. Hand = ToSet(turn.batch) \cup Hand'  BY HandDone
<1>2. journal' = journal /\ Contents(Hand)' = Contents(Hand')
  BY DEF Durable, DurableOne, HandOver, TurnUnchanged, streamVars, streamFiles, Contents
<1>3. Contents(Hand) = Contents(ToSet(turn.batch)) \cup Contents(Hand')
  BY <1>1, ContentsOf
<1>4. /\ forgotten \subseteq forgotten' /\ pending \subseteq pending'
      /\ turn'.prefix = turn.prefix
            \/ turn.prefix \subseteq turn'.prefix \/ Seqs(turn.prefix) \subseteq forgotten'
  BY DEF Durable, DurableOne, HandOver, TrackInv, One, Idle, Seqs
<1>5. CASE n \in forgotten \/ journal[n] \in pending \/ journal[n].content \in Contents(Hand')
  BY <1>2, <1>4, <1>5 DEF Found
<1>6. CASE journal[n] \in turn.prefix
  <2>1. journal[n].seq = n
    BY Lengths DEF PipelineInv, StreamInv
  <2>2. n \in Seqs(turn.prefix)  BY <1>6, <2>1 DEF Seqs
  <2> QED  BY <1>2, <1>4, <1>6, <2>2 DEF Found
<1>7. CASE journal[n].content \in Contents(ToSet(turn.batch))
  <2>1. journal[n] \in TicksOf(turn.batch) \cap Indexed /\ journal[n].seq = n
    BY <1>7, TickOfEnvelope DEF PipelineInv
  <2>2. CASE Durable
    BY <1>2, <2>1, <2>2 DEF Durable, Found
  <2>3. CASE DurableOne
    <3>1. \/ TicksOf(turn.batch) \subseteq turn'.prefix
          \/ Seqs(TicksOf(turn.batch)) \subseteq forgotten'
      BY <2>3 DEF DurableOne, One, Seqs
    <3>2. n \in Seqs(TicksOf(turn.batch))  BY <2>1 DEF Seqs
    <3> QED  BY <1>2, <2>1, <3>1, <3>2 DEF Found
  <2>4. CASE HandOver
    <3>1. CASE journal[n] \in pending'  BY <1>2, <3>1 DEF Found
    <3>2. CASE journal[n] \notin pending'
      <4>1. n \in Seqs((TicksOf(turn.batch) \cap Indexed) \ pending')
        BY <2>1, <3>2 DEF Seqs
      <4> QED  BY <1>2, <2>4, <4>1 DEF HandOver, Found
    <3> QED  BY <3>1, <3>2
  <2> QED  BY <2>2, <2>3, <2>4
<1> QED  BY <1>3, <1>5, <1>6, <1>7 DEF Found

\* A new tick comes from a fresh envelope, each from another one.
LEMMA StagedFrom ==
    ASSUME NEW b \in Seq(Envelope), watermark \in Nat, NEW k \in 1..Len(Staged(b))
    PROVE  \E i \in Fresh(b) : /\ Rank(i, Fresh(b)) = k
                               /\ Staged(b)[k].event = b[i].seq
                               /\ Staged(b)[k].content = b[i].content
<1> DEFINE at == CHOOSE i \in Fresh(b) : Rank(i, Fresh(b)) = k
<1>1. Len(Staged(b)) = Cardinality(Fresh(b)) /\ Fresh(b) \in SUBSET Nat
      /\ IsFiniteSet(Fresh(b))
  BY StagedType, FreshType
<1>2. at \in Fresh(b) /\ Rank(at, Fresh(b)) = k  BY <1>1, RankOnto
<1>3. Staged(b)[k] = [seq |-> watermark + k, event |-> b[at].seq, content |-> b[at].content]
  BY <1>1 DEF Staged
<1>4. Staged(b)[k].event = b[at].seq /\ Staged(b)[k].content = b[at].content
  BY <1>3
<1> HIDE DEF at
<1> QED  BY <1>2, <1>4

\* What is in the journal after an append, whole or cut short.
LEMMA Appended ==
    ASSUME PipelineInv, pc = "append",
           AppendGroup(Staged(turn.batch)) \/ AppendCut(Staged(turn.batch)),
           NEW n \in 1..Len(journal')
    PROVE  \/ n \in 1..Len(journal) /\ journal'[n] = journal[n]
           \/ \E i \in Fresh(turn.batch) :
                 /\ Rank(i, Fresh(turn.batch)) = n - Len(journal)
                 /\ journal'[n].event = turn.batch[i].seq
                 /\ journal'[n].content = turn.batch[i].content
<1> DEFINE s == Staged(turn.batch)
<1>0. turn.batch \in Seq(Envelope) /\ watermark \in Nat /\ Len(journal) \in Nat
  BY Lengths DEF PipelineInv, WorkInv
<1>1. s \in Seq(Tick) /\ Len(s) \in Nat /\ \A k \in 1..Len(s) : s[k] \in Tick
  BY <1>0, StagedType, SetOf
<1>2. \A k \in 1..Len(s) : \E i \in Fresh(turn.batch) :
          /\ Rank(i, Fresh(turn.batch)) = k
          /\ s[k].event = turn.batch[i].seq /\ s[k].content = turn.batch[i].content
  BY <1>0, StagedFrom
<1> HIDE DEF s
<1>3. PICK t \in Seq(Tick) : /\ journal' = journal \o t /\ Len(t) <= Len(s)
                             /\ \A k \in 1..Len(t) : t[k] = s[k]
  <2>1. CASE AppendGroup(s)  BY <1>1, <2>1 DEF AppendGroup
  <2>2. CASE AppendCut(s)
    <3>1. PICK k \in 0..Len(s) : journal' = journal \o SubSeq(s, 1, k)
      BY <2>2 DEF AppendCut
    <3>2. \A i \in 1..k : s[i] \in Tick  BY <1>1
    <3>3. /\ SubSeq(s, 1, k) \in Seq(Tick) /\ Len(SubSeq(s, 1, k)) = k
          /\ \A i \in 1..k : SubSeq(s, 1, k)[i] = s[i]
      BY <1>1, <3>2, SubSeqProperties
    <3> DEFINE u == SubSeq(s, 1, k)
    <3> HIDE DEF u
    <3>4. /\ u \in Seq(Tick) /\ journal' = journal \o u /\ Len(u) = k
          /\ \A i \in 1..Len(u) : u[i] = s[i]
      BY <3>1, <3>3 DEF u
    <3>5. Len(u) <= Len(s)  BY <1>1, <3>4
    <3>6. \A i \in 1..Len(u) : u[i] = s[i]  BY <3>4
    <3> QED  BY <3>4, <3>5, <3>6, Zenon
  <2> QED  BY <2>1, <2>2 DEF s
<1>4. /\ Len(journal') = Len(journal) + Len(t) /\ Len(t) \in Nat
      /\ journal'[n] = IF n <= Len(journal) THEN journal[n] ELSE t[n - Len(journal)]
  <2>1. /\ Len(journal \o t) = Len(journal) + Len(t)
        /\ \A i \in 1..Len(journal) + Len(t) :
              (journal \o t)[i] = IF i <= Len(journal) THEN journal[i]
                                                      ELSE t[i - Len(journal)]
    BY ConcatProperties DEF PipelineInv, StreamInv
  <2>2. Len(t) \in Nat  BY LenProperties
  <2> QED  BY <1>3, <2>1, <2>2
<1>5. CASE n <= Len(journal)  BY <1>0, <1>4, <1>5
<1>6. CASE n > Len(journal)
  <2>1. n - Len(journal) \in 1..Len(t) /\ n - Len(journal) \in 1..Len(s)
    BY <1>0, <1>1, <1>3, <1>4, <1>6
  <2>2. journal'[n] = s[n - Len(journal)]  BY <1>0, <1>3, <1>4, <1>6, <2>1
  <2> QED  BY <1>2, <2>1, <2>2
<1> QED  BY <1>0, <1>4, <1>5, <1>6

\* The group in hand is Idle when nothing is handled.
LEMMA TurnStep ==
    ASSUME PipelineInv, TrackInv, WorkerNext
    PROVE  /\ ~turn'.single => turn'.prefix = {} /\ turn'.rest = <<>>
           /\ ~Handling' => turn' = Idle
<1> USE DEF TrackInv, Handling, Goto
<1>1. CASE Fencing \/ Journal \/ Mark
  <2>1. turn' = turn
    BY <1>1, FencingStep DEF Journal, Mark, GroupUnchanged
  <2>2. Handling' \/ pc = "fence"
    BY <1>1 DEF Fencing, Settle, Advance, Prepare, Finalize, Resolve, RecoverFence, Journal,
                Mark, Staging
  <2> QED  BY <2>1, <2>2
<1>2. CASE Ack \/ Replaying \/ Recover
  BY <1>2 DEF Ack, FlushUnchanged, Replaying, ReplayAck, Recover, memory
<1>3. CASE Kill  BY <1>3 DEF Kill, Die, Idle
<1>4. CASE Receive \/ Reject \/ Flush \/ ReplayWrite \/ ReplayDone
  BY <1>4 DEF Receive, Poll, PollFails, memory, Reject, Staging, GroupUnchanged, Flush,
              FlushNothing, FlushWrite, FlushFails, FlushCommitted, Flushing,
              FlushUnchanged, ReplayWrite, ReplayDone
<1>5. CASE Draw
  <2>1. PICK b : turn' = [Idle EXCEPT !.batch = b]  BY <1>5 DEF Draw
  <2> QED  BY <1>5, <2>1 DEF Draw, Idle
<1>6. CASE Durable \/ HandOver \/ PutBack
  <2>1. turn' = Idle  BY <1>6 DEF Durable, HandOver, PutBack
  <2> QED  BY <2>1 DEF Idle
<1>7. CASE TrySingly
  BY <1>7 DEF TrySingly, One
<1>8. CASE DurableOne
  <2>1. \/ turn' = Idle
        \/ turn' = One(turn.rest, turn.prefix \cup TicksOf(turn.batch)) /\ pc' = "stage"
    BY <1>8 DEF DurableOne
  <2> QED  BY <2>1 DEF One, Idle
<1> QED  BY <1>1, <1>2, <1>3, <1>4, <1>5, <1>6, <1>7, <1>8, Kinds DEF Quiet

\* What is forgotten about a tick is that it was written, or it stays found.
LEMMA FoundStep ==
    ASSUME PipelineInv, PipelineInv', TrackInv, WorkerNext, ~Starting', ~Starting,
           NEW n \in 1..index', n \notin acks'
    PROVE  Found(n)'
<1>0. /\ 1..index \subseteq 1..Len(journal) /\ Len(journal) \in Nat
      /\ \A k \in 1..Len(journal) : journal[k].seq = k
  BY Lengths DEF PipelineInv, StreamInv
<1>1. n \in 1..index /\ n \notin acks => Found(n)  BY DEF TrackInv
<1>2. CASE Quiet
  <2>1. UNCHANGED <<journal, index, acks>> /\ Found(n)
    BY <1>1, <1>2, QuietStep DEF streamVars, streamFiles
  <2>2. CASE Receive
    <3>1. Hand \subseteq Hand'
      BY <2>2, HandPolled, HandSame DEF Receive, PollFails, memory
    <3>2. UNCHANGED <<forgotten, pending, turn>>
      BY <2>2 DEF Receive, Poll, PollFails, memory
    <3> QED  BY <2>1, <3>1, <3>2, FoundKept
  <2>3. CASE Draw \/ TrySingly \/ PutBack
    <3>1. UNCHANGED forgotten /\ pending \cup turn.prefix \subseteq pending' \cup turn'.prefix
      BY <2>3 DEF Draw, TrySingly, PutBack, TrackInv, Handling, Idle
    <3> QED  BY <2>1, <2>3, <3>1, HandKept, FoundKept
  <2>4. CASE Durable \/ DurableOne \/ HandOver
    BY <2>1, <2>4, FoundMoves
  <2>5. CASE Reject
    BY <2>1, <2>5, HandSame, FoundKept DEF Reject, GroupUnchanged
  <2>6. CASE FlushNothing
    <3>1. turn.prefix = {} /\ UNCHANGED <<turn, ingress, forgotten>> /\ Unwritten = {}
      BY <2>6 DEF FlushNothing, FlushUnchanged, Flushing, TrackInv, Handling, Idle
    <3>2. journal[n] \notin pending  BY <1>0, <2>1, <3>1 DEF Unwritten
    <3>3. n \in forgotten \/ journal[n].content \in Contents(Hand)
      BY <2>1, <3>1, <3>2 DEF Found
    <3>4. Contents(Hand)' = Contents(Hand)  BY <3>1, HandSame DEF Contents
    <3> QED  BY <2>1, <3>1, <3>3, <3>4 DEF Found
  <2>7. CASE FlushWrite \/ FlushFails \/ FlushCommitted
    BY <2>1, <2>7, HandSame, FoundKept DEF FlushWrite, FlushFails, FlushCommitted, FlushUnchanged
  <2>8. CASE ReplayWrite \/ ReplayDone
    BY <2>8 DEF ReplayWrite, ReplayDone, Starting
  <2> QED
    BY <1>2, <2>2, <2>3, <2>4, <2>5, <2>6, <2>7, <2>8 DEF Quiet, Flush
<1>3. CASE Fencing \/ Mark
  <2>1. UNCHANGED <<journal, index, acks, turn, ingress, pending, forgotten>>
    BY <1>3, FencingStep
    DEF streamVars, streamFiles, Mark, MarkTail, Poison, GroupUnchanged
  <2> QED  BY <1>1, <2>1, HandSame, FoundKept
<1>4. CASE Journal
  <2>1. /\ pc = "append" /\ UNCHANGED <<turn, ingress, pending, forgotten, acks>>
        /\ \/ AppendGroup(Staged(turn.batch)) \/ AppendCut(Staged(turn.batch))
        /\ turn.batch \in Seq(Envelope)
    BY <1>4 DEF Journal, GroupUnchanged, AppendGroup, AppendCut, PipelineInv, WorkInv
  <2>2. CASE n \in 1..index
    <3>1. Extends(journal', journal)  BY WorkerExtends
    <3>2. journal'[n] = journal[n]  BY <1>0, <2>2, <3>1 DEF Extends
    <3> QED  BY <1>1, <2>1, <2>2, <3>2, HandSame, FoundKept
  <2>3. CASE n \notin 1..index
    <3>1. index = Len(journal) /\ index' \in 0..Len(journal')
      BY <2>1, Lengths DEF PipelineInv, StreamInv
    <3>2. n \in 1..Len(journal') /\ n \notin 1..Len(journal)
      <4>1. Len(journal') \in Nat  BY LenProperties DEF PipelineInv, StreamInv
      <4> QED  BY <2>3, <3>1, <4>1
    <3>3. PICK i \in Fresh(turn.batch) : journal'[n].content = turn.batch[i].content
      BY <2>1, <3>2, Appended
    <3>4. turn.batch[i] \in ToSet(turn.batch)  BY <2>1, FreshType, SetOf
    <3>5. journal'[n].content \in Contents(Hand)  BY <3>3, <3>4 DEF Contents, Hand
    <3>6. Contents(Hand)' = Contents(Hand)  BY <2>1, HandSame DEF Contents
    <3> QED  BY <3>5, <3>6 DEF Found
  <2> QED  BY <2>2, <2>3
<1>5. CASE Ack
  <2>1. /\ UNCHANGED <<journal, index, turn, ingress, forgotten>>
        /\ acks \subseteq acks' /\ turn.prefix = {}
        /\ \/ acks' = acks \cup Seqs(Unwritten)
           \/ pending' = pending
    BY <1>5 DEF Ack, Acknowledge, AcknowledgeCut, Poison, FlushUnchanged, streamVars,
                streamFiles, TrackInv, Handling, Idle
  <2>2. Found(n)  BY <1>1, <2>1
  <2>3. CASE pending' = pending  BY <2>1, <2>2, <2>3, HandSame, FoundKept
  <2>4. CASE acks' = acks \cup Seqs(Unwritten)
    <3>1. journal[n] \notin pending
      BY <1>0, <2>1, <2>4 DEF Unwritten, Seqs
    <3>2. n \in forgotten \/ journal[n].content \in Contents(Hand)
      BY <2>1, <2>2, <3>1 DEF Found
    <3>3. Contents(Hand)' = Contents(Hand)  BY <2>1, HandSame DEF Contents
    <3> QED  BY <2>1, <3>2, <3>3 DEF Found
  <2> QED  BY <2>1, <2>3, <2>4
<1>6. CASE Replaying \/ Recover \/ Kill
  BY <1>6 DEF Replaying, ReplayAck, Recover, Kill, Die, Goto, Starting
<1> QED  BY <1>2, <1>3, <1>4, <1>5, <1>6, Kinds

\* The source is bound when nothing is left to be written.
LEMMA Bound ==
    ASSUME PipelineInv, WorkerNext, Starting, ~Starting'
    PROVE  \A n \in 1..index' : n \in acks'
<1> USE DEF Starting, Goto
<1>1. CASE ReplayDone
  BY <1>1 DEF ReplayDone, Unacked, streamVars, streamFiles
<1>2. CASE Receive \/ Draw \/ Reject \/ Durable \/ DurableOne \/ HandOver \/ TrySingly
           \/ PutBack \/ ReplayWrite
  BY <1>2 DEF Receive, Poll, PollFails, Draw, Reject, Staging, Durable, DurableOne,
              HandOver, TrySingly, PutBack, ReplayWrite
<1>3. CASE Flush
  BY <1>3 DEF Flush, FlushNothing, FlushWrite, FlushFails, FlushCommitted, Flushing,
              PipelineInv, WorkInv
<1>4. CASE Fencing \/ Journal \/ Mark \/ Ack
  BY <1>4 DEF Fencing, Settle, Advance, Prepare, Finalize, Resolve, RecoverFence, Staging,
              Journal, Mark, Ack
<1>5. CASE Replaying \/ Recover \/ Kill
  BY <1>5 DEF Replaying, ReplayAck, Recover, Kill, Die
<1> QED  BY <1>1, <1>2, <1>3, <1>4, <1>5, Kinds DEF Quiet

LEMMA TrackStep ==
    ASSUME PipelineInv, PipelineInv', TrackInv, WorkerNext
    PROVE  TrackInv'
<1>1. ASSUME ~Starting', NEW n \in 1..index'  PROVE n \in acks' \/ Found(n)'
  BY <1>1, FoundStep, Bound
<1> QED  BY <1>1, TurnStep DEF TrackInv

-----------------------------------------------------------------------------
(* Where the ticks of the journal come from.                               *)

OriginInv == SourceInv /\ IdentityInv /\ UniqueInv

LEMMA OriginTypes ==
    ASSUME PipelineInv
    PROVE  /\ source \in Nat \ {0} /\ cursor \in Nat /\ Len(journal) \in Nat
           /\ Hand \subseteq Envelope /\ \A e \in Hand : e.seq \in Nat
           /\ \A n \in 1..Len(journal) : journal[n] \in Tick /\ journal[n].event \in Nat
<1>1. /\ turn.batch \in Seq(Envelope) /\ turn.rest \in Seq(Envelope)
      /\ ingress \in Seq(Envelope) /\ source \in Nat \ {0} /\ cursor \in Nat
  BY DEF PipelineInv, WorkInv
<1>2. Hand \subseteq Envelope  BY <1>1, SetOf DEF Hand
<1>3. \A e \in Hand : e.seq \in Nat  BY <1>2 DEF Envelope
<1>4. \A n \in 1..Len(journal) : journal[n] \in Tick
  BY ElementOfSeq DEF PipelineInv, StreamInv
<1>5. \A n \in 1..Len(journal) : journal[n].event \in Nat  BY <1>4 DEF Tick
<1> QED  BY <1>1, <1>2, <1>3, <1>4, <1>5, Lengths DEF PipelineInv

LEMMA OriginKept ==
    ASSUME PipelineInv, OriginInv, Hand' \subseteq Hand, UNCHANGED <<journal, source, cursor>>,
           pc # "down" \/ pc' = "down"
    PROVE  OriginInv'
BY DEF OriginInv, SourceInv, IdentityInv, UniqueInv

\* A source sequence that was given out is below every later one.
LEMMA OriginPolled ==
    ASSUME PipelineInv, OriginInv, NEW c \in Content, Poll(c)
    PROVE  OriginInv'
<1>0. /\ source \in Nat \ {0} /\ cursor \in Nat /\ \A e \in Hand : e.seq \in Nat
      /\ \A n \in 1..Len(journal) : journal[n].event \in Nat
  BY OriginTypes
<1> DEFINE new == [seq |-> source, content |-> c]
<1>1. /\ Hand' = Hand \cup {new} /\ new.seq = source
      /\ UNCHANGED <<journal, pc>> /\ pc = "idle" /\ source' = source + 1
  BY HandPolled DEF Poll, streamVars, streamFiles
<1> HIDE DEF new
<1>2. cursor <= cursor' /\ source' <= cursor' + 1
  <2>1. CASE source > cursor
    <3>1. cursor' = source + Reservation - 1  BY <2>1 DEF Poll, Reserve
    <3> QED  BY <1>0, <1>1, <2>1, <3>1, MarketAssumption
  <2>2. CASE ~(source > cursor)
    <3>1. cursor' = cursor  BY <2>2 DEF Poll, Reserve
    <3> QED  BY <1>0, <1>1, <2>2, <3>1
  <2> QED  BY <2>1, <2>2
<1>3. cursor' \in Nat  BY MarketAssumption, <1>0 DEF Poll, Reserve
<1>4. \A e \in Hand : e.seq < source  BY DEF OriginInv, SourceInv
<1>5. \A n \in 1..Len(journal) : journal[n].event <= cursor /\ journal[n].event < source
  BY <1>1 DEF OriginInv, SourceInv
<1>6. SourceInv'
  <2>1. \A e \in Hand' : e.seq < source'  BY <1>0, <1>1, <1>4
  <2>2. \A n \in 1..Len(journal) : journal[n].event <= cursor' /\ journal[n].event < source'
    BY <1>0, <1>1, <1>2, <1>3, <1>5
  <2> QED  BY <1>1, <1>2, <2>1, <2>2 DEF SourceInv
<1>7. IdentityInv'
  <2>1. \A e \in Hand : e.seq # new.seq  BY <1>0, <1>1, <1>4
  <2>2. \A e, f \in Hand' : e.seq = f.seq => e.content = f.content
    BY <1>1, <2>1 DEF OriginInv, IdentityInv
  <2>3. \A n \in 1..Len(journal) : journal[n].event # new.seq  BY <1>0, <1>1, <1>5
  <2>4. \A e \in Hand', n \in 1..Len(journal) :
            journal[n].event = e.seq => journal[n].content = e.content
    BY <1>1, <2>3 DEF OriginInv, IdentityInv
  <2> QED  BY <1>1, <2>2, <2>4 DEF IdentityInv
<1>8. UniqueInv'  BY <1>1 DEF OriginInv, UniqueInv
<1> QED  BY <1>6, <1>7, <1>8 DEF OriginInv

\* The journal after an append: the new ticks differ from the others and from
\* each other, whatever part of them was written.
LEMMA OriginAppended ==
    ASSUME PipelineInv, OriginInv, pc = "append",
           AppendGroup(Staged(turn.batch)) \/ AppendCut(Staged(turn.batch))
    PROVE  /\ UniqueInv'
           /\ \A n \in 1..Len(journal') :
                /\ journal'[n].event <= cursor /\ journal'[n].event < source
                /\ \A e \in Hand : journal'[n].event = e.seq => journal'[n].content = e.content
<1> DEFINE b == turn.batch
           From(n, i) == /\ Rank(i, Fresh(b)) = n - Len(journal)
                         /\ journal'[n].event = b[i].seq
                         /\ journal'[n].content = b[i].content
           Old(n) == n \in 1..Len(journal) /\ journal'[n] = journal[n]
<1>1. \A n \in 1..Len(journal') : Old(n) \/ \E i \in Fresh(b) : From(n, i)
  BY Appended
<1>2. \A i \in Fresh(b) : b[i] \in Hand /\ i \in Nat
  <2>1. b \in Seq(Envelope)  BY DEF PipelineInv, WorkInv
  <2>2. \A i \in Fresh(b) : b[i] \in ToSet(b) /\ i \in Nat  BY <2>1, FreshType, SetOf
  <2> QED  BY <2>2 DEF Hand
<1>3. /\ source \in Nat \ {0} /\ cursor \in Nat /\ \A e \in Hand : e.seq \in Nat
      /\ Len(journal) \in Nat
  BY OriginTypes
<1>4. \A i \in Fresh(b), n \in 1..Len(journal) : journal[n].content # b[i].content
  <2>1. index = Len(journal)  BY DEF PipelineInv, StreamInv
  <2>2. Contents(Indexed) = {journal[n].content : n \in 1..Len(journal)}
    BY <2>1, StoredSet DEF PipelineInv
  <2> QED  BY <2>2 DEF Fresh
<1>5. \A i, j \in Fresh(b) : i # j => b[i].content # b[j].content
  <2>1. ASSUME NEW i \in Fresh(b), NEW j \in Fresh(b), i < j
        PROVE  b[i].content # b[j].content
    <3>1. i \in 1..(j - 1)
      <4>1. i \in 1..Len(b) /\ j \in Nat  BY <1>2, FreshType DEF PipelineInv, WorkInv
      <4> QED  BY <2>1, <4>1
    <3> QED  BY <3>1 DEF Fresh
  <2>2. \A i, j \in Fresh(b) : i # j => i < j \/ j < i  BY <1>2
  <2> QED  BY <2>1, <2>2
<1>6. \A e, f \in Hand : e.seq = f.seq => e.content = f.content
  BY DEF OriginInv, IdentityInv
<1>7. \A e \in Hand, n \in 1..Len(journal) :
          journal[n].event = e.seq => journal[n].content = e.content
  BY DEF OriginInv, IdentityInv
<1>8. ASSUME NEW n \in 1..Len(journal')
      PROVE  /\ journal'[n].event <= cursor /\ journal'[n].event < source
             /\ \A e \in Hand : journal'[n].event = e.seq => journal'[n].content = e.content
  <2>1. CASE Old(n)
    BY <1>7, <2>1 DEF OriginInv, SourceInv
  <2>2. ASSUME NEW i \in Fresh(b), From(n, i)
        PROVE  /\ journal'[n].event <= cursor /\ journal'[n].event < source
               /\ \A e \in Hand : journal'[n].event = e.seq => journal'[n].content = e.content
    <3>1. b[i].seq < source /\ source <= cursor + 1 /\ b[i].seq \in Nat
      BY <1>2, <1>3 DEF OriginInv, SourceInv
    <3>2. b[i].seq <= cursor  BY <1>3, <3>1
    <3>3. \A e \in Hand : b[i].seq = e.seq => b[i].content = e.content  BY <1>2, <1>6
    <3> QED  BY <2>2, <3>1, <3>2, <3>3
  <2> QED  BY <1>1, <2>1, <2>2
<1>9. ASSUME NEW m \in 1..Len(journal'), NEW n \in 1..Len(journal'), m # n
      PROVE  /\ journal'[m].content # journal'[n].content
             /\ journal'[m].event # journal'[n].event
  <2>1. CASE Old(m) /\ Old(n)
    BY <1>9, <2>1 DEF OriginInv, UniqueInv
  <2>2. ASSUME NEW k \in 1..Len(journal'), NEW l \in 1..Len(journal'), Old(k),
               NEW i \in Fresh(b), From(l, i)
        PROVE  /\ journal'[k].content # journal'[l].content
               /\ journal'[k].event # journal'[l].event
    BY <1>2, <1>4, <1>7, <2>2
  <2>3. ASSUME NEW i \in Fresh(b), NEW j \in Fresh(b), From(m, i), From(n, j)
        PROVE  /\ journal'[m].content # journal'[n].content
               /\ journal'[m].event # journal'[n].event
    <3>1. i # j
      <4>1. m \in Int /\ n \in Int  OBVIOUS
      <4>2. m - Len(journal) # n - Len(journal)  BY <1>3, <1>9, <4>1
      <4> QED  BY <2>3, <4>2
    <3>2. b[i].content # b[j].content  BY <1>5, <3>1
    <3>3. b[i].seq # b[j].seq  BY <1>2, <1>6, <3>2
    <3> QED  BY <2>3, <3>2, <3>3
  <2> HIDE DEF Old, From
  <2> QED  BY <1>1, <2>1, <2>2, <2>3
<1> QED  BY <1>8, <1>9 DEF UniqueInv

\* Without a process nothing is in hand.
LEMMA OriginDead ==
    ASSUME PipelineInv, Die, UNCHANGED cursor, UniqueInv',
           \A n \in 1..Len(journal') : journal'[n].event <= cursor
    PROVE  OriginInv'
<1>1. Hand' = {}  BY NoneInEmpty DEF Die, Idle, Hand
<1>2. source' = 1 /\ pc' = "down" /\ cursor \in Nat  BY OriginTypes DEF Die
<1> QED  BY <1>1, <1>2 DEF OriginInv, SourceInv, IdentityInv

LEMMA OriginStep ==
    ASSUME PipelineInv, TrackInv, OriginInv, WorkerNext
    PROVE  OriginInv'
<1>1. CASE Quiet
  <2>1. UNCHANGED journal /\ pc # "down"
    BY <1>1, QuietStep DEF streamVars, streamFiles
  <2>2. CASE Receive
    <3>1. CASE PollFails
      <4>1. /\ UNCHANGED <<source, pc, journal>> /\ Hand' = Hand
            /\ source > cursor /\ cursor' = source + Reservation - 1
        BY <3>1, HandSame DEF PollFails, Reserve, memory, streamVars, streamFiles
      <4>2. cursor <= cursor' /\ cursor' \in Nat /\ source <= cursor' + 1
        BY <4>1, OriginTypes, MarketAssumption
      <4>3. \A n \in 1..Len(journal) : journal[n].event <= cursor'
        <5>1. \A n \in 1..Len(journal) : journal[n].event <= cursor /\ journal[n].event \in Nat
          BY OriginTypes DEF OriginInv, SourceInv
        <5> QED  BY <4>2, <5>1, OriginTypes
      <4> QED
        BY <4>1, <4>2, <4>3 DEF OriginInv, SourceInv, IdentityInv, UniqueInv
    <3> QED  BY <2>2, <3>1, OriginPolled DEF Receive
  <2>3. CASE Draw \/ TrySingly \/ PutBack
    <3>1. Hand' = Hand  BY <2>3, HandKept
    <3>2. UNCHANGED <<source, cursor>>
      BY <2>3 DEF Draw, TrySingly, PutBack, TurnUnchanged
    <3> QED  BY <2>1, <3>1, <3>2, OriginKept
  <2>4. CASE Durable \/ DurableOne \/ HandOver
    <3>1. Hand' \subseteq Hand  BY <2>4, HandDone
    <3>2. UNCHANGED <<source, cursor>>
      BY <2>4 DEF Durable, DurableOne, HandOver, TurnUnchanged
    <3> QED  BY <2>1, <3>1, <3>2, OriginKept
  <2>5. CASE Reject \/ Flush \/ ReplayWrite \/ ReplayDone
    <3>1. UNCHANGED <<turn, ingress, source, cursor>>
      BY <2>5 DEF Reject, GroupUnchanged, Flush, FlushNothing, FlushWrite, FlushFails,
                  FlushCommitted, FlushUnchanged, ReplayWrite, ReplayDone, memory
    <3> QED  BY <2>1, <3>1, HandSame, OriginKept
  <2> QED  BY <1>1, <2>2, <2>3, <2>4, <2>5 DEF Quiet
<1>2. CASE Fencing
  BY <1>2, FencingStep, HandSame, OriginKept DEF streamVars, streamFiles
<1>3. CASE Mark \/ Ack \/ Replaying
  <2>1. UNCHANGED <<journal, turn, ingress, source, cursor>> /\ pc # "down"
    BY <1>3 DEF Mark, MarkTail, GroupUnchanged, Ack, Acknowledge, AcknowledgeCut,
                FlushUnchanged, Replaying, ReplayAck, memory, streamVars, streamFiles
  <2> QED  BY <2>1, HandSame, OriginKept
<1>4. CASE Journal
  <2>1. /\ pc = "append" /\ UNCHANGED <<turn, ingress, source, cursor>>
        /\ AppendGroup(Staged(turn.batch)) \/ AppendCut(Staged(turn.batch))
    BY <1>4 DEF Journal, GroupUnchanged
  <2>2. Hand' = Hand  BY <2>1, HandSame
  <2>3. /\ UniqueInv'
        /\ \A n \in 1..Len(journal') :
             /\ journal'[n].event <= cursor /\ journal'[n].event < source
             /\ \A e \in Hand : journal'[n].event = e.seq => journal'[n].content = e.content
    BY <2>1, OriginAppended
  <2> QED  BY <2>1, <2>2, <2>3 DEF OriginInv, SourceInv, IdentityInv
<1>5. CASE Recover
  <2>1. UNCHANGED <<journal, turn, ingress, cursor>> /\ source' = cursor + 1
    BY <1>5 DEF Recover, Load
  <2>2. Hand' = Hand /\ source <= source'
    BY <2>1, HandSame DEF OriginInv, SourceInv
  <2>3. \A e \in Hand : e.seq < source'
    <3>1. \A e \in Hand : e.seq < source /\ e.seq \in Nat
      BY OriginTypes DEF OriginInv, SourceInv
    <3> QED  BY <2>1, <2>2, <3>1, OriginTypes
  <2>4. \A n \in 1..Len(journal) : journal[n].event <= cursor /\ journal[n].event < source'
    <3>1. \A n \in 1..Len(journal) : journal[n].event <= cursor /\ journal[n].event \in Nat
      BY OriginTypes DEF OriginInv, SourceInv
    <3> QED  BY <2>1, <3>1, OriginTypes
  <2>5. source' <= cursor' + 1  BY <2>1, OriginTypes
  <2> QED
    BY <2>1, <2>2, <2>3, <2>4, <2>5 DEF OriginInv, SourceInv, IdentityInv, UniqueInv
<1>6. CASE Kill
  <2>1. Die /\ UNCHANGED cursor  BY <1>6 DEF Kill
  <2>2. CASE UNCHANGED journal
    <3>1. UniqueInv' /\ \A n \in 1..Len(journal') : journal'[n].event <= cursor
      BY <2>2 DEF OriginInv, SourceInv, UniqueInv
    <3> QED  BY <2>1, <3>1, OriginDead
  <2>3. CASE pc = "append" /\ AppendCut(Staged(turn.batch))
    BY <2>1, <2>3, OriginAppended, OriginDead
  <2> QED  BY <1>6, <2>2, <2>3 DEF Kill, AcknowledgeCut, streamFiles
<1> QED  BY <1>1, <1>2, <1>3, <1>4, <1>5, <1>6, Kinds

-----------------------------------------------------------------------------
(* The consumer, and the host.                                             *)

LEMMA ConsumerReads ==
    ASSUME ConsumerNext
    PROVE  /\ UNCHANGED <<journal, synced, watermark, acks, index, poisoned, pc, cursor,
                          source, ingress, turn, pending, committed, recovered, rows, fence,
                          fenceState, forgotten, undone>>
           /\ torn' \subseteq torn \cup {"evidence"}
<1>1. CASE Follow \/ Measure \/ CheckpointWrite
  BY <1>1 DEF Follow, Measure, CheckpointWrite, ConsumerUnchanged, workerVars,
              streamVars, streamFiles, memory
<1>2. CASE MeasureFails \/ CheckpointFails \/ ConsumerKill
  BY <1>2 DEF MeasureFails, CheckpointFails, ConsumerKill, ConsumerFault, EvidenceCut, memory
<1> QED  BY <1>1, <1>2 DEF ConsumerNext

\* The evidence grows by the tick after the checkpoint.
LEMMA EvidenceGrows ==
    ASSUME PipelineInv, FollowInv, checkpoint < Len(journal), Len(evidence) = checkpoint,
           evidence' = Append(evidence, journal[checkpoint + 1])
    PROVE  /\ evidence' \in Seq(Tick) /\ Len(evidence') = Len(evidence) + 1
           /\ Len(evidence) \in Nat /\ Len(evidence') <= Len(journal)
           /\ (\A n \in 1..Len(evidence) : evidence[n] = journal[n]) =>
                 \A n \in 1..Len(evidence') : evidence'[n] = journal[n]
<1>1. Len(journal) \in Nat /\ checkpoint \in Nat  BY Lengths DEF PipelineInv, FollowInv
<1>2. checkpoint + 1 \in 1..Len(journal)  BY <1>1
<1>3. journal[checkpoint + 1] \in Tick  BY <1>2, ElementOfSeq DEF PipelineInv, StreamInv
<1>4. /\ evidence' \in Seq(Tick) /\ Len(evidence') = Len(evidence) + 1
      /\ \A n \in 1..Len(evidence) : evidence'[n] = evidence[n]
      /\ evidence'[Len(evidence) + 1] = journal[checkpoint + 1]
  BY <1>3, AppendProperties DEF FollowInv
<1>5. \A n \in 1..Len(evidence') : n \in 1..Len(evidence) \/ n = Len(evidence) + 1
  BY <1>1, <1>4
<1> QED  BY <1>1, <1>4, <1>5

LEMMA FollowConsumer ==
    ASSUME PipelineInv, FollowInv, ConsumerNext
    PROVE  FollowInv'
<1> USE DEF FollowInv
<1>0. /\ UNCHANGED <<journal, undone>> /\ Len(journal) \in Nat /\ Len(evidence) \in Nat
      /\ checkpoint \in Nat /\ evidenceSynced \in 0..Len(evidence)
  BY ConsumerReads, Lengths, LenProperties DEF PipelineInv
<1>1. CASE Follow
  BY <1>0, <1>1 DEF Follow
<1>2. CASE Measure
  <2>1. checkpoint < Len(journal) /\ UNCHANGED checkpoint  BY <1>2 DEF Measure
  <2>2. CASE /\ Len(evidence) = checkpoint
             /\ evidence' = Append(evidence, journal[checkpoint + 1])
             /\ evidenceSynced' = Len(evidence')
    BY <1>0, <2>1, <2>2, EvidenceGrows
  <2>3. CASE Len(evidence) > checkpoint /\ UNCHANGED <<evidence, evidenceSynced>>
    BY <1>0, <2>1, <2>3
  <2> QED  BY <1>2, <2>2, <2>3 DEF Measure
<1>3. CASE CheckpointWrite
  BY <1>0, <1>3 DEF CheckpointWrite
<1>4. CASE CheckpointFails
  BY <1>0, <1>4 DEF CheckpointFails, ConsumerFault
<1>5. CASE MeasureFails \/ ConsumerKill
  <2>1. UNCHANGED <<checkpoint, evidenceSynced>> /\ consumer' # "measured"
    BY <1>5 DEF MeasureFails, ConsumerKill, ConsumerFault
  <2>2. CASE UNCHANGED evidence  BY <1>0, <2>1, <2>2
  <2>3. CASE /\ checkpoint < Len(journal) /\ Len(evidence) = checkpoint
             /\ evidence' = Append(evidence, journal[checkpoint + 1])
    <3>1. evidenceSynced' \in 0..Len(evidence')
      BY <1>0, <2>1, <2>3, EvidenceGrows
    <3> QED  BY <1>0, <2>1, <2>3, <3>1, EvidenceGrows
  <2> QED  BY <1>5, <2>2, <2>3 DEF MeasureFails, ConsumerKill, EvidenceCut
<1> QED  BY <1>1, <1>2, <1>3, <1>4, <1>5 DEF ConsumerNext

LEMMA FollowWorker ==
    ASSUME PipelineInv, FollowInv, WorkerNext, UNCHANGED consumerVars
    PROVE  FollowInv'
<1>1. Extends(journal', journal) /\ Len(journal) \in Nat /\ Len(evidence) \in Nat
  BY WorkerExtends, Lengths, LenProperties DEF PipelineInv, FollowInv
<1> QED  BY <1>1 DEF FollowInv, consumerVars, Extends

LEMMA EvidenceCutBack ==
    ASSUME FollowInv, NEW k \in evidenceSynced..Len(evidence),
           evidence' = SubSeq(evidence, 1, k)
    PROVE  /\ evidence' \in Seq(Tick) /\ Len(evidence') = k /\ k \in Nat
           /\ Len(evidence) \in Nat /\ k <= Len(evidence) /\ evidenceSynced \in 0..k
           /\ \A n \in 1..k : n \in 1..Len(evidence) /\ evidence'[n] = evidence[n]
<1>1. /\ Len(evidence) \in Nat /\ evidenceSynced \in 0..Len(evidence)
      /\ \A n \in 1..Len(evidence) : evidence[n] \in Tick
  BY SetOf DEF FollowInv
<1>2. k \in Nat /\ k <= Len(evidence) /\ \A n \in 1..k : evidence[n] \in Tick
  BY <1>1
<1>3. /\ SubSeq(evidence, 1, k) \in Seq(Tick) /\ Len(SubSeq(evidence, 1, k)) = k
      /\ \A n \in 1..k : SubSeq(evidence, 1, k)[n] = evidence[n]
  BY <1>1, <1>2, SubSeqProperties
<1> QED  BY <1>1, <1>2, <1>3

JournalInv == ShapeInv /\ FenceInv /\ TrackInv /\ OriginInv /\ FollowInv

LEMMA HostCrashKeeps ==
    ASSUME PipelineInv, PipelineInv', JournalInv, HostCrash
    PROVE  JournalInv'
<1> USE DEF JournalInv
<1>1. /\ Die /\ \E others \in SUBSET {"evidence"} : UnsyncedLost(others)
      /\ UNCHANGED <<cursor, fence, rows, evidenceSynced, checkpoint>>
      /\ consumer' = "down"
  BY DEF HostCrash
<1>2. /\ journal' \in Seq(Tick) /\ Len(journal') \in Nat
      /\ synced <= Len(journal') /\ synced' = synced /\ synced \in Nat
      /\ \A n \in 1..Len(journal') : n \in 1..Len(journal) /\ journal'[n] = journal[n]
  BY <1>1, LossKeeps, Lengths DEF PipelineInv, UnsyncedLost
<1>3. ShapeInv'
  <2>1. torn' \subseteq torn \cup {"evidence", "ticks"}  BY <1>1 DEF UnsyncedLost
  <2> QED  BY <1>1, <2>1 DEF ShapeInv, Die
<1>4. FenceInv'
  <2>1. \A n \in 1..synced : n \in 1..Len(journal')  BY <1>2
  <2>2. Stored \subseteq Stored'  BY <1>2, <2>1, StoredKept DEF PipelineInv
  <2>3. FenceOK(NoFence)  BY DEF FenceOK, NoFence
  <2>4. fence' = fence /\ fenceState' = NoFence  BY <1>1 DEF Die
  <2> QED  BY <2>2, <2>3, <2>4, FenceMoves
<1>5. TrackInv'
  <2>1. turn' = Idle /\ pc' = "down"  BY <1>1 DEF Die
  <2> QED  BY <2>1 DEF TrackInv, Starting, Idle
<1>6. OriginInv'
  <2>1. UniqueInv' /\ \A n \in 1..Len(journal') : journal'[n].event <= cursor
    BY <1>2 DEF OriginInv, SourceInv, UniqueInv
  <2> QED  BY <1>1, <2>1, OriginDead
<1>7. FollowInv'
  <2>1. PICK k \in evidenceSynced..Len(evidence) : evidence' = SubSeq(evidence, 1, k)
    BY DEF HostCrash
  <2>2. /\ evidence' \in Seq(Tick) /\ Len(evidence') = k /\ k \in Nat
        /\ Len(evidence) \in Nat /\ k <= Len(evidence) /\ evidenceSynced \in 0..k
        /\ \A n \in 1..k : n \in 1..Len(evidence) /\ evidence'[n] = evidence[n]
    BY <2>1, EvidenceCutBack
  <2>3. ~undone' => /\ ~undone /\ ~(Len(journal') < k) /\ ~(k < checkpoint)
    BY <2>2 DEF HostCrash
  <2>4. checkpoint \in Nat /\ Len(journal) \in Nat  BY Lengths DEF PipelineInv, FollowInv
  <2>5. ASSUME ~undone', NEW n \in 1..k  PROVE evidence'[n] = journal'[n]
    <3>1. n \in 1..Len(journal')  BY <1>2, <2>2, <2>3, <2>5
    <3> QED  BY <1>2, <2>2, <2>3, <2>5, <3>1 DEF FollowInv
  <2> QED  BY <1>1, <1>2, <2>2, <2>3, <2>4, <2>5 DEF FollowInv
<1> QED  BY <1>3, <1>4, <1>5, <1>6, <1>7

-----------------------------------------------------------------------------
(* The invariant, and what follows from it.                                *)

LEMMA JournalNext ==
    ASSUME PipelineInv, PipelineInv', JournalInv, [Next]_vars
    PROVE  JournalInv'
<1> USE DEF JournalInv
<1>1. CASE WorkerNext /\ UNCHANGED consumerVars
  BY <1>1, ShapeStep, FenceStep, TrackStep, OriginStep, FollowWorker
<1>2. CASE ConsumerNext
  <2>1. FollowInv'  BY <1>2, FollowConsumer
  <2>2. ShapeInv'  BY <1>2, ConsumerReads DEF ShapeInv
  <2>3. Hand' = Hand /\ Stored' = Stored
    BY <1>2, ConsumerReads, HandSame DEF Stored
  <2>4. FenceInv'  BY <1>2, <2>3, ConsumerReads DEF FenceInv, FenceOK
  <2>5. TrackInv'
    <3>1. Contents(Hand)' = Contents(Hand)  BY <2>3 DEF Contents
    <3>2. \A n : Found(n)' = Found(n)  BY <1>2, <3>1, ConsumerReads DEF Found
    <3> QED  BY <1>2, <3>2, ConsumerReads DEF TrackInv, Starting, Handling
  <2>6. OriginInv'
    BY <1>2, <2>3, ConsumerReads DEF OriginInv, SourceInv, IdentityInv, UniqueInv
  <2> QED  BY <2>1, <2>2, <2>4, <2>5, <2>6
<1>3. CASE HostCrash  BY <1>3, HostCrashKeeps
<1>4. CASE UNCHANGED vars
  <2>1. Hand' = Hand /\ Stored' = Stored
    BY <1>4, HandSame DEF vars, workerVars, memory, streamVars, streamFiles, Stored
  <2>2. Contents(Hand)' = Contents(Hand)  BY <2>1 DEF Contents
  <2>3. \A n : Found(n)' = Found(n)
    BY <1>4, <2>2 DEF vars, workerVars, memory, streamVars, streamFiles, Found
  <2>4. ShapeInv' /\ FollowInv'
    BY <1>4 DEF vars, workerVars, memory, streamVars, streamFiles, consumerVars, ShapeInv,
                FollowInv
  <2>5. FenceInv' /\ OriginInv'
    BY <1>4, <2>1 DEF vars, workerVars, memory, streamVars, streamFiles, FenceInv, FenceOK,
                      OriginInv, SourceInv, IdentityInv, UniqueInv
  <2>6. TrackInv'
    BY <1>4, <2>3 DEF vars, workerVars, memory, streamVars, streamFiles, TrackInv, Starting,
                      Handling
  <2> QED  BY <2>4, <2>5, <2>6
<1> QED  BY <1>1, <1>2, <1>3, <1>4 DEF Next

LEMMA JournalStart == Init => JournalInv
<1> SUFFICES ASSUME Init  PROVE JournalInv  OBVIOUS
<1> USE DEF Init, WorkerInit, StreamInit
<1>1. Hand = {}  BY NoneInEmpty DEF Hand, Idle
<1>2. ShapeInv /\ FenceInv  BY DEF ShapeInv, FenceInv, FenceOK, NoFence
<1>3. TrackInv  BY DEF TrackInv, Starting, Idle
<1>4. OriginInv
  BY <1>1 DEF OriginInv, SourceInv, IdentityInv, UniqueInv
<1>5. FollowInv  BY DEF FollowInv
<1> QED  BY <1>2, <1>3, <1>4, <1>5 DEF JournalInv

LEMMA JournalAlways == Spec => [](PipelineInv /\ JournalInv)
<1>1. Init => JournalInv  BY JournalStart
<1>2. PipelineInv /\ PipelineInv' /\ JournalInv /\ [Next]_vars => JournalInv'
  BY JournalNext
<1> QED  BY <1>1, <1>2, PipelineInvariant, PTL DEF Spec

\* The watermark, the index, the acknowledgements and the evidence log stay within
\* the files they are about, and what waits for the database are ticks
\* (TickStream.initialize, market_data_worker.py, execution_quality_worker.py).
THEOREM PipelineTypeCorrect == Spec => []TypeOK
<1>1. ASSUME PipelineInv, JournalInv  PROVE TypeOK
  <2>1. /\ journal \in Seq(Tick) /\ Len(journal) \in Nat /\ DOMAIN journal = 1..Len(journal)
        /\ synced \in 0..Len(journal) /\ index \in 0..synced /\ watermark \in 0..synced
        /\ acks \subseteq 1..synced
    BY <1>1, LenProperties DEF PipelineInv, StreamInv, AckInv
  <2>2. index \in 0..Len(journal) /\ watermark \in 0..Len(journal)
        /\ acks \subseteq DOMAIN journal
    BY <2>1
  <2> QED
    BY <1>1, <2>1, <2>2 DEF JournalInv, ShapeInv, FenceInv, FenceOK, FollowInv, TypeOK
<1> QED  BY <1>1, JournalAlways, PTL

\* No source event and no content is journaled twice, and no sequence is missing,
\* however groups are cut short, retried and received again (append_many,
\* _durably_ingest_batch): the journal can always be loaded again.
THEOREM JournalUnique == Spec => []TicksUnique
<1>1. ASSUME PipelineInv, JournalInv  PROVE TicksUnique
  <2>1. DOMAIN journal = 1..Len(journal) /\ \A n \in 1..Len(journal) : journal[n].seq = n
    BY <1>1, LenProperties DEF PipelineInv, StreamInv
  <2> QED  BY <1>1, <2>1 DEF JournalInv, OriginInv, UniqueInv, TicksUnique
<1> QED  BY <1>1, JournalAlways, PTL

\* The source fence, in its file, only moves to an envelope whose content a host
\* crash does not take back (_prepare_source_fence_batch,
\* _recover_prepared_source_fence).
THEOREM FenceBehindJournal == Spec => []FenceBacked
<1>1. JournalInv => FenceBacked
  BY DEF JournalInv, FenceInv, FenceOK, Stored, FenceBacked
<1> QED  BY <1>1, JournalAlways, PTL

\* Between two turns a journaled tick that is not acknowledged is queued for the
\* database, will be met again in the queue, or was forgotten by one of the two
\* retries that keep no record of it (_process_questdb_queue).
THEOREM NothingForgotten == Spec => []Tracked
<1>1. ASSUME PipelineInv, JournalInv, pc = "idle", NEW n \in Unacked
      PROVE  \/ n \in forgotten \/ journal[n] \in pending
             \/ journal[n].content \in Contents(ToSet(ingress))
  <2>1. n \in 1..index /\ n \notin acks  BY <1>1 DEF Unacked
  <2>2. turn = Idle /\ Found(n)
    BY <1>1, <2>1 DEF JournalInv, TrackInv, Starting, Handling
  <2>3. turn.prefix = {} /\ Hand = ToSet(ingress)
    BY <2>2, NoneInEmpty DEF Idle, Hand
  <2> QED  BY <2>2, <2>3 DEF Found
<1>2. PipelineInv /\ JournalInv => Tracked  BY <1>1 DEF Tracked
<1> QED  BY <1>2, JournalAlways, PTL

\* The evidence copies the journal, tick by tick and once each, ahead of the
\* checkpoint (process_one), until a host crash takes back what was read.
THEOREM EvidenceFollows == Spec => []EvidenceAnchored
<1>1. ASSUME PipelineInv, JournalInv, ~undone
      PROVE  IsPrefix(evidence, journal) /\ checkpoint <= Len(evidence)
  <2>1. /\ evidence \in Seq(Tick) /\ journal \in Seq(Tick)
        /\ Len(evidence) \in Nat /\ Len(evidence) <= Len(journal) /\ Len(journal) \in Nat
        /\ \A n \in 1..Len(evidence) : evidence[n] = journal[n]
        /\ checkpoint <= Len(evidence)
    BY <1>1, LenProperties DEF JournalInv, FollowInv, PipelineInv, StreamInv
  <2>2. SubSeq(evidence, 1, Len(evidence)) = evidence  BY <2>1, SubSeqFull
  <2>3. SubSeq(journal, 1, Len(evidence)) = evidence
    <3> DEFINE u == SubSeq(journal, 1, Len(evidence))
    <3>1. \A n \in 1..Len(evidence) : journal[n] \in Tick  BY <2>1, ElementOfSeq
    <3>2. u \in Seq(Tick) /\ Len(u) = Len(evidence) /\ \A n \in 1..Len(evidence) : u[n] = journal[n]
      BY <2>1, <3>1, SubSeqProperties
    <3> HIDE DEF u
    <3>3. \A n \in 1..Len(u) : u[n] = evidence[n]  BY <2>1, <3>2
    <3>4. u = evidence  BY <2>1, <3>2, <3>3, SeqEqual
    <3> QED  BY <3>4 DEF u
  <2> QED  BY <2>1, <2>2, <2>3 DEF IsPrefix
<1>2. PipelineInv /\ JournalInv => EvidenceAnchored  BY <1>1 DEF EvidenceAnchored
<1> QED  BY <1>2, JournalAlways, PTL

-----------------------------------------------------------------------------
(* What leaves the hands of the worker is journaled.                       *)

LEMMA SetOfThree ==
    ASSUME NEW s \in Seq(Envelope), NEW t \in Seq(Envelope), NEW u \in Seq(Envelope)
    PROVE  ToSet(s \o t \o u) = ToSet(t) \cup ToSet(u) \cup ToSet(s)
<1> DEFINE st == s \o t
<1>1. st \in Seq(Envelope) /\ ToSet(st) = ToSet(s) \cup ToSet(t)
  BY SetOfConcat, ConcatProperties
<1> HIDE DEF st
<1>2. ToSet(st \o u) = ToSet(st) \cup ToSet(u)  BY <1>1, SetOfConcat
<1> QED  BY <1>1, <1>2 DEF st

LEMMA IndexedJournaled ==
    ASSUME StreamInv
    PROVE  Contents(Indexed) \subseteq Contents(ToSet(journal))
<1>1. /\ index \in 0..Len(journal) /\ 1..index \subseteq 1..Len(journal)
  BY Lengths DEF StreamInv
<1>2. Indexed = {journal[n] : n \in 1..index}
  BY <1>1, FirstTicks DEF Indexed, StreamInv
<1>3. ToSet(journal) = {journal[n] : n \in 1..Len(journal)}
  BY SetOf DEF StreamInv
<1>4. Indexed \subseteq ToSet(journal)  BY <1>1, <1>2, <1>3
<1> QED  BY <1>4, ContentsOf

\* Among the ticks of a group is one for each of its envelopes.
LEMMA TickForEach ==
    ASSUME NEW b \in Seq(Envelope), watermark \in Nat, NEW c \in Contents(ToSet(b))
    PROVE  c \in Contents(TicksOf(b))
<1>1. CASE c \in Contents(Indexed)
  BY <1>1 DEF Contents, TicksOf
<1>2. CASE c \notin Contents(Indexed)
  <2>1. PICK m \in Fresh(b) : b[m].content = c  BY <1>2, OldOrFresh
  <2>2. PICK k \in 1..Len(Staged(b)) : Staged(b)[k].content = c
    BY <2>1, StagedType
  <2>3. Staged(b)[k] \in ToSet(Staged(b))  BY <2>2, StagedType, SetOf
  <2>4. Staged(b)[k] \in TicksOf(b)  BY <2>2, <2>3 DEF TicksOf
  <2> QED  BY <2>2, <2>4 DEF Contents
<1> QED  BY <1>1, <1>2

\* Only what was handled as durable, and what is handed over while no write of the
\* stream has failed, leaves the hands.
LEMMA LeavesJournaled ==
    ASSUME PipelineInv, TrackInv, WorkerNext, pc # "down", pc' # "down",
           ~(HandOver /\ (poisoned \/ recovered # TicksOf(turn.batch))),
           NEW e \in Hand, e \notin Hand'
    PROVE  e.content \in Contents(ToSet(journal))
<1>0. /\ turn.batch \in Seq(Envelope) /\ watermark \in Nat
      /\ ToSet(journal) = {journal[n] : n \in 1..Len(journal)}
  BY Lengths, SetOf DEF PipelineInv, WorkInv, StreamInv
<1>1. CASE Durable \/ DurableOne
  <2>1. pc = "durable"  BY <1>1 DEF Durable, DurableOne
  <2>2. Fresh(turn.batch) = {}  BY <2>1 DEF PipelineInv, GroupInv
  <2>3. e \in ToSet(turn.batch)  BY <1>1, HandDone
  <2>4. e.content \in Contents(ToSet(turn.batch))  BY <2>3 DEF Contents
  <2> QED  BY <1>0, <2>2, <2>4, OldContents, IndexedJournaled DEF PipelineInv
<1>2. CASE HandOver
  <2>1. ~poisoned /\ recovered = TicksOf(turn.batch)  BY <1>2
  <2>2. e \in ToSet(turn.batch)  BY <1>2, HandDone
  <2>3. e.content \in Contents(TicksOf(turn.batch))
    BY <1>0, <2>2, TickForEach DEF Contents
  <2>4. PICK t \in recovered : t.content = e.content  BY <2>1, <2>3 DEF Contents
  <2>5. Journaled(t)  BY <2>1, <2>4 DEF PipelineInv, HandInv
  <2>6. t \in ToSet(journal)  BY <1>0, <2>5 DEF Journaled
  <2> QED  BY <2>4, <2>6 DEF Contents
<1>3. CASE Draw \/ TrySingly \/ PutBack  BY <1>3, HandKept
<1>4. CASE Receive
  <2>1. Hand \subseteq Hand'
    BY <1>4, HandPolled, HandSame DEF Receive, PollFails, memory
  <2> QED  BY <2>1
<1>5. CASE UNCHANGED <<turn, ingress>>  BY <1>5, HandSame
<1>6. CASE Reject \/ Flush \/ ReplayWrite \/ ReplayDone
  BY <1>5, <1>6 DEF Reject, GroupUnchanged, Flush, FlushNothing, FlushWrite, FlushFails,
                    FlushCommitted, FlushUnchanged, ReplayWrite, ReplayDone, memory
<1>7. CASE Fencing \/ Journal \/ Mark \/ Ack \/ Replaying
  BY <1>5, <1>7, FencingStep DEF Journal, Mark, GroupUnchanged, Ack, FlushUnchanged,
                                 Replaying, ReplayAck, memory
<1>8. CASE Recover \/ Kill
  BY <1>8 DEF Recover, Kill, Die
<1> QED  BY <1>1, <1>2, <1>3, <1>4, <1>6, <1>7, <1>8, Kinds DEF Quiet

\* An envelope leaves the queue and the hands of a living worker only when its
\* content is journaled, through failed appends, single retries and envelopes put
\* back; the exceptions are those of HandOver (_process_questdb_queue).
THEOREM EnvelopesKept == Spec => NothingLost
<1> DEFINE Kept ==
      (pc # "down" /\ pc' # "down") =>
        \/ \A e \in InHand \ InHand' : e.content \in Contents(ToSet(journal'))
        \/ HandOver /\ (poisoned \/ recovered # TicksOf(turn.batch))
<1>1. ASSUME PipelineInv, PipelineInv', JournalInv, [Next]_vars  PROVE [Kept]_vars
  <2>1. InHand = Hand /\ InHand' = Hand'  
    <3>1. /\ ingress \in Seq(Envelope) /\ turn.batch \in Seq(Envelope)
          /\ turn.rest \in Seq(Envelope)
          /\ ingress' \in Seq(Envelope) /\ turn'.batch \in Seq(Envelope)
          /\ turn'.rest \in Seq(Envelope)
      BY <1>1 DEF PipelineInv, WorkInv
    <3> QED  BY <3>1, SetOfThree DEF InHand, Hand
  <2>2. CASE WorkerNext
    <3> SUFFICES ASSUME pc # "down", pc' # "down",
                        ~(HandOver /\ (poisoned \/ recovered # TicksOf(turn.batch))),
                        NEW e \in Hand, e \notin Hand'
                 PROVE  e.content \in Contents(ToSet(journal'))
      BY <2>1
    <3>1. e.content \in Contents(ToSet(journal))
      BY <1>1, <2>2, LeavesJournaled DEF JournalInv
    <3>2. /\ ToSet(journal) = {journal[n] : n \in 1..Len(journal)}
          /\ ToSet(journal') = {journal'[n] : n \in 1..Len(journal')}
      BY <1>1, SetOf DEF PipelineInv, StreamInv
    <3>3. Extends(journal', journal) /\ 1..Len(journal) \subseteq 1..Len(journal')
      BY <1>1, <2>2, WorkerExtends, Lengths DEF PipelineInv, Extends
    <3>4. ToSet(journal) \subseteq ToSet(journal')  BY <3>2, <3>3 DEF Extends
    <3> QED  BY <3>1, <3>4, ContentsOf
  <2>3. CASE ConsumerNext
    <3>1. Hand' = Hand  BY <2>3, ConsumerReads, HandSame
    <3> QED  BY <2>1, <3>1
  <2>4. CASE HostCrash  BY <2>4 DEF HostCrash, Die
  <2> QED  BY <1>1, <2>2, <2>3, <2>4 DEF Next
<1> HIDE DEF Kept
<1>2. Spec => [][Kept]_vars  BY <1>1, PipelineInvariant, JournalAlways, PTL DEF Spec
<1> QED  BY <1>2 DEF NothingLost, Kept

-----------------------------------------------------------------------------
(* The batch for the database has room for the group in hand.              *)

Size == Cardinality(pending) + Cardinality(turn.prefix) + Len(turn.batch) + Len(turn.rest)

\* The ticks that are set aside are those of the group that was just tried, or of
\* a single envelope.
BatchInv ==
    /\ IsFiniteSet(pending) /\ IsFiniteSet(turn.prefix) /\ IsFiniteSet(recovered)
    /\ Size <= BatchMax
    /\ turn.single => Len(turn.batch) = 1
    /\ \/ Cardinality(recovered) <= 1
       \/ pc = "raised" /\ ~turn.single /\ Cardinality(recovered) <= Len(turn.batch)

LEMMA UnionSize ==
    ASSUME NEW S, NEW T, IsFiniteSet(S), IsFiniteSet(T)
    PROVE  /\ IsFiniteSet(S \cup T) /\ Cardinality(S \cup T) <= Cardinality(S) + Cardinality(T)
           /\ Cardinality(S) \in Nat /\ Cardinality(T) \in Nat /\ Cardinality(S \cup T) \in Nat
<1>1. IsFiniteSet(S \cap T)  BY FS_Subset
<1>2. Cardinality(S \cap T) \in Nat  BY <1>1, FS_CardinalityType
<1>3. /\ IsFiniteSet(S \cup T)
      /\ Cardinality(S \cup T) = Cardinality(S) + Cardinality(T) - Cardinality(S \cap T)
  BY FS_Union
<1> QED  BY <1>2, <1>3, FS_CardinalityType

\* The ticks of a group differ in their contents.
LEMMA TicksApart ==
    ASSUME PipelineInv, UniqueInv, NEW b \in Seq(Envelope),
           NEW t \in TicksOf(b), NEW u \in TicksOf(b), t.content = u.content
    PROVE  t = u
<1>0. /\ watermark \in Nat /\ index \in 0..Len(journal) /\ 1..index \subseteq 1..Len(journal)
  BY Lengths DEF PipelineInv, StreamInv
<1>1. Indexed = {journal[n] : n \in 1..index}
  BY <1>0, FirstTicks DEF Indexed, PipelineInv, StreamInv
<1>2. ToSet(Staged(b)) = {Staged(b)[k] : k \in 1..Len(Staged(b))}
  BY <1>0, StagedType, SetOf
<1>3. CASE t \in Indexed /\ u \in Indexed
  BY <1>0, <1>1, <1>3 DEF UniqueInv
<1>4. ASSUME NEW s \in ToSet(Staged(b))
      PROVE  \E k \in 1..Len(Staged(b)), i \in Fresh(b) :
                s = Staged(b)[k] /\ Rank(i, Fresh(b)) = k /\ s.content = b[i].content
  <2>1. PICK k \in 1..Len(Staged(b)) : s = Staged(b)[k]  BY <1>2
  <2> QED  BY <1>0, <2>1, StagedFrom
<1>5. ASSUME NEW s \in ToSet(Staged(b)), NEW v \in Indexed  PROVE s.content # v.content
  <2>1. PICK i \in Fresh(b) : s.content = b[i].content  BY <1>4
  <2>2. b[i].content \notin Contents(Indexed)  BY DEF Fresh
  <2>3. v.content \in Contents(Indexed)  BY DEF Contents
  <2> QED  BY <2>1, <2>2, <2>3
<1>6. CASE t \in ToSet(Staged(b)) /\ u \in ToSet(Staged(b))
  <2>1. PICK k \in 1..Len(Staged(b)), i \in Fresh(b) :
            t = Staged(b)[k] /\ Rank(i, Fresh(b)) = k /\ t.content = b[i].content
    BY <1>4, <1>6
  <2>2. PICK l \in 1..Len(Staged(b)), j \in Fresh(b) :
            u = Staged(b)[l] /\ Rank(j, Fresh(b)) = l /\ u.content = b[j].content
    BY <1>4, <1>6
  <2>3. i \in Nat \ {0} /\ j \in Nat \ {0}  BY FreshType
  <2>4. ~(i < j) /\ ~(j < i)  BY <2>1, <2>2, <2>3 DEF Fresh
  <2>5. i = j  BY <2>3, <2>4
  <2> QED  BY <2>1, <2>2, <2>5
<1> QED  BY <1>3, <1>5, <1>6 DEF TicksOf

\* A group has at most one tick for each of its envelopes.
LEMMA SizeOfTicks ==
    ASSUME PipelineInv, UniqueInv, NEW b \in Seq(Envelope)
    PROVE  /\ IsFiniteSet(TicksOf(b)) /\ Cardinality(TicksOf(b)) <= Len(b)
           /\ Cardinality(TicksOf(b)) \in Nat /\ Len(b) \in Nat
<1> DEFINE at(t) == CHOOSE i \in 1..Len(b) : b[i].content = t.content
           f == [t \in TicksOf(b) |-> at(t)]
<1>1. /\ ToSet(b) = {b[i] : i \in 1..Len(b)} /\ Len(b) \in Nat
  BY SetOf
<1>2. ASSUME NEW t \in TicksOf(b)  PROVE at(t) \in 1..Len(b) /\ b[at(t)].content = t.content
  <2>1. \E i \in 1..Len(b) : b[i].content = t.content
    BY <1>1 DEF TicksOf, Contents
  <2> QED  BY <2>1
<1> HIDE DEF at
<1>3. f \in [TicksOf(b) -> 1..Len(b)]  BY <1>2
<1>4. \A t, u \in TicksOf(b) : f[t] = f[u] => t = u
  <2> SUFFICES ASSUME NEW t \in TicksOf(b), NEW u \in TicksOf(b), at(t) = at(u)
               PROVE  t = u
    OBVIOUS
  <2>1. t.content = u.content  BY <1>2
  <2> QED  BY <2>1, TicksApart
<1>5. f \in Injection(TicksOf(b), 1..Len(b))
  BY <1>3, <1>4 DEF Injection, IsInjective
<1>6. IsFiniteSet(1..Len(b)) /\ Cardinality(1..Len(b)) = Len(b)  BY <1>1, FS_Interval
<1>7. IsFiniteSet(TicksOf(b)) /\ Cardinality(TicksOf(b)) <= Len(b)
  BY <1>5, <1>6, FS_Injection
<1> QED  BY <1>1, <1>7, FS_CardinalityType

LEMMA SizeType ==
    ASSUME PipelineInv, BatchInv
    PROVE  /\ Cardinality(pending) \in Nat /\ Cardinality(turn.prefix) \in Nat
           /\ Cardinality(recovered) \in Nat
           /\ turn.batch \in Seq(Envelope) /\ turn.rest \in Seq(Envelope)
           /\ Len(turn.batch) \in Nat /\ Len(turn.rest) \in Nat /\ BatchMax \in Nat \ {0}
BY FS_CardinalityType, LenProperties, MarketAssumption DEF PipelineInv, WorkInv, BatchInv

\* When the group is done with and its ticks, or some, are queued.
LEMMA BatchDone ==
    ASSUME PipelineInv, BatchInv, turn' = Idle,
           IsFiniteSet(recovered'), Cardinality(recovered') <= 1,
           NEW T, IsFiniteSet(T),
           Cardinality(T) <= Cardinality(turn.prefix) + Len(turn.batch),
           pending' = pending \cup T
    PROVE  BatchInv'
<1>1. /\ turn'.prefix = {} /\ turn'.batch = <<>> /\ turn'.rest = <<>> /\ ~turn'.single
  BY DEF Idle
<1>2. /\ IsFiniteSet(pending') /\ IsFiniteSet({}) /\ Cardinality({}) = 0
      /\ Cardinality(pending') <= Cardinality(pending) + Cardinality(T)
      /\ Cardinality(pending') \in Nat /\ Cardinality(T) \in Nat
  BY UnionSize, FS_EmptySet DEF BatchInv
<1>3. Size' = Cardinality(pending')
  <2>1. Cardinality(turn'.prefix) = 0 /\ Len(turn'.batch) = 0 /\ Len(turn'.rest) = 0
    BY <1>1, <1>2
  <2> QED  BY <1>2, <2>1 DEF Size
<1>4. Size' <= BatchMax  BY <1>2, <1>3, SizeType DEF BatchInv, Size
<1> QED  BY <1>1, <1>2, <1>4 DEF BatchInv

LEMMA BatchSame ==
    ASSUME BatchInv, UNCHANGED <<pending, turn, recovered>>, pc # "raised"
    PROVE  BatchInv'
BY DEF BatchInv, Size

LEMMA BatchStep ==
    ASSUME PipelineInv, TrackInv, UniqueInv, BatchInv, WorkerNext
    PROVE  BatchInv'
<1> USE SizeType
<1>0. IsFiniteSet({}) /\ Cardinality({}) = 0  BY FS_EmptySet
<1>1. CASE Draw
  <2>1. turn = Idle /\ pc # "raised"  BY <1>1 DEF Draw, TrackInv, Handling
  <2>2. PICK n \in 1..Len(ingress) :
            /\ n <= Room
            /\ turn' = [Idle EXCEPT !.batch = SubSeq(ingress, 1, n)]
    BY <1>1 DEF Draw
  <2>3. Len(SubSeq(ingress, 1, n)) = n /\ n \in Nat
    <3>1. \A i \in 1..n : ingress[i] \in Envelope
      BY LenProperties, ElementOfSeq DEF PipelineInv, WorkInv
    <3> QED  BY <3>1, LenProperties, SubSeqProperties DEF PipelineInv, WorkInv
  <2>4. /\ turn'.prefix = {} /\ Len(turn'.batch) = n /\ Len(turn'.rest) = 0
        /\ ~turn'.single
    BY <2>2, <2>3 DEF Idle
  <2>5. pending' = pending /\ recovered' = recovered  BY <1>1 DEF Draw
  <2>6. Size' = Cardinality(pending) + n
    BY <1>0, <2>3, <2>4, <2>5 DEF Size
  <2>7. Size' <= BatchMax  BY <2>2, <2>3, <2>6 DEF Room
  <2> QED  BY <1>0, <2>1, <2>4, <2>5, <2>7 DEF BatchInv
<1>2. CASE TrySingly
  <2>1. /\ turn.prefix = {} /\ turn.batch # <<>> /\ turn.rest = <<>> /\ recovered = {}
        /\ turn'.batch = <<Head(turn.batch)>> /\ turn'.rest = Tail(turn.batch)
        /\ turn'.prefix = {} /\ UNCHANGED <<pending, recovered>>
    BY <1>2 DEF TrySingly, TrackInv, One, PipelineInv, WorkInv, Handling
  <2>2. Len(turn'.batch) = 1 /\ Len(turn'.rest) = Len(turn.batch) - 1 /\ Len(turn.rest) = 0
    BY <2>1, HeadTailProperties
  <2>3. Size' = Size  BY <1>0, <2>1, <2>2 DEF Size
  <2> QED  BY <1>0, <2>1, <2>2, <2>3 DEF BatchInv
<1>3. CASE DurableOne
  <2>1. /\ pc = "durable" /\ turn.single /\ Len(turn.batch) = 1
        /\ UNCHANGED <<pending, recovered>> /\ Cardinality(recovered) <= 1
    BY <1>3 DEF DurableOne, BatchInv
  <2>2. CASE turn.rest = <<>>
    <3>1. turn' = Idle /\ pending' = pending \cup {}
      BY <1>3, <2>1, <2>2 DEF DurableOne
    <3>2. IsFiniteSet(recovered') /\ Cardinality(recovered') <= 1
      BY <2>1 DEF BatchInv
    <3> QED  BY <1>0, <3>1, <3>2, BatchDone
  <2>3. CASE turn.rest # <<>>
    <3> DEFINE prefix == turn.prefix \cup TicksOf(turn.batch)
    <3>a. turn' = One(turn.rest, turn.prefix \cup TicksOf(turn.batch))
      BY <1>3, <2>3 DEF DurableOne
    <3>1. /\ turn'.batch = <<Head(turn.rest)>> /\ turn'.rest = Tail(turn.rest)
          /\ turn'.prefix = prefix
      BY <3>a DEF One
    <3>2. /\ IsFiniteSet(prefix) /\ Cardinality(prefix) \in Nat
          /\ Cardinality(prefix) <= Cardinality(turn.prefix) + 1
      <4>1. /\ IsFiniteSet(TicksOf(turn.batch)) /\ Cardinality(TicksOf(turn.batch)) <= 1
            /\ Cardinality(TicksOf(turn.batch)) \in Nat
        BY <2>1, SizeOfTicks
      <4>2. IsFiniteSet(turn.prefix)  BY DEF BatchInv
      <4>3. /\ IsFiniteSet(prefix) /\ Cardinality(prefix) \in Nat
            /\ Cardinality(prefix) <= Cardinality(turn.prefix) + Cardinality(TicksOf(turn.batch))
        BY <4>1, <4>2, UnionSize
      <4> HIDE DEF prefix
      <4> QED  BY <4>1, <4>3
    <3>3. Len(turn'.batch) = 1 /\ Len(turn'.rest) = Len(turn.rest) - 1
      BY <2>3, <3>1, HeadTailProperties
    <3> HIDE DEF prefix
    <3>4. Size' <= Size  BY <2>1, <3>1, <3>2, <3>3 DEF Size
    <3>5. Size' \in Int /\ Size \in Int  BY <2>1, <3>1, <3>2, <3>3 DEF Size
    <3> QED  BY <2>1, <3>1, <3>2, <3>3, <3>4, <3>5 DEF BatchInv
  <2> QED  BY <2>2, <2>3
<1>4. CASE Durable
  <2>1. /\ turn' = Idle /\ recovered' = recovered /\ pending' = pending \cup TicksOf(turn.batch)
        /\ IsFiniteSet(recovered) /\ Cardinality(recovered) <= 1
    BY <1>4 DEF Durable, BatchInv
  <2>2. /\ IsFiniteSet(TicksOf(turn.batch))
        /\ Cardinality(TicksOf(turn.batch)) <= Cardinality(turn.prefix) + Len(turn.batch)
    BY SizeOfTicks
  <2> QED  BY <2>1, <2>2, BatchDone
<1>5. CASE HandOver
  <2>1. /\ turn' = Idle /\ recovered' = {} /\ pending' = pending \cup recovered
        /\ turn.batch # <<>> /\ IsFiniteSet(recovered)
    BY <1>5 DEF HandOver, BatchInv, PipelineInv, WorkInv, Handling
  <2>2. Len(turn.batch) >= 1  BY <2>1, EmptySeq
  <2>3. Cardinality(recovered) <= Cardinality(turn.prefix) + Len(turn.batch)
    BY <2>2 DEF BatchInv
  <2>4. IsFiniteSet(recovered') /\ Cardinality(recovered') <= 1  BY <1>0, <2>1
  <2> QED  BY <2>1, <2>3, <2>4, BatchDone
<1>6. CASE PutBack
  <2>1. /\ turn' = Idle /\ recovered' = recovered /\ pending' = pending \cup turn.prefix
        /\ turn.single /\ IsFiniteSet(turn.prefix)
    BY <1>6 DEF PutBack, BatchInv
  <2>2. IsFiniteSet(recovered) /\ Cardinality(recovered) <= 1
    BY <2>1 DEF BatchInv
  <2>3. Cardinality(turn.prefix) <= Cardinality(turn.prefix) + Len(turn.batch)
    OBVIOUS
  <2>4. IsFiniteSet(recovered') /\ Cardinality(recovered') <= 1  BY <2>1, <2>2
  <2> QED  BY <2>1, <2>3, <2>4, BatchDone
<1>7. CASE Resolve
  <2>1. /\ UNCHANGED <<pending, turn>> /\ pc = "resolve" /\ pc' = "raised"
        /\ recovered' \in {recovered, TicksOf(turn.batch)}
    BY <1>7 DEF Resolve, Goto
  <2>2. IsFiniteSet(TicksOf(turn.batch)) /\ Cardinality(TicksOf(turn.batch)) <= Len(turn.batch)
    BY SizeOfTicks
  <2> QED  BY <2>1, <2>2 DEF BatchInv, Size
<1>8. CASE Settle \/ Advance \/ Prepare \/ Finalize \/ RecoverFence \/ Journal \/ Mark \/ Reject
  <2>1. UNCHANGED <<pending, turn, recovered>> /\ pc # "raised"
    BY <1>8 DEF Settle, Advance, Prepare, Finalize, RecoverFence, Journal, Mark, Reject,
                Staging, GroupUnchanged
  <2> QED  BY <2>1, BatchSame
<1>9. CASE Receive \/ FlushWrite \/ FlushFails \/ FlushCommitted \/ ReplayWrite \/ ReplayDone
           \/ Replaying
  <2>1. UNCHANGED <<pending, turn, recovered>> /\ pc # "raised"
    BY <1>9 DEF Receive, Poll, PollFails, FlushWrite, FlushFails, FlushCommitted, Flushing,
                FlushUnchanged, ReplayWrite, ReplayDone, Replaying, ReplayAck, memory
  <2> QED  BY <2>1, BatchSame
<1>10. CASE FlushNothing \/ Ack \/ Recover \/ Kill
  <2>1. turn' = Idle /\ pending' \in {{}, pending} /\ recovered' \in {{}, recovered}
        /\ (recovered' = {} \/ pc # "raised")
    BY <1>10 DEF FlushNothing, Ack, Flushing, FlushUnchanged, Recover, Kill, Die, TrackInv,
                 Handling
  <2>2. Cardinality(pending') <= Size /\ IsFiniteSet(pending') /\ Size \in Nat
        /\ Cardinality(pending') \in Nat
    <3>1. Size \in Nat /\ Cardinality(pending) <= Size /\ 0 <= Size  BY DEF Size
    <3>2. CASE pending' = pending  BY <3>1, <3>2 DEF BatchInv
    <3>3. CASE pending' = {}  BY <1>0, <3>1, <3>3
    <3> QED  BY <2>1, <3>2, <3>3
  <2>3. Size' = Cardinality(pending') /\ turn'.prefix = {} /\ ~turn'.single
    BY <1>0, <2>1, <2>2 DEF Size, Idle
  <2>4. IsFiniteSet(recovered') /\ Cardinality(recovered') <= 1
    <3>1. CASE recovered' = {}  BY <1>0, <3>1
    <3>2. CASE recovered' = recovered /\ pc # "raised"  BY <3>2 DEF BatchInv
    <3> QED  BY <2>1, <3>1, <3>2
  <2> QED  BY <1>0, <2>2, <2>3, <2>4 DEF BatchInv
<1> QED
  BY <1>1, <1>2, <1>3, <1>4, <1>5, <1>6, <1>7, <1>8, <1>9, <1>10, Kinds
  DEF Quiet, Fencing, Flush

\* The batch for the database, with the group in hand, stays within the size that
\* an acknowledgement accepts, however many groups fail and are handed over
\* (_process_questdb_queue, acknowledge_tick_writes).
THEOREM BatchWithinLimit == Spec => []BatchFits
<1>1. ASSUME PipelineInv, BatchInv  PROVE BatchFits
  <2>1. Cardinality(pending \cup turn.prefix) <= Cardinality(pending) + Cardinality(turn.prefix)
        /\ Cardinality(pending \cup turn.prefix) \in Nat
    BY <1>1, UnionSize DEF BatchInv
  <2>2. Len(turn.batch \o turn.rest) = Len(turn.batch) + Len(turn.rest)
    BY <1>1, SizeType, ConcatProperties
  <2>3. /\ Cardinality(pending) \in Nat /\ Cardinality(turn.prefix) \in Nat
        /\ Len(turn.batch) \in Nat /\ Len(turn.rest) \in Nat /\ BatchMax \in Nat
        /\ Size <= BatchMax
    BY <1>1, SizeType DEF BatchInv
  <2>4. \A a, b, c, d, m, t \in Nat :
          a + b + c + d <= m /\ t <= a + b => t + (c + d) <= m
    OBVIOUS
  <2>5. Cardinality(pending \cup turn.prefix) + (Len(turn.batch) + Len(turn.rest)) <= BatchMax
    BY <2>1, <2>3, <2>4 DEF Size
  <2> QED  BY <2>2, <2>5 DEF BatchFits
<1>2. Init => BatchInv
  <2>1. Cardinality({}) = 0 /\ IsFiniteSet({})  BY FS_EmptySet
  <2> QED  BY <2>1, MarketAssumption DEF Init, WorkerInit, Idle, BatchInv, Size
<1>3. ASSUME PipelineInv, JournalInv, BatchInv, [Next]_vars  PROVE BatchInv'
  <2>1. CASE WorkerNext
    BY <1>3, <2>1, BatchStep DEF JournalInv, OriginInv
  <2>2. CASE ConsumerNext
    <3>1. UNCHANGED <<pending, turn, recovered, pc>>  BY <2>2, ConsumerReads
    <3> QED  BY <1>3, <3>1 DEF BatchInv, Size
  <2>3. CASE HostCrash
    <3>1. pending' = {} /\ recovered' = {} /\ turn' = Idle
      BY <2>3 DEF HostCrash, Die
    <3>2. Cardinality({}) = 0 /\ IsFiniteSet({})  BY FS_EmptySet
    <3> QED  BY <3>1, <3>2, MarketAssumption DEF BatchInv, Size, Idle
  <2>4. CASE UNCHANGED vars
    BY <1>3, <2>4 DEF vars, workerVars, memory, BatchInv, Size
  <2> QED  BY <1>3, <2>1, <2>2, <2>3, <2>4 DEF Next
<1> QED  BY <1>1, <1>2, <1>3, JournalAlways, PTL DEF Spec
=============================================================================
