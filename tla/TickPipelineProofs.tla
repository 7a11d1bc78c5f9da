------------------------- MODULE TickPipelineProofs -------------------------
(***************************************************************************)
(* The tick pipeline for any batch size, any contents and any number of    *)
(* faults: the watermark never points past what a host crash keeps, and    *)
(* what is acknowledged is stored.                                         *)
(***************************************************************************)
EXTENDS TickPipeline, FiniteSetTheorems, SequenceTheorems, TLAPS

Envelope == [seq : 1..MaxSeq, content : Content]

\* The steps of a start, before the source is bound.
Starting == pc \in {"down", "fence", "replay"}

\* The steps with a group in hand.
Handling ==
    pc \in {"stage", "append", "mark", "finalize", "durable", "resolve", "raised"}

\* t is the tick at its place in the journal.
Journaled(t) == t.seq \in 1..Len(journal) /\ journal[t.seq] = t

\* The files of the stream and the producer's index: while no write has failed
\* the index is the whole journal, and the watermark too, but for one step.
StreamInv ==
    /\ journal \in Seq(Tick)
    /\ \A n \in 1..Len(journal) : journal[n].seq = n
    /\ synced \in 0..Len(journal)
    /\ index \in 0..synced /\ watermark \in 0..synced
    /\ pc # "down" /\ ~poisoned => index = Len(journal)
    /\ pc \notin {"down", "mark"} /\ ~poisoned => watermark = index
    /\ pc \in {"append", "mark", "finalize"} => ~poisoned

\* What the worker has in hand has its type, and nothing is in hand at a start.
WorkInv ==
    /\ source \in Nat \ {0} /\ cursor \in Nat
    /\ ingress \in Seq(Envelope)
    /\ turn \in [batch : Seq(Envelope), rest : Seq(Envelope), single : BOOLEAN,
                 prefix : SUBSET Tick]
    /\ Handling => turn.batch # <<>>
    /\ Starting => pending = {} /\ recovered = {} /\ turn.prefix = {}

\* While no write of the stream has failed, the ticks in hand are journaled.
HandInv ==
    ~poisoned => \A t \in pending \cup recovered \cup turn.prefix : Journaled(t)

\* The group in hand is in the journal when it is handled as durable.
GroupInv ==
    pc \in {"mark", "finalize", "durable"} \/ (pc = "resolve" /\ ~poisoned)
        => Fresh(turn.batch) = {}

\* Committed means in the database, and is remembered until the acknowledgement.
RowsInv ==
    /\ committed => pc \in {"idle", "ack"} /\ Unwritten \subseteq rows
    /\ pc = "ack" => committed

AckInv == acks \subseteq 1..synced /\ \A n \in acks : journal[n] \in rows

PipelineInv == StreamInv /\ WorkInv /\ HandInv /\ GroupInv /\ RowsInv /\ AckInv

-----------------------------------------------------------------------------
(* Ranks.                                                                  *)

\* The place of a number among the numbers of a finite set.
LEMMA RankType ==
    ASSUME NEW S \in SUBSET Nat, IsFiniteSet(S), NEW n \in S
    PROVE  Rank(n, S) \in 1..Cardinality(S)
<1> DEFINE T == {m \in S : m <= n}
<1>1. IsFiniteSet(T) /\ Cardinality(T) <= Cardinality(S)  BY FS_Subset
<1>2. Cardinality(T) \in Nat /\ Cardinality(S) \in Nat  BY <1>1, FS_CardinalityType
<1>3. n \in T  OBVIOUS
<1>4. Cardinality(T) # 0  BY <1>1, <1>3, FS_EmptySet
<1> QED  BY <1>1, <1>2, <1>4 DEF Rank

\* Different numbers have different places.
LEMMA RankInjective ==
    ASSUME NEW S \in SUBSET Nat, IsFiniteSet(S), NEW m \in S, NEW n \in S,
           Rank(m, S) = Rank(n, S)
    PROVE  m = n
<1>1. ASSUME NEW a \in S, NEW b \in S, a < b  PROVE  Rank(a, S) # Rank(b, S)
  <2> DEFINE A == {k \in S : k <= a}
             B == {k \in S : k <= b}
  <2>1. a \in Nat /\ b \in Nat /\ \A k \in S : k \in Nat  OBVIOUS
  <2>2. ASSUME NEW k \in A  PROVE k \in B  BY <1>1, <2>1
  <2>3. b \in B /\ b \notin A  BY <1>1, <2>1
  <2>4. IsFiniteSet(B)  BY FS_Subset
  <2>5. Cardinality(B) # Cardinality(A)  BY <2>2, <2>3, <2>4, FS_Subset
  <2> QED  BY <2>5 DEF Rank
<1>2. m \in Nat /\ n \in Nat  OBVIOUS
<1> QED  BY <1>1, <1>2

\* Every place is taken.
LEMMA RankOnto ==
    ASSUME NEW S \in SUBSET Nat, IsFiniteSet(S), NEW k \in 1..Cardinality(S)
    PROVE  \E n \in S : Rank(n, S) = k
<1> DEFINE c == Cardinality(S)
           f == [n \in S |-> Rank(n, S)]
<1>1. c \in Nat  BY FS_CardinalityType
<1>2. IsFiniteSet(1..c) /\ Cardinality(1..c) = c  BY <1>1, FS_Interval
<1>3. f \in [S -> 1..c]  BY RankType
<1>4. \A m, n \in S : f[m] = f[n] => m = n  BY RankInjective
<1>5. f \in Injection(S, 1..c)  BY <1>3, <1>4 DEF Injection, IsInjective
<1>6. f \in Surjection(S, 1..c)  BY <1>2, <1>5, FS_Injection
<1> QED  BY <1>6 DEF Surjection

-----------------------------------------------------------------------------
(* A group and its ticks.                                                  *)

LEMMA FreshType ==
    ASSUME NEW b \in Seq(Envelope)
    PROVE  /\ Fresh(b) \subseteq 1..Len(b) /\ Fresh(b) \in SUBSET Nat
           /\ IsFiniteSet(Fresh(b)) /\ Cardinality(Fresh(b)) \in Nat
<1>1. Len(b) \in Nat /\ DOMAIN b = 1..Len(b)  BY LenProperties
<1>2. Fresh(b) \subseteq 1..Len(b)  BY <1>1 DEF Fresh
<1>3. IsFiniteSet(1..Len(b))  BY <1>1, FS_Interval
<1>4. IsFiniteSet(Fresh(b))  BY <1>2, <1>3, FS_Subset
<1> QED  BY <1>1, <1>2, <1>4, FS_CardinalityType

\* The new ticks continue the numbering from the watermark, one for each fresh
\* envelope.
LEMMA StagedType ==
    ASSUME NEW b \in Seq(Envelope), watermark \in Nat
    PROVE  /\ Staged(b) \in Seq(Tick)
           /\ Len(Staged(b)) = Cardinality(Fresh(b))
           /\ \A k \in 1..Len(Staged(b)) : Staged(b)[k].seq = watermark + k
           /\ \A i \in Fresh(b) : \E k \in 1..Len(Staged(b)) :
                 Staged(b)[k].content = b[i].content
<1> DEFINE c == Cardinality(Fresh(b))
           at(k) == CHOOSE i \in Fresh(b) : Rank(i, Fresh(b)) = k
<1>1. c \in Nat /\ IsFiniteSet(Fresh(b)) /\ Fresh(b) \in SUBSET Nat
      /\ Fresh(b) \subseteq 1..Len(b)
  BY FreshType
<1>2. ASSUME NEW k \in 1..c  PROVE at(k) \in Fresh(b) /\ Rank(at(k), Fresh(b)) = k
  BY <1>1, RankOnto
<1>3. ASSUME NEW k \in 1..c  PROVE b[at(k)] \in Envelope
  BY <1>1, <1>2, ElementOfSeq
<1>4. Staged(b) = [k \in 1..c |->
          [seq |-> watermark + k, event |-> b[at(k)].seq, content |-> b[at(k)].content]]
  BY DEF Staged
<1>5. ASSUME NEW k \in 1..c  PROVE Staged(b)[k] \in Tick
  <2>1. b[at(k)].seq \in 1..MaxSeq /\ b[at(k)].content \in Content
    BY <1>3 DEF Envelope
  <2>2. watermark + k \in Nat  BY <1>1
  <2> HIDE DEF at
  <2> QED  BY <1>4, <2>1, <2>2 DEF Tick
<1>6. Staged(b) \in [1..c -> Tick]  BY <1>4, <1>5
<1>7. Staged(b) \in Seq(Tick) /\ Len(Staged(b)) = c  BY <1>1, <1>6
<1>8. \A k \in 1..c : Staged(b)[k].seq = watermark + k
                      /\ Staged(b)[k].content = b[at(k)].content
  BY <1>4
<1>9. ASSUME NEW i \in Fresh(b)
      PROVE  \E k \in 1..c : Staged(b)[k].content = b[i].content
  <2>1. Rank(i, Fresh(b)) \in 1..c  BY <1>1, RankType
  <2>2. at(Rank(i, Fresh(b))) = i  BY <1>1, <1>2, <2>1, RankInjective
  <2> QED  BY <1>8, <2>1, <2>2
<1> QED  BY <1>7, <1>8, <1>9

\* The first m ticks of a sequence, and their contents.
LEMMA FirstTicks ==
    ASSUME NEW s \in Seq(Tick), NEW m \in 0..Len(s)
    PROVE  /\ ToSet(SubSeq(s, 1, m)) = {s[n] : n \in 1..m}
           /\ Contents(ToSet(SubSeq(s, 1, m))) = {s[n].content : n \in 1..m}
<1> DEFINE u == SubSeq(s, 1, m)
<1>1. Len(s) \in Nat  BY LenProperties
<1>2. \A n \in 1..m : s[n] \in Tick  BY <1>1, ElementOfSeq
<1>3. u \in Seq(Tick) /\ Len(u) = m /\ \A n \in 1..m : u[n] = s[n]
  BY <1>1, <1>2, SubSeqProperties
<1>4. DOMAIN u = 1..m  BY <1>3, LenProperties
<1> HIDE DEF u
<1>5. ToSet(u) = {s[n] : n \in 1..m}  BY <1>3, <1>4 DEF ToSet
<1>6. Contents(ToSet(u)) = {s[n].content : n \in 1..m}  BY <1>5 DEF Contents
<1> QED  BY <1>5, <1>6 DEF u

\* Without fresh envelopes a group stands for ticks that are journaled.
LEMMA OldTicks ==
    ASSUME StreamInv, NEW b \in Seq(Envelope), Fresh(b) = {}, NEW t \in TicksOf(b)
    PROVE  t \in Tick /\ Journaled(t)
<1>1. watermark \in Nat  BY LenProperties DEF StreamInv
<1>2. Len(Staged(b)) = 0 /\ Staged(b) \in Seq(Tick)
  BY <1>1, StagedType, FS_EmptySet
<1>3. ToSet(Staged(b)) = {}  BY <1>2, LenProperties DEF ToSet
<1>4. PICK n \in 1..index : t = journal[n]
  <2>1. index \in 0..Len(journal)  BY LenProperties DEF StreamInv
  <2> QED  BY <1>3, <2>1, FirstTicks DEF TicksOf, Indexed, StreamInv
<1>5. n \in 1..Len(journal) /\ journal[n] \in Tick
  BY <1>4, LenProperties, ElementOfSeq DEF StreamInv
<1> QED  BY <1>4, <1>5 DEF Journaled, StreamInv

-----------------------------------------------------------------------------
(* Growing and shrinking the journal.                                      *)

\* next is now with more ticks, numbered on.
Extends(next, now) ==
    /\ next \in Seq(Tick) /\ Len(next) \in Nat /\ Len(now) <= Len(next)
    /\ \A n \in 1..Len(now) : next[n] = now[n]
    /\ \A n \in 1..Len(next) : next[n].seq = n

LEMMA ConcatExtends ==
    ASSUME journal \in Seq(Tick), \A n \in 1..Len(journal) : journal[n].seq = n,
           NEW t \in Seq(Tick), \A k \in 1..Len(t) : t[k].seq = Len(journal) + k
    PROVE  /\ Extends(journal \o t, journal)
           /\ Len(journal \o t) = Len(journal) + Len(t)
           /\ \A k \in 1..Len(t) : (journal \o t)[Len(journal) + k] = t[k]
<1>1. Len(journal) \in Nat /\ Len(t) \in Nat  BY LenProperties
<1>2. /\ journal \o t \in Seq(Tick) /\ Len(journal \o t) = Len(journal) + Len(t)
      /\ \A i \in 1..Len(journal) + Len(t) :
            (journal \o t)[i] =
                IF i <= Len(journal) THEN journal[i] ELSE t[i - Len(journal)]
  BY ConcatProperties
<1>3. \A k \in 1..Len(t) : (journal \o t)[Len(journal) + k] = t[k]
  BY <1>1, <1>2
<1>4. ASSUME NEW n \in 1..Len(journal \o t)  PROVE (journal \o t)[n].seq = n
  <2>1. CASE n <= Len(journal)  BY <1>1, <1>2, <2>1
  <2>2. CASE n > Len(journal)
    <3>1. n - Len(journal) \in 1..Len(t)  BY <1>1, <1>2, <2>2
    <3>2. t[n - Len(journal)].seq = n  BY <1>1, <3>1
    <3> QED  BY <1>1, <1>2, <2>2, <3>2
  <2> QED  BY <1>1, <1>2, <2>1, <2>2
<1> QED  BY <1>1, <1>2, <1>3, <1>4 DEF Extends

\* A failed or interrupted append leaves a longer journal, numbered on.
LEMMA CutExtends ==
    ASSUME StreamInv, WorkInv, pc = "append", AppendCut(Staged(turn.batch))
    PROVE  Extends(journal', journal)
<1> DEFINE s == Staged(turn.batch)
<1>1. watermark = Len(journal) /\ Len(journal) \in Nat
  BY LenProperties DEF StreamInv
<1>2. s \in Seq(Tick) /\ \A k \in 1..Len(s) : s[k].seq = Len(journal) + k
  BY <1>1, StagedType DEF WorkInv
<1> HIDE DEF s
<1>3. PICK k \in 0..Len(s) : journal' = journal \o SubSeq(s, 1, k)
  BY DEF AppendCut, s
<1>4. Len(s) \in Nat /\ \A i \in 1..k : s[i] \in Tick
  BY <1>2, LenProperties, ElementOfSeq
<1>5. /\ SubSeq(s, 1, k) \in Seq(Tick) /\ Len(SubSeq(s, 1, k)) = k
      /\ \A i \in 1..k : SubSeq(s, 1, k)[i] = s[i]
  BY <1>4, SubSeqProperties
<1>6. \A i \in 1..k : SubSeq(s, 1, k)[i].seq = Len(journal) + i
  BY <1>2, <1>4, <1>5
<1> QED  BY <1>3, <1>5, <1>6, ConcatExtends DEF StreamInv

\* A group that is appended is numbered on, and nothing in it is fresh any more.
LEMMA AppendExtends ==
    ASSUME StreamInv, WorkInv, pc = "append", AppendGroup(Staged(turn.batch)),
           UNCHANGED turn
    PROVE  Extends(journal', journal) /\ Fresh(turn.batch)' = {}
<1> DEFINE b == turn.batch
           s == Staged(b)
<1>0. b \in Seq(Envelope)  BY DEF WorkInv
<1>1. watermark = Len(journal) /\ index = Len(journal) /\ Len(journal) \in Nat
  BY LenProperties DEF StreamInv
<1>2. /\ s \in Seq(Tick) /\ \A k \in 1..Len(s) : s[k].seq = Len(journal) + k
      /\ \A i \in Fresh(b) : \E k \in 1..Len(s) : s[k].content = b[i].content
  BY <1>0, <1>1, StagedType
<1>3. journal' = journal \o s /\ index' = Len(journal')  BY DEF AppendGroup
<1>4. Fresh(b) \subseteq 1..Len(b)  BY <1>0, FreshType
<1> HIDE DEF s
<1>5. /\ Extends(journal', journal)
      /\ Len(journal') = Len(journal) + Len(s)
      /\ \A k \in 1..Len(s) : journal'[Len(journal) + k] = s[k]
  BY <1>2, <1>3, ConcatExtends DEF StreamInv
<1>6. Contents(Indexed)  = {journal[n].content : n \in 1..index}
  BY <1>1, FirstTicks DEF Indexed, StreamInv
<1>7. Contents(Indexed)' = {journal'[n].content : n \in 1..index'}
  <2>1. journal' \in Seq(Tick) /\ index' \in 0..Len(journal')
    BY <1>3, <1>5 DEF Extends
  <2>2. Contents(ToSet(SubSeq(journal', 1, index')))
          = {journal'[n].content : n \in 1..index'}
    BY <2>1, FirstTicks
  <2> QED  BY <2>2 DEF Indexed, Contents
<1>8. Contents(Indexed) \subseteq Contents(Indexed)'
  BY <1>1, <1>3, <1>5, <1>6, <1>7 DEF Extends
<1>9. ASSUME NEW i \in Fresh(b)'  PROVE FALSE
  <2>1. /\ i \in DOMAIN b /\ b[i].content \notin Contents(Indexed)'
        /\ \A j \in 1..(i - 1) : b[j].content # b[i].content
    BY <1>9 DEF Fresh
  <2>2. i \in Fresh(b)  BY <1>8, <2>1 DEF Fresh
  <2>3. PICK k \in 1..Len(s) : s[k].content = b[i].content  BY <1>2, <2>2
  <2>4. Len(s) \in Nat  BY <1>2, LenProperties
  <2>5. Len(journal) + k \in 1..index'  BY <1>1, <1>3, <1>5, <2>4
  <2>6. journal'[Len(journal) + k].content = b[i].content  BY <1>5, <2>3
  <2> QED  BY <1>7, <2>1, <2>5, <2>6
<1> QED  BY <1>5, <1>9

\* A host crash keeps the synced part.
LEMMA LossKeeps ==
    ASSUME StreamInv, NEW others, UnsyncedLost(others)
    PROVE  /\ journal' \in Seq(Tick) /\ Len(journal') \in Nat
           /\ synced <= Len(journal')
           /\ \A n \in 1..Len(journal') : n \in 1..Len(journal) /\ journal'[n] = journal[n]
<1>1. PICK k \in synced..Len(journal) : journal' = SubSeq(journal, 1, k)
  BY DEF UnsyncedLost
<1>2. Len(journal) \in Nat /\ synced \in Nat  BY LenProperties DEF StreamInv
<1>3. \A i \in 1..k : journal[i] \in Tick  BY <1>2, ElementOfSeq DEF StreamInv
<1>4. /\ SubSeq(journal, 1, k) \in Seq(Tick) /\ Len(SubSeq(journal, 1, k)) = k
      /\ \A i \in 1..k : SubSeq(journal, 1, k)[i] = journal[i]
  BY <1>2, <1>3, SubSeqProperties
<1> QED  BY <1>1, <1>2, <1>4

-----------------------------------------------------------------------------
(* The steps.                                                              *)

LEMMA SameGroup ==
    ASSUME UNCHANGED <<journal, index, turn>>
    PROVE  Fresh(turn.batch)' = Fresh(turn.batch)
BY DEF Fresh, Indexed, Contents

LEMMA Lengths ==
    ASSUME StreamInv
    PROVE  Len(journal) \in Nat /\ synced \in Nat /\ index \in Nat /\ watermark \in Nat
BY LenProperties DEF StreamInv

LEMMA PollStep ==
    ASSUME NEW c \in Content, Poll(c), PipelineInv
    PROVE  WorkInv'
<1> USE DEF PipelineInv
<1>1. source \in 1..MaxSeq /\ source' = source + 1
  BY DEF WorkInv, Poll
<1>2. cursor' \in Nat  BY MarketAssumption DEF WorkInv, Poll, Reserve
<1>3. [seq |-> source, content |-> c] \in Envelope  BY <1>1 DEF Envelope
<1>4. ingress' \in Seq(Envelope)  BY <1>3, AppendProperties DEF WorkInv, Poll
<1> QED  BY <1>1, <1>2, <1>4 DEF WorkInv, Starting, Handling, Poll

LEMMA PollFailsStep ==
    ASSUME PollFails, PipelineInv
    PROVE  WorkInv'
<1>1. cursor' \in Nat  BY MarketAssumption DEF PipelineInv, WorkInv, PollFails, Reserve
<1> QED  BY <1>1 DEF PipelineInv, WorkInv, Starting, Handling, PollFails, memory

LEMMA DrawStep ==
    ASSUME Draw, PipelineInv
    PROVE  WorkInv' /\ HandInv'
<1> USE DEF PipelineInv
<1>1. PICK n \in 1..Len(ingress) :
          /\ turn' = [Idle EXCEPT !.batch = SubSeq(ingress, 1, n)]
          /\ ingress' = SubSeq(ingress, n + 1, Len(ingress))
  BY DEF Draw
<1>2. Len(ingress) \in Nat /\ \A i \in 1..Len(ingress) : ingress[i] \in Envelope
  BY LenProperties, ElementOfSeq DEF WorkInv
<1>3. /\ SubSeq(ingress, 1, n) \in Seq(Envelope)
      /\ Len(SubSeq(ingress, 1, n)) = n
  BY <1>2, SubSeqProperties
<1>4. ingress' \in Seq(Envelope)
  <2>1. \A i \in (n + 1)..Len(ingress) : ingress[i] \in Envelope  BY <1>2
  <2> QED  BY <1>1, <1>2, <2>1, SubSeqProperties
<1>5. turn'.prefix = {} /\ turn' = [batch |-> SubSeq(ingress, 1, n), rest |-> <<>>,
                                   single |-> FALSE, prefix |-> {}]
  BY <1>1 DEF Idle
<1>6. SubSeq(ingress, 1, n) # <<>>  BY <1>3
<1>7. turn' \in [batch : Seq(Envelope), rest : Seq(Envelope), single : BOOLEAN,
                prefix : SUBSET Tick] /\ turn'.batch # <<>>
  BY <1>3, <1>5, <1>6
<1>8. WorkInv'
  BY <1>4, <1>7 DEF WorkInv, Starting, Handling, Draw, Goto
<1>9. HandInv'
  BY <1>5 DEF HandInv, Journaled, Draw, streamVars, streamFiles
<1> QED  BY <1>8, <1>9

LEMMA MarkStep ==
    ASSUME Mark, PipelineInv
    PROVE  StreamInv'
<1> USE DEF PipelineInv
<1>1. /\ UNCHANGED <<journal, synced, index>> /\ pc = "mark" /\ ~poisoned
      /\ watermark' \in {watermark, index}
      /\ \/ pc' = "finalize" /\ poisoned' = poisoned /\ watermark' = index
         \/ pc' = "resolve" /\ poisoned' = TRUE
  BY DEF Mark, MarkTail, Poison, streamFiles, Goto, StreamInv
<1> QED  BY <1>1, Lengths DEF StreamInv

LEMMA RecoverStep ==
    ASSUME Recover, PipelineInv
    PROVE  StreamInv'
<1>1. /\ UNCHANGED journal /\ synced' = Len(journal) /\ watermark' = Len(journal)
      /\ index' = Len(journal) /\ poisoned' = FALSE /\ pc' = "fence"
  BY DEF Recover, Load, Goto
<1> QED  BY <1>1, Lengths DEF PipelineInv, StreamInv

LEMMA ReplayAckStep ==
    ASSUME NEW n \in DOMAIN journal, ReplayAck(n), PipelineInv
    PROVE  AckInv'
<1>1. /\ n \in 1..index /\ journal[n] \in rows
      /\ acks' = acks \cup {n} /\ UNCHANGED <<journal, synced, rows>>
  BY DEF ReplayAck, Acknowledge, Unacked
<1>2. index <= synced /\ index \in Nat /\ synced \in Nat
  BY Lengths DEF PipelineInv, StreamInv
<1>3. n \in 1..synced  BY <1>1, <1>2
<1> QED  BY <1>1, <1>3 DEF PipelineInv, AckInv

\* A longer journal keeps what is journaled and what is acknowledged.
LEMMA ExtendsKeeps ==
    ASSUME StreamInv, AckInv, Extends(journal', journal), UNCHANGED <<acks, rows>>,
           synced' \in synced..Len(journal')
    PROVE  AckInv' /\ \A t : Journaled(t) => Journaled(t)'
<1>1. Len(journal) \in Nat /\ synced \in Nat /\ synced <= Len(journal)
  BY Lengths DEF StreamInv
<1>2. \A n \in 1..Len(journal) : n \in 1..Len(journal') /\ journal'[n] = journal[n]
  BY <1>1 DEF Extends
<1>3. \A t : Journaled(t) => Journaled(t)'  BY <1>2 DEF Journaled
<1>4. 1..synced \subseteq 1..Len(journal) /\ 1..synced \subseteq 1..synced'
  BY <1>1
<1>5. AckInv'  BY <1>2, <1>4 DEF AckInv
<1> QED  BY <1>3, <1>5

LEMMA JournalStep ==
    ASSUME Journal, PipelineInv
    PROVE  PipelineInv'
<1> USE DEF PipelineInv
<1>1. /\ pc = "append" /\ ~poisoned
      /\ UNCHANGED <<cursor, source, ingress, turn, pending, committed, recovered,
                     rows, watermark, acks>>
  BY DEF Journal, GroupUnchanged, StreamInv, AppendGroup, AppendCut
<1>2. /\ Extends(journal', journal)
      /\ synced' \in synced..Len(journal') /\ index' \in 0..synced'
      /\ \/ pc' = "mark" /\ ~poisoned' /\ index' = Len(journal')
            /\ Fresh(turn.batch)' = {}
         \/ pc' = "resolve" /\ poisoned'
  <2>1. CASE AppendGroup(Staged(turn.batch)) /\ Goto("mark")
    <3>1. Extends(journal', journal) /\ Fresh(turn.batch)' = {}
      BY <1>1, <2>1, AppendExtends
    <3> QED  BY <1>1, <2>1, <3>1, Lengths DEF AppendGroup, Extends, Goto, StreamInv
  <2>2. CASE AppendCut(Staged(turn.batch)) /\ Poison /\ Goto("resolve")
    <3>1. Extends(journal', journal)  BY <1>1, <2>2, CutExtends
    <3> QED  BY <2>2, <3>1, Lengths DEF AppendCut, Poison, Extends, Goto, StreamInv
  <2> QED  BY <2>1, <2>2 DEF Journal
<1>3. StreamInv'  BY <1>1, <1>2, Lengths DEF StreamInv, Extends
<1>4. WorkInv'  BY <1>1, <1>2 DEF WorkInv, Starting, Handling
<1>5. AckInv' /\ \A t : Journaled(t) => Journaled(t)'
  BY <1>1, <1>2, ExtendsKeeps
<1>6. HandInv'  BY <1>1, <1>2, <1>5 DEF HandInv
<1>7. GroupInv'  BY <1>2 DEF GroupInv
<1>8. RowsInv'  BY <1>1, <1>2 DEF RowsInv
<1> QED  BY <1>3, <1>4, <1>5, <1>6, <1>7, <1>8

LEMMA ResolveStep ==
    ASSUME Resolve, PipelineInv
    PROVE  PipelineInv'
<1> USE DEF PipelineInv
<1>1. /\ pc = "resolve" /\ pc' = "raised"
      /\ UNCHANGED <<streamVars, cursor, source, ingress, turn, pending, committed, rows>>
      /\ recovered' \in {recovered, TicksOf(turn.batch)}
  BY DEF Resolve, Goto
<1>2. StreamInv'  BY <1>1 DEF StreamInv, streamVars, streamFiles
<1>3. WorkInv'  BY <1>1 DEF WorkInv, Starting, Handling
<1>4. ASSUME ~poisoned'  PROVE \A t \in TicksOf(turn.batch) : Journaled(t)
  BY <1>1, <1>4, OldTicks DEF GroupInv, WorkInv, streamVars
<1>5. HandInv'
  BY <1>1, <1>4 DEF HandInv, Journaled, streamVars, streamFiles
<1>6. GroupInv' /\ RowsInv' /\ AckInv'
  BY <1>1 DEF GroupInv, RowsInv, AckInv, streamVars, streamFiles
<1> QED  BY <1>2, <1>3, <1>5, <1>6

LEMMA DurableStep ==
    ASSUME Durable, PipelineInv
    PROVE  PipelineInv'
<1> USE DEF PipelineInv
<1>1. /\ pc = "durable" /\ pc' = "turn" /\ turn' = Idle
      /\ pending' = pending \cup TicksOf(turn.batch)
      /\ UNCHANGED <<streamVars, cursor, source, ingress, recovered, committed, rows>>
  BY DEF Durable, TurnUnchanged, Goto
<1>2. \A t \in TicksOf(turn.batch) : t \in Tick /\ Journaled(t)
  BY <1>1, OldTicks DEF GroupInv, WorkInv
<1>3. StreamInv'  BY <1>1 DEF StreamInv, streamVars, streamFiles
<1>4. WorkInv'  BY <1>1 DEF WorkInv, Starting, Handling, Idle
<1>5. HandInv'
  BY <1>1, <1>2 DEF HandInv, Journaled, Idle, streamVars, streamFiles
<1>6. GroupInv' /\ RowsInv' /\ AckInv'
  BY <1>1 DEF GroupInv, RowsInv, AckInv, streamVars, streamFiles
<1> QED  BY <1>3, <1>4, <1>5, <1>6

LEMMA DurableOneStep ==
    ASSUME DurableOne, PipelineInv
    PROVE  PipelineInv'
<1> USE DEF PipelineInv
<1> DEFINE prefix == turn.prefix \cup TicksOf(turn.batch)
<1>1. /\ pc = "durable"
      /\ \/ pc' = "stage" /\ turn.rest # <<>> /\ turn' = One(turn.rest, prefix)
         \/ pc' = "idle" /\ turn' = Idle
      /\ UNCHANGED <<streamVars, cursor, source, ingress, pending, recovered,
                     committed, rows>>
  BY DEF DurableOne, TurnUnchanged, Goto
<1>2. \A t \in TicksOf(turn.batch) : t \in Tick /\ Journaled(t)
  BY <1>1, OldTicks DEF GroupInv, WorkInv
<1>3. prefix \subseteq Tick  BY <1>2 DEF WorkInv
<1>4. ~poisoned => \A t \in prefix : Journaled(t)  BY <1>2 DEF HandInv
<1> HIDE DEF prefix
<1>5. /\ turn' \in [batch : Seq(Envelope), rest : Seq(Envelope), single : BOOLEAN,
                    prefix : SUBSET Tick]
      /\ pc' = "stage" => turn'.batch # <<>>
      /\ turn'.prefix \in {{}, prefix}
  <2>1. CASE turn.rest # <<>> /\ turn' = One(turn.rest, prefix)
    <3>1. turn.rest \in Seq(Envelope) /\ turn.rest # <<>>  BY <2>1 DEF WorkInv
    <3>2. Head(turn.rest) \in Envelope /\ Tail(turn.rest) \in Seq(Envelope)
      BY <3>1, HeadTailProperties
    <3>3. <<Head(turn.rest)>> \in Seq(Envelope) /\ <<Head(turn.rest)>> # <<>>
      BY <3>2
    <3> QED  BY <1>3, <2>1, <3>2, <3>3 DEF One
  <2>2. CASE pc' = "idle" /\ turn' = Idle  BY <2>2 DEF Idle
  <2> QED  BY <1>1, <2>1, <2>2
<1>6. StreamInv'  BY <1>1 DEF StreamInv, streamVars, streamFiles
<1>7. WorkInv'  BY <1>1, <1>5 DEF WorkInv, Starting, Handling
<1>8. HandInv'
  BY <1>1, <1>4, <1>5 DEF HandInv, Journaled, streamVars, streamFiles
<1>9. GroupInv' /\ RowsInv' /\ AckInv'
  BY <1>1 DEF GroupInv, RowsInv, AckInv, streamVars, streamFiles
<1> QED  BY <1>6, <1>7, <1>8, <1>9

\* What an acknowledgement, whole or cut short, may name: committed ticks of the
\* journal.
LEMMA AckedTicks ==
    ASSUME PipelineInv, pc = "ack", ~poisoned, NEW n \in Seqs(Unwritten)
    PROVE  n \in 1..synced /\ journal[n] \in rows
<1>1. PICK t \in pending : t \in Unwritten /\ n = t.seq  BY DEF Seqs, Unwritten
<1>2. Journaled(t) /\ t \in rows
  BY <1>1 DEF PipelineInv, HandInv, RowsInv
<1>3. index = Len(journal) /\ index <= synced /\ synced <= Len(journal)
  BY Lengths DEF PipelineInv, StreamInv
<1> QED  BY <1>1, <1>2, <1>3, Lengths DEF Journaled, PipelineInv

LEMMA AckKeeps ==
    ASSUME PipelineInv, pc = "ack", ~poisoned, NEW seqs \in SUBSET Seqs(Unwritten),
           acks' = acks \cup seqs, UNCHANGED <<journal, synced, rows>>
    PROVE  AckInv'
BY AckedTicks DEF PipelineInv, AckInv

LEMMA CutAcks ==
    ASSUME NEW seqs, AcknowledgeCut(seqs)
    PROVE  \E kept \in SUBSET seqs : acks' = acks \cup kept
BY DEF AcknowledgeCut

LEMMA AckStep ==
    ASSUME Ack, PipelineInv
    PROVE  PipelineInv'
<1> USE DEF PipelineInv
<1>1. /\ pc = "ack" /\ pc' = "idle"
      /\ UNCHANGED <<journal, synced, watermark, index, cursor, source, ingress,
                     turn, recovered, rows>>
      /\ \/ ~poisoned /\ acks' = acks \cup Seqs(Unwritten)
            /\ pending' = {} /\ committed' = FALSE /\ UNCHANGED poisoned
         \/ ~poisoned /\ AcknowledgeCut(Seqs(Unwritten)) /\ poisoned' = TRUE
            /\ UNCHANGED <<pending, committed>>
         \/ UNCHANGED <<acks, poisoned, pending, committed>>
  BY DEF Ack, Goto, FlushUnchanged, Acknowledge, AcknowledgeCut, Poison,
         streamVars, streamFiles
<1>2. AckInv'
  <2>1. CASE ~poisoned /\ acks' = acks \cup Seqs(Unwritten)
    BY <1>1, <2>1, AckKeeps
  <2>2. CASE ~poisoned /\ AcknowledgeCut(Seqs(Unwritten))
    BY <1>1, <2>2, CutAcks, AckKeeps
  <2>3. CASE UNCHANGED acks  BY <1>1, <2>3 DEF AckInv
  <2> QED  BY <1>1, <2>1, <2>2, <2>3
<1>3. acks \subseteq acks'  BY <1>1, CutAcks
<1>4. StreamInv'  BY <1>1 DEF StreamInv
<1>5. WorkInv'  BY <1>1 DEF WorkInv, Starting, Handling
<1>6. HandInv'  BY <1>1 DEF HandInv, Journaled
<1>7. GroupInv'  BY <1>1 DEF GroupInv
<1>8. RowsInv'  BY <1>1, <1>3 DEF RowsInv, Unwritten
<1> QED  BY <1>2, <1>4, <1>5, <1>6, <1>7, <1>8

\* A process that ends leaves a state it can be started from, if the files do.
LEMMA DieStep ==
    ASSUME PipelineInv, Die, UNCHANGED <<cursor, synced, watermark>>,
           journal' \in Seq(Tick), \A n \in 1..Len(journal') : journal'[n].seq = n,
           synced <= Len(journal'), AckInv'
    PROVE  PipelineInv'
<1> USE DEF PipelineInv, Die
<1>1. Len(journal') \in Nat  BY LenProperties
<1>2. StreamInv'  BY <1>1, Lengths DEF StreamInv
<1>3. WorkInv'  BY DEF WorkInv, Starting, Handling, Idle
<1>4. HandInv' /\ GroupInv' /\ RowsInv'  BY DEF HandInv, GroupInv, RowsInv, Idle
<1> QED  BY <1>2, <1>3, <1>4

LEMMA KillStep ==
    ASSUME Kill, PipelineInv
    PROVE  PipelineInv'
<1> USE DEF PipelineInv
<1>1. Die /\ UNCHANGED <<cursor, rows>>  BY DEF Kill
<1>2. CASE UNCHANGED streamFiles
  <2>1. UNCHANGED <<journal, synced, watermark, acks>>  BY <1>2 DEF streamFiles
  <2>2. AckInv'  BY <1>1, <2>1 DEF AckInv
  <2>3. synced <= Len(journal)  BY Lengths DEF StreamInv
  <2> QED  BY <1>1, <2>1, <2>2, <2>3, DieStep DEF StreamInv
<1>3. CASE pc = "append" /\ AppendCut(Staged(turn.batch))
  <2>1. Extends(journal', journal)  BY <1>3, CutExtends
  <2>2. UNCHANGED <<synced, watermark, acks>>  BY <1>3 DEF AppendCut
  <2>3. synced' \in synced..Len(journal')
    BY <2>1, <2>2, Lengths DEF Extends, StreamInv
  <2>4. AckInv'  BY <1>1, <2>1, <2>2, <2>3, ExtendsKeeps
  <2> QED  BY <1>1, <2>1, <2>2, <2>3, <2>4, DieStep DEF Extends
<1>4. CASE pc = "ack" /\ ~poisoned /\ AcknowledgeCut(Seqs(Unwritten))
  <2>1. UNCHANGED <<journal, synced, watermark>>  BY <1>4 DEF AcknowledgeCut
  <2>2. AckInv'  BY <1>1, <1>4, <2>1, CutAcks, AckKeeps
  <2>3. synced <= Len(journal)  BY Lengths DEF StreamInv
  <2> QED  BY <1>1, <2>1, <2>2, <2>3, DieStep DEF StreamInv
<1>5. CASE pc = "replay" /\ \E n \in Unacked : journal[n] \in rows /\ AcknowledgeCut({n})
  <2>1. PICK n \in 1..index : journal[n] \in rows /\ AcknowledgeCut({n})
    BY <1>5 DEF Unacked
  <2>2. UNCHANGED <<journal, synced, watermark>>  BY <2>1 DEF AcknowledgeCut
  <2>3. n \in 1..synced  BY Lengths DEF StreamInv
  <2>4. PICK kept \in SUBSET {n} : acks' = acks \cup kept  BY <2>1, CutAcks
  <2>5. AckInv'  BY <1>1, <2>1, <2>2, <2>3, <2>4 DEF AckInv
  <2>6. synced <= Len(journal)  BY Lengths DEF StreamInv
  <2> QED  BY <1>1, <2>2, <2>5, <2>6, DieStep DEF StreamInv
<1> QED  BY <1>2, <1>3, <1>4, <1>5 DEF Kill

LEMMA HostCrashStep ==
    ASSUME HostCrash, PipelineInv
    PROVE  PipelineInv'
<1> USE DEF PipelineInv
<1>1. /\ Die /\ UNCHANGED <<cursor, rows>>
      /\ \E others \in SUBSET {"evidence"} : UnsyncedLost(others)
  BY DEF HostCrash
<1>2. UNCHANGED <<synced, watermark, acks>>  BY <1>1 DEF UnsyncedLost
<1>3. /\ journal' \in Seq(Tick) /\ Len(journal') \in Nat /\ synced <= Len(journal')
      /\ \A n \in 1..Len(journal') : n \in 1..Len(journal) /\ journal'[n] = journal[n]
  BY <1>1, LossKeeps
<1>4. 1..synced \subseteq 1..Len(journal')  BY <1>3, Lengths
<1>5. AckInv'  BY <1>1, <1>2, <1>3, <1>4 DEF AckInv
<1>6. \A n \in 1..Len(journal') : journal'[n].seq = n  BY <1>3 DEF StreamInv
<1> QED  BY <1>1, <1>2, <1>3, <1>5, <1>6, DieStep

\* The consumer reads the files of the stream and writes its own; only its own
\* torn line shows among the files.
LEMMA ConsumerStep ==
    ASSUME ConsumerNext, PipelineInv
    PROVE  PipelineInv'
<1>1. UNCHANGED <<journal, synced, watermark, acks, index, poisoned, pc, cursor,
                  source, ingress, turn, pending, committed, recovered, rows>>
  <2>1. CASE Follow \/ Measure \/ CheckpointWrite
    BY <2>1 DEF Follow, Measure, CheckpointWrite, ConsumerUnchanged, workerVars,
                streamVars, streamFiles, memory
  <2>2. CASE MeasureFails \/ CheckpointFails \/ ConsumerKill
    BY <2>2 DEF MeasureFails, CheckpointFails, ConsumerKill, ConsumerFault, memory
  <2> QED  BY <2>1, <2>2 DEF ConsumerNext
<1>2. StreamInv' /\ WorkInv'
  BY <1>1 DEF PipelineInv, StreamInv, WorkInv, Starting, Handling
<1>3. HandInv' /\ GroupInv'
  BY <1>1, SameGroup DEF PipelineInv, HandInv, GroupInv, Journaled
<1>4. RowsInv' /\ AckInv'  BY <1>1 DEF PipelineInv, RowsInv, AckInv, Unwritten
<1> QED  BY <1>2, <1>3, <1>4 DEF PipelineInv

-----------------------------------------------------------------------------
(* The invariant.                                                          *)

\* Every step keeps the invariant.
LEMMA NextInv ==
    ASSUME PipelineInv, [Next]_vars
    PROVE  PipelineInv'
<1> USE SameGroup, Lengths
    DEF PipelineInv, StreamInv, WorkInv, HandInv, GroupInv, RowsInv, AckInv, Starting,
        Handling, Journaled, Unwritten, streamVars, streamFiles, Goto, workerVars, memory
<1>1. CASE PollFails
  BY <1>1, PollFailsStep DEF PollFails, Fault
<1>2. ASSUME NEW c \in Content, Poll(c)  PROVE PipelineInv'
  BY <1>2, PollStep DEF Poll
<1>3. CASE Draw
  BY <1>3, DrawStep DEF Draw
<1>4. CASE Settle
  BY <1>4 DEF Settle, WriteFence, WriteFenceFails, Fault, GroupUnchanged
<1>5. CASE Reject
  BY <1>5 DEF Reject, Staging, GroupUnchanged
<1>6. CASE Advance
  BY <1>6 DEF Advance, Staging, WriteFence, WriteFenceFails, Fault,
     GroupUnchanged
<1>7. CASE Prepare
  BY <1>7 DEF Prepare, Staging, WriteFence, WriteFenceFails, Fault,
     GroupUnchanged
<1>8. CASE Journal  BY <1>8, JournalStep
<1>9. CASE Mark
  BY <1>9, MarkStep DEF Mark, MarkTail, Poison, Fault, GroupUnchanged
<1>10. CASE Finalize
  BY <1>10 DEF Finalize, WriteFence, WriteFenceFails, Fault, GroupUnchanged
<1>11. CASE Resolve  BY <1>11, ResolveStep
<1>12. CASE Durable  BY <1>12, DurableStep
<1>13. CASE DurableOne  BY <1>13, DurableOneStep
<1>14. CASE HandOver
  BY <1>14 DEF HandOver, Idle, TurnUnchanged
<1>15. CASE TrySingly
  BY <1>15 DEF TrySingly, One, TurnUnchanged
<1>16. CASE PutBack
  BY <1>16 DEF PutBack, Idle, TurnUnchanged
<1>17. CASE FlushNothing
  BY <1>17 DEF FlushNothing, Flushing, FlushUnchanged
<1>18. CASE FlushWrite
  BY <1>18 DEF FlushWrite, Flushing, FlushUnchanged
<1>19. CASE FlushFails
  BY <1>19 DEF FlushFails, Flushing, Fault, FlushUnchanged
<1>20. CASE FlushCommitted
  BY <1>20 DEF FlushCommitted, Flushing, FlushUnchanged
<1>21. CASE Ack  BY <1>21, AckStep
<1>22. CASE Recover
  BY <1>22, RecoverStep DEF Recover, Load, Loadable
<1>23. CASE RecoverFence
  BY <1>23 DEF RecoverFence, WriteFence
<1>24. CASE ReplayWrite
  BY <1>24 DEF ReplayWrite
<1>25. CASE ReplayDone
  BY <1>25 DEF ReplayDone
<1>26. ASSUME NEW n \in DOMAIN journal, ReplayAck(n)  PROVE PipelineInv'
  BY <1>26, ReplayAckStep DEF ReplayAck, Acknowledge, Unacked
<1>27. CASE Kill  BY <1>27, KillStep
<1>28. CASE HostCrash  BY <1>28, HostCrashStep
<1>29. CASE ConsumerNext  BY <1>29, ConsumerStep
<1>30. CASE UNCHANGED vars
  BY <1>30 DEF vars
<1> QED
  BY <1>1, <1>2, <1>3, <1>4, <1>5, <1>6, <1>7, <1>8, <1>9, <1>10, <1>11,
     <1>12, <1>13, <1>14, <1>15, <1>16, <1>17, <1>18, <1>19, <1>20, <1>21,
     <1>22, <1>23, <1>24, <1>25, <1>26, <1>27, <1>28, <1>29, <1>30 DEF Next,
     WorkerNext, Receive, Ingest, Flush, Start

LEMMA InitInv == Init => PipelineInv
<1> SUFFICES ASSUME Init PROVE PipelineInv  OBVIOUS
<1> USE DEF Init, WorkerInit, StreamInit
<1>1. StreamInv  BY DEF StreamInv
<1>2. WorkInv  BY DEF WorkInv, Starting, Handling, Idle
<1>3. HandInv /\ GroupInv /\ RowsInv /\ AckInv
  BY DEF HandInv, GroupInv, RowsInv, AckInv, Idle
<1> QED  BY <1>1, <1>2, <1>3 DEF PipelineInv

\* The invariant of both theorems below.
THEOREM PipelineInvariant == Spec => []PipelineInv
<1>1. Init => PipelineInv  BY InitInv
<1>2. PipelineInv /\ [Next]_vars => PipelineInv'  BY NextInv
<1> QED  BY <1>1, <1>2, PTL DEF Spec

\* The watermark that the stream stores after a group and repairs at a start is
\* never ahead of the ticks that a host crash keeps (TickStream.append_many and
\* initialize), for every batch size, every input and any number of faults.
THEOREM WatermarkDurable == Spec => []WatermarkBacked
<1>1. PipelineInv => WatermarkBacked
  BY Lengths DEF PipelineInv, StreamInv, WatermarkBacked
<1> QED  BY <1>1, PipelineInvariant, PTL

\* A tick is acknowledged (acknowledge_tick_writes) only when its row is in the
\* database and its line of the journal survives a host crash, whatever fails and
\* whenever the worker is killed.
THEOREM AcknowledgedStored == Spec => []AckedStored
<1>1. PipelineInv => AckedStored
  BY Lengths DEF PipelineInv, AckInv, AckedStored
<1> QED  BY <1>1, PipelineInvariant, PTL
=============================================================================
