----------------------- MODULE DurableRepositoryProofs -----------------------
(***************************************************************************)
(* The repository for any number of processes and writes.  The invariants  *)
(* are proved in their pointwise form and carried over to the sequence     *)
(* operators at the end.                                                   *)
(***************************************************************************)
EXTENDS DurableRepository, SequenceTheorems, TLAPS

\* s is what t began with.
Begins(s, t) ==
    /\ Len(s) <= Len(t)
    /\ \A k \in 1..Len(s) : s[k] = t[k]

\* Write numbers are used once.
WritesFresh ==
    /\ \A k \in 1..Len(disk) : disk[k] <= writes
    /\ \A j, k \in 1..Len(disk) : disk[j] = disk[k] => j = k
    /\ \A w \in acked : w <= writes
    /\ \A c \in claims : c.write <= writes

\* An acknowledged write is in the part of the file a host crash keeps.
AckedSynced == \A w \in acked : \E k \in 1..synced : disk[k] = w

\* What processes and their callers know is a beginning of the file's history.
KnownBegins ==
    \A p \in Proc : Begins(mem[p], disk) /\ Begins(saw[p], disk)

\* A write with an expected version follows the state its caller read.
ClaimsFollow ==
    \A c \in claims, k \in 1..Len(disk) :
        disk[k] = c.write => k = Len(c.seen) + 1 /\ Begins(c.seen, disk)

RepoInv == TypeOK /\ WritesFresh /\ AckedSynced /\ KnownBegins /\ ClaimsFollow

-----------------------------------------------------------------------------
\* Begins is what IsPrefix says.
LEMMA BeginsIsPrefix ==
    ASSUME NEW S, NEW s \in Seq(S), NEW t \in Seq(S), Begins(s, t)
    PROVE  IsPrefix(s, t)
<1>1. Len(s) \in Nat /\ Len(t) \in Nat /\ Len(s) <= Len(t)  BY DEF Begins
<1>2. /\ SubSeq(s, 1, Len(s)) \in Seq(S) /\ SubSeq(t, 1, Len(s)) \in Seq(S)
      /\ Len(SubSeq(s, 1, Len(s))) = Len(s) /\ Len(SubSeq(t, 1, Len(s))) = Len(s)
  BY <1>1, SubSeqProperties
<1>3. \A k \in 1..Len(s) : SubSeq(s, 1, Len(s))[k] = SubSeq(t, 1, Len(s))[k]
  BY <1>1, SubSeqProperties DEF Begins
<1>4. SubSeq(s, 1, Len(s)) = SubSeq(t, 1, Len(s))
  BY <1>2, <1>3, SeqEqual
<1> QED  BY <1>1, <1>4 DEF IsPrefix

\* A beginning of full length is everything.
LEMMA BeginsEqual ==
    ASSUME NEW S, NEW s \in Seq(S), NEW t \in Seq(S), Begins(s, t), Len(s) = Len(t)
    PROVE  s = t
BY SeqEqual DEF Begins

\* Begins through an appended write.
LEMMA BeginsAppend ==
    ASSUME NEW S, NEW s \in Seq(S), NEW t \in Seq(S), NEW w \in S, Begins(s, t)
    PROVE  Begins(s, Append(t, w)) /\ Begins(t, Append(t, w))
           /\ Begins(Append(t, w), Append(t, w))
BY DEF Begins

\* The beginning of the file that a host crash keeps.
LEMMA KeptPrefix ==
    ASSUME NEW S, NEW t \in Seq(S), NEW n \in 0..Len(t)
    PROVE  /\ SubSeq(t, 1, n) \in Seq(S)
           /\ Len(SubSeq(t, 1, n)) = n
           /\ \A k \in 1..n : SubSeq(t, 1, n)[k] = t[k]
           /\ \A s \in Seq(S) : Begins(s, t) /\ Len(s) <= n => Begins(s, SubSeq(t, 1, n))
<1>1. \A k \in 1..n : t[k] \in S  OBVIOUS
<1>2. /\ SubSeq(t, 1, n) \in Seq(S)
      /\ Len(SubSeq(t, 1, n)) = n
      /\ \A k \in 1..n : SubSeq(t, 1, n)[k] = t[k]
  BY <1>1, SubSeqProperties
<1> QED  BY <1>2 DEF Begins

\* Everything that names a write names one that was attempted.
LEMMA WriteNumbers ==
    ASSUME RepoInv
    PROVE  /\ writes \in Nat
           /\ \A k \in 1..Len(disk) : disk[k] \in Nat /\ disk[k] <= writes
           /\ \A w \in acked : w \in Nat /\ w <= writes
           /\ \A c \in claims : /\ c.write \in Nat /\ c.write <= writes
                                /\ c.seen \in Seq(Write)
<1>1. Write \subseteq Nat  BY RepositoryAssumption DEF Write
<1>2. \A k \in 1..Len(disk) : disk[k] \in Write  BY DEF RepoInv, TypeOK
<1>3. writes \in Nat  BY RepositoryAssumption DEF RepoInv, TypeOK
<1>4. \A c \in claims : c.write \in Write /\ c.seen \in Seq(Write)
  BY DEF RepoInv, TypeOK
<1>5. \A w \in acked : w \in Write  BY DEF RepoInv, TypeOK
<1> QED  BY <1>1, <1>2, <1>3, <1>4, <1>5 DEF RepoInv, WritesFresh

-----------------------------------------------------------------------------
\* The empty repository.
LEMMA RepoInit == Init => RepoInv
BY RepositoryAssumption
   DEF Init, RepoInv, TypeOK, WritesFresh, AckedSynced, KnownBegins, ClaimsFollow,
       Begins, Write

\* A process takes over what is in the file; callers may read it.
LEMMA LoadKeeps ==
    ASSUME RepoInv, NEW p \in Proc, Load(p),
           saw' = saw \/ saw' = [saw EXCEPT ![p] = disk]
             \/ saw' = [saw EXCEPT ![p] = <<>>],
           UNCHANGED <<disk, synced, acked>>,
           writes' \in 0..MaxWrites, writes' >= writes,
           claims' \subseteq [write : Write, seen : Seq(Write)],
           \A c \in claims' \ claims : c.write = writes + 1 /\ c.write <= writes'
    PROVE  RepoInv'
<1>1. Begins(disk, disk) /\ Begins(<<>>, disk)  BY DEF Begins, RepoInv, TypeOK
<1>2. TypeOK'
  <2>1. mem' \in [Proc -> Seq(Write)]  BY DEF RepoInv, TypeOK, Load
  <2>2. <<>> \in Seq(Write)  OBVIOUS
  <2>3. saw' \in [Proc -> Seq(Write)]  BY <2>2 DEF RepoInv, TypeOK
  <2> QED  BY <2>1, <2>3 DEF RepoInv, TypeOK
<1>3. writes \in Nat /\ writes' \in Nat  BY RepositoryAssumption DEF RepoInv, TypeOK
<1>4. WritesFresh'
  <2>4. \A c \in claims' : c.write <= writes'
    BY <1>3, WriteNumbers
  <2>5. \A j, k \in 1..Len(disk) : disk[j] = disk[k] => j = k
    BY DEF RepoInv, WritesFresh
  <2> QED  BY <1>3, <2>4, <2>5, WriteNumbers DEF WritesFresh
<1>5. AckedSynced'  BY DEF RepoInv, AckedSynced
<1>6. KnownBegins'
  <2>1. ASSUME NEW q \in Proc  PROVE Begins(mem'[q], disk) /\ Begins(saw'[q], disk)
    <3>1. mem'[q] \in {mem[q], disk} /\ saw'[q] \in {saw[q], disk, <<>>}
      BY DEF RepoInv, TypeOK, Load
    <3> QED  BY <1>1, <3>1 DEF RepoInv, KnownBegins
  <2> QED  BY <2>1 DEF KnownBegins
<1>7. ClaimsFollow'
  <2> SUFFICES ASSUME NEW c \in claims', NEW k \in 1..Len(disk), disk[k] = c.write
               PROVE  k = Len(c.seen) + 1 /\ Begins(c.seen, disk)
    BY DEF ClaimsFollow
  <2>1. c \in claims  BY WriteNumbers
  <2> QED  BY <2>1 DEF RepoInv, ClaimsFollow
<1> QED  BY <1>2, <1>4, <1>5, <1>6, <1>7 DEF RepoInv

\* A write is appended to the file.
LEMMA AppendKeeps ==
    ASSUME RepoInv, NEW p \in Proc, NEW expects \in BOOLEAN,
           writes < MaxWrites,
           disk' = Append(disk, writes + 1), writes' = writes + 1,
           mem' = [mem EXCEPT ![p] = disk] \/ mem' = [mem EXCEPT ![p] = disk'],
           saw' = saw,
           \/ synced' = synced /\ acked' = acked
           \/ synced' = Len(disk') /\ acked' = acked \cup {writes + 1},
           expects => VersionExpected(p),
           claims' = IF expects
                     THEN claims \cup {[write |-> writes + 1, seen |-> saw[p]]}
                     ELSE claims
    PROVE  RepoInv'
<1> DEFINE w == writes + 1
<1>1. w \in Write /\ w \in Nat /\ writes \in Nat /\ writes' \in 0..MaxWrites
  BY RepositoryAssumption DEF RepoInv, TypeOK, Write
<1>2. /\ disk \in Seq(Write) /\ disk' \in Seq(Write) /\ Len(disk) \in Nat
      /\ Len(disk') = Len(disk) + 1 /\ disk'[Len(disk) + 1] = w
      /\ \A k \in 1..Len(disk) : disk'[k] = disk[k]
  BY <1>1 DEF RepoInv, TypeOK
<1>3. TypeOK'
  <2>1. synced' \in 0..Len(disk')  BY <1>2 DEF RepoInv, TypeOK
  <2>2. claims' \subseteq [write : Write, seen : Seq(Write)]
    BY <1>1 DEF RepoInv, TypeOK
  <2>3. mem' \in [Proc -> Seq(Write)] /\ saw' \in [Proc -> Seq(Write)]
    BY <1>2 DEF RepoInv, TypeOK
  <2>4. acked' \subseteq Write  BY <1>1 DEF RepoInv, TypeOK
  <2> QED  BY <1>1, <1>2, <2>1, <2>2, <2>3, <2>4 DEF TypeOK
<1>4. WritesFresh'
  <2>0. \A k \in 1..Len(disk) : disk[k] \in Nat /\ disk[k] <= writes
    BY WriteNumbers
  <2>1. \A k \in 1..Len(disk') : disk'[k] <= w
    BY <1>1, <1>2, <2>0
  <2>2. \A k \in 1..Len(disk) : disk'[k] # w
    BY <1>1, <1>2, <2>0
  <2>3. \A j, k \in 1..Len(disk') : disk'[j] = disk'[k] => j = k
    BY <1>1, <1>2, <2>2 DEF RepoInv, WritesFresh
  <2>4. (\A v \in acked' : v <= w) /\ (\A c \in claims' : c.write <= w)
    <3>1. \A v \in acked' : v \in acked \/ v = w  OBVIOUS
    <3>2. \A c \in claims' : c \in claims \/ c.write = w  OBVIOUS
    <3> QED  BY <1>1, <3>1, <3>2, WriteNumbers
  <2> QED  BY <2>1, <2>3, <2>4 DEF WritesFresh
<1>5. AckedSynced'
  <2>1. \A v \in acked : \E k \in 1..synced : disk'[k] = v
    BY <1>2 DEF RepoInv, AckedSynced, TypeOK
  <2>2. synced <= Len(disk) /\ synced \in Nat  BY DEF RepoInv, TypeOK
  <2>3. CASE synced' = synced /\ acked' = acked  BY <2>1, <2>3 DEF AckedSynced
  <2>4. CASE synced' = Len(disk') /\ acked' = acked \cup {w}
    <3>1. \A v \in acked : \E k \in 1..synced' : disk'[k] = v
      BY <1>2, <2>1, <2>2, <2>4
    <3>2. \E k \in 1..synced' : disk'[k] = w
      BY <1>2, <2>4
    <3> QED  BY <2>4, <3>1, <3>2 DEF AckedSynced
  <2> QED  BY <2>3, <2>4
<1>6. KnownBegins'
  <2>1. \A s \in Seq(Write) : Begins(s, disk) => Begins(s, disk')
    BY <1>1, <1>2, BeginsAppend
  <2>2. Begins(disk, disk') /\ Begins(disk', disk')
    BY <1>2 DEF Begins
  <2>3. ASSUME NEW q \in Proc  PROVE Begins(mem'[q], disk') /\ Begins(saw'[q], disk')
    <3>1. /\ mem[q] \in Seq(Write) /\ saw[q] \in Seq(Write)
          /\ Begins(mem[q], disk) /\ Begins(saw[q], disk)
      BY DEF RepoInv, TypeOK, KnownBegins
    <3>2. mem'[q] \in {mem[q], disk, disk'} /\ saw'[q] = saw[q]
      BY DEF RepoInv, TypeOK
    <3> QED  BY <2>1, <2>2, <3>1, <3>2
  <2> QED  BY <2>3 DEF KnownBegins
<1>7. ClaimsFollow'
  <2> SUFFICES ASSUME NEW c \in claims', NEW k \in 1..Len(disk'), disk'[k] = c.write
               PROVE  k = Len(c.seen) + 1 /\ Begins(c.seen, disk')
    BY DEF ClaimsFollow
  <2>1. CASE c \in claims
    <3>1. c.write <= writes /\ c.seen \in Seq(Write) /\ c.write \in Nat
      BY <2>1, WriteNumbers
    <3>2. k \in 1..Len(disk) /\ disk[k] = c.write
      BY <1>1, <1>2, <3>1
    <3>3. k = Len(c.seen) + 1 /\ Begins(c.seen, disk)
      BY <2>1, <3>2 DEF RepoInv, ClaimsFollow
    <3> QED  BY <1>1, <1>2, <3>1, <3>3, BeginsAppend
  <2>2. CASE c \notin claims
    <3>1. c.write = w /\ c.seen = saw[p] /\ VersionExpected(p)  BY <2>2
    <3>2. saw[p] \in Seq(Write) /\ Begins(saw[p], disk)
      BY DEF RepoInv, TypeOK, KnownBegins
    <3>3. Len(saw[p]) = Len(disk)  BY <3>1 DEF VersionExpected
    <3>4. k = Len(disk) + 1
      BY <1>2, <1>4, <3>1 DEF WritesFresh
    <3> QED  BY <1>1, <1>2, <3>1, <3>2, <3>3, <3>4, BeginsAppend
  <2> QED  BY <2>1, <2>2
<1> QED  BY <1>3, <1>4, <1>5, <1>6, <1>7 DEF RepoInv

\* A host crash drops only writes that were never acknowledged.
LEMMA CrashKeeps == ASSUME RepoInv, HostCrash  PROVE RepoInv'
<1>1. PICK n \in synced..Len(disk) : disk' = SubSeq(disk, 1, n) /\ synced' = n
  BY DEF HostCrash
<1>2. disk \in Seq(Write) /\ synced \in Nat /\ Len(disk) \in Nat /\ n \in 0..Len(disk)
  BY <1>1 DEF RepoInv, TypeOK
<1>3. /\ disk' \in Seq(Write) /\ Len(disk') = n
      /\ \A k \in 1..n : disk'[k] = disk[k]
      /\ \A s \in Seq(Write) : Begins(s, disk) /\ Len(s) <= n => Begins(s, disk')
  BY <1>1, <1>2, KeptPrefix
<1>4. /\ mem' = [p \in Proc |-> disk'] /\ saw' = [p \in Proc |-> <<>>]
      /\ writes' = writes /\ acked' = acked /\ claims' = claims
  BY DEF HostCrash
<1>5. TypeOK'
  <2>1. <<>> \in Seq(Write)  OBVIOUS
  <2>2. synced' \in 0..Len(disk')  BY <1>1, <1>2, <1>3
  <2>3. mem' \in [Proc -> Seq(Write)] /\ saw' \in [Proc -> Seq(Write)]
    BY <1>3, <1>4, <2>1
  <2> QED  BY <1>3, <1>4, <2>2, <2>3 DEF RepoInv, TypeOK
<1>6. WritesFresh'
  <2>1. \A k \in 1..n : k \in 1..Len(disk) /\ disk'[k] = disk[k]  BY <1>2, <1>3
  <2>2. \A k \in 1..Len(disk') : disk'[k] <= writes
    BY <1>3, <2>1, WriteNumbers
  <2>3. \A j, k \in 1..Len(disk') : disk'[j] = disk'[k] => j = k
    BY <1>3, <2>1 DEF RepoInv, WritesFresh
  <2> QED  BY <1>4, <2>2, <2>3, WriteNumbers DEF WritesFresh
<1>7. AckedSynced'
  <2>1. ASSUME NEW w \in acked  PROVE \E k \in 1..n : disk'[k] = w
    <3>1. PICK k \in 1..synced : disk[k] = w  BY DEF RepoInv, AckedSynced
    <3>2. k \in 1..n  BY <1>1, <1>2
    <3> QED  BY <1>3, <3>1, <3>2
  <2> QED  BY <1>1, <1>4, <2>1 DEF AckedSynced
<1>8. KnownBegins'
  <2>1. Begins(disk', disk') /\ Begins(<<>>, disk')  BY <1>3 DEF Begins
  <2> QED  BY <1>4, <2>1 DEF KnownBegins
<1>9. ClaimsFollow'
  <2> SUFFICES ASSUME NEW c \in claims, NEW k \in 1..n, disk'[k] = c.write
               PROVE  k = Len(c.seen) + 1 /\ Begins(c.seen, disk')
    BY <1>3, <1>4 DEF ClaimsFollow
  <2>1. k \in 1..Len(disk) /\ disk[k] = c.write  BY <1>2, <1>3
  <2>2. k = Len(c.seen) + 1 /\ Begins(c.seen, disk)
    BY <2>1 DEF RepoInv, ClaimsFollow
  <2>3. c.seen \in Seq(Write) /\ Len(c.seen) \in Nat  BY WriteNumbers
  <2> QED  BY <1>2, <1>3, <2>2, <2>3
<1> QED  BY <1>5, <1>6, <1>7, <1>8, <1>9 DEF RepoInv

\* Every step of a process and a host crash keep RepoInv.
LEMMA RepoStep == RepoInv /\ [Next]_vars => RepoInv'
<1> SUFFICES ASSUME RepoInv, [Next]_vars  PROVE RepoInv'
  OBVIOUS
<1>0. /\ writes \in 0..MaxWrites /\ writes \in Nat
      /\ claims \subseteq [write : Write, seen : Seq(Write)]
  BY RepositoryAssumption DEF RepoInv, TypeOK
<1>1. ASSUME NEW p \in Proc, Snapshot(p)  PROVE RepoInv'
  <2>1. /\ Load(p) /\ UNCHANGED <<disk, synced, acked>>
        /\ writes' = writes /\ claims' = claims
        /\ \/ saw' = [saw EXCEPT ![p] = disk] \/ saw' = [saw EXCEPT ![p] = <<>>]
    BY <1>1 DEF Snapshot
  <2>2. writes' \in 0..MaxWrites /\ writes' >= writes  BY <1>0, <2>1
  <2> QED  BY <1>0, <2>1, <2>2, LoadKeeps
<1>2. ASSUME NEW p \in Proc, Restart(p)  PROVE RepoInv'
  <2>1. /\ Load(p) /\ UNCHANGED <<disk, synced, acked>>
        /\ writes' = writes /\ claims' = claims
        /\ \/ saw' = [saw EXCEPT ![p] = disk] \/ saw' = [saw EXCEPT ![p] = <<>>]
    BY <1>2 DEF Restart
  <2>2. writes' \in 0..MaxWrites /\ writes' >= writes  BY <1>0, <2>1
  <2> QED  BY <1>0, <2>1, <2>2, LoadKeeps
<1>3. ASSUME NEW p \in Proc, NEW expects \in BOOLEAN, Mutate(p, expects)
      PROVE  RepoInv'
  <2> DEFINE claim == [write |-> writes + 1, seen |-> saw[p]]
  <2>1. writes < MaxWrites /\ saw' = saw  BY <1>3 DEF Mutate
  <2>2. CASE /\ expects => VersionExpected(p)
             /\ Persisted(p) \/ Unsynced(p)
             /\ writes' = writes + 1
             /\ claims' = IF expects THEN claims \cup {claim} ELSE claims
    BY <2>1, <2>2, AppendKeeps DEF Persisted, Unsynced, Candidate, Load
  <2>3. CASE /\ NotWritten(p)
             /\ writes' = writes + 1
             /\ claims' = IF expects THEN claims \cup {claim} ELSE claims
    <3>1. writes' \in 0..MaxWrites /\ writes' >= writes
      BY <1>0, <2>1, <2>3, RepositoryAssumption
    <3>2. claim \in [write : Write, seen : Seq(Write)]
      BY <1>0, <2>1, RepositoryAssumption DEF RepoInv, TypeOK, Write
    <3>3. claims' \subseteq [write : Write, seen : Seq(Write)]
      BY <1>0, <2>3, <3>2
    <3>4. \A c \in claims' \ claims : c.write = writes + 1 /\ c.write <= writes'
      BY <1>0, <2>3
    <3> QED  BY <2>1, <2>3, <3>1, <3>3, <3>4, LoadKeeps DEF NotWritten
  <2>4. CASE NotWritten(p) /\ UNCHANGED <<writes, claims>>
    BY <1>0, <2>1, <2>4, LoadKeeps DEF NotWritten
  <2> QED  BY <1>3, <2>2, <2>3, <2>4 DEF Mutate
<1>4. CASE HostCrash  BY <1>4, CrashKeeps
<1>5. CASE UNCHANGED vars
  BY <1>5 DEF vars, RepoInv, TypeOK, WritesFresh, AckedSynced, KnownBegins,
              ClaimsFollow
<1> QED  BY <1>1, <1>2, <1>3, <1>4, <1>5 DEF Next

\* Of every behaviour of the repository: RepoInv.
LEMMA RepoAlways == Spec => []RepoInv
BY RepoInit, RepoStep, PTL DEF Spec

-----------------------------------------------------------------------------
\* A mutate() that returned is never lost (repository.py _persist acknowledges
\* after the directory fsync).
THEOREM AcknowledgedWritesSurvive == Spec => []AckedSurvives
<1>1. RepoInv => AckedSurvives
  <2> SUFFICES ASSUME RepoInv, NEW w \in acked  PROVE w \in ToSet(disk)
    BY DEF AckedSurvives
  <2>1. PICK k \in 1..synced : disk[k] = w  BY DEF RepoInv, AckedSynced
  <2>2. k \in DOMAIN disk  BY DEF RepoInv, TypeOK
  <2> QED  BY <2>1, <2>2 DEF ToSet
<1> QED  BY <1>1, RepoAlways, PTL

\* No process ever holds a state that was rewritten (repository.py
\* _refresh_from_disk, mutate).
THEOREM MemoryNeverRewritten == Spec => []MemoryIsPrefix
<1>1. RepoInv => MemoryIsPrefix
  BY BeginsIsPrefix DEF RepoInv, TypeOK, KnownBegins, MemoryIsPrefix
<1> QED  BY <1>1, RepoAlways, PTL

\* expected_version is a true compare-and-swap: the write follows directly on
\* the state the caller read (repository.py mutate).
THEOREM ExpectedVersionIsCas == Spec => []CasUnchanged
<1>1. RepoInv => CasUnchanged
  <2> SUFFICES ASSUME RepoInv, NEW c \in claims, c.write \in ToSet(disk)
               PROVE  IsPrefix(Append(c.seen, c.write), disk)
    BY DEF CasUnchanged
  <2>1. disk \in Seq(Write) /\ c.seen \in Seq(Write) /\ c.write \in Write
    BY DEF RepoInv, TypeOK
  <2>2. PICK k \in 1..Len(disk) : disk[k] = c.write  BY <2>1 DEF ToSet
  <2>3. k = Len(c.seen) + 1 /\ Begins(c.seen, disk)
    BY <2>2 DEF RepoInv, ClaimsFollow
  <2>4. Append(c.seen, c.write) \in Seq(Write) /\ Begins(Append(c.seen, c.write), disk)
    BY <2>1, <2>2, <2>3 DEF Begins
  <2> QED  BY <2>1, <2>4, BeginsIsPrefix
<1> QED  BY <1>1, RepoAlways, PTL
=============================================================================
