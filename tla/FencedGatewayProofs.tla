------------------------ MODULE FencedGatewayProofs ------------------------
(***************************************************************************)
(* The fenced admission on its durable store, for any number of processes, *)
(* epochs and writes: it is the gateway of WindowsFence whatever fails, and  *)
(* what the store acknowledged stays.                                      *)
(***************************************************************************)
EXTENDS FencedGateway, FiniteSetTheorems, SequenceTheorems, TLAPS

State == Seq(Mutation)

-----------------------------------------------------------------------------
(* The invariant.                                                          *)

StoreTypeOK ==
    /\ file \in State \cup {None} /\ ledger \in State \cup {None}
    /\ fileSynced \in BOOLEAN /\ anchored \in Nat
    /\ proc \in [Proc -> {"down", "boot", "open"}]
    /\ seen \in [Proc -> State]
    /\ effective \in State /\ acked \subseteq State

\* The state file is never behind its ledger, and a replacement that was not
\* synced is all that it is ahead.
LineageInv ==
    /\ ledger = None => /\ anchored = 0 /\ effective = <<>>
                        /\ file \in {None, <<>>}
    /\ ledger # None => file # None /\ IsPrefix(ledger, file) /\ anchored <= Len(ledger)
    /\ ~fileSynced => file # None /\ ledger = Before(file)

\* Who bootstraps has created the file, who is open has found both.
OpenInv ==
    \A p \in Proc :
        /\ proc[p] = "boot" /\ ledger = None => file = <<>> /\ fileSynced
        /\ proc[p] = "boot" => file # None
        /\ proc[p] = "open" => ledger # None

\* A state that can be read, now or after a replacement is undone, is the newest,
\* or of a history that was put back and is not there yet.
NewestInv ==
    \/ ledger = None
    \/ ledger = effective
    \/ ledger # file /\ fileSynced
    \/ rolledBack /\ ~IsPrefix(effective, ledger)

\* What was acknowledged is under a synced anchor.
AckedInv ==
    ~rolledBack =>
      \A s \in acked : ledger # None /\ IsPrefix(s, ledger) /\ Len(s) <= anchored

\* After files were put back, the gateway is either fenced off by what it saw, or
\* what it saw was written again and it reads the newest state.
BackInv ==
    rolledBack /\ proc[GatewayProc] = "open" =>
      LET s == seen[GatewayProc]
      IN \/ IsPrefix(s, file) /\ (ledger = file => file = effective)
         \/ ~IsPrefix(s, file) /\ s = effective

StoreInv == StoreTypeOK /\ LineageInv /\ OpenInv /\ NewestInv /\ AckedInv /\ BackInv

\* The epochs of a state have a largest.
Ascending(s) ==
    /\ \A e \in {0} \cup Installs(s) : e <= EpochOf(s)
    /\ EpochOf(s) \in {0} \cup Installs(s)

\* A gateway that is down has no fence.
ActiveInv ==
    /\ active \in 0..MaxEpoch
    /\ proc[GatewayProc] # "open" => active = 0
    /\ Ascending(effective)

\* A generation was returned with a state that has it.
HandedInv ==
    /\ handed \in [1..MaxWrites -> Nat]
    /\ ~rolledBack =>
         \A g \in 1..MaxWrites :
            /\ handed[g] <= 1
            /\ handed[g] > 0 => \E s \in acked : g <= GenerationOf(s)

GatewayInv == StoreInv /\ ActiveInv /\ HandedInv

-----------------------------------------------------------------------------
(* States and their prefixes.                                              *)

LEMMA PrefixDef ==
    ASSUME NEW s \in State, NEW t \in State
    PROVE  IsPrefix(s, t) <=> Len(s) <= Len(t) /\ \A n \in 1..Len(s) : s[n] = t[n]
<1>1. CASE Len(s) <= Len(t)
  <2>1. /\ SubSeq(t, 1, Len(s)) \in State /\ Len(SubSeq(t, 1, Len(s))) = Len(s)
        /\ \A n \in 1..Len(s) : SubSeq(t, 1, Len(s))[n] = t[n]
    <3>1. s \in Seq(Mutation) /\ t \in Seq(Mutation) /\ Len(s) \in Nat /\ Len(t) \in Nat
      BY DEF State
    <3>2. \A n \in 1..Len(s) : n \in 1..Len(t) /\ t[n] \in Mutation  BY <1>1, <3>1
    <3> QED  BY <1>1, <3>1, <3>2, SubSeqProperties DEF State
  <2>2. SubSeq(s, 1, Len(s)) = s  BY SubSeqFull DEF State
  <2>3. s = SubSeq(t, 1, Len(s)) <=> \A n \in 1..Len(s) : s[n] = t[n]
    <3> DEFINE c == SubSeq(t, 1, Len(s))
    <3>1. c \in Seq(Mutation) /\ s \in Seq(Mutation) /\ Len(c) = Len(s)
      BY <2>1 DEF State
    <3>2. \A n \in 1..Len(s) : c[n] = t[n]  BY <2>1
    <3> HIDE DEF c
    <3>3. (\A n \in 1..Len(s) : s[n] = c[n]) => s = c  BY <3>1, SeqEqual
    <3> QED  BY <3>2, <3>3 DEF c
  <2> QED  BY <1>1, <2>2, <2>3 DEF IsPrefix
<1>2. CASE ~(Len(s) <= Len(t))  BY <1>2 DEF IsPrefix
<1> QED  BY <1>1, <1>2

LEMMA PrefixFacts ==
    ASSUME NEW s \in State, NEW t \in State
    PROVE  /\ Len(s) \in Nat
           /\ <<>> \in State /\ IsPrefix(<<>>, s) /\ IsPrefix(s, s)
           /\ IsPrefix(s, t) => Len(s) <= Len(t)
           /\ IsPrefix(s, t) /\ Len(t) <= Len(s) => s = t
           /\ \A u \in State : IsPrefix(s, t) /\ IsPrefix(t, u) => IsPrefix(s, u)
<1>1. Len(s) \in Nat /\ Len(t) \in Nat /\ <<>> \in State /\ Len(<<>>) = 0  BY DEF State
<1>2. IsPrefix(<<>>, s) /\ IsPrefix(s, s)  BY <1>1, PrefixDef
<1>3. IsPrefix(s, t) => Len(s) <= Len(t)  BY PrefixDef
<1>4. IsPrefix(s, t) /\ Len(t) <= Len(s) => s = t
  BY <1>1, PrefixDef, SeqEqual DEF State
<1>5. ASSUME NEW u \in State, IsPrefix(s, t), IsPrefix(t, u)  PROVE IsPrefix(s, u)
  <2>1. Len(u) \in Nat  BY DEF State
  <2> QED  BY <1>1, <1>5, <2>1, PrefixDef
<1> QED  BY <1>1, <1>2, <1>3, <1>4, <1>5

\* A mutation makes a state the next one of a line.
LEMMA AppendFacts ==
    ASSUME NEW s \in State, NEW w \in Mutation
    PROVE  /\ Append(s, w) \in State /\ Len(Append(s, w)) = Len(s) + 1
           /\ Append(s, w) # s /\ Append(s, w) # <<>> /\ Front(Append(s, w)) = s
           /\ IsPrefix(s, Append(s, w)) /\ ~IsPrefix(Append(s, w), s)
           /\ \A t \in State : IsPrefix(t, Append(s, w)) => IsPrefix(t, s) \/ t = Append(s, w)
<1> DEFINE a == Append(s, w)
<1>1. /\ a \in State /\ Len(a) = Len(s) + 1 /\ Len(s) \in Nat
      /\ \A n \in 1..Len(s) : a[n] = s[n]
  BY AppendProperties DEF State
<1>2. a # s /\ a # <<>>
  <2>1. Len(<<>>) = 0  OBVIOUS
  <2> HIDE DEF a
  <2> QED  BY <1>1, <2>1
<1>3. Front(a) = s
  <2>1. a \in Seq(Mutation) /\ s \in Seq(Mutation)  BY <1>1 DEF State
  <2>2. \A n \in 1..Len(s) : a[n] \in Mutation  BY <1>1, <2>1
  <2> HIDE DEF a
  <2>3. /\ SubSeq(a, 1, Len(s)) \in Seq(Mutation) /\ Len(SubSeq(a, 1, Len(s))) = Len(s)
        /\ \A n \in 1..Len(s) : SubSeq(a, 1, Len(s))[n] = a[n]
    BY <1>1, <2>1, <2>2, SubSeqProperties
  <2>4. SubSeq(a, 1, Len(s)) = s  BY <1>1, <2>1, <2>3, SeqEqual
  <2>5. Len(a) - 1 = Len(s)  BY <1>1
  <2> QED  BY <2>4, <2>5 DEF Front
<1> HIDE DEF a
<1>4. IsPrefix(s, a) /\ ~IsPrefix(a, s)  BY <1>1, PrefixDef
<1>5. ASSUME NEW t \in State, IsPrefix(t, a), t # a  PROVE IsPrefix(t, s)
  <2>1. Len(t) <= Len(s) /\ Len(t) \in Nat
    BY <1>1, <1>5, PrefixFacts
  <2>2. \A n \in 1..Len(t) : n \in 1..Len(s) /\ t[n] = a[n]
    BY <1>1, <1>5, <2>1, PrefixDef
  <2> QED  BY <1>1, <2>1, <2>2, PrefixDef
<1> QED  BY <1>1, <1>2, <1>3, <1>4, <1>5 DEF a

\* What is left of a ledger.
LEMMA CutFacts ==
    ASSUME NEW s \in State, NEW n \in 0..Len(s)
    PROVE  /\ SubSeq(s, 1, n) \in State /\ Len(SubSeq(s, 1, n)) = n
           /\ IsPrefix(SubSeq(s, 1, n), s)
           /\ \A t \in State : IsPrefix(t, s) /\ Len(t) <= n => IsPrefix(t, SubSeq(s, 1, n))
<1>1. s \in Seq(Mutation) /\ Len(s) \in Nat /\ n \in Nat /\ n <= Len(s)  BY DEF State
<1>2. \A k \in 1..n : k \in 1..Len(s) /\ s[k] \in Mutation  BY <1>1
<1> DEFINE c == SubSeq(s, 1, n)
<1>3. c \in State /\ Len(c) = n /\ \A k \in 1..n : c[k] = s[k]
  BY <1>1, <1>2, SubSeqProperties DEF State
<1> HIDE DEF c
<1>4. IsPrefix(c, s)  BY <1>1, <1>3, PrefixDef
<1>5. ASSUME NEW t \in State, IsPrefix(t, s), Len(t) <= n  PROVE IsPrefix(t, c)
  <2>1. Len(t) \in Nat /\ \A k \in 1..Len(t) : t[k] = s[k]
    BY <1>5, PrefixDef, PrefixFacts
  <2> QED  BY <1>1, <1>3, <1>5, <2>1, PrefixDef
<1> QED  BY <1>3, <1>4, <1>5 DEF c

-----------------------------------------------------------------------------
(* The steps of the store.                                                 *)

\* A file that is there is a state.
LEMMA NoneIsNoState ==
    None \notin State /\ <<>> \in State /\ <<>> # None /\ \A s \in State : s # None
<1>1. None \notin State /\ <<>> \in State  BY GatewayAssumption DEF State
<1> QED  BY <1>1

\* Who may read finds the newest state, be it the gateway after a roll back.
LEMMA ReadsNewest ==
    ASSUME StoreInv, NEW p \in Proc, Refreshable(p)
    PROVE  /\ file \in State /\ ledger = file /\ fileSynced = TRUE
           /\ ~rolledBack \/ p = GatewayProc => file = effective
           /\ IsPrefix(effective, file) => file = effective
<1>1. file \in State /\ ledger = file /\ ledger # None
  BY DEF Refreshable, Consistent, StoreInv, StoreTypeOK
<1>2. fileSynced = TRUE
  <2>1. ASSUME ~fileSynced  PROVE FALSE
    <3>1. ledger = Before(file)  BY <2>1 DEF StoreInv, LineageInv
    <3>2. file # <<>>  BY <1>1, <3>1 DEF Before
    <3>3. Len(file) \in Nat /\ Len(file) > 0 /\ Front(file) = file
      BY <1>1, <3>1, <3>2, EmptySeq DEF Before, State
    <3>4. Len(Front(file)) = Len(file) - 1
      BY <1>1, <3>3, CutFacts DEF Front
    <3> QED  BY <3>3, <3>4
  <2> QED  BY <2>1 DEF StoreInv, StoreTypeOK
<1>0. IsPrefix(effective, file) => file = effective
  BY <1>1, <1>2 DEF StoreInv, NewestInv
<1>3. CASE ~rolledBack  BY <1>1, <1>2, <1>3 DEF StoreInv, NewestInv
<1>4. CASE rolledBack /\ p = GatewayProc
  <2>1. proc[GatewayProc] = "open" /\ IsPrefix(seen[GatewayProc], file)
    BY <1>4 DEF Refreshable
  <2>2. BackInv  BY DEF StoreInv
  <2> QED  BY <1>1, <1>2, <1>4, <2>1, <2>2 DEF BackInv
<1> QED  BY <1>0, <1>1, <1>2, <1>3, <1>4

LEMMA RefreshKeeps ==
    ASSUME StoreInv, NEW p \in Proc, Refresh(p), UNCHANGED rolledBack  PROVE StoreInv'
<1>1. /\ Refreshable(p) /\ seen' = [seen EXCEPT ![p] = file]
      /\ UNCHANGED <<file, fileSynced, ledger, anchored, proc, effective, acked, rolledBack>>
  BY DEF Refresh, See
<1>2. file \in State /\ (p = GatewayProc => file = effective)  BY <1>1, ReadsNewest
<1>3. StoreTypeOK'  BY <1>1, <1>2 DEF StoreInv, StoreTypeOK
<1>4. LineageInv' /\ OpenInv' /\ NewestInv' /\ AckedInv'
  BY <1>1 DEF StoreInv, LineageInv, OpenInv, NewestInv, AckedInv, Before
<1>5. BackInv'
  <2>1. CASE p = GatewayProc
    <3>1. seen'[GatewayProc] = file  BY <1>1, <2>1 DEF StoreInv, StoreTypeOK
    <3> QED  BY <1>1, <1>2, <2>1, <3>1, PrefixFacts DEF BackInv
  <2>2. CASE p # GatewayProc
    BY <1>1, <2>2, GatewayAssumption DEF StoreInv, StoreTypeOK, BackInv
  <2> QED  BY <2>1, <2>2
<1> QED  BY <1>3, <1>4, <1>5 DEF StoreInv

\* A mutation whose anchor was written.
Anchored(p, w) ==
    /\ file' = Append(file, w) /\ fileSynced' = TRUE /\ ledger' = file'
    /\ seen' \in {[seen EXCEPT ![p] = file], [seen EXCEPT ![p] = file']}
    /\ TakesEffect
    /\ \/ anchored' \in {anchored, Len(file')} /\ acked' = acked
       \/ anchored' = Len(file') /\ acked' = acked \cup {file'}
    /\ UNCHANGED <<proc, rolledBack>>

LEMMA AnchoredKeeps ==
    ASSUME StoreInv, NEW p \in Proc, Refreshable(p), NEW w \in Mutation, Anchored(p, w)
    PROVE  StoreInv'
<1> USE DEF Anchored
<1>0. /\ file \in State /\ ledger = file
      /\ ~rolledBack \/ p = GatewayProc => file = effective
      /\ IsPrefix(effective, file) => file = effective
  BY ReadsNewest
<1>1. /\ file' \in State /\ file' # None /\ Len(file) \in Nat /\ Len(file') = Len(file) + 1
      /\ IsPrefix(file, file') /\ IsPrefix(file', file') /\ IsPrefix(file, file)
  BY <1>0, AppendFacts, PrefixFacts, NoneIsNoState
<1>2. /\ effective' \in State
      /\ IsPrefix(effective, file) => effective' = file'
      /\ ~IsPrefix(effective, file) => effective' = effective
  BY <1>1 DEF TakesEffect, StoreInv, StoreTypeOK
<1>3. anchored <= Len(file) /\ anchored \in Nat
  BY <1>0, NoneIsNoState DEF StoreInv, StoreTypeOK, LineageInv
<1>a. /\ anchored <= anchored' /\ anchored' <= Len(file') /\ anchored' \in Nat
      /\ acked' = acked \/ (acked' = acked \cup {file'} /\ anchored' = Len(file'))
  <2>1. anchored' \in {anchored, Len(file')}  OBVIOUS
  <2>2. acked' = acked \/ (acked' = acked \cup {file'} /\ anchored' = Len(file'))  OBVIOUS
  <2> HIDE DEF Anchored
  <2> QED  BY <1>1, <1>3, <2>1, <2>2
<1>4. StoreTypeOK'
  <2>1. seen' \in [Proc -> State]  BY <1>0, <1>1 DEF StoreInv, StoreTypeOK
  <2>2. anchored' \in Nat /\ acked' \subseteq State
    BY <1>1, <1>a DEF StoreInv, StoreTypeOK
  <2> QED  BY <1>1, <1>2, <2>1, <2>2 DEF StoreInv, StoreTypeOK
<1>5. LineageInv'  BY <1>1, <1>a DEF LineageInv
<1>6. OpenInv'  BY <1>1 DEF StoreInv, OpenInv
<1>7. NewestInv'
  <2>1. CASE IsPrefix(effective, file)
    BY <1>2, <2>1 DEF NewestInv
  <2>2. CASE ~IsPrefix(effective, file)
    <3>1. effective \in State /\ rolledBack
      BY <1>0, <1>1, <2>2 DEF StoreInv, StoreTypeOK
    <3>2. effective' = effective /\ (IsPrefix(effective, file') => effective = file')
      BY <1>0, <1>2, <2>2, <3>1, AppendFacts
    <3> QED  BY <3>1, <3>2 DEF NewestInv
  <2> QED  BY <2>1, <2>2
<1>8. AckedInv'
  <2>1. ASSUME ~rolledBack, NEW s \in acked  PROVE IsPrefix(s, file') /\ Len(s) <= anchored'
    <3>1. s \in State /\ IsPrefix(s, file) /\ Len(s) <= anchored /\ Len(s) \in Nat
      BY <1>0, <2>1, PrefixFacts DEF StoreInv, StoreTypeOK, AckedInv
    <3> QED  BY <1>0, <1>1, <1>3, <1>a, <3>1, PrefixFacts
  <2>2. ASSUME ~rolledBack, NEW s \in acked'  PROVE IsPrefix(s, file') /\ Len(s) <= anchored'
    BY <1>1, <1>a, <2>1, <2>2
  <2>3. ledger' = file' /\ rolledBack' = rolledBack  OBVIOUS
  <2> HIDE DEF Anchored
  <2> QED  BY <1>1, <2>2, <2>3 DEF AckedInv
<1>9. BackInv'
  <2> SUFFICES ASSUME rolledBack, proc[GatewayProc] = "open"
               PROVE  LET s == seen'[GatewayProc]
                      IN \/ IsPrefix(s, file') /\ (ledger' = file' => file' = effective')
                         \/ ~IsPrefix(s, file') /\ s = effective'
    BY DEF BackInv
  <2>1. CASE p = GatewayProc
    <3>1. seen'[GatewayProc] \in {file, file'}  BY <2>1 DEF StoreInv, StoreTypeOK
    <3> QED  BY <1>0, <1>1, <1>2, <2>1, <3>1
  <2>2. CASE p # GatewayProc
    <3> DEFINE s == seen[GatewayProc]
    <3>1. seen'[GatewayProc] = s /\ s \in State
      BY <2>2, GatewayAssumption DEF StoreInv, StoreTypeOK
    <3>2. CASE IsPrefix(s, file) /\ file = effective
      BY <1>0, <1>1, <1>2, <3>1, <3>2, PrefixFacts
    <3>3. CASE ~IsPrefix(s, file) /\ s = effective
      BY <1>0, <1>1, <1>2, <3>1, <3>3, AppendFacts
    <3> QED  BY <1>0, <3>2, <3>3 DEF StoreInv, BackInv
  <2> QED  BY <2>1, <2>2
<1> QED  BY <1>4, <1>5, <1>6, <1>7, <1>8, <1>9 DEF StoreInv

LEMMA UnanchoredKeeps ==
    ASSUME StoreInv, NEW p \in Proc, Refreshable(p), NEW w \in Mutation, Unanchored(p, w),
           UNCHANGED rolledBack
    PROVE  StoreInv'
<1>0. /\ file' = Append(file, w) /\ fileSynced' \in BOOLEAN
      /\ seen' = [seen EXCEPT ![p] = file]
      /\ UNCHANGED <<ledger, anchored, proc, effective, acked, rolledBack>>
  BY DEF Unanchored, Candidate, See
<1>1. /\ file \in State /\ ledger = file /\ ledger # None
      /\ ~rolledBack \/ p = GatewayProc => file = effective
  BY ReadsNewest, NoneIsNoState
<1>2. /\ file' \in State /\ file' # None /\ file' # file /\ Before(file') = file
      /\ IsPrefix(file, file') /\ IsPrefix(file, file)
  BY <1>0, <1>1, AppendFacts, PrefixFacts, NoneIsNoState DEF Before
<1>3. StoreTypeOK'  BY <1>0, <1>1, <1>2 DEF StoreInv, StoreTypeOK
<1>4. LineageInv'  BY <1>0, <1>1, <1>2 DEF StoreInv, LineageInv
<1>5. OpenInv'  BY <1>0, <1>1, <1>2 DEF StoreInv, OpenInv
<1>6. NewestInv'  BY <1>0, <1>1 DEF StoreInv, NewestInv
<1>7. AckedInv'  BY <1>0 DEF StoreInv, AckedInv
<1>8. BackInv'
  <2> SUFFICES ASSUME rolledBack, proc[GatewayProc] = "open"
               PROVE  LET s == seen'[GatewayProc]
                      IN IsPrefix(s, file') \/ (~IsPrefix(s, file') /\ s = effective')
    BY <1>0, <1>1, <1>2 DEF BackInv
  <2>1. CASE p = GatewayProc
    <3>1. seen'[GatewayProc] = file  BY <1>0, <2>1 DEF StoreInv, StoreTypeOK
    <3> QED  BY <1>2, <3>1
  <2>2. CASE p # GatewayProc
    <3>1. seen'[GatewayProc] = seen[GatewayProc] /\ seen[GatewayProc] \in State
      BY <1>0, <2>2, GatewayAssumption DEF StoreInv, StoreTypeOK
    <3> QED  BY <1>0, <1>1, <1>2, <3>1, PrefixFacts DEF StoreInv, BackInv
  <2> QED  BY <2>1, <2>2
<1> QED  BY <1>3, <1>4, <1>5, <1>6, <1>7, <1>8 DEF StoreInv

LEMMA StoreStepKeeps ==
    ASSUME StoreInv, NEW p \in Proc, StoreStep(p)  PROVE StoreInv'
<1>0. UNCHANGED <<rolledBack, effective, acked, anchored>>
  BY DEF StoreStep, Refresh, CreateState, FindState, CreateLedger, Open
<1>1. CASE Refresh(p)  BY <1>0, <1>1, RefreshKeeps
<1>2. CASE CreateState(p)
  <2>1. /\ file = None /\ ledger = None /\ file' = <<>>
        /\ \/ fileSynced' = TRUE /\ proc' = [proc EXCEPT ![p] = "boot"]
           \/ fileSynced' = FALSE /\ UNCHANGED proc
        /\ UNCHANGED <<ledger, anchored, seen, effective, acked, rolledBack>>
    BY <1>0, <1>2 DEF CreateState
  <2>2. <<>> \in State /\ <<>> # None  BY NoneIsNoState
  <2>3. \A q \in Proc : proc[q] # "open" /\ proc[q] # "boot"
    BY <2>1 DEF StoreInv, OpenInv
  <2>4. StoreTypeOK'  BY <2>1, <2>2 DEF StoreInv, StoreTypeOK
  <2>5. LineageInv'  BY <2>1, <2>2 DEF StoreInv, LineageInv, Before
  <2>6. OpenInv'  BY <2>1, <2>2, <2>3 DEF StoreInv, StoreTypeOK, OpenInv
  <2>7. NewestInv' /\ AckedInv'  BY <2>1 DEF StoreInv, NewestInv, AckedInv
  <2>8. proc'[GatewayProc] # "open"
    BY <2>1, <2>3, GatewayAssumption DEF StoreInv, StoreTypeOK
  <2> QED  BY <2>4, <2>5, <2>6, <2>7, <2>8 DEF StoreInv, BackInv
<1>3. CASE FindState(p)
  <2>1. /\ proc[p] = "down" /\ file = <<>> /\ ledger = None
        /\ \E q \in Proc : proc[q] = "boot"
        /\ proc' = [proc EXCEPT ![p] = "boot"]
        /\ UNCHANGED <<file, fileSynced, ledger, anchored, seen, effective, acked, rolledBack>>
    BY <1>0, <1>3 DEF FindState
  <2>2. <<>> # None  BY NoneIsNoState
  <2>3. fileSynced  BY <2>1 DEF StoreInv, OpenInv
  <2>4. StoreTypeOK'  BY <2>1 DEF StoreInv, StoreTypeOK
  <2>5. OpenInv'  BY <2>1, <2>2, <2>3 DEF StoreInv, StoreTypeOK, OpenInv
  <2>6. LineageInv' /\ NewestInv' /\ AckedInv'
    BY <2>1 DEF StoreInv, LineageInv, NewestInv, AckedInv, Before
  <2>7. proc'[GatewayProc] # "open"
    BY <2>1, GatewayAssumption DEF StoreInv, StoreTypeOK, OpenInv
  <2> QED  BY <2>4, <2>5, <2>6, <2>7 DEF StoreInv, BackInv
<1>4. CASE CreateLedger(p)
  <2>1. /\ proc[p] = "boot"
        /\ ledger' = IF ledger = None THEN <<>> ELSE ledger
        /\ proc' = [proc EXCEPT ![p] = "down"]
        /\ UNCHANGED <<file, fileSynced, anchored, seen, effective, acked, rolledBack>>
    BY <1>0, <1>4 DEF CreateLedger
  <2>2. <<>> \in State /\ <<>> # None /\ IsPrefix(<<>>, <<>>) /\ Len(<<>>) = 0
    BY NoneIsNoState, PrefixFacts
  <2>3. file # None /\ (ledger = None => file = <<>> /\ fileSynced)
    BY <2>1 DEF StoreInv, OpenInv
  <2>4. StoreTypeOK'  BY <2>1, <2>2 DEF StoreInv, StoreTypeOK
  <2>5. OpenInv'  BY <2>1, <2>2, <2>3 DEF StoreInv, StoreTypeOK, OpenInv
  <2>6. LineageInv' /\ NewestInv' /\ AckedInv'
    BY <2>1, <2>2, <2>3 DEF StoreInv, LineageInv, NewestInv, AckedInv, Before
  <2>7. BackInv'
    <3>1. proc'[GatewayProc] = "open" => proc[GatewayProc] = "open" /\ ledger # None
      BY <2>1, GatewayAssumption DEF StoreInv, StoreTypeOK, OpenInv
    <3> QED  BY <2>1, <3>1 DEF StoreInv, BackInv
  <2> QED  BY <2>4, <2>5, <2>6, <2>7 DEF StoreInv
<1>5. CASE Open(p) /\ ~(rolledBack /\ p = GatewayProc)
  <2>1. /\ file # None /\ ledger # None /\ ledger = file
        /\ proc' = [proc EXCEPT ![p] = "open"] /\ seen' = [seen EXCEPT ![p] = file]
        /\ UNCHANGED <<file, fileSynced, ledger, anchored, effective, acked, rolledBack>>
    BY <1>0, <1>5 DEF Open, Consistent, See
  <2>2. StoreTypeOK'  BY <2>1 DEF StoreInv, StoreTypeOK
  <2>3. OpenInv'  BY <2>1 DEF StoreInv, StoreTypeOK, OpenInv
  <2>4. LineageInv' /\ NewestInv' /\ AckedInv'
    BY <2>1 DEF StoreInv, LineageInv, NewestInv, AckedInv, Before
  <2>5. BackInv'
    <3>1. CASE rolledBack
      <4>1. /\ proc'[GatewayProc] = proc[GatewayProc]
            /\ seen'[GatewayProc] = seen[GatewayProc]
        BY <1>5, <2>1, <3>1, GatewayAssumption DEF StoreInv, StoreTypeOK
      <4> QED  BY <2>1, <4>1 DEF StoreInv, BackInv
    <3>2. CASE ~rolledBack  BY <2>1, <3>2 DEF BackInv
    <3> QED  BY <3>1, <3>2
  <2> QED  BY <2>2, <2>3, <2>4, <2>5 DEF StoreInv
<1> QED  BY <1>1, <1>2, <1>3, <1>4, <1>5 DEF StoreStep

LEMMA CrashKeeps ==
    ASSUME StoreInv, NEW p \in Proc, Crash(p), UNCHANGED rolledBack  PROVE StoreInv'
<1>1. /\ proc' = [proc EXCEPT ![p] = "down"] /\ seen' = [seen EXCEPT ![p] = <<>>]
      /\ UNCHANGED <<file, fileSynced, ledger, anchored, effective, acked, rolledBack>>
  BY DEF Crash, See
<1>2. <<>> \in State  BY DEF State
<1>3. StoreTypeOK' /\ OpenInv'  BY <1>1, <1>2 DEF StoreInv, StoreTypeOK, OpenInv
<1>4. LineageInv' /\ NewestInv' /\ AckedInv'
  BY <1>1 DEF StoreInv, LineageInv, NewestInv, AckedInv, Before
<1>5. BackInv'
  <2>1. p # GatewayProc => /\ proc'[GatewayProc] = proc[GatewayProc]
                           /\ seen'[GatewayProc] = seen[GatewayProc]
    BY <1>1, GatewayAssumption DEF StoreInv, StoreTypeOK
  <2>2. p = GatewayProc => proc'[GatewayProc] = "down"
    BY <1>1 DEF StoreInv, StoreTypeOK
  <2> QED  BY <1>1, <2>1, <2>2 DEF StoreInv, BackInv
<1> QED  BY <1>3, <1>4, <1>5 DEF StoreInv

\* What a host crash can undo was not acknowledged.
LEMMA HostCrashKeeps ==
    ASSUME StoreInv, HostCrash, UNCHANGED rolledBack  PROVE StoreInv'
<1>1. /\ file' = file \/ (~fileSynced /\ file' = ledger)
      /\ fileSynced' = TRUE
      /\ proc' = [p \in Proc |-> "down"] /\ seen' = [p \in Proc |-> <<>>]
      /\ UNCHANGED <<effective, acked, rolledBack>>
  BY DEF HostCrash, StoreInv, LineageInv
<1>2. <<>> \in State  BY DEF State
<1>3. CASE ledger = None
  <2>1. UNCHANGED <<ledger, anchored>>  BY <1>3 DEF HostCrash
  <2>2. StoreTypeOK'  BY <1>1, <1>2, <2>1 DEF StoreInv, StoreTypeOK
  <2>3. LineageInv'  BY <1>1, <1>3, <2>1 DEF StoreInv, LineageInv
  <2>4. OpenInv' /\ BackInv'  BY <1>1, GatewayAssumption DEF OpenInv, BackInv
  <2>5. NewestInv' /\ AckedInv'
    BY <1>1, <1>3, <2>1 DEF StoreInv, NewestInv, AckedInv
  <2> QED  BY <2>2, <2>3, <2>4, <2>5 DEF StoreInv
<1>4. CASE ledger # None
  <2>0. /\ ledger \in State /\ file \in State /\ Len(ledger) \in Nat
        /\ anchored \in Nat /\ anchored <= Len(ledger) /\ IsPrefix(ledger, file)
    BY <1>4, PrefixFacts DEF StoreInv, StoreTypeOK, LineageInv
  <2>1. PICK n \in anchored..Len(ledger) : ledger' = SubSeq(ledger, 1, n) /\ anchored' = n
    BY <1>4 DEF HostCrash
  <2>2. n \in 0..Len(ledger) /\ anchored <= n  BY <2>0, <2>1
  <2>3. /\ ledger' \in State /\ Len(ledger') = n /\ ledger' # None
        /\ IsPrefix(ledger', ledger)
        /\ \A t \in State : IsPrefix(t, ledger) /\ Len(t) <= n => IsPrefix(t, ledger')
    BY <2>0, <2>1, <2>2, CutFacts, NoneIsNoState
  <2>4. /\ file' \in State /\ file' # None /\ IsPrefix(ledger', file')
        /\ ledger' = file' => ledger' = ledger /\ (ledger = file \/ ~fileSynced)
    BY <1>1, <2>0, <2>3, PrefixFacts, NoneIsNoState
  <2>5. StoreTypeOK'
    BY <1>1, <1>2, <2>1, <2>2, <2>3, <2>4 DEF StoreInv, StoreTypeOK
  <2>6. LineageInv'  BY <1>1, <2>1, <2>2, <2>3, <2>4 DEF LineageInv
  <2>7. NewestInv'  BY <1>1, <1>4, <2>4 DEF StoreInv, NewestInv
  <2>8. AckedInv'
    <3>1. ASSUME ~rolledBack, NEW s \in acked  PROVE IsPrefix(s, ledger') /\ Len(s) <= n
      <4>1. s \in State /\ IsPrefix(s, ledger) /\ Len(s) <= anchored /\ Len(s) \in Nat
        BY <3>1, PrefixFacts DEF StoreInv, StoreTypeOK, AckedInv
      <4> QED  BY <2>0, <2>1, <2>2, <2>3, <4>1
    <3> QED  BY <1>1, <2>1, <2>3, <3>1 DEF AckedInv
  <2>9. OpenInv' /\ BackInv'  BY <1>1, GatewayAssumption DEF OpenInv, BackInv
  <2> QED  BY <2>5, <2>6, <2>7, <2>8, <2>9 DEF StoreInv
<1> QED  BY <1>3, <1>4

\* The gateway that saw the newest state is fenced off by it.
LEMMA RollbackKeeps == ASSUME StoreInv, Rollback  PROVE StoreInv'
<1>1. /\ ~rolledBack /\ proc[GatewayProc] = "open" /\ seen[GatewayProc] = file
      /\ file # None /\ ledger = file /\ rolledBack' = TRUE
      /\ UNCHANGED <<fileSynced, proc, seen, effective, acked>>
  BY DEF Rollback, PutBack, Consistent
<1>2. file \in State /\ Len(file) \in Nat /\ Len(seen[GatewayProc]) = Len(file)
  BY <1>1, PrefixFacts DEF StoreInv, StoreTypeOK
<1>3. PICK n \in 0..(Len(file) - 1) :
         file' = SubSeq(file, 1, n) /\ ledger' = file' /\ anchored' = n
  BY <1>1 DEF Rollback, PutBack
<1>4. n \in 0..Len(file) /\ n < Len(file)  BY <1>2, <1>3
<1>5. /\ file' \in State /\ file' # None /\ Len(file') = n /\ IsPrefix(file', file')
      /\ ~IsPrefix(file, file')
  <2>1. file' \in State /\ Len(file') = n  BY <1>2, <1>3, <1>4, CutFacts
  <2> QED  BY <1>2, <1>4, <2>1, PrefixFacts, NoneIsNoState
<1>6. Refreshable(GatewayProc)
  BY <1>1, <1>2, PrefixFacts DEF Refreshable, Consistent
<1>7. fileSynced = TRUE /\ file = effective  BY <1>1, <1>6, ReadsNewest, GatewayAssumption
<1>8. StoreTypeOK'  BY <1>1, <1>3, <1>4, <1>5 DEF StoreInv, StoreTypeOK
<1>9. LineageInv'  BY <1>1, <1>3, <1>4, <1>5, <1>7 DEF LineageInv
<1>10. OpenInv'  BY <1>1, <1>3, <1>5 DEF OpenInv
<1>11. NewestInv' /\ AckedInv'  BY <1>1, <1>3, <1>5, <1>7 DEF NewestInv, AckedInv
<1>12. BackInv'  BY <1>1, <1>5, <1>7 DEF BackInv
<1> QED  BY <1>8, <1>9, <1>10, <1>11, <1>12 DEF StoreInv

-----------------------------------------------------------------------------
(* The fields of a state.                                                  *)

LEMMA AppendedSet ==
    ASSUME NEW s \in State, NEW w \in Mutation
    PROVE  ToSet(Append(s, w)) = ToSet(s) \cup {w}
<1>1. /\ Len(Append(s, w)) = Len(s) + 1 /\ Len(s) \in Nat
      /\ \A n \in 1..Len(s) : Append(s, w)[n] = s[n]
      /\ Append(s, w)[Len(s) + 1] = w
      /\ DOMAIN s = 1..Len(s) /\ DOMAIN Append(s, w) = 1..(Len(s) + 1)
  BY AppendProperties DEF State
<1> DEFINE a == Append(s, w)
<1> HIDE DEF a
<1>2. \A n \in 1..(Len(s) + 1) : n \in 1..Len(s) \/ n = Len(s) + 1  BY <1>1
<1> QED  BY <1>1, <1>2 DEF ToSet, a

LEMMA Mutations ==
    /\ Generation \in Mutation
    /\ \A e \in 1..MaxEpoch : Install(e) \in Mutation /\ Install(e) # Generation
    /\ \A i \in Intent, e \in 1..MaxEpoch :
          Receipt(i, e) \in Mutation /\ Receipt(i, e) # Generation
    /\ \A i \in Intent, e, f \in 1..MaxEpoch : Install(e) # Receipt(i, f)
    /\ \A e, f \in 1..MaxEpoch : Install(e) = Install(f) => e = f
    /\ \A i, j \in Intent, e, f \in 1..MaxEpoch :
          Receipt(i, e) = Receipt(j, f) => i = j /\ e = f
<1>1. /\ Generation.op = "generation"
      /\ \A e : Install(e).op = "install" /\ Install(e).epoch = e
      /\ \A i, e : /\ Receipt(i, e).op = "receipt" /\ Receipt(i, e).intent = i
                   /\ Receipt(i, e).epoch = e
  BY DEF Generation, Install, Receipt
<1>2. /\ Generation \in Mutation
      /\ \A e \in 1..MaxEpoch : Install(e) \in Mutation
      /\ \A i \in Intent, e \in 1..MaxEpoch : Receipt(i, e) \in Mutation
  BY DEF Mutation
<1> QED  BY <1>1, <1>2

\* A mutation changes its own field only.
LEMMA FieldsKept ==
    ASSUME NEW s \in State
    PROVE  /\ EpochOf(Append(s, Generation)) = EpochOf(s)
           /\ Installs(Append(s, Generation)) = Installs(s)
           /\ \A i \in Intent : ReceiptOf(Append(s, Generation), i) = ReceiptOf(s, i)
           /\ \A i \in Intent, e \in 1..MaxEpoch :
                 /\ EpochOf(Append(s, Receipt(i, e))) = EpochOf(s)
                 /\ Installs(Append(s, Receipt(i, e))) = Installs(s)
                 /\ \A j \in Intent : j # i =>
                       ReceiptOf(Append(s, Receipt(i, e)), j) = ReceiptOf(s, j)
           /\ \A i \in Intent, e \in 1..MaxEpoch :
                 ReceiptOf(Append(s, Install(e)), i) = ReceiptOf(s, i)
<1>1. /\ Installs(Append(s, Generation)) = Installs(s)
      /\ \A i \in Intent : Receipts(Append(s, Generation), i) = Receipts(s, i)
  BY AppendedSet, Mutations DEF Installs, Receipts
<1>2. ASSUME NEW i \in Intent, NEW e \in 1..MaxEpoch
      PROVE  /\ Installs(Append(s, Receipt(i, e))) = Installs(s)
             /\ \A j \in Intent : j # i => Receipts(Append(s, Receipt(i, e)), j) = Receipts(s, j)
             /\ Receipts(Append(s, Install(e)), i) = Receipts(s, i)
  <2>1. ToSet(Append(s, Receipt(i, e))) = ToSet(s) \cup {Receipt(i, e)}
    BY AppendedSet, Mutations
  <2>2. ToSet(Append(s, Install(e))) = ToSet(s) \cup {Install(e)}
    BY AppendedSet, Mutations
  <2> QED  BY <2>1, <2>2, Mutations DEF Installs, Receipts
<1>3. ASSUME NEW t, NEW i \in Intent, Receipts(t, i) = Receipts(s, i)
      PROVE  ReceiptOf(t, i) = ReceiptOf(s, i)
  <2> DEFINE One(S) == IF S = {} THEN 0 ELSE CHOOSE e \in S : TRUE
  <2>1. /\ ReceiptOf(t, i) = One(Receipts(t, i))
        /\ ReceiptOf(s, i) = One(Receipts(s, i))
    BY DEF ReceiptOf
  <2> HIDE DEF One
  <2> QED  BY <1>3, <2>1
<1>4. ASSUME NEW t, Installs(t) = Installs(s)  PROVE EpochOf(t) = EpochOf(s)
  BY <1>4, Zenon DEF EpochOf
<1> QED  BY <1>1, <1>2, <1>3, <1>4

LEMMA EmptyFields ==
    /\ EpochOf(<<>>) = 0 /\ Ascending(<<>>)
    /\ \A i : ReceiptOf(<<>>, i) = 0
<1>1. Installs(<<>>) = {} /\ \A i : Receipts(<<>>, i) = {}
  <2>1. ToSet(<<>>) = {}  BY DEF ToSet
  <2> QED  BY <2>1 DEF Installs, Receipts
<1>2. EpochOf(<<>>) = 0
  <2>1. Max({0}) = 0  BY DEF Max
  <2> QED  BY <1>1, <2>1 DEF EpochOf
<1> QED  BY <1>1, <1>2 DEF Ascending, ReceiptOf

LEMMA InstallField ==
    ASSUME NEW s \in State, Ascending(s), NEW e \in 1..MaxEpoch, e > EpochOf(s)
    PROVE  EpochOf(Append(s, Install(e))) = e /\ Ascending(Append(s, Install(e)))
<1>1. Installs(Append(s, Install(e))) = Installs(s) \cup {e}
  <2>1. ToSet(Append(s, Install(e))) = ToSet(s) \cup {Install(e)}
    BY AppendedSet, Mutations
  <2> QED  BY <2>1, Mutations DEF Installs
<1> DEFINE S == {0} \cup Installs(Append(s, Install(e)))
<1>2. e \in S /\ \A f \in S : f <= e /\ f \in Nat /\ e \in Nat
  BY <1>1, EpochAssumption DEF Ascending, Installs
<1>3. Max(S) = e
  <2> HIDE DEF S
  <2>1. \E x \in S : \A y \in S : x >= y  BY <1>2
  <2>2. Max(S) \in S /\ \A y \in S : Max(S) >= y  BY <2>1, Zenon DEF Max
  <2>3. Max(S) \in Nat /\ Max(S) <= e  BY <1>2, <2>2
  <2>4. e \in Nat /\ Max(S) >= e  BY <1>2, <2>2
  <2> QED  BY <2>3, <2>4
<1> QED  BY <1>2, <1>3 DEF EpochOf, Ascending

LEMMA ReceiptField ==
    ASSUME NEW s \in State, NEW i \in Intent, NEW e \in 1..MaxEpoch, ReceiptOf(s, i) = 0
    PROVE  ReceiptOf(Append(s, Receipt(i, e)), i) = e
<1>1. Receipts(s, i) = {}
  <2>1. Receipts(s, i) \subseteq 1..MaxEpoch  BY DEF Receipts
  <2> QED  BY <2>1, EpochAssumption DEF ReceiptOf
<1>2. ToSet(Append(s, Receipt(i, e))) = ToSet(s) \cup {Receipt(i, e)}
  BY AppendedSet, Mutations
<1>3. Receipts(Append(s, Receipt(i, e)), i) = {e}
  BY <1>1, <1>2, Mutations DEF Receipts
<1> QED  BY <1>3 DEF ReceiptOf

\* Generations are counted, so a longer line never has fewer.
LEMMA GenerationCounts ==
    ASSUME NEW s \in State
    PROVE  /\ GenerationOf(s) \in Nat
           /\ GenerationOf(Append(s, Generation)) = GenerationOf(s) + 1
           /\ \A t \in State : IsPrefix(s, t) => GenerationOf(s) <= GenerationOf(t)
<1> DEFINE G(t) == {n \in 1..Len(t) : t[n] = Generation}
<1>1. ASSUME NEW t \in State  PROVE IsFiniteSet(G(t)) /\ Cardinality(G(t)) \in Nat
  <2>1. Len(t) \in Nat /\ G(t) \subseteq 1..Len(t)  BY DEF State
  <2>2. IsFiniteSet(1..Len(t))  BY <2>1, FS_Interval
  <2> QED  BY <2>1, <2>2, FS_Subset, FS_CardinalityType
<1>2. Cardinality(G(Append(s, Generation))) = Cardinality(G(s)) + 1
  <2>1. /\ Len(Append(s, Generation)) = Len(s) + 1 /\ Len(s) \in Nat
        /\ \A n \in 1..Len(s) : Append(s, Generation)[n] = s[n]
        /\ Append(s, Generation)[Len(s) + 1] = Generation
    BY AppendProperties, Mutations DEF State
  <2>2. G(Append(s, Generation)) = G(s) \cup {Len(s) + 1} /\ Len(s) + 1 \notin G(s)
    BY <2>1
  <2> HIDE DEF G
  <2> QED  BY <1>1, <2>2, FS_AddElement
<1>3. ASSUME NEW t \in State, IsPrefix(s, t)  PROVE Cardinality(G(s)) <= Cardinality(G(t))
  <2>1. G(s) \subseteq G(t)
    <3>1. Len(s) \in Nat /\ Len(t) \in Nat  BY DEF State
    <3> QED  BY <1>3, <3>1, PrefixDef
  <2> HIDE DEF G
  <2> QED  BY <1>1, <2>1, FS_Subset
<1> QED  BY <1>1, <1>2, <1>3 DEF GenerationOf

-----------------------------------------------------------------------------
(* The steps of the gateway.  Each is a step of WindowsFence or none.      *)

\* What WindowsFence sees.
Fence == [active |-> active > 0 /\ active = EpochOf(effective),
          epoch |-> EpochOf(effective)]
Receipted == [i \in Intent |-> ReceiptOf(effective, i)]

Implements == Gateway!WindowsNext \/ UNCHANGED Gateway!winVars

StepInv == GatewayInv' /\ Implements

\* The instance speaks of the same intents.
LEMMA SameIntents ==
    /\ Gateway!Intent = Intent /\ Gateway!Sends = Sends /\ Gateway!Cancels = Cancels
    /\ \A s \in Send : Gateway!SendIntent(s) = SendIntent(s)
BY DEF Gateway!Intent, Gateway!Sends, Gateway!Cancels, Gateway!SendIntent,
       Gateway!CancelIntent, Intent, Sends, Cancels, SendIntent, CancelIntent

\* The active fence, once checked against the high-water that is read.
Checked == IF active = EpochOf(effective) THEN active ELSE 0

LEMMA Unseen ==
    ASSUME active' \in {active, Checked}, UNCHANGED Native,
           EpochOf(effective') = EpochOf(effective),
           \A i \in Intent : ReceiptOf(effective', i) = ReceiptOf(effective, i)
    PROVE  Implements
<1>1. (active' > 0 /\ active' = EpochOf(effective')) = (active > 0 /\ active = EpochOf(effective))
  BY DEF Checked
<1>2. Fence' = Fence /\ Receipted' = Receipted  BY <1>1 DEF Fence, Receipted
<1> QED  BY <1>2 DEF Implements, Gateway!winVars, Native, Fence, Receipted

\* Nothing is handed out and nothing acknowledged is forgotten.
LEMMA HandedKept ==
    ASSUME HandedInv, UNCHANGED handed, acked \subseteq acked',
           rolledBack => rolledBack'
    PROVE  HandedInv'
BY DEF HandedInv

\* A line that the gateway reads or that grows by a generation.
LEMMA ActiveKept ==
    ASSUME StoreInv, ActiveInv, active' \in {active, Checked},
           effective' = effective \/ effective' = Append(effective, Generation),
           proc'[GatewayProc] # "open" => proc[GatewayProc] # "open" \/ active' = 0
    PROVE  /\ ActiveInv' /\ EpochOf(effective') = EpochOf(effective)
           /\ \A i \in Intent : ReceiptOf(effective', i) = ReceiptOf(effective, i)
<1>1. effective \in State  BY DEF StoreInv, StoreTypeOK
<1>2. /\ EpochOf(effective') = EpochOf(effective)
      /\ Installs(effective') = Installs(effective)
      /\ \A i \in Intent : ReceiptOf(effective', i) = ReceiptOf(effective, i)
  BY <1>1, FieldsKept
<1>3. active' \in 0..MaxEpoch  BY EpochAssumption DEF ActiveInv, Checked
<1>4. proc[GatewayProc] # "open" => active' = 0  BY DEF ActiveInv, Checked
<1> QED  BY <1>2, <1>3, <1>4 DEF ActiveInv, Ascending

LEMMA ReadOnlyStep ==
    ASSUME GatewayInv, ReadOnly, UNCHANGED <<handed, rolledBack>>
    PROVE  /\ GatewayInv' /\ file = effective /\ active' = Checked
           /\ UNCHANGED effective
<1>0. Refresh(GatewayProc) /\ Refreshable(GatewayProc) /\ GatewayProc \in Proc
  BY GatewayAssumption DEF ReadOnly, Refresh
<1>1. StoreInv'  BY <1>0, RefreshKeeps DEF GatewayInv
<1>2. file = effective  BY <1>0, ReadsNewest DEF GatewayInv
<1>3. active' = Checked /\ UNCHANGED <<effective, proc, acked>>
  BY <1>0, <1>2 DEF ReadOnly, Refresh, Current, Checked
<1>4. ActiveInv' /\ HandedInv'
  BY <1>3, ActiveKept, HandedKept DEF GatewayInv
<1> QED  BY <1>1, <1>2, <1>3, <1>4 DEF GatewayInv

LEMMA WriteAnchors ==
    ASSUME NEW p \in Proc, NEW w \in Mutation, Written(p, w) \/ Doubtful(p, w),
           UNCHANGED rolledBack
    PROVE  Anchored(p, w)
BY DEF Written, Doubtful, Anchored, Candidate, See

LEMMA MutatingStep ==
    ASSUME GatewayInv, Refreshable(GatewayProc), NEW w \in Mutation, NEW kept,
           Mutating(w, kept), UNCHANGED <<handed, rolledBack>>
    PROVE  /\ StoreInv' /\ HandedInv' /\ file = effective /\ UNCHANGED proc
           /\ \/ effective' = Append(effective, w) /\ active' \in {kept, Checked}
              \/ effective' = effective /\ active' = Checked
<1>0. GatewayProc \in Proc  BY GatewayAssumption
<1>1. file = effective  BY <1>0, ReadsNewest DEF GatewayInv
<1>2. effective \in State /\ IsPrefix(effective, effective)
  BY PrefixFacts DEF GatewayInv, StoreInv, StoreTypeOK
<1>3. Current = Checked  BY <1>1 DEF Current, Checked
<1>4. CASE Written(GatewayProc, w) \/ Doubtful(GatewayProc, w)
  <2>1. Anchored(GatewayProc, w)  BY <1>0, <1>4, WriteAnchors
  <2>2. effective' = Append(effective, w) /\ UNCHANGED proc /\ acked \subseteq acked'
    BY <1>1, <1>2, <2>1 DEF Anchored, TakesEffect
  <2>3. active' \in {kept, Checked}
    BY <1>3, <1>4 DEF Mutating
  <2> QED  BY <1>0, <1>1, <2>1, <2>2, <2>3, AnchoredKeeps, HandedKept DEF GatewayInv
<1>5. CASE Unanchored(GatewayProc, w) /\ active' = Current
  <2>1. UNCHANGED <<proc, effective, acked>>  BY <1>5 DEF Unanchored
  <2> QED  BY <1>0, <1>1, <1>3, <1>5, <2>1, UnanchoredKeeps, HandedKept DEF GatewayInv
<1>6. CASE Refresh(GatewayProc) /\ active' = Current
  <2>1. UNCHANGED <<proc, effective, acked>>  BY <1>6 DEF Refresh
  <2> QED  BY <1>0, <1>1, <1>3, <1>6, <2>1, RefreshKeeps, HandedKept DEF GatewayInv
<1> QED  BY <1>4, <1>5, <1>6 DEF Mutating

LEMMA InstallFenceStep ==
    ASSUME GatewayInv, NEW e \in 1..MaxEpoch, InstallFence(e)  PROVE StepInv
<1>0. /\ effective \in State /\ Ascending(effective) /\ active \in 0..MaxEpoch
      /\ Install(e) \in Mutation
      /\ Refreshable(GatewayProc) /\ UNCHANGED <<Native, handed, rolledBack>>
  BY Mutations DEF GatewayInv, StoreInv, StoreTypeOK, ActiveInv, InstallFence
<1>1. CASE ReadOnly
  <2>1. GatewayInv' /\ active' = Checked /\ UNCHANGED effective
    BY <1>0, <1>1, ReadOnlyStep
  <2> QED  BY <1>0, <2>1, Unseen DEF StepInv
<1>2. CASE e > EpochOf(file) /\ Mutating(Install(e), e)
  <2>1. /\ StoreInv' /\ HandedInv' /\ file = effective /\ UNCHANGED proc
        /\ \/ effective' = Append(effective, Install(e)) /\ active' \in {e, Checked}
           \/ effective' = effective /\ active' = Checked
    BY <1>0, <1>2, MutatingStep
  <2>2. CASE effective' = effective /\ active' = Checked
    <3>1. ActiveInv'  BY <2>1, <2>2, ActiveKept DEF GatewayInv
    <3> QED  BY <1>0, <2>1, <2>2, <3>1, Unseen DEF StepInv, GatewayInv
  <2>3. CASE effective' = Append(effective, Install(e)) /\ active' \in {e, Checked}
    <3>1. /\ EpochOf(effective') = e /\ Ascending(effective')
          /\ e > EpochOf(effective)
          /\ \A i \in Intent : ReceiptOf(effective', i) = ReceiptOf(effective, i)
      BY <1>0, <1>2, <2>1, <2>3, InstallField, FieldsKept
    <3>2. proc[GatewayProc] = "open"  BY <1>0 DEF Refreshable
    <3>3. EpochOf(effective) \in Nat /\ e \in Nat /\ e > 0
      BY <1>0, EpochAssumption DEF Ascending, Installs
    <3>4. active' \in 0..MaxEpoch /\ (active' = e \/ (active' = Checked /\ Checked # e))
      BY <1>0, <2>3, <3>1, <3>3, EpochAssumption DEF Checked
    <3>5. ActiveInv'  BY <2>1, <3>1, <3>2, <3>4 DEF ActiveInv
    <3>6. Receipted' = Receipted  BY <3>1 DEF Receipted
    <3>7. ASSUME active' = e  PROVE Implements
      <4>1. Fence' = [active |-> TRUE, epoch |-> e]  BY <3>1, <3>3, <3>7 DEF Fence
      <4>2. Gateway!InstallFence(e)
        BY <1>0, <3>1, <3>6, <4>1
        DEF Gateway!InstallFence, Gateway!Installable, Fence, Receipted, Native
      <4> QED  BY <4>2 DEF Implements, Gateway!WindowsNext
    <3>8. ASSUME active' # e  PROVE Implements
      <4>1. Fence' = [active |-> FALSE, epoch |-> e]  BY <3>1, <3>3, <3>8 DEF Fence
      <4>2. Gateway!InstallDoubtful(e)
        BY <1>0, <3>1, <3>6, <4>1 DEF Gateway!InstallDoubtful, Fence, Receipted, Native
      <4> QED  BY <4>2 DEF Implements, Gateway!WindowsNext
    <3> QED  BY <2>1, <3>5, <3>7, <3>8 DEF StepInv, GatewayInv
  <2> QED  BY <2>1, <2>2, <2>3
<1> QED  BY <1>1, <1>2 DEF InstallFence

LEMMA RegisterReceiptStep ==
    ASSUME GatewayInv, NEW i \in Intent, NEW e \in 1..MaxEpoch, RegisterReceipt(i, e)
    PROVE  StepInv
<1>0. /\ effective \in State /\ Ascending(effective)
      /\ Receipt(i, e) \in Mutation
      /\ Refreshable(GatewayProc) /\ UNCHANGED <<Native, handed, rolledBack>>
  BY Mutations DEF GatewayInv, StoreInv, StoreTypeOK, ActiveInv, RegisterReceipt
<1>1. CASE ReadOnly
  <2>1. GatewayInv' /\ active' = Checked /\ UNCHANGED effective
    BY <1>0, <1>1, ReadOnlyStep
  <2> QED  BY <1>0, <2>1, Unseen DEF StepInv
<1>2. CASE /\ Current = e /\ ReceiptOf(file, i) = 0
           /\ Mutating(Receipt(i, e), Current)
  <2>1. /\ StoreInv' /\ HandedInv' /\ file = effective /\ UNCHANGED proc
        /\ \/ effective' = Append(effective, Receipt(i, e)) /\ active' \in {Current, Checked}
           \/ effective' = effective /\ active' = Checked
    BY <1>0, <1>2, MutatingStep
  <2>2. /\ Current = Checked /\ active' = Checked
        /\ active = e /\ EpochOf(effective) = e /\ e > 0
    BY <1>2, <2>1, EpochAssumption DEF Current, Checked
  <2>3. CASE effective' = effective
    <3>1. ActiveInv'  BY <2>1, <2>2, <2>3, ActiveKept DEF GatewayInv
    <3> QED  BY <1>0, <2>1, <2>2, <2>3, <3>1, Unseen DEF StepInv, GatewayInv
  <2>4. CASE effective' = Append(effective, Receipt(i, e))
    <3>1. /\ EpochOf(effective') = EpochOf(effective)
          /\ Installs(effective') = Installs(effective)
          /\ \A j \in Intent : j # i => ReceiptOf(effective', j) = ReceiptOf(effective, j)
          /\ ReceiptOf(effective', i) = e /\ ReceiptOf(effective, i) = 0
      BY <1>0, <1>2, <2>1, <2>4, FieldsKept, ReceiptField
    <3>2. active' = active /\ Fence' = Fence /\ Fence.active /\ Fence.epoch = e
      BY <2>2, <3>1 DEF Checked, Fence
    <3>3. Receipted' = [Receipted EXCEPT ![i] = e] /\ Receipted[i] = 0
      BY <3>1 DEF Receipted
    <3>4. ActiveInv'  BY <2>1, <3>1, <3>2 DEF GatewayInv, ActiveInv, Ascending
    <3>5. Gateway!RegisterReceipt(i, e)
      BY <1>0, <3>2, <3>3
      DEF Gateway!RegisterReceipt, Gateway!Registrable, Fence, Receipted, Native
    <3> QED  BY <2>1, <3>4, <3>5, SameIntents
           DEF StepInv, GatewayInv, Implements, Gateway!WindowsNext
  <2> QED  BY <2>1, <2>3, <2>4
<1> QED  BY <1>1, <1>2 DEF RegisterReceipt

\* A request for a native order is admitted as in WindowsFence.
LEMMA Admitted ==
    ASSUME GatewayInv, ReadOnly, UNCHANGED <<handed, rolledBack>>,
           NEW i \in Intent, NEW e \in 1..MaxEpoch, Admissible(i, e)
    PROVE  /\ GatewayInv' /\ Gateway!Admissible(i, e)
           /\ Fence' = Fence /\ Receipted' = Receipted
<1>1. /\ GatewayInv' /\ file = effective /\ active' = Checked /\ UNCHANGED effective
  BY ReadOnlyStep
<1>2. active = e /\ EpochOf(effective) = e /\ e > 0 /\ ReceiptOf(effective, i) = e
  BY <1>1, EpochAssumption DEF Admissible, Current
<1>3. Fence' = Fence /\ Receipted' = Receipted
  BY <1>1, <1>2 DEF Checked, Fence, Receipted
<1>4. Gateway!Admissible(i, e)  BY <1>2 DEF Gateway!Admissible
<1> QED  BY <1>1, <1>3, <1>4

LEMMA SendOrderStep ==
    ASSUME GatewayInv, NEW i \in Sends, NEW e \in 1..MaxEpoch, SendOrder(i, e)
    PROVE  StepInv
<1>0. i \in Intent  BY DEF Intent
<1>1. /\ GatewayInv' /\ Gateway!Admissible(i, e)
      /\ Fence' = Fence /\ Receipted' = Receipted
  BY <1>0, Admitted DEF SendOrder
<1>2. Gateway!PlaceOrder(i, e)
  BY <1>1 DEF SendOrder, Gateway!PlaceOrder, Fence, Receipted
<1> QED  BY <1>1, <1>2, SameIntents DEF SendOrder, StepInv, Implements, Gateway!WindowsNext

LEMMA CancelOrderStep ==
    ASSUME GatewayInv, NEW i \in Cancels, NEW e \in 1..MaxEpoch, CancelOrder(i, e)
    PROVE  StepInv
<1>0. i \in Intent  BY DEF Intent
<1>1. /\ GatewayInv' /\ Gateway!Admissible(i, e)
      /\ Fence' = Fence /\ Receipted' = Receipted
  BY <1>0, Admitted DEF CancelOrder
<1>2. Gateway!RequestCancel(i, e)
  BY <1>1 DEF CancelOrder, Gateway!RequestCancel, Fence, Receipted
<1> QED  BY <1>1, <1>2, SameIntents DEF StepInv, Implements, Gateway!WindowsNext

\* A generation is new: every state that was returned has fewer.
LEMMA AllocateStep ==
    ASSUME GatewayInv, NEW p \in Proc, Allocate(p)  PROVE StepInv
<1>0. /\ Refreshable(p) /\ Generation \in Mutation
      /\ UNCHANGED <<active, Native, rolledBack>>
  BY Mutations DEF Allocate
<1>1. /\ file \in State /\ ledger = file
      /\ ~rolledBack \/ p = GatewayProc => file = effective
  BY <1>0, ReadsNewest DEF GatewayInv
<1>2. CASE Written(p, Generation) \/ Doubtful(p, Generation)
  <2>1. Anchored(p, Generation)  BY <1>0, <1>2, WriteAnchors
  <2>2. StoreInv'  BY <1>0, <2>1, AnchoredKeeps DEF GatewayInv
  <2>3. effective' = effective \/ effective' = Append(effective, Generation)
    <3>1. CASE IsPrefix(effective, file)
      <4>1. effective' = Append(file, Generation)  BY <2>1, <3>1 DEF Anchored, TakesEffect
      <4>2. file = effective  BY <1>0, <3>1, ReadsNewest DEF GatewayInv
      <4> QED  BY <4>1, <4>2
    <3>2. CASE ~IsPrefix(effective, file)
      BY <2>1, <3>2 DEF Anchored, TakesEffect
    <3> QED  BY <3>1, <3>2
  <2>4. HandedInv'
    <3>1. CASE UNCHANGED handed
      BY <2>1, <3>1, HandedKept DEF Anchored, GatewayInv
    <3>2. CASE /\ Written(p, Generation)
               /\ handed' = [handed EXCEPT ![Allocated(p)] = @ + 1]
      <4>1. GenerationOf(file') = GenerationOf(file) + 1 /\ GenerationOf(file) \in Nat
        BY <1>1, <2>1, GenerationCounts DEF Anchored
      <4>2. acked' = acked \cup {file'}  BY <3>2 DEF Written
      <4>3. ASSUME ~rolledBack, NEW s \in acked  PROVE GenerationOf(s) <= GenerationOf(file)
        BY <1>1, <4>3, GenerationCounts DEF GatewayInv, StoreInv, StoreTypeOK, AckedInv
      <4>4. handed \in [1..MaxWrites -> Nat]  BY DEF GatewayInv, HandedInv
      <4>5. ASSUME ~rolledBack, NEW g \in 1..MaxWrites
            PROVE  /\ handed'[g] <= 1
                   /\ handed'[g] > 0 => \E s \in acked' : g <= GenerationOf(s)
        <5>1. CASE g = GenerationOf(file')
          <6>1. ~(handed[g] > 0)
            <7>1. \A s \in acked : GenerationOf(s) \in Nat
              BY GenerationCounts DEF GatewayInv, StoreInv, StoreTypeOK
            <7>2. handed[g] > 0 => \E s \in acked : g <= GenerationOf(s)
              BY <4>5 DEF GatewayInv, HandedInv
            <7> QED  BY <4>1, <4>3, <4>5, <5>1, <7>1, <7>2
          <6>2. handed'[g] = 1  BY <3>2, <4>4, <5>1, <6>1 DEF Allocated
          <6> QED  BY <4>1, <4>2, <5>1, <6>2
        <5>2. CASE g # GenerationOf(file')
          <6>1. handed'[g] = handed[g]  BY <3>2, <4>4, <5>2 DEF Allocated
          <6> QED  BY <4>2, <4>5, <6>1 DEF GatewayInv, HandedInv
        <5> QED  BY <5>1, <5>2
      <4>6. handed' \in [1..MaxWrites -> Nat]
        <5> DEFINE k == Allocated(p)
        <5>1. handed' = [handed EXCEPT ![k] = @ + 1]  BY <3>2
        <5> HIDE DEF k
        <5>2. CASE k \in 1..MaxWrites
          <6>1. handed[k] + 1 \in Nat  BY <4>4, <5>2
          <6> QED  BY <4>4, <5>1, <5>2, <6>1
        <5>3. CASE k \notin 1..MaxWrites  BY <4>4, <5>1, <5>3
        <5> QED  BY <5>2, <5>3
      <4> QED  BY <1>0, <4>5, <4>6 DEF HandedInv
    <3> QED  BY <3>1, <3>2 DEF Allocate
  <2>5. proc' = proc  BY <2>1 DEF Anchored
  <2> QED
    BY <1>0, <2>2, <2>3, <2>4, <2>5, ActiveKept, Unseen DEF StepInv, GatewayInv
<1>3. CASE Unanchored(p, Generation) /\ UNCHANGED handed
  <2>1. UNCHANGED <<proc, effective, acked>>  BY <1>3 DEF Unanchored
  <2> QED
    BY <1>0, <1>3, <2>1, UnanchoredKeeps, ActiveKept, HandedKept, Unseen
    DEF StepInv, GatewayInv
<1>4. CASE Refresh(p) /\ UNCHANGED handed
  <2>1. UNCHANGED <<proc, effective, acked>>  BY <1>4 DEF Refresh
  <2> QED
    BY <1>0, <1>4, <2>1, RefreshKeeps, ActiveKept, HandedKept, Unseen
    DEF StepInv, GatewayInv
<1> QED  BY <1>2, <1>3, <1>4 DEF Allocate

LEMMA ProcessStep ==
    ASSUME GatewayInv, NEW p \in Proc, StoreStep(p) \/ PeerCrash(p)  PROVE StepInv
<1>1. UNCHANGED <<effective, acked, active, Native, handed, rolledBack>>
  BY DEF StoreStep, PeerCrash, Refresh, CreateState, FindState, CreateLedger, Open, Crash
<1>2. StoreInv'
  BY <1>1, StoreStepKeeps, CrashKeeps DEF PeerCrash, GatewayInv
<1>3. proc'[GatewayProc] # "open" => proc[GatewayProc] # "open"
  BY GatewayAssumption
  DEF StoreStep, PeerCrash, Refresh, CreateState, FindState, CreateLedger, Open, Crash,
      GatewayInv, StoreInv, StoreTypeOK
<1> QED
  BY <1>1, <1>2, <1>3, ActiveKept, HandedKept, Unseen DEF StepInv, GatewayInv

LEMMA GatewayCrashStep == ASSUME GatewayInv, GatewayCrash  PROVE StepInv
<1>1. /\ active' = 0 /\ recorded' = {}
      /\ UNCHANGED <<effective, acked, order, placed, handed, rolledBack>>
  BY DEF GatewayCrash, Crash, HostCrash
<1>2. StoreInv'
  BY <1>1, CrashKeeps, HostCrashKeeps, GatewayAssumption DEF GatewayCrash, GatewayInv
<1>3. ActiveInv' /\ HandedInv'
  BY <1>1, HandedKept, EpochAssumption DEF GatewayInv, ActiveInv, Ascending
<1>4. Fence' = [Fence EXCEPT !.active = FALSE] /\ Receipted' = Receipted
  <2>1. ~(active' > 0)  BY <1>1
  <2>2. Fence' = [active |-> FALSE, epoch |-> EpochOf(effective)]
    BY <1>1, <2>1 DEF Fence
  <2>3. [Fence EXCEPT !.active = FALSE] = [active |-> FALSE, epoch |-> EpochOf(effective)]
    <3>1. \A a, n, b : [[active |-> a, epoch |-> n] EXCEPT !.active = b]
                        = [active |-> b, epoch |-> n]
      OBVIOUS
    <3> QED  BY <3>1, Zenon DEF Fence
  <2>4. Receipted' = Receipted  BY <1>1 DEF Receipted
  <2> QED  BY <2>2, <2>3, <2>4
<1>5. Gateway!WindowsRestart
  BY <1>1, <1>4 DEF Gateway!WindowsRestart, Fence, Receipted
<1> QED  BY <1>2, <1>3, <1>5 DEF StepInv, GatewayInv, Implements, Gateway!WindowsNext

LEMMA RollbackStep == ASSUME GatewayInv, Rollback  PROVE StepInv
<1>1. UNCHANGED <<effective, acked, proc, active, Native, handed>> /\ rolledBack'
  BY DEF Rollback, PutBack
<1>2. StoreInv'  BY RollbackKeeps DEF GatewayInv
<1> QED
  BY <1>1, <1>2, ActiveKept, HandedKept, Unseen DEF StepInv, GatewayInv

LEMMA GatewayStep == ASSUME GatewayInv, [GatewayNext]_gatewayVars  PROVE StepInv
<1>1. CASE UNCHANGED gatewayVars
  BY <1>1, Unseen
  DEF gatewayVars, storeVars, Native, StepInv, GatewayInv, StoreInv, StoreTypeOK, LineageInv,
      OpenInv, NewestInv, AckedInv, BackInv, ActiveInv, Ascending, HandedInv, Before
<1> QED
  BY <1>1, InstallFenceStep, RegisterReceiptStep, SendOrderStep, CancelOrderStep,
     AllocateStep, ProcessStep, GatewayCrashStep, RollbackStep DEF GatewayNext

LEMMA GatewayStart == GatewayInit => GatewayInv /\ Gateway!WindowsInit
<1> SUFFICES ASSUME GatewayInit  PROVE GatewayInv /\ Gateway!WindowsInit
  OBVIOUS
<1> USE DEF GatewayInit, StoreInit
<1>1. StoreTypeOK  BY NoneIsNoState DEF StoreTypeOK
<1>2. LineageInv /\ OpenInv /\ NewestInv /\ AckedInv /\ BackInv
  BY DEF LineageInv, OpenInv, NewestInv, AckedInv, BackInv
<1>3. ActiveInv /\ HandedInv
  BY EmptyFields, EpochAssumption, GatewayAssumption DEF ActiveInv, HandedInv
<1>4. Gateway!WindowsInit
  <2>1. EpochOf(effective) = 0 /\ \A i \in Intent : ReceiptOf(effective, i) = 0
    BY EmptyFields
  <2>2. Fence = [active |-> FALSE, epoch |-> 0]
    <3>1. ~(active > 0)  OBVIOUS
    <3> QED  BY <2>1, <3>1 DEF Fence
  <2>3. Receipted = [i \in Gateway!Intent |-> 0]
    BY <2>1, SameIntents DEF Receipted
  <2> QED  BY <2>2, <2>3 DEF Gateway!WindowsInit, Fence, Receipted
<1> QED  BY <1>1, <1>2, <1>3, <1>4 DEF GatewayInv, StoreInv

LEMMA GatewayAlways == GatewaySpec => []GatewayInv
<1>1. ASSUME GatewayInv, [GatewayNext]_gatewayVars  PROVE GatewayInv'
  BY <1>1, GatewayStep DEF StepInv
<1> QED  BY <1>1, GatewayStart, PTL DEF GatewaySpec

-----------------------------------------------------------------------------
\* On its durable store, whatever writes fail, whoever crashes and also when older
\* files are put back, the gateway decides on the fence and the receipts of
\* WindowsFence (final_admission_v1.py _refresh_durable, final_store_v1.py mutate).
THEOREM StoreImplementsFence == GatewaySpec => ImplementsFence
<1>1. ASSUME GatewayInv, [GatewayNext]_gatewayVars
      PROVE  [Gateway!WindowsNext]_Gateway!winVars
  BY <1>1, GatewayStep DEF StepInv, Implements
<1> QED
  BY <1>1, GatewayStart, GatewayAlways, PTL
  DEF GatewaySpec, ImplementsFence, Gateway!WindowsSpec

\* No failed write, restart or host crash undoes what mutate returned
\* (final_store_v1.py _replace, _append_anchor), unless older files were put back.
THEOREM AckedStays == GatewaySpec => []AckedUnlessRolledBack
<1>1. ASSUME GatewayInv, ~rolledBack, NEW s \in acked
      PROVE  file # None /\ IsPrefix(s, file) /\ Len(s) <= anchored
  <2>1. ledger # None /\ IsPrefix(s, ledger) /\ Len(s) <= anchored /\ s \in State
    BY <1>1 DEF GatewayInv, StoreInv, StoreTypeOK, AckedInv
  <2>2. file # None /\ IsPrefix(ledger, file)
    BY <1>1, <2>1 DEF GatewayInv, StoreInv, LineageInv
  <2>3. ledger \in State /\ file \in State
    BY <1>1, <2>1, <2>2 DEF GatewayInv, StoreInv, StoreTypeOK
  <2> QED  BY <2>1, <2>2, <2>3, PrefixFacts
<1>2. GatewayInv => AckedUnlessRolledBack
  BY <1>1 DEF AckedUnlessRolledBack, AckedDurable
<1> QED  BY <1>2, GatewayAlways, PTL

\* No observation generation is returned twice, whichever processes allocate and
\* whichever writes are undone (allocate_snapshot_generation), unless older
\* files were put back.
THEOREM GenerationsHandedOnce == GatewaySpec => []GenerationsUnique
<1>1. GatewayInv => GenerationsUnique
  BY DEF GatewayInv, HandedInv, GenerationsUnique
<1> QED  BY <1>1, GatewayAlways, PTL
=============================================================================
