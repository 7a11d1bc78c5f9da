------------------------- MODULE LeaderFencerProofs -------------------------
(***************************************************************************)
(* Proofs about LeaderFencer for any number of processes, threads, owners  *)
(* and clock steps.  The bounds MaxTime and MaxEpoch are arbitrary too.    *)
(***************************************************************************)
EXTENDS LeaderFencer, TLAPS

\* A call in flight presents a token that was handed out.
PendingIssued ==
    \A p \in Proc, t \in Thread :
        call[p][t].op \in {"renew", "release"} => call[p][t].token \in issued

\* The durable lease is the high-water of everything handed out.
HighWater ==
    \A a \in issued : a.epoch <= lease.epoch /\ a.fence <= lease.fence

\* Two tokens are of the same instance, or one is newer in both numbers.
Chained ==
    \A a, b \in issued :
        \/ a.epoch < b.epoch /\ a.fence < b.fence
        \/ b.epoch < a.epoch /\ b.fence < a.fence
        \/ /\ a.epoch = b.epoch /\ a.fence = b.fence
           /\ a.owner = b.owner /\ a.instance = b.instance

\* Instance ids are fresh: the lease's is among those minted, 0 is no token's.
InstancesFresh ==
    lease.instance <= minted /\ \A a \in issued : a.instance >= 1

\* OneInstancePerEpoch is not inductive: a renewed token must be compared with
\* the token it renews, and an acquired one with the durable high-water.
IdentityInv ==
    TypeOK /\ PendingIssued /\ HighWater /\ Chained /\ InstancesFresh

\* Until the clock steps back, samples and expiries are bounded by the present,
\* and a renew in flight will not shorten its own token.
SamplesBounded ==
    \A p \in Proc, t \in Thread :
        /\ call[p][t].op # "idle" => call[p][t].now <= clock
        /\ call[p][t].op = "renew"
              => call[p][t].token.expires <= call[p][t].now + LeaseSeconds

IssuedBounded == \A a \in issued : a.expires <= clock + LeaseSeconds

ExpiryCovers == \A a \in issued : SameIdentity(a) => a.expires <= lease.expires

TimeInv == IdentityInv /\ SamplesBounded /\ IssuedBounded /\ ExpiryCovers

ClockInv == IdentityInv /\ (steps = 0 => TimeInv)

-----------------------------------------------------------------------------
LEMMA CallShape ==
    ASSUME TypeOK, NEW p \in Proc, NEW t \in Thread
    PROVE  /\ call[p][t] \in Call
           /\ call[p][t].op = "acquire" => call[p][t] \in AcquireCall
           /\ call[p][t].op \in {"renew", "release"} => call[p][t] \in TokenCall
<1>1. call[p][t] \in Call  BY DEF TypeOK
<1>2. QED  BY <1>1 DEF Call, AcquireCall, TokenCall, Idle

LEMMA NewLeaseToken ==
    ASSUME TypeOK, NEW c \in AcquireCall
    PROVE  /\ NewLease(c) \in Token
           /\ NewLease(c) \in Lease
           /\ NewLease(c).epoch = lease.epoch + 1
           /\ NewLease(c).fence = lease.fence + 1
BY LeaseAssumption DEF TypeOK, NewLease, AcquireCall, Token, Lease

LEMMA TypeInit == Init => TypeOK
BY LeaseAssumption
   DEF Init, TypeOK, InitialLease, Lease, EpochTimestamp, Call

LEMMA TypeStep == TypeOK /\ [Next]_vars => TypeOK'
<1> SUFFICES ASSUME TypeOK, [Next]_vars PROVE TypeOK'
  OBVIOUS
<1> USE LeaseAssumption
<1>1. ASSUME NEW p \in Proc, NEW t \in Thread, NEW c \in Call, Begin(p, t, c)
      PROVE  TypeOK'
  BY <1>1 DEF TypeOK, Begin, Sample, Call
<1>2. ASSUME NEW p \in Proc, NEW t \in Thread, NEW o \in Owner, BeginAcquire(p, t, o)
      PROVE  TypeOK'
  <2>1. [op |-> "acquire", owner |-> o, now |-> clock] \in Call
    BY DEF TypeOK, Call, AcquireCall
  <2>2. QED  BY <1>1, <1>2, <2>1 DEF BeginAcquire
<1>3. ASSUME NEW p \in Proc, NEW t \in Thread, NEW op \in {"renew", "release"},
             NEW tok \in issued, BeginWithToken(p, t, op, tok)
      PROVE  TypeOK'
  <2>1. [op |-> op, token |-> tok, now |-> clock] \in Call
    BY DEF TypeOK, Call, TokenCall
  <2>2. QED  BY <1>1, <1>3, <2>1 DEF BeginWithToken
<1>4. ASSUME NEW p \in Proc, NEW t \in Thread, Rejected(p, t)  PROVE TypeOK'
  BY <1>4 DEF TypeOK, Rejected, Return, Call
<1>5. ASSUME NEW p \in Proc, NEW t \in Thread, NEW l \in Lease, NEW ok \in BOOLEAN,
             NEW tokens \in SUBSET Token, NEW n \in Token \cup {NoToken},
             Written(p, t, l, ok, tokens, n), minted' \in Nat
      PROVE  TypeOK'
  BY <1>5 DEF TypeOK, Written, Return, Call
<1>6. ASSUME NEW p \in Proc, NEW t \in Thread, FinishAcquire(p, t)  PROVE TypeOK'
  <2> DEFINE c == call[p][t]
  <2>1. c \in AcquireCall  BY <1>6, CallShape DEF FinishAcquire
  <2>2. NewLease(c) \in Token /\ NewLease(c) \in Lease  BY <2>1, NewLeaseToken
  <2>3. CASE Rejected(p, t)  BY <1>4, <2>3
  <2>4. CASE /\ minted' = minted + 1
             /\ \E ok \in BOOLEAN :
                   Written(p, t, NewLease(c), ok, {NewLease(c)}, NewLease(c))
    <3>1. minted' \in Nat  BY <2>4 DEF TypeOK
    <3>2. QED  BY <1>5, <2>2, <2>4, <3>1
  <2>5. QED  BY <1>6, <2>3, <2>4 DEF FinishAcquire
<1>7. ASSUME NEW p \in Proc, NEW t \in Thread, FinishRenew(p, t)  PROVE TypeOK'
  <2> DEFINE c == call[p][t]
             r == [c.token EXCEPT !.expires = c.now + LeaseSeconds]
  <2>1. c \in TokenCall  BY <1>7, CallShape DEF FinishRenew
  <2>2. r \in Token /\ r \in Lease  BY <2>1 DEF TokenCall, Token, Lease
  <2>3. CASE Rejected(p, t)  BY <1>4, <2>3
  <2>4. CASE /\ \E ok \in BOOLEAN : Written(p, t, r, ok, {r}, r)
             /\ UNCHANGED minted
    <3>1. minted' \in Nat  BY <2>4 DEF TypeOK
    <3>2. QED  BY <1>5, <2>2, <2>4, <3>1
  <2>5. QED  BY <1>7, <2>3, <2>4 DEF FinishRenew
<1>8. ASSUME NEW p \in Proc, NEW t \in Thread, FinishRelease(p, t)  PROVE TypeOK'
  <2> DEFINE c == call[p][t]
             l == [lease EXCEPT !.owner = NoOwner, !.instance = 0,
                                !.expires = EpochTimestamp]
             n == IF cached[p] = c.token THEN NoToken ELSE cached[p]
  <2>1. l \in Lease /\ n \in Token \cup {NoToken}
    BY DEF TypeOK, Lease, EpochTimestamp
  <2>2. CASE Rejected(p, t)  BY <1>4, <2>2
  <2>3. CASE /\ \E ok \in BOOLEAN : Written(p, t, l, ok, {}, n)
             /\ UNCHANGED minted
    <3>1. minted' \in Nat /\ {} \in SUBSET Token  BY <2>3 DEF TypeOK
    <3>2. QED  BY <1>5, <2>1, <2>3, <3>1
  <2>4. QED  BY <1>8, <2>2, <2>3 DEF FinishRelease, Released
<1>9. ASSUME NEW e \in 0..MaxEpoch, NEW f \in 0..MaxEpoch, RemoteFloor(e, f)
      PROVE  TypeOK'
  <2> DEFINE e2 == IF e > lease.epoch THEN e ELSE lease.epoch
             f2 == IF f > lease.fence THEN f ELSE lease.fence
  <2>1. e2 \in Nat /\ f2 \in Nat  BY DEF TypeOK, Lease
  <2>2. lease' = [lease EXCEPT !.epoch = e2, !.fence = f2]  BY <1>9 DEF RemoteFloor
  <2>3. lease' \in Lease
    <3> HIDE DEF e2, f2
    <3> QED  BY <2>1, <2>2 DEF TypeOK, Lease
  <2>4. QED  BY <1>9, <2>3 DEF TypeOK, RemoteFloor
<1>10. ASSUME NEW p \in Proc, Restart(p)  PROVE TypeOK'
  BY <1>10 DEF TypeOK, Restart, Call
<1>11. CASE Tick  BY <1>11 DEF TypeOK, Tick
<1>12. CASE ClockStepBack  BY <1>12 DEF TypeOK, ClockStepBack
<1>13. CASE UNCHANGED vars  BY <1>13 DEF TypeOK, vars
<1>14. QED
  BY <1>2, <1>3, <1>6, <1>7, <1>8, <1>9, <1>10, <1>11, <1>12, <1>13 DEF Next
-----------------------------------------------------------------------------
\* What a step may do to the calls in flight: keep one, drop it, or start one
\* with a token that was handed out and the present clock.
CallStep ==
    \A p \in Proc, t \in Thread :
        \/ call'[p][t] = call[p][t]
        \/ call'[p][t] = Idle
        \/ \E o \in Owner :
              call'[p][t] = [op |-> "acquire", owner |-> o, now |-> clock]
        \/ \E op \in {"renew", "release"}, tok \in issued :
              call'[p][t] = [op |-> op, token |-> tok, now |-> clock]

\* What a step may do to the lease and to the tokens handed out.
KeepsLease == lease' = lease /\ issued' = issued /\ minted' = minted

AcquiresLease ==
    \E p \in Proc, t \in Thread :
        LET c == call[p][t] IN
        /\ c \in AcquireCall
        /\ LeaseFree(c.now)
        /\ lease' = NewLease(c)
        /\ minted' = minted + 1
        /\ issued' \subseteq issued \cup {NewLease(c)}
        /\ issued \subseteq issued'

RenewsLease ==
    \E p \in Proc, t \in Thread :
        LET c == call[p][t]
            r == [c.token EXCEPT !.expires = c.now + LeaseSeconds] IN
        /\ c \in TokenCall
        /\ c.op = "renew"
        /\ AssertStateToken(c.token, c.now, FALSE)
        /\ lease' = r
        /\ minted' = minted
        /\ issued' \subseteq issued \cup {r}
        /\ issued \subseteq issued'

ReleasesLease ==
    /\ \E p \in Proc, t \in Thread :
          call[p][t].op = "release" /\ SameIdentity(call[p][t].token)
    /\ lease' = [lease EXCEPT !.owner = NoOwner, !.instance = 0,
                              !.expires = EpochTimestamp]
    /\ issued' = issued /\ minted' = minted

RaisesFloor ==
    /\ lease.owner = NoOwner \/ lease.expires <= clock
    /\ \E e, f \in Nat :
          /\ e >= lease.epoch /\ f >= lease.fence
          /\ e > lease.epoch \/ f > lease.fence
          /\ lease' = [lease EXCEPT !.epoch = e, !.fence = f]
    /\ issued' = issued /\ minted' = minted

LeaseStep ==
    KeepsLease \/ AcquiresLease \/ RenewsLease \/ ReleasesLease \/ RaisesFloor

\* What a step may do to the clock: a step back is remembered in steps.
ClockKept == clock' = clock /\ steps' = steps
ClockStep == steps' = 0 => steps = 0 /\ clock' >= clock

LEMMA StepShape ==
    ASSUME TypeOK, [Next]_vars
    PROVE  CallStep /\ LeaseStep /\ ClockStep
<1> USE LeaseAssumption
<1>1. ASSUME NEW p \in Proc, NEW t \in Thread, NEW o \in Owner, BeginAcquire(p, t, o)
      PROVE  CallStep /\ KeepsLease /\ ClockKept
  BY <1>1 DEF BeginAcquire, Begin, ClockKept, TypeOK, CallStep, KeepsLease
<1>2. ASSUME NEW p \in Proc, NEW t \in Thread, NEW op \in {"renew", "release"},
             NEW tok \in issued, BeginWithToken(p, t, op, tok)
      PROVE  CallStep /\ KeepsLease /\ ClockKept
  BY <1>2 DEF BeginWithToken, Begin, ClockKept, TypeOK, CallStep, KeepsLease
<1>3. ASSUME NEW p \in Proc, NEW t \in Thread, Return(p, t)  PROVE CallStep
  BY <1>3 DEF Return, TypeOK, CallStep
<1>4. ASSUME NEW p \in Proc, NEW t \in Thread, Rejected(p, t)
      PROVE  CallStep /\ KeepsLease /\ ClockKept
  BY <1>3, <1>4 DEF Rejected, KeepsLease, ClockKept
<1>5. ASSUME NEW p \in Proc, NEW t \in Thread, FinishAcquire(p, t)
      PROVE  CallStep /\ LeaseStep /\ ClockKept
  <2> DEFINE c == call[p][t]
  <2>1. c \in AcquireCall  BY <1>5, CallShape DEF FinishAcquire
  <2>2. CASE Rejected(p, t)  BY <1>4, <2>2 DEF LeaseStep
  <2>3. CASE /\ LeaseFree(c.now)
             /\ minted' = minted + 1
             /\ \E ok \in BOOLEAN :
                   Written(p, t, NewLease(c), ok, {NewLease(c)}, NewLease(c))
    <3>1. PICK ok \in BOOLEAN :
             Written(p, t, NewLease(c), ok, {NewLease(c)}, NewLease(c))
      BY <2>3
    <3>2. /\ lease' = NewLease(c) /\ ClockKept /\ Return(p, t)
          /\ issued' \subseteq issued \cup {NewLease(c)} /\ issued \subseteq issued'
      BY <3>1 DEF Written, ClockKept
    <3>3. AcquiresLease  BY <2>1, <2>3, <3>2 DEF AcquiresLease
    <3>4. QED  BY <1>3, <3>2, <3>3 DEF LeaseStep
  <2>4. QED  BY <1>5, <2>2, <2>3 DEF FinishAcquire
<1>6. ASSUME NEW p \in Proc, NEW t \in Thread, FinishRenew(p, t)
      PROVE  CallStep /\ LeaseStep /\ ClockKept
  <2> DEFINE c == call[p][t]
             r == [c.token EXCEPT !.expires = c.now + LeaseSeconds]
  <2>1. c \in TokenCall /\ c.op = "renew"  BY <1>6, CallShape DEF FinishRenew
  <2>2. CASE Rejected(p, t)  BY <1>4, <2>2 DEF LeaseStep
  <2>3. CASE /\ AssertStateToken(c.token, c.now, FALSE)
             /\ \E ok \in BOOLEAN : Written(p, t, r, ok, {r}, r)
             /\ UNCHANGED minted
    <3>1. PICK ok \in BOOLEAN : Written(p, t, r, ok, {r}, r)
      BY <2>3
    <3>2. /\ lease' = r /\ ClockKept /\ Return(p, t)
          /\ issued' \subseteq issued \cup {r} /\ issued \subseteq issued'
      BY <3>1 DEF Written, ClockKept
    <3>3. RenewsLease  BY <2>1, <2>3, <3>2 DEF RenewsLease
    <3>4. QED  BY <1>3, <3>2, <3>3 DEF LeaseStep
  <2>4. QED  BY <1>6, <2>2, <2>3 DEF FinishRenew
<1>7. ASSUME NEW p \in Proc, NEW t \in Thread, FinishRelease(p, t)
      PROVE  CallStep /\ LeaseStep /\ ClockKept
  <2> DEFINE c == call[p][t]
             l == [lease EXCEPT !.owner = NoOwner, !.instance = 0,
                                !.expires = EpochTimestamp]
             n == IF cached[p] = c.token THEN NoToken ELSE cached[p]
  <2>1. CASE Rejected(p, t)  BY <1>4, <2>1 DEF LeaseStep
  <2>2. CASE /\ AssertStateToken(c.token, c.now, TRUE)
             /\ \E ok \in BOOLEAN : Written(p, t, l, ok, {}, n)
             /\ UNCHANGED minted
    <3>1. lease' = l /\ ClockKept /\ Return(p, t) /\ issued' = issued
      BY <2>2 DEF Written, ClockKept
    <3>2. ReleasesLease
      BY <1>7, <2>2, <3>1 DEF ReleasesLease, FinishRelease, Released, AssertStateToken
    <3>3. QED  BY <1>3, <3>1, <3>2 DEF LeaseStep
  <2>3. QED  BY <1>7, <2>1, <2>2 DEF FinishRelease, Released
<1>8. ASSUME NEW e \in 0..MaxEpoch, NEW f \in 0..MaxEpoch, RemoteFloor(e, f)
      PROVE  CallStep /\ RaisesFloor /\ ClockKept
  <2> DEFINE e2 == IF e > lease.epoch THEN e ELSE lease.epoch
             f2 == IF f > lease.fence THEN f ELSE lease.fence
  <2>1. /\ e2 \in Nat /\ f2 \in Nat /\ e2 >= lease.epoch /\ f2 >= lease.fence
        /\ e2 > lease.epoch \/ f2 > lease.fence
    BY <1>8 DEF TypeOK, Lease, RemoteFloor
  <2>2. lease' = [lease EXCEPT !.epoch = e2, !.fence = f2]  BY <1>8 DEF RemoteFloor
  <2> HIDE DEF e2, f2
  <2>3. RaisesFloor  BY <1>8, <2>1, <2>2 DEF RaisesFloor, RemoteFloor
  <2>4. QED  BY <1>8, <2>3 DEF RemoteFloor, CallStep, ClockKept
<1>9. ASSUME NEW p \in Proc, Restart(p)
      PROVE  CallStep /\ KeepsLease /\ ClockKept
  BY <1>9 DEF Restart, ClockKept, TypeOK, CallStep, KeepsLease
<1>10. CASE Tick
  BY <1>10 DEF Tick, ClockStep, TypeOK, CallStep, KeepsLease, LeaseStep
<1>11. CASE ClockStepBack
  BY <1>11 DEF ClockStepBack, ClockStep, TypeOK, CallStep, KeepsLease, LeaseStep
<1>12. CASE UNCHANGED vars
  BY <1>12 DEF vars, ClockStep, TypeOK, CallStep, KeepsLease, LeaseStep
<1>13. ClockKept => ClockStep  BY DEF TypeOK, ClockKept, ClockStep
<1>14. QED
  BY <1>1, <1>2, <1>5, <1>6, <1>7, <1>8, <1>9, <1>10, <1>11, <1>12, <1>13
     DEF Next, LeaseStep

-----------------------------------------------------------------------------
LEMMA IdentityInit == Init => IdentityInv
BY TypeInit
   DEF Init, IdentityInv, PendingIssued, HighWater, Chained, InstancesFresh,
       InitialLease, Idle

LEMMA IdentityStep ==
    ASSUME IdentityInv, [Next]_vars
    PROVE  IdentityInv'
<1> USE LeaseAssumption
<1>1. TypeOK /\ TypeOK'  BY TypeStep DEF IdentityInv
<1>2. CallStep /\ LeaseStep  BY <1>1, StepShape
<1>3. issued \subseteq issued'
  BY <1>2 DEF LeaseStep, KeepsLease, AcquiresLease, RenewsLease, ReleasesLease,
              RaisesFloor
<1>4. PendingIssued'
  <2> SUFFICES ASSUME NEW p \in Proc, NEW t \in Thread,
                      call'[p][t].op \in {"renew", "release"}
               PROVE  call'[p][t].token \in issued'
    BY DEF PendingIssued
  <2>1. CASE call'[p][t] = call[p][t]
    BY <1>3, <2>1 DEF PendingIssued, IdentityInv
  <2>2. CASE call'[p][t] = Idle  BY <2>2 DEF Idle
  <2>3. CASE \E o \in Owner :
                call'[p][t] = [op |-> "acquire", owner |-> o, now |-> clock]
    BY <2>3
  <2>4. CASE \E op \in {"renew", "release"}, tok \in issued :
                call'[p][t] = [op |-> op, token |-> tok, now |-> clock]
    BY <1>3, <2>4
  <2>5. QED  BY <1>2, <2>1, <2>2, <2>3, <2>4 DEF CallStep
<1>5. HighWater' /\ Chained'
  <2>1. CASE KeepsLease
    BY <2>1 DEF KeepsLease, IdentityInv, HighWater, Chained
  <2>2. CASE AcquiresLease
    <3>1. PICK p \in Proc, t \in Thread :
             /\ call[p][t] \in AcquireCall
             /\ lease' = NewLease(call[p][t])
             /\ issued' \subseteq issued \cup {NewLease(call[p][t])}
      BY <2>2 DEF AcquiresLease
    <3> DEFINE n == NewLease(call[p][t])
    <3>2. n.epoch = lease.epoch + 1 /\ n.fence = lease.fence + 1
      BY <1>1, <3>1, NewLeaseToken
    <3>3. lease.epoch \in Nat /\ lease.fence \in Nat  BY <1>1 DEF TypeOK, Lease
    <3>4. \A a \in issued : a.epoch \in Nat /\ a.fence \in Nat
      BY <1>1 DEF TypeOK, Token
    <3>5. \A a \in issued : a.epoch < n.epoch /\ a.fence < n.fence
      BY <3>2, <3>3, <3>4 DEF IdentityInv, HighWater
    <3>6. lease' = n /\ issued' \subseteq issued \cup {n}  BY <3>1
    <3> HIDE DEF n
    <3>7. HighWater'
      BY <3>2, <3>3, <3>4, <3>5, <3>6 DEF HighWater
    <3>8. Chained'
      BY <3>5, <3>6 DEF Chained, IdentityInv
    <3>9. QED  BY <3>7, <3>8
  <2>3. CASE RenewsLease
    <3>1. PICK p \in Proc, t \in Thread :
             LET c == call[p][t]
                 r == [c.token EXCEPT !.expires = c.now + LeaseSeconds] IN
             /\ c \in TokenCall /\ c.op = "renew"
             /\ AssertStateToken(c.token, c.now, FALSE)
             /\ lease' = r
             /\ issued' \subseteq issued \cup {r}
      BY <2>3 DEF RenewsLease
    <3> DEFINE tok == call[p][t].token
               r == [tok EXCEPT !.expires = call[p][t].now + LeaseSeconds]
    <3>2. tok \in issued  BY <3>1 DEF IdentityInv, PendingIssued
    <3>3. /\ r.epoch = tok.epoch /\ r.fence = tok.fence
          /\ r.owner = tok.owner /\ r.instance = tok.instance
      BY <3>1, <3>2, <1>1 DEF TypeOK, Token
    <3>4. tok.epoch = lease.epoch /\ tok.fence = lease.fence
      BY <3>1 DEF AssertStateToken, SameIdentity
    <3>5. lease' = r /\ issued' \subseteq issued \cup {r}  BY <3>1
    <3> HIDE DEF r, tok
    <3>6. r.epoch \in Nat /\ r.fence \in Nat
      BY <3>2, <3>3, <1>1 DEF TypeOK, Token
    <3>7. HighWater'
      BY <3>3, <3>4, <3>5, <3>6 DEF HighWater, IdentityInv
    <3>8. Chained'
      BY <3>2, <3>3, <3>5 DEF Chained, IdentityInv
    <3>9. QED  BY <3>7, <3>8
  <2>4. CASE ReleasesLease
    <3>1. lease'.epoch = lease.epoch /\ lease'.fence = lease.fence
      BY <2>4, <1>1 DEF ReleasesLease, TypeOK, Lease
    <3>2. issued' = issued  BY <2>4 DEF ReleasesLease
    <3>3. QED  BY <3>1, <3>2 DEF IdentityInv, HighWater, Chained
  <2>5. CASE RaisesFloor
    <3>1. /\ lease'.epoch >= lease.epoch /\ lease'.fence >= lease.fence
          /\ lease'.epoch \in Nat /\ lease'.fence \in Nat
          /\ lease.epoch \in Nat /\ lease.fence \in Nat
      BY <2>5, <1>1 DEF RaisesFloor, TypeOK, Lease
    <3>2. \A a \in issued : a.epoch \in Nat /\ a.fence \in Nat
      BY <1>1 DEF TypeOK, Token
    <3>3. issued' = issued  BY <2>5 DEF RaisesFloor
    <3>4. HighWater'  BY <3>1, <3>2, <3>3 DEF HighWater, IdentityInv
    <3>5. Chained'  BY <3>3 DEF Chained, IdentityInv
    <3>6. QED  BY <3>4, <3>5
  <2>6. QED  BY <1>2, <2>1, <2>2, <2>3, <2>4, <2>5 DEF LeaseStep
<1>6. InstancesFresh'
  <2>1. /\ lease.instance \in Nat /\ minted \in Nat /\ lease.instance <= minted
        /\ \A a \in issued : a.instance >= 1
    BY <1>1 DEF TypeOK, Lease, IdentityInv, InstancesFresh
  <2>2. CASE KeepsLease  BY <2>1, <2>2 DEF KeepsLease, InstancesFresh
  <2>3. CASE AcquiresLease
    <3>1. PICK p \in Proc, t \in Thread :
             /\ lease' = NewLease(call[p][t])
             /\ minted' = minted + 1
             /\ issued' \subseteq issued \cup {NewLease(call[p][t])}
      BY <2>3 DEF AcquiresLease
    <3>2. NewLease(call[p][t]).instance = minted + 1  BY DEF NewLease
    <3>3. QED  BY <2>1, <3>1, <3>2 DEF InstancesFresh
  <2>4. CASE RenewsLease
    <3>1. PICK p \in Proc, t \in Thread :
             LET c == call[p][t]
                 r == [c.token EXCEPT !.expires = c.now + LeaseSeconds] IN
             /\ c \in TokenCall /\ c.op = "renew"
             /\ AssertStateToken(c.token, c.now, FALSE)
             /\ lease' = r
             /\ minted' = minted
             /\ issued' \subseteq issued \cup {r}
      BY <2>4 DEF RenewsLease
    <3> DEFINE tok == call[p][t].token
               r == [tok EXCEPT !.expires = call[p][t].now + LeaseSeconds]
    <3>2. tok \in issued /\ tok \in Token
      BY <3>1 DEF IdentityInv, PendingIssued, TokenCall
    <3>3. r.instance = tok.instance /\ tok.instance = lease.instance
      BY <3>1, <3>2 DEF Token, AssertStateToken, SameIdentity
    <3>4. lease' = r /\ issued' \subseteq issued \cup {r} /\ minted' = minted
      BY <3>1
    <3> HIDE DEF r, tok
    <3>5. QED  BY <2>1, <3>2, <3>3, <3>4 DEF InstancesFresh
  <2>5. CASE ReleasesLease
    BY <1>1, <2>1, <2>5 DEF ReleasesLease, InstancesFresh, TypeOK, Lease
  <2>6. CASE RaisesFloor
    BY <1>1, <2>1, <2>6 DEF RaisesFloor, InstancesFresh, TypeOK, Lease
  <2>7. QED  BY <1>2, <2>2, <2>3, <2>4, <2>5, <2>6 DEF LeaseStep
<1>7. QED  BY <1>1, <1>4, <1>5, <1>6 DEF IdentityInv

LEMMA IdentityImplies ==
    IdentityInv => OneInstancePerEpoch /\ TokensOrdered /\ OnlyNewestHonoured
<1> SUFFICES ASSUME IdentityInv
             PROVE  OneInstancePerEpoch /\ TokensOrdered /\ OnlyNewestHonoured
  OBVIOUS
<1>1. \A a \in issued : a.epoch \in Nat /\ a.fence \in Nat
  BY DEF IdentityInv, TypeOK, Token
<1>2. OneInstancePerEpoch  BY <1>1 DEF IdentityInv, Chained, OneInstancePerEpoch
<1>3. TokensOrdered  BY <1>1 DEF IdentityInv, Chained, TokensOrdered
<1>4. OnlyNewestHonoured
  BY DEF IdentityInv, HighWater, OnlyNewestHonoured, SameIdentity
<1>5. QED  BY <1>2, <1>3, <1>4

\* Types: the lease, the calls in flight and the tokens keep their shapes.
THEOREM TypeCorrect == Spec => []TypeOK
<1>1. TypeOK /\ [Next]_vars => TypeOK'  BY TypeStep
<1>2. QED  BY TypeInit, <1>1, PTL DEF Spec

\* No two lease instances ever share an epoch or a fencing token, whatever the
\* clock does (fencing.py acquire, renew, release and the remote floor).
THEOREM EpochsUnique == Spec => []OneInstancePerEpoch
<1>1. IdentityInv /\ [Next]_vars => IdentityInv'  BY IdentityStep
<1>2. QED  BY IdentityInit, <1>1, IdentityImplies, PTL DEF Spec

\* Epochs and fencing tokens order the tokens alike, although the remote floor
\* raises them independently (orchestrator.py _apply_remote_fence_high_water_floor).
THEOREM TokensAgree == Spec => []TokensOrdered
<1>1. IdentityInv /\ [Next]_vars => IdentityInv'  BY IdentityStep
<1>2. QED  BY IdentityInit, <1>1, IdentityImplies, PTL DEF Spec

\* Only a token of the newest epoch matches the durable lease, whatever token a
\* caller presents (fencing.py _assert_state_token).
THEOREM TokensFence == Spec => []OnlyNewestHonoured
<1>1. IdentityInv /\ [Next]_vars => IdentityInv'  BY IdentityStep
<1>2. QED  BY IdentityInit, <1>1, IdentityImplies, PTL DEF Spec

-----------------------------------------------------------------------------
LEMMA TimeInit == Init => TimeInv
BY IdentityInit
   DEF Init, TimeInv, SamplesBounded, IssuedBounded, ExpiryCovers, Idle

\* A renew in flight never writes an expiry below the one it replaces.
LEMMA RenewExtends ==
    ASSUME TimeInv, NEW p \in Proc, NEW t \in Thread,
           call[p][t].op = "renew",
           AssertStateToken(call[p][t].token, call[p][t].now, FALSE)
    PROVE  lease.expires <= call[p][t].now + LeaseSeconds
BY DEF TimeInv, SamplesBounded, AssertStateToken

LEMMA TimeStep ==
    ASSUME TimeInv, [Next]_vars, steps' = 0
    PROVE  TimeInv'
<1> USE LeaseAssumption
<1>1. IdentityInv /\ IdentityInv'  BY IdentityStep DEF TimeInv
<1>2. TypeOK /\ TypeOK' /\ HighWater  BY <1>1 DEF IdentityInv
<1>3. CallStep /\ LeaseStep /\ clock' >= clock  BY <1>2, StepShape DEF ClockStep
<1>4. clock \in Nat /\ clock' \in Nat /\ LeaseSeconds \in Nat  BY <1>2 DEF TypeOK
<1>5. SamplesBounded'
  <2> SUFFICES ASSUME NEW p \in Proc, NEW t \in Thread
               PROVE  /\ call'[p][t].op # "idle" => call'[p][t].now <= clock'
                      /\ call'[p][t].op = "renew"
                            => call'[p][t].token.expires
                                 <= call'[p][t].now + LeaseSeconds
    BY DEF SamplesBounded
  <2>1. CASE call'[p][t] = call[p][t]
    <3>1. call[p][t].op # "idle" => call[p][t].now \in Nat
      BY <1>2, CallShape DEF Call, AcquireCall, TokenCall, Idle
    <3>2. QED  BY <1>3, <1>4, <2>1, <3>1 DEF TimeInv, SamplesBounded
  <2>2. CASE call'[p][t] = Idle  BY <2>2 DEF Idle
  <2>3. ASSUME NEW o \in Owner,
               call'[p][t] = [op |-> "acquire", owner |-> o, now |-> clock]
        PROVE  call'[p][t].now = clock /\ call'[p][t].op = "acquire"
    BY <2>3
  <2>4. ASSUME NEW op \in {"renew", "release"}, NEW tok \in issued,
               call'[p][t] = [op |-> op, token |-> tok, now |-> clock]
        PROVE  call'[p][t].now = clock /\ call'[p][t].token.expires <= clock + LeaseSeconds
    BY <2>4 DEF TimeInv, IssuedBounded
  <2>5. QED  BY <1>3, <2>1, <2>2, <2>3, <2>4 DEF CallStep
<1>6. \A a \in issued : a.expires \in Nat /\ a.epoch \in Nat /\ a.fence \in Nat
                        /\ a.owner # NoOwner
  BY <1>2 DEF TypeOK, Token
<1>7. \A a \in issued : a.expires <= clock' + LeaseSeconds
  BY <1>3, <1>4, <1>6 DEF TimeInv, IssuedBounded
<1>8. lease.epoch \in Nat /\ lease.fence \in Nat /\ lease.expires \in Nat
  BY <1>2 DEF TypeOK, Lease
<1>9. IssuedBounded' /\ ExpiryCovers'
  <2>1. CASE KeepsLease
    BY <2>1, <1>7 DEF KeepsLease, TimeInv, IssuedBounded, ExpiryCovers, SameIdentity
  <2>2. CASE AcquiresLease
    <3>1. PICK p \in Proc, t \in Thread :
             /\ call[p][t] \in AcquireCall
             /\ lease' = NewLease(call[p][t])
             /\ issued' \subseteq issued \cup {NewLease(call[p][t])}
      BY <2>2 DEF AcquiresLease
    <3> DEFINE n == NewLease(call[p][t])
    <3>2. n.epoch = lease.epoch + 1 /\ n.expires = call[p][t].now + LeaseSeconds
      BY <1>2, <3>1, NewLeaseToken DEF NewLease
    <3>3. call[p][t].now <= clock /\ call[p][t].now \in Nat
      BY <3>1 DEF TimeInv, SamplesBounded, AcquireCall
    <3>4. lease' = n /\ issued' \subseteq issued \cup {n}  BY <3>1
    <3>5. n.expires \in Nat /\ n.expires <= clock' + LeaseSeconds
      BY <1>3, <1>4, <3>2, <3>3
    <3> HIDE DEF n
    <3>6. IssuedBounded'  BY <1>7, <3>4, <3>5 DEF IssuedBounded
    <3>7. \A a \in issued : a.epoch # n.epoch
      BY <1>2, <1>6, <1>8, <3>2 DEF HighWater
    <3>8. ExpiryCovers'  BY <3>4, <3>5, <3>7 DEF ExpiryCovers, SameIdentity
    <3>9. QED  BY <3>6, <3>8
  <2>3. CASE RenewsLease
    <3>1. PICK p \in Proc, t \in Thread :
             LET c == call[p][t]
                 r == [c.token EXCEPT !.expires = c.now + LeaseSeconds] IN
             /\ c \in TokenCall /\ c.op = "renew"
             /\ AssertStateToken(c.token, c.now, FALSE)
             /\ lease' = r
             /\ issued' \subseteq issued \cup {r}
      BY <2>3 DEF RenewsLease
    <3> DEFINE tok == call[p][t].token
               r == [tok EXCEPT !.expires = call[p][t].now + LeaseSeconds]
    <3>2. tok \in Token /\ call[p][t].now \in Nat  BY <3>1 DEF TokenCall
    <3>3. /\ r.epoch = lease.epoch /\ r.fence = lease.fence
          /\ r.owner = lease.owner /\ r.instance = lease.instance
          /\ r.expires = call[p][t].now + LeaseSeconds
      BY <3>1, <3>2 DEF Token, AssertStateToken, SameIdentity
    <3>4. call[p][t].now <= clock  BY <3>1 DEF TimeInv, SamplesBounded
    <3>5. lease' = r /\ issued' \subseteq issued \cup {r}  BY <3>1
    <3>6. lease.expires <= r.expires  BY <3>1, <3>3, RenewExtends
    <3> HIDE DEF r, tok
    <3>7. r.expires \in Nat /\ r.expires <= clock' + LeaseSeconds
      BY <1>3, <1>4, <3>2, <3>3, <3>4
    <3>8. IssuedBounded'  BY <1>7, <3>5, <3>7 DEF IssuedBounded
    <3>9. ExpiryCovers'
      BY <1>6, <1>8, <3>3, <3>5, <3>6, <3>7
         DEF ExpiryCovers, TimeInv, SameIdentity
    <3>10. QED  BY <3>8, <3>9
  <2>4. CASE ReleasesLease
    <3>1. lease'.owner = NoOwner /\ issued' = issued
      BY <2>4, <1>2 DEF ReleasesLease, TypeOK, Lease
    <3>2. QED  BY <1>6, <1>7, <3>1 DEF IssuedBounded, ExpiryCovers, SameIdentity
  <2>5. CASE RaisesFloor
    <3>1. /\ lease'.epoch >= lease.epoch /\ lease'.fence >= lease.fence
          /\ lease'.epoch > lease.epoch \/ lease'.fence > lease.fence
          /\ lease'.epoch \in Nat /\ lease'.fence \in Nat
          /\ issued' = issued
      BY <2>5, <1>2 DEF RaisesFloor, TypeOK, Lease
    <3>2. \A a \in issued : ~(a.epoch = lease'.epoch /\ a.fence = lease'.fence)
      BY <1>2, <1>6, <1>8, <3>1 DEF HighWater
    <3>3. QED  BY <1>7, <3>1, <3>2 DEF IssuedBounded, ExpiryCovers, SameIdentity
  <2>6. QED  BY <1>3, <2>1, <2>2, <2>3, <2>4, <2>5 DEF LeaseStep
<1>10. QED  BY <1>1, <1>5, <1>9 DEF TimeInv

LEMMA ClockStepInductive == ClockInv /\ [Next]_vars => ClockInv'
<1> SUFFICES ASSUME ClockInv, [Next]_vars PROVE ClockInv'
  OBVIOUS
<1>1. IdentityInv'  BY IdentityStep DEF ClockInv
<1>2. ASSUME steps' = 0  PROVE TimeInv'
  <2>1. steps = 0  BY <1>2, StepShape DEF ClockInv, IdentityInv, ClockStep
  <2>2. QED  BY <1>2, <2>1, TimeStep DEF ClockInv
<1>3. QED  BY <1>1, <1>2 DEF ClockInv

LEMMA ClockInit == Init => ClockInv
BY TimeInit, IdentityInit DEF ClockInv

LEMMA ClockImplies == ClockInv => PlannedSurvivesRenew
BY DEF ClockInv, TimeInv, ExpiryCovers, PlannedSurvivesRenew, AssertPlannedToken

\* The expiry of an instance never moves back, and a takeover finds the lease
\* free at the present clock.
LEMMA TimeActions ==
    ASSUME TimeInv, [Next]_vars
    PROVE  /\ lease'.instance = lease.instance => lease'.expires >= lease.expires
           /\ lease'.epoch # lease.epoch
                => lease.owner = NoOwner \/ lease.expires <= clock
<1> USE LeaseAssumption
<1>1. TypeOK /\ IdentityInv /\ PendingIssued /\ InstancesFresh
  BY DEF TimeInv, IdentityInv
<1>2. LeaseStep  BY <1>1, StepShape
<1>3. /\ lease.instance \in Nat /\ lease.expires \in Nat /\ lease.epoch \in Nat
      /\ minted \in Nat /\ clock \in Nat
  BY <1>1 DEF TypeOK, Lease
<1>4. CASE KeepsLease  BY <1>3, <1>4 DEF KeepsLease
<1>5. CASE AcquiresLease
  <2>1. PICK p \in Proc, t \in Thread :
           /\ call[p][t] \in AcquireCall
           /\ LeaseFree(call[p][t].now)
           /\ lease' = NewLease(call[p][t])
    BY <1>5 DEF AcquiresLease
  <2>2. lease'.instance = minted + 1  BY <2>1 DEF NewLease
  <2>3. lease'.instance # lease.instance  BY <1>1, <1>3, <2>2 DEF InstancesFresh
  <2>4. call[p][t].now <= clock /\ call[p][t].now \in Nat
    BY <2>1 DEF TimeInv, SamplesBounded, AcquireCall
  <2>5. lease.owner = NoOwner \/ lease.expires <= clock
    BY <1>3, <2>1, <2>4 DEF LeaseFree
  <2>6. QED  BY <2>3, <2>5
<1>6. CASE RenewsLease
  <2>1. PICK p \in Proc, t \in Thread :
           LET c == call[p][t] IN
           /\ c \in TokenCall /\ c.op = "renew"
           /\ AssertStateToken(c.token, c.now, FALSE)
           /\ lease' = [c.token EXCEPT !.expires = c.now + LeaseSeconds]
    BY <1>6 DEF RenewsLease
  <2>2. call[p][t].token \in Token /\ call[p][t].now \in Nat
    BY <2>1 DEF TokenCall
  <2>3. /\ lease'.epoch = lease.epoch
        /\ lease'.expires = call[p][t].now + LeaseSeconds
    BY <2>1, <2>2 DEF Token, AssertStateToken, SameIdentity
  <2>4. lease.expires <= call[p][t].now + LeaseSeconds  BY <2>1, RenewExtends
  <2>5. QED  BY <1>3, <2>2, <2>3, <2>4
<1>7. CASE ReleasesLease
  <2>1. lease'.epoch = lease.epoch /\ lease'.instance = 0
    BY <1>1, <1>7 DEF ReleasesLease, TypeOK, Lease
  <2>2. lease.instance >= 1
    BY <1>1, <1>7 DEF ReleasesLease, SameIdentity, PendingIssued, InstancesFresh
  <2>3. QED  BY <1>3, <2>1, <2>2
<1>8. CASE RaisesFloor
  <2>1. lease'.expires = lease.expires
    BY <1>1, <1>8 DEF RaisesFloor, TypeOK, Lease
  <2>2. QED  BY <1>3, <1>8, <2>1 DEF RaisesFloor
<1>9. QED  BY <1>2, <1>4, <1>5, <1>6, <1>7, <1>8 DEF LeaseStep

\* Until the clock steps back the credential captured before a renew stays
\* admissible for the planned dispatch (fencing.py planned_dispatch_admission).
THEOREM CapturedCredentialSurvives == Spec => []PlannedSurvivesRenew
BY ClockInit, ClockStepInductive, ClockImplies, PTL DEF Spec

\* Until the clock steps back a lease is never taken over while it is live
\* (fencing.py acquire).
THEOREM TakeoverOnlyWhenFree == Spec => NoEarlyTakeover
<1>1. ClockInv /\ [Next]_vars
        => [steps = 0 /\ lease'.epoch # lease.epoch
              => lease.owner = NoOwner \/ lease.expires <= clock]_vars
  BY TimeActions DEF ClockInv
<1>2. QED  BY ClockInit, ClockStepInductive, <1>1, PTL DEF Spec, NoEarlyTakeover

\* Until the clock steps back racing renewals never shorten a lease
\* (fencing.py renew).
THEOREM RenewNeverShortens == Spec => ExpiryNeverShortened
<1>1. ClockInv /\ [Next]_vars
        => [steps = 0 /\ lease'.instance = lease.instance
              => lease'.expires >= lease.expires]_vars
  BY TimeActions DEF ClockInv
<1>2. QED  BY ClockInit, ClockStepInductive, <1>1, PTL DEF Spec, ExpiryNeverShortened

=============================================================================
