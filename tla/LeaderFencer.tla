---------------------------- MODULE LeaderFencer ----------------------------
(***************************************************************************)
(* The lease and fencing authority of the execution service                *)
(* (backend/app/execution/fencing.py).  Several processes, each with       *)
(* several threads, share one durable lease record.  A call samples the    *)
(* wall clock first (_clock) and only then enters the serialized durable   *)
(* mutation, so every call is two steps: Begin* and Finish*.  The clock    *)
(* may step back, the directory fsync after the atomic replace may fail    *)
(* (the write is durable although the caller sees an error) and a process  *)
(* may restart between any two steps.                                      *)
(*                                                                         *)
(* Credentials travel over the API: a caller may present to any process    *)
(* any token that was ever issued.                                         *)
(***************************************************************************)
EXTENDS Naturals, FiniteSets

CONSTANTS
    Proc,           \* execution service processes sharing the state file
    Thread,         \* concurrent calls of one process
    Owner,          \* owner_id values callers acquire for
    NoOwner,        \* the empty owner_id of a released lease
    LeaseSeconds,   \* duration of a lease, in clock units
    MaxTime,        \* bound: last wall clock value
    MaxSteps,       \* bound: number of times the wall clock steps back
    MaxEpoch        \* bound: largest epoch and fencing token

ASSUME LeaseAssumption ==
    /\ LeaseSeconds \in Nat \ {0}
    /\ NoOwner \notin Owner
    /\ MaxTime \in Nat
    /\ MaxSteps \in Nat
    /\ MaxEpoch \in Nat

VARIABLES
    lease,      \* the durable lease section
    clock,      \* the host's wall clock
    steps,      \* history: how often the clock has stepped back
    lastNow,    \* lastNow[p]: LeaderFencer._last_now (0 before the first call)
    latched,    \* latched[p]: LeaderFencer._clock_rollback
    call,       \* call[p][t]: the call thread t of p is in, after _clock
    cached,     \* cached[p]: LeaderFencer._token
    issued,     \* history: the tokens handed to callers
    minted      \* history: number of instance ids written to the lease

vars == <<lease, clock, steps, lastNow, latched, call, cached, issued, minted>>

\* EPOCH_TIMESTAMP: the expiry of a lease that was never acquired or released.
EpochTimestamp == 0

\* instance_id is a fresh uuid per acquire; 0 is the empty instance id.
Token == [owner : Owner, epoch : Nat, fence : Nat, expires : Nat, instance : Nat]
Lease == [owner : Owner \cup {NoOwner}, epoch : Nat, fence : Nat,
          expires : Nat, instance : Nat]

\* Calls that have passed _clock; `now` is the sampled clock.
AcquireCall == [op : {"acquire"}, owner : Owner, now : Nat]
TokenCall   == [op : {"renew", "release"}, token : Token, now : Nat]
Idle        == [op |-> "idle"]
Call        == AcquireCall \cup TokenCall \cup {Idle}

\* _token is None.
NoToken == [owner |-> NoOwner]

TypeOK ==
    /\ lease \in Lease
    /\ clock \in Nat /\ steps \in Nat
    /\ lastNow \in [Proc -> Nat]
    /\ latched \in [Proc -> BOOLEAN]
    /\ call \in [Proc -> [Thread -> Call]]
    /\ cached \in [Proc -> Token \cup {NoToken}]
    /\ issued \subseteq Token
    /\ minted \in Nat

-----------------------------------------------------------------------------
InitialLease == [owner |-> NoOwner, epoch |-> 0, fence |-> 0,
                 expires |-> EpochTimestamp, instance |-> 0]

Init ==
    /\ lease = InitialLease
    /\ clock = 1 /\ steps = 0
    /\ lastNow = [p \in Proc |-> 0]
    /\ latched = [p \in Proc |-> FALSE]
    /\ call = [p \in Proc |-> [t \in Thread |-> Idle]]
    /\ cached = [p \in Proc |-> NoToken]
    /\ issued = {}
    /\ minted = 0

\* _clock: a sample below the process's high-water latches the rollback; a
\* latched process stays halted even when the clock has caught up, although
\* _last_now is still advanced.
ClockOk(p) == lastNow[p] <= clock /\ ~latched[p]

Sample(p) ==
    /\ latched' = [latched EXCEPT ![p] = @ \/ clock < lastNow[p]]
    /\ lastNow' = [lastNow EXCEPT ![p] = IF clock < @ THEN @ ELSE clock]

\* A call starts: it goes on to the durable mutation only if _clock returned.
Begin(p, t, c) ==
    /\ call[p][t] = Idle
    /\ Sample(p)
    /\ call' = [call EXCEPT ![p][t] = IF ClockOk(p) THEN c ELSE Idle]
    /\ UNCHANGED <<lease, clock, steps, cached, issued, minted>>

BeginAcquire(p, t, o) ==
    Begin(p, t, [op |-> "acquire", owner |-> o, now |-> clock])

\* renew and release: the supplied token is read before the clock is sampled.
BeginWithToken(p, t, op, tok) ==
    Begin(p, t, [op |-> op, token |-> tok, now |-> clock])

-----------------------------------------------------------------------------
\* Wrong: the owner alone identifies a lease.
SameIdentity_OwnerOnly(tok) == lease.owner = tok.owner

\* _assert_state_token: owner, epoch, fencing token and instance must match
\* the durable lease exactly.
SameIdentity(tok) ==
    /\ lease.owner = tok.owner
    /\ lease.epoch = tok.epoch
    /\ lease.fence = tok.fence
    /\ lease.instance = tok.instance

\* Wrong: the expiry is not bound, as in the planned admission.
AssertStateToken_AnyExpiry(tok, now, allowExpired) ==
    /\ SameIdentity(tok)
    /\ allowExpired \/ lease.expires > now

\* The ordinary paths also bind the exact durable expiry.
AssertStateToken(tok, now, allowExpired) ==
    /\ SameIdentity(tok)
    /\ lease.expires = tok.expires
    /\ allowExpired \/ lease.expires > now

\* Wrong: the exact expiry is bound for a planned child too.
AssertPlannedToken_Exact(tok, now) == AssertStateToken(tok, now, FALSE)

\* allow_renewed_expiry_snapshot: a planned child may carry an expiry from
\* before a concurrent renew, but never one newer than the durable expiry.
AssertPlannedToken(tok, now) ==
    /\ SameIdentity(tok)
    /\ tok.expires <= lease.expires
    /\ lease.expires > now

Return(p, t) == call' = [call EXCEPT ![p][t] = Idle]

\* The mutation raised: nothing durable changed.
Rejected(p, t) ==
    /\ Return(p, t)
    /\ UNCHANGED <<lease, clock, steps, lastNow, latched, cached, issued, minted>>

\* Wrong: the lease that was written is cached, also by a release.
Written_CachesLease(p, t, l, ok, tokens, newCached) ==
    /\ lease' = l
    /\ issued' = IF ok THEN issued \cup tokens ELSE issued
    /\ cached' = IF ok THEN [cached EXCEPT ![p] = l] ELSE cached
    /\ Return(p, t)
    /\ UNCHANGED <<clock, steps, lastNow, latched>>

\* The mutation was written.  `ok` is FALSE when the directory fsync failed
\* after os.replace: the new lease is on disk, the caller sees an error and
\* LeaderFencer._token is not assigned.
Written(p, t, l, ok, tokens, newCached) ==
    /\ lease' = l
    /\ issued' = IF ok THEN issued \cup tokens ELSE issued
    /\ cached' = IF ok THEN [cached EXCEPT ![p] = newCached] ELSE cached
    /\ Return(p, t)
    /\ UNCHANGED <<clock, steps, lastNow, latched>>

\* Wrong: the last clock unit of a lease does not count.
LeaseFree_Early(now) == lease.owner = NoOwner \/ lease.expires <= now + 1

\* The lease is taken only when it has no owner or has expired at the sampled
\* time, even by the owner that already holds it.
LeaseFree(now) == lease.owner = NoOwner \/ lease.expires <= now

\* Wrong: epoch and fencing token are left to the remote floor.
NewLease_NotAdvanced(c) ==
    [owner |-> c.owner, epoch |-> lease.epoch, fence |-> lease.fence,
     expires |-> c.now + LeaseSeconds, instance |-> minted + 1]

NewLease(c) ==
    [owner |-> c.owner, epoch |-> lease.epoch + 1, fence |-> lease.fence + 1,
     expires |-> c.now + LeaseSeconds, instance |-> minted + 1]

\* The writer of acquire.
FinishAcquire(p, t) ==
    /\ call[p][t].op = "acquire"
    /\ LET c == call[p][t] IN
       \/ /\ LeaseFree(c.now)
          /\ lease.epoch < MaxEpoch /\ lease.fence < MaxEpoch
          /\ minted' = minted + 1
          /\ \E ok \in BOOLEAN :
                Written(p, t, NewLease(c), ok, {NewLease(c)}, NewLease(c))
       \/ /\ ~LeaseFree(c.now)
          /\ Rejected(p, t)

\* The writer of renew: only the expiry moves.
FinishRenew(p, t) ==
    /\ call[p][t].op = "renew"
    /\ LET c == call[p][t]
           renewed == [c.token EXCEPT !.expires = c.now + LeaseSeconds] IN
       \/ /\ AssertStateToken(c.token, c.now, FALSE)
          /\ \E ok \in BOOLEAN : Written(p, t, renewed, ok, {renewed}, renewed)
          /\ UNCHANGED minted
       \/ /\ ~AssertStateToken(c.token, c.now, FALSE)
          /\ Rejected(p, t)

\* Wrong: the fencing token starts over.
Released_DropsFence ==
    [lease EXCEPT !.owner = NoOwner, !.instance = 0, !.fence = 0,
                  !.expires = EpochTimestamp]

\* A released lease: owner, instance and expiry are cleared, epoch and
\* fencing token stay as the high-water.
Released ==
    [lease EXCEPT !.owner = NoOwner, !.instance = 0, !.expires = EpochTimestamp]

\* The writer of release.  _token is forgotten only if it is the supplied
\* token.
FinishRelease(p, t) ==
    /\ call[p][t].op = "release"
    /\ LET c == call[p][t] IN
       \/ /\ AssertStateToken(c.token, c.now, TRUE)
          /\ \E ok \in BOOLEAN :
                Written(p, t, Released, ok, {},
                        IF cached[p] = c.token THEN NoToken ELSE cached[p])
          /\ UNCHANGED minted
       \/ /\ ~AssertStateToken(c.token, c.now, TRUE)
          /\ Rejected(p, t)

\* _apply_remote_fence_high_water_floor, inside the reconcile transaction:
\* Windows may know a higher epoch or token than this (restored) repository.
\* It reads the wall clock directly, and refuses while a lease is live.
RemoteFloor(e, f) ==
    /\ e > lease.epoch \/ f > lease.fence
    /\ lease.owner = NoOwner \/ lease.expires <= clock
    /\ lease' = [lease EXCEPT !.epoch = IF e > @ THEN e ELSE @,
                              !.fence = IF f > @ THEN f ELSE @]
    /\ UNCHANGED <<clock, steps, lastNow, latched, call, cached, issued, minted>>

\* A process restarts: everything but the durable lease is lost.
Restart(p) ==
    /\ lastNow' = [lastNow EXCEPT ![p] = 0]
    /\ latched' = [latched EXCEPT ![p] = FALSE]
    /\ call' = [call EXCEPT ![p] = [t \in Thread |-> Idle]]
    /\ cached' = [cached EXCEPT ![p] = NoToken]
    /\ UNCHANGED <<lease, clock, steps, issued, minted>>

Tick ==
    /\ clock < MaxTime
    /\ clock' = clock + 1
    /\ UNCHANGED <<lease, steps, lastNow, latched, call, cached, issued, minted>>

ClockStepBack ==
    /\ \E c \in 1..(clock - 1) : clock' = c
    /\ steps < MaxSteps /\ steps' = steps + 1
    /\ UNCHANGED <<lease, lastNow, latched, call, cached, issued, minted>>

Next ==
    \/ \E p \in Proc, t \in Thread :
          \/ \E o \in Owner : BeginAcquire(p, t, o)
          \/ \E op \in {"renew", "release"}, tok \in issued :
                BeginWithToken(p, t, op, tok)
          \/ FinishAcquire(p, t)
          \/ FinishRenew(p, t)
          \/ FinishRelease(p, t)
    \/ \E e, f \in 0..MaxEpoch : RemoteFloor(e, f)
    \/ \E p \in Proc : Restart(p)
    \/ Tick
    \/ ClockStepBack

Spec == Init /\ [][Next]_vars

-----------------------------------------------------------------------------
\* An epoch is given to one lease instance only: two tokens that were ever
\* handed out with the same epoch (or the same fencing token) belong to the
\* same owner and instance, across restarts, releases, failed writes, clock
\* steps and a remote high-water floor (fencing.py: acquire and renew, "Epoch
\* and token high-water marks are never decremented or reused").
OneInstancePerEpoch ==
    \A a, b \in issued :
        a.epoch = b.epoch \/ a.fence = b.fence
            => a.owner = b.owner /\ a.instance = b.instance

\* Epoch and fencing token order the tokens the same way although the remote
\* floor raises them independently: Windows may compare either one.
TokensOrdered ==
    \A a, b \in issued : a.epoch < b.epoch <=> a.fence < b.fence

\* A token whose instance was superseded is never honoured again: whatever
\* token a lease identity matches is a token of the newest epoch handed out.
OnlyNewestHonoured ==
    \A a, b \in issued : SameIdentity(a) => b.epoch <= a.epoch

\* Until the wall clock steps back, a lease is taken over only after
\* it has expired or was released, although acquire decides on a clock value
\* sampled before it waited for the repository lock.
NoEarlyTakeover ==
    [][ steps = 0 /\ lease'.epoch # lease.epoch
            => lease.owner = NoOwner \/ lease.expires <= clock ]_vars

\* Until the wall clock steps back, the durable expiry of a lease
\* instance is never shortened, whatever renewals of whatever processes race
\* (renew writes an expiry computed from a clock sampled before the lock).
ExpiryNeverShortened ==
    [][ steps = 0 /\ lease'.instance = lease.instance
            => lease'.expires >= lease.expires ]_vars

\* The credential a plan dispatch captured before a renew stays usable: until
\* the wall clock steps back, every token handed out for the live lease passes
\* planned_dispatch_admission.
PlannedSurvivesRenew ==
    \A tok \in issued :
        steps = 0 /\ SameIdentity(tok) /\ lease.expires > clock
            => AssertPlannedToken(tok, clock)
=============================================================================
