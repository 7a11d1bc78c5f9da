-------------------------- MODULE DurableRepository --------------------------
(***************************************************************************)
(* The repository of the execution document                                *)
(* (backend/app/execution/repository.py): one state file, replaced         *)
(* atomically under a file lock by any of several processes, each with its *)
(* own copy in memory.  A state is named by its history of writes, which   *)
(* is what the hash chain (state_hash, previous_state_hash) pins down; its *)
(* length is the state_version.  The file lock makes a read and a mutation *)
(* one step each.                                                          *)
(***************************************************************************)
EXTENDS Naturals, Sequences, SequencesExt

CONSTANTS
    Proc,       \* processes sharing the state file
    MaxWrites   \* bound: number of writes attempted

ASSUME RepositoryAssumption == MaxWrites \in Nat

VARIABLES
    disk,       \* the state in the file
    synced,     \* length of the prefix of disk that a host crash keeps
    mem,        \* mem[p]: DurableExecutionRepository._state
    saw,        \* saw[p]: the state p's caller read last, for its expected_version
    writes,     \* history: number of writes attempted
    acked,      \* history: the writes whose mutate() returned
    claims      \* history: the writes with an expected_version

vars == <<disk, synced, mem, saw, writes, acked, claims>>

Write == 1..MaxWrites

TypeOK ==
    /\ disk \in Seq(Write) /\ synced \in 0..Len(disk)
    /\ mem \in [Proc -> Seq(Write)] /\ saw \in [Proc -> Seq(Write)]
    /\ writes \in 0..MaxWrites /\ acked \subseteq Write
    /\ claims \subseteq [write : Write, seen : Seq(Write)]

\* No file yet: every process starts with _initial_state.
Init ==
    /\ disk = <<>> /\ synced = 0
    /\ mem = [p \in Proc |-> <<>>] /\ saw = [p \in Proc |-> <<>>]
    /\ writes = 0 /\ acked = {} /\ claims = {}

-----------------------------------------------------------------------------
\* _refresh_from_disk: the file is the state in memory or its immediate
\* successor (previous_state_hash); anything else raises.
Refreshable(p) ==
    disk = mem[p] \/ (Len(disk) > Len(mem[p]) /\ Front(disk) = mem[p])

Load(p) == mem' = [mem EXCEPT ![p] = disk]

\* snapshot, state_version.
Snapshot(p) ==
    /\ Refreshable(p)
    /\ Load(p)
    /\ saw' = [saw EXCEPT ![p] = disk]
    /\ UNCHANGED <<disk, synced, writes, acked, claims>>

\* Wrong: the version is compared before the file is read.
VersionExpected_Memory(p) == Len(saw[p]) = Len(mem[p])

\* mutate: the expected_version of the caller, compared after the refresh.
VersionExpected(p) == Len(saw[p]) = Len(disk)

\* Wrong: the candidate is built from the state in memory.
Candidate_Stale(p) == Append(mem[p], writes + 1)

\* The candidate is a copy of the refreshed state plus the mutation.
Candidate(p) == Append(disk, writes + 1)

\* Wrong: the write counts as soon as the file is replaced.
Persisted_BeforeSync(p) ==
    /\ disk' = Candidate(p)
    /\ mem' = [mem EXCEPT ![p] = disk']
    /\ acked' = acked \cup {writes + 1}
    /\ UNCHANGED synced

\* _persist: replace and directory fsync succeeded.
Persisted(p) ==
    /\ disk' = Candidate(p)
    /\ mem' = [mem EXCEPT ![p] = disk']
    /\ synced' = Len(disk')
    /\ acked' = acked \cup {writes + 1}

\* _persist: the file was replaced but the directory fsync failed.  The caller
\* gets an error and the memory keeps the old state, other processes and the
\* next read of this one find the new state.
Unsynced(p) ==
    /\ disk' = Candidate(p)
    /\ Load(p)
    /\ UNCHANGED <<synced, acked>>

\* The mutator or the validation raised, or the write failed before replace.
NotWritten(p) == Load(p) /\ UNCHANGED <<disk, synced, acked>>

Mutate(p, expects) ==
    /\ writes < MaxWrites
    /\ Refreshable(p)
    /\ \/ /\ expects => VersionExpected(p)
          /\ Persisted(p) \/ Unsynced(p) \/ NotWritten(p)
          /\ writes' = writes + 1
          /\ claims' = IF expects
                       THEN claims \cup {[write |-> writes + 1, seen |-> saw[p]]}
                       ELSE claims
       \/ /\ expects /\ ~VersionExpected(p)
          /\ NotWritten(p)
          /\ UNCHANGED <<writes, claims>>
    /\ UNCHANGED saw

\* _load: a process restarts and its callers with it.
Restart(p) ==
    /\ Load(p)
    /\ saw' = [saw EXCEPT ![p] = <<>>]
    /\ UNCHANGED <<disk, synced, writes, acked, claims>>

\* The host crashes: replacements whose directory entry was not synced may be
\* undone, and every process restarts.
HostCrash ==
    /\ \E n \in synced..Len(disk) :
          /\ disk' = SubSeq(disk, 1, n)
          /\ synced' = n
    /\ mem' = [p \in Proc |-> disk']
    /\ saw' = [p \in Proc |-> <<>>]
    /\ UNCHANGED <<writes, acked, claims>>

Next ==
    \/ \E p \in Proc :
         \/ Snapshot(p)
         \/ \E expects \in BOOLEAN : Mutate(p, expects)
         \/ Restart(p)
    \/ HostCrash

Spec == Init /\ [][Next]_vars

-----------------------------------------------------------------------------
\* A mutation that returned is in the file for ever, whatever syncs fail,
\* processes write or hosts crash afterwards.
AckedSurvives == \A w \in acked : w \in ToSet(disk)

\* What a process decided on is never rewritten under it: its state in memory
\* is a prefix of the file's history.
MemoryIsPrefix == \A p \in Proc : IsPrefix(mem[p], disk)

\* A mutation with an expected_version sits in the file's history directly on
\* the state its caller read: no write came in between (the reconcile command
\* and the order path rely on it).
CasUnchanged ==
    \A c \in claims :
        c.write \in ToSet(disk) => IsPrefix(Append(c.seen, c.write), disk)
=============================================================================
