----------------------------- MODULE FenceStore -----------------------------
(***************************************************************************)
(* The durable store of the Windows gateway                                *)
(* (scripts/windows_fence_foundation/final_store_v1.py): a state file that *)
(* is replaced and a ledger of anchors that is appended to, in this order, *)
(* under a lock that any number of processes share.  The lock makes a read *)
(* and a mutation one step each; a failure or a kill between the writes of *)
(* a mutation is one of its outcomes.                                      *)
(*                                                                         *)
(* A state is named by the sequence of mutations that led to it, which is  *)
(* what its hash chain pins down: its length is the state_version.  The    *)
(* anchors of a ledger are chained too, so its newest anchor names it.     *)
(***************************************************************************)
EXTENDS Naturals, Sequences, SequencesExt

CONSTANTS
    Proc,       \* processes that open the store
    None        \* a file that does not exist

VARIABLES
    file,       \* the state in the state file
    fileSynced, \* the directory entry of file survives a host crash
    ledger,     \* the state of the newest anchor
    anchored,   \* number of mutations whose anchors survive a host crash
    proc,       \* proc[p]: "down", "boot" (inside bootstrap) or "open"
    seen,       \* seen[p]: _highest_version, _highest_hash, _anchor_hash of p
    effective,  \* history: the newest state whose anchor was written
    acked       \* history: the states returned by mutate

storeVars == <<file, fileSynced, ledger, anchored, proc, seen, effective, acked>>

StoreInit ==
    /\ file = None /\ fileSynced = TRUE
    /\ ledger = None /\ anchored = 0
    /\ proc = [p \in Proc |-> "down"]
    /\ seen = [p \in Proc |-> <<>>]
    /\ effective = <<>> /\ acked = {}

-----------------------------------------------------------------------------
(* Reading.                                                                *)

\* _read_exact, _read_ledger, _assert_ledger_head, _assert_state_lineage: both
\* files exist and the newest anchor is the state's own.  A missing anchor and
\* a torn one are refused alike, so a torn line counts as not written.
Consistent == file # None /\ ledger # None /\ ledger = file

\* Wrong: what the process saw before is forgotten.
Refreshable_NoHighWater(p) == proc[p] = "open" /\ Consistent

\* _refresh: and the state is the one seen last or descends from it.
Refreshable(p) == proc[p] = "open" /\ Consistent /\ IsPrefix(seen[p], file)

See(p, s) == seen' = [seen EXCEPT ![p] = s]

\* snapshot; also a mutation whose writer or validation raised, or whose
\* replacement failed.
Refresh(p) ==
    /\ Refreshable(p)
    /\ See(p, file)
    /\ UNCHANGED <<file, fileSynced, ledger, anchored, proc, effective, acked>>

-----------------------------------------------------------------------------
(* mutate: refresh, _replace, _append_anchor.                              *)

\* The refreshed state with the mutation applied.
Candidate(p, w) == Append(file, w)

\* A history that was put back (PutBack) and goes on differently has none.
TakesEffect == effective' = IF IsPrefix(effective, file) THEN file' ELSE effective

\* Wrong: the anchor is not synced before the caller is answered.
Written_NoSync(p, w) ==
    /\ file' = Candidate(p, w) /\ fileSynced' = TRUE
    /\ ledger' = file'
    /\ See(p, file')
    /\ TakesEffect
    /\ acked' = acked \cup {file'}
    /\ UNCHANGED <<anchored, proc>>

\* All writes succeeded: the caller gets the new state.
Written(p, w) ==
    /\ file' = Candidate(p, w) /\ fileSynced' = TRUE
    /\ ledger' = file' /\ anchored' = Len(file')
    /\ See(p, file')
    /\ TakesEffect
    /\ acked' = acked \cup {file'}
    /\ UNCHANGED proc

\* The anchor was written, but it or its directory could not be synced: the
\* caller gets an error, every reader finds the new state.
Doubtful(p, w) ==
    /\ file' = Candidate(p, w) /\ fileSynced' = TRUE
    /\ ledger' = file' /\ anchored' \in {anchored, Len(file')}
    /\ See(p, file)
    /\ TakesEffect
    /\ UNCHANGED <<proc, acked>>

\* The state file was replaced (and its directory synced or not), the anchor
\* was not written: nobody can read the store any more.
Unanchored(p, w) ==
    /\ file' = Candidate(p, w)
    /\ fileSynced' \in BOOLEAN
    /\ See(p, file)
    /\ UNCHANGED <<ledger, anchored, proc, effective, acked>>

-----------------------------------------------------------------------------
(* bootstrap and the constructor.                                          *)

\* Neither file exists: the state file is created first, outside the lock.
\* Its directory may fail to sync, which ends the bootstrap.
CreateState(p) ==
    /\ proc[p] = "down"
    /\ file = None /\ ledger = None
    /\ file' = <<>>
    /\ \/ fileSynced' = TRUE  /\ proc' = [proc EXCEPT ![p] = "boot"]
       \/ fileSynced' = FALSE /\ UNCHANGED proc
    /\ UNCHANGED <<ledger, anchored, seen, effective, acked>>

\* The files were missing when another process checked for them too.
FindState(p) ==
    /\ proc[p] = "down"
    /\ file = <<>> /\ ledger = None
    /\ \E q \in Proc : proc[q] = "boot"
    /\ proc' = [proc EXCEPT ![p] = "boot"]
    /\ UNCHANGED <<file, fileSynced, ledger, anchored, seen, effective, acked>>

\* Then the ledger, if it is still missing; the store is opened next.  A ledger
\* whose directory entry is not durable counts as not created.
CreateLedger(p) ==
    /\ proc[p] = "boot"
    /\ ledger' = IF ledger = None THEN <<>> ELSE ledger
    /\ proc' = [proc EXCEPT ![p] = "down"]
    /\ UNCHANGED <<file, fileSynced, anchored, seen, effective, acked>>

\* __init__: a process opens the store.
Open(p) ==
    /\ proc[p] = "down"
    /\ Consistent
    /\ proc' = [proc EXCEPT ![p] = "open"]
    /\ See(p, file)
    /\ UNCHANGED <<file, fileSynced, ledger, anchored, effective, acked>>

-----------------------------------------------------------------------------
(* Faults.                                                                 *)

Crash(p) ==
    /\ proc[p] # "down"
    /\ proc' = [proc EXCEPT ![p] = "down"]
    /\ See(p, <<>>)
    /\ UNCHANGED <<file, fileSynced, ledger, anchored, effective, acked>>

\* What a replacement leaves when it is undone.
Before(s) == IF s = <<>> THEN None ELSE Front(s)

\* The host crashes: a replacement that was not synced may be undone, anchors
\* that were not synced may be lost, every process is down.
HostCrash ==
    /\ file' \in {file} \cup IF fileSynced THEN {} ELSE {Before(file)}
    /\ fileSynced' = TRUE
    /\ \/ ledger = None /\ UNCHANGED <<ledger, anchored>>
       \/ /\ ledger # None
          /\ \E n \in anchored..Len(ledger) :
                ledger' = SubSeq(ledger, 1, n) /\ anchored' = n
    /\ proc' = [p \in Proc |-> "down"]
    /\ seen' = [p \in Proc |-> <<>>]
    /\ UNCHANGED <<effective, acked>>

\* An operator puts an older copy of both files back.
PutBack(n) ==
    /\ Consistent
    /\ file' = SubSeq(file, 1, n) /\ ledger' = file' /\ anchored' = n
    /\ UNCHANGED <<fileSynced, proc, seen, effective, acked>>

-----------------------------------------------------------------------------
\* What mutate returned is in the state file and under a synced anchor for
\* ever: no failed write, restart or host crash undoes it.
AckedDurable ==
    \A s \in acked : file # None /\ IsPrefix(s, file) /\ Len(s) <= anchored
=============================================================================
