---------------------------- MODULE FencedGateway ----------------------------
(***************************************************************************)
(* The Windows admission (final_admission_v1.py) on its real store: the    *)
(* high-water and the receipts are read back from FenceStore before every  *)
(* request, only the active fence is kept in memory.  One process serves   *)
(* the requests; peers open the same store, read it and allocate           *)
(* observation generations.  Shown to implement WindowsFence, which has    *)
(* high-water and receipts as plain variables.  The steps of the exchange  *)
(* touch neither and are the same in both, so they are left out here.      *)
(***************************************************************************)
EXTENDS Intents, FenceStore

CONSTANTS
    GatewayProc,    \* the process with the native handlers
    MaxWrites       \* bound: mutations of the store

VARIABLES
    active,     \* epoch of the active fence in memory, 0 if none
    recorded, order, placed,    \* as in WindowsFence
    handed,     \* history: handed[g]: how often generation g was returned
    rolledBack  \* history: an operator put older files back

gatewayVars == <<storeVars, active, recorded, order, placed, handed, rolledBack>>

-----------------------------------------------------------------------------
(* The fields of a state; the mutations it is the result of.               *)

Install(e)    == [op |-> "install", epoch |-> e]
Receipt(i, e) == [op |-> "receipt", intent |-> i, epoch |-> e]
Generation    == [op |-> "generation"]

Mutation ==
    {Install(e) : e \in 1..MaxEpoch} \cup {Receipt(i, e) : i \in Intent, e \in 1..MaxEpoch}
    \cup {Generation}

ASSUME GatewayAssumption ==
    /\ GatewayProc \in Proc /\ MaxWrites \in Nat
    /\ None \notin Seq(Mutation)

\* current_epoch and current_fencing_token
Installs(s) == {e \in 1..MaxEpoch : Install(e) \in ToSet(s)}
EpochOf(s)  == Max({0} \cup Installs(s))

\* receipts: the epoch of the receipt of i, 0 if there is none.
Receipts(s, i)  == {e \in 1..MaxEpoch : Receipt(i, e) \in ToSet(s)}
ReceiptOf(s, i) == IF Receipts(s, i) = {} THEN 0 ELSE CHOOSE e \in Receipts(s, i) : TRUE

\* snapshot_generation
GenerationOf(s) == Cardinality({n \in 1..Len(s) : s[n] = Generation})

\* What WindowsFence keeps in its variables.
Gateway == INSTANCE WindowsFence
             WITH fence <- [active |-> active > 0 /\ active = EpochOf(effective),
                            epoch |-> EpochOf(effective)],
                  receipt <- [i \in Intent |-> ReceiptOf(effective, i)]

Native == <<recorded, order, placed>>

GatewayInit ==
    /\ StoreInit
    /\ active = 0
    /\ recorded = {} /\ order = [s \in Send |-> "NONE"]
    /\ placed = [s \in Send |-> 0]
    /\ handed = [g \in 1..MaxWrites |-> 0]
    /\ rolledBack = FALSE

-----------------------------------------------------------------------------
(* Requests.                                                               *)

\* _refresh_durable: a fence that is not the high-water is dropped.
Current == IF active = EpochOf(file) THEN active ELSE 0

\* A request that does not write.
ReadOnly == Refresh(GatewayProc) /\ active' = Current

\* A request that writes; kept is the active fence if it succeeds.
Mutating(w, kept) ==
    /\ Len(file) < MaxWrites
    /\ \/ Written(GatewayProc, w) /\ active' = kept
       \/ /\ \/ Doubtful(GatewayProc, w)
             \/ Unanchored(GatewayProc, w)
             \/ Refresh(GatewayProc)
          /\ active' = Current

\* install_fence
InstallFence(e) ==
    /\ Refreshable(GatewayProc)
    /\ IF Current # e /\ e > EpochOf(file) THEN Mutating(Install(e), e) ELSE ReadOnly
    /\ UNCHANGED <<Native, handed, rolledBack>>

\* register_receipt
RegisterReceipt(i, e) ==
    /\ Refreshable(GatewayProc)
    /\ IF Current = e /\ ReceiptOf(file, i) = 0
       THEN Mutating(Receipt(i, e), Current) ELSE ReadOnly
    /\ UNCHANGED <<Native, handed, rolledBack>>

\* _admit: the handler runs under the admission lock.
Admissible(i, e) == Current = e /\ ReceiptOf(file, i) = e

SendOrder(i, e) ==
    /\ ReadOnly
    /\ Admissible(i, e)
    /\ placed[i.of] < Gateway!MaxPlaced
    /\ Gateway!NativeSend(i)
    /\ UNCHANGED <<handed, rolledBack>>

CancelOrder(i, e) ==
    /\ ReadOnly
    /\ Admissible(i, e)
    /\ Gateway!NativeCancel(i)
    /\ UNCHANGED <<handed, rolledBack>>

\* Wrong: the number comes from the state in memory.
Allocated_Memory(p) == GenerationOf(seen[p]) + 1

\* The generation that is returned when the mutation is written.
Allocated(p) == GenerationOf(file')

\* allocate_snapshot_generation, by any process.  It does not look at the
\* fence in memory.
Allocate(p) ==
    /\ Refreshable(p)
    /\ Len(file) < MaxWrites
    /\ \/ /\ Written(p, Generation)
          /\ handed' = [handed EXCEPT ![Allocated(p)] = @ + 1]
       \/ /\ \/ Doubtful(p, Generation)
             \/ Unanchored(p, Generation)
             \/ Refresh(p)
          /\ UNCHANGED handed
    /\ UNCHANGED <<active, Native, rolledBack>>

-----------------------------------------------------------------------------
(* Processes.                                                              *)

\* A peer reads the store; any process creates or opens it.  A gateway that
\* opens a store which was put back has nothing to tell it by (bound).
StoreStep(p) ==
    /\ \/ p # GatewayProc /\ Refresh(p)
       \/ CreateState(p) \/ FindState(p) \/ CreateLedger(p)
       \/ ~(rolledBack /\ p = GatewayProc) /\ Open(p)
    /\ UNCHANGED <<active, Native, handed, rolledBack>>

PeerCrash(p) ==
    /\ p # GatewayProc
    /\ Crash(p)
    /\ UNCHANGED <<active, Native, handed, rolledBack>>

GatewayCrash ==
    /\ Crash(GatewayProc) \/ HostCrash
    /\ active' = 0 /\ recorded' = {}
    /\ UNCHANGED <<order, placed, handed, rolledBack>>

\* The operator puts older files back under a running gateway that is up to
\* date (once: bound).
Rollback ==
    /\ ~rolledBack
    /\ proc[GatewayProc] = "open" /\ seen[GatewayProc] = file
    /\ \E n \in 0..(Len(seen[GatewayProc]) - 1) : PutBack(n)
    /\ rolledBack' = TRUE
    /\ UNCHANGED <<active, Native, handed>>

GatewayNext ==
    \/ \E e \in 1..MaxEpoch : InstallFence(e)
    \/ \E i \in Intent, e \in 1..MaxEpoch : RegisterReceipt(i, e)
    \/ \E i \in Sends, e \in 1..MaxEpoch : SendOrder(i, e)
    \/ \E i \in Cancels, e \in 1..MaxEpoch : CancelOrder(i, e)
    \/ \E p \in Proc : Allocate(p) \/ StoreStep(p) \/ PeerCrash(p)
    \/ GatewayCrash
    \/ Rollback

GatewaySpec == GatewayInit /\ [][GatewayNext]_gatewayVars

-----------------------------------------------------------------------------
\* Whatever writes fail and whoever crashes between the state file and its
\* anchor, the gateway on its store is the gateway of WindowsFence: the fence
\* and the receipts it decides on are those it acknowledged, also when older
\* files are put back under it.
ImplementsFence == Gateway!WindowsSpec

\* No observation generation is returned twice, whichever processes allocate
\* and whichever writes are undone (allocate_snapshot_generation: "globally
\* unique"), unless older files were put back.
GenerationsUnique == rolledBack \/ \A g \in 1..MaxWrites : handed[g] <= 1

\* AckedDurable, unless older files were put back.
AckedUnlessRolledBack == rolledBack \/ AckedDurable
=============================================================================
