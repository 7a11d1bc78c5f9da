---------------------------- MODULE WindowsFence ----------------------------
(***************************************************************************)
(* The Windows order gateway: the fenced admission in front of the native  *)
(* order handlers (scripts/windows_fence_foundation/final_admission_v1.py) *)
(* and the handlers and fact reader bound to it                            *)
(* (scripts/windows_rpc_durable_fence_v1.py).                              *)
(*                                                                         *)
(* The fence high-water and the receipts are durable; the active flag and  *)
(* the map from intents to broker orders live in memory.  Epoch and        *)
(* fencing token move together (LeaderFencer!TokensOrdered), so one number *)
(* stands for both.  The admission lock makes every request one step.      *)
(***************************************************************************)
EXTENDS Intents

VARIABLES
    fence,      \* active flag (memory) and durable high-water epoch
    receipt,    \* receipt[i]: epoch of the durable receipt of i, 0 if none
    recorded,   \* intents whose broker order id is in the in-memory map
    order,      \* order[s]: status of the broker order of send intent s
    placed      \* placed[s]: how many broker orders were placed for s

winVars == <<fence, receipt, recorded, order, placed>>

Status == {"NONE", "SUBMITTING", "OPEN", "FILLED", "CANCELLED", "REJECTED"}

\* get_all_active_orders.
Live == {s \in Send : order[s] \in {"SUBMITTING", "OPEN"}}

WindowsTypeOK ==
    /\ fence \in [active : BOOLEAN, epoch : Nat]
    /\ receipt \in [Intent -> Nat]
    /\ recorded \subseteq Intent
    /\ order \in [Send -> Status]
    /\ placed \in [Send -> Nat]

WindowsInit ==
    /\ fence = [active |-> FALSE, epoch |-> 0]
    /\ receipt = [i \in Intent |-> 0]
    /\ recorded = {}
    /\ order = [s \in Send |-> "NONE"]
    /\ placed = [s \in Send |-> 0]

-----------------------------------------------------------------------------
(* Requests.  Each handler is split into its admission and its effect; a   *)
(* request that is not admitted is answered with an error.                 *)

\* install_fence: equal to the active fence is idempotent, anything else must
\* be strictly newer than the high-water.
Installable(e) == (fence.active /\ e = fence.epoch) \/ e > fence.epoch

InstallFence(e) ==
    /\ Installable(e)
    /\ fence' = [active |-> TRUE, epoch |-> e]
    /\ UNCHANGED <<receipt, recorded, order, placed>>

\* install_fence when the store fails after the new high-water is in it
\* (FenceStore!Doubtful): the caller gets an error, and _refresh_durable of the
\* next request drops the old fence.
InstallDoubtful(e) ==
    /\ e > fence.epoch
    /\ fence' = [active |-> FALSE, epoch |-> e]
    /\ UNCHANGED <<receipt, recorded, order, placed>>

\* register_receipt: under the active fence, create-only.
Registrable(i, e) == fence.active /\ e = fence.epoch /\ receipt[i] = 0

RegisterReceipt(i, e) ==
    /\ Registrable(i, e)
    /\ receipt' = [receipt EXCEPT ![i] = e]
    /\ UNCHANGED <<fence, recorded, order, placed>>

\* _validate: the current fence and a receipt with exactly this binding.
Admissible(i, e) == fence.active /\ e = fence.epoch /\ receipt[i] = e

\* send_bound: one native order.  The receipt is not consumed.
NativeSend(i) ==
    /\ order' = [order EXCEPT ![i.of] = "SUBMITTING"]
    /\ placed' = [placed EXCEPT ![i.of] = @ + 1]
    /\ recorded' = recorded \cup {i}

PlaceOrder(i, e) ==
    /\ Admissible(i, e)
    /\ NativeSend(i)
    /\ UNCHANGED <<fence, receipt>>

\* resolve_cancel: the target order is found by its broker id (when the
\* request or the in-memory map has it); otherwise by its reference, if the
\* broker kept it.
Resolutions(i, known) ==
    CASE order[i.of] = "NONE" -> {FALSE}
      [] order[i.of] # "NONE" /\ (known \/ SendIntent(i.of) \in recorded) -> {TRUE}
      [] OTHER -> BOOLEAN

\* cancel_bound: the broker may have cancelled the order by the time its
\* state is read back.
NativeCancel(i) ==
    /\ order[i.of] # "NONE"
    /\ recorded' = recorded \cup {i}
    /\ \/ order' = order
       \/ /\ i.of \in Live
          /\ order' = [order EXCEPT ![i.of] = "CANCELLED"]
    /\ UNCHANGED placed

RequestCancel(i, e) ==
    /\ Admissible(i, e)
    /\ NativeCancel(i)
    /\ UNCHANGED <<fence, receipt>>

\* Wrong: an accepted cancel request counts as a cancelled order.
CancelReply_Optimistic(status) == IF status = "REJECTED" THEN "REJECTED" ELSE "CANCELLED"

\* cancel_state, as bound into the response: a filled order answers CANCELLED,
\* an order still active answers an unknown outcome, which is an error.
CancelReply(status) ==
    CASE status \in {"CANCELLED", "FILLED"} -> "CANCELLED"
      [] status = "REJECTED" -> "REJECTED"
      [] OTHER -> "ERROR"

\* query_intent_v1: the mapping of order statuses.
StatusReply(status) ==
    CASE status = "FILLED" -> "TERMINAL"
      [] status = "CANCELLED" -> "CANCELLED"
      [] status = "REJECTED" -> "REJECTED"
      [] status = "SUBMITTING" -> "SUBMITTED"
      [] OTHER -> "ACKNOWLEDGED"

\* Wrong: an order that is not found was never placed.
QueryReplies_AbsentRejected(i, known) ==
    {IF receipt[i] # 0 /\ order[i.of] # "NONE" THEN StatusReply(order[i.of])
     ELSE "REJECTED"}

\* The answers a query may get.  Without a receipt the intent is REJECTED,
\* unless the caller knows a broker id (then the request is denied).  An
\* order that is neither known nor recorded is found by its reference only if
\* the broker kept it.  The call itself may fail.
QueryReplies(i, known) ==
    {"UNKNOWN"} \cup
    IF receipt[i] = 0
    THEN IF known THEN {} ELSE {"REJECTED"}
    ELSE IF order[i.of] # "NONE" /\ (known \/ i \in recorded \/ i \in Sends)
         THEN {StatusReply(order[i.of])}
         ELSE {}

-----------------------------------------------------------------------------
\* The exchange: external to the repository.
BrokerStep(s) ==
    /\ \/ /\ order[s] = "SUBMITTING"
          /\ \E st \in {"OPEN", "FILLED", "CANCELLED", "REJECTED"} :
                order' = [order EXCEPT ![s] = st]
       \/ /\ order[s] = "OPEN"
          /\ \E st \in {"FILLED", "CANCELLED"} : order' = [order EXCEPT ![s] = st]
    /\ UNCHANGED <<fence, receipt, recorded, placed>>

\* The gateway process restarts: the fence is inactive until a strictly newer
\* epoch is installed, the in-memory map is lost.
WindowsRestart ==
    /\ fence' = [fence EXCEPT !.active = FALSE]
    /\ recorded' = {}
    /\ UNCHANGED <<receipt, order, placed>>

\* Bound of the open system below: the handler itself does not deduplicate.
MaxPlaced == 2

\* Any client may send any request at any time.
WindowsNext ==
    \/ \E e \in 1..MaxEpoch : InstallFence(e)
    \/ \E e \in 1..MaxEpoch : InstallDoubtful(e)
    \/ \E i \in Intent, e \in 1..MaxEpoch : RegisterReceipt(i, e)
    \/ \E i \in Sends, e \in 1..MaxEpoch :
          placed[i.of] < MaxPlaced /\ PlaceOrder(i, e)
    \/ \E i \in Cancels, e \in 1..MaxEpoch : RequestCancel(i, e)
    \/ \E s \in Send : BrokerStep(s)
    \/ WindowsRestart

WindowsSpec == WindowsInit /\ [][WindowsNext]_winVars

-----------------------------------------------------------------------------
\* Whatever clients send, in whatever order and with whatever restarts: an
\* order is placed or cancelled only for a receipt of the newest epoch that
\* ever registered one, so a leader that was replaced cannot trade once its
\* successor has registered anything (final_admission_v1.py _validate,
\* install_fence).
StaleLeaderFenced ==
    [][ \A i \in Intent :
          i \in recorded' \ recorded \/ (i \in Sends /\ placed'[i.of] # placed[i.of])
            => \A j \in Intent : receipt[j] <= receipt[i] ]_winVars

\* An order exists only for an intent whose receipt was registered before it.
OrderHasReceipt == \A s \in Send : placed[s] > 0 => receipt[SendIntent(s)] > 0
=============================================================================
