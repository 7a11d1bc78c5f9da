------------------------- MODULE WindowsFenceProofs -------------------------
(***************************************************************************)
(* The fence of the Windows gateway for any number of child orders, epochs *)
(* and restarts, and for clients that may send anything at any time.       *)
(***************************************************************************)
EXTENDS WindowsFence, TLAPS

\* The receipts never run ahead of the durable high-water: the strengthening
\* that makes the fence inductive.
ReceiptsBehindFence == \A i \in Intent : receipt[i] <= fence.epoch

FenceInv == WindowsTypeOK /\ ReceiptsBehindFence /\ OrderHasReceipt

\* The intents are records of their own: a send intent names its child.
LEMMA IntentFacts ==
    /\ \A s \in Send : SendIntent(s) \in Intent /\ SendIntent(s) \in Sends /\ SendIntent(s).of = s
    /\ \A i \in Intent : i.of \in Send
    /\ \A i \in Sends : i \in Intent /\ i = SendIntent(i.of)
    /\ \A i \in Cancels : i \in Intent
<1>1. \A s \in Send : SendIntent(s) \in Sends /\ SendIntent(s).of = s
  BY DEF Sends, SendIntent
<1>2. ASSUME NEW i \in Sends  PROVE i.of \in Send /\ i = SendIntent(i.of)
  <2>1. PICK s \in Send : i = SendIntent(s)  BY DEF Sends
  <2> QED  BY <1>1, <2>1
<1>3. ASSUME NEW i \in Cancels  PROVE i.of \in Send
  <2>1. PICK s \in Send, e \in 1..MaxEpoch : i = CancelIntent(s, e)
    BY DEF Cancels
  <2> QED  BY <2>1 DEF CancelIntent
<1> QED  BY <1>1, <1>2, <1>3 DEF Intent

\* A freshly installed gateway: inactive, no receipt, no order.
LEMMA FenceInit == WindowsInit => FenceInv
BY IntentFacts DEF WindowsInit, FenceInv, WindowsTypeOK, ReceiptsBehindFence,
                   OrderHasReceipt, Status

\* Every request, every broker step and a restart keep FenceInv.
LEMMA FenceStep == FenceInv /\ [WindowsNext]_winVars => FenceInv'
<1> SUFFICES ASSUME FenceInv, [WindowsNext]_winVars  PROVE FenceInv'
  OBVIOUS
<1> USE DEF FenceInv
<1>1. ASSUME NEW e \in 1..MaxEpoch, InstallFence(e)  PROVE FenceInv'
  <2>1. e \in Nat /\ fence.epoch \in Nat /\ fence.epoch <= e
    BY <1>1, EpochAssumption DEF InstallFence, Installable, WindowsTypeOK
  <2>2. /\ fence' = [active |-> TRUE, epoch |-> e] /\ receipt' = receipt
        /\ recorded' = recorded /\ order' = order /\ placed' = placed
    BY <1>1 DEF InstallFence
  <2>3. WindowsTypeOK'  BY <2>1, <2>2 DEF WindowsTypeOK
  <2>4. ReceiptsBehindFence'
    BY <2>1, <2>2 DEF ReceiptsBehindFence, WindowsTypeOK
  <2>5. OrderHasReceipt'  BY <2>2 DEF OrderHasReceipt
  <2> QED  BY <2>3, <2>4, <2>5
<1>1d. ASSUME NEW e \in 1..MaxEpoch, InstallDoubtful(e)  PROVE FenceInv'
  <2>1. e \in Nat /\ fence.epoch \in Nat /\ fence.epoch <= e
    BY <1>1d, EpochAssumption DEF InstallDoubtful, WindowsTypeOK
  <2>2. /\ fence' = [active |-> FALSE, epoch |-> e] /\ receipt' = receipt
        /\ recorded' = recorded /\ order' = order /\ placed' = placed
    BY <1>1d DEF InstallDoubtful
  <2>3. WindowsTypeOK'  BY <2>1, <2>2 DEF WindowsTypeOK
  <2>4. ReceiptsBehindFence'
    BY <2>1, <2>2 DEF ReceiptsBehindFence, WindowsTypeOK
  <2>5. OrderHasReceipt'  BY <2>2 DEF OrderHasReceipt
  <2> QED  BY <2>3, <2>4, <2>5
<1>2. ASSUME NEW i \in Intent, NEW e \in 1..MaxEpoch, RegisterReceipt(i, e)
      PROVE  FenceInv'
  <2>1. e \in Nat /\ e > 0 /\ e = fence.epoch
    BY <1>2, EpochAssumption DEF RegisterReceipt, Registrable
  <2>2. /\ receipt' = [receipt EXCEPT ![i] = e] /\ fence' = fence
        /\ recorded' = recorded /\ order' = order /\ placed' = placed
    BY <1>2 DEF RegisterReceipt
  <2>3. WindowsTypeOK'  BY <2>1, <2>2 DEF WindowsTypeOK
  <2>4. ReceiptsBehindFence'
    BY <2>1, <2>2 DEF ReceiptsBehindFence, WindowsTypeOK
  <2>5. OrderHasReceipt'
    BY <2>1, <2>2, IntentFacts DEF OrderHasReceipt, WindowsTypeOK
  <2> QED  BY <2>3, <2>4, <2>5
<1>3. ASSUME NEW i \in Sends, NEW e \in 1..MaxEpoch, PlaceOrder(i, e)
      PROVE  FenceInv'
  <2>1. i \in Intent /\ i.of \in Send /\ i = SendIntent(i.of)
    BY IntentFacts
  <2>2. receipt[i] > 0
    BY <1>3, EpochAssumption DEF PlaceOrder, Admissible
  <2>3. /\ order' = [order EXCEPT ![i.of] = "SUBMITTING"]
        /\ placed' = [placed EXCEPT ![i.of] = @ + 1]
        /\ recorded' = recorded \cup {i} /\ fence' = fence /\ receipt' = receipt
    BY <1>3 DEF PlaceOrder, NativeSend
  <2>4. WindowsTypeOK'  BY <2>1, <2>3 DEF WindowsTypeOK, Status
  <2>5. ReceiptsBehindFence'  BY <2>3 DEF ReceiptsBehindFence
  <2>6. OrderHasReceipt'
    BY <2>1, <2>2, <2>3 DEF OrderHasReceipt, WindowsTypeOK
  <2> QED  BY <2>4, <2>5, <2>6
<1>4. ASSUME NEW i \in Cancels, NEW e \in 1..MaxEpoch, RequestCancel(i, e)
      PROVE  FenceInv'
  <2>1. i \in Intent /\ i.of \in Send  BY IntentFacts
  <2>2. /\ recorded' = recorded \cup {i}
        /\ order' = order \/ order' = [order EXCEPT ![i.of] = "CANCELLED"]
        /\ fence' = fence /\ receipt' = receipt /\ placed' = placed
    BY <1>4 DEF RequestCancel, NativeCancel
  <2>3. WindowsTypeOK'  BY <2>1, <2>2 DEF WindowsTypeOK, Status
  <2> QED  BY <2>2, <2>3 DEF ReceiptsBehindFence, OrderHasReceipt
<1>5. ASSUME NEW s \in Send, BrokerStep(s)  PROVE FenceInv'
  <2>1. /\ \E st \in Status : order' = [order EXCEPT ![s] = st]
        /\ fence' = fence /\ receipt' = receipt /\ recorded' = recorded
        /\ placed' = placed
    BY <1>5 DEF BrokerStep, Status
  <2>2. WindowsTypeOK'  BY <2>1 DEF WindowsTypeOK
  <2> QED  BY <2>1, <2>2 DEF ReceiptsBehindFence, OrderHasReceipt
<1>6. CASE WindowsRestart
  <2>1. WindowsTypeOK' /\ fence'.epoch = fence.epoch
    BY <1>6 DEF WindowsRestart, WindowsTypeOK
  <2> QED
    BY <1>6, <2>1 DEF WindowsRestart, ReceiptsBehindFence, OrderHasReceipt
<1>7. CASE UNCHANGED winVars
  BY <1>7 DEF winVars, WindowsTypeOK, ReceiptsBehindFence, OrderHasReceipt
<1> QED  BY <1>1, <1>1d, <1>2, <1>3, <1>4, <1>5, <1>6, <1>7 DEF WindowsNext

\* Of every behaviour of the gateway: FenceInv.
LEMMA FenceAlways == WindowsSpec => []FenceInv
BY FenceInit, FenceStep, PTL DEF WindowsSpec

-----------------------------------------------------------------------------
\* Every order the gateway placed has a durable receipt
\* (final_admission_v1.py _validate, register_receipt).
THEOREM OrdersHaveReceipts == WindowsSpec => []OrderHasReceipt
<1>1. FenceInv => OrderHasReceipt  BY DEF FenceInv
<1> QED  BY <1>1, FenceAlways, PTL

\* An order is placed or cancelled only for a receipt of the newest epoch that
\* ever registered one (final_admission_v1.py _validate, install_fence).
THEOREM ReplacedLeaderFenced == WindowsSpec => StaleLeaderFenced
<1> DEFINE Step ==
      \A i \in Intent :
        i \in recorded' \ recorded \/ (i \in Sends /\ placed'[i.of] # placed[i.of])
          => \A j \in Intent : receipt[j] <= receipt[i]
<1>1. FenceInv /\ [WindowsNext]_winVars => [Step]_winVars
  <2> SUFFICES ASSUME FenceInv, WindowsNext,
                      NEW i \in Intent,
                      i \in recorded' \ recorded
                        \/ (i \in Sends /\ placed'[i.of] # placed[i.of]),
                      NEW j \in Intent
               PROVE  receipt[j] <= receipt[i]
    OBVIOUS
  <2>1. receipt[j] <= fence.epoch  BY DEF FenceInv, ReceiptsBehindFence
  <2>2. ASSUME NEW k \in Sends, NEW e \in 1..MaxEpoch, PlaceOrder(k, e)
        PROVE  receipt[i] = fence.epoch
    <3>1. i = k
      BY <2>2, IntentFacts DEF PlaceOrder, NativeSend, FenceInv, WindowsTypeOK
    <3> QED  BY <2>2, <3>1 DEF PlaceOrder, Admissible
  <2>3. ASSUME NEW k \in Cancels, NEW e \in 1..MaxEpoch, RequestCancel(k, e)
        PROVE  receipt[i] = fence.epoch
    BY <2>3 DEF RequestCancel, NativeCancel, Admissible
  <2>4. \/ \E k \in Sends, e \in 1..MaxEpoch : PlaceOrder(k, e)
        \/ \E k \in Cancels, e \in 1..MaxEpoch : RequestCancel(k, e)
    BY DEF WindowsNext, InstallFence, InstallDoubtful, RegisterReceipt, BrokerStep,
           WindowsRestart
  <2> QED  BY <2>1, <2>2, <2>3, <2>4
<1> QED  BY <1>1, FenceAlways, PTL DEF WindowsSpec, StaleLeaderFenced
=============================================================================
