---------------------------- MODULE MCExecution ----------------------------
(***************************************************************************)
(* Execution for TLC.  Besides the cold start of Execution there is a warm *)
(* start: every process is up, one of them leads under epoch 1, has        *)
(* reconciled and has just accepted the start of the plan.  It is the      *)
(* state after Boot of every process, Acquire, EnableAuthority,            *)
(* BeginReconcile, FinishReconcile, PreviewPlan and StartPlan.             *)
(***************************************************************************)
EXTENDS Execution, TLC

CONSTANT Leader     \* the process that leads in the warm start

Warm ==
    /\ WindowsInit
    /\ doc = Start(Preview([Enable(Bootstrap(InitialDocument)) EXCEPT
                 !.recon = "RECONCILED", !.lifecycle = "READY"]))
    /\ lease = [owner |-> Leader, epoch |-> 1, live |-> TRUE]
    /\ started = TRUE /\ expired = FALSE
    /\ up = Proc /\ halted = {} /\ clean = {} /\ net = {}
    /\ tok = [p \in Proc |-> IF p = Leader THEN 1 ELSE 0]
    /\ mut = [p \in Proc |-> IdleMut]
    /\ call = [p \in Proc |-> [th \in Thread |->
                 IF p = Leader /\ th = "run" THEN DispatchCall(Leader) ELSE IdleCall]]

WarmSpec == Warm /\ [][Next]_vars

LiveSpec == WarmSpec /\ Fairness
=============================================================================
