--------------------------- MODULE MCLeaderFencer ---------------------------
(* Small instances of LeaderFencer for TLC. *)
EXTENDS LeaderFencer, TLC

Symm == Permutations(Proc) \cup Permutations(Owner) \cup Permutations(Thread)
=============================================================================
