---------------------------- MODULE MCHotRestart ----------------------------
(* HotRestart with three clients: the one of the start and two restarts.    *)
EXTENDS HotRestart, TLC
Alike == Permutations(Handlers) \cup Permutations(Ports)
TwoSettings == {"old", "new"}
OneSetting == {"old"}
=============================================================================
