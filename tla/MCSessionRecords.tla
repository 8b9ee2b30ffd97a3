---------------------------- MODULE MCSessionRecords ---------------------------
(* Instances of SessionRecords for TLC.  *)
EXTENDS SessionRecords, TLC

Symmetry ==
    Permutations(Ids) \cup Permutations(Names) \cup Permutations(Commands) \cup Permutations(Runs)

=============================================================================
