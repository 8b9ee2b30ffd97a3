---------------------------- MODULE MCSessionControl ---------------------------
(* Instances of SessionControl for TLC: the sessions the calls name.  *)
EXTENDS SessionControl, TLC

\* Every call names the same session.
OneSession == [c \in Calls |-> CHOOSE n \in Names : TRUE]

Symmetry == Permutations(Runs) \cup Permutations(Stops)

=============================================================================
