------------------------------ MODULE MCCommandIPC ------------------------------
(* An instance of CommandIPC for TLC.  *)
EXTENDS CommandIPC

CONSTANTS q1, q2, q3

\* CTRL-C and ENTER; the bytes 27 and 91; and a list with a CTRL of a digit.
Lists ==
    [q \in {q1, q2, q3} |->
        CASE q = q1 -> <<[type |-> "CTRL", content |-> <<99>>],
                         [type |-> "ENTER", content |-> Missing]>>
          [] q = q2 -> <<[type |-> "RAW", content |-> <<27, 91>>]>>
          [] q = q3 -> <<[type |-> "ENTER", content |-> Missing],
                         [type |-> "CTRL", content |-> <<49>>]>>]

=============================================================================
