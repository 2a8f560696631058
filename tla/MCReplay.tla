------------------------------ MODULE MCReplay ------------------------------
(* Small instances of the replay engine for TLC.                          *)
EXTENDS Replay

CONSTANTS c1, c2

MCConnIDs == {c1, c2}

\* Captured traffic: two interleaved sessions, and a session whose first
\* command is a ComChangeUser.
MCInputs ==
    { << [conn |-> c1, type |-> "Query"], [conn |-> c2, type |-> "Query"],
         [conn |-> c1, type |-> "Query"] >>,
      << [conn |-> c1, type |-> "ChangeUser"], [conn |-> c1, type |-> "Query"] >> }


=============================================================================
