------------------------------ MODULE MCGridIO ------------------------------
(***************************************************************************)
(* Small instances of GridIO for TLC.                                      *)
(***************************************************************************)
EXTENDS GridIO

\* Doubles clients store, in half units: 0.0, and 1.5, which truncates to 1.
MCInputs == {0, 3}

\* The errors stdio reports in a run.
WriteErrors == {"write"}
ReadErrors == {"read"}
AllErrors == {"read", "write"}
=============================================================================
