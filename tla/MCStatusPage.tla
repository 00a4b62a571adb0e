----------------------------- MODULE MCStatusPage -----------------------------
(***************************************************************************)
(* An instance of StatusPage for TLC.                                      *)
(***************************************************************************)
EXTENDS StatusPage

CONSTANTS w1

MCWatchers == {w1}

=============================================================================
