-------------------------- MODULE MCWatcherDaemon ---------------------------
(***************************************************************************)
(* TLC instance of WatcherDaemon.                                          *)
(***************************************************************************)
EXTENDS WatcherDaemon, TLC

CONSTANTS d1, s1, w1, e1, e2

MCSlaOf == d1 :> s1
MCAccountOf == d1 :> w1
MCCommitment == s1 :> e1
=============================================================================
