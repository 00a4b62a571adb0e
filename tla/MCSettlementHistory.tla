------------------------ MODULE MCSettlementHistory ------------------------
(***************************************************************************)
(* Instances of SettlementHistory for TLC: one SLA, created once and then  *)
(* settled over and over.                                                  *)
(***************************************************************************)
EXTENDS SettlementHistory

CONSTANTS s1, q1, q2

MCSlas == {s1}
MCRequests == {q1, q2}

MCBodies ==
    {[topic |-> "sla_created", of |-> s1, shape |-> "ok"],
     [topic |-> "settlement_paid", of |-> s1, shape |-> "ok"]}

=============================================================================
