------------------------------ MODULE MCPoller ------------------------------
(***************************************************************************)
(* Instances of Poller for TLC: one watcher that comes and goes, and one   *)
(* SLA with events of every outcome the classifier has: a row, no row      *)
(* (quarantined status), and a page refused.                               *)
(***************************************************************************)
EXTENDS Poller

CONSTANTS w1, s1

MCWatchers == {w1}
MCSlas == {s1}

Event(topic, of, shape) == [topic |-> topic, of |-> of, shape |-> shape]

\* Everything that matters to ordering, gaps and refused pages.
MCBodies ==
    {Event("watcher_registered", w1, "ok"),
     Event("watcher_removed", w1, "ok"),
     Event("sla_created", s1, "ok"),
     Event("check_submitted", s1, "ok"),
     Event("check_submitted", s1, "bad_status"),
     Event("settlement_paid", s1, "ok"),
     Event("settlement_paid", s1, "bad_payload")}

\* START_LEDGER unset.
MCTip == None

=============================================================================
