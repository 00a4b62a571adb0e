---------------------------- MODULE MCCronIngest ----------------------------
(***************************************************************************)
(* Instances of CronIngest for TLC: two ingestion steps that may overlap.  *)
(***************************************************************************)
EXTENDS CronIngest

CONSTANTS w1, s1, r1, r2

MCWatchers == {w1}
MCSlas == {s1}
MCRuns == {r1, r2}

Event(topic, of, shape) == [topic |-> topic, of |-> of, shape |-> shape]

WatcherBodies ==
    {Event("watcher_registered", w1, "ok"), Event("watcher_removed", w1, "ok")}

\* Rows, refused pages and settlements whose threshold is cached, with a
\* watcher that comes and goes.
MCBodies ==
    WatcherBodies \cup
    {Event("sla_created", s1, "ok"),
     Event("settlement_paid", s1, "ok"),
     Event("bond_topped_up", s1, "bad_payload"),
     Event("unrecognized", s1, "ok")}

=============================================================================
