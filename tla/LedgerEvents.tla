---------------------------- MODULE LedgerEvents ----------------------------
(***************************************************************************)
(* Contract events and what the indexer makes of one page of them: a pure  *)
(* module, shared by the Node poller and the Cloudflare Worker.            *)
(*                                                                         *)
(* A log is a sequence of decoded events.  The slice (a, b] of a log is    *)
(* the events at positions a+1 .. b: a page that starts right after cursor *)
(* a and ends at cursor b.  The RPC cursor is the position it stands for,  *)
(* and an event's id is its position, so ids are unique and ordered.       *)
(***************************************************************************)
EXTENDS Integers, Sequences, FiniteSets

CONSTANTS
    Watchers,  \* addresses the registry may register
    Slas       \* SLA ids the vault may create

----------------------------------------------------------------------------
(* Decoded events.  `of` is the topic's subject: the watcher, or the SLA.   *)
(* `shape` tells apart the payloads the classifier treats differently.      *)

WatcherTopics == {"watcher_registered", "watcher_removed"}

\* Topics whose row needs a payload field that decoding can refuse: the
\* endpoint_hash (bytesToHex) or an i128 amount (amountToString).
PayloadTopics == {"check_submitted", "sla_created", "settlement_paid",
                  "bond_topped_up", "bond_withdrawn"}

EventBody ==
    [topic : WatcherTopics, of : Watchers, shape : {"ok"}]
      \cup [topic : PayloadTopics, of : Slas, shape : {"ok", "bad_payload"}]
      \cup [topic : {"check_submitted"}, of : Slas, shape : {"bad_status"}]
      \cup [topic : {"sla_cancelled", "unrecognized"}, of : Slas, shape : {"ok"}]

\* The table an event of a recognised topic is written to.
TableOf == [check_submitted |-> "checks",
            sla_created     |-> "slas",
            settlement_paid |-> "settlements",
            bond_topped_up  |-> "lifecycle",
            sla_cancelled   |-> "lifecycle",
            bond_withdrawn  |-> "lifecycle"]

Tables == {"checks", "slas", "settlements", "lifecycle"}

\* bytesToHex and amountToString throw on a payload of the wrong type, and
\* nothing in classifyEvents catches it: the whole page is refused.
Throws(e) == e.topic \in PayloadTopics /\ e.shape = "bad_payload"

\* An event becomes a row unless its topic is unrecognised (the default case)
\* or its check status is neither Up nor Down (quarantined).
Persisted(e) == e.topic \in DOMAIN TableOf /\ e.shape = "ok"

----------------------------------------------------------------------------
(* What a page writes.                                                      *)

\* Primary key: sla_id for slas, the event id for the other tables.
Key(log, p) == IF log[p].topic = "sla_created" THEN log[p].of ELSE p

Row(log, p) == <<TableOf[log[p].topic], Key(log, p)>>

\* The rows of a slice.
RowsOf(log, a, b) == {Row(log, p) : p \in {q \in (a + 1) .. b : Persisted(log[q])}}

\* classifyEvents returns a batch for the slice, rather than throwing.
Readable(log, a, b) == \A p \in (a + 1) .. b : ~Throws(log[p])

Registers(e, w) == e.topic = "watcher_registered" /\ e.of = w
Removes(e, w)   == e.topic = "watcher_removed" /\ e.of = w

\* w's last watcher event in the slice is a registration.
EndsRegistered(log, a, b, w) ==
    \E p \in (a + 1) .. b :
        /\ Registers(log[p], w)
        /\ \A q \in (p + 1) .. b : ~Removes(log[q], w)

\* w's last watcher event in the slice is a removal.
EndsRemoved(log, a, b, w) ==
    \E p \in (a + 1) .. b :
        /\ Removes(log[p], w)
        /\ \A q \in (p + 1) .. b : ~Registers(log[q], w)

\* The watchers with removed_at NULL after the slice's watcher events are
\* applied in order to the table where `elig` had it: a registration inserts
\* the row or clears removed_at, a removal sets it on a row that exists.
EligibleAfterGrouped(log, a, b, elig) ==
    {w \in Watchers :
        /\ w \in elig \/ \E p \in (a + 1) .. b : Registers(log[p], w)
        /\ ~ \E p \in (a + 1) .. b : Removes(log[p], w)}

EligibleAfter(log, a, b, elig) ==
    {w \in Watchers :
        \/ EndsRegistered(log, a, b, w)
        \/ w \in elig /\ ~EndsRemoved(log, a, b, w)}

\* The chain's own verdict: the watchers registered by the slice and not
\* removed after it.
EligibleOn(log, a, b) == {w \in Watchers : EndsRegistered(log, a, b, w)}

=============================================================================
