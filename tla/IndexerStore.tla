---------------------------- MODULE IndexerStore ----------------------------
(***************************************************************************)
(* The indexer's database (SQLite through db/db.ts, D1 through db/d1.ts),  *)
(* the contracts whose events feed it, and the two writes made to it:      *)
(* applyBatch, by an ingestion cycle, and setSlaQuorumThreshold, by the    *)
(* settlements endpoint.  Each is one transaction, so one step.            *)
(***************************************************************************)
EXTENDS LedgerEvents

CONSTANTS
    Bodies,     \* events the contracts emit in this instance
    MaxEvents   \* bound on the length of the chain's log

ASSUME StoreAssumption == Bodies \subseteq EventBody /\ MaxEvents \in Nat

VARIABLES
    chain,     \* every event emitted by the two contracts, oldest first
    cursor,    \* checkpoint.last_cursor, None while the row does not exist
    rows,      \* <<table, key>> of every row of the four event tables
    eligible,  \* watchers with removed_at NULL
    filled,    \* ids of settlement rows whose quorum_threshold is not NULL
    base       \* history: where the first page stored began, None before

None == -1

dbVars == <<cursor, rows, eligible, filled, base>>

StoreTypeOK ==
    /\ chain \in Seq(Bodies)
    /\ cursor \in Int
    /\ rows \subseteq Tables \X (Nat \cup Slas)
    /\ eligible \subseteq Watchers
    /\ filled \subseteq Nat
    /\ base \in Int

StoreInit ==
    /\ chain = <<>>
    /\ cursor = None
    /\ rows = {}
    /\ eligible = {}
    /\ filled = {}
    /\ base = None

----------------------------------------------------------------------------
(* The contracts.                                                           *)

\* Registering a registered watcher and removing one that is not are no-ops of
\* the registry, without an event; the vault creates an SLA once, and every other
\* event is about an SLA it created.
Emittable(e) ==
    CASE e.topic = "watcher_registered" -> e.of \notin EligibleOn(chain, 0, Len(chain))
      [] e.topic = "watcher_removed"    -> e.of \in EligibleOn(chain, 0, Len(chain))
      [] e.topic = "sla_created"        ->
            \A p \in 1 .. Len(chain) : ~(chain[p].topic = "sla_created" /\ chain[p].of = e.of)
      [] OTHER                          ->
            \E p \in 1 .. Len(chain) : chain[p].topic = "sla_created" /\ chain[p].of = e.of

Emit ==
    /\ Len(chain) < MaxEvents
    /\ \E e \in Bodies : Emittable(e) /\ chain' = Append(chain, e)
    /\ UNCHANGED dbVars

----------------------------------------------------------------------------
(* The database.                                                            *)

\* Mutant: INSERT OR REPLACE, which rewrites a settlement row with the NULL
\* threshold classifyEvents gives it.
ThresholdsReplaced(from, upto) == filled \ ((from + 1) .. upto)

\* INSERT OR IGNORE: a new settlement row has a NULL threshold, and one that
\* is there already keeps what it has.
ThresholdsKept(from, upto) == filled

\* Mutant: the tip's position is stored in place of the page's own cursor.
CursorAtTip(upto) == Len(chain)

\* The cursor stored with a page is the one the RPC returned with it.
CursorStored(upto) == upto

\* One transaction: the checkpoint, the watcher events in order, the rows.
ApplyBatch(from, upto) ==
    /\ cursor' = CursorStored(upto)
    /\ rows' = rows \cup RowsOf(chain, from, upto)
    /\ eligible' = EligibleAfter(chain, from, upto, eligible)
    /\ filled' = ThresholdsKept(from, upto)
    /\ base' = IF base = None THEN from ELSE base
    /\ UNCHANGED chain

\* Settlement rows of SLA s.
SettlementsOf(s) ==
    {p \in 1 .. Len(chain) : chain[p].of = s /\ <<"settlements", p>> \in rows}

\* A settlements request for s found a NULL threshold, read it from the vault
\* and cached it: every NULL row of that SLA is filled at once.
Backfill(s) ==
    /\ ~ (SettlementsOf(s) \subseteq filled)
    /\ filled' = filled \cup SettlementsOf(s)
    /\ UNCHANGED <<chain, cursor, rows, eligible, base>>

Surroundings == Emit \/ \E s \in Slas : Backfill(s)

----------------------------------------------------------------------------
(* What any ingestion owes the database.                                    *)

\* The event at p has left whatever trace it leaves: its row, if it has one.
Covered(p) == ~Throws(chain[p]) /\ (Persisted(chain[p]) => Row(chain, p) \in rows)

\* "a crash mid-cycle can never leave the checkpoint ahead of what was actually
\* stored" (db/schema.sql): every event from where ingestion began up to the
\* checkpoint was readable and has its row.
CheckpointNeverAhead ==
    cursor # None => \A p \in (base + 1) .. cursor : Covered(p)

\* A threshold cached by an API response stays cached, whatever page is
\* applied, or applied again, afterwards (db.ts setSlaQuorumThreshold: "this
\* only ever needs to happen once").
ThresholdsStayCached == [][filled \subseteq filled']_filled

=============================================================================
