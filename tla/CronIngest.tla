----------------------------- MODULE CronIngest -----------------------------
(***************************************************************************)
(* The Cloudflare Worker's ingestion (worker/ingest.ts): a cron trigger     *)
(* starts one step of ingestion a minute, and nothing stops a step from     *)
(* starting while an earlier one still waits for the RPC or for D1.  A      *)
(* step reads the checkpoint, fetches a page and writes it as one D1 batch, *)
(* unconditionally.  The steps in flight are the elements of Runs.          *)
(***************************************************************************)
EXTENDS IndexerStore

CONSTANTS
    Runs,       \* invocations that may be in flight at the same time
    Limit,      \* DEFAULT_LIMIT: events per page
    StartPos,   \* position START_LEDGER, or its default, stands for
    ShortPages  \* whether the RPC may stop scanning before the page is full

ASSUME CronAssumption ==
    /\ Limit \in Nat \ {0}
    /\ StartPos \in Nat
    /\ ShortPages \in BOOLEAN

VARIABLES
    pc,    \* pc[r]: "idle", "request" (awaits the RPC) or "reply" (awaits D1)
    from,  \* from[r]: the cursor r read from the checkpoint and asked for
    upto,  \* upto[r]: the cursor of the page r holds
    high,  \* history: the furthest position a batch has stored, None before
    stale  \* history: a batch was written over a checkpoint it had not read

runVars == <<pc, from, upto>>
vars == <<chain, cursor, rows, eligible, filled, base, pc, from, upto, high, stale>>
historyVars == <<high, stale>>

CronTypeOK ==
    /\ StoreTypeOK
    /\ pc \in [Runs -> {"idle", "request", "reply"}]
    /\ from \in [Runs -> Nat]
    /\ upto \in [Runs -> Nat]
    /\ high \in Int
    /\ stale \in BOOLEAN

Init ==
    /\ StoreInit
    /\ pc = [r \in Runs |-> "idle"]
    /\ from = [r \in Runs |-> 0]
    /\ upto = [r \in Runs |-> 0]
    /\ high = None
    /\ stale = FALSE

Goto(r, l) == pc' = [pc EXCEPT ![r] = l]

Least(m, n) == IF m < n THEN m ELSE n

Greatest(m, n) == IF m < n THEN n ELSE m

\* Mutant: the step resumes at the tip, as if last_ledger were a cursor.
TriggerAtTip(r) ==
    /\ pc[r] = "idle"
    /\ from' = [from EXCEPT ![r] = IF cursor # None THEN Len(chain) ELSE StartPos]
    /\ Goto(r, "request")
    /\ UNCHANGED <<chain, dbVars, upto, historyVars>>

\* Mutant: no default start when there is no checkpoint.
TriggerUnset(r) ==
    /\ pc[r] = "idle"
    /\ from' = [from EXCEPT ![r] = cursor]
    /\ Goto(r, "request")
    /\ UNCHANGED <<chain, dbVars, upto, historyVars>>

\* The trigger fires and the step reads the checkpoint.  A stored cursor is
\* never empty, so the branch that resumes at last_ledger + 1 is not taken.
Trigger(r) ==
    /\ pc[r] = "idle"
    /\ from' = [from EXCEPT ![r] = IF cursor # None THEN cursor ELSE StartPos]
    /\ Goto(r, "request")
    /\ UNCHANGED <<chain, dbVars, upto, historyVars>>

\* The ends a page of r may have, given the events the chain holds now.
PageEnds(r) ==
    LET full == Least(from[r] + Limit, Len(chain))
    IN  IF ShortPages THEN from[r] .. full ELSE {full} \ (0 .. (from[r] - 1))

\* getEvents answered.
Reply(r) ==
    /\ pc[r] = "request"
    /\ \E n \in PageEnds(r) : upto' = [upto EXCEPT ![r] = n]
    /\ Goto(r, "reply")
    /\ UNCHANGED <<chain, dbVars, from, historyVars>>

\* Mutant: classifyEvents drops what it cannot read instead of throwing.
ReadablePageAlways(r) == TRUE

ReadablePage(r) == Readable(chain, from[r], upto[r])

\* The batch is written, however old the checkpoint it was fetched from.
Apply(r) ==
    /\ pc[r] = "reply"
    /\ ReadablePage(r)
    /\ ApplyBatch(from[r], upto[r])
    /\ high' = Greatest(high, upto[r])
    /\ stale' = (stale \/ (cursor # None /\ cursor # from[r]))
    /\ Goto(r, "idle")
    /\ UNCHANGED <<from, upto>>

\* The step ends with nothing written: the RPC or D1 failed, the page could
\* not be read, or the platform dropped the invocation.  The error is logged.
Abandon(r) ==
    /\ pc[r] # "idle"
    /\ Goto(r, "idle")
    /\ UNCHANGED <<chain, dbVars, from, upto, historyVars>>

Next ==
    \/ /\ Surroundings
       /\ UNCHANGED <<runVars, historyVars>>
    \/ \E r \in Runs : Trigger(r) \/ Reply(r) \/ Apply(r) \/ Abandon(r)

Spec == Init /\ [][Next]_vars

----------------------------------------------------------------------------
(* Properties.                                                              *)

\* Whatever the overlap, the rows are those of one contiguous slice of the
\* log: a page written late, twice or after a newer one adds nothing wrong and
\* hides nothing.
Mirror == INSTANCE EventMirror
ImplementsMirror == Mirror!Spec

\* As long as every batch was written over the checkpoint it was fetched from,
\* the watchers table is the chain's verdict on what has been ingested.
EligibleUnlessStale ==
    cursor # None /\ ~stale => eligible = EligibleOn(chain, base, cursor)

\* The watchers table is "[c]urrent eligible watcher set, built from
\* watcher_registered / watcher_removed events" (db/schema.sql): once every
\* event is ingested and no step is in flight, it is the chain's verdict.
EligibleWhenCaughtUp ==
    (\A r \in Runs : pc[r] = "idle") /\ cursor = Len(chain)
        => eligible = EligibleOn(chain, base, cursor)

=============================================================================
