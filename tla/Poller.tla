-------------------------------- MODULE Poller --------------------------------
(***************************************************************************)
(* The Node indexer's ingestion loop (ingest/poller.ts): one process that  *)
(* reads the checkpoint, asks the RPC for a page, stores the page, and     *)
(* sleeps unless the page was full.  The process may crash at any await    *)
(* and be restarted; nothing but the database survives.                    *)
(***************************************************************************)
EXTENDS IndexerStore

CONSTANTS
    Limit,       \* MAX_LEDGERS_PER_REQUEST: events per page
    StartPos,    \* position START_LEDGER stands for, or None when unset
    MaxCrashes   \* bound on crashes

ASSUME PollerAssumption ==
    /\ Limit \in Nat \ {0}
    /\ StartPos \in Nat \cup {None}
    /\ MaxCrashes \in Nat

VARIABLES
    pc,      \* where runForever / runOnce is
    from,    \* cursor the cycle asked for
    upto,    \* cursor of the page the RPC answered with
    crashes

loopVars == <<pc, from, upto>>
vars == <<chain, cursor, rows, eligible, filled, base, pc, from, upto, crashes>>

PollerTypeOK ==
    /\ StoreTypeOK
    /\ pc \in {"asleep", "ready", "locate", "request", "reply", "down"}
    /\ from \in Nat
    /\ upto \in Nat
    /\ crashes \in 0 .. MaxCrashes

Init ==
    /\ StoreInit
    /\ pc = "ready"
    /\ from = 0
    /\ upto = 0
    /\ crashes = 0

Goto(l) == pc' = l

----------------------------------------------------------------------------
(* runForever                                                               *)

\* The poll interval has passed.
Wake ==
    /\ pc = "asleep"
    /\ Goto("ready")
    /\ UNCHANGED <<chain, dbVars, from, upto, crashes>>

\* Mutant: an error that ends the loop.
CycleFailedStops ==
    /\ Goto("stopped")
    /\ UNCHANGED <<chain, dbVars, from, upto, crashes>>

\* The error a cycle threw is logged, and the loop sleeps.
CycleFailed ==
    /\ Goto("asleep")
    /\ UNCHANGED <<chain, dbVars, from, upto, crashes>>

----------------------------------------------------------------------------
(* runOnce                                                                  *)

\* Mutant: the cycle starts over although there is a checkpoint.
BeginAgain ==
    /\ pc = "ready"
    /\ Goto("locate")
    /\ UNCHANGED <<chain, dbVars, from, upto, crashes>>

\* Mutant: the cycle resumes at a checkpoint that is not there.
BeginUnset ==
    /\ pc = "ready"
    /\ from' = cursor
    /\ Goto("request")
    /\ UNCHANGED <<chain, dbVars, upto, crashes>>

\* getCheckpoint: resume at the stored cursor, or find out where to start.
Begin ==
    /\ pc = "ready"
    /\ \/ /\ cursor # None
          /\ from' = cursor
          /\ Goto("request")
       \/ /\ cursor = None
          /\ Goto("locate")
          /\ UNCHANGED from
    /\ UNCHANGED <<chain, dbVars, upto, crashes>>

\* getLatestLedger answered: START_LEDGER, or the latest ledger, whose events
\* may be any number of the most recent ones.
Locate ==
    /\ pc = "locate"
    /\ IF StartPos # None THEN from' = StartPos ELSE from' \in 0 .. Len(chain)
    /\ Goto("request")
    /\ UNCHANGED <<chain, dbVars, upto, crashes>>

Least(m, n) == IF m < n THEN m ELSE n

\* The events one page may hold: at most the limit, and fewer when the RPC
\* stopped scanning earlier or has no more.
PageEnds == from .. Least(from + Limit, Len(chain))

\* getEvents answered with the events after `from` up to some position.  The
\* page is fixed here; the chain may grow before it is stored.
Reply ==
    /\ pc = "request"
    /\ upto' \in PageEnds
    /\ Goto("reply")
    /\ UNCHANGED <<chain, dbVars, from, crashes>>

\* An answer that scanned as far as a page can reach.
FullReply == Reply /\ upto' = Least(from + Limit, Len(chain))

\* getLatestLedger or getEvents failed after its retries.  That includes a
\* start the RPC does not serve: ahead of its tip, or behind its retention.
RequestFailed ==
    /\ pc \in {"locate", "request"}
    /\ CycleFailed

\* Mutant: a page that cannot be read is dropped and the cursor moves on.
PageRefusedSkips ==
    /\ cursor' = upto
    /\ base' = IF base = None THEN from ELSE base
    /\ Goto("asleep")
    /\ UNCHANGED <<chain, rows, eligible, filled, from, upto, crashes>>

\* classifyEvents threw: nothing of the page is stored.
PageRefused == CycleFailed

\* The page is decoded and stored; a full page means more may be waiting.
Commit ==
    /\ pc = "reply"
    /\ Readable(chain, from, upto)
    /\ ApplyBatch(from, upto)
    /\ Goto(IF upto - from >= Limit THEN "ready" ELSE "asleep")
    /\ UNCHANGED <<from, upto, crashes>>

Refuse ==
    /\ pc = "reply"
    /\ ~Readable(chain, from, upto)
    /\ PageRefused

----------------------------------------------------------------------------
(* The process.  A shutdown ends with process.exit, possibly in the middle  *)
(* of a cycle, and so leaves what a crash leaves.                           *)

Crash ==
    /\ pc # "down"
    /\ crashes < MaxCrashes
    /\ crashes' = crashes + 1
    /\ Goto("down")
    /\ from' = 0
    /\ upto' = 0
    /\ UNCHANGED <<chain, dbVars>>

Restart ==
    /\ pc = "down"
    /\ Goto("ready")
    /\ UNCHANGED <<chain, dbVars, from, upto, crashes>>

Cycle == Wake \/ Begin \/ Locate \/ Reply \/ RequestFailed \/ Commit \/ Refuse

Next ==
    \/ /\ Surroundings
       /\ pc = "down" => UNCHANGED dbVars  \* the same process serves the API
       /\ UNCHANGED <<loopVars, crashes>>
    \/ Cycle
    \/ Crash
    \/ Restart

Spec == Init /\ [][Next]_vars

\* The process runs and is restarted; a request that is made again and again
\* is answered, and answered in full, again and again.
Fairness ==
    /\ WF_vars(Wake) /\ WF_vars(Begin) /\ WF_vars(Commit) /\ WF_vars(Refuse)
    /\ WF_vars(Restart)
    /\ SF_vars(Locate) /\ SF_vars(FullReply)

FairSpec == Spec /\ Fairness

----------------------------------------------------------------------------
(* Properties.                                                              *)

\* The watchers table is the chain's verdict on the events ingested so far:
\* after a crash, a refused page or a partial page, no registration or removal
\* has been lost, repeated or applied out of its order.
EligibleMatchesChain ==
    cursor # None => eligible = EligibleOn(chain, base, cursor)

\* The stored cursor only ever moves forward.
CursorNeverRegresses == [][cursor' >= cursor]_cursor

\* The stored rows are those of one contiguous slice of the log, taken page by
\* page: the poller implements EventMirror with the checkpoint as its end.
Mirror == INSTANCE EventMirror WITH high <- cursor
ImplementsMirror == Mirror!Spec

\* Every event is passed by the checkpoint in the end, across crashes, failed
\* requests and pages cut short, unless the log holds a payload classifyEvents
\* throws on.
EventuallyIngested ==
    \A n \in 1 .. MaxEvents :
        n <= Len(chain) ~>
            \/ cursor >= n
            \/ \E p \in 1 .. Len(chain) : Throws(chain[p])

=============================================================================
