---------------------------- MODULE SettlementsApi ----------------------------
(***************************************************************************)
(* GET /v1/slas/:slaId/settlements, on either host of the indexer: the     *)
(* Node server (api/routes.ts) and the Worker (worker/routes.ts).  A       *)
(* request reads one page of rows, then fills in the thresholds that were  *)
(* NULL in what it read, asking the vault for them, while ingestion and    *)
(* other requests go on writing to the same tables.                        *)
(***************************************************************************)
EXTENDS IndexerStore, FiniteSetsExt

CONSTANTS
    Requests,  \* requests that may be open at the same time
    PageSize,  \* rows per page
    Hosts      \* hosts this instance considers

ASSUME ApiAssumption ==
    /\ PageSize \in Nat \ {0}
    /\ Hosts \subseteq {"node", "worker"}

VARIABLES
    host,  \* which implementation serves the requests
    call   \* call[q]: what the handler of request q holds

(* A handler holds the page it read, whether there are older rows, which of *)
(* the page's thresholds are still NULL in its copy, which rows its loop has *)
(* yet to visit, and how many times it has asked the vault (history).       *)
Handler ==
    [at : {"loop", "cache", "answered", "refused"}, sla : Slas,
     page : SUBSET Nat, more : BOOLEAN, blank : SUBSET Nat, todo : SUBSET Nat,
     fetches : Nat]

Free == [at |-> "free"]

ApiTypeOK ==
    /\ StoreTypeOK
    /\ host \in Hosts
    /\ call \in [Requests -> Handler \cup {Free}]

ApiInit ==
    /\ StoreInit
    /\ host \in Hosts
    /\ call = [q \in Requests |-> Free]

----------------------------------------------------------------------------
(* The page.                                                                *)

\* Mutant: the row the cursor names is served again.
OlderOrEqual(s, before) == {p \in SettlementsOf(s) : before = None \/ p <= before}

\* The settlements of s that come after the cursor, newest first.
Older(s, before) == {p \in SettlementsOf(s) : before = None \/ p < before}

Newest(S, n) == {p \in S : Cardinality({r \in S : r > p}) < n}

\* One SELECT, for one row more than the page holds.
Ask(q, s, before) ==
    /\ call[q] = Free
    /\ LET older == Older(s, before)
           page  == Newest(older, PageSize)
       IN  call' = [call EXCEPT ![q] =
               [at |-> "loop", sla |-> s, page |-> page,
                more |-> Cardinality(older) > PageSize,
                blank |-> page \ filled, todo |-> page, fetches |-> 0]]

----------------------------------------------------------------------------
(* The loop over the page, newest row first.                                *)

\* Rows whose threshold the loop finds NULL.
Nulls(q) == call[q].todo \cap call[q].blank

InLoop(q) == call[q].at = "loop" /\ Nulls(q) # {}

\* The threshold read is put in every row still to visit.
FilledAll(c) == [c EXCEPT !.blank = @ \ c.todo, !.todo = {}, !.fetches = @ + 1]

\* Mutant: the threshold is put in the response and nowhere else.
NotCached(s) == filled

\* setSlaQuorumThreshold: every settlement row of s that has none gets it.
Cached(s) == filled \cup SettlementsOf(s)

\* get_sla answered.  Node caches the threshold there and then; the Worker
\* goes on to write it to D1.
FetchAnswered(q) ==
    /\ InLoop(q)
    /\ \/ /\ host = "node"
          /\ filled' = Cached(call[q].sla)
          /\ call' = [call EXCEPT ![q] = FilledAll(@)]
       \/ /\ host = "worker"
          /\ call' = [call EXCEPT ![q] = [FilledAll(@) EXCEPT !.at = "cache"]]
          /\ UNCHANGED filled
    /\ UNCHANGED <<chain, cursor, rows, eligible, base>>

\* get_sla failed.  Node answers 500; the Worker leaves this row's threshold
\* NULL and goes on to the next row, which asks the vault again.
FetchFailed(q) ==
    /\ InLoop(q)
    /\ \/ /\ host = "node"
          /\ call' = [call EXCEPT ![q].at = "refused", ![q].fetches = @ + 1]
       \/ /\ host = "worker"
          /\ call' = [call EXCEPT ![q].todo = {p \in @ : p < Max(Nulls(q))},
                                  ![q].fetches = @ + 1]
    /\ UNCHANGED <<chain, dbVars>>

\* The Worker's write to D1, which may fail without harm to the response.
CacheDone(q) ==
    /\ call[q].at = "cache"
    /\ call' = [call EXCEPT ![q].at = "loop"]
    /\ filled' \in {filled, Cached(call[q].sla)}
    /\ UNCHANGED <<chain, cursor, rows, eligible, base>>

Answer(q) ==
    /\ call[q].at = "loop"
    /\ Nulls(q) = {}
    /\ call' = [call EXCEPT ![q].at = "answered"]
    /\ UNCHANGED <<chain, dbVars>>

Handle(q) == FetchAnswered(q) \/ FetchFailed(q) \/ CacheDone(q) \/ Answer(q)

\* Either ingestion stores the events after the checkpoint, as Poller and
\* CronIngest have it; nothing here depends on which.
Ingest ==
    \E n \in Nat \cap ((cursor + 1) .. Len(chain)) :
        LET from == IF cursor = None THEN 0 ELSE cursor
        IN  Readable(chain, from, n) /\ ApplyBatch(from, n)

----------------------------------------------------------------------------
(* Properties.                                                              *)

\* The Node server asks the vault at most once for one request, and a page it
\* answers with has every threshold, each of them in the database: no later request
\* has to ask the vault for those rows.
NodeAnswersCached ==
    host = "node" =>
        \A q \in Requests : call[q] # Free =>
            /\ call[q].fetches <= 1
            /\ call[q].at = "answered" => call[q].blank = {} /\ call[q].page \subseteq filled

\* "a live fetch is needed at most once per request, not once per row"
\* (worker/routes.ts).
FetchedOnce == \A q \in Requests : call[q] # Free => call[q].fetches <= 1

=============================================================================
