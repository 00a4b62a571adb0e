------------------------------ MODULE StatusPage ------------------------------
(***************************************************************************)
(* The public status page of one SLA: its configuration (use-sla-config.ts), *)
(* the polling of its current round (use-polling.ts, use-round-status.ts)  *)
(* and the settlement it offers (round-panel.tsx).  A round is put together *)
(* from five reads made at different moments: the indexer's clock, its     *)
(* current-round, which itself reads the ledger and then its rows, and the *)
(* tally and the settled flag of the contracts.                            *)
(***************************************************************************)
EXTENDS IndexerAnswers

CONSTANTS
    Watchers,   \* the registered watchers
    Threshold,  \* the SLA's quorum_threshold
    MaxRound,   \* bound on rounds
    None,       \* not known, not read
    Failed      \* could not be read

ASSUME StatusAssumption ==
    /\ Threshold \in Nat \ {0} /\ MaxRound \in Nat
    /\ IsFiniteSet(Watchers)
    /\ None # Failed
    /\ \A v \in {None, Failed} : v \notin Nat /\ v \notin BOOLEAN /\ v # "no"

Rounds == 0 .. MaxRound
Votes == [round : Rounds, watcher : Watchers, status : {"up", "down"}]

VARIABLES
    round,    \* the round of the latest ledger
    votes,    \* watcher_registry: the checks submitted for this SLA
    checks,   \* the indexer's rows, which lag behind
    settled,  \* sla_vault: the rounds settled
    active,   \* sla_vault: the SLA's status is Active
    config,   \* useSlaConfig: loading, and the status read, None without data
    fetch,    \* the fetch of the round that runs, or Idle
    timer,    \* the next fetch is scheduled
    hidden,   \* the tab
    data,     \* the round last fetched, or None
    same,     \* whether it was fetched by the fetcher there is now
    trigger,  \* the settlement this page has under way
    own       \* history: the rounds this page saw its own settlement of confirmed

chain == <<round, votes, checks, settled, active>>
page == <<config, fetch, timer, hidden, data, same, trigger, own>>
vars == <<round, votes, checks, settled, active,
          config, fetch, timer, hidden, data, same, trigger, own>>

Idle == [at |-> "idle"]
NoTrigger == [at |-> "none", round |-> None]

Init ==
    /\ round = 0 /\ votes = {} /\ checks = {} /\ settled = {} /\ active = TRUE
    /\ config = [loading |-> TRUE, active |-> None]
    /\ fetch = Idle
    /\ timer = FALSE
    /\ hidden \in BOOLEAN
    /\ data = None
    /\ same = FALSE
    /\ trigger = NoTrigger
    /\ own = {}

Cast(r, s) == Cardinality({v \in votes : v.round = r /\ v.status = s})

----------------------------------------------------------------------------
(* The contracts and the indexer.                                           *)

NextRound ==
    /\ round < MaxRound
    /\ round' = round + 1
    /\ UNCHANGED <<votes, checks, settled, active>>

Vote(w, s) ==
    /\ \A v \in votes : ~(v.round = round /\ v.watcher = w)
    /\ votes' = votes \cup {[round |-> round, watcher |-> w, status |-> s]}
    /\ UNCHANGED <<round, checks, settled, active>>

Ingest(v) ==
    /\ v \in votes \ checks
    /\ checks' = checks \cup {v}
    /\ UNCHANGED <<round, votes, settled, active>>

Settleable(r) == active /\ r \notin settled /\ Cast(r, "down") >= Threshold

\* trigger_settlement by anyone else
Settle(r) ==
    /\ Settleable(r)
    /\ settled' = settled \cup {r}
    /\ UNCHANGED <<round, votes, checks, active>>

CancelSla ==
    /\ active
    /\ active' = FALSE
    /\ UNCHANGED <<round, votes, checks, settled>>

----------------------------------------------------------------------------
(* One fetch of the round.                                                  *)

Started == [at |-> "indexer", clock |-> None, ledger |-> None, rows |-> None]

Update(field, v) == fetch' = [fetch EXCEPT ![field] = v]

\* GET /v1/clock
ReadClock ==
    /\ fetch.at = "indexer" /\ fetch.clock = None
    /\ \E v \in {round, Failed} : Update("clock", v)

\* GET /v1/slas/:slaId/current-round: the ledger first, ...
ReadLedger ==
    /\ fetch.at = "indexer" /\ fetch.ledger = None
    /\ \E v \in {round, Failed} : Update("ledger", v)

\* ... then the watchers and the rows of that round.
ReadRows ==
    /\ fetch.at = "indexer"
    /\ fetch.ledger \in Rounds /\ fetch.rows = None
    /\ \/ Update("rows", CheckedIn(checks, fetch.ledger))
       \/ Update("ledger", Failed)

\* current-round is preferred; the clock will do without it.
RoundId(x) == IF x.ledger # Failed THEN x.ledger
              ELSE IF x.clock # Failed THEN x.clock ELSE None

\* Mutant: the clock's time, whenever there is one.
AsOfClock(x) == IF x.clock # Failed THEN x.clock ELSE x.ledger

\* The round that the time shown lies in: the clock's, if it agrees with the round
\* or there is no other, or else the start of the round.
AsOf(x) == IF x.ledger # Failed /\ x.clock # x.ledger THEN x.ledger ELSE x.clock

\* Both of the indexer's answers are in: without a round there is nothing to read.
IndexerRead ==
    LET x == fetch
        unread == IF RoundId(x) = None THEN Failed ELSE None
    IN  /\ x.at = "indexer"
        /\ x.clock # None
        /\ x.ledger = Failed \/ x.rows # None
        /\ fetch' =
               [at |-> "contracts", round |-> RoundId(x),
                asOf |-> IF RoundId(x) = None THEN None ELSE AsOf(x),
                watchers |-> IF x.ledger = Failed THEN Failed ELSE x.rows,
                tally |-> unread, settled |-> unread]

\* getRoundTally
ReadTally ==
    /\ fetch.at = "contracts" /\ fetch.tally = None
    /\ LET r == fetch.round
       IN  \/ Update("tally", [up |-> Cast(r, "up"), down |-> Cast(r, "down")])
           \/ Update("tally", Failed)

\* isRoundSettled
ReadSettled ==
    /\ fetch.at = "contracts" /\ fetch.settled = None
    /\ \/ Update("settled", IF fetch.round \in settled THEN "yes" ELSE "no")
       \/ Update("settled", Failed)

\* Mutant: a fetch with a failed read schedules no other.
FetchEndsOnSuccess ==
    /\ fetch.at = "contracts"
    /\ fetch.tally # None /\ fetch.settled # None
    /\ fetch' = Idle
    /\ data' = fetch
    /\ same' = TRUE
    /\ timer' = (Failed \notin {fetch.tally, fetch.settled})

\* The next fetch is scheduled when this one settles.
FetchEnds ==
    /\ fetch.at = "contracts"
    /\ fetch.tally # None /\ fetch.settled # None
    /\ fetch' = Idle
    /\ data' = fetch
    /\ same' = TRUE
    /\ timer' = TRUE

Reads ==
    /\ \/ ReadClock \/ ReadLedger \/ ReadRows \/ IndexerRead
       \/ ReadTally \/ ReadSettled
    /\ UNCHANGED <<data, same, timer>>

----------------------------------------------------------------------------
(* usePolling.                                                              *)

Enabled == config.active # None

\* A restart: what the fetch that runs will bring is dropped, the timer cleared, and
\* a new fetch starts, hidden or not.
Restart ==
    /\ fetch' = Started
    /\ timer' = FALSE

\* The timer: a hidden tab only schedules the next one.
Tick ==
    /\ timer /\ ~hidden
    /\ timer' = FALSE
    /\ fetch' = Started
    /\ UNCHANGED <<config, hidden, data, same, trigger, own>>

Hide ==
    /\ ~hidden
    /\ hidden' = TRUE
    /\ UNCHANGED <<config, fetch, timer, data, same, trigger, own>>

\* Mutant: the timer that was running is left to fire.
TimerKept == timer

TimerCleared == FALSE

\* onVisibilityChange
Show ==
    /\ hidden
    /\ hidden' = FALSE
    /\ IF Enabled /\ fetch = Idle
       THEN timer' = TimerCleared /\ fetch' = Started
       ELSE UNCHANGED <<timer, fetch>>
    /\ UNCHANGED <<config, data, same, trigger, own>>

----------------------------------------------------------------------------
(* The configuration.  Its endpoint hash is a new object after every load,  *)
(* so every load makes a new fetcher, for which the data there is is not    *)
(* shown.                                                                   *)

ConfigLoaded ==
    /\ config.loading
    /\ config' = [loading |-> FALSE, active |-> active]
    /\ Restart
    /\ same' = FALSE
    /\ UNCHANGED <<hidden, data, trigger, own>>

\* Without data polling is off, until the page is opened again.
ConfigFails ==
    /\ config.loading
    /\ config' = [loading |-> FALSE, active |-> None]
    /\ fetch' = Idle
    /\ timer' = FALSE
    /\ data' = None
    /\ same' = FALSE
    /\ UNCHANGED <<hidden, trigger, own>>

----------------------------------------------------------------------------
(* The settlement.                                                          *)

\* Mutant: data fetched before the configuration was read again is shown.
AnyData == data # None

Visible == data # None /\ same

\* Mutant: every vote counts.
VotesReach(t) == t.up + t.down >= Threshold

\* deriveQuorum
QuorumReached(t) == t.down >= Threshold

\* TriggerSettlementAction is on the page.
Offered ==
    /\ Enabled /\ ~config.loading
    /\ Visible
    /\ data.settled = "no"
    /\ config.active = TRUE
    /\ data.round # None
    /\ data.tally # Failed
    /\ QuorumReached(data.tally)

Trigger ==
    /\ Offered
    /\ trigger.at = "none"
    /\ trigger' = [at |-> "open", round |-> data.round]
    /\ UNCHANGED <<config, fetch, timer, hidden, data, same, own>>

TriggerIncluded ==
    /\ trigger.at = "open"
    /\ Settle(trigger.round)
    /\ trigger' = [trigger EXCEPT !.at = "included"]
    /\ UNCHANGED <<config, fetch, timer, hidden, data, same, own>>

TriggerFails ==
    /\ trigger.at # "none"
    /\ trigger' = NoTrigger
    /\ UNCHANGED <<config, fetch, timer, hidden, data, same, own>>

\* handleSettled: the configuration, the round and the history are read again,
\* even if the action has left the page.
TriggerConfirmed ==
    /\ trigger.at = "included"
    /\ trigger' = NoTrigger
    /\ own' = own \cup {trigger.round}
    /\ config' = [config EXCEPT !.loading = TRUE]
    /\ IF Enabled THEN Restart ELSE UNCHANGED <<fetch, timer>>
    /\ UNCHANGED <<hidden, data, same>>

----------------------------------------------------------------------------

Chain ==
    \/ NextRound \/ CancelSla
    \/ \E w \in Watchers, s \in {"up", "down"} : Vote(w, s)
    \/ \E v \in votes : Ingest(v)
    \/ \E r \in Rounds : Settle(r)

Fetching ==
    fetch # Idle /\ (Reads \/ FetchEnds) /\ UNCHANGED <<config, hidden, trigger, own>>

Page ==
    \/ Fetching
    \/ Tick \/ Hide \/ Show \/ ConfigLoaded \/ ConfigFails
    \/ Trigger \/ TriggerFails \/ TriggerConfirmed

Next ==
    \/ Chain /\ UNCHANGED page
    \/ Page /\ UNCHANGED chain
    \/ TriggerIncluded

Spec == Init /\ [][Next]_vars

\* Requests are answered or fail, and the timer fires.  Nobody need look at the page,
\* vote, settle or ingest.
FairSpec ==
    /\ Spec
    /\ WF_vars(Fetching /\ UNCHANGED chain)
    /\ WF_vars(Tick /\ UNCHANGED chain)
    /\ WF_vars((ConfigLoaded \/ ConfigFails) /\ UNCHANGED chain)

----------------------------------------------------------------------------
(* Properties.                                                              *)

\* Polling neither stops nor doubles: while it is on, either one fetch is running
\* or one is scheduled, through every hiding, showing, restart and reload.
PollingAlive == Enabled => (timer # (fetch # Idle))

\* Whatever moment each part was read at, what is shown belongs to one round: the
\* time lies in it, and a watcher shown as checked in did vote in it.
RoundIsOne ==
    data # None /\ data.round # None =>
        /\ data.asOf = data.round
        /\ data.watchers # Failed =>
              \A v \in data.watchers : v \in votes /\ v.round = data.round

\* A settlement is offered only for a round that has its Down votes on the chain.
OfferIsGrounded == Offered => Cast(data.round, "down") >= Threshold

\* Once this page saw its own settlement confirmed it never offers that round again,
\* whatever was being read when the confirmation came.
OwnSettlementClosesOffer == Offered => data.round \notin own

\* The page offers a round that the contract has settled, or misses a watcher's vote
\* that the indexer has.
Behind ==
    \/ Offered /\ data.round \in settled
    \/ /\ Visible /\ data.round # None /\ data.watchers # Failed
       /\ \E v \in checks \ data.watchers : v.round = data.round

\* A page that is looked at does not stay behind the contract and the indexer, whoever
\* settled the round or voted, and however the polls before failed
\* (use-polling.ts:58-80, use-round-status.ts:98-101).
PageCatchesUp == Behind ~> hidden \/ ~Behind

=============================================================================
