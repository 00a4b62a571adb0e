--------------------------- MODULE StatusPageProofs ---------------------------
(***************************************************************************)
(* The status page's polling, what it shows and what it offers, for any    *)
(* watchers, threshold and number of rounds, and which of the indexer's    *)
(* answers the web app accepts, for any rows.                              *)
(***************************************************************************)
EXTENDS StatusPage, FiniteSetTheorems, TLAPS

\* The votes are on the chain, the rows come from them, and what was settled stays so.
ChainInv ==
    /\ votes \subseteq Votes /\ IsFiniteSet(votes)
    /\ checks \subseteq votes
    /\ round \in Rounds
    /\ active \in BOOLEAN
    /\ own \subseteq settled
    /\ trigger.at = "included" => trigger.round \in settled

\* A fetch at either of its stages.
IndexerFetch ==
    [at : {"indexer"}, clock : Rounds \cup {None, Failed}, ledger : Rounds \cup {None, Failed},
     rows : (SUBSET Votes) \cup {None}]

\* What was read of one round: its parts agree with each other, with the votes there
\* are now and with what this page saw settled.
OneRound(x) ==
    /\ x.round \in Rounds \cup {None}
    /\ x.round # None =>
          /\ x.asOf = x.round
          /\ x.watchers # Failed => \A v \in x.watchers : v \in votes /\ v.round = x.round
          /\ x.tally \notin {None, Failed} =>
                x.tally.down \in Nat /\ x.tally.down <= Cast(x.round, "down")

FetchInv ==
    /\ \/ fetch = Idle
       \/ fetch \in IndexerFetch
       \/ /\ DOMAIN fetch = {"at", "round", "asOf", "watchers", "tally", "settled"}
          /\ fetch = [f \in DOMAIN fetch |-> fetch[f]]
          /\ fetch.at = "contracts"
    /\ fetch.at = "indexer" /\ fetch.rows # None =>
          /\ fetch.ledger \in Rounds
          /\ \A v \in fetch.rows : v \in votes /\ v.round = fetch.ledger
    /\ fetch.at = "contracts" =>
          /\ OneRound(fetch)
          /\ fetch.settled = "no" => fetch.round \notin own

DataInv ==
    data # None =>
        /\ OneRound(data) /\ data.tally # None
        /\ same /\ ~config.loading /\ data.settled = "no" => data.round \notin own

\* Polling runs when it is on, and does nothing when it is off.
PollInv ==
    /\ timer \in BOOLEAN
    /\ config \in [loading : BOOLEAN, active : BOOLEAN \cup {None}]
    /\ Enabled => (timer # (fetch # Idle))
    /\ ~Enabled => ~timer /\ fetch = Idle

PageInv == ChainInv /\ FetchInv /\ DataInv /\ PollInv

\* The invariant implies what the run checks.
LEMMA PageInvSuffices ==
    PageInv => PollingAlive /\ RoundIsOne /\ OfferIsGrounded /\ OwnSettlementClosesOffer
<1> SUFFICES ASSUME PageInv
             PROVE  PollingAlive /\ RoundIsOne /\ OfferIsGrounded /\ OwnSettlementClosesOffer
  OBVIOUS
<1>1. PollingAlive
  BY DEF PageInv, PollInv, PollingAlive
<1>2. RoundIsOne
  BY DEF PageInv, DataInv, OneRound, RoundIsOne
<1>3. ASSUME Offered
      PROVE  Cast(data.round, "down") >= Threshold /\ data.round \notin own
  <2>1. OneRound(data) /\ data.round # None /\ data.round \in Rounds
    BY <1>3 DEF Offered, Visible, PageInv, DataInv, OneRound
  <2>2. data.tally \notin {None, Failed} /\ data.tally.down >= Threshold
    BY <1>3 DEF Offered, Visible, QuorumReached, PageInv, DataInv
  <2>3. data.tally.down \in Nat /\ data.tally.down <= Cast(data.round, "down")
    BY <2>1, <2>2 DEF OneRound
  <2>4. Cast(data.round, "down") \in Nat
    <3>1. IsFiniteSet({v \in votes : v.round = data.round /\ v.status = "down"})
      BY FS_Subset DEF PageInv, ChainInv
    <3> QED BY <3>1, FS_CardinalityType DEF Cast
  <2>5. data.round \notin own
    BY <1>3 DEF Offered, Visible, PageInv, DataInv
  <2> QED BY <2>2, <2>3, <2>4, <2>5, StatusAssumption
<1> QED BY <1>1, <1>2, <1>3 DEF OfferIsGrounded, OwnSettlementClosesOffer

----------------------------------------------------------------------------
(* What was read stays right while votes are added.                         *)

\* Votes are never taken back.
LEMMA CastGrows ==
    ASSUME votes \subseteq votes', IsFiniteSet(votes'), NEW r, NEW s
    PROVE  Cast(r, s) \in Nat /\ Cast(r, s)' \in Nat /\ Cast(r, s) <= Cast(r, s)'
<1> DEFINE A == {v \in votes : v.round = r /\ v.status = s}
           B == {v \in votes' : v.round = r /\ v.status = s}
<1>1. A \subseteq B /\ B \subseteq votes'
  OBVIOUS
<1>2. IsFiniteSet(B)
  BY <1>1, FS_Subset
<1>3. IsFiniteSet(A) /\ Cardinality(A) <= Cardinality(B)
  BY <1>1, <1>2, FS_Subset
<1>4. Cardinality(A) \in Nat /\ Cardinality(B) \in Nat
  BY <1>2, <1>3, FS_CardinalityType
<1> QED BY <1>3, <1>4 DEF Cast

\* So a round put together stays one round.
LEMMA OneRoundKept ==
    ASSUME votes \subseteq votes', IsFiniteSet(votes'), NEW x, OneRound(x)
    PROVE  OneRound(x)'
<1>1. ASSUME x.round # None, x.tally \notin {None, Failed}
      PROVE  x.tally.down \in Nat /\ x.tally.down <= Cast(x.round, "down")'
  <2>1. x.tally.down \in Nat /\ x.tally.down <= Cast(x.round, "down")
    BY <1>1 DEF OneRound
  <2> QED BY <2>1, CastGrows
<1> QED BY <1>1 DEF OneRound

\* Before anything has happened.
LEMMA PageInitInv == Init => PageInv
<1> SUFFICES ASSUME Init PROVE PageInv
  OBVIOUS
<1>1. ChainInv
  BY StatusAssumption, FS_EmptySet DEF Init, ChainInv, NoTrigger, Rounds
<1>2. FetchInv
  BY DEF Init, FetchInv, Idle
<1>3. DataInv /\ PollInv
  BY DEF Init, DataInv, PollInv, Enabled
<1> QED BY <1>1, <1>2, <1>3 DEF PageInv

\* A step that leaves the page's reads alone, and takes back no vote.
LEMMA ReadsKept ==
    ASSUME PageInv, votes \subseteq votes', IsFiniteSet(votes'),
           UNCHANGED <<fetch, data, same, own, config>>
    PROVE  FetchInv' /\ DataInv'
<1>1. PICK x : x = fetch
  OBVIOUS
<1>2. PICK d : d = data
  OBVIOUS
<1>3. OneRound(x) => OneRound(x)'
  BY OneRoundKept
<1>4. OneRound(d) => OneRound(d)'
  BY OneRoundKept
<1>5. OneRound(fetch) => OneRound(fetch)'
  BY <1>1, <1>3 DEF OneRound
<1>6. OneRound(data) => OneRound(data)'
  BY <1>2, <1>4 DEF OneRound
<1>7. FetchInv'
  BY <1>5 DEF PageInv, FetchInv, IndexerFetch
<1>8. DataInv'
  BY <1>6 DEF PageInv, DataInv
<1> QED BY <1>7, <1>8

\* The contracts and the indexer.
LEMMA ChainStep ==
    ASSUME PageInv, Chain, UNCHANGED page
    PROVE  PageInv'
<1>1. votes' \subseteq Votes /\ votes \subseteq votes' /\ IsFiniteSet(votes') /\ round' \in Rounds
  <2>1. CASE NextRound
    BY <2>1, StatusAssumption DEF NextRound, PageInv, ChainInv, Rounds
  <2>2. ASSUME NEW w \in Watchers, NEW s \in {"up", "down"}, Vote(w, s)
        PROVE  votes' \subseteq Votes /\ votes \subseteq votes' /\ IsFiniteSet(votes') /\ round' \in Rounds
    <3> DEFINE v == [round |-> round, watcher |-> w, status |-> s]
    <3>1. v \in Votes
      BY DEF Votes, PageInv, ChainInv
    <3>2. votes' = votes \cup {v} /\ round' = round
      BY <2>2 DEF Vote
    <3>3. IsFiniteSet(votes \cup {v})
      BY FS_AddElement DEF PageInv, ChainInv
    <3> QED BY <3>1, <3>2, <3>3 DEF PageInv, ChainInv
  <2> QED BY <2>1, <2>2 DEF Chain, CancelSla, Ingest, Settle, PageInv, ChainInv
<1>2. ChainInv'
  <2>1. checks' \subseteq votes'
    BY <1>1 DEF Chain, NextRound, CancelSla, Vote, Ingest, Settle, PageInv, ChainInv
  <2>2. active' \in BOOLEAN /\ settled \subseteq settled'
    BY DEF Chain, NextRound, CancelSla, Vote, Ingest, Settle, PageInv, ChainInv
  <2> QED BY <1>1, <2>1, <2>2 DEF page, PageInv, ChainInv
<1>3. FetchInv' /\ DataInv'
  BY <1>1, ReadsKept DEF page
<1>4. PollInv'
  BY DEF page, PageInv, PollInv, Enabled
<1> QED BY <1>2, <1>3, <1>4 DEF PageInv

\* The settlement this page has under way is included.
LEMMA TriggerIncludedStep ==
    ASSUME PageInv, TriggerIncluded
    PROVE  PageInv'
<1>1. ChainInv'
  BY DEF TriggerIncluded, Settle, PageInv, ChainInv
<1>2. votes' = votes /\ UNCHANGED <<fetch, data, same, own, config, timer>>
  BY DEF TriggerIncluded, Settle
<1>3. FetchInv' /\ DataInv'
  BY <1>2, ReadsKept DEF PageInv, ChainInv
<1>4. PollInv'
  BY <1>2 DEF PageInv, PollInv, Enabled
<1> QED BY <1>1, <1>3, <1>4 DEF PageInv

----------------------------------------------------------------------------
(* The page.                                                                *)

\* A field read of what the indexer answers.
LEMMA IndexerReads ==
    ASSUME PageInv, UNCHANGED chain, UNCHANGED <<config, own>>,
           fetch # Idle, ReadClock \/ ReadLedger \/ ReadRows
    PROVE  FetchInv' /\ fetch' # Idle
<1>1. fetch \in IndexerFetch
  BY DEF ReadClock, ReadLedger, ReadRows, PageInv, FetchInv, Idle, IndexerFetch
<1>2. /\ votes' = votes /\ round \in Rounds
      /\ \A v \in checks : v \in votes /\ v \in Votes
  BY DEF chain, PageInv, ChainInv
<1>3. CASE ReadClock
  <2>1. PICK v \in {round, Failed} : fetch' = [fetch EXCEPT !["clock"] = v]
    BY <1>3 DEF ReadClock, Update
  <2>2. fetch' \in IndexerFetch /\ fetch'.ledger = fetch.ledger /\ fetch'.rows = fetch.rows
    BY <1>1, <1>2, <2>1 DEF IndexerFetch
  <2> QED BY <1>1, <1>2, <2>2 DEF PageInv, FetchInv, IndexerFetch, Idle
<1>4. CASE ReadLedger
  <2>1. PICK v \in {round, Failed} : fetch' = [fetch EXCEPT !["ledger"] = v]
    BY <1>4 DEF ReadLedger, Update
  <2>2. fetch' \in IndexerFetch /\ fetch'.rows = fetch.rows
    BY <1>1, <1>2, <2>1 DEF IndexerFetch
  <2>3. fetch.rows = None
    BY <1>1, <1>4, StatusAssumption DEF ReadLedger, PageInv, FetchInv, Rounds, IndexerFetch
  <2> QED BY <1>1, <1>2, <2>2, <2>3 DEF PageInv, FetchInv, IndexerFetch, Idle
<1>5. CASE ReadRows
  <2>1. fetch.ledger \in Rounds /\ fetch.rows = None
    BY <1>5 DEF ReadRows
  <2>2. CASE fetch' = [fetch EXCEPT !["rows"] = CheckedIn(checks, fetch.ledger)]
    <3>1. \A v \in CheckedIn(checks, fetch.ledger) : v \in votes /\ v \in Votes /\ v.round = fetch.ledger
      BY <1>2 DEF CheckedIn
    <3>2. /\ fetch' \in IndexerFetch /\ fetch'.ledger = fetch.ledger
          /\ fetch'.rows = CheckedIn(checks, fetch.ledger)
      BY <1>1, <2>2, <3>1 DEF IndexerFetch
    <3> QED BY <1>2, <2>1, <3>1, <3>2 DEF FetchInv, IndexerFetch, Idle
  <2>3. CASE fetch' = [fetch EXCEPT !["ledger"] = Failed]
    <3>1. fetch' \in IndexerFetch /\ fetch'.rows = None
      BY <1>1, <2>1, <2>3 DEF IndexerFetch
    <3> QED BY <3>1 DEF FetchInv, IndexerFetch, Idle
  <2> QED BY <1>5, <2>2, <2>3 DEF ReadRows, Update
<1> QED BY <1>3, <1>4, <1>5

\* The indexer's answers are put together.
LEMMA IndexerReadStep ==
    ASSUME PageInv, UNCHANGED chain, UNCHANGED <<config, own>>, fetch # Idle, IndexerRead
    PROVE  FetchInv' /\ fetch' # Idle
<1>1. fetch \in IndexerFetch
  BY DEF IndexerRead, PageInv, FetchInv, Idle, IndexerFetch
<1> DEFINE x == fetch
           unread == IF RoundId(x) = None THEN Failed ELSE None
           got == [at |-> "contracts", round |-> RoundId(x),
                   asOf |-> IF RoundId(x) = None THEN None ELSE AsOf(x),
                   watchers |-> IF x.ledger = Failed THEN Failed ELSE x.rows,
                   tally |-> unread, settled |-> unread]
<1>2. fetch' = got /\ x.clock # None /\ (x.ledger = Failed \/ x.rows # None)
  BY DEF IndexerRead
<1>3. x.clock \in Rounds \cup {Failed}
  BY <1>1, <1>2 DEF IndexerFetch
<1>4. x.ledger # Failed => x.ledger \in Rounds /\ \A v \in x.rows : v \in votes /\ v.round = x.ledger
  BY <1>1, <1>2 DEF PageInv, FetchInv, IndexerFetch
<1>5. None \notin Rounds /\ Failed \notin Rounds
  BY StatusAssumption DEF Rounds
<1>6. /\ RoundId(x) \in Rounds \cup {None}
      /\ RoundId(x) # None => AsOf(x) = RoundId(x)
      /\ x.ledger # Failed => RoundId(x) = x.ledger
  BY <1>3, <1>4, <1>5 DEF RoundId, AsOf
<1>7. unread \in {None, Failed} /\ unread # "no"
  BY StatusAssumption
<1>8. votes' = votes /\ own' = own
  BY DEF chain
<1> DEFINE r == RoundId(x)
           a == IF r = None THEN None ELSE AsOf(x)
           w == IF x.ledger = Failed THEN Failed ELSE x.rows
<1>9. /\ r \in Rounds \cup {None}
      /\ r # None => a = r
      /\ r # None /\ w # Failed => \A v \in w : v \in votes /\ v.round = r
  BY <1>4, <1>6
<1>10. /\ fetch'.at = "contracts" /\ fetch'.round = r /\ fetch'.asOf = a
       /\ fetch'.watchers = w /\ fetch'.tally = unread /\ fetch'.settled = unread
       /\ DOMAIN fetch' = {"at", "round", "asOf", "watchers", "tally", "settled"}
       /\ fetch' = [f \in DOMAIN fetch' |-> fetch'[f]]
  BY <1>2
<1>11. fetch' # Idle
  BY <1>10 DEF Idle
<1>12. OneRound(fetch)'
  <2> HIDE DEF r, a, w, unread, got
  <2> QED BY <1>7, <1>8, <1>9, <1>10 DEF OneRound
<1> HIDE DEF r, a, w, unread, got
<1> QED BY <1>7, <1>8, <1>10, <1>11, <1>12 DEF FetchInv

\* The contracts' answers.
LEMMA ContractReads ==
    ASSUME PageInv, UNCHANGED chain, UNCHANGED <<config, own>>,
           fetch # Idle, ReadTally \/ ReadSettled
    PROVE  FetchInv' /\ fetch' # Idle
<1>1. /\ DOMAIN fetch = {"at", "round", "asOf", "watchers", "tally", "settled"}
      /\ fetch = [f \in DOMAIN fetch |-> fetch[f]]
      /\ fetch.at = "contracts"
      /\ OneRound(fetch) /\ (fetch.settled = "no" => fetch.round \notin own)
  BY DEF ReadTally, ReadSettled, PageInv, FetchInv, Idle, IndexerFetch
<1>2. votes' = votes /\ own' = own /\ votes \subseteq votes' /\ IsFiniteSet(votes') /\ own \subseteq settled
  BY DEF chain, PageInv, ChainInv
<1>3. CASE ReadTally
  <2>1. PICK t : fetch' = [fetch EXCEPT !["tally"] = t] /\ (t = Failed \/ t.down = Cast(fetch.round, "down"))
    <3>1. [up |-> Cast(fetch.round, "up"), down |-> Cast(fetch.round, "down")].down = Cast(fetch.round, "down")
      OBVIOUS
    <3> QED BY <1>3, <3>1 DEF ReadTally, Update
  <2>2. /\ fetch'.at = "contracts" /\ fetch'.round = fetch.round /\ fetch'.asOf = fetch.asOf
        /\ fetch'.watchers = fetch.watchers /\ fetch'.settled = fetch.settled /\ fetch'.tally = t
        /\ DOMAIN fetch' = DOMAIN fetch
        /\ fetch' = [f \in DOMAIN fetch' |-> fetch'[f]]
    BY <1>1, <2>1
  <2>3. Cast(fetch.round, "down")' = Cast(fetch.round, "down") /\ Cast(fetch.round, "down") \in Nat
    <3>1. PICK r : r = fetch.round
      OBVIOUS
    <3>2. Cast(r, "down") \in Nat
      BY <1>2, CastGrows
    <3>3. Cast(r, "down")' = Cast(r, "down")
      BY <1>2 DEF Cast
    <3> QED BY <2>2, <3>1, <3>2, <3>3 DEF Cast
  <2>4. t \notin {None, Failed} => t.down \in Nat /\ t.down <= Cast(fetch.round, "down")'
    BY <2>1, <2>3
  <2>5. OneRound(fetch)'
    BY <1>1, <1>2, <2>2, <2>4 DEF OneRound
  <2> QED BY <1>1, <1>2, <2>2, <2>5 DEF FetchInv, Idle
<1>4. CASE ReadSettled
  <2>1. PICK s : fetch' = [fetch EXCEPT !["settled"] = s] /\ (s = "no" => fetch.round \notin settled)
    BY <1>4, StatusAssumption DEF ReadSettled, Update
  <2>2. /\ fetch'.at = "contracts" /\ fetch'.round = fetch.round /\ fetch'.asOf = fetch.asOf
        /\ fetch'.watchers = fetch.watchers /\ fetch'.settled = s /\ fetch'.tally = fetch.tally
        /\ DOMAIN fetch' = DOMAIN fetch
        /\ fetch' = [f \in DOMAIN fetch' |-> fetch'[f]]
    BY <1>1, <2>1
  <2>3. OneRound(fetch)'
    BY <1>1, <1>2, <2>2 DEF OneRound, Cast
  <2> QED BY <1>1, <1>2, <2>1, <2>2, <2>3 DEF FetchInv, Idle
<1> QED BY <1>3, <1>4

\* The fetch is over, and shown.
LEMMA FetchEndsStep ==
    ASSUME PageInv, UNCHANGED chain, UNCHANGED <<config, own>>, fetch # Idle, FetchEnds
    PROVE  FetchInv' /\ DataInv' /\ PollInv'
<1>1. /\ fetch.at = "contracts" /\ OneRound(fetch) /\ fetch.tally # None
      /\ fetch.settled = "no" => fetch.round \notin own
  BY DEF FetchEnds, PageInv, FetchInv, Idle, IndexerFetch
<1>2. fetch' = Idle /\ data' = fetch /\ timer' = TRUE
  BY DEF FetchEnds
<1>3. votes' = votes /\ own' = own
  BY DEF chain
<1>4. FetchInv'
  BY <1>2 DEF FetchInv, Idle
<1>5. OneRound(data)'
  BY <1>1, <1>2, <1>3 DEF OneRound, Cast
<1>6. DataInv'
  BY <1>1, <1>2, <1>3, <1>5 DEF DataInv
<1>7. Enabled
  BY DEF PageInv, PollInv
<1>8. PollInv'
  BY <1>2, <1>7 DEF PageInv, PollInv, Enabled
<1> QED BY <1>4, <1>6, <1>8

\* A step of the page that is no read.
LEMMA PageStep ==
    ASSUME PageInv, Page, UNCHANGED chain
    PROVE  PageInv'
<1>1. /\ votes' = votes /\ votes \subseteq votes' /\ IsFiniteSet(votes') /\ settled' = settled
      /\ checks' = checks /\ round' = round /\ active' = active /\ active \in BOOLEAN
  BY DEF chain, PageInv, ChainInv
<1>2. Started \in IndexerFetch /\ Started.rows = None /\ Started # Idle
  BY DEF Started, IndexerFetch, Idle
<1>3. fetch' = Started => FetchInv'
  BY <1>2 DEF FetchInv, IndexerFetch
<1>4. fetch' = Idle => FetchInv'
  BY DEF FetchInv, Idle
<1>5. ASSUME UNCHANGED <<own, trigger>>
      PROVE  ChainInv'
  BY <1>1, <1>5 DEF PageInv, ChainInv
<1>6. ASSUME UNCHANGED <<data, own>>, same' => same, config'.loading = config.loading
      PROVE  DataInv'
  <2>1. OneRound(data) => OneRound(data)'
    BY <1>1, <1>6 DEF OneRound, Cast
  <2> QED BY <1>6, <2>1 DEF PageInv, DataInv
<1>7. CASE fetch # Idle /\ (Reads \/ FetchEnds) /\ UNCHANGED <<config, hidden, trigger, own>>
  <2>1. CASE FetchEnds
    BY <1>5, <1>7, <2>1, FetchEndsStep DEF PageInv
  <2>2. CASE Reads
    <3>1. FetchInv' /\ fetch' # Idle
      BY <1>7, <2>2, IndexerReads, IndexerReadStep, ContractReads DEF Reads
    <3>2. DataInv'
      BY <1>6, <1>7, <2>2 DEF Reads
    <3>3. PollInv'
      BY <1>7, <2>2, <3>1 DEF Reads, PageInv, PollInv, Enabled
    <3> QED BY <1>5, <1>7, <3>1, <3>2, <3>3 DEF PageInv
  <2> QED BY <1>7, <2>1, <2>2
<1>8. CASE Tick
  <2>1. PollInv'
    BY <1>2, <1>8 DEF Tick, PageInv, PollInv, Enabled
  <2> QED BY <1>3, <1>5, <1>6, <1>8, <2>1 DEF Tick, PageInv
<1>9. CASE Hide \/ Trigger \/ TriggerFails
  <2>1. FetchInv' /\ DataInv'
    BY <1>1, <1>9, ReadsKept DEF Hide, Trigger, TriggerFails
  <2>2. PollInv'
    BY <1>9 DEF Hide, Trigger, TriggerFails, PageInv, PollInv, Enabled
  <2>3. ChainInv'
    BY <1>1, <1>9 DEF Hide, Trigger, TriggerFails, NoTrigger, PageInv, ChainInv
  <2> QED BY <2>1, <2>2, <2>3 DEF PageInv
<1>10. CASE Show
  <2>1. CASE Enabled /\ fetch = Idle
    <3>1. fetch' = Started /\ timer' = FALSE
      BY <1>10, <2>1 DEF Show, TimerCleared
    <3>2. PollInv'
      BY <1>2, <1>10, <2>1, <3>1 DEF Show, PageInv, PollInv, Enabled
    <3> QED BY <1>3, <1>5, <1>6, <1>10, <3>1, <3>2 DEF Show, PageInv
  <2>2. CASE ~(Enabled /\ fetch = Idle)
    <3>1. UNCHANGED <<timer, fetch>>
      BY <1>10, <2>2 DEF Show
    <3>2. FetchInv' /\ DataInv'
      BY <1>1, <1>10, <3>1, ReadsKept DEF Show
    <3>3. PollInv'
      BY <1>10, <3>1 DEF Show, PageInv, PollInv, Enabled
    <3> QED BY <1>5, <1>10, <3>2, <3>3 DEF Show, PageInv
  <2> QED BY <2>1, <2>2
<1>11. CASE ConfigLoaded
  <2>1. fetch' = Started /\ timer' = FALSE /\ same' = FALSE /\ UNCHANGED <<data, own, trigger>>
    BY <1>11 DEF ConfigLoaded, Restart
  <2>2. config' = [loading |-> FALSE, active |-> active]
    BY <1>11 DEF ConfigLoaded
  <2>3. PollInv'
    BY <1>1, <1>2, <2>1, <2>2, StatusAssumption DEF PollInv, Enabled
  <2>4. OneRound(data) => OneRound(data)'
    BY <1>1, <2>1 DEF OneRound, Cast
  <2>5. DataInv'
    BY <2>1, <2>4 DEF PageInv, DataInv
  <2> QED BY <1>3, <1>5, <2>1, <2>3, <2>5 DEF PageInv
<1>12. CASE ConfigFails
  <2>1. /\ fetch' = Idle /\ timer' = FALSE /\ data' = None /\ UNCHANGED <<own, trigger>>
        /\ config' = [loading |-> FALSE, active |-> None]
    BY <1>12 DEF ConfigFails
  <2>2. PollInv' /\ DataInv'
    BY <2>1 DEF PollInv, DataInv, Enabled
  <2> QED BY <1>4, <1>5, <2>1, <2>2 DEF PageInv
<1>13. CASE TriggerConfirmed
  <2>1. /\ own' = own \cup {trigger.round} /\ trigger.round \in settled /\ trigger' = NoTrigger
        /\ config' = [config EXCEPT !.loading = TRUE] /\ UNCHANGED <<data, same>>
    BY <1>13 DEF TriggerConfirmed, PageInv, ChainInv
  <2>2. ChainInv'
    BY <1>1, <2>1 DEF PageInv, ChainInv, NoTrigger
  <2>3. OneRound(data) => OneRound(data)'
    BY <1>1, <2>1 DEF OneRound, Cast
  <2>4. DataInv'
    <3>1. config'.loading
      BY <2>1 DEF PageInv, PollInv
    <3> QED BY <2>1, <2>3, <3>1 DEF PageInv, DataInv
  <2>5. (Enabled' <=> Enabled) /\ config' \in [loading : BOOLEAN, active : BOOLEAN \cup {None}]
    BY <2>1 DEF Enabled, PageInv, PollInv
  <2>6. CASE Enabled
    <3>1. fetch' = Started /\ timer' = FALSE
      BY <1>13, <2>6 DEF TriggerConfirmed, Restart
    <3>2. PollInv'
      BY <1>2, <2>5, <2>6, <3>1 DEF PollInv, Enabled
    <3> QED BY <1>3, <2>2, <2>4, <3>1, <3>2 DEF PageInv
  <2>7. CASE ~Enabled
    <3>1. UNCHANGED <<fetch, timer>> /\ fetch = Idle
      BY <1>13, <2>7 DEF TriggerConfirmed, PageInv, PollInv
    <3>2. PollInv'
      BY <2>5, <2>7, <3>1 DEF PageInv, PollInv
    <3> QED BY <1>4, <2>2, <2>4, <3>1, <3>2 DEF PageInv
  <2> QED BY <2>6, <2>7
<1> QED BY <1>7, <1>8, <1>9, <1>10, <1>11, <1>12, <1>13 DEF Page, Fetching

\* The invariant holds in every state.
LEMMA PageInvariant == Spec => []PageInv
<1>1. PageInv /\ [Next]_vars => PageInv'
  <2> SUFFICES ASSUME PageInv, [Next]_vars PROVE PageInv'
    OBVIOUS
  <2>1. CASE UNCHANGED vars
    <3>1. FetchInv' /\ DataInv'
      BY <2>1, ReadsKept DEF vars, PageInv, ChainInv
    <3>2. ChainInv' /\ PollInv'
      BY <2>1 DEF vars, PageInv, ChainInv, PollInv, Enabled
    <3> QED BY <3>1, <3>2 DEF PageInv
  <2> QED BY <2>1, ChainStep, PageStep, TriggerIncludedStep DEF Next
<1> QED BY <1>1, PageInitInv, PTL DEF Spec

\* Polling neither stops nor doubles.
THEOREM PollingStaysAlive == Spec => []PollingAlive
  BY PageInvariant, PageInvSuffices, PTL

\* What is shown belongs to one round.
THEOREM ShownIsOneRound == Spec => []RoundIsOne
  BY PageInvariant, PageInvSuffices, PTL

\* A settlement is offered only over the Down votes it needs.
THEOREM OffersGrounded == Spec => []OfferIsGrounded
  BY PageInvariant, PageInvSuffices, PTL

\* A settlement this page saw confirmed is never offered by it again.
THEOREM OwnSettlementCloses == Spec => []OwnSettlementClosesOffer
  BY PageInvariant, PageInvSuffices, PTL

----------------------------------------------------------------------------
(* The answers the page is built from.                                      *)

\* What dividing by a positive number leaves.
LEMMA Division ==
    ASSUME NEW n \in Nat, NEW d \in Nat \ {0}
    PROVE  /\ n \div d \in Nat
           /\ d * (n \div d) <= n
           /\ n < d * (n \div d) + d
  BY SMT

\* The round of a ledger is a safe integer, its start a Date no later than the ledger
\* (so that current-round always has a round_started_at to print), and the ledger lies
\* in it (ledgerInfo.ts, currentRoundId; routes.ts, current-round).
THEOREM LedgerLiesInItsRound ==
    ASSUME NEW l \in LedgerInfos
    PROVE  LET r == CurrentRoundId(l)
           IN  /\ r \in SafeInts
               /\ RoundStart(r) \in Dates
               /\ RoundStart(r) <= l.closeTimeMs
               /\ l.closeTimeMs < RoundStart(r) + RoundLength * 1000
<1> DEFINE r == CurrentRoundId(l)
<1>1. PICK t \in 0 .. MaxDate : l.closeTimeMs = 1000 * t
  BY DEF LedgerInfos
<1>2. t \in Nat /\ MaxDate \in Nat /\ MaxSafe \in Nat /\ RoundLength \in Nat /\ RoundLength >= 1
  BY <1>1, AnswersAssumption
<1>3. l.closeTimeMs \in Dates
  BY DEF LedgerInfos
<1>4. l.closeTimeMs \div 1000 = t
  BY <1>1, <1>2
<1>5. /\ r \in Nat
      /\ RoundLength * r <= t
      /\ t < RoundLength * r + RoundLength
  BY <1>2, <1>4, Division DEF CurrentRoundId
<1> DEFINE q == RoundLength * r
<1>6. q \in Nat /\ q <= t /\ t < q + RoundLength /\ r <= q
  <2>1. q \in Nat
    BY <1>2, <1>5
  <2>2. r <= q
    <3>1. PICK k \in Nat : RoundLength = k + 1
      <4>1. RoundLength - 1 \in Nat /\ RoundLength = (RoundLength - 1) + 1
        BY <1>2
      <4> QED BY <4>1
    <3>2. q = k * r + r /\ k * r \in Nat
      BY <1>5, <3>1
    <3> QED BY <1>5, <3>2
  <2> QED BY <1>5, <2>1, <2>2
<1>7. RoundStart(r) = q * 1000
  BY <1>2, <1>5 DEF RoundStart
<1> HIDE DEF q
<1>8. 1000 * t <= MaxDate
  BY <1>1, <1>3 DEF Dates
<1>9. MaxDate <= MaxSafe
  BY AnswersAssumption
<1>10. r <= MaxSafe
  BY <1>2, <1>5, <1>6, <1>8, <1>9
<1>11. RoundStart(r) \in Nat /\ RoundStart(r) <= 1000 * t /\ 1000 * t < RoundStart(r) + RoundLength * 1000
  BY <1>2, <1>6, <1>7
<1> QED BY <1>1, <1>2, <1>5, <1>8, <1>10, <1>11 DEF SafeInts, Dates

\* Every eligible watcher is on exactly one of the two lists of current-round, whatever
\* votes the checks hold (routes.ts, current-round).
THEOREM EveryWatcherOnce ==
    ASSUME NEW l, NEW W, NEW C, NEW w \in Eligible(W)
    PROVE  LET a == CurrentRoundAnswer(l, W, C)
           IN  (w.address \in a.not_yet_checked_in)
                   # (\E c \in a.checked_in : c.watcher = w.address)
  BY DEF CurrentRoundAnswer, NotYetCheckedIn

\* The web app reads current-round just when every eligible watcher that has not voted
\* is an account: a contract may be registered and vote, and until it has voted the page
\* has no list of watchers at all (indexer.ts, getCurrentRound).
THEOREM CurrentRoundReadable ==
    ASSUME NEW l \in LedgerInfos, NEW W \in SUBSET WatcherRows, NEW C \in SUBSET CheckRows
    PROVE  CurrentRoundAccepted(CurrentRoundAnswer(l, W, C))
               <=> \A w \in Eligible(W) :
                       \/ w.address \in Accounts
                       \/ \E c \in C : c.round = CurrentRoundId(l) /\ c.watcher = w.address
<1> DEFINE r == CurrentRoundId(l)
           a == CurrentRoundAnswer(l, W, C)
<1>1. r \in SafeInts /\ RoundStart(r) \in Dates
  BY LedgerLiesInItsRound
<1>2. /\ a.round_id = r /\ a.round_started_at = RoundStart(r)
      /\ a.checked_in = CheckedIn(C, r)
      /\ a.not_yet_checked_in = NotYetCheckedIn(W, C, r)
      /\ DOMAIN [round_id |-> SafeInts, round_started_at |-> Dates] = {"round_id", "round_started_at"}
  BY DEF CurrentRoundAnswer
<1>3. Fits(a, [round_id |-> SafeInts, round_started_at |-> Dates])
  <2> HIDE DEF a, r
  <2> QED BY <1>1, <1>2 DEF Fits
<1>4. ASSUME NEW c \in a.checked_in
      PROVE  Fits(c, [watcher |-> Addresses, status |-> {"up", "down"}, checked_at |-> Dates])
  <2>1. c \in CheckRows
    BY <1>2 DEF CheckedIn
  <2>2. c.watcher \in Addresses /\ c.status \in {"up", "down"} /\ c.checked_at \in Dates
    BY <2>1 DEF CheckRows
  <2>3. DOMAIN [watcher |-> Addresses, status |-> {"up", "down"}, checked_at |-> Dates]
            = {"watcher", "status", "checked_at"}
    OBVIOUS
  <2> QED BY <2>2, <2>3 DEF Fits
<1>5. CurrentRoundAccepted(a) <=> (NotYetCheckedIn(W, C, r) \subseteq Accounts)
  BY <1>2, <1>3, <1>4 DEF CurrentRoundAccepted
<1> QED BY <1>5 DEF NotYetCheckedIn, CheckedIn

\* The dashboard's list is read whole or not at all: just when every id of the provider
\* is a safe integer, and then it has exactly the provider's ids, none of them rounded
\* (routes.ts, Number(r.sla_id); indexer.ts, getProviderSlas).
THEOREM ProviderListExact ==
    ASSUME NEW S \in SUBSET SlaRows, NEW p,
           \A s \in ProviderAnswer(S, p) : ProviderSlaAccepted(s)
    PROVE  {s.sla_id : s \in ProviderAnswer(S, p)} = {s.sla_id : s \in ProviderRows(S, p)}
<1> DEFINE item(s) ==
     [sla_id |-> JsonNumber(s.sla_id), token |-> s.token,
      bond_amount_at_creation |-> s.bond, beneficiary |-> s.beneficiary,
      created_at |-> s.created_at, tx_hash |-> s.tx_hash]
<1>1. ProviderAnswer(S, p) = {item(s) : s \in ProviderRows(S, p)}
  BY DEF ProviderAnswer
<1>2. \A s : item(s).sla_id = JsonNumber(s.sla_id)
  OBVIOUS
<1> HIDE DEF item
<1>3. ASSUME NEW s \in ProviderRows(S, p)
      PROVE  JsonNumber(s.sla_id) = s.sla_id
  <2>1. s.sla_id \in Nat
    BY DEF ProviderRows, SlaRows
  <2>2. ProviderSlaAccepted(item(s))
    BY <1>1
  <2>3. item(s).sla_id \in SafeInts
    BY <2>2 DEF ProviderSlaAccepted, Fits
  <2> QED BY <1>2, <2>1, <2>3, AnswersAssumption DEF JsonNumber, SafeInts
<1> QED BY <1>1, <1>2, <1>3

\* And it is read when they are.
THEOREM ProviderListReadable ==
    ASSUME NEW S \in SUBSET SlaRows, NEW p,
           \A s \in ProviderRows(S, p) : s.sla_id <= MaxSafe
    PROVE  \A s \in ProviderAnswer(S, p) : ProviderSlaAccepted(s)
<1> SUFFICES ASSUME NEW s \in ProviderRows(S, p)
             PROVE  ProviderSlaAccepted([sla_id |-> JsonNumber(s.sla_id), token |-> s.token,
                        bond_amount_at_creation |-> s.bond, beneficiary |-> s.beneficiary,
                        created_at |-> s.created_at, tx_hash |-> s.tx_hash])
  BY DEF ProviderAnswer
<1>1. /\ s.sla_id \in Nat /\ s.token \in Addresses /\ s.bond \in Nat
      /\ s.beneficiary \in Addresses /\ s.created_at \in Dates /\ s.tx_hash \in TxHashes
  BY DEF ProviderRows, SlaRows
<1>2. JsonNumber(s.sla_id) \in SafeInts
  BY <1>1, AnswersAssumption DEF JsonNumber, SafeInts, ProviderRows
<1> QED BY <1>1, <1>2 DEF ProviderSlaAccepted, Fits

\* A page of the settlement history is read just when no threshold of it is missing and
\* every round is a safe integer: one row without a threshold hides the whole page
\* (worker/routes.ts answers it, indexer.ts, getSettlements, refuses it).
THEOREM SettlementsReadable ==
    ASSUME NEW P \in SUBSET SettlementRows, NEW C \in SUBSET CheckRows,
           IsFiniteSet(C), Cardinality(C) <= MaxSafe,
           \A s \in P : s.round <= MaxSafe /\ s.quorum_threshold \in SafeInts \cup {Null}
    PROVE  (\A s \in SettlementsAnswer(P, C) : SettlementAccepted(s))
               <=> (\A s \in P : s.quorum_threshold # Null)
<1> DEFINE item(s) ==
     [round_id |-> JsonNumber(s.round),
      votes_up |-> VoteCount(C, s.round, "up"), votes_down |-> VoteCount(C, s.round, "down"),
      quorum_threshold |-> s.quorum_threshold, penalty_amount |-> s.penalty,
      beneficiary |-> s.beneficiary, ledger_close_time |-> s.ledger_close_time,
      tx_hash |-> s.tx_hash]
<1>1. SettlementsAnswer(P, C) = {item(s) : s \in P}
  BY DEF SettlementsAnswer
<1>2. ASSUME NEW n, NEW v
      PROVE  VoteCount(C, n, v) \in SafeInts
  <2> DEFINE V == {c \in CheckedIn(C, n) : c.status = v}
  <2>1. V \subseteq C
    BY DEF CheckedIn
  <2>2. IsFiniteSet(V) /\ Cardinality(V) <= Cardinality(C)
    BY <2>1, FS_Subset
  <2>3. Cardinality(V) \in Nat /\ Cardinality(C) \in Nat
    BY <2>2, FS_CardinalityType
  <2>4. VoteCount(C, n, v) = Cardinality(V)
    BY DEF VoteCount
  <2> QED BY <2>2, <2>3, <2>4, AnswersAssumption DEF SafeInts
<1>3. ASSUME NEW s \in P
      PROVE  SettlementAccepted(item(s)) <=> s.quorum_threshold # Null
  <2>1. /\ s.round \in Nat /\ s.penalty \in Nat /\ s.beneficiary \in Addresses
        /\ s.ledger_close_time \in Dates /\ s.tx_hash \in TxHashes
    BY DEF SettlementRows
  <2>2. JsonNumber(s.round) \in SafeInts
    BY <2>1, AnswersAssumption DEF JsonNumber, SafeInts
  <2>3. Null \notin SafeInts
    BY AnswersAssumption DEF SafeInts
  <2>4. SettlementAccepted(item(s)) <=> s.quorum_threshold \in SafeInts
    BY <1>2, <2>1, <2>2 DEF SettlementAccepted, Fits
  <2> QED BY <2>3, <2>4
<1> HIDE DEF item
<1> QED BY <1>1, <1>3

=============================================================================
