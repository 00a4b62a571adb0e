# SLASettle hub: a TLA+ model of the off-chain system

SLASettle settles service-level agreements on Stellar. A provider creates an
SLA and bonds an amount; watchers vote every minute on whether the endpoint is
up; when enough of them vote "down" in a round, anyone may trigger a settlement
that pays the beneficiary. The two contracts live elsewhere. This repository
holds what surrounds them: an indexer, a watcher daemon, an SDK and a web
application. The hard part is that each of these looks at the same ledger at a
different moment, through a network that fails, and remembers what it saw.

## 1. Inventory

| Component | State | Operations | Hard behaviour | What makes it correct |
|---|---|---|---|---|
| Event decoding and classification (`indexer/src/rpc/decode.ts`, `ingest/classify.ts`) | none | a page of events becomes rows and watcher changes | quarantined, unrecognised and unreadable events in one page | one row per recognised event, or the page is refused whole |
| Indexer database (`db/db.ts`, `db/d1.ts`, `db/schema.sql`) | checkpoint, rows of four event tables, watchers, cached thresholds | `applyBatch`, `setSlaQuorumThreshold` | replays, write-backs between pages | the checkpoint never passes what is stored; a cached threshold stays |
| Node ingestion (`ingest/poller.ts`, `index.ts`) | the cycle's cursor and page | `runOnce`, `runForever` | crash at any await, RPC failures, short pages, shutdown in a cycle | the rows are one contiguous slice, watchers agree with the chain, everything is ingested in the end |
| Worker ingestion (`worker/ingest.ts`, `worker/index.ts`) | one cursor and page per invocation | `runIngestionStep` | invocations overlap and write late | as above, whatever the overlap |
| Indexer API, Node and Worker (`api/routes.ts`, `worker/routes.ts`, `api/*.ts`, `rpc/liveReads.ts`) | what each request holds between awaits | health, watchers, clock, current-round, settlements, lifecycle, provider SLAs | several reads at different moments, live reads that fail | answers agree with one moment, pages join, the vault is asked once |
| Watcher daemon (`watcher/cmd`, `watcher/internal`) | the round it votes in, the transaction in flight | one round: read round, has-voted, commitment, probe, submit, poll | lost responses, resends, crash between send and poll, a round that ends meanwhile | at most one vote per round, only under the committed endpoint hash, for the round that was probed |
| Contracts `watcher_registry`, `sla_vault` (external; `apps/docs/contracts`) | watchers, votes, tallies, SLAs, bonds | `submit_check`, `trigger_settlement`, ... | transactions in any order | documented in the docs site |
| SDK (`packages/sdk/src`) | none | transaction builders, simulated reads, quorum, hashing, range checks | integer ranges, canonical URLs | quorum and hash agree with the contract and the daemon |
| Settlement history (`apps/web/lib/use-settlement-history.ts`, `components/status`) | rows on screen, cursor, spinners | load, load more, reload | several requests open, answered late or out of order | what is shown is a run of the settlements without gaps |
| Transactions and wallet (`lib/use-transaction.ts`, `lib/wallet.ts`, `components/wallet`) | transaction state, connection | connect, disconnect, build, sign, submit, poll | network changes, rejections, lost answers, user retries | the state shown agrees with what the ledger may have done |
| Round status and polling (`lib/use-polling.ts`, `lib/use-round-status.ts`, `components/status/round-panel.tsx`) | last answer, timer, request in flight | tick, visibility change, refresh | stale answers, hidden tabs, round boundaries | settlement is offered only for a round, tally and flag that agree |
| Provider dashboard (`lib/use-provider-slas.ts`, `components/dashboard`) | list, retry counter, reviewed form | load, retry after create, submit, confirm | edits while awaiting, indexing delay | retries stop; what is confirmed is what was reviewed |
| Docs site, CI, evidence, presentation | none of interest | | | not modelled |

How they interact: contract events are the only input of the indexer's database;
the two ingestion paths write it, the API reads it and writes back thresholds it
read from the vault; the web reads the API and, for anything money depends on,
the contracts; the watcher daemon and the web both send transactions that emit
the events the indexer ingests. Watcher daemon and indexer never talk directly.

On the web side everything meets in a page: one wallet session (`WalletProvider`)
serves every panel that can send a transaction; a panel that confirmed one makes the
page read the chain and the indexer again, while reads started before it are still
being answered.

`PROJECT.json` lists the hazards of this code at their lines, with the
properties that cover them and, where none does yet, the reason.

## 2. Modules

```
LedgerEvents          events, what a page of them writes, the chain's verdict (pure)
  |-- EventMirror     abstract: a mirror of one contiguous slice of the log
  `-- IndexerStore    the database and its two transactions, the contracts
        |-- Poller          Node ingestion loop          -> implements EventMirror
        |-- CronIngest      Worker ingestion, overlapping -> implements EventMirror
        `-- SettlementsApi  GET settlements, Node and Worker
              `-- SettlementHistory   the web's hook against that endpoint
VoteRegistry          the chain the daemon meets: rounds, checks, sequences, pool
  `-- WatcherDaemon   daemon processes               -> implements Attestation
Attestation           abstract: what a vote promises
WebWallet             the wallet session of a page and the extension behind it
  `-- WebTransaction  panels, and the runs of build, sign, submit and poll
SlaInput              form values, amounts, endpoint hash, the SDK's assertions (pure)
  `-- Dashboard       the provider's list, the create form, the cards' actions
IndexerAnswers        what the indexer answers and what the web accepts (pure)
  `-- StatusPage      the polled round, the SLA's configuration, the settlement
MCPoller, MCCronIngest, MCSettlementHistory, MCWatcherDaemon, MCWebTransaction,
MCDashboard, MCStatusPage                                      instances for TLC
IndexerStoreProofs -> PollerProofs, CronIngestProofs, SettlementHistoryProofs;
WatcherDaemonProofs, WebTransactionProofs, DashboardProofs, StatusPageProofs
                                                               theorems
```

**LedgerEvents.** A log is a sequence of events; an event has a topic, a subject
and a shape. The shape is all that survives of the payload: `ok`; `bad_payload`,
on which `bytesToHex` or `amountToString` throw; `bad_status`, which
`parseCheckStatus` quarantines. `RowsOf`, `Readable` and `EligibleAfter` say what
a page (a slice of the log) writes, whether `classifyEvents` gets through it, and
what its watcher events make of the watchers table. `EligibleOn` is the
registry's own answer.

**IndexerStore.** `cursor` is `checkpoint.last_cursor`; `rows` holds table and
key of each stored row; `eligible` the watchers with `removed_at` NULL; `filled`
the settlement rows whose threshold is cached; `chain` the contracts' events;
`base` is a history variable. `ApplyBatch` is `applyBatch`, `Backfill` the
write-back of the settlements endpoint, `Emit` a contract.

**Poller.** `pc` is where `runOnce`/`runForever` is: `ready` (loop head),
`locate` (awaiting `getLatestLedger`), `request` (awaiting `getEvents`), `reply`
(page in hand), `asleep`, and `down` for a process that is gone. `Commit` decodes,
classifies and stores in one step, because the code does so without an await.
A page refused by the classifier and a failed request both end in `CycleFailed`.

**CronIngest.** The same step as an invocation per element of `Runs`, from the
read of the checkpoint (`Trigger`) through the RPC (`Reply`) to the D1 batch
(`Apply`), which is written whatever the checkpoint has become. `Abandon` is any
end without a write. `high` and `stale` are history variables: the furthest
position stored, and whether a batch was ever written over a checkpoint other
than the one it was fetched from.

**SettlementsApi.** `call[q]` is what the handler of request `q` holds: the page,
which thresholds are still NULL in its copy, the rows its loop has yet to visit,
how often it asked the vault. `host` picks the Node or the Worker code: Node
writes the threshold back at once and turns a failed read into a 500; the Worker
awaits D1, carries on after a failure and answers 200 with what it has.

**SettlementHistory.** The hook's state next to the requests it awaits.
`Receive`, `ReceiveError` and `TimeOut` are the ends of an `await
getSettlements(...)`; after a time-out the handler goes on and its answer is
`Dropped`. `RowsIn` orders a page as SQL does; `CursorAfter` is `next_cursor`.
`outdated` and `mixed` are history variables: the older pages awaited for a list that
has changed since they were asked for, and whether such a page was appended to what is
on screen.

**VoteRegistry.** External: `Verdict` is `submit_check` with its refusals
(`Refused` stands for an account that is not registered and for a paused contract),
`votes` is what `has_watcher_voted` reads. A transaction in `pool` was sent;
`Include` puts it in a ledger while its time bound lasts and as its account's next
one, also when the contract refuses it; `Drop` is eviction or expiry. Time is in
rounds: 30 seconds of validity end before the end of the round after the one the
transaction was built in.

**WatcherDaemon.** `pc[d]` is the call of `runOneRound` or `SubmitCheck` that
process `d` is in: `round`, `voted`, `commitment`, `probe`, `simulate`, `build`
(load the account, build, sign), `send`, `poll`; then `sleep`, and `exited` for a
process that is gone. `roundID`, `status`, `signedTx` are the locals of those
functions, `attempt` the counter of `retry.Do` around `SendTransaction`, `stopping`
the cancelled context. `confirmed` and `unknown` stand for the log: votes it called
submitted, and ballots it sent and then gave up on. `seenNow`, `seenLast` and `died` are
history variables: the healths an endpoint had in the current round and in the one
before, and the ballots a process died on between sending and the result.

**Attestation.** The promise behind it: a vote is cast at most once per SLA, round
and watcher, while its round is open, under the SLA's commitment, and for a
health the endpoint had since that round began. It has no daemon and no network.

**WebWallet.** `extension` is what Freighter is on, which the visitor may switch at
any time; `status` and `connection` are `WalletProvider`'s state; `startup` and
`connect[k]` its calls under way, one await per step. A connect call is offered again
once a disconnect or an error has changed the status, so two can be open together
(`raced` is a history variable: the connection there is was set while another call
was open).

**WebTransaction.** `flow[f]` is the f-th call of `run`: where it is (`building`,
`checking` the network, `signing`, `sending`, `polling`, `done`), the connection it was
given, the panel it reports to, and how it ended. `shown[p]` is the state a panel
displays, `opened` the confirmation dialogs, `landed[f]` what the network made of the
transaction: nothing, in the pool, success, failure. A flow whose panel was unmounted
goes on and reports to nobody. `Refused` includes `isUserRejection`'s reading of the
message.

**SlaInput.** A number typed into a field is its digits and its decimal places, or
`Unreadable`; `Units` is `parseTokenAmount`, `Formatted` `formatTokenAmount`.
`StaticErrors` and `AmountErrors` are the form's validation, `Reviewed` what the form
puts up for review, `CreateAccepted` what `buildCreateSlaTx` lets pass. `EndpointHash`
is the trimmed text itself, if it is a URL: the commitment is an injective function of
just that.

**Dashboard.** `vault` is the contract's SLAs, `indexed` how many of them the indexer
has; `list` is what `useProviderSlas` shows, `loads` the read that counts and one that
was cancelled and still runs, `awaiting` and `retries` the wait for a created SLA.
`form` is the create form with its review and the values a token read was started for.
`txs[t]` is an action under way: what it does, for which SLA, and in `scope` what is
left of its place on the page (its own action, the card, the page, nothing), since a
confirmation is shown by what is still mounted. `swapped` is a history variable.

**IndexerAnswers.** The rows of the schema, the answer each endpoint makes of them, and
the validators of `lib/indexer.ts`: an item fits when each field does. JSON numbers are
exact up to `MaxSafe`; a larger id becomes `MaxSafe + 1`, that no validator accepts.

**StatusPage.** `fetch` is the `fetchRoundStatus` under way with the answers it has so
far: clock and current-round together (of the latter the ledger first, then the rows),
then tally and settled flag together. Each part is read at a step of its own, and may
fail. `data` is what the hook holds, `same` whether it came from the present fetcher,
`timer` and `hidden` the rest of `usePolling`; `config` is `useSlaConfig`, `trigger` the
page's own settlement, `own` (history) the rounds it saw confirmed. The chain, round,
votes, settled rounds and the SLA's status, and the indexer's copy move at any time.

### What was abstracted, and why that is sound

* An RPC cursor is the position it stands for, an event id its position: ids are
  unique and ordered, and rows of an SLA order by `(ledger_close_time, event_id)`
  exactly as by position.
* `last_ledger` is left out: it is written with the cursor and read only when
  there is no cursor, and `getEvents` always returns one. For the same reason the
  Worker's branch that resumes at `last_ledger + 1` is never taken.
* `withNetworkRetry` makes up to three attempts inside one await; from outside
  the request is answered or it fails. A start ahead of the tip or behind the RPC's
  retention is a failed request.
* A page may be shorter than its limit although more events exist, since the RPC
  scans a bounded range of ledgers per call.
* `Locate` lets `START_LEDGER` be unset (the tip, which may include any number of
  the latest events) or stand for a fixed position.
* A shutdown aborts the loop and exits the process, possibly inside a cycle, so
  it leaves what a crash leaves. The API is served by the same process: while it is
  down nothing writes back thresholds.
* A read or a simulation of the daemon makes three attempts inside one await; from
  outside it is answered or it fails. The attempts of `SendTransaction` are steps,
  because an attempt that fails may have been delivered. A copy that
  arrives after its attempt was given up is like one that arrived before and waits in
  the pool. ERROR is answered only for a transaction the node does not hold (for one it
  holds the RPC answers DUPLICATE), which takes the daemon's one RPC URL to be one
  node.
* The daemon's sleep ends at a boundary of its own clock, which may differ from the
  ledger's: `Wake` may be taken at any time, twice in a round or not at all in one.
* `health` is what a probe meets, an unreachable network included; all processes
  that probe an endpoint meet the same. The commitment of an SLA never changes:
  `apps/docs/contracts/sla-vault.md` documents no entry point that sets it again.
* The contracts are external. `Emittable` follows their documentation: registering
  a registered watcher or removing an absent one emits nothing, an SLA is created
  once and only existing SLAs have events.
* The shapes are those the code provides for. The deployed contracts are not
  expected to emit `bad_payload`; that branch exists in `decode.ts` and a page
  that takes it must not be stored in part.

* A transaction of the dashboard and of the status page is under way, included,
  confirmed or failed; how it gets there is WebTransaction's subject. "Failed" there
  covers every end without a confirmation, included or not. One that was given up on before it
  was included is not included later; on the status page that would be `Settle` by anyone
  else, and there is one settlement of the page's own under way at a time.
* The vault takes a top-up of a cancelled SLA, as its entry point is documented
  (`apps/docs/contracts/sla-vault.md:109-118` checks the caller and the amount only), although
  the dialog says that it will not (`cancel-sla-action.tsx:41`). So a withdrawal can be undone in
  the model, and `ConfirmedIsReflected` speaks of withdrawals where nothing is topped up.
* The dashboard reads a list's SLAs in any order; the limit of four at a time only
  excludes some of them. One cancelled read may still be running, since a second one
  behaves like the first. A page that reads again while both are open waits in the model for
  one of them, in the code it would open a third. Settlements that take from a bond are left out: no property
  compares amounts of a bond.
* Watchers do not register or leave while a status page is polled. A cancelled fetch is
  replaced by the next one, because its result is dropped (`cancelled` in
  `use-polling.ts:63`) and it reads without a trace.
* `fetchRoundStatus` never rejects: each of its parts carries its own failure. So
  `RoundPanel`'s notice "Round refresh failed" and its `stale` branch are not reachable,
  and the model has no error of the polling hook.
* An answer of the indexer is the set of its items; their order is that of the SQL.

## 3. Runs

| Run | Expect | Question |
|---|---|---|
| `poller` (MCPoller) | pass | Does the Node loop keep the database a complete mirror of the events, and does it get through all of them? |
| `cron` (MCCronIngest) | pass | What survives overlapping Worker invocations? |
| `cron_watchers` (MCCronIngest, CronEligible.cfg) | violation | Does the watchers table survive them too? |
| `history` (MCSettlementHistory) | pass | Is what the status page lists a run of the settlements, and does the Node handler keep its promises? |
| `worker_fetch` (WorkerFetch.cfg) | violation | Does the Worker ask the vault at most once per request, as its comment says? |
| `watcher_attestation` (MCWatcherDaemon) | pass | Is every recorded vote unique, timely, under the commitment, and true? |
| `watcher_submission` (SubmitCheck.cfg) | pass | What can sending again, a refusal, a result and a signal lead to? |
| `watcher_poll` (PollForever.cfg) | violation | Does each round of the daemon end, so that it votes once per round? |
| `transactions` (MCWebTransaction) | pass | Does a panel tell the truth about its transaction, whatever the wallet and the network do? |
| `rejected` (RejectedTransaction.cfg) | violation | Is a transaction shown as declined only if the visitor declined it? |
| `dashboard` (MCDashboard) | pass | Is what a provider sees and signs theirs, current and as typed? |
| `status_page` (MCStatusPage) | pass | Does polling go on, and is a settlement offered only with reason? |

**Properties.** `CheckpointNeverAhead` is the promise of `schema.sql`.
`EligibleMatchesChain` ties the watchers table to the chain's verdict on exactly
the events ingested. `ImplementsMirror` is the refinement of `EventMirror`: no gap,
nothing stored that was not emitted, a page whole or not at all; the checkpoint
(Poller) or the furthest position ever stored (CronIngest) is the mirror's end.
`CursorNeverRegresses` holds for the Node loop and is false for the Worker,
whence `high`. `EventuallyIngested` is liveness. `ThresholdsStayCached` is about
late batches and write-backs together. `ShownIsARun` says that rows on screen are
newest first, each once, with none missing between first and last, and that the
cursor matches the last. It is false of a list to which a page was appended that had been
asked for another list (a reload answered in between), and only of that list: while such a
page is awaited the list is a run, and it is one again from the next first page on.
`SpinnerMeansAwaited` rules out a button that spins for ever. `NodeAnswersCached` relates a
Node answer to the database and to the vault reads behind it, of which there is at most one.

`KeepsPromise` is the refinement of `Attestation`: the daemon reads the round first
and probes last, so that whatever happens in between the vote is about the round it
names, or is refused. `SuccessIsCounted` relates the log to the registry.
`DuplicateIsExplained` says when a fee is spent on a ballot already counted: after
the answer to an earlier transaction for that ballot was lost, or the process died while it
had one in flight; never by resending an envelope, by waking twice, or by a restart as such.
`RejectionIsTrue` gives the one way in which the
message "rejected before inclusion" is false: an attempt whose answer was lost had
been delivered. `ResultEndsPoll` and `SignalEndsProcess` are liveness.

`TerminalStateIsTrue` relates the last state of a panel to the ledger: confirmed and
failed with a hash are what the ledger says, and without a hash the network never had
the transaction, unless the submission or a poll threw (`lost`, `threw`).
`TakenIsReferenced` is the converse: what the network took keeps its hash on the panel,
with the same two exceptions, which are `use-transaction.ts:101-108`.
`SentForDeployment` holds although the wallet may switch between the live check and the
signature: what is signed is for the snapshot's network, which was checked too. `SessionConsistent` is about connect calls that overlap each other
and a disconnect: while a connection is shown no call is open whose late answer could
replace it or bring it back. Only a connection set while another call was open is exempt, as
long as it lasts. `EndsOrAsks` is liveness: a run waits for nobody but the visitor.

`ReviewIsTyped` says that what is reviewed, and so signed, is what the fields hold,
though the token was read in between; that every amount reads back as displayed; and that
the SDK will not refuse it. `ListIsOwn`, `CardsNeverRevive` and `ConfirmedIsReflected`
are about reads overtaken by later ones: of another account, from before a cancellation,
from before a confirmation. `CancelHashShown` follows the hash of a cancellation whose
action leaves the page with its success. `RetryEnds` is liveness.

`PollingAlive` rules out both a page that stopped polling and one that polls twice.
`RoundIsOne` is the round boundary between clock, ledger and rows. `OfferIsGrounded`
relates an offer made from a tally, a flag and a configuration read at different moments
to the chain of now; votes are never taken back, so an old tally is still good.
`OwnSettlementClosesOffer` says that the page cannot offer again what it has just done,
although the fetch under way at the confirmation may carry the old flag: the refresh
cancels it and the configuration's reload makes a new fetcher. `PageCatchesUp` is liveness:
a page that is looked at does not go on offering a round that anybody has settled, nor missing
a vote that the indexer has, through failed polls, hiding and restarts. It says nothing of an SLA
cancelled since the page was opened, which the page does not read again.

**Bounds.** `MaxEvents` 4 (5 for the history) bounds the log. With a page limit
of 2 that gives full pages, short pages, an empty page, and two or three pages in
a row; a watcher registered, removed and registered again fits within one page and
across two. One crash reaches every await; two overlapping invocations reach every
order of two reads and two writes. A history of four settlements with pages of two has a
full first page, a second page, and a settlement stored between them; two requests
open at once are the hook's initial or reload request with a load-more or with a
handler the page has given up on. `MaxReloads` 2 (1 and 0 in the violation runs,
which need no more) bounds reloads. `StartPos` is 0 for the Worker, which always has a default
start, and unset for Node, which covers every start at or before the tip.

`MaxRound` 3 lets a round be read, become the round of grace, and be closed, with
a whole round before or after. `MaxSigned` 2 gives two transactions for one ballot,
or one for each of two rounds. `MaxAttempts` is the code's 3 in `watcher_submission`,
where the resends matter, and 2 in the other two runs; one restart allows any other
TARGET_URL, and in `watcher_submission` a crash with a transaction in flight. `Flaky` {e1} lets the committed endpoint change health; `Revocable` {w1}
lets the registry refuse the watcher. The two are in different runs to keep each near a
minute. TLC has one process, as processes with different SLAs or accounts meet only
in an account's sequence number; that two that share an account do no harm to each other is
shown by the proofs alone, which are for any number.

In `transactions` two panels, one of them with a confirmation dialog, share two runs
(`MaxFlows`), so that one panel can run twice and two panels can run at once; two networks,
of which one is the deployment's, give every mismatch between snapshot, extension and
deployment; two connect calls can overlap. One account is enough there, as no property
of that run tells accounts apart. In `dashboard` two accounts, one SLA (`MaxSlas`) that is
there from the start or created, two transactions (`MaxTxs`), one retry (`RetryLimit`, 18 in the
code) and three drafts: an empty one, one that is right with a token of one decimal
place, and one whose penalty exceeds the bond. SLAs of a list are read
independently, so that one shows what overtaken reads do to a card. In `status_page` two
rounds (0 and `MaxRound` 1), one watcher and a threshold of one suffice for a fetch that straddles
a boundary, for a vote the indexer has not seen, and for an Up vote that must not count;
the theorems are for any number of rounds and watchers and any threshold.

**Deadlock** is checked for the ingestion and the daemon's runs. The runs of the web
pages disable it: once the log is full, everything is loaded and the reloads, runs or
transactions are spent, a page rests.

**Fairness.** In `watcher_submission` and `watcher_poll` a process runs and its
calls are answered (`Proceeds`), a cancelled context is obeyed (`Unwinds`), rounds pass,
and what is in the pool is included or dropped. No failure, signal, crash or restart
has to happen. In `poller`, weak fairness of `Wake`, `Begin`, `Commit`,
`Refuse` and `Restart` is a process that runs and whose supervisor restarts it.
Strong fairness of `Locate` and `FullReply` is an RPC that, asked again and
again, answers again and again, and sometimes scans to the end of what a page can hold; the
loop asks for ever since `runForever` has no exit but the abort signal. Nothing
forces a crash, an event or a failure. In `transactions` each call of a run is answered in the end (weak fairness of
`Progress`: one of the outcomes that do not depend on the visitor); a poll that
breaks, a lost answer or a signature is never counted on. `pollTransaction` makes a
bounded number of attempts, so that its end needs no ledger to close. In `dashboard`
the read that counts is answered, one way or the other, and the timer of the retry
fires. In `status_page` each read is answered or fails, and the timer fires (weak fairness of
`Fetching`, `Tick` and the end of the configuration's reads); nobody need look at the page, vote,
settle or ingest, and no read need succeed. `cron` and `history` check safety only. The Worker has no liveness run: the
platform's cron gives no documented guarantee that an invocation completes.

**What the violations show.** `cron_watchers`: a Worker invocation that read an old
checkpoint writes a registration and the old cursor over a newer state; another one,
in flight, moves the checkpoint past the removal; the watcher stays eligible for
good although everything is ingested. `watcher_poll`: a transaction that was
dropped is polled for with the process's own context, which nothing but a signal
ends. `worker_fetch`: after a failed read each NULL row asks again. `rejected`: the
visitor signs, the network answers ERROR, and as the error's text has the word
"rejected" in it the panel says that the visitor declined.
The comments they contradict are quoted in `PROJECT.json`.

## 4. Proofs

All theorems are checked for every value of the constants (any set of watchers,
SLAs and event bodies, any page limit, any number of invocations or crashes, any
bound on the log; any number of daemons, accounts, rounds, attempts and restarts)
from the named assumptions `StoreAssumption`, `PollerAssumption`, `CronAssumption`,
those of `VoteRegistry` and `WatcherDaemon`, `WalletAssumption`, `TransactionAssumption`,
`InputAssumption`, `DashboardAssumption`, `AnswersAssumption` and `StatusAssumption`. They only
type the constants and keep the values that stand for "none" apart from the rest, save that no
two daemons have the same SLA and account (two copies of one daemon would be told apart by
nothing).

* `IndexerStoreProofs` holds the lemmas on slices: the rows of `(a, b]` and
  `(b, c]` together are those of `(a, c]`; a slice does not change when the log
  grows; the watchers after two adjacent slices are those after one; and in a slice
  with a watcher event there is a last one (the minimum of a
  well-founded order). `EndsRegistered` and `EndsRemoved` are stated
  with quantifiers, not by recursion, so that these lemmas need nothing else.
* `PollerProofs`: type correctness, `CheckpointNeverAhead`,
  `EligibleMatchesChain`, `CursorNeverRegresses`, `ImplementsMirror`. The inductive
  invariant adds to the type invariant that `base` and `cursor` are both unset or
  satisfy `base <= cursor <= Len(chain)`, that `rows` are exactly the rows of
  `(base, cursor]`, that a page in hand starts at the checkpoint (or that there
  is none yet) and ends within the chain. The last part is what the properties
  alone lack: without it a page could have been fetched from somewhere else than
  where the database is.
* `CronIngestProofs`: type correctness, `CheckpointNeverAhead`,
  `EligibleUnlessStale`, `ThresholdsStayCached`, `ImplementsMirror`. Here a page in
  hand starts anywhere between `base` and `high`, and `rows` are those of
  `(base, high]`: since each invocation began at a position already stored, its page
  leaves no gap, however late it is written. That is the argument for why overlap
  is harmless for rows, and its failure for `eligible` (where order matters and
  union does not) is the `cron_watchers` finding.
* `WatcherDaemonProofs`: type correctness, `KeepsPromise`, `SuccessIsCounted`. The
  inductive invariant follows the vote: from the probe on, what a process holds,
  then the envelope it signed, then every copy in the pool, is under the commitment
  and, as long as its round is open, of a health seen since that round began.
  The registry alone shows none of this: a vote becomes visible there long
  after the probe, perhaps after the process is gone, so the invariant has to speak of
  the pool. A probe that a signal cut short is the exception (it reports Down),
  harmless because nothing is signed under a cancelled context. `SuccessIsCounted`
  needs besides that the vote of a SUCCESS in a ledger is on record.
  `DuplicateIsExplained` and `RejectionIsTrue` rest on a second invariant, `Tracked`, that
  follows the envelope. Everything in the pool either belongs to a process that still holds it,
  or its answer was lost, to the process or with it (`Explained`); once its ballot is
  counted only the latter is possible. The invariant passes from one step to the next
  because the simulation refuses a ballot that is counted, an included transaction has used its
  sequence number and cannot be pooled again, and no two processes share an SLA and an account.
  Before the first failed attempt nothing of an envelope has arrived.

* `WebTransactionProofs`: type correctness, `SessionConsistent`, `SentForDeployment`,
  `TerminalStateIsTrue`, `TakenIsReferenced`, for any number of panels, runs and
  connect calls. The invariant has a wallet part (`WalletInv`) and one about runs
  (`RunsInv`), which ties the phase of a run to what its panel shows and to what the
  network has: nothing is there before `sending`, a panel whose last run still works
  shows the state of that phase, and a panel that is busy belongs to its last run. The
  last part is what makes "the last transaction" well-defined: a second run cannot
  start under the first.
* `StatusPageProofs`: `PollingAlive`, `RoundIsOne`, `OfferIsGrounded`,
  `OwnSettlementClosesOffer`, for any rounds, watchers and threshold. `PageInv` says of
  the fetch under way what the properties say of the data on screen (its rows are votes
  of its ledger's round, its tally at most the votes cast), and that as long as the
  configuration is being read again after a confirmation nothing is offered; from then
  on data is shown only if it was fetched since, and so with the settled flag of now.
  The same module has what indexer and web agree on, which needs no state. The round of a
  ledger has a start that is a date (`LedgerLiesInItsRound`), each eligible watcher is named
  once (`EveryWatcherOnce`), and exactly when the web can read the answers:
  `CurrentRoundReadable` (a registered contract that has not voted makes the page
  lose its list of watchers), `ProviderListExact`, `ProviderListReadable`, and
  `SettlementsReadable` (one row without a threshold hides the page).
* `SettlementHistoryProofs`, for any log, page limit, requests open at once and reloads, on
  either host: type correctness, `ShownIsARun`, `SpinnerMeansAwaited`, `NodeAnswersCached`. On screen is a list that was put together from answers to several
  requests, each read at another moment, so the invariant follows each page from the query
  on: rows are of positions up to the checkpoint, so what is stored later is newer
  (`StoredUpToCursor`, the reason why older pages need no snapshot); a page is a run of the
  settlements and the last one unless the answer says that there is more (`PageIsARun`); and
  an older page that is awaited continues the list as it is now (`Continues`), unless the list
  has changed since it was asked for (`outdated`). For the Node handler (`NodeHandles`) either
  nothing has been asked and the page's rows are as the query read them, or one answer of the
  vault has put all of them in the table. The lemmas on `RowsIn` say what a page of SQL rows
  is, without induction: a position's index is how many rows are larger.
* `DashboardProofs`, for any accounts, vault, drafts, retries and transactions: type
  correctness, `ListIsOwn`, `ConfirmedIsReflected`, `CancelHashShown`, `CardsNeverRevive`,
  `ReviewIsTyped`. None of these is inductive. What a read that is under way will leave on
  screen was seen at several moments, before and after what the page saw confirmed. So the
  invariant says of the read that counts that it began after everything the page knows
  (`ReadAfter`): a confirmation starts a new read and the one before no longer counts, hence
  nothing that it has got contradicts a confirmed transaction or a card that shows Cancelled.
  `Happened` gives the other half: what was seen Cancelled, and what is included, is so in
  the vault, and stays so. `Carded` keeps a card in the list as long as an action on it is
  mounted. `FormKept` is about the form: the fields do not change under a token read, and
  what is under review is the review of the fields.
  `ReviewIsTyped` is proved from one hypothesis, `PowersOfTen` (10^k is a positive integer for
  each number of decimals), since `^` means nothing to the backends; that an amount reads back
  as displayed follows by the least number of places that loses nothing, from a well-founded
  order and not by induction over digits. `ReviewedIsAccepted` in the same module: what passes
  the form passes the SDK, so no review ends in an assertion, and its penalty is covered by
  the bond, which the SDK does not check.

The invariants were checked by TLC before they were proved. Only model-checked,
not proved: `EventuallyIngested`, `ResultEndsPoll`, `SignalEndsProcess`, `EndsOrAsks`,
`RetryEnds` and `PageCatchesUp`, since liveness under fairness is out of the prover's reach. Every safety
and action property of the passing runs is a theorem.

What the proofs showed of the models: two guards of a `CASE` in `Dashboard` (what is left of a
transaction's place when its card goes) could both hold, so that the arm taken was not
determined by the definition; it is an IF now, in the order of the components. `Unreadable` has to differ from
every number that can be typed, and the initial vault has to hold SLAs: both were meant and
are now assumed by name.

## 5. Plan

Done: ingestion on both hosts, the settlements endpoint and its history, the daemon
against the registry, wallet and transactions, the dashboard with its form, the status page,
and the indexer's answers, with a proof of each safety property. What is left, in order of
weight:

1. What `NodeAnswersCached` is for, across requests: once every threshold of a page is in the
   table no later request for it asks the vault.
2. A composition of `Dashboard` with the runs of `WebTransaction` in place of its
   summary, with small bounds, and the summary shown to be implemented by them.
3. The lifecycle endpoint and the status-code threshold of the probe, should they gain
   state.

## 6. Not modelled

Configuration, CORS and request routing; the lifecycle endpoint, that nothing in the
repository reads; cursor and XDR encoding; the SDK's
TTL builders and the registry reads that only its tests call; presentation, theme, docs, CI, migrations and evidence. The contracts are
modelled only as far as they are documented. RPC retention is a failed request: what
falls out of the window is lost, as the indexer's README says under known limitations,
and no property speaks about it.

Some things were met on the way that are behaviour rather than a broken promise, or
whose promise is a matter of reading. The models have them, and no run is about them:

* `main.go:84-89` says the daemon's round "always matches what the contract will
  accept". A round that was read may be two rounds old when a ledger includes the vote,
  which is then refused with `InvalidRound`; `apps/docs/protocol/watcher-model.md:17`
  says so. `SuccessIsCounted` and `ResultEndsPoll` cover what follows from it.
* A reload of the settlement history replaces the list by its first page: rows loaded
  with "load more" leave the screen.
* When two SLAs are created one after the other, the retry for the second ends as soon as
  the first appears; and a creation confirmed before the list was first read waits for less
  than it should (`awaiting` is the count of what is shown).
* Disconnecting while a transaction is pending unmounts its form, and with it the hash.
  A refresh that cannot read an SLA replaces its card by a failure, and a hash shown
  there is gone (`CancelHashShown` is therefore about cards that stay).
* `handleSettled` reads the configuration again, and while it loads the page shows nothing
  else: the action that just reported "Confirmed" leaves with it.
* Once a reload of the configuration fails, the status page has no data and no polling until it is
  opened again.
* `use-polling.ts:18-19` says that requests never overlap. Within one effect they do
  not; a refresh or a new fetcher starts one while a cancelled one may be in flight,
  whose answer is dropped.
* Two connect calls that overlap can put another account under a dashboard without it
  being unmounted: `Swapped`, and `ListIsOwn` holds across it.
* The Worker answers a page with a NULL threshold with 200, and the web refuses it as a
  whole (`SettlementsReadable`).
