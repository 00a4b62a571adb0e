---------------------------- MODULE IndexerAnswers ----------------------------
(***************************************************************************)
(* What the indexer answers to its read endpoints (api/routes.ts, and      *)
(* worker/routes.ts word for word) and what the web app accepts of it      *)
(* (lib/indexer.ts), which validates every field and refuses the whole     *)
(* answer for one that does not fit.  The two sides were written apart and *)
(* share no types.  An answer is the set of its items: their order is not  *)
(* modelled.  A time is its milliseconds.                                  *)
(***************************************************************************)
EXTENDS Integers, FiniteSets

CONSTANTS
    Accounts,      \* addresses G...
    ContractIds,   \* addresses C...
    TxHashes,
    MaxSafe,       \* the largest integer that a JSON number holds exactly
    MaxDate,       \* the largest time a Date can stand for
    RoundLength,   \* ROUND_LENGTH_SECONDS
    Null,          \* a column, or a field, without a value
    Refused        \* 400

ASSUME AnswersAssumption ==
    /\ MaxSafe \in Nat
    /\ MaxDate \in Nat /\ MaxDate <= MaxSafe
    /\ RoundLength \in Nat \ {0}
    /\ Accounts \cap ContractIds = {}
    /\ Null \notin Nat

Addresses == Accounts \cup ContractIds
Dates == 0 .. MaxDate

----------------------------------------------------------------------------
(* Rows, as the schema and the classifier leave them.                       *)

WatcherRows == [address : Addresses, registered_at : Dates, removed_at : Dates \cup {Null}]
CheckRows == [round : Nat, watcher : Addresses, status : {"up", "down"}, checked_at : Dates]
SlaRows == [sla_id : Nat, provider : Addresses, token : Addresses, bond : Nat,
            beneficiary : Addresses, created_at : Dates, tx_hash : TxHashes]
SettlementRows == [round : Nat, quorum_threshold : Nat \cup {Null}, penalty : Nat,
                   beneficiary : Addresses, ledger_close_time : Dates, tx_hash : TxHashes]

----------------------------------------------------------------------------
(* The indexer.                                                             *)

\* getLatestLedgerInfo throws on anything else.
LedgerInfos ==
    {l \in [sequence : 1 .. MaxSafe, closeTimeMs : Dates] :
        \E t \in 0 .. MaxDate : l.closeTimeMs = 1000 * t}

\* The formula of the contract's own current round.  The seconds are safe integers, so
\* that the quotient of two doubles has the same floor as the exact one.
CurrentRoundId(l) == (l.closeTimeMs \div 1000) \div RoundLength

RoundStart(r) == r * RoundLength * 1000

\* Number(id) of a u64: beyond the safe integers it is rounded to one beyond them.
JsonNumber(n) == IF n <= MaxSafe THEN n ELSE MaxSafe + 1

HealthAnswer(last_ledger) == [status |-> "ok", last_indexed_ledger |-> last_ledger]

ClockAnswer(l) == [ledger_sequence |-> l.sequence, ledger_close_time |-> l.closeTimeMs,
                   current_round_id |-> CurrentRoundId(l)]

\* The watchers without removed_at.
Eligible(W) == {w \in W : w.removed_at = Null}

WatchersAnswer(W) ==
    {[address |-> w.address, registered_at |-> w.registered_at] : w \in Eligible(W)}

CheckedIn(C, r) == {c \in C : c.round = r}

NotYetCheckedIn(W, C, r) ==
    {w.address : w \in Eligible(W)} \ {c.watcher : c \in CheckedIn(C, r)}

\* C are the checks of the SLA asked for.
CurrentRoundAnswer(l, W, C) ==
    LET r == CurrentRoundId(l)
    IN  [round_id |-> r, round_started_at |-> RoundStart(r),
         checked_in |-> CheckedIn(C, r), not_yet_checked_in |-> NotYetCheckedIn(W, C, r)]

ProviderRows(S, a) == {s \in S : s.provider = a}

ProviderAnswer(S, a) ==
    {[sla_id |-> JsonNumber(s.sla_id), token |-> s.token,
      bond_amount_at_creation |-> s.bond, beneficiary |-> s.beneficiary,
      created_at |-> s.created_at, tx_hash |-> s.tx_hash] : s \in ProviderRows(S, a)}

VoteCount(C, r, s) == Cardinality({c \in CheckedIn(C, r) : c.status = s})

\* The rows P of a page, their thresholds filled in as far as they could be.
SettlementsAnswer(P, C) ==
    {[round_id |-> JsonNumber(s.round),
      votes_up |-> VoteCount(C, s.round, "up"), votes_down |-> VoteCount(C, s.round, "down"),
      quorum_threshold |-> s.quorum_threshold, penalty_amount |-> s.penalty,
      beneficiary |-> s.beneficiary, ledger_close_time |-> s.ledger_close_time,
      tx_hash |-> s.tx_hash] : s \in P}

\* The limit asked for: Null when absent or no number, Refused for a fraction or less
\* than nothing.
PageLimit(q) ==
    IF q = Null \/ q = 0 THEN 20
    ELSE IF q \notin Nat THEN Refused
    ELSE IF q > 100 THEN 100 ELSE q

----------------------------------------------------------------------------
(* The web app.                                                             *)

SafeInts == 0 .. MaxSafe

\* A field is accepted by what it is, an item by all its fields.
Fits(item, shape) == \A f \in DOMAIN shape : item[f] \in shape[f]

HealthAccepted(a) ==
    Fits(a, [status |-> {"ok"}, last_indexed_ledger |-> SafeInts \cup {Null}])

ClockAccepted(a) ==
    Fits(a, [ledger_sequence |-> SafeInts, ledger_close_time |-> Dates,
             current_round_id |-> SafeInts])

WatcherAccepted(w) == Fits(w, [address |-> Addresses, registered_at |-> Dates])

\* A watcher that has checked in may be any address, one that has not only an account.
CurrentRoundAccepted(a) ==
    /\ Fits(a, [round_id |-> SafeInts, round_started_at |-> Dates])
    /\ \A c \in a.checked_in :
          Fits(c, [watcher |-> Addresses, status |-> {"up", "down"}, checked_at |-> Dates])
    /\ a.not_yet_checked_in \subseteq Accounts

SettlementAccepted(s) ==
    Fits(s, [round_id |-> SafeInts, votes_up |-> SafeInts, votes_down |-> SafeInts,
             quorum_threshold |-> SafeInts, penalty_amount |-> Nat,
             beneficiary |-> Addresses, ledger_close_time |-> Dates, tx_hash |-> TxHashes])

ProviderSlaAccepted(s) ==
    Fits(s, [sla_id |-> SafeInts, token |-> Addresses, bond_amount_at_creation |-> Nat,
             beneficiary |-> Addresses, created_at |-> Dates, tx_hash |-> TxHashes])

=============================================================================
