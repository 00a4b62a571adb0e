------------------------------- MODULE Dashboard -------------------------------
(***************************************************************************)
(* The provider dashboard: the create form, the list of the connected      *)
(* wallet's SLAs (lib/use-provider-slas.ts), a card per SLA and the cards' *)
(* actions.  The list comes from the indexer, which lags behind the vault, *)
(* then from one contract read per field; a confirmed action re-reads it   *)
(* while earlier reads may still be running.  The life of a transaction is *)
(* WebTransaction's; here it is under way, included, and confirmed or not. *)
(***************************************************************************)
EXTENDS SlaInput, Sequences, FiniteSets

CONSTANTS
    Accounts,    \* accounts of the wallet
    Drafts,      \* what the create form's fields can hold
    Empty,       \* the draft the form starts with
    TokenPlaces, \* TokenPlaces[c]: what decimals() of token c answers
    None,        \* nobody connected, nothing awaited, nothing read, no review
    RetryLimit,  \* INDEXING_RETRY_LIMIT
    InitialVaults, \* what the vault can hold at first, all of it indexed
    MaxSlas,     \* bound on SLAs
    MaxTxs       \* bound on transactions

Sla == [owner : Accounts, status : {"Active", "Cancelled"}, funded : BOOLEAN]
View == [status : {"Active", "Cancelled"}, funded : BOOLEAN]

ASSUME DashboardAssumption ==
    /\ Empty \in Drafts /\ Drafts \subseteq Values
    /\ TokenPlaces \in [Contracts -> Int]
    /\ RetryLimit \in Nat /\ MaxSlas \in Nat /\ MaxTxs \in Nat
    /\ \A v \in InitialVaults : v \in Seq(Sla) /\ Len(v) <= MaxSlas
    /\ None \notin Accounts /\ None \notin Drafts /\ None \notin Nat
    /\ None \notin BOOLEAN /\ None \notin {"Active", "Cancelled"}

VARIABLES
    vault,     \* the SLAs of sla_vault, in order of creation
    indexed,   \* how many of them the indexer has
    address,   \* the connected account, or None; the page is there only with one
    swapped,   \* the account changed under the page (two connect calls were open)
    list,      \* useProviderSlas' state; of is the account it was read for
    loads,     \* the current read of the list and one that was cancelled, or Idle
    awaiting,  \* awaitingMoreThan
    retries,
    form,      \* the create form
    cancelHash,\* the cards that hold the hash of their cancellation
    txs        \* txs[t]: the t-th transaction, or Unused

vars == <<vault, indexed, address, swapped, list, loads, awaiting, retries, form,
          cancelHash, txs>>

Ids == 1 .. MaxSlas
Txs == 1 .. MaxTxs
Ops == {"create", "topUp", "cancel", "withdraw"}

Loads == {"current", "cancelled"}
Idle == [at |-> "idle"]
Unused == [at |-> "unused"]
NoList == [of |-> None, slas |-> <<>>, failures |-> {}, loading |-> FALSE, error |-> FALSE]
EmptyForm == [values |-> Empty, checking |-> None, review |-> None]

\* How much of the page a transaction was started from is still there: the action
\* itself, its card, the dashboard, or nothing.
Scopes == {"action", "card", "page", "gone"}

DashboardTypeOK ==
    /\ vault \in Seq(Sla) /\ Len(vault) <= MaxSlas /\ indexed \in 0 .. Len(vault)
    /\ address \in Accounts \cup {None} /\ swapped \in BOOLEAN
    /\ list.of \in Accounts \cup {None}
    /\ DOMAIN list.slas \cup list.failures \subseteq 1 .. Len(vault)
    /\ DOMAIN list.slas \cap list.failures = {}
    /\ \A i \in DOMAIN list.slas : list.slas[i] \in View
    /\ list.loading = (loads["current"] # Idle)
    /\ awaiting \in 0 .. MaxSlas \cup {None} /\ retries \in 0 .. RetryLimit
    /\ form.values \in Drafts /\ form.checking \in Drafts \cup {None}
    /\ cancelHash \subseteq DOMAIN list.slas
    /\ \A t \in Txs : txs[t] # Unused =>
          txs[t].at \in {"open", "included", "confirmed", "failed"} /\ txs[t].scope \in Scopes

Init ==
    /\ vault \in InitialVaults
    /\ indexed = Len(vault)
    /\ address = None
    /\ swapped = FALSE
    /\ list = NoList
    /\ loads = [l \in Loads |-> Idle]
    /\ awaiting = None
    /\ retries = 0
    /\ form = EmptyForm
    /\ cancelHash = {}
    /\ txs = [t \in Txs |-> Unused]

----------------------------------------------------------------------------
(* Reading the list.                                                        *)

\* What a transaction still has of its page when list ls is rendered: an action is
\* there for its SLA's status, a card for its SLA's being in the list.
ScopeIn(x, ls) ==
    IF x.op = "create" \/ x.scope \in {"page", "gone"} THEN x.scope
    ELSE IF x.id \notin DOMAIN ls THEN "page"
    ELSE IF x.scope = "action" /\ (x.op = "withdraw") = (ls[x.id].status = "Cancelled")
         THEN "action" ELSE "card"

Rendered(ls) ==
    /\ txs' = [t \in Txs |-> IF txs[t] = Unused THEN Unused
                             ELSE [txs[t] EXCEPT !.scope = ScopeIn(txs[t], ls)]]
    /\ cancelHash' = cancelHash \cap DOMAIN ls

Count(ls) == Cardinality(DOMAIN ls.slas \cup ls.failures)

\* The load effect: the read before it is cancelled, and what is shown stays. Not
\* more than one cancelled read is left running.
LoadStarts(a) ==
    /\ Idle \in {loads["current"], loads["cancelled"]}
    /\ loads' = [current |-> [at |-> "listing", of |-> a, got |-> <<>>],
                 cancelled |-> IF loads["current"] = Idle THEN loads["cancelled"]
                                                          ELSE loads["current"]]
    /\ list' = [list EXCEPT !.loading = TRUE, !.error = FALSE]

Unread == [status |-> None, funded |-> None, failed |-> FALSE]
Finished(g) == g.failed \/ (g.status # None /\ g.funded # None)

\* getProviderSlas answers with the SLAs the indexer has of that account.
Listed(l) ==
    /\ loads[l].at = "listing"
    /\ LET ids == {i \in 1 .. indexed : vault[i].owner = loads[l].of}
       IN  loads' = [loads EXCEPT ![l] = [at |-> "reading", of |-> loads[l].of,
                                              got |-> [i \in ids |-> Unread]]]
    /\ UNCHANGED <<list, awaiting, txs, cancelHash>>

\* The SLAs are read a few at a time; in what order they are answered is left open.
Reading(l, i) ==
    /\ loads[l].at = "reading"
    /\ i \in DOMAIN loads[l].got
    /\ ~Finished(loads[l].got[i])
    /\ UNCHANGED <<list, awaiting, txs, cancelHash>>

ReadConfig(l, i) ==
    /\ Reading(l, i)
    /\ loads[l].got[i].status = None
    /\ loads' = [loads EXCEPT ![l].got[i].status = vault[i].status]

ReadBond(l, i) ==
    /\ Reading(l, i)
    /\ loads[l].got[i].funded = None
    /\ loads' = [loads EXCEPT ![l].got[i].funded = vault[i].funded]

ReadFails(l, i) ==
    /\ Reading(l, i)
    /\ loads' = [loads EXCEPT ![l].got[i] = [Unread EXCEPT !.failed = TRUE]]

\* Mutant: a read that was overtaken still counts.
EveryLoad(l) == TRUE

Applies(l) == l = "current"

\* The retry effect, once nothing is loading: enough came, or it was tried enough.
StillAwaiting(ls) ==
    awaiting' = IF awaiting # None /\ (Count(ls) > awaiting \/ retries >= RetryLimit)
                THEN None ELSE awaiting

Loaded(l) ==
    /\ loads[l].at = "reading"
    /\ \A i \in DOMAIN loads[l].got : Finished(loads[l].got[i])
    /\ loads' = [loads EXCEPT ![l] = Idle]
    /\ LET got == loads[l].got
           read == {i \in DOMAIN got : ~got[i].failed}
           ls == [of |-> loads[l].of, failures |-> DOMAIN got \ read,
                  slas |-> [i \in read |-> [status |-> got[i].status, funded |-> got[i].funded]],
                  loading |-> FALSE, error |-> FALSE]
       IN  IF Applies(l)
           THEN list' = ls /\ Rendered(ls.slas) /\ StillAwaiting(ls)
           ELSE UNCHANGED <<list, txs, cancelHash, awaiting>>

\* Mutant: the error alone.
ErrorOnly == [list EXCEPT !.error = TRUE]

ListFailed == [list EXCEPT !.loading = FALSE, !.error = TRUE]

\* Discovery failed: what is shown stays, with the error.
LoadFails(l) ==
    /\ loads[l].at = "listing"
    /\ loads' = [loads EXCEPT ![l] = Idle]
    /\ UNCHANGED <<txs, cancelHash>>
    /\ IF Applies(l)
       THEN list' = ListFailed /\ StillAwaiting(list)
       ELSE UNCHANGED <<list, awaiting>>

\* Mutant: tries are not counted.
SameRetry == retries

NextRetry == retries + 1

\* The timer, five seconds after the last read ended.
Retry ==
    /\ awaiting # None
    /\ ~list.loading
    /\ retries' = NextRetry
    /\ LoadStarts(address)
    /\ UNCHANGED <<vault, indexed, address, swapped, awaiting, form, cancelHash, txs>>

----------------------------------------------------------------------------
(* The wallet and the page.                                                 *)

\* Connected: the dashboard is mounted, and reads.
Connected(a) ==
    /\ address = None
    /\ address' = a
    /\ LoadStarts(a)
    /\ UNCHANGED <<vault, indexed, swapped, awaiting, retries, form, cancelHash, txs>>

\* Disconnected, or connecting again: all of it leaves the page.
Left ==
    /\ address # None
    /\ address' = None
    /\ swapped' = FALSE
    /\ list' = NoList
    /\ loads' = [l \in Loads |-> Idle]
    /\ awaiting' = None
    /\ retries' = 0
    /\ form' = EmptyForm
    /\ cancelHash' = {}
    /\ txs' = [t \in Txs |-> IF txs[t] = Unused THEN Unused ELSE [txs[t] EXCEPT !.scope = "gone"]]
    /\ UNCHANGED <<vault, indexed>>

\* A second connect call answers with another account: the page stays.
Swapped(a) ==
    /\ address \notin {None, a}
    /\ ~swapped
    /\ swapped' = TRUE
    /\ address' = a
    /\ LoadStarts(a)
    /\ UNCHANGED <<vault, indexed, awaiting, retries, form, cancelHash, txs>>

----------------------------------------------------------------------------
(* The create form.                                                         *)

UnderWay(op, id) ==
    \E t \in Txs : /\ txs[t].at \in {"open", "included"}
                   /\ txs[t].op = op /\ txs[t].id = id /\ txs[t].scope = "action"

\* Mutant: the fields stay open while the token is read.
BusyOnceSigned == UnderWay("create", None)

BusyForm == UnderWay("create", None) \/ form.checking # None

FormStep(f) ==
    /\ address # None
    /\ form' = f
    /\ UNCHANGED <<vault, indexed, address, swapped, list, loads, awaiting, retries,
                   cancelHash, txs>>

\* setField: an edit takes the review away.
SetField(d) == ~BusyForm /\ FormStep([values |-> d, checking |-> form.checking, review |-> None])

EditDetails == ~BusyForm /\ form.review # None /\ FormStep([form EXCEPT !.review = None])

\* handleSubmit: the fields first, then the token's decimals, then the amounts, all
\* of them as they were at the click.
Submit ==
    /\ ~BusyForm /\ form.checking = None
    /\ StaticErrors(form.values) = {}
    /\ FormStep([form EXCEPT !.checking = form.values])

TokenUnread == form.checking # None /\ FormStep([form EXCEPT !.checking = None])

TokenRead ==
    /\ form.checking # None
    /\ LET v == form.checking
           decimals == TokenPlaces[v.token]
       IN  /\ DecimalsRead(decimals)
           /\ FormStep([values |-> form.values, checking |-> None,
                  review |-> IF AmountErrors(v, decimals) = {} THEN Reviewed(v, decimals)
                             ELSE form.review])

----------------------------------------------------------------------------
(* Transactions.                                                            *)

Begin(op, id) ==
    /\ address # None
    /\ ~UnderWay(op, id)
    /\ \E t \in Txs :
          /\ {u \in Txs : txs[u] # Unused} = 1 .. (t - 1)
          /\ txs' = [txs EXCEPT ![t] = [op |-> op, id |-> id, by |-> address,
                                        at |-> "open", scope |-> "action"]]
    /\ UNCHANGED <<vault, indexed, address, swapped, list, loads, awaiting, retries,
                   form, cancelHash>>

\* confirmCreate
Create == form.review # None /\ ~BusyForm /\ Begin("create", None)

Shows(id, s) == id \in DOMAIN list.slas /\ list.slas[id].status = s

TopUp(id) == Shows(id, "Active") /\ Begin("topUp", id)
Cancel(id) == Shows(id, "Active") /\ Begin("cancel", id)
Withdraw(id) == Shows(id, "Cancelled") /\ list.slas[id].funded /\ Begin("withdraw", id)

\* What the contract accepts, and does.
Allows(x) ==
    CASE x.op = "create" -> Len(vault) < MaxSlas
      [] x.op = "topUp" -> vault[x.id].owner = x.by
      [] x.op = "cancel" -> vault[x.id].owner = x.by /\ vault[x.id].status = "Active"
      [] x.op = "withdraw" -> /\ vault[x.id].owner = x.by /\ vault[x.id].funded
                              /\ vault[x.id].status = "Cancelled"

Effect(x) ==
    CASE x.op = "create" ->
             Append(vault, [owner |-> x.by, status |-> "Active", funded |-> TRUE])
      [] x.op = "topUp" -> [vault EXCEPT ![x.id].funded = TRUE]
      [] x.op = "cancel" -> [vault EXCEPT ![x.id].status = "Cancelled"]
      [] x.op = "withdraw" -> [vault EXCEPT ![x.id].funded = FALSE]

Include(t) ==
    /\ txs[t].at = "open"
    /\ Allows(txs[t])
    /\ vault' = Effect(txs[t])
    /\ txs' = [txs EXCEPT ![t].at = "included"]
    /\ UNCHANGED <<indexed, address, swapped, list, loads, awaiting, retries, form, cancelHash>>

\* Declined, refused, reverted, or its answer lost, included or not.
Fails(t) ==
    /\ txs[t].at \in {"open", "included"}
    /\ txs' = [txs EXCEPT ![t].at = "failed"]
    /\ UNCHANGED <<vault, indexed, address, swapped, list, loads, awaiting, retries,
                   form, cancelHash>>

\* Mutant: a read that is running will do.
RefreshUnlessLoading == IF list.loading THEN UNCHANGED <<list, loads>> ELSE LoadStarts(address)

Refresh == LoadStarts(address)

\* Mutant: only the action that sent the cancellation can tell.
ActionOnly == {"action"}

\* The card keeps the hash, and is told even if its cancel action is gone.
HoldsHash == {"action", "card"}

\* onSuccess, called even if the action that ran it has left the page.
Confirmed(t) ==
    /\ txs[t].at = "included"
    /\ txs' = [txs EXCEPT ![t].at = "confirmed"]
    /\ UNCHANGED <<vault, indexed, address, swapped>>
    /\ LET x == txs[t] IN
       \/ /\ x.scope = "gone"
          /\ UNCHANGED <<list, loads, awaiting, retries, form, cancelHash>>
       \/ /\ x.scope # "gone" /\ x.op = "create"
          /\ Refresh
          /\ awaiting' = Count(list)
          /\ retries' = 0
          /\ form' = EmptyForm
          /\ UNCHANGED cancelHash
       \/ /\ x.scope # "gone" /\ x.op # "create"
          /\ Refresh
          /\ cancelHash' = IF x.op = "cancel" /\ x.scope \in HoldsHash
                           THEN cancelHash \cup {x.id} ELSE cancelHash
          /\ UNCHANGED <<awaiting, retries, form>>

\* The indexer's next event.
Index ==
    /\ indexed < Len(vault)
    /\ indexed' = indexed + 1
    /\ UNCHANGED <<vault, address, swapped, list, loads, awaiting, retries, form, cancelHash, txs>>

----------------------------------------------------------------------------

Answered(l) ==
    /\ loads[l] # Idle
    /\ Listed(l) \/ Loaded(l) \/ \E i \in Ids : ReadConfig(l, i) \/ ReadBond(l, i)

LoadStep(l) ==
    /\ loads[l] # Idle
    /\ Answered(l) \/ LoadFails(l) \/ \E i \in Ids : ReadFails(l, i)
    /\ UNCHANGED <<vault, indexed, address, swapped, retries, form>>

Next ==
    \/ \E l \in Loads : LoadStep(l)
    \/ Retry \/ Left \/ Index \/ EditDetails \/ Submit \/ TokenRead \/ TokenUnread \/ Create
    \/ \E a \in Accounts : Connected(a) \/ Swapped(a)
    \/ \E d \in Drafts : SetField(d)
    \/ \E i \in Ids : TopUp(i) \/ Cancel(i) \/ Withdraw(i)
    \/ \E t \in {u \in Txs : txs[u] # Unused} : Include(t) \/ Fails(t) \/ Confirmed(t)

(* A request of a list read is answered in the end, and the timer fires.   *)
Fairness ==
    /\ \A l \in Loads : WF_vars(Answered(l) /\ UNCHANGED <<vault, indexed, address, swapped, retries, form>>)
    /\ WF_vars(Retry)

Spec == Init /\ [][Next]_vars /\ Fairness

----------------------------------------------------------------------------
(* Properties.                                                              *)

\* What is shown for review is what the fields hold, it passes every assertion of
\* the SDK, its penalty is covered and its amounts, read as they are displayed, are
\* the amounts signed, also after edits, a second submit or a token read that failed;
\* while the form's creation is under way it stays on screen.
ReviewIsTyped ==
    /\ form.review # None =>
          /\ form.review = Reviewed(form.values, TokenPlaces[form.values.token])
          /\ CreateAccepted(form.review) /\ PenaltyCovered(form.review)
          /\ LET d == TokenPlaces[form.values.token]
             IN  \A a \in {form.review.bondAmount, form.review.penaltyPerBreach} :
                    Units(Formatted(a, d), d) = a
    /\ UnderWay("create", None) => form.review # None

\* A card that shows Cancelled never goes back to Active, however the reads that
\* were running when the cancellation was confirmed are answered.
CardsNeverRevive ==
    [][\A i \in Ids : /\ i \in DOMAIN list.slas /\ i \in DOMAIN list'.slas
                      /\ list.slas[i].status = "Cancelled"
                      => list'.slas[i].status = "Cancelled"]_vars

\* Once nothing is loading and the last read succeeded, the list is the connected
\* wallet's, also when the account changed under the page.
ListIsOwn == address # None /\ ~list.loading /\ ~list.error => list.of = address

\* After a confirmed cancellation or withdrawal the list, once read, shows it,
\* whatever was being read at the time (a withdrawal, if nothing is topped up).
ConfirmedIsReflected ==
    \A t \in Txs :
        /\ txs[t] # Unused /\ txs[t].at = "confirmed" /\ txs[t].scope # "gone"
        /\ ~list.loading /\ ~list.error /\ txs[t].id \in DOMAIN list.slas
        => /\ txs[t].op = "cancel" => list.slas[txs[t].id].status = "Cancelled"
           /\ txs[t].op = "withdraw" /\ (\A u \in Txs : txs[u] # Unused => txs[u].op # "topUp")
                 => ~list.slas[txs[t].id].funded

\* A card holds the hash of its confirmed cancellation for as long as it stays on
\* the page, even if it turned Cancelled before the confirmation arrived.
CancelHashShown ==
    \A t \in Txs :
        /\ txs[t] # Unused /\ txs[t].op = "cancel" /\ txs[t].at = "confirmed"
        /\ txs[t].scope \in {"action", "card"}
        => txs[t].id \in cancelHash

\* Waiting for a created SLA to be indexed always comes to an end.
RetryEnds == (awaiting # None) ~> (awaiting = None)

=============================================================================
