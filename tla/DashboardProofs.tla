---------------------------- MODULE DashboardProofs ----------------------------
(***************************************************************************)
(* The dashboard, for any accounts, drafts, vaults and transactions: the   *)
(* form's validation against the SDK's, and the inductive invariant that    *)
(* carries the list, the cards and the review through every order of reads, *)
(* confirmations and changes of account.                                   *)
(***************************************************************************)
EXTENDS Dashboard, FiniteSetTheorems, SequenceTheorems, WellFoundedInduction, TLAPS

----------------------------------------------------------------------------
(* The inductive invariant.                                                 *)

Got == [status : {"Active", "Cancelled", None}, funded : BOOLEAN \cup {None}, failed : BOOLEAN]
Gots == UNION {[D -> Got] : D \in SUBSET Ids}
Views == UNION {[D -> View] : D \in SUBSET Ids}
Load == [at : {"listing", "reading"}, of : Accounts, got : Gots]
Lists == [of : Accounts \cup {None}, slas : Views, failures : SUBSET Ids,
          loading : BOOLEAN, error : BOOLEAN]
Transaction == [op : Ops, id : Ids \cup {None}, by : Accounts,
                at : {"open", "included", "confirmed", "failed"}, scope : Scopes]

\* What form.review can be: the review of a draft without errors.
Reviewable(v) ==
    /\ v \in Drafts
    /\ StaticErrors(v) = {}
    /\ DecimalsRead(TokenPlaces[v.token])
    /\ AmountErrors(v, TokenPlaces[v.token]) = {}

Typed ==
    /\ vault \in Seq(Sla) /\ Len(vault) <= MaxSlas /\ indexed \in 0 .. Len(vault)
    /\ address \in Accounts \cup {None} /\ swapped \in BOOLEAN
    /\ list \in Lists
    /\ loads \in [Loads -> {Idle} \cup Load]
    /\ awaiting \in 0 .. MaxSlas \cup {None} /\ retries \in 0 .. RetryLimit
    /\ form.values \in Drafts /\ form.checking \in Drafts \cup {None}
    /\ form = [values |-> form.values, checking |-> form.checking, review |-> form.review]
    /\ cancelHash \in SUBSET Ids
    /\ txs \in [Txs -> {Unused} \cup Transaction]

\* Whatever the page names is in the vault; a creation names nothing and is there
\* for as long as its form is.
Known ==
    /\ DOMAIN list.slas \cup list.failures \subseteq 1 .. Len(vault)
    /\ DOMAIN list.slas \cap list.failures = {}
    /\ \A l \in Loads : loads[l] # Idle => DOMAIN loads[l].got \subseteq 1 .. Len(vault)
    /\ \A t \in Txs : txs[t] # Unused =>
          IF txs[t].op = "create" THEN txs[t].id = None /\ txs[t].scope \in {"action", "gone"}
          ELSE txs[t].id \in 1 .. Len(vault)

\* With nobody connected nothing is read, awaited or listened to.
NobodyNothing ==
    address = None =>
        /\ loads["current"] = Idle /\ awaiting = None
        /\ \A t \in Txs : txs[t] # Unused => txs[t].scope = "gone"

\* The current read is of the connected account, and so is what it leaves.
Own ==
    /\ list.loading = (loads["current"] # Idle)
    /\ loads["current"] # Idle => loads["current"].of = address
    /\ ListIsOwn

\* An idle wait has a try left.
TriesLeft == awaiting # None /\ ~list.loading => retries < RetryLimit

\* What was seen Cancelled is, and what was sent and included happened.
NoTopUps == \A t \in Txs : txs[t] # Unused => txs[t].op # "topUp"

Happened ==
    /\ \A i \in DOMAIN list.slas :
          list.slas[i].status = "Cancelled" => vault[i].status = "Cancelled"
    /\ \A t \in Txs : txs[t] # Unused /\ txs[t].at \in {"included", "confirmed"} =>
          /\ txs[t].op = "cancel" => vault[txs[t].id].status = "Cancelled"
          /\ txs[t].op = "withdraw" /\ NoTopUps => vault[txs[t].id].funded = FALSE
    /\ loads["current"] # Idle => \A i \in DOMAIN loads["current"].got :
          loads["current"].got[i].status = "Cancelled" => vault[i].status = "Cancelled"

\* The SLAs that a confirmed transaction of this page cancelled, or withdrew from.
Settled(op) == {txs[t].id : t \in {u \in Txs : /\ txs[u] # Unused
                                               /\ txs[u].op = op /\ txs[u].at = "confirmed"
                                               /\ txs[u].scope # "gone"}}

\* The current read began after all the page knows: it cannot bring any of it back.
ReadAfter ==
    loads["current"] # Idle => \A i \in DOMAIN loads["current"].got :
        /\ \/ i \in DOMAIN list.slas /\ list.slas[i].status = "Cancelled"
           \/ i \in Settled("cancel")
           => loads["current"].got[i].status # "Active"
        /\ i \in Settled("withdraw") /\ NoTopUps => loads["current"].got[i].funded # TRUE

\* With no read under way and none failed, the list shows what was confirmed.
Reflected ==
    ~list.loading /\ ~list.error => \A i \in DOMAIN list.slas :
        /\ i \in Settled("cancel") => list.slas[i].status = "Cancelled"
        /\ i \in Settled("withdraw") /\ NoTopUps => list.slas[i].funded = FALSE

\* A transaction with a card has it in the list, and a confirmed cancellation's holds
\* the hash.
Carded ==
    /\ cancelHash \subseteq DOMAIN list.slas
    /\ \A t \in Txs : /\ txs[t] # Unused /\ txs[t].op # "create"
                      /\ txs[t].scope \in {"action", "card"}
                      => txs[t].id \in DOMAIN list.slas
    /\ CancelHashShown

\* One creation at a time, of what is under review, and the fields stay as they were
\* when the token was asked.
Creating(t) ==
    /\ txs[t] # Unused /\ txs[t].op = "create" /\ txs[t].scope = "action"
    /\ txs[t].at \in {"open", "included"}

FormKept ==
    /\ form.checking # None => form.checking = form.values /\ StaticErrors(form.values) = {}
    /\ form.review # None => /\ Reviewable(form.values)
                             /\ form.review = Reviewed(form.values, TokenPlaces[form.values.token])
    /\ \A t \in Txs : Creating(t) => form.review # None /\ form.checking = None
    /\ \A t, u \in Txs : Creating(t) /\ Creating(u) => t = u

IInv ==
    /\ Typed /\ Known /\ NobodyNothing /\ Own /\ TriesLeft
    /\ Happened /\ ReadAfter /\ Reflected /\ Carded /\ FormKept

----------------------------------------------------------------------------
(* What the operators do.                                                   *)

\* The list never counts more than the vault can hold.
LEMMA CountBounded ==
    ASSUME Typed
    PROVE  Count(list) \in 0 .. MaxSlas
<1>1. DOMAIN list.slas \cup list.failures \subseteq Ids
  <2>1. PICK D \in SUBSET Ids : list.slas \in [D -> View]
    BY DEF Typed, Lists, Views
  <2> QED BY <2>1 DEF Typed, Lists
<1>2. IsFiniteSet(Ids) /\ Cardinality(Ids) = MaxSlas
  BY DashboardAssumption, FS_Interval DEF Ids
<1>3. /\ Cardinality(DOMAIN list.slas \cup list.failures) <= Cardinality(Ids)
      /\ IsFiniteSet(DOMAIN list.slas \cup list.failures)
  BY <1>1, <1>2, FS_Subset
<1>4. Cardinality(DOMAIN list.slas \cup list.failures) \in Nat
  BY <1>3, FS_CardinalityType
<1> QED BY <1>2, <1>3, <1>4, DashboardAssumption DEF Count

\* Nothing read is not idle.
LEMMA EmptyAnswer == <<>> \in Gots /\ DOMAIN <<>> = {} /\ <<>> \in Views
<1>1. {} \in SUBSET Ids
  OBVIOUS
<1>2. <<>> \in [{} -> Got] /\ <<>> \in [{} -> View]
  OBVIOUS
<1> QED BY <1>1, <1>2 DEF Gots, Views

\* A read that starts knows nothing; the list stays, and is loading.
Asks(a) ==
    /\ list' \in Lists /\ list'.slas = list.slas /\ list'.failures = list.failures
    /\ list'.of = list.of /\ list'.loading = TRUE
    /\ loads' \in [Loads -> {Idle} \cup Load]
    /\ loads'["current"] # Idle /\ loads'["current"].of = a
    /\ DOMAIN loads'["current"].got = {}
    /\ loads'["cancelled"] \in {loads["current"], loads["cancelled"]}

LEMMA StartAsks ==
    ASSUME Typed, NEW a \in Accounts, LoadStarts(a)
    PROVE  Asks(a)
<1> DEFINE new == [at |-> "listing", of |-> a, got |-> <<>>]
<1>1. new \in Load /\ new # Idle /\ DOMAIN new.got = {}
  BY EmptyAnswer DEF Load, Idle
<1>2. loads["current"] \in {Idle} \cup Load /\ loads["cancelled"] \in {Idle} \cup Load
  BY DEF Typed, Loads
<1>3. PICK old \in {loads["current"], loads["cancelled"]} :
         loads' = [current |-> new, cancelled |-> old]
  BY DEF LoadStarts
<1>4. loads' \in [Loads -> {Idle} \cup Load]
  BY <1>1, <1>2, <1>3 DEF Loads
<1>5. loads'["current"] = new /\ loads'["cancelled"] = old
  BY <1>3
<1>6. /\ list' \in Lists /\ list'.slas = list.slas /\ list'.failures = list.failures
      /\ list'.of = list.of /\ list'.loading = TRUE
  BY DEF LoadStarts, Typed, Lists
<1> QED BY <1>1, <1>4, <1>5, <1>6 DEF Asks

----------------------------------------------------------------------------
(* Each step keeps the invariant.                                           *)

LEMMA InvInit ==
    ASSUME Init
    PROVE  IInv
<1> USE DEF Init
<1>1. /\ list.slas = <<>> /\ list.failures = {} /\ list.of = None
      /\ list.loading = FALSE /\ list.error = FALSE
  BY DEF NoList
<1>2. DOMAIN list.slas = {}
  BY <1>1, EmptyAnswer
<1>3. \A t \in Txs : txs[t] = Unused
  OBVIOUS
<1>4. loads["current"] = Idle /\ \A l \in Loads : loads[l] = Idle
  BY DEF Loads
<1>5. Typed
  <2>1. list \in Lists
    BY EmptyAnswer DEF NoList, Lists
  <2>2. vault \in Seq(Sla) /\ Len(vault) <= MaxSlas /\ indexed \in 0 .. Len(vault)
    <3>1. vault \in Seq(Sla) /\ Len(vault) <= MaxSlas
      BY DashboardAssumption
    <3>2. Len(vault) \in Nat
      BY <3>1, LenProperties
    <3> QED BY <3>1, <3>2
  <2>3. form.values \in Drafts /\ form.checking \in Drafts \cup {None}
        /\ form = [values |-> form.values, checking |-> form.checking, review |-> form.review]
    BY DashboardAssumption DEF EmptyForm
  <2>4. loads \in [Loads -> {Idle} \cup Load] /\ txs \in [Txs -> {Unused} \cup Transaction]
        /\ cancelHash \in SUBSET Ids
    OBVIOUS
  <2>5. awaiting \in 0 .. MaxSlas \cup {None} /\ retries \in 0 .. RetryLimit
        /\ address \in Accounts \cup {None} /\ swapped \in BOOLEAN
    <3>1. 0 \in 0 .. RetryLimit
      BY DashboardAssumption
    <3> QED BY <3>1
  <2> QED BY <2>1, <2>2, <2>3, <2>4, <2>5 DEF Typed
<1>6. Known /\ NobodyNothing /\ Own /\ TriesLeft
  BY <1>1, <1>2, <1>3, <1>4 DEF Known, NobodyNothing, Own, TriesLeft, ListIsOwn
<1>7. Happened /\ ReadAfter /\ Reflected /\ Carded
  BY <1>1, <1>2, <1>3, <1>4 DEF Happened, ReadAfter, Reflected, Carded, CancelHashShown
<1>8. FormKept
  BY <1>3 DEF FormKept, EmptyForm, Creating
<1> QED BY <1>5, <1>6, <1>7, <1>8 DEF IInv

\* What is left to show of a step in the form.
LEMMA FormChanges ==
    ASSUME IInv, NEW f, FormStep(f), FormKept',
           f = [values |-> f.values, checking |-> f.checking, review |-> f.review],
           f.values \in Drafts, f.checking \in Drafts \cup {None}
    PROVE  IInv'
<1>1. Typed'
  BY DEF IInv, Typed, FormStep
<1>2. Known' /\ NobodyNothing' /\ Own' /\ TriesLeft'
  BY DEF IInv, FormStep, Known, NobodyNothing, Own, TriesLeft, ListIsOwn
<1>3. Happened' /\ ReadAfter' /\ Reflected' /\ Carded'
  <2> USE DEF FormStep, IInv
  <2>1. NoTopUps' = NoTopUps /\ Settled("cancel")' = Settled("cancel")
        /\ Settled("withdraw")' = Settled("withdraw")
    BY DEF NoTopUps, Settled
  <2>2. Happened'
    BY <2>1 DEF Happened
  <2>3. ReadAfter' /\ Reflected'
    BY <2>1 DEF ReadAfter, Reflected
  <2>4. Carded'
    BY DEF Carded, CancelHashShown
  <2> QED BY <2>2, <2>3, <2>4
<1> QED BY <1>1, <1>2, <1>3 DEF IInv

\* A creation under way is what UnderWay says it is.
LEMMA CreatingIsUnderWay ==
    ASSUME IInv
    PROVE  /\ UnderWay("create", None) <=> \E t \in Txs : Creating(t)
           /\ ~BusyForm => form.checking = None /\ \A t \in Txs : ~Creating(t)
<1>1. \A t \in Txs : Creating(t) => /\ txs[t].at \in {"open", "included"}
                                    /\ txs[t].op = "create" /\ txs[t].id = None
                                    /\ txs[t].scope = "action"
  BY DEF IInv, Known, Creating
<1>2. \A t \in Txs : txs[t].at \in {"open", "included"} => txs[t] # Unused
  BY DEF Unused
<1> QED BY <1>1, <1>2 DEF UnderWay, Creating, BusyForm

LEMMA FormStepKeeps ==
    ASSUME IInv, \/ EditDetails \/ Submit \/ TokenRead \/ TokenUnread
                 \/ \E d \in Drafts : SetField(d)
    PROVE  IInv'
<1> DEFINE v == form.values
           c == form.checking
<1>0. /\ v \in Drafts /\ c \in Drafts \cup {None}
      /\ form = [values |-> v, checking |-> c, review |-> form.review]
      /\ FormKept
  BY DEF IInv, Typed
<1>1. CASE EditDetails
  <2> DEFINE f == [form EXCEPT !.review = None]
  <2>1. f = [values |-> v, checking |-> c, review |-> None] /\ FormStep(f)
        /\ c = None /\ \A t \in Txs : ~Creating(t)
    BY <1>0, <1>1, CreatingIsUnderWay DEF EditDetails
  <2>2. FormKept'
    BY <2>1 DEF FormStep, FormKept, Creating
  <2> QED BY <1>0, <2>1, <2>2, FormChanges
<1>2. CASE Submit
  <2> DEFINE f == [form EXCEPT !.checking = v]
  <2>1. f = [values |-> v, checking |-> v, review |-> form.review] /\ FormStep(f)
        /\ StaticErrors(v) = {} /\ \A t \in Txs : ~Creating(t)
    BY <1>0, <1>2, CreatingIsUnderWay DEF Submit
  <2>2. FormKept'
    BY <1>0, <2>1 DEF FormStep, FormKept, Creating, Reviewable
  <2> QED BY <1>0, <2>1, <2>2, FormChanges
<1>3. CASE TokenRead
  <2> DEFINE d == TokenPlaces[c.token]
             r == IF AmountErrors(c, d) = {} THEN Reviewed(c, d) ELSE form.review
             f == [values |-> v, checking |-> None, review |-> r]
  <2>1. FormStep(f) /\ c # None /\ DecimalsRead(d)
    BY <1>3 DEF TokenRead
  <2>2. c = v /\ StaticErrors(v) = {} /\ \A t \in Txs : ~Creating(t)
    BY <1>0, <2>1 DEF FormKept
  <2>3. f.values = v /\ f.checking = None /\ f.review = r
    OBVIOUS
  <2>4. r # None => Reviewable(v) /\ r = Reviewed(v, TokenPlaces[v.token])
    <3>1. CASE AmountErrors(c, d) = {}
      BY <1>0, <2>1, <2>2, <3>1 DEF Reviewable
    <3>2. CASE AmountErrors(c, d) # {}
      BY <1>0, <3>2 DEF FormKept
    <3> QED BY <3>1, <3>2
  <2> HIDE DEF r, d
  <2>5. FormKept'
    BY <2>1, <2>2, <2>3, <2>4 DEF FormStep, FormKept, Creating, Reviewable
  <2> QED BY <1>0, <2>1, <2>3, <2>5, FormChanges
<1>4. CASE TokenUnread
  <2> DEFINE f == [form EXCEPT !.checking = None]
  <2>1. f = [values |-> v, checking |-> None, review |-> form.review] /\ FormStep(f)
    BY <1>0, <1>4 DEF TokenUnread
  <2>2. FormKept'
    BY <1>0, <2>1 DEF FormStep, FormKept, Creating, Reviewable
  <2> QED BY <1>0, <2>1, <2>2, FormChanges
<1>5. CASE \E d \in Drafts : SetField(d)
  <2>0. PICK d \in Drafts : SetField(d)
    BY <1>5
  <2>1. /\ FormStep([values |-> d, checking |-> c, review |-> None])
        /\ c = None /\ \A t \in Txs : ~Creating(t)
    BY <2>0, CreatingIsUnderWay DEF SetField
  <2>2. FormKept'
    BY <2>1 DEF FormStep, FormKept, Creating
  <2> QED BY <1>0, <2>1, <2>2, FormChanges
<1> QED BY <1>1, <1>2, <1>3, <1>4, <1>5

\* What is left to show of a transaction that begins or fails.
LEMMA TxsMove ==
    ASSUME IInv, NEW t \in Txs, NEW x \in Transaction,
           txs' = [txs EXCEPT ![t] = x],
           UNCHANGED <<vault, indexed, address, swapped, list, loads, awaiting, retries,
                       form, cancelHash>>,
           x.at \in {"open", "failed"}, txs[t] # Unused => x.op = txs[t].op,
           address # None \/ x.scope = "gone",
           IF x.op = "create" THEN x.id = None /\ x.scope \in {"action", "gone"}
                              ELSE x.id \in 1 .. Len(vault),
           x.op # "create" /\ x.scope \in {"action", "card"} => x.id \in DOMAIN list.slas,
           FormKept'
    PROVE  IInv'
<1>1. Typed'
  <2>1. txs' \in [Txs -> {Unused} \cup Transaction]
    BY DEF IInv, Typed
  <2> QED BY <2>1 DEF IInv, Typed
<1>2. /\ txs'[t] = x /\ x # Unused
      /\ \A u \in Txs : u # t => txs'[u] = txs[u]
  BY DEF IInv, Typed, Transaction, Unused
<1>3. Known'
  BY <1>2 DEF IInv, Known
<1>4. NobodyNothing' /\ Own' /\ TriesLeft'
  BY <1>2 DEF IInv, NobodyNothing, Own, TriesLeft, ListIsOwn
<1>5. /\ NoTopUps' => NoTopUps
      /\ \A op : Settled(op)' \subseteq Settled(op)
  <2>1. NoTopUps' => NoTopUps
    BY <1>2 DEF NoTopUps
  <2>2. \A op : Settled(op)' \subseteq Settled(op)
    BY <1>2 DEF Settled
  <2> QED BY <2>1, <2>2
<1>6. Happened'
  BY <1>2, <1>5 DEF IInv, Happened
<1>7. ReadAfter' /\ Reflected'
  BY <1>5 DEF IInv, ReadAfter, Reflected
<1>8. Carded'
  BY <1>2 DEF IInv, Carded, CancelHashShown
<1> QED BY <1>1, <1>3, <1>4, <1>6, <1>7, <1>8 DEF IInv

LEMMA BeginKeeps ==
    ASSUME IInv, NEW op \in Ops, NEW id, Begin(op, id),
           IF op = "create" THEN id = None /\ form.review # None /\ ~BusyForm
                            ELSE id \in DOMAIN list.slas
    PROVE  IInv'
<1> DEFINE x == [op |-> op, id |-> id, by |-> address, at |-> "open", scope |-> "action"]
<1>1. PICK t \in Txs : /\ {u \in Txs : txs[u] # Unused} = 1 .. (t - 1)
                       /\ txs' = [txs EXCEPT ![t] = x]
  BY DEF Begin
<1>2. txs[t] = Unused
  BY <1>1, DashboardAssumption DEF Txs
<1>3. op # "create" => id \in 1 .. Len(vault) /\ id \in Ids
  <2>1. DOMAIN list.slas \subseteq 1 .. Len(vault)
    BY DEF IInv, Known
  <2>2. Len(vault) \in Nat /\ Len(vault) <= MaxSlas
    BY DEF IInv, Typed
  <2> QED BY <2>1, <2>2, DashboardAssumption DEF Ids
<1>4. x \in Transaction
  BY <1>3 DEF Begin, IInv, Typed, Transaction, Scopes
<1>5. txs'[t] = x /\ \A u \in Txs : u # t => txs'[u] = txs[u]
  BY <1>1 DEF IInv, Typed
<1>6. FormKept'
  <2>1. form' = form
    BY DEF Begin
  <2>2. \A u \in Txs : u # t => (Creating(u)' <=> Creating(u))
    BY <1>5 DEF Creating
  <2>3. CASE op = "create"
    BY <2>1, <2>2, <2>3, CreatingIsUnderWay DEF IInv, FormKept, Reviewable
  <2>4. CASE op # "create"
    <3>1. ~Creating(t)'
      BY <1>5, <2>4 DEF Creating
    <3> QED BY <2>1, <2>2, <3>1 DEF IInv, FormKept, Reviewable
  <2> QED BY <2>3, <2>4
<1> QED BY <1>1, <1>2, <1>3, <1>4, <1>6, TxsMove DEF Begin

LEMMA SendKeeps ==
    ASSUME IInv, Create \/ \E i \in Ids : TopUp(i) \/ Cancel(i) \/ Withdraw(i)
    PROVE  IInv'
<1>1. CASE Create
  BY <1>1, BeginKeeps DEF Create, Ops
<1>2. CASE \E i \in Ids : TopUp(i) \/ Cancel(i) \/ Withdraw(i)
  <2>1. PICK i \in Ids : TopUp(i) \/ Cancel(i) \/ Withdraw(i)
    BY <1>2
  <2>2. i \in DOMAIN list.slas
    BY <2>1 DEF TopUp, Cancel, Withdraw, Shows
  <2>3. PICK op \in {"topUp", "cancel", "withdraw"} : Begin(op, i)
    BY <2>1 DEF TopUp, Cancel, Withdraw
  <2> QED BY <2>2, <2>3, BeginKeeps DEF Ops
<1> QED BY <1>1, <1>2

\* A transaction with another state, or another scope, is one still.
LEMMA NextState ==
    ASSUME NEW x \in Transaction, NEW s \in {"open", "included", "confirmed", "failed"}
    PROVE  \E y \in Transaction : /\ y = [x EXCEPT !.at = s] /\ y # Unused
                                  /\ y.at = s /\ y.op = x.op /\ y.id = x.id
                                  /\ y.scope = x.scope
<1>1. [x EXCEPT !.at = s] \in Transaction
  BY DEF Transaction
<1> QED BY <1>1 DEF Transaction, Unused

LEMMA NextScope ==
    ASSUME NEW x \in Transaction, NEW s \in Scopes
    PROVE  \E y \in Transaction : /\ y = [x EXCEPT !.scope = s] /\ y # Unused
                                  /\ y.scope = s /\ y.op = x.op /\ y.id = x.id
                                  /\ y.at = x.at
<1>1. [x EXCEPT !.scope = s] \in Transaction
  BY DEF Transaction
<1> QED BY <1>1 DEF Transaction, Unused

LEMMA FailsKeeps ==
    ASSUME IInv, NEW t \in Txs, txs[t] # Unused, Fails(t)
    PROVE  IInv'
<1>1. txs[t] \in Transaction /\ txs \in [Txs -> {Unused} \cup Transaction]
  BY DEF IInv, Typed
<1>2. PICK x \in Transaction :
         /\ x = [txs[t] EXCEPT !.at = "failed"]
         /\ x.at = "failed" /\ x.op = txs[t].op /\ x.id = txs[t].id /\ x.scope = txs[t].scope
  BY <1>1, NextState
<1>3. txs' = [txs EXCEPT ![t] = x]
  BY <1>1, <1>2 DEF Fails
<1>4. IF x.op = "create" THEN x.id = None /\ x.scope \in {"action", "gone"}
                         ELSE x.id \in 1 .. Len(vault)
  BY <1>2 DEF IInv, Known
<1>5. /\ address # None \/ x.scope = "gone"
      /\ x.op # "create" /\ x.scope \in {"action", "card"} => x.id \in DOMAIN list.slas
  BY <1>2 DEF IInv, NobodyNothing, Carded
<1>6. FormKept'
  <2>1. \A u \in Txs : Creating(u)' => Creating(u)
    BY <1>1, <1>2, <1>3 DEF Creating
  <2> QED BY <2>1 DEF IInv, FormKept, Reviewable, Fails
<1> QED BY <1>2, <1>3, <1>4, <1>5, <1>6, TxsMove DEF Fails

\* The vault only grows, a cancellation is for good, and only a top-up funds again.
LEMMA EffectGrows ==
    ASSUME Typed, NEW x \in Transaction, Allows(x), vault' = Effect(x),
           x.op # "create" => x.id \in 1 .. Len(vault)
    PROVE  /\ vault' \in Seq(Sla) /\ Len(vault') <= MaxSlas
           /\ Len(vault') \in Nat /\ Len(vault) <= Len(vault')
           /\ \A i \in 1 .. Len(vault) :
                 /\ vault[i].status = "Cancelled" => vault'[i].status = "Cancelled"
                 /\ vault[i].funded = FALSE /\ x.op # "topUp" => vault'[i].funded = FALSE
           /\ x.op = "cancel" => vault'[x.id].status = "Cancelled"
           /\ x.op = "withdraw" => vault'[x.id].funded = FALSE
<1>1. vault \in Seq(Sla) /\ Len(vault) \in Nat /\ Len(vault) <= MaxSlas
  BY DEF Typed
<1>2. \A i \in 1 .. Len(vault) : vault[i] \in Sla
  BY <1>1, ElementOfSeq
<1>3. x.op \in Ops
  BY DEF Transaction
<1>4. CASE x.op = "create"
  <2> DEFINE new == [owner |-> x.by, status |-> "Active", funded |-> TRUE]
  <2>1. new \in Sla
    BY DEF Transaction, Sla
  <2>2. vault' = Append(vault, new) /\ Len(vault) < MaxSlas
    BY <1>4 DEF Effect, Allows
  <2>3. /\ vault' \in Seq(Sla) /\ Len(vault') = Len(vault) + 1
        /\ \A i \in 1 .. Len(vault) : vault'[i] = vault[i]
    BY <1>1, <2>1, <2>2, AppendProperties
  <2> QED BY <1>1, <1>4, <2>2, <2>3, DashboardAssumption
<1>5. CASE x.op \in {"topUp", "cancel", "withdraw"}
  <2>0. x.id \in 1 .. Len(vault) /\ vault[x.id] \in Sla
    BY <1>2, <1>5
  <2>1. PICK s \in Sla : vault' = [vault EXCEPT ![x.id] = s]
                         /\ (vault[x.id].status = "Cancelled" => s.status = "Cancelled")
                         /\ (vault[x.id].funded = FALSE /\ x.op # "topUp" => s.funded = FALSE)
                         /\ (x.op = "cancel" => s.status = "Cancelled")
                         /\ (x.op = "withdraw" => s.funded = FALSE)
    <3>1. CASE x.op = "topUp"
      <4> DEFINE s == [vault[x.id] EXCEPT !.funded = TRUE]
      <4>1. vault' = [vault EXCEPT ![x.id] = s]
        BY <3>1 DEF Effect
      <4>2. s \in Sla /\ s.status = vault[x.id].status
        BY <2>0 DEF Sla
      <4> QED BY <3>1, <4>1, <4>2
    <3>2. CASE x.op = "cancel"
      <4> DEFINE s == [vault[x.id] EXCEPT !.status = "Cancelled"]
      <4>1. vault' = [vault EXCEPT ![x.id] = s]
        BY <3>2 DEF Effect
      <4>2. s \in Sla /\ s.status = "Cancelled" /\ s.funded = vault[x.id].funded
        BY <2>0 DEF Sla
      <4> QED BY <3>2, <4>1, <4>2
    <3>3. CASE x.op = "withdraw"
      <4> DEFINE s == [vault[x.id] EXCEPT !.funded = FALSE]
      <4>1. vault' = [vault EXCEPT ![x.id] = s]
        BY <3>3 DEF Effect
      <4>2. s \in Sla /\ s.status = vault[x.id].status /\ s.funded = FALSE
        BY <2>0 DEF Sla
      <4> QED BY <3>3, <4>1, <4>2
    <3> QED BY <1>5, <3>1, <3>2, <3>3
  <2>2. /\ vault' \in Seq(Sla) /\ Len(vault') = Len(vault)
        /\ vault'[x.id] = s /\ \A i \in 1 .. Len(vault) : i # x.id => vault'[i] = vault[i]
    BY <1>1, <2>0, <2>1, ExceptSeq
  <2> QED BY <1>1, <1>5, <2>0, <2>1, <2>2
<1> QED BY <1>3, <1>4, <1>5 DEF Ops

LEMMA IncludeKeeps ==
    ASSUME IInv, NEW t \in Txs, txs[t] # Unused, Include(t)
    PROVE  IInv'
<1>1. txs[t] \in Transaction /\ txs \in [Txs -> {Unused} \cup Transaction]
  BY DEF IInv, Typed
<1>2. PICK x \in Transaction :
         /\ x = [txs[t] EXCEPT !.at = "included"]
         /\ x.at = "included" /\ x.op = txs[t].op /\ x.id = txs[t].id /\ x.scope = txs[t].scope
  BY <1>1, NextState
<1>3. txs' = [txs EXCEPT ![t] = x] /\ txs'[t] = x /\ x # Unused
      /\ \A u \in Txs : u # t => txs'[u] = txs[u]
  BY <1>1, <1>2 DEF Include, Unused
<1>4. Len(vault) \in Nat
  BY DEF IInv, Typed
<1>5. x.op # "create" => x.id \in 1 .. Len(vault)
  BY <1>2 DEF IInv, Known
<1>6. /\ vault' \in Seq(Sla) /\ Len(vault') <= MaxSlas
      /\ Len(vault') \in Nat /\ Len(vault) <= Len(vault')
      /\ \A i \in 1 .. Len(vault) :
            /\ vault[i].status = "Cancelled" => vault'[i].status = "Cancelled"
            /\ vault[i].funded = FALSE /\ x.op # "topUp" => vault'[i].funded = FALSE
      /\ x.op = "cancel" => vault'[x.id].status = "Cancelled"
      /\ x.op = "withdraw" => vault'[x.id].funded = FALSE
  BY <1>1, <1>2, <1>5, EffectGrows DEF IInv, Include
<1>7. Typed'
  <2>1. txs' \in [Txs -> {Unused} \cup Transaction]
    BY <1>1, <1>3
  <2>2. indexed' \in 0 .. Len(vault')
    BY <1>4, <1>6 DEF IInv, Typed, Include
  <2> QED BY <1>6, <2>1, <2>2 DEF IInv, Typed, Include
<1>8. 1 .. Len(vault) \subseteq 1 .. Len(vault')
  BY <1>4, <1>6
<1>9. Known'
  <2>1. \A u \in Txs : txs'[u] # Unused =>
          IF txs'[u].op = "create" THEN txs'[u].id = None /\ txs'[u].scope \in {"action", "gone"}
          ELSE txs'[u].id \in 1 .. Len(vault')
    BY <1>2, <1>3, <1>8 DEF IInv, Known
  <2> QED BY <1>8, <2>1 DEF IInv, Known, Include
<1>10. NobodyNothing' /\ Own' /\ TriesLeft'
  BY <1>2, <1>3 DEF Include, IInv, NobodyNothing, Own, TriesLeft, ListIsOwn
<1>11. /\ NoTopUps' => NoTopUps /\ x.op # "topUp"
       /\ \A op : Settled(op)' \subseteq Settled(op)
  <2>1. NoTopUps' => NoTopUps /\ x.op # "topUp"
    BY <1>2, <1>3 DEF NoTopUps
  <2>2. \A op : Settled(op)' \subseteq Settled(op)
    BY <1>2, <1>3 DEF Settled
  <2> QED BY <2>1, <2>2
<1>12. Happened'
  <2>1. \A i \in DOMAIN list'.slas :
          list'.slas[i].status = "Cancelled" => vault'[i].status = "Cancelled"
    BY <1>6 DEF IInv, Happened, Known, Include
  <2>2. ASSUME NEW u \in Txs, txs'[u] # Unused, txs'[u].at \in {"included", "confirmed"}
        PROVE  /\ txs'[u].op = "cancel" => vault'[txs'[u].id].status = "Cancelled"
               /\ txs'[u].op = "withdraw" /\ NoTopUps' => vault'[txs'[u].id].funded = FALSE
    <3>1. CASE u = t
      BY <1>3, <1>6, <3>1
    <3>2. CASE u # t
      <4>1. txs'[u] = txs[u]
        BY <1>3, <3>2
      <4>2. txs[u].op # "create" => txs[u].id \in 1 .. Len(vault)
        BY <2>2, <4>1 DEF IInv, Known
      <4> QED BY <1>6, <1>11, <2>2, <4>1, <4>2 DEF IInv, Happened
    <3> QED BY <3>1, <3>2
  <2>3. loads'["current"] # Idle => \A i \in DOMAIN loads'["current"].got :
          loads'["current"].got[i].status = "Cancelled" => vault'[i].status = "Cancelled"
    BY <1>6 DEF IInv, Happened, Known, Include, Loads
  <2> QED BY <2>1, <2>2, <2>3 DEF Happened
<1>13. ReadAfter' /\ Reflected'
  BY <1>11 DEF IInv, ReadAfter, Reflected, Include
<1>14. Carded'
  BY <1>2, <1>3 DEF IInv, Carded, CancelHashShown, Include
<1>15. FormKept'
  <2>1. \A u \in Txs : Creating(u)' => Creating(u)
    BY <1>1, <1>2, <1>3 DEF Creating, Include
  <2> QED BY <2>1 DEF IInv, FormKept, Reviewable, Include
<1> QED BY <1>7, <1>9, <1>10, <1>12, <1>13, <1>14, <1>15 DEF IInv

LEMMA IndexKeeps ==
    ASSUME IInv, Index
    PROVE  IInv'
<1>1. Typed'
  <2>1. Len(vault) \in Nat /\ indexed \in 0 .. Len(vault) /\ indexed < Len(vault)
    BY DEF IInv, Typed, Index
  <2>2. indexed' \in 0 .. Len(vault)
    BY <2>1 DEF Index
  <2> QED BY <2>2 DEF IInv, Typed, Index
<1>2. Known' /\ NobodyNothing' /\ Own' /\ TriesLeft'
  BY DEF IInv, Index, Known, NobodyNothing, Own, TriesLeft, ListIsOwn
<1>3. NoTopUps' = NoTopUps /\ \A op : Settled(op)' = Settled(op)
  BY DEF Index, NoTopUps, Settled
<1>4. Happened' /\ ReadAfter' /\ Reflected'
  BY <1>3 DEF IInv, Index, Happened, ReadAfter, Reflected
<1>5. Carded' /\ FormKept'
  BY DEF IInv, Index, Carded, CancelHashShown, FormKept, Reviewable, Creating
<1> QED BY <1>1, <1>2, <1>4, <1>5 DEF IInv

LEMMA LeftKeeps ==
    ASSUME IInv, Left
    PROVE  IInv'
<1>1. /\ list'.slas = <<>> /\ list'.failures = {} /\ list'.of = None
      /\ list'.loading = FALSE /\ list'.error = FALSE
      /\ list' \in Lists /\ DOMAIN list'.slas = {}
  BY EmptyAnswer DEF Left, NoList, Lists
<1>2. loads' \in [Loads -> {Idle} \cup Load] /\ \A l \in Loads : loads'[l] = Idle
  BY DEF Left
<1>3. loads'["current"] = Idle
  BY <1>2 DEF Loads
<1>4. ASSUME NEW t \in Txs
      PROVE  /\ txs'[t] \in {Unused} \cup Transaction
             /\ txs'[t] # Unused <=> txs[t] # Unused
             /\ txs'[t] # Unused => /\ txs'[t].scope = "gone"
                                    /\ txs'[t].op = txs[t].op /\ txs'[t].id = txs[t].id
                                    /\ txs'[t].at = txs[t].at
  <2>1. txs'[t] = IF txs[t] = Unused THEN Unused ELSE [txs[t] EXCEPT !.scope = "gone"]
    BY DEF Left
  <2>2. CASE txs[t] = Unused
    BY <2>1, <2>2
  <2>3. CASE txs[t] # Unused
    <3>1. txs[t] \in Transaction /\ "gone" \in Scopes
      BY <2>3 DEF IInv, Typed, Scopes
    <3>2. PICK x \in Transaction :
             /\ x = [txs[t] EXCEPT !.scope = "gone"] /\ x.scope = "gone"
             /\ x.op = txs[t].op /\ x.id = txs[t].id /\ x.at = txs[t].at
      BY <3>1, NextScope
    <3>3. txs'[t] = x /\ x # Unused
      BY <2>1, <2>3, <3>2 DEF Transaction, Unused
    <3> QED BY <2>3, <3>2, <3>3
  <2> QED BY <2>2, <2>3
<1>5. txs' \in [Txs -> {Unused} \cup Transaction]
  <2>1. txs' = [t \in Txs |-> txs'[t]]
    BY DEF Left
  <2> QED BY <1>4, <2>1
<1>6. Typed'
  <2>1. /\ form'.values \in Drafts /\ form'.checking \in Drafts \cup {None}
        /\ form' = [values |-> form'.values, checking |-> form'.checking, review |-> form'.review]
    BY DashboardAssumption DEF Left, EmptyForm
  <2>2. 0 \in 0 .. RetryLimit
    BY DashboardAssumption
  <2> QED BY <1>1, <1>2, <1>5, <2>1, <2>2 DEF IInv, Typed, Left
<1>7. Known'
  BY <1>1, <1>2, <1>4 DEF IInv, Known, Left
<1>8. NobodyNothing' /\ Own' /\ TriesLeft'
  BY <1>1, <1>3, <1>4 DEF Left, NobodyNothing, Own, TriesLeft, ListIsOwn
<1>9. NoTopUps' => NoTopUps
  BY <1>4 DEF NoTopUps
<1>10. Happened'
  BY <1>1, <1>3, <1>4, <1>9 DEF IInv, Happened, Left
<1>11. ReadAfter' /\ Reflected'
  BY <1>1, <1>3 DEF ReadAfter, Reflected
<1>12. Carded'
  BY <1>1, <1>4 DEF Carded, CancelHashShown, Left
<1>13. FormKept'
  BY <1>4 DEF FormKept, Left, EmptyForm, Creating
<1> QED BY <1>6, <1>7, <1>8, <1>10, <1>11, <1>12, <1>13 DEF IInv

\* A read that starts settles all that is about the list and its reads.
LEMMA StartSettles ==
    ASSUME IInv, NEW a \in Accounts, LoadStarts(a), address' = a, vault' = vault
    PROVE  /\ Asks(a) /\ Own' /\ TriesLeft' /\ ReadAfter' /\ Reflected'
           /\ \A l \in Loads : loads'[l] # Idle => DOMAIN loads'[l].got \subseteq 1 .. Len(vault)
<1>1. Asks(a)
  BY StartAsks DEF IInv
<1>2. Own' /\ TriesLeft' /\ ReadAfter' /\ Reflected'
  BY <1>1 DEF Asks, Own, TriesLeft, ListIsOwn, ReadAfter, Reflected
<1>3. ASSUME NEW l \in Loads, loads'[l] # Idle
      PROVE  DOMAIN loads'[l].got \subseteq 1 .. Len(vault)
  <2>1. CASE l = "current"
    BY <1>1, <2>1 DEF Asks
  <2>2. CASE l = "cancelled"
    BY <1>1, <1>3, <2>2 DEF Asks, IInv, Known, Loads
  <2> QED BY <2>1, <2>2 DEF Loads
<1> QED BY <1>1, <1>2, <1>3

LEMMA StartKeeps ==
    ASSUME IInv, NEW a \in Accounts, LoadStarts(a), address' = a,
           UNCHANGED <<vault, indexed, awaiting, form, cancelHash, txs>>,
           swapped' \in BOOLEAN, retries' \in 0 .. RetryLimit
    PROVE  IInv'
<1>1. /\ Asks(a) /\ Own' /\ TriesLeft' /\ ReadAfter' /\ Reflected'
      /\ \A l \in Loads : loads'[l] # Idle => DOMAIN loads'[l].got \subseteq 1 .. Len(vault)
  BY StartSettles
<1>2. Typed'
  BY <1>1 DEF IInv, Typed, Asks
<1>3. Known'
  BY <1>1 DEF IInv, Known, Asks
<1>4. NobodyNothing'
  BY DashboardAssumption DEF NobodyNothing
<1>5. Happened'
  <2>1. NoTopUps' = NoTopUps
    BY DEF NoTopUps
  <2> QED BY <1>1, <2>1 DEF IInv, Happened, Asks
<1>6. Carded'
  BY <1>1 DEF IInv, Carded, CancelHashShown, Asks
<1>7. FormKept'
  BY DEF IInv, FormKept, Creating, Reviewable
<1> QED BY <1>1, <1>2, <1>3, <1>4, <1>5, <1>6, <1>7 DEF IInv

LEMMA AskKeeps ==
    ASSUME IInv, Retry \/ \E a \in Accounts : Connected(a) \/ Swapped(a)
    PROVE  IInv'
<1>0. swapped \in BOOLEAN /\ retries \in 0 .. RetryLimit /\ address \in Accounts \cup {None}
  BY DEF IInv, Typed
<1>1. CASE Retry
  <2>1. address \in Accounts
    BY <1>0, <1>1 DEF Retry, IInv, NobodyNothing
  <2>2. retries < RetryLimit
    BY <1>1 DEF Retry, IInv, TriesLeft
  <2>3. retries' \in 0 .. RetryLimit
    BY <1>0, <1>1, <2>2, DashboardAssumption DEF Retry, NextRetry
  <2> QED BY <1>0, <1>1, <2>1, <2>3, StartKeeps DEF Retry
<1>2. CASE \E a \in Accounts : Connected(a)
  BY <1>0, <1>2, StartKeeps DEF Connected
<1>3. CASE \E a \in Accounts : Swapped(a)
  BY <1>0, <1>3, StartKeeps DEF Swapped
<1> QED BY <1>1, <1>2, <1>3

\* Once confirmed, everything read from now on shows it.
LEMMA ConfirmedKeeps ==
    ASSUME IInv, NEW t \in Txs, txs[t] # Unused, Confirmed(t)
    PROVE  IInv'
<1>1. txs[t] \in Transaction /\ txs \in [Txs -> {Unused} \cup Transaction]
      /\ txs[t].at = "included"
  BY DEF IInv, Typed, Confirmed
<1>2. PICK x \in Transaction :
         /\ x = [txs[t] EXCEPT !.at = "confirmed"] /\ x # Unused
         /\ x.at = "confirmed" /\ x.op = txs[t].op /\ x.id = txs[t].id /\ x.scope = txs[t].scope
  BY <1>1, NextState
<1>3. txs' = [txs EXCEPT ![t] = x] /\ txs'[t] = x /\ \A u \in Txs : u # t => txs'[u] = txs[u]
  BY <1>1, <1>2 DEF Confirmed
<1>4. UNCHANGED <<vault, indexed, address, swapped>>
  BY DEF Confirmed
<1>5. NoTopUps' = NoTopUps
  BY <1>2, <1>3 DEF NoTopUps
<1>6. \A u \in Txs : Creating(u)' => Creating(u) /\ u # t
  BY <1>2, <1>3 DEF Creating
<1>7. \A u \in Txs : txs'[u] # Unused =>
          IF txs'[u].op = "create" THEN txs'[u].id = None /\ txs'[u].scope \in {"action", "gone"}
          ELSE txs'[u].id \in 1 .. Len(vault)
  BY <1>2, <1>3 DEF IInv, Known
<1>8. txs' \in [Txs -> {Unused} \cup Transaction]
  BY <1>1, <1>3
<1>9. \A u \in Txs : txs'[u] # Unused /\ txs'[u].at \in {"included", "confirmed"} =>
          /\ txs'[u].op = "cancel" => vault[txs'[u].id].status = "Cancelled"
          /\ txs'[u].op = "withdraw" /\ NoTopUps => vault[txs'[u].id].funded = FALSE
  BY <1>1, <1>2, <1>3 DEF IInv, Happened
<1>10. \A u \in Txs : txs'[u] # Unused =>
          /\ txs[u] # Unused /\ txs'[u].scope = txs[u].scope
          /\ txs'[u].op = txs[u].op /\ txs'[u].id = txs[u].id
  BY <1>2, <1>3
<1>11. CASE x.scope = "gone"
  <2>0. UNCHANGED <<list, loads, awaiting, retries, form, cancelHash>>
    BY <1>2, <1>11 DEF Confirmed
  <2>1. \A op : Settled(op)' \subseteq Settled(op)
    BY <1>2, <1>3, <1>11 DEF Settled
  <2>2. Typed'
    BY <1>4, <1>8, <2>0 DEF IInv, Typed
  <2>3. Known'
    BY <1>4, <1>7, <2>0 DEF IInv, Known
  <2>4. NobodyNothing' /\ Own' /\ TriesLeft'
    BY <1>4, <1>10, <2>0 DEF IInv, NobodyNothing, Own, TriesLeft, ListIsOwn
  <2>5. Happened'
    BY <1>4, <1>5, <1>9, <2>0 DEF IInv, Happened
  <2>6. ReadAfter' /\ Reflected'
    BY <1>5, <2>0, <2>1 DEF IInv, ReadAfter, Reflected
  <2>7. Carded'
    BY <1>2, <1>3, <1>10, <1>11, <2>0 DEF IInv, Carded, CancelHashShown
  <2>8. FormKept'
    BY <1>6, <2>0 DEF IInv, FormKept, Reviewable
  <2> QED BY <2>2, <2>3, <2>4, <2>5, <2>6, <2>7, <2>8 DEF IInv
<1>12. CASE x.scope # "gone"
  <2>0. address \in Accounts
    BY <1>2, <1>12 DEF IInv, Typed, NobodyNothing
  <2>1. LoadStarts(address)
    BY <1>2, <1>12 DEF Confirmed, Refresh
  <2>2. /\ Asks(address) /\ Own' /\ TriesLeft' /\ ReadAfter' /\ Reflected'
        /\ \A l \in Loads : loads'[l] # Idle => DOMAIN loads'[l].got \subseteq 1 .. Len(vault)
    BY <1>4, <2>0, <2>1, StartSettles
  <2>3. Known'
    BY <1>4, <1>7, <2>2 DEF IInv, Known, Asks
  <2>4. NobodyNothing'
    BY <1>4, <2>0, DashboardAssumption DEF NobodyNothing
  <2>5. Happened'
    BY <1>4, <1>5, <1>9, <2>2 DEF IInv, Happened, Asks
  <2>6. CASE x.op = "create"
    <3>1. awaiting' = Count(list) /\ retries' = 0 /\ form' = EmptyForm /\ cancelHash' = cancelHash
      BY <1>2, <1>12, <2>6 DEF Confirmed
    <3>2. Typed'
      <4>1. awaiting' \in 0 .. MaxSlas /\ retries' \in 0 .. RetryLimit
        BY <3>1, CountBounded, DashboardAssumption DEF IInv
      <4>2. /\ form'.values \in Drafts /\ form'.checking \in Drafts \cup {None}
            /\ form' = [values |-> form'.values, checking |-> form'.checking,
                        review |-> form'.review]
        BY <3>1, DashboardAssumption DEF EmptyForm
      <4> QED BY <1>4, <1>8, <2>2, <3>1, <4>1, <4>2 DEF IInv, Typed, Asks
    <3>3. Carded'
      BY <1>2, <1>3, <1>10, <2>2, <2>6, <3>1 DEF IInv, Carded, CancelHashShown, Asks
    <3>4. FormKept'
      <4>1. Creating(t)
        BY <1>1, <1>2, <1>12, <2>6 DEF IInv, Known, Creating
      <4>2. \A u \in Txs : ~Creating(u)'
        BY <1>6, <4>1 DEF IInv, FormKept
      <4> QED BY <3>1, <4>2 DEF FormKept, EmptyForm
    <3> QED BY <2>2, <2>3, <2>4, <2>5, <3>2, <3>3, <3>4 DEF IInv
  <2>7. CASE x.op # "create"
    <3>1. /\ cancelHash' = IF x.op = "cancel" /\ x.scope \in HoldsHash
                           THEN cancelHash \cup {x.id} ELSE cancelHash
          /\ UNCHANGED <<awaiting, retries, form>>
      BY <1>2, <1>12, <2>7 DEF Confirmed
    <3>2. x.scope \in {"action", "card"} => x.id \in DOMAIN list.slas
      BY <1>2, <2>7 DEF IInv, Carded
    <3>3. cancelHash' \subseteq DOMAIN list.slas /\ cancelHash \subseteq cancelHash'
      BY <3>1, <3>2 DEF HoldsHash, IInv, Carded
    <3>4. Typed'
      <4>1. DOMAIN list.slas \subseteq Ids
        <5>1. PICK D \in SUBSET Ids : list.slas \in [D -> View]
          BY DEF IInv, Typed, Lists, Views
        <5> QED BY <5>1
      <4> QED BY <1>4, <1>8, <2>2, <3>1, <3>3, <4>1 DEF IInv, Typed, Asks
    <3>5. Carded'
      <4>1. CancelHashShown'
        <5> SUFFICES ASSUME NEW u \in Txs, txs'[u] # Unused, txs'[u].op = "cancel",
                            txs'[u].at = "confirmed", txs'[u].scope \in {"action", "card"}
                     PROVE  txs'[u].id \in cancelHash'
          BY DEF CancelHashShown
        <5>1. CASE u = t
          BY <1>3, <3>1, <5>1 DEF HoldsHash
        <5>2. CASE u # t
          BY <1>3, <3>3, <5>2 DEF IInv, Carded, CancelHashShown
        <5> QED BY <5>1, <5>2
      <4> QED BY <1>10, <2>2, <3>3, <4>1 DEF IInv, Carded, Asks
    <3>6. FormKept'
      BY <1>6, <3>1 DEF IInv, FormKept, Reviewable
    <3> QED BY <2>2, <2>3, <2>4, <2>5, <3>4, <3>5, <3>6 DEF IInv
  <2> QED BY <2>6, <2>7
<1> QED BY <1>11, <1>12

\* What is left to show of an answer to a read that goes on.
LEMMA ReadGoesOn ==
    ASSUME IInv, NEW l \in Loads, loads[l] # Idle, NEW r \in Load,
           loads' = [loads EXCEPT ![l] = r],
           UNCHANGED <<vault, indexed, address, swapped, list, awaiting, retries, form,
                       cancelHash, txs>>,
           r.of = loads[l].of, DOMAIN r.got \subseteq 1 .. Len(vault),
           \A i \in DOMAIN r.got :
              /\ r.got[i].status = "Active" =>
                    \/ i \in DOMAIN loads[l].got /\ loads[l].got[i].status = "Active"
                    \/ vault[i].status = "Active"
              /\ r.got[i].funded = TRUE =>
                    \/ i \in DOMAIN loads[l].got /\ loads[l].got[i].funded = TRUE
                    \/ vault[i].funded = TRUE
              /\ r.got[i].status = "Cancelled" =>
                    \/ i \in DOMAIN loads[l].got /\ loads[l].got[i].status = "Cancelled"
                    \/ vault[i].status = "Cancelled"
    PROVE  IInv'
<1>1. loads \in [Loads -> {Idle} \cup Load]
  BY DEF IInv, Typed
<1>2. /\ loads' \in [Loads -> {Idle} \cup Load] /\ loads'[l] = r /\ r # Idle
      /\ \A k \in Loads : k # l => loads'[k] = loads[k]
  BY <1>1 DEF Load, Idle
<1>3. /\ loads'["current"] # Idle <=> loads["current"] # Idle
      /\ loads["current"] # Idle => loads'["current"].of = loads["current"].of
  BY <1>2 DEF Loads
<1>4. Typed'
  BY <1>2 DEF IInv, Typed
<1>5. Known'
  BY <1>2 DEF IInv, Known
<1>6. NobodyNothing' /\ Own' /\ TriesLeft'
  BY <1>3 DEF IInv, NobodyNothing, Own, TriesLeft, ListIsOwn
<1>7. NoTopUps' = NoTopUps /\ \A op : Settled(op)' = Settled(op)
  BY DEF NoTopUps, Settled
<1>8. Reflected' /\ Carded'
  BY <1>7 DEF IInv, Reflected, Carded, CancelHashShown
<1>9. Happened' /\ FormKept'
  <2>1. loads'["current"] # Idle => \A i \in DOMAIN loads'["current"].got :
          loads'["current"].got[i].status = "Cancelled" => vault[i].status = "Cancelled"
    <3>1. CASE l = "current"
      BY <1>2, <3>1 DEF IInv, Happened
    <3>2. CASE l # "current"
      BY <1>2, <3>2 DEF IInv, Happened, Loads
    <3> QED BY <3>1, <3>2
  <2>2. Happened'
    BY <1>7, <2>1 DEF IInv, Happened
  <2>3. FormKept'
    BY DEF IInv, FormKept, Creating, Reviewable
  <2> QED BY <2>2, <2>3
<1>10. ReadAfter'
  <2>1. CASE l = "current"
    <3>1. \A i : i \in Settled("cancel") => vault[i].status = "Cancelled"
      BY DEF IInv, Happened, Settled
    <3>2. \A i : i \in Settled("withdraw") /\ NoTopUps => vault[i].funded = FALSE
      BY DEF IInv, Happened, Settled
    <3>3. \A i \in DOMAIN list.slas :
             list.slas[i].status = "Cancelled" => vault[i].status = "Cancelled"
      BY DEF IInv, Happened
    <3>4. ASSUME NEW i \in DOMAIN r.got,
                 \/ i \in DOMAIN list.slas /\ list.slas[i].status = "Cancelled"
                 \/ i \in Settled("cancel")
          PROVE  r.got[i].status # "Active"
      BY <2>1, <3>1, <3>3, <3>4 DEF IInv, ReadAfter
    <3>5. ASSUME NEW i \in DOMAIN r.got, i \in Settled("withdraw"), NoTopUps
          PROVE  r.got[i].funded # TRUE
      BY <2>1, <3>2, <3>5 DEF IInv, ReadAfter
    <3> QED BY <1>2, <1>7, <2>1, <3>4, <3>5 DEF ReadAfter
  <2>2. CASE l # "current"
    BY <1>2, <1>7, <2>2 DEF IInv, ReadAfter, Loads
  <2> QED BY <2>1, <2>2
<1> QED BY <1>4, <1>5, <1>6, <1>8, <1>9, <1>10 DEF IInv

LEMMA ListedKeeps ==
    ASSUME IInv, NEW l \in Loads, loads[l] # Idle, Listed(l),
           UNCHANGED <<vault, indexed, address, swapped, retries, form>>
    PROVE  IInv'
<1> DEFINE ids == {i \in 1 .. indexed : vault[i].owner = loads[l].of}
           got == [i \in ids |-> Unread]
           r == [at |-> "reading", of |-> loads[l].of, got |-> got]
<1>1. ids \subseteq 1 .. Len(vault) /\ ids \subseteq Ids
  <2>1. /\ indexed \in 0 .. Len(vault) /\ Len(vault) \in Nat /\ Len(vault) <= MaxSlas
    BY DEF IInv, Typed
  <2> QED BY <2>1, DashboardAssumption DEF Ids
<1>2. loads[l] \in Load
  BY DEF IInv, Typed
<1>3. Unread \in Got
  BY DEF Unread, Got
<1>4. got \in [ids -> Got]
  BY <1>3
<1>5. r \in Load
  BY <1>1, <1>2, <1>4 DEF Load, Gots
<1>6. \A i \in DOMAIN r.got : r.got[i].status = None /\ r.got[i].funded = None
  BY DEF Unread
<1>7. loads' = [loads EXCEPT ![l] = r] /\ UNCHANGED <<list, awaiting, txs, cancelHash>>
  BY DEF Listed
<1>8. None # "Active" /\ None # "Cancelled" /\ None # TRUE
  BY DashboardAssumption
<1>9. r.of = loads[l].of /\ DOMAIN r.got \subseteq 1 .. Len(vault)
  BY <1>1
<1> HIDE DEF r
<1> QED BY <1>5, <1>6, <1>7, <1>8, <1>9, ReadGoesOn

\* The answer of one field.
Answers(l, i, g) ==
    loads' = [loads EXCEPT ![l] = [loads[l] EXCEPT !.got = [loads[l].got EXCEPT ![i] = g]]]

LEMMA FieldRead ==
    ASSUME IInv, NEW l \in Loads, loads[l] # Idle, NEW i \in Ids, Reading(l, i),
           NEW g \in Got,
           Answers(l, i, g),
           UNCHANGED <<vault, indexed, address, swapped, retries, form>>,
           g.status = "Active" =>
              loads[l].got[i].status = "Active" \/ vault[i].status = "Active",
           g.funded = TRUE =>
              loads[l].got[i].funded = TRUE \/ vault[i].funded = TRUE,
           g.status = "Cancelled" =>
              loads[l].got[i].status = "Cancelled" \/ vault[i].status = "Cancelled"
    PROVE  IInv'
<1> DEFINE old == loads[l].got
           got == [old EXCEPT ![i] = g]
           r == [loads[l] EXCEPT !.got = got]
<1>1. loads[l] \in Load /\ i \in DOMAIN old
  BY DEF IInv, Typed, Reading
<1>2. PICK D \in SUBSET Ids : old \in [D -> Got]
  BY <1>1 DEF Load, Gots
<1>3. /\ got \in [D -> Got] /\ DOMAIN got = DOMAIN old /\ got[i] = g
      /\ \A j \in DOMAIN old : j # i => got[j] = old[j]
  BY <1>1, <1>2
<1>4. got \in Gots
  BY <1>2, <1>3 DEF Gots
<1>5. r \in Load /\ r.of = loads[l].of /\ r.got = got
  <2> HIDE DEF got
  <2> QED BY <1>1, <1>4 DEF Load
<1>6. DOMAIN old \subseteq 1 .. Len(vault)
  BY DEF IInv, Known
<1>7. UNCHANGED <<list, awaiting, txs, cancelHash>>
  BY DEF Reading
<1>8. \A j \in DOMAIN r.got :
         /\ r.got[j].status = "Active" =>
               (j \in DOMAIN old /\ old[j].status = "Active") \/ vault[j].status = "Active"
         /\ r.got[j].funded = TRUE =>
               (j \in DOMAIN old /\ old[j].funded = TRUE) \/ vault[j].funded = TRUE
         /\ r.got[j].status = "Cancelled" =>
               (j \in DOMAIN old /\ old[j].status = "Cancelled") \/ vault[j].status = "Cancelled"
  <2> HIDE DEF got, r
  <2> QED BY <1>1, <1>3, <1>5
<1>9. DOMAIN r.got \subseteq 1 .. Len(vault)
  BY <1>3, <1>5, <1>6
<1>10. loads' = [loads EXCEPT ![l] = r]
  BY DEF Answers
<1> HIDE DEF r, got
<1> QED BY <1>5, <1>7, <1>8, <1>9, <1>10, ReadGoesOn

LEMMA FieldKeeps ==
    ASSUME IInv, NEW l \in Loads, loads[l] # Idle, NEW i \in Ids,
           ReadConfig(l, i) \/ ReadBond(l, i) \/ ReadFails(l, i),
           UNCHANGED <<vault, indexed, address, swapped, retries, form>>
    PROVE  IInv'
<1> DEFINE old == loads[l].got[i]
<1>1. loads[l] \in Load /\ i \in DOMAIN loads[l].got
  BY DEF IInv, Typed, Reading, ReadConfig, ReadBond, ReadFails
<1>2. PICK D \in SUBSET Ids : loads[l].got \in [D -> Got]
  BY <1>1 DEF Load, Gots
<1>3. old \in Got
  BY <1>1, <1>2
<1>4. vault[i] \in Sla
  <2>1. i \in 1 .. Len(vault)
    BY <1>1 DEF IInv, Known
  <2> QED BY <2>1, ElementOfSeq DEF IInv, Typed
<1>5. CASE ReadConfig(l, i)
  <2> DEFINE g == [old EXCEPT !.status = vault[i].status]
  <2>1. g \in Got /\ g.status = vault[i].status /\ g.funded = old.funded
    BY <1>3, <1>4 DEF Got, Sla
  <2>2. Answers(l, i, g) /\ Reading(l, i)
    BY <1>5 DEF ReadConfig, Answers
  <2> HIDE DEF g
  <2> QED BY <2>1, <2>2, FieldRead
<1>6. CASE ReadBond(l, i)
  <2> DEFINE g == [old EXCEPT !.funded = vault[i].funded]
  <2>1. g \in Got /\ g.funded = vault[i].funded /\ g.status = old.status
    BY <1>3, <1>4 DEF Got, Sla
  <2>2. Answers(l, i, g) /\ Reading(l, i)
    BY <1>6 DEF ReadBond, Answers
  <2> HIDE DEF g
  <2> QED BY <2>1, <2>2, FieldRead
<1>7. CASE ReadFails(l, i)
  <2> DEFINE g == [Unread EXCEPT !.failed = TRUE]
  <2>1. g \in Got /\ g.status = None /\ g.funded = None
    BY DashboardAssumption DEF Got, Unread
  <2>2. Answers(l, i, g) /\ Reading(l, i)
    BY <1>7 DEF ReadFails, Answers
  <2>3. None # "Active" /\ None # "Cancelled" /\ None # TRUE
    BY DashboardAssumption
  <2> HIDE DEF g
  <2> QED BY <2>1, <2>2, <2>3, FieldRead
<1> QED BY <1>5, <1>6, <1>7

\* Rendering a list moves transactions only from an action to its card, and from a
\* card to the page.
Moved(ls) ==
    /\ txs' \in [Txs -> {Unused} \cup Transaction]
    /\ \A t \in Txs :
          /\ txs'[t] # Unused <=> txs[t] # Unused
          /\ txs[t] # Unused =>
                /\ txs'[t].op = txs[t].op /\ txs'[t].id = txs[t].id /\ txs'[t].at = txs[t].at
                /\ txs'[t].scope = "gone" <=> txs[t].scope = "gone"
                /\ txs[t].op = "create" => txs'[t].scope = txs[t].scope
                /\ txs[t].op # "create" /\ txs'[t].scope \in {"action", "card"} =>
                      txs[t].id \in DOMAIN ls /\ txs[t].scope \in {"action", "card"}

LEMMA RenderedMoves ==
    ASSUME IInv, NEW ls, Rendered(ls)
    PROVE  /\ Moved(ls)
           /\ NoTopUps' = NoTopUps /\ \A op : Settled(op)' = Settled(op)
           /\ \A t \in Txs : Creating(t)' <=> Creating(t)
<1>1. ASSUME NEW x \in Transaction
      PROVE  /\ ScopeIn(x, ls) \in Scopes
             /\ ScopeIn(x, ls) = "gone" <=> x.scope = "gone"
             /\ x.op = "create" => ScopeIn(x, ls) = x.scope
             /\ x.op # "create" /\ ScopeIn(x, ls) \in {"action", "card"} =>
                   x.id \in DOMAIN ls /\ x.scope \in {"action", "card"}
  <2>1. x.scope \in {"action", "card", "page", "gone"}
    BY DEF Transaction, Scopes
  <2>2. CASE x.op = "create" \/ x.scope \in {"page", "gone"}
    <3>1. ScopeIn(x, ls) = x.scope
      BY <2>2 DEF ScopeIn
    <3> QED BY <2>1, <2>2, <3>1 DEF Scopes
  <2>3. CASE ~(x.op = "create" \/ x.scope \in {"page", "gone"}) /\ x.id \notin DOMAIN ls
    <3>1. ScopeIn(x, ls) = "page"
      BY <2>3 DEF ScopeIn
    <3> QED BY <2>1, <2>3, <3>1 DEF Scopes
  <2>4. CASE ~(x.op = "create" \/ x.scope \in {"page", "gone"}) /\ x.id \in DOMAIN ls
    <3>1. ScopeIn(x, ls) \in {"action", "card"}
      BY <2>4 DEF ScopeIn
    <3> QED BY <2>1, <2>4, <3>1 DEF Scopes
  <2> QED BY <2>2, <2>3, <2>4
<1>2. ASSUME NEW t \in Txs
      PROVE  /\ txs'[t] \in {Unused} \cup Transaction
             /\ txs'[t] # Unused <=> txs[t] # Unused
             /\ txs[t] # Unused =>
                   /\ txs'[t].op = txs[t].op /\ txs'[t].id = txs[t].id
                   /\ txs'[t].at = txs[t].at /\ txs'[t].scope = ScopeIn(txs[t], ls)
                   /\ txs[t] \in Transaction
  <2>1. txs'[t] = IF txs[t] = Unused THEN Unused
                  ELSE [txs[t] EXCEPT !.scope = ScopeIn(txs[t], ls)]
    BY DEF Rendered
  <2>2. CASE txs[t] = Unused
    BY <2>1, <2>2
  <2>3. CASE txs[t] # Unused
    <3>1. txs[t] \in Transaction
      BY <2>3 DEF IInv, Typed
    <3>2. PICK s \in Scopes : s = ScopeIn(txs[t], ls)
      BY <1>1, <3>1
    <3>3. PICK y \in Transaction :
             /\ y = [txs[t] EXCEPT !.scope = s] /\ y # Unused
             /\ y.scope = s /\ y.op = txs[t].op /\ y.id = txs[t].id /\ y.at = txs[t].at
      BY <3>1, NextScope
    <3>4. txs'[t] = y
      BY <2>1, <2>3, <3>2, <3>3
    <3> QED BY <2>3, <3>1, <3>2, <3>3, <3>4
  <2> QED BY <2>2, <2>3
<1>3. txs' \in [Txs -> {Unused} \cup Transaction]
  <2>1. txs' = [t \in Txs |-> txs'[t]]
    BY DEF Rendered
  <2> QED BY <1>2, <2>1
<1>4. Moved(ls)
  BY <1>1, <1>2, <1>3 DEF Moved
<1>5. NoTopUps' = NoTopUps
  BY <1>4 DEF Moved, NoTopUps
<1>6. \A t \in Txs : Creating(t)' <=> Creating(t)
  BY <1>4 DEF Moved, Creating
<1>7. ASSUME NEW op
      PROVE  Settled(op)' = Settled(op)
  BY <1>4 DEF Moved, Settled
<1> QED BY <1>4, <1>5, <1>6, <1>7

\* What a wait that goes on says.
LEMMA WaitGoesOn ==
    ASSUME Typed, NEW ls, StillAwaiting(ls), retries' = retries
    PROVE  /\ awaiting' \in 0 .. MaxSlas \cup {None}
           /\ awaiting' # None => retries' < RetryLimit
           /\ awaiting = None => awaiting' = None
<1>1. retries \in Nat /\ RetryLimit \in Nat /\ awaiting \in 0 .. MaxSlas \cup {None}
  BY DashboardAssumption DEF Typed
<1>2. CASE awaiting # None /\ (Count(ls) > awaiting \/ retries >= RetryLimit)
  BY <1>2 DEF StillAwaiting
<1>3. CASE ~(awaiting # None /\ (Count(ls) > awaiting \/ retries >= RetryLimit))
  <2>1. awaiting' = awaiting
    BY <1>3 DEF StillAwaiting
  <2>2. awaiting # None => ~(retries >= RetryLimit)
    BY <1>3
  <2> QED BY <1>1, <2>1, <2>2
<1> QED BY <1>2, <1>3

\* The cancelled read is let go.
LEMMA CancelledEnds ==
    ASSUME IInv, loads' = [loads EXCEPT !["cancelled"] = Idle],
           UNCHANGED <<vault, indexed, address, swapped, list, awaiting, retries, form,
                       cancelHash, txs>>
    PROVE  IInv'
<1>1. /\ loads' \in [Loads -> {Idle} \cup Load] /\ loads'["current"] = loads["current"]
      /\ \A l \in Loads : loads'[l] \in {Idle, loads[l]}
  BY DEF IInv, Typed, Loads
<1>2. Typed'
  BY <1>1 DEF IInv, Typed
<1>3. Known'
  BY <1>1 DEF IInv, Known
<1>4. NobodyNothing' /\ Own' /\ TriesLeft'
  BY <1>1 DEF IInv, NobodyNothing, Own, TriesLeft, ListIsOwn
<1>5. NoTopUps' = NoTopUps /\ \A op : Settled(op)' = Settled(op)
  BY DEF NoTopUps, Settled
<1>6. Happened' /\ ReadAfter' /\ Reflected'
  BY <1>1, <1>5 DEF IInv, Happened, ReadAfter, Reflected
<1>7. Carded' /\ FormKept'
  BY DEF IInv, Carded, CancelHashShown, FormKept, Reviewable, Creating
<1> QED BY <1>2, <1>3, <1>4, <1>6, <1>7 DEF IInv

LEMMA LoadFailsKeeps ==
    ASSUME IInv, NEW l \in Loads, LoadFails(l),
           UNCHANGED <<vault, indexed, address, swapped, retries, form>>
    PROVE  IInv'
<1>1. CASE l = "cancelled"
  BY <1>1, CancelledEnds DEF LoadFails, Applies
<1>2. CASE l = "current"
  <2>1. /\ loads' = [loads EXCEPT !["current"] = Idle] /\ list' = ListFailed
        /\ StillAwaiting(list) /\ UNCHANGED <<txs, cancelHash>>
    BY <1>2 DEF LoadFails, Applies
  <2>2. /\ loads' \in [Loads -> {Idle} \cup Load] /\ loads'["current"] = Idle
        /\ \A k \in Loads : loads'[k] \in {Idle, loads[k]}
    BY <2>1 DEF IInv, Typed, Loads
  <2>3. /\ list' \in Lists /\ list'.slas = list.slas /\ list'.failures = list.failures
        /\ list'.of = list.of /\ list'.loading = FALSE /\ list'.error = TRUE
    BY <2>1 DEF ListFailed, IInv, Typed, Lists
  <2>4. /\ awaiting' \in 0 .. MaxSlas \cup {None}
        /\ awaiting' # None => retries' < RetryLimit
        /\ awaiting = None => awaiting' = None
    BY <2>1, WaitGoesOn DEF IInv
  <2>5. Typed'
    BY <2>1, <2>2, <2>3, <2>4 DEF IInv, Typed
  <2>6. Known'
    BY <2>1, <2>2, <2>3 DEF IInv, Known
  <2>7. NobodyNothing' /\ Own' /\ TriesLeft'
    BY <2>1, <2>2, <2>3, <2>4 DEF IInv, NobodyNothing, Own, TriesLeft, ListIsOwn
  <2>8. NoTopUps' = NoTopUps
    BY <2>1 DEF NoTopUps
  <2>9. Happened' /\ ReadAfter' /\ Reflected'
    BY <2>1, <2>2, <2>3, <2>8 DEF IInv, Happened, ReadAfter, Reflected
  <2>10. Carded' /\ FormKept'
    BY <2>1, <2>3 DEF IInv, Carded, CancelHashShown, FormKept, Reviewable, Creating
  <2> QED BY <2>5, <2>6, <2>7, <2>9, <2>10 DEF IInv
<1> QED BY <1>1, <1>2 DEF Loads

\* The list that a read leaves: what was read, of the account it was read for, and
\* of what was known to be over, nothing that is not.
Leaves(l) ==
    /\ list' \in Lists /\ list'.of = loads[l].of /\ list'.loading = FALSE
    /\ DOMAIN list'.slas \cup list'.failures = DOMAIN loads[l].got
    /\ DOMAIN list'.slas \cap list'.failures = {}
    /\ \A i \in DOMAIN list'.slas : /\ list'.slas[i] \in View
                                    /\ list'.slas[i].status = loads[l].got[i].status
                                    /\ list'.slas[i].funded = loads[l].got[i].funded

LEMMA LoadedLeaves ==
    ASSUME IInv, loads["current"] # Idle, Loaded("current")
    PROVE  /\ Leaves("current") /\ Rendered(list'.slas) /\ StillAwaiting(list')
           /\ loads' = [loads EXCEPT !["current"] = Idle]
<1> DEFINE got == loads["current"].got
           read == {i \in DOMAIN got : ~got[i].failed}
           slas == [i \in read |-> [status |-> got[i].status, funded |-> got[i].funded]]
           ls == [of |-> loads["current"].of, failures |-> DOMAIN got \ read, slas |-> slas,
                  loading |-> FALSE, error |-> FALSE]
<1>1. loads["current"] \in Load
  BY DEF IInv, Typed, Loads
<1>2. PICK D \in SUBSET Ids : got \in [D -> Got]
  BY <1>1 DEF Load, Gots
<1>3. \A i \in read : got[i].status \in {"Active", "Cancelled"} /\ got[i].funded \in BOOLEAN
  <2> SUFFICES ASSUME NEW i \in read
               PROVE  got[i].status \in {"Active", "Cancelled"} /\ got[i].funded \in BOOLEAN
    OBVIOUS
  <2>1. got[i] \in Got /\ ~got[i].failed
    BY <1>2
  <2>2. got[i].status # None /\ got[i].funded # None
    BY <2>1 DEF Loaded, Finished
  <2>3. got[i].status \in {"Active", "Cancelled", None} /\ got[i].funded \in BOOLEAN \cup {None}
    BY <2>1 DEF Got
  <2> HIDE DEF got
  <2> QED BY <2>2, <2>3
<1>4. \A i \in read : slas[i] \in View
  BY <1>3 DEF View
<1>5. slas \in [read -> View] /\ DOMAIN slas = read /\ read \in SUBSET Ids
  BY <1>2, <1>4
<1>6. slas \in Views
  <2> HIDE DEF slas, read
  <2> QED BY <1>5 DEF Views
<1>7. ls \in Lists
  <2>1. DOMAIN got \ read \in SUBSET Ids /\ loads["current"].of \in Accounts
    BY <1>1, <1>2 DEF Load
  <2> HIDE DEF slas, read, got
  <2> QED BY <1>6, <2>1 DEF Lists
<1>8. /\ list' = ls /\ Rendered(ls.slas) /\ StillAwaiting(ls)
      /\ loads' = [loads EXCEPT !["current"] = Idle]
  BY DEF Loaded, Applies
<1>9. Leaves("current")
  <2>1. /\ list'.of = loads["current"].of /\ list'.loading = FALSE
        /\ list'.slas = slas /\ list'.failures = DOMAIN got \ read
    <3> HIDE DEF slas, read, got
    <3> QED BY <1>8
  <2>2. \A i \in read : /\ slas[i].status = loads["current"].got[i].status
                        /\ slas[i].funded = loads["current"].got[i].funded
    OBVIOUS
  <2>3. DOMAIN got = read \cup (DOMAIN got \ read) /\ read \cap (DOMAIN got \ read) = {}
    OBVIOUS
  <2> HIDE DEF slas, read
  <2> QED BY <1>4, <1>5, <1>7, <1>8, <2>1, <2>2, <2>3 DEF Leaves
<1> HIDE DEF ls
<1> QED BY <1>8, <1>9

LEMMA LoadedKeeps ==
    ASSUME IInv, NEW l \in Loads, loads[l] # Idle, Loaded(l),
           UNCHANGED <<vault, indexed, address, swapped, retries, form>>
    PROVE  IInv'
<1>1. CASE l = "cancelled"
  BY <1>1, CancelledEnds DEF Loaded, Applies
<1>2. CASE l = "current"
  <2>1. /\ Leaves("current") /\ Rendered(list'.slas) /\ StillAwaiting(list')
        /\ loads' = [loads EXCEPT !["current"] = Idle]
    BY <1>2, LoadedLeaves
  <2>2. /\ Moved(list'.slas) /\ NoTopUps' = NoTopUps /\ \A op : Settled(op)' = Settled(op)
        /\ \A t \in Txs : Creating(t)' <=> Creating(t)
    BY <2>1, RenderedMoves
  <2>3. /\ loads' \in [Loads -> {Idle} \cup Load] /\ loads'["current"] = Idle
        /\ \A k \in Loads : loads'[k] \in {Idle, loads[k]}
    BY <2>1 DEF IInv, Typed, Loads
  <2>4. /\ awaiting' \in 0 .. MaxSlas \cup {None}
        /\ awaiting' # None => retries' < RetryLimit
        /\ awaiting = None => awaiting' = None
    BY <2>1, WaitGoesOn DEF IInv
  <2>5. cancelHash' = cancelHash \cap DOMAIN list'.slas
    BY <2>1 DEF Rendered
  <2>6. Typed'
    BY <2>1, <2>2, <2>3, <2>4, <2>5 DEF IInv, Typed, Leaves, Moved
  <2>7. Known'
    <3>1. DOMAIN list'.slas \cup list'.failures \subseteq 1 .. Len(vault)
          /\ DOMAIN list'.slas \cap list'.failures = {}
      BY <1>2, <2>1 DEF IInv, Known, Leaves
    <3>2. \A k \in Loads : loads'[k] # Idle => DOMAIN loads'[k].got \subseteq 1 .. Len(vault)
      BY <2>3 DEF IInv, Known
    <3>3. \A t \in Txs : txs'[t] # Unused =>
             IF txs'[t].op = "create" THEN txs'[t].id = None /\ txs'[t].scope \in {"action", "gone"}
             ELSE txs'[t].id \in 1 .. Len(vault)
      BY <2>2 DEF IInv, Known, Moved
    <3> QED BY <3>1, <3>2, <3>3 DEF Known
  <2>8. NobodyNothing' /\ Own' /\ TriesLeft'
    BY <1>2, <2>1, <2>2, <2>3, <2>4
       DEF IInv, NobodyNothing, Own, TriesLeft, ListIsOwn, Leaves, Moved
  <2>9. Happened'
    <3>1. \A i \in DOMAIN list'.slas :
             list'.slas[i].status = "Cancelled" => vault[i].status = "Cancelled"
      BY <1>2, <2>1 DEF IInv, Happened, Leaves
    <3>2. \A t \in Txs : txs'[t] # Unused /\ txs'[t].at \in {"included", "confirmed"} =>
             /\ txs'[t].op = "cancel" => vault[txs'[t].id].status = "Cancelled"
             /\ txs'[t].op = "withdraw" /\ NoTopUps => vault[txs'[t].id].funded = FALSE
      BY <2>2 DEF IInv, Happened, Moved
    <3> QED BY <2>2, <2>3, <3>1, <3>2 DEF Happened
  <2>10. ReadAfter'
    BY <2>3 DEF ReadAfter
  <2>11. Reflected'
    <3>1. ASSUME NEW i \in DOMAIN list'.slas
          PROVE  /\ i \in Settled("cancel") => list'.slas[i].status = "Cancelled"
                 /\ i \in Settled("withdraw") /\ NoTopUps => list'.slas[i].funded = FALSE
      <4>1. i \in DOMAIN loads["current"].got /\ list'.slas[i] \in View
            /\ list'.slas[i].status = loads["current"].got[i].status
            /\ list'.slas[i].funded = loads["current"].got[i].funded
        BY <2>1 DEF Leaves
      <4>2. list'.slas[i].status \in {"Active", "Cancelled"} /\ list'.slas[i].funded \in BOOLEAN
        BY <4>1 DEF View
      <4>3. /\ i \in Settled("cancel") => list'.slas[i].status # "Active"
            /\ i \in Settled("withdraw") /\ NoTopUps => list'.slas[i].funded # TRUE
        BY <1>2, <4>1 DEF IInv, ReadAfter
      <4> QED BY <4>2, <4>3
    <3> QED BY <2>2, <3>1 DEF Reflected
  <2>12. Carded'
    BY <2>2, <2>5 DEF IInv, Carded, CancelHashShown, Moved
  <2>13. FormKept'
    BY <2>2 DEF IInv, FormKept, Reviewable
  <2> QED BY <2>6, <2>7, <2>8, <2>9, <2>10, <2>11, <2>12, <2>13 DEF IInv
<1> QED BY <1>1, <1>2 DEF Loads

LEMMA InvNext ==
    ASSUME IInv, [Next]_vars
    PROVE  IInv'
<1>1. CASE UNCHANGED vars
  <2> USE <1>1 DEF vars
  <2>1. Typed' /\ Known' /\ NobodyNothing' /\ Own' /\ TriesLeft'
    BY DEF IInv, Typed, Known, NobodyNothing, Own, TriesLeft, ListIsOwn
  <2>2. NoTopUps' = NoTopUps /\ \A op : Settled(op)' = Settled(op)
    BY DEF NoTopUps, Settled
  <2>3. Happened' /\ ReadAfter' /\ Reflected'
    BY <2>2 DEF IInv, Happened, ReadAfter, Reflected
  <2>4. Carded' /\ FormKept'
    BY DEF IInv, Carded, CancelHashShown, FormKept, Reviewable, Creating
  <2> QED BY <2>1, <2>3, <2>4 DEF IInv
<1>2. ASSUME NEW l \in Loads, LoadStep(l)
      PROVE  IInv'
  <2>1. loads[l] # Idle /\ UNCHANGED <<vault, indexed, address, swapped, retries, form>>
    BY <1>2 DEF LoadStep
  <2>2. CASE Listed(l)
    BY <2>1, <2>2, ListedKeeps
  <2>3. CASE Loaded(l)
    BY <2>1, <2>3, LoadedKeeps
  <2>4. CASE LoadFails(l)
    BY <2>1, <2>4, LoadFailsKeeps
  <2>5. CASE \E i \in Ids : ReadConfig(l, i) \/ ReadBond(l, i) \/ ReadFails(l, i)
    BY <2>1, <2>5, FieldKeeps
  <2> QED BY <1>2, <2>2, <2>3, <2>4, <2>5 DEF LoadStep, Answered
<1>3. ASSUME NEW t \in Txs, txs[t] # Unused, Include(t) \/ Fails(t) \/ Confirmed(t)
      PROVE  IInv'
  BY <1>3, IncludeKeeps, FailsKeeps, ConfirmedKeeps
<1>4. CASE EditDetails \/ Submit \/ TokenRead \/ TokenUnread \/ \E d \in Drafts : SetField(d)
  BY <1>4, FormStepKeeps
<1>5. CASE Create \/ \E i \in Ids : TopUp(i) \/ Cancel(i) \/ Withdraw(i)
  BY <1>5, SendKeeps
<1>6. CASE Retry \/ \E a \in Accounts : Connected(a) \/ Swapped(a)
  BY <1>6, AskKeeps
<1>7. CASE Left \/ Index
  BY <1>7, LeftKeeps, IndexKeeps
<1> QED BY <1>1, <1>2, <1>3, <1>4, <1>5, <1>6, <1>7 DEF Next

\* The invariant holds in every state of every behaviour.
LEMMA Invariant == Spec => []IInv
BY InvInit, InvNext, PTL DEF Spec

----------------------------------------------------------------------------
(* The forms' validation and the SDK's.                                     *)

\* What the create form finds no fault with, the SDK accepts, and the bond covers the
\* penalty, whatever the token's decimals (create-sla-validation.ts; sla-vault.ts,
\* buildCreateSlaTx).
THEOREM ReviewedIsAccepted ==
    ASSUME NEW v \in Values, NEW decimals,
           StaticErrors(v) = {}, AmountErrors(v, decimals) = {}
    PROVE  CreateAccepted(Reviewed(v, decimals)) /\ PenaltyCovered(Reviewed(v, decimals))
<1> DEFINE bond == Units(v.bond, decimals)
           penalty == Units(v.penalty, decimals)
           uptime == Units(v.uptime, 2)
           quorum == WholeNumber(v.quorum)
           endpoint == EndpointHash(v.endpoint)
<1>1. /\ v.token \in Contracts \cup {Unreadable}
      /\ v.beneficiary \in Addresses \cup {Unreadable}
      /\ endpoint \in Endpoints \cup {Unreadable}
  BY DEF Values, EndpointInput, EndpointHash
<1>2. /\ endpoint # Unreadable
      /\ v["token"] # Unreadable /\ v["beneficiary"] # Unreadable
      /\ quorum \in 1 .. MaxU32 /\ uptime \in 1 .. MaxBps
  <2> HIDE DEF quorum, uptime, endpoint
  <2>1. StaticErrors(v) =
            {f \in {"endpoint"} : endpoint = Unreadable}
            \cup {f \in {"token", "beneficiary"} : v[f] = Unreadable}
            \cup {f \in {"quorum"} : ~(quorum \in 1 .. MaxU32)}
            \cup {f \in {"uptime"} : ~(uptime \in 1 .. MaxBps)}
    BY DEF StaticErrors, Within, quorum, uptime, endpoint
  <2> QED BY <2>1
<1>3. /\ v.token \in Contracts /\ v.beneficiary \in Addresses /\ endpoint \in Endpoints
  BY <1>1, <1>2
<1>4. /\ bond \in 1 .. MaxI128 /\ penalty \in 1 .. MaxI128 /\ ~(penalty > bond)
  <2>1. /\ v["bond"] = v.bond /\ v["penalty"] = v.penalty
    OBVIOUS
  <2>2. \A f \in {"bond", "penalty"} : Within(Units(v[f], decimals), 1, MaxI128)
    BY DEF AmountErrors
  <2>3. bond \in 1 .. MaxI128 /\ penalty \in 1 .. MaxI128
    BY <2>1, <2>2 DEF Within
  <2>4. "penalty" \notin AmountErrors(v, decimals)
    OBVIOUS
  <2>5. ~(penalty > bond)
    BY <2>3, <2>4 DEF AmountErrors, Within
  <2> QED BY <2>3, <2>5
<1>5. penalty <= bond
  BY <1>4, InputAssumption
<1> HIDE DEF bond, penalty, uptime, quorum, endpoint
<1>6. Reviewed(v, decimals) =
         [endpointHash |-> endpoint, token |-> v.token, beneficiary |-> v.beneficiary,
          bondAmount |-> bond, penaltyPerBreach |-> penalty,
          uptimeTargetBps |-> uptime, quorumThreshold |-> quorum]
  BY DEF Reviewed, bond, penalty, uptime, quorum, endpoint
<1>7. Unreadable \notin Endpoints
  BY InputAssumption
<1> QED BY <1>2, <1>3, <1>4, <1>5, <1>6, <1>7
        DEF CreateAccepted, PenaltyCovered, AssertContractId, AssertAddress,
            AssertPositiveAmount, AssertU32, ResolveEndpointHash, Within

\* What no backend knows of exponentiation: the powers of ten that a token's decimals
\* ask for are positive integers.
PowersOfTen == \A k \in Decimals : 10 ^ k \in Nat \ {0}

\* The fewest places that will do: there is such a number, and it divides.
LEMMA FewestPlaces ==
    ASSUME NEW a \in Nat, NEW d \in Nat
    PROVE  \E p \in 0 .. d :
              /\ a % 10 ^ (d - p) = 0
              /\ \A q \in 0 .. p - 1 : a % 10 ^ (d - q) # 0
<1> DEFINE Enough == {p \in 0 .. d : a % 10 ^ (d - p) = 0}
<1>1. d \in Enough
  <2>1. 10 ^ (d - d) = 1
    <3>1. d - d = 0
      OBVIOUS
    <3>2. 10 ^ 0 = 1
      OBVIOUS
    <3> QED BY <3>1, <3>2
  <2>2. a % 1 = 0
    OBVIOUS
  <2> QED BY <2>1, <2>2
<1>2. Enough \subseteq 0 .. d
  BY Zenon
<1>3. 0 .. d \subseteq Nat
  OBVIOUS
<1> HIDE DEF Enough
<1>4. Enough \subseteq Nat /\ Enough # {}
  BY <1>1, <1>2, <1>3
<1>5. PICK p \in Enough : \A q \in Enough : ~(<<q, p>> \in OpToRel(<, Nat))
  BY <1>4, WFMin, NatLessThanWellFounded
<1>6. \A q \in Enough : ~(q < p)
  <2> SUFFICES ASSUME NEW q \in Enough, q < p PROVE FALSE
    OBVIOUS
  <2>1. <<q, p>> \in Nat \X Nat
    BY <1>4
  <2>2. <<q, p>> \in OpToRel(<, Nat)
    BY <2>1 DEF OpToRel
  <2> QED BY <1>5, <2>2
<1>7. p \in 0 .. d
  BY <1>2
<1>8. \A q \in 0 .. p - 1 : q \in 0 .. d /\ q < p
  BY <1>7
<1>9. a % 10 ^ (d - p) = 0
  BY Zenon DEF Enough
<1>10. \A q \in 0 .. p - 1 : a % 10 ^ (d - q) # 0
  <2> SUFFICES ASSUME NEW q \in 0 .. p - 1, a % 10 ^ (d - q) = 0 PROVE FALSE
    OBVIOUS
  <2>1. q \in Enough
    BY <1>8, Zenon DEF Enough
  <2> QED BY <1>6, <1>8, <2>1
<1> QED BY <1>7, <1>9, <1>10

\* An amount, formatted as it is displayed and read as it is typed, is the amount.
LEMMA FormattedReadsBack ==
    ASSUME PowersOfTen, NEW a \in Nat, NEW d \in Decimals
    PROVE  Units(Formatted(a, d), d) = a
<1> DEFINE Fits(p) == /\ a % 10 ^ (d - p) = 0
                      /\ \A q \in 0 .. p - 1 : a % 10 ^ (d - q) # 0
           p == CHOOSE p \in 0 .. d : Fits(p)
           n == [digits |-> a \div 10 ^ (d - p), places |-> p]
<1>0. d \in Nat /\ \A q \in 0 .. d : d - q \in Decimals
  BY DEF Decimals
<1>1. p \in 0 .. d /\ Fits(p)
  BY <1>0, FewestPlaces
<1>2. Formatted(a, d) = n
  BY DEF Formatted
<1> HIDE DEF p
<1>3. 10 ^ (d - p) \in Nat \ {0}
  BY <1>0, <1>1 DEF PowersOfTen
<1>4. PICK t \in Nat \ {0} : t = 10 ^ (d - p)
  BY <1>3
<1>5. a % t = 0 /\ a \div t \in Nat /\ (a \div t) * t = a
  <2>1. a % t = 0
    BY <1>1, <1>4
  <2> QED BY <2>1
<1>6. n \in [digits : Nat, places : Nat]
  BY <1>1, <1>4, <1>5
<1>7. n # Unreadable
  BY <1>6, InputAssumption
<1>8. n.places = p /\ n.digits = a \div t
  BY <1>4
<1>9. Units(n, d) = n.digits * 10 ^ (d - n.places)
  <2> HIDE DEF n
  <2> QED BY <1>0, <1>1, <1>7, <1>8 DEF Units
<1> QED BY <1>2, <1>4, <1>5, <1>8, <1>9

----------------------------------------------------------------------------
(* The theorems.                                                            *)

\* Types: the list names only SLAs of the vault, each as read or as failed, loading
\* is a read that runs, and the tries and the wait stay in their bounds.
THEOREM DashboardTypes == Spec => []DashboardTypeOK
<1>1. IInv => DashboardTypeOK
  <2> SUFFICES ASSUME IInv PROVE DashboardTypeOK
    OBVIOUS
  <2>1. PICK D \in SUBSET Ids : list.slas \in [D -> View]
    BY DEF IInv, Typed, Lists, Views
  <2>2. \A i \in DOMAIN list.slas : list.slas[i] \in View
    BY <2>1
  <2>3. \A t \in Txs : txs[t] # Unused =>
           txs[t].at \in {"open", "included", "confirmed", "failed"} /\ txs[t].scope \in Scopes
    BY DEF IInv, Typed, Transaction
  <2>4. list.of \in Accounts \cup {None}
    BY DEF IInv, Typed, Lists
  <2> QED BY <2>2, <2>3, <2>4 DEF IInv, Typed, Known, Own, Carded, DashboardTypeOK
<1> QED BY Invariant, <1>1, PTL

\* The list that is shown is the connected wallet's once nothing is loading and the
\* last read succeeded, whatever accounts the connect calls answered with
\* (use-provider-slas.ts, the load effect keyed on the address).
THEOREM ListIsTheWallets == Spec => []ListIsOwn
<1>1. IInv => ListIsOwn
  BY DEF IInv, Own
<1> QED BY Invariant, <1>1, PTL

\* A confirmed cancellation or withdrawal is in the list once it is read again,
\* however the reads that were running when it was confirmed are answered (sla-list.tsx,
\* onSuccess; use-provider-slas.ts, refresh).
THEOREM ConfirmedShows == Spec => []ConfirmedIsReflected
<1>1. IInv => ConfirmedIsReflected
  <2> SUFFICES ASSUME IInv, NEW t \in Txs, txs[t] # Unused, txs[t].at = "confirmed",
                      txs[t].scope # "gone", ~list.loading, ~list.error,
                      txs[t].id \in DOMAIN list.slas
               PROVE  /\ txs[t].op = "cancel" => list.slas[txs[t].id].status = "Cancelled"
                      /\ txs[t].op = "withdraw" /\ NoTopUps => ~list.slas[txs[t].id].funded
    BY DEF ConfirmedIsReflected, NoTopUps
  <2>1. txs[t].id \in Settled(txs[t].op)
    BY DEF Settled
  <2>2. /\ txs[t].op = "cancel" => list.slas[txs[t].id].status = "Cancelled"
        /\ txs[t].op = "withdraw" /\ NoTopUps => list.slas[txs[t].id].funded = FALSE
    BY <2>1 DEF IInv, Reflected
  <2> QED BY <2>2
<1> QED BY Invariant, <1>1, PTL

\* A card has the hash of its confirmed cancellation for as long as it is on the page
\* (sla-card.tsx, the cancel hash held above the actions).
THEOREM HashStays == Spec => []CancelHashShown
<1>1. IInv => CancelHashShown
  BY DEF IInv, Carded
<1> QED BY Invariant, <1>1, PTL

\* No read brings a cancelled SLA back to Active on the page: the one that could was
\* overtaken, or began when the vault had the cancellation (use-provider-slas.ts, the
\* cancelled flag of the load effect).
THEOREM CancelledForGood == Spec => CardsNeverRevive
<1> DEFINE Kept == \A i \in Ids : /\ i \in DOMAIN list.slas /\ i \in DOMAIN list'.slas
                                  /\ list.slas[i].status = "Cancelled"
                                  => list'.slas[i].status = "Cancelled"
<1>1. ASSUME IInv, Next
      PROVE  Kept
  <2>1. CASE list'.slas = list.slas
    BY <2>1
  <2>2. CASE list'.slas # list.slas
    <3>1. (\E l \in Loads : LoadStep(l)) \/ Left
      <4>1. \A a : LoadStarts(a) => list'.slas = list.slas
        BY DEF LoadStarts, IInv, Typed, Lists
      <4>2. \A op, id : Begin(op, id) => list'.slas = list.slas
        BY DEF Begin
      <4>3. \A f : FormStep(f) => list'.slas = list.slas
        BY DEF FormStep
      <4>4. ASSUME NEW t \in Txs, Include(t) \/ Fails(t) \/ Confirmed(t)
            PROVE  list'.slas = list.slas
        BY <4>1, <4>4 DEF Include, Fails, Confirmed, Refresh
      <4>5. ~(Retry \/ Index \/ Create \/ \E i \in Ids : TopUp(i) \/ Cancel(i) \/ Withdraw(i))
        BY <2>2, <4>1, <4>2 DEF Retry, Index, Create, TopUp, Cancel, Withdraw
      <4>6. ~(\E a \in Accounts : Connected(a) \/ Swapped(a))
        BY <2>2, <4>1 DEF Connected, Swapped
      <4>7. ~(EditDetails \/ Submit \/ TokenRead \/ TokenUnread \/ \E d \in Drafts : SetField(d))
        BY <2>2, <4>3 DEF EditDetails, Submit, TokenRead, TokenUnread, SetField
      <4> QED BY <1>1, <2>2, <4>4, <4>5, <4>6, <4>7 DEF Next
    <3>2. CASE Left
      BY <3>2, EmptyAnswer DEF Left, NoList
    <3>3. CASE \E l \in Loads : LoadStep(l)
      <4>1. PICK l \in Loads : LoadStep(l)
        BY <3>3
      <4>2. ~(Listed(l) \/ \E i \in Ids : ReadConfig(l, i) \/ ReadBond(l, i) \/ ReadFails(l, i))
        BY <2>2 DEF Listed, Reading, ReadConfig, ReadBond, ReadFails
      <4>3. ~LoadFails(l)
        BY <1>1, <2>2 DEF LoadFails, ListFailed, IInv, Typed, Lists
      <4>4. Loaded(l) /\ loads[l] # Idle
        BY <4>1, <4>2, <4>3 DEF LoadStep, Answered
      <4>5. l = "current"
        BY <2>2, <4>4 DEF Loaded, Applies
      <4>6. Leaves("current")
        BY <1>1, <4>4, <4>5, LoadedLeaves
      <4> SUFFICES ASSUME NEW i \in Ids, i \in DOMAIN list.slas, i \in DOMAIN list'.slas,
                          list.slas[i].status = "Cancelled"
                   PROVE  list'.slas[i].status = "Cancelled"
        OBVIOUS
      <4>7. list'.slas[i].status \in {"Active", "Cancelled"}
            /\ list'.slas[i].status = loads["current"].got[i].status
            /\ i \in DOMAIN loads["current"].got
        BY <4>6 DEF Leaves, View
      <4>8. loads["current"].got[i].status # "Active"
        BY <1>1, <4>4, <4>5, <4>7 DEF IInv, ReadAfter
      <4> QED BY <4>7, <4>8
    <3> QED BY <3>1, <3>2, <3>3
  <2> QED BY <2>1, <2>2
<1>2. IInv /\ [Next]_vars => [Kept]_vars
  BY <1>1
<1> QED BY Invariant, <1>2, PTL DEF Spec, CardsNeverRevive

\* What is under review is what the fields hold, the SDK accepts it, the bond covers
\* the penalty, and both amounts read back as they are displayed; it stays for as long
\* as its creation is under way (create-sla-form.tsx; token-amount.ts).
THEOREM ReviewIsWhatIsTyped ==
    ASSUME PowersOfTen
    PROVE  Spec => []ReviewIsTyped
<1>1. IInv => ReviewIsTyped
  <2> SUFFICES ASSUME IInv PROVE ReviewIsTyped
    OBVIOUS
  <2>1. UnderWay("create", None) => form.review # None
    BY CreatingIsUnderWay DEF IInv, FormKept
  <2>2. ASSUME form.review # None
        PROVE  /\ form.review = Reviewed(form.values, TokenPlaces[form.values.token])
               /\ CreateAccepted(form.review) /\ PenaltyCovered(form.review)
               /\ LET d == TokenPlaces[form.values.token]
                  IN  \A a \in {form.review.bondAmount, form.review.penaltyPerBreach} :
                         Units(Formatted(a, d), d) = a
    <3> DEFINE v == form.values
               d == TokenPlaces[v.token]
               c == form.review
    <3>1. Reviewable(v) /\ c = Reviewed(v, d)
      BY <2>2 DEF IInv, FormKept
    <3>2. v \in Values
      BY <3>1, DashboardAssumption DEF Reviewable
    <3> HIDE DEF v
    <3>3. CreateAccepted(c) /\ PenaltyCovered(c)
      BY <3>1, <3>2, ReviewedIsAccepted DEF Reviewable
    <3>4. c.bondAmount \in 1 .. MaxI128 /\ c.penaltyPerBreach \in 1 .. MaxI128
      BY <3>3 DEF CreateAccepted, AssertPositiveAmount, Within
    <3>5. c.bondAmount \in Nat /\ c.penaltyPerBreach \in Nat
      BY <3>4, InputAssumption
    <3>6. d \in Decimals
      BY <3>1 DEF Reviewable, DecimalsRead
    <3> HIDE DEF d
    <3>7. \A a \in {c.bondAmount, c.penaltyPerBreach} : Units(Formatted(a, d), d) = a
      BY <3>5, <3>6, FormattedReadsBack
    <3> QED BY <3>1, <3>3, <3>7 DEF v, d
  <2> QED BY <2>1, <2>2 DEF ReviewIsTyped
<1> QED BY Invariant, <1>1, PTL

=============================================================================
