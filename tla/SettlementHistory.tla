-------------------------- MODULE SettlementHistory --------------------------
(***************************************************************************)
(* The settlement history on an SLA's status page (web: lib/               *)
(* use-settlement-history.ts) against the settlements endpoint: the first  *)
(* page on mount, older pages on "Load more", and a reload of the first    *)
(* page after the visitor triggered a settlement.  Requests are open       *)
(* together and are answered in any order, late, or never.                 *)
(***************************************************************************)
EXTENDS SettlementsApi

CONSTANTS
    SlaId,      \* the SLA whose page it is
    MaxReloads  \* bound on reloads

ASSUME HistoryAssumption == SlaId \in Slas /\ MaxReloads \in Nat

VARIABLES
    shown,        \* settlements, the rows on screen, first to last
    nextCursor,   \* position the next page comes after, None when null
    loading,      \* no first page yet: nothing is on screen
    loadingMore,
    purpose,      \* purpose[q]: what the hook awaits q for, or "none"
    reloads,
    outdated,     \* history: older pages awaited for a list that has changed since
    mixed         \* history: such a page was appended to the list on screen

stateVars == <<shown, nextCursor, loading, loadingMore>>
history == <<outdated, mixed>>
vars == <<chain, cursor, rows, eligible, filled, base, host, call,
          shown, nextCursor, loading, loadingMore, purpose, reloads, history>>

Purposes == {"none", "initial", "reload", "more"}

HistoryTypeOK ==
    /\ ApiTypeOK
    /\ shown \in Seq(Nat)
    /\ nextCursor \in Nat \cup {None}
    /\ loading \in BOOLEAN
    /\ loadingMore \in BOOLEAN
    /\ purpose \in [Requests -> Purposes]
    /\ reloads \in 0 .. MaxReloads
    /\ outdated \subseteq Requests
    /\ mixed \in BOOLEAN

Init ==
    /\ ApiInit
    /\ shown = <<>>
    /\ nextCursor = None
    /\ loading = TRUE
    /\ loadingMore = FALSE
    /\ purpose = [q \in Requests |-> "none"]
    /\ reloads = 0
    /\ outdated = {}
    /\ mixed = FALSE

Awaited(p) == \E q \in Requests : purpose[q] = p

----------------------------------------------------------------------------
(* What the hook asks for.                                                  *)

Request(q, p, before) ==
    /\ Ask(q, SlaId, before)
    /\ purpose' = [purpose EXCEPT ![q] = p]
    /\ UNCHANGED <<chain, dbVars, host, history>>

\* The effect of the first render.
Mount(q) ==
    /\ loading
    /\ ~Awaited("initial")
    /\ Request(q, "initial", None)
    /\ UNCHANGED <<stateVars, reloads>>

\* A settlement the visitor triggered was confirmed.
Reload(q) ==
    /\ reloads < MaxReloads
    /\ loading => Awaited("initial")
    /\ reloads' = reloads + 1
    /\ Request(q, "reload", None)
    /\ UNCHANGED stateVars

\* The button is there when there are rows, and it acts once at a time.
CanLoadMore == ~loading /\ shown # <<>> /\ nextCursor # None /\ ~loadingMore

LoadMore(q) ==
    /\ CanLoadMore
    /\ loadingMore' = TRUE
    /\ Request(q, "more", nextCursor)
    /\ UNCHANGED <<shown, nextCursor, loading, reloads>>

----------------------------------------------------------------------------
(* What it makes of the answers.                                            *)

\* The rows of a page, newest first.
RowsIn(page) ==
    [i \in 1 .. Cardinality(page) |->
        CHOOSE p \in page : Cardinality({r \in page : r > p}) = i - 1]

\* next_cursor: the last row's, when there are older ones.
CursorAfter(c) == IF c.more THEN Min(c.page) ELSE None

\* The older pages awaited beside q.
OthersAwaited(q) == {r \in Requests \ {q} : purpose[r] = "more"}

\* A first page replaces the list, an older page is appended to it.
Show(q) ==
    /\ shown' = IF purpose[q] = "more" THEN shown \o RowsIn(call[q].page)
                                       ELSE RowsIn(call[q].page)
    /\ nextCursor' = CursorAfter(call[q])
    /\ loading' = FALSE
    /\ loadingMore' = FALSE
    /\ outdated' = OthersAwaited(q)
    /\ mixed' = (purpose[q] = "more" /\ (mixed \/ q \in outdated))

Close(q) ==
    /\ purpose' = [purpose EXCEPT ![q] = "none"]
    /\ UNCHANGED <<chain, dbVars, host, reloads>>

\* Mutant: what the handler held is not let go.
FreedKeepsPage(q) == call' = [call EXCEPT ![q].at = "free"]

Freed(q) == call' = [call EXCEPT ![q] = Free]

\* A page that passes validation: getSettlements throws on a threshold that is
\* not a number.
Receive(q) ==
    /\ purpose[q] # "none"
    /\ call[q].at = "answered"
    /\ call[q].blank = {}
    /\ Show(q)
    /\ Freed(q)
    /\ Close(q)

\* Mutant: the page in flight is forgotten, the spinner is not.
MoreFailedSpins == UNCHANGED stateVars

MoreFailed ==
    /\ loadingMore' = FALSE
    /\ UNCHANGED <<shown, nextCursor, loading>>

\* The hook's catch blocks.  A list that is cleared has changed too.
Failed(q) ==
    \/ /\ purpose[q] = "initial"
       /\ shown' = <<>>
       /\ nextCursor' = None
       /\ loading' = FALSE
       /\ loadingMore' = FALSE
       /\ outdated' = OthersAwaited(q)
       /\ mixed' = FALSE
    \/ /\ purpose[q] = "reload"
       /\ UNCHANGED <<stateVars, history>>
    \/ /\ purpose[q] = "more"
       /\ MoreFailed
       /\ outdated' = outdated \ {q}
       /\ UNCHANGED mixed

\* An error status, or a page that validation refuses.
ReceiveError(q) ==
    /\ \/ call[q].at = "refused"
       \/ call[q].at = "answered" /\ call[q].blank # {}
    /\ Failed(q)
    /\ Freed(q)
    /\ Close(q)

\* No answer within ten seconds: the hook gives up, the handler does not.
TimeOut(q) ==
    /\ call[q] # Free
    /\ Failed(q)
    /\ UNCHANGED call
    /\ Close(q)

\* The handler's answer reaches nobody.
Dropped(q) ==
    /\ purpose[q] = "none"
    /\ call[q].at \in {"answered", "refused"}
    /\ Freed(q)
    /\ UNCHANGED <<chain, dbVars, host, stateVars, purpose, reloads, history>>

Next ==
    \/ /\ Emit \/ Ingest
       /\ UNCHANGED <<host, call, stateVars, purpose, reloads, history>>
    \/ \E q \in Requests :
          \/ /\ Handle(q)
             /\ UNCHANGED <<host, stateVars, purpose, reloads, history>>
          \/ Mount(q) \/ Reload(q) \/ LoadMore(q)
          \/ Receive(q) \/ ReceiveError(q) \/ TimeOut(q) \/ Dropped(q)

Spec == Init /\ [][Next]_vars

----------------------------------------------------------------------------
(* Properties.                                                              *)

Shown == {shown[i] : i \in DOMAIN shown}

\* The rows on screen are a run of the SLA's settlements, newest first and
\* each once, with none missing between the first and the last; the cursor is
\* the last row's, and is null only when nothing is older.  That is across
\* settlements stored meanwhile, failures, retries and reloads.  Only an older
\* page that was asked for one list and appended to another breaks it, and the
\* next first page mends it (use-settlement-history.ts:66-102).
ShownIsARun ==
    ~mixed /\ shown # <<>> =>
        /\ \A i, j \in DOMAIN shown : i < j => shown[i] > shown[j]
        /\ \A p \in SettlementsOf(SlaId) :
              p \in shown[Len(shown)] .. shown[1] => p \in Shown
        /\ nextCursor # None => nextCursor = shown[Len(shown)]
        /\ nextCursor = None => \A p \in SettlementsOf(SlaId) : p >= shown[Len(shown)]

\* "Load more" shows a spinner only while the answer that ends it is still awaited: no
\* reload, time-out or error leaves it turning (use-settlement-history.ts).
SpinnerMeansAwaited == loadingMore => Awaited("more")

=============================================================================
