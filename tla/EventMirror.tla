----------------------------- MODULE EventMirror -----------------------------
(***************************************************************************)
(* What the indexer promises about stored rows, whatever runs it: the rows *)
(* are those of one contiguous, growing slice (base, high] of the chain's  *)
(* events, complete and with nothing else.  No event is skipped, none is   *)
(* stored that the chain did not emit, and a page is taken whole or not at *)
(* all.  Crashes, retries, replays and overlapping runs are all stutters.  *)
(***************************************************************************)
EXTENDS LedgerEvents

CONSTANT Bodies

VARIABLES
    chain,  \* every event the two contracts have emitted
    base,   \* where the first page stored began, or None
    high,   \* the last position stored, or None
    rows    \* <<table, key>> of every row

vars == <<chain, base, high, rows>>

None == -1

Init ==
    /\ chain = <<>>
    /\ base = None
    /\ high = None
    /\ rows = {}

\* A contract emits one event.
Grow ==
    /\ \E e \in Bodies : chain' = Append(chain, e)
    /\ UNCHANGED <<base, high, rows>>

\* The first page: ingestion begins somewhere on the log.
Open ==
    /\ base = None
    /\ \E b \in 0 .. Len(chain) : \E n \in b .. Len(chain) :
          /\ Readable(chain, b, n)
          /\ base' = b
          /\ high' = n
          /\ rows' = RowsOf(chain, b, n)
    /\ UNCHANGED chain

\* A later page that reaches past what is stored.
Extend ==
    /\ base # None
    /\ \E n \in (high + 1) .. Len(chain) :
          /\ Readable(chain, high, n)
          /\ high' = n
          /\ rows' = rows \cup RowsOf(chain, high, n)
    /\ UNCHANGED <<chain, base>>

Next == Grow \/ Open \/ Extend

Spec == Init /\ [][Next]_vars

=============================================================================
