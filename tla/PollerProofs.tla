----------------------------- MODULE PollerProofs -----------------------------
(***************************************************************************)
(* Safety of the Node poller for every log, page limit, starting point and *)
(* number of crashes.  The inductive invariant says what the database      *)
(* holds (exactly what the slice (base, cursor] of the log says) and what  *)
(* the cycle in flight holds (a page that starts at the checkpoint).       *)
(***************************************************************************)
EXTENDS Poller, IndexerStoreProofs

----------------------------------------------------------------------------
(* The type invariant.                                                      *)

\* The loop starts well typed.
LEMMA TypeInit == Init => PollerTypeOK
<1> SUFFICES ASSUME Init PROVE PollerTypeOK
  OBVIOUS
<1> QED
  BY PollerAssumption DEF Init, StoreInit, PollerTypeOK, StoreTypeOK, None

----------------------------------------------------------------------------
(* The inductive invariant.                                                 *)

\* There is a checkpoint exactly when a page has been stored, and the slice
\* it closes lies on the log.
CheckpointOnLog ==
    \/ cursor = None /\ base = None
    \/ base \in Nat /\ cursor \in Nat /\ base <= cursor /\ cursor <= Len(chain)

\* Before the first page the tables are empty; afterwards they hold what the
\* slice says.
TablesMatchLog ==
    /\ cursor = None => rows = {} /\ eligible = {}
    /\ cursor # None =>
          /\ rows = RowsOf(chain, base, cursor)
          /\ eligible = EligibleOn(chain, base, cursor)
          /\ Readable(chain, base, cursor)

\* The cycle in flight asked from the checkpoint, and its page is on the log.
PageFollowsCheckpoint ==
    /\ pc = "locate" => cursor = None
    /\ pc \in {"request", "reply"} /\ cursor # None => from = cursor
    /\ pc = "reply" => from <= upto /\ upto <= Len(chain)

IInv == PollerTypeOK /\ CheckpointOnLog /\ TablesMatchLog /\ PageFollowsCheckpoint

\* The inductive invariant holds of an empty database.
LEMMA InvInit == Init => IInv
<1> SUFFICES ASSUME Init PROVE IInv
  OBVIOUS
<1>1. PollerTypeOK
  BY TypeInit
<1>2. CheckpointOnLog /\ TablesMatchLog /\ PageFollowsCheckpoint
  BY DEF Init, StoreInit, CheckpointOnLog, TablesMatchLog, PageFollowsCheckpoint
<1> QED
  BY <1>1, <1>2 DEF IInv

\* A step that leaves the chain and the database alone keeps what relates the
\* two.
LEMMA DatabaseUntouched ==
    ASSUME IInv, UNCHANGED <<chain, dbVars>>
    PROVE  StoreTypeOK' /\ CheckpointOnLog' /\ TablesMatchLog'
BY DEF IInv, PollerTypeOK, StoreTypeOK, CheckpointOnLog, TablesMatchLog, dbVars

\* The chain growing and thresholds being cached disturb nothing.
LEMMA SurroundingsStep ==
    ASSUME IInv, Surroundings, UNCHANGED <<loopVars, crashes>>
    PROVE  IInv'
<1>1. PollerTypeOK'
  <2>1. StoreTypeOK'
    BY SurroundingsType DEF IInv, PollerTypeOK
  <2> QED
    BY <2>1 DEF IInv, PollerTypeOK, loopVars
<1>2. CASE Emit
  <2>1. PICK e \in Bodies : chain' = Append(chain, e)
    BY <1>2 DEF Emit
  <2>2. Len(chain') = Len(chain) + 1
    BY <2>1 DEF IInv, PollerTypeOK, StoreTypeOK
  <2>3. UNCHANGED <<cursor, rows, eligible, base>>
    BY <1>2 DEF Emit, dbVars
  <2>4. CheckpointOnLog'
    BY <2>2, <2>3 DEF IInv, PollerTypeOK, StoreTypeOK, CheckpointOnLog
  <2>5. TablesMatchLog'
    <3>1. CASE cursor = None
      BY <3>1, <2>3 DEF IInv, TablesMatchLog
    <3>2. CASE cursor # None
      <4>1. base \in Nat /\ cursor \in Nat /\ cursor <= Len(chain)
        BY <3>2 DEF IInv, CheckpointOnLog
      <4>2. chain \in Seq(Bodies)
        BY DEF IInv, PollerTypeOK, StoreTypeOK
      <4>3. /\ RowsOf(chain', base, cursor) = RowsOf(chain, base, cursor)
            /\ Readable(chain', base, cursor) = Readable(chain, base, cursor)
            /\ EligibleOn(chain', base, cursor) = EligibleOn(chain, base, cursor)
        BY <2>1, <4>1, <4>2, AppendKeepsSlices
      <4> QED
        BY <3>2, <2>3, <4>3 DEF IInv, TablesMatchLog
    <3> QED
      BY <3>1, <3>2
  <2>6. PageFollowsCheckpoint'
    BY <2>2, <2>3 DEF IInv, PollerTypeOK, StoreTypeOK, PageFollowsCheckpoint, loopVars
  <2> QED
    BY <1>1, <2>4, <2>5, <2>6 DEF IInv
<1>3. ASSUME NEW s \in Slas, Backfill(s)
      PROVE  IInv'
  <2>1. CheckpointOnLog' /\ TablesMatchLog' /\ PageFollowsCheckpoint'
    BY <1>3 DEF Backfill, IInv, CheckpointOnLog, TablesMatchLog, PageFollowsCheckpoint, loopVars
  <2> QED
    BY <1>1, <2>1 DEF IInv
<1> QED
  BY <1>2, <1>3 DEF Surroundings

\* Storing a page: the slice grows by it, or begins with it.
LEMMA CommitStep ==
    ASSUME IInv, Commit
    PROVE  IInv'
<1> USE DEF None
<1>1. /\ pc = "reply" /\ Readable(chain, from, upto) /\ ApplyBatch(from, upto)
      /\ pc' \in {"ready", "asleep"}
      /\ UNCHANGED <<chain, from, upto, crashes>>
  BY DEF Commit, Goto, ApplyBatch
<1>2. from \in Nat /\ upto \in Nat /\ from <= upto /\ upto <= Len(chain)
  BY <1>1 DEF IInv, PollerTypeOK, PageFollowsCheckpoint
<1>3. cursor' = upto /\ base' = IF base = None THEN from ELSE base
  BY <1>1 DEF ApplyBatch, CursorStored
<1>4. PollerTypeOK'
  <2>1. StoreTypeOK'
    BY <1>1, <1>2, ApplyType DEF IInv, PollerTypeOK
  <2> QED
    BY <1>1, <2>1 DEF IInv, PollerTypeOK
<1>5. CheckpointOnLog'
  BY <1>1, <1>2, <1>3 DEF IInv, CheckpointOnLog, PageFollowsCheckpoint
<1>6. TablesMatchLog'
  <2>1. /\ rows' = rows \cup RowsOf(chain, from, upto)
        /\ eligible' = EligibleAfter(chain, from, upto, eligible)
    BY <1>1 DEF ApplyBatch
  <2>2. CASE cursor = None
    <3>1. base' = from /\ rows = {} /\ eligible = {}
      BY <2>2, <1>3 DEF IInv, CheckpointOnLog, TablesMatchLog
    <3>2. eligible' = EligibleOn(chain, from, upto)
      BY <2>1, <3>1 DEF EligibleAfter, EligibleOn
    <3> QED
      BY <1>1, <1>2, <1>3, <2>1, <3>1, <3>2 DEF TablesMatchLog
  <2>3. CASE cursor # None
    <3>1. base \in Nat /\ from = cursor /\ base <= from /\ base' = base
      BY <2>3, <1>1, <1>3 DEF IInv, CheckpointOnLog, PageFollowsCheckpoint
    <3>2. /\ rows = RowsOf(chain, base, from)
          /\ eligible = EligibleOn(chain, base, from)
          /\ Readable(chain, base, from)
      BY <2>3, <3>1 DEF IInv, TablesMatchLog
    <3>3. rows' = RowsOf(chain, base, upto)
      BY <1>2, <2>1, <3>1, <3>2, RowsOfSplit
    <3>4. eligible' = EligibleOn(chain, base, upto)
      BY <1>2, <2>1, <3>1, <3>2, EligibleSplit
    <3>5. Readable(chain, base, upto)
      BY <1>1, <1>2, <3>1, <3>2, ReadableSplit
    <3> QED
      BY <1>1, <1>2, <1>3, <3>1, <3>3, <3>4, <3>5 DEF TablesMatchLog
  <2> QED
    BY <2>2, <2>3
<1>7. PageFollowsCheckpoint'
  BY <1>1 DEF PageFollowsCheckpoint
<1> QED
  BY <1>4, <1>5, <1>6, <1>7 DEF IInv

\* Every step of the loop, a handler or a contract keeps it.
LEMMA InvNext == IInv /\ [Next]_vars => IInv'
<1> SUFFICES ASSUME IInv, [Next]_vars PROVE IInv'
  OBVIOUS
<1> USE PollerAssumption
<1>1. ASSUME UNCHANGED <<chain, dbVars>>, StoreTypeOK' => PollerTypeOK',
             PageFollowsCheckpoint'
      PROVE  IInv'
  <2>1. StoreTypeOK' /\ CheckpointOnLog' /\ TablesMatchLog'
    BY <1>1, DatabaseUntouched
  <2> QED
    BY <1>1, <2>1 DEF IInv
<1> DEFINE Types == StoreTypeOK' => PollerTypeOK'
<1>2. CASE Surroundings /\ UNCHANGED <<loopVars, crashes>>
  BY <1>2, SurroundingsStep
<1>3. CASE Wake
  <2>1. Types /\ PageFollowsCheckpoint'
    BY <1>3 DEF Wake, Goto, IInv, PollerTypeOK, PageFollowsCheckpoint
  <2> QED
    BY <1>1, <1>3, <2>1 DEF Wake
<1>4. CASE Begin
  <2>1. from' \in Nat
    BY <1>4 DEF Begin, IInv, PollerTypeOK, CheckpointOnLog
  <2>2. Types /\ PageFollowsCheckpoint'
    BY <1>4, <2>1 DEF Begin, Goto, IInv, PollerTypeOK, PageFollowsCheckpoint, dbVars
  <2> QED
    BY <1>1, <1>4, <2>2 DEF Begin
<1>5. CASE Locate
  <2>1. from' \in Nat
    BY <1>5 DEF Locate, None
  <2>2. Types /\ PageFollowsCheckpoint'
    BY <1>5, <2>1 DEF Locate, Goto, IInv, PollerTypeOK, PageFollowsCheckpoint, dbVars
  <2> QED
    BY <1>1, <1>5, <2>2 DEF Locate
<1>6. CASE Reply
  <2>1. upto' \in Nat /\ from <= upto' /\ upto' <= Len(chain)
    <3>1. from \in Nat /\ Len(chain) \in Nat
      BY DEF IInv, PollerTypeOK, StoreTypeOK
    <3> QED
      BY <1>6, <3>1 DEF Reply, PageEnds, Least
  <2>2. Types /\ PageFollowsCheckpoint'
    BY <1>6, <2>1 DEF Reply, Goto, IInv, PollerTypeOK, PageFollowsCheckpoint, dbVars
  <2> QED
    BY <1>1, <1>6, <2>2 DEF Reply
<1>7. CASE RequestFailed \/ Refuse
  <2>1. CycleFailed
    BY <1>7 DEF RequestFailed, Refuse, PageRefused
  <2>2. Types /\ PageFollowsCheckpoint'
    BY <2>1 DEF CycleFailed, Goto, IInv, PollerTypeOK, PageFollowsCheckpoint
  <2> QED
    BY <1>1, <2>1, <2>2 DEF CycleFailed
<1>8. CASE Commit
  BY <1>8, CommitStep
<1>9. CASE Crash
  <2>1. Types /\ PageFollowsCheckpoint'
    BY <1>9 DEF Crash, Goto, IInv, PollerTypeOK, PageFollowsCheckpoint
  <2> QED
    BY <1>1, <1>9, <2>1 DEF Crash
<1>10. CASE Restart
  <2>1. Types /\ PageFollowsCheckpoint'
    BY <1>10 DEF Restart, Goto, IInv, PollerTypeOK, PageFollowsCheckpoint
  <2> QED
    BY <1>1, <1>10, <2>1 DEF Restart
<1>11. CASE UNCHANGED vars
  <2>1. Types /\ PageFollowsCheckpoint'
    BY <1>11 DEF vars, IInv, PollerTypeOK, PageFollowsCheckpoint
  <2> QED
    BY <1>1, <1>11, <2>1 DEF vars, dbVars
<1> QED
  BY <1>2, <1>3, <1>4, <1>5, <1>6, <1>7, <1>8, <1>9, <1>10, <1>11 DEF Next, Cycle

\* So it holds throughout.
LEMMA Invariant == Spec => []IInv
BY InvInit, InvNext, PTL DEF Spec

----------------------------------------------------------------------------
(* The theorems.                                                            *)

\* Every variable stays in its type.
THEOREM PollerTypeCorrect == Spec => []PollerTypeOK
<1>1. IInv => PollerTypeOK
  BY DEF IInv
<1> QED
  BY <1>1, Invariant, PTL

\* The checkpoint is never ahead of what was stored: every event between the
\* starting point and the checkpoint was readable and has its row, across
\* crashes at any point, refused pages and pages cut short.
THEOREM PollerNeverAhead == Spec => []CheckpointNeverAhead
<1>1. IInv => CheckpointNeverAhead
  <2> SUFFICES ASSUME IInv, cursor # None, NEW p \in (base + 1) .. cursor
               PROVE  Covered(p)
    BY DEF CheckpointNeverAhead
  <2>1. rows = RowsOf(chain, base, cursor) /\ Readable(chain, base, cursor)
    BY DEF IInv, TablesMatchLog
  <2>2. ~Throws(chain[p])
    BY <2>1 DEF Readable
  <2>3. Persisted(chain[p]) => Row(chain, p) \in rows
    BY <2>1 DEF RowsOf
  <2> QED
    BY <2>2, <2>3 DEF Covered
<1> QED
  BY <1>1, Invariant, PTL

\* The watchers table is the chain's verdict on what has been ingested.
THEOREM PollerEligibleMatchesChain == Spec => []EligibleMatchesChain
<1>1. IInv => EligibleMatchesChain
  BY DEF IInv, TablesMatchLog, EligibleMatchesChain
<1> QED
  BY <1>1, Invariant, PTL

\* The checkpoint only moves forward.
THEOREM PollerCursorMonotonic == Spec => CursorNeverRegresses
<1>1. IInv /\ [Next]_vars => [cursor' >= cursor]_cursor
  <2> SUFFICES ASSUME IInv, [Next]_vars, cursor' # cursor
               PROVE  cursor' >= cursor
    BY DEF IInv
  <2>1. Commit
    BY DEF Next, Cycle, Surroundings, Emit, Backfill, Wake, Begin, Locate, Reply,
           RequestFailed, Refuse, PageRefused, CycleFailed, Crash, Restart, vars, dbVars
  <2>2. pc = "reply" /\ cursor' = upto
    BY <2>1 DEF Commit, ApplyBatch, CursorStored
  <2>3. from \in Nat /\ upto \in Nat /\ from <= upto
    BY <2>2 DEF IInv, PollerTypeOK, PageFollowsCheckpoint
  <2>4. cursor = None \/ cursor = from
    BY <2>2 DEF IInv, PageFollowsCheckpoint
  <2> QED
    BY <2>2, <2>3, <2>4 DEF None
<1> QED
  BY <1>1, Invariant, PTL DEF Spec, CursorNeverRegresses

\* The mirror reads a slice of the log as the poller does.
LEMMA MirrorReadsAlike ==
    ASSUME NEW log, NEW a, NEW b
    PROVE  /\ Mirror!Readable(log, a, b) = Readable(log, a, b)
           /\ Mirror!RowsOf(log, a, b) = RowsOf(log, a, b)
BY Zenon DEF Mirror!Readable, Mirror!Throws, Mirror!PayloadTopics,
             Mirror!RowsOf, Mirror!Row, Mirror!Key, Mirror!TableOf, Mirror!Persisted,
             Readable, Throws, PayloadTopics, RowsOf, Row, Key, TableOf, Persisted

\* The poller implements EventMirror: a stored page opens or extends the
\* mirrored slice, or was empty, and every other step but the contracts' own
\* is invisible.
LEMMA CommitMirrors ==
    ASSUME IInv, Commit
    PROVE  [Mirror!Next]_(Mirror!vars)
<1> USE DEF None, Mirror!None
<1>1. /\ pc = "reply" /\ Readable(chain, from, upto)
      /\ rows' = rows \cup RowsOf(chain, from, upto)
      /\ cursor' = upto
      /\ base' = IF base = None THEN from ELSE base
      /\ UNCHANGED chain
  BY DEF Commit, ApplyBatch, CursorStored
<1>2. from \in Nat /\ upto \in Nat /\ from <= upto /\ upto <= Len(chain)
  BY <1>1 DEF IInv, PollerTypeOK, PageFollowsCheckpoint
<1>3. Len(chain) \in Nat
  BY DEF IInv, PollerTypeOK, StoreTypeOK
<1>4. CASE cursor = None
  <2>1. base = None /\ rows = {}
    BY <1>4 DEF IInv, CheckpointOnLog, TablesMatchLog
  <2>2. from \in 0 .. Len(chain) /\ upto \in from .. Len(chain)
    BY <1>2, <1>3
  <2>3. base' = from /\ rows' = RowsOf(chain, from, upto)
    BY <1>1, <2>1
  <2>4. Mirror!Open
    BY <1>1, <2>1, <2>2, <2>3, MirrorReadsAlike DEF Mirror!Open
  <2> QED
    BY <2>4 DEF Mirror!Next
<1>5. CASE cursor # None
  <2>1. base # None /\ from = cursor /\ base' = base
    BY <1>1, <1>5 DEF IInv, CheckpointOnLog, PageFollowsCheckpoint
  <2>2. CASE upto = from
    <3>1. RowsOf(chain, from, upto) = {}
      BY <2>2, <1>2, EmptySlice
    <3> QED
      BY <1>1, <2>1, <2>2, <3>1 DEF Mirror!vars
  <2>3. CASE upto # from
    <3>1. upto \in (cursor + 1) .. Len(chain)
      BY <1>2, <1>3, <2>1, <2>3
    <3>2. Mirror!Extend
      BY <1>1, <2>1, <3>1, MirrorReadsAlike DEF Mirror!Extend
    <3> QED
      BY <3>2 DEF Mirror!Next
  <2> QED
    BY <2>2, <2>3
<1> QED
  BY <1>4, <1>5

\* Every step is one of EventMirror's, or changes nothing it speaks of.
LEMMA StepMirrors == IInv /\ [Next]_vars => [Mirror!Next]_(Mirror!vars)
<1> SUFFICES ASSUME IInv, [Next]_vars PROVE [Mirror!Next]_(Mirror!vars)
  OBVIOUS
<1>1. CASE Emit
  BY <1>1 DEF Emit, dbVars, Mirror!Grow, Mirror!Next
<1>2. CASE Commit
  BY <1>2, CommitMirrors
<1>3. CASE UNCHANGED <<chain, base, cursor, rows>>
  BY <1>3 DEF Mirror!vars
<1>4. Emit \/ Commit \/ UNCHANGED <<chain, base, cursor, rows>>
  BY DEF Next, Cycle, Surroundings, Backfill, Wake, Begin, Locate, Reply,
         RequestFailed, Refuse, PageRefused, CycleFailed, Crash, Restart, vars, dbVars
<1> QED
  BY <1>1, <1>2, <1>3, <1>4

\* The Node loop (poller.ts) is a mirror of one contiguous slice of the events,
\* through every failure, refused page, crash and restart.
THEOREM PollerRefinesMirror == Spec => ImplementsMirror
<1>1. Init => Mirror!Init
  BY DEF Init, StoreInit, Mirror!Init, None, Mirror!None
<1>2. IInv /\ [Next]_vars => [Mirror!Next]_(Mirror!vars)
  BY StepMirrors
<1> QED
  BY <1>1, <1>2, Invariant, PTL DEF Spec, ImplementsMirror, Mirror!Spec

=============================================================================
