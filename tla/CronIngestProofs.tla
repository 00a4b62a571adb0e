--------------------------- MODULE CronIngestProofs ---------------------------
(***************************************************************************)
(* Safety of the Worker's ingestion for every log, page limit, starting    *)
(* point and set of overlapping steps.  The inductive invariant anchors    *)
(* everything to one slice (base, high] of the log: the rows are exactly   *)
(* its rows, the checkpoint lies in it even when a late step has moved it  *)
(* back, and every step in flight began inside it.                         *)
(***************************************************************************)
EXTENDS CronIngest, IndexerStoreProofs

\* Nothing stored yet, or one slice from StartPos that the rows are those of.
SliceStored ==
    \/ /\ base = None /\ cursor = None /\ high = None
       /\ rows = {} /\ eligible = {}
    \/ /\ base = StartPos /\ cursor \in base .. high /\ high \in Nat
       /\ high <= Len(chain)
       /\ rows = RowsOf(chain, base, high)
       /\ Readable(chain, base, high)

\* A step in flight began at the start or inside the slice, and the page it
\* holds is on the log.
StepBegan(r) ==
    /\ pc[r] # "idle" => from[r] = StartPos \/ from[r] \in StartPos .. high
    /\ pc[r] = "reply" => from[r] <= upto[r] /\ upto[r] <= Len(chain)

IInv == CronTypeOK /\ SliceStored /\ EligibleUnlessStale /\ \A r \in Runs : StepBegan(r)

\* The inductive invariant holds of an empty database.
LEMMA InvInit == Init => IInv
<1> SUFFICES ASSUME Init PROVE IInv
  OBVIOUS
<1>1. CronTypeOK
  <2>1. StoreTypeOK /\ high \in Int
    BY DEF Init, StoreInit, StoreTypeOK, None
  <2>2. /\ pc \in [Runs -> {"idle", "request", "reply"}]
        /\ from \in [Runs -> Nat] /\ upto \in [Runs -> Nat]
    BY DEF Init
  <2>3. stale \in BOOLEAN
    BY DEF Init
  <2> QED
    BY <2>1, <2>2, <2>3, Zenon DEF CronTypeOK
<1>2. SliceStored /\ EligibleUnlessStale /\ \A r \in Runs : StepBegan(r)
  BY DEF Init, StoreInit, SliceStored, EligibleUnlessStale, StepBegan
<1> QED
  BY <1>1, <1>2 DEF IInv

\* The chain growing and thresholds being cached disturb nothing.
LEMMA SurroundingsStep ==
    ASSUME IInv, Surroundings, UNCHANGED <<runVars, historyVars>>
    PROVE  IInv'
<1> USE DEF None
<1>1. CronTypeOK'
  <2>1. StoreTypeOK'
    BY SurroundingsType DEF IInv, CronTypeOK
  <2> QED
    BY <2>1 DEF IInv, CronTypeOK, runVars, historyVars
<1>2. CASE Emit
  <2>1. PICK e \in Bodies : chain' = Append(chain, e)
    BY <1>2 DEF Emit
  <2>2. chain \in Seq(Bodies) /\ Len(chain') = Len(chain) + 1
    BY <2>1 DEF IInv, CronTypeOK, StoreTypeOK
  <2>3. UNCHANGED <<cursor, rows, eligible, base>>
    BY <1>2 DEF Emit, dbVars
  <2>4. SliceStored' /\ EligibleUnlessStale'
    <3>1. CASE base = None
      BY <3>1, <2>3, CronAssumption
         DEF IInv, SliceStored, EligibleUnlessStale, historyVars
    <3>2. CASE base # None
      <4>1. /\ base = StartPos /\ base \in Nat /\ cursor \in base .. high
            /\ high \in Nat /\ high <= Len(chain)
        BY <3>2, CronAssumption DEF IInv, SliceStored
      <4>2. /\ RowsOf(chain', base, high) = RowsOf(chain, base, high)
            /\ Readable(chain', base, high) = Readable(chain, base, high)
        BY <2>1, <2>2, <4>1, AppendKeepsSlices
      <4>3. EligibleOn(chain', base, cursor) = EligibleOn(chain, base, cursor)
        <5>1. cursor \in Nat /\ cursor <= Len(chain)
          BY <4>1, <2>2
        <5> QED
          BY <2>1, <2>2, <4>1, <5>1, AppendKeepsSlices
      <4>4. SliceStored'
        BY <2>2, <2>3, <3>2, <4>1, <4>2 DEF IInv, SliceStored, historyVars
      <4>5. EligibleUnlessStale'
        BY <2>3, <4>3 DEF IInv, EligibleUnlessStale, historyVars
      <4> QED
        BY <4>4, <4>5
    <3> QED
      BY <3>1, <3>2
  <2>5. \A r \in Runs : StepBegan(r)'
    BY <2>2 DEF IInv, CronTypeOK, StepBegan, runVars, historyVars
  <2> QED
    BY <1>1, <2>4, <2>5 DEF IInv
<1>3. ASSUME NEW s \in Slas, Backfill(s)
      PROVE  IInv'
  <2>1. SliceStored' /\ EligibleUnlessStale' /\ \A r \in Runs : StepBegan(r)'
    BY <1>3 DEF Backfill, IInv, SliceStored, EligibleUnlessStale, StepBegan,
                runVars, historyVars
  <2> QED
    BY <1>1, <2>1 DEF IInv
<1> QED
  BY <1>2, <1>3 DEF Surroundings

\* A step that only moves steps in flight leaves the database's part of the
\* invariant as it was.
LEMMA DatabaseUntouched ==
    ASSUME IInv, UNCHANGED <<chain, dbVars, historyVars>>
    PROVE  StoreTypeOK' /\ SliceStored' /\ EligibleUnlessStale'
BY DEF IInv, CronTypeOK, StoreTypeOK, SliceStored, EligibleUnlessStale, dbVars, historyVars

\* What a page of a step in flight adds to the slice.  A page that ends inside
\* the slice adds nothing, and one that reaches past it adds what is missing.
LEMMA ApplyExtends ==
    ASSUME IInv, NEW r \in Runs, Apply(r)
    PROVE  \/ /\ base = None /\ rows = {} /\ cursor = None /\ eligible = {}
              /\ from[r] = StartPos /\ high' = upto[r]
           \/ /\ base # None /\ from[r] \in base .. high /\ upto[r] <= high
              /\ high' = high /\ rows' = rows
           \/ /\ base # None /\ from[r] \in base .. high /\ upto[r] > high
              /\ high' = upto[r] /\ rows' = rows \cup RowsOf(chain, high, upto[r])
              /\ Readable(chain, high, upto[r])
<1> USE DEF None
<1>1. /\ pc[r] = "reply" /\ Readable(chain, from[r], upto[r])
      /\ rows' = rows \cup RowsOf(chain, from[r], upto[r])
      /\ high' = IF high < upto[r] THEN upto[r] ELSE high
  BY DEF Apply, ApplyBatch, ReadablePage, Greatest
<1>2. from[r] \in Nat /\ upto[r] \in Nat /\ from[r] <= upto[r] /\ StartPos \in Nat
  BY <1>1, CronAssumption DEF IInv, CronTypeOK, StepBegan
<1>3. from[r] = StartPos \/ from[r] \in StartPos .. high
  BY <1>1 DEF IInv, StepBegan
<1>4. CASE base = None
  <2>1. high = None /\ rows = {} /\ cursor = None /\ eligible = {}
    BY <1>2, <1>4 DEF IInv, SliceStored
  <2> QED
    BY <1>1, <1>2, <1>3, <1>4, <2>1
<1>5. CASE base # None
  <2>1. /\ base = StartPos /\ high \in Nat /\ base <= high
        /\ rows = RowsOf(chain, base, high)
    BY <1>2, <1>5 DEF IInv, SliceStored
  <2>2. from[r] \in base .. high
    BY <1>2, <1>3, <2>1
  <2>3. CASE upto[r] <= high
    <3>1. RowsOf(chain, from[r], upto[r]) \subseteq rows
      BY <1>2, <2>1, <2>2, <2>3 DEF RowsOf
    <3> QED
      BY <1>1, <1>2, <1>5, <2>1, <2>2, <2>3, <3>1
  <2>4. CASE upto[r] > high
    <3>1. RowsOf(chain, from[r], upto[r])
            = RowsOf(chain, from[r], high) \cup RowsOf(chain, high, upto[r])
      BY <1>2, <2>1, <2>2, <2>4, RowsOfSplit
    <3>2. RowsOf(chain, from[r], high) \subseteq rows
      BY <1>2, <2>1, <2>2 DEF RowsOf
    <3>3. Readable(chain, high, upto[r])
      BY <1>1, <1>2, <2>1, <2>2, <2>4, ReadableSplit
    <3> QED
      BY <1>1, <1>2, <1>5, <2>1, <2>2, <2>4, <3>1, <3>2, <3>3
  <2> QED
    BY <1>2, <2>1, <2>3, <2>4
<1> QED
  BY <1>4, <1>5

\* A batch is written: the slice keeps its start and covers its page.
LEMMA ApplyStep ==
    ASSUME IInv, NEW r \in Runs, Apply(r)
    PROVE  IInv'
<1> USE DEF None
<1>1. /\ pc[r] = "reply" /\ Readable(chain, from[r], upto[r])
      /\ ApplyBatch(from[r], upto[r])
      /\ high' = IF high < upto[r] THEN upto[r] ELSE high
      /\ pc' = [pc EXCEPT ![r] = "idle"]
      /\ UNCHANGED <<chain, from, upto>>
  BY DEF Apply, ApplyBatch, ReadablePage, Greatest, Goto
<1>2. /\ cursor' = upto[r]
      /\ base' = IF base = None THEN from[r] ELSE base
      /\ rows' = rows \cup RowsOf(chain, from[r], upto[r])
      /\ eligible' = EligibleAfter(chain, from[r], upto[r], eligible)
  BY <1>1 DEF ApplyBatch, CursorStored
<1>3. /\ from[r] \in Nat /\ upto[r] \in Nat /\ from[r] <= upto[r]
      /\ upto[r] <= Len(chain) /\ StartPos \in Nat /\ high \in Int
  BY <1>1, CronAssumption DEF IInv, CronTypeOK, StepBegan
<1>4. CronTypeOK'
  <2>1. StoreTypeOK'
    BY <1>1, <1>3, ApplyType DEF IInv, CronTypeOK
  <2>2. /\ pc' \in [Runs -> {"idle", "request", "reply"}]
        /\ from' \in [Runs -> Nat] /\ upto' \in [Runs -> Nat] /\ high' \in Int
    BY <1>1, <1>3 DEF IInv, CronTypeOK
  <2>3. stale' \in BOOLEAN
    BY DEF Apply
  <2> QED
    BY <2>1, <2>2, <2>3, Zenon DEF CronTypeOK
<1>5. SliceStored'
  <2>1. CASE base = None
    <3>1. rows = {} /\ from[r] = StartPos /\ high' = upto[r]
      BY <2>1, ApplyExtends
    <3> QED
      BY <1>1, <1>2, <1>3, <2>1, <3>1 DEF SliceStored
  <2>2. CASE base # None
    <3>1. /\ base = StartPos /\ high \in Nat /\ high <= Len(chain)
          /\ rows = RowsOf(chain, base, high) /\ Readable(chain, base, high)
      BY <1>3, <2>2 DEF IInv, SliceStored
    <3>2. CASE upto[r] <= high
      <4>1. from[r] \in base .. high /\ high' = high /\ rows' = rows
        BY <2>2, <3>2, ApplyExtends, <1>3
      <4> QED
        BY <1>1, <1>2, <1>3, <2>2, <3>1, <3>2, <4>1 DEF SliceStored
    <3>3. CASE upto[r] > high
      <4>1. /\ from[r] \in base .. high /\ high' = upto[r]
            /\ rows' = rows \cup RowsOf(chain, high, upto[r])
            /\ Readable(chain, high, upto[r])
        BY <2>2, <3>3, ApplyExtends, <1>3
      <4>2. rows' = RowsOf(chain, base, upto[r])
        BY <1>3, <3>1, <3>3, <4>1, RowsOfSplit
      <4>3. Readable(chain, base, upto[r])
        BY <1>3, <3>1, <3>3, <4>1, ReadableSplit
      <4> QED
        BY <1>1, <1>2, <1>3, <2>2, <3>1, <3>3, <4>1, <4>2, <4>3 DEF SliceStored
    <3> QED
      BY <1>3, <3>1, <3>2, <3>3
  <2> QED
    BY <2>1, <2>2
<1>6. EligibleUnlessStale'
  <2> SUFFICES ASSUME ~stale' PROVE eligible' = EligibleOn(chain', base', cursor')
    BY DEF EligibleUnlessStale
  <2>1. ~stale /\ (cursor = None \/ cursor = from[r])
    BY DEF Apply
  <2>2. CASE base = None
    <3>1. eligible = {}
      BY <2>2, ApplyExtends
    <3>2. eligible' = EligibleOn(chain, from[r], upto[r])
      BY <1>2, <3>1 DEF EligibleAfter, EligibleOn
    <3> QED
      BY <1>1, <1>2, <2>2, <3>2
  <2>3. CASE base # None
    <3>1. base \in Nat /\ cursor \in Nat /\ base <= cursor
      BY <1>3, <2>3 DEF IInv, SliceStored
    <3>2. cursor = from[r] /\ eligible = EligibleOn(chain, base, from[r])
      BY <2>1, <3>1 DEF IInv, EligibleUnlessStale
    <3>3. eligible' = EligibleOn(chain, base, upto[r])
      BY <1>2, <1>3, <3>1, <3>2, EligibleSplit
    <3> QED
      BY <1>1, <1>2, <2>3, <3>3
  <2> QED
    BY <2>2, <2>3
<1>7. \A q \in Runs : StepBegan(q)'
  <2> TAKE q \in Runs
  <2>1. high' \in Int /\ high <= high'
    BY <1>1, <1>3
  <2>2. CASE q = r
    BY <1>1, <2>2 DEF StepBegan, IInv, CronTypeOK
  <2>3. CASE q # r
    <3>1. pc'[q] = pc[q] /\ from'[q] = from[q] /\ upto'[q] = upto[q]
      BY <1>1, <2>3 DEF IInv, CronTypeOK
    <3> QED
      BY <1>1, <1>3, <2>1, <3>1 DEF IInv, StepBegan
  <2> QED
    BY <2>2, <2>3
<1> QED
  BY <1>4, <1>5, <1>6, <1>7 DEF IInv

\* A step in flight moves and nothing else does.
LEMMA RunStep ==
    ASSUME IInv, NEW r \in Runs, Trigger(r) \/ Reply(r) \/ Abandon(r)
    PROVE  IInv'
<1> USE DEF None
<1>1. UNCHANGED <<chain, dbVars, historyVars>>
  BY DEF Trigger, Reply, Abandon
<1>2. StoreTypeOK' /\ SliceStored' /\ EligibleUnlessStale'
  BY <1>1, DatabaseUntouched
<1>3. high' = high /\ stale' = stale /\ chain' = chain
  BY <1>1 DEF historyVars
<1>4. /\ pc' \in [Runs -> {"idle", "request", "reply"}]
      /\ from' \in [Runs -> Nat] /\ upto' \in [Runs -> Nat]
      /\ \A q \in Runs : StepBegan(q)'
  <2> USE DEF IInv, CronTypeOK, StoreTypeOK, StepBegan, Goto
  <2>1. CASE Trigger(r)
    <3> DEFINE begun == IF cursor # None THEN cursor ELSE StartPos
    <3>1. begun \in Nat /\ (begun = StartPos \/ begun \in StartPos .. high)
      BY CronAssumption DEF SliceStored
    <3>2. /\ from' = [from EXCEPT ![r] = begun] /\ upto' = upto
          /\ pc' = [pc EXCEPT ![r] = "request"]
      BY <2>1 DEF Trigger
    <3> HIDE DEF begun
    <3> QED
      BY <1>3, <3>1, <3>2
  <2>2. CASE Reply(r)
    <3>1. PICK n \in PageEnds(r) : upto' = [upto EXCEPT ![r] = n]
      BY <2>2 DEF Reply
    <3>2. n \in Nat /\ from[r] <= n /\ n <= Len(chain)
      <4>1. from[r] \in Nat /\ Len(chain) \in Nat /\ Limit \in Nat
        BY CronAssumption
      <4> QED
        BY <3>1, <4>1 DEF PageEnds, Least
    <3>3. from' = from /\ pc' = [pc EXCEPT ![r] = "reply"] /\ pc[r] = "request"
      BY <2>2 DEF Reply
    <3> QED
      BY <1>3, <3>1, <3>2, <3>3
  <2>3. CASE Abandon(r)
    BY <1>3, <2>3 DEF Abandon
  <2> QED
    BY <2>1, <2>2, <2>3
<1>5. stale' \in BOOLEAN /\ high' \in Int
  BY <1>3 DEF IInv, CronTypeOK
<1>6. CronTypeOK'
  BY <1>2, <1>4, <1>5, Zenon DEF CronTypeOK
<1> QED
  BY <1>2, <1>4, <1>6 DEF IInv

\* Every step of an invocation, a handler or a contract keeps it.
LEMMA InvNext == IInv /\ [Next]_vars => IInv'
<1> SUFFICES ASSUME IInv, [Next]_vars PROVE IInv'
  OBVIOUS
<1>1. CASE Surroundings /\ UNCHANGED <<runVars, historyVars>>
  BY <1>1, SurroundingsStep
<1>2. ASSUME NEW r \in Runs, Trigger(r) \/ Reply(r) \/ Abandon(r)
      PROVE  IInv'
  BY <1>2, RunStep
<1>3. ASSUME NEW r \in Runs, Apply(r)
      PROVE  IInv'
  BY <1>3, ApplyStep
<1>4. CASE UNCHANGED vars
  <2>1. UNCHANGED <<chain, dbVars, historyVars>> /\ UNCHANGED runVars
    BY <1>4 DEF vars, dbVars, historyVars, runVars
  <2>2. StoreTypeOK' /\ SliceStored' /\ EligibleUnlessStale'
    BY <2>1, DatabaseUntouched
  <2>3. CronTypeOK'
    BY <2>1, <2>2, Zenon DEF IInv, CronTypeOK, historyVars, runVars
  <2>4. \A r \in Runs : StepBegan(r)'
    BY <2>1 DEF IInv, StepBegan, historyVars, runVars
  <2> QED
    BY <2>2, <2>3, <2>4 DEF IInv
<1> QED
  BY <1>1, <1>2, <1>3, <1>4 DEF Next

\* So it holds throughout.
LEMMA Invariant == Spec => []IInv
BY InvInit, InvNext, PTL DEF Spec

----------------------------------------------------------------------------
(* The theorems.                                                            *)

\* Every variable stays in its type, however steps overlap.
THEOREM CronTypeCorrect == Spec => []CronTypeOK
<1>1. IInv => CronTypeOK
  BY DEF IInv
<1> QED
  BY <1>1, Invariant, PTL

\* The checkpoint is never ahead of what was stored, even when a late step
\* moves it back and a later one jumps it forward.
THEOREM CronNeverAhead == Spec => []CheckpointNeverAhead
<1>1. IInv => CheckpointNeverAhead
  <2> SUFFICES ASSUME IInv, cursor # None, NEW p \in (base + 1) .. cursor
               PROVE  Covered(p)
    BY DEF CheckpointNeverAhead
  <2>1. /\ rows = RowsOf(chain, base, high) /\ Readable(chain, base, high)
        /\ p \in (base + 1) .. high
    BY CronAssumption DEF IInv, SliceStored, None
  <2>2. ~Throws(chain[p])
    BY <2>1 DEF Readable
  <2>3. Persisted(chain[p]) => Row(chain, p) \in rows
    BY <2>1 DEF RowsOf
  <2> QED
    BY <2>2, <2>3 DEF Covered
<1> QED
  BY <1>1, Invariant, PTL

\* The watchers table is right as long as no batch was written over a
\* checkpoint it had not read: overlap alone, without that, does no harm.
THEOREM CronEligibleUnlessStale == Spec => []EligibleUnlessStale
<1>1. IInv => EligibleUnlessStale
  BY DEF IInv
<1> QED
  BY <1>1, Invariant, PTL

\* A cached threshold stays cached.
THEOREM CronThresholdsStay == Spec => ThresholdsStayCached
<1>1. [Next]_vars => [filled \subseteq filled']_filled
  BY DEF Next, Surroundings, Emit, Backfill, Trigger, Reply, Apply, Abandon,
         ApplyBatch, ThresholdsKept, vars, dbVars
<1> QED
  BY <1>1, PTL DEF Spec, ThresholdsStayCached

\* The mirror reads a slice of the log as the Worker does.
LEMMA MirrorReadsAlike ==
    ASSUME NEW log, NEW a, NEW b
    PROVE  /\ Mirror!Readable(log, a, b) = Readable(log, a, b)
           /\ Mirror!RowsOf(log, a, b) = RowsOf(log, a, b)
BY Zenon DEF Mirror!Readable, Mirror!Throws, Mirror!PayloadTopics,
             Mirror!RowsOf, Mirror!Row, Mirror!Key, Mirror!TableOf, Mirror!Persisted,
             Readable, Throws, PayloadTopics, RowsOf, Row, Key, TableOf, Persisted

\* A batch opens the mirrored slice, extends it, or is invisible.
LEMMA ApplyMirrors ==
    ASSUME IInv, NEW r \in Runs, Apply(r)
    PROVE  [Mirror!Next]_(Mirror!vars)
<1> USE DEF None, Mirror!None
<1>1. /\ pc[r] = "reply" /\ Readable(chain, from[r], upto[r])
      /\ rows' = rows \cup RowsOf(chain, from[r], upto[r])
      /\ base' = IF base = None THEN from[r] ELSE base
      /\ UNCHANGED chain
  BY DEF Apply, ApplyBatch, ReadablePage
<1>2. /\ from[r] \in Nat /\ upto[r] \in Nat /\ from[r] <= upto[r]
      /\ upto[r] <= Len(chain) /\ Len(chain) \in Nat
  BY <1>1 DEF IInv, CronTypeOK, StoreTypeOK, StepBegan
<1>3. CASE base = None
  <2>1. rows = {} /\ high' = upto[r]
    BY <1>3, ApplyExtends
  <2>2. from[r] \in 0 .. Len(chain) /\ upto[r] \in from[r] .. Len(chain)
    BY <1>2
  <2>3. Mirror!Open
    BY <1>1, <1>3, <2>1, <2>2, MirrorReadsAlike DEF Mirror!Open
  <2> QED
    BY <2>3 DEF Mirror!Next
<1>4. CASE base # None
  <2>1. base' = base /\ high \in Nat
    BY <1>1, <1>4, CronAssumption DEF IInv, SliceStored
  <2>2. CASE upto[r] <= high
    <3>1. high' = high /\ rows' = rows
      BY <1>2, <1>4, <2>1, <2>2, ApplyExtends
    <3> QED
      BY <1>1, <2>1, <3>1 DEF Mirror!vars
  <2>3. CASE upto[r] > high
    <3>1. /\ high' = upto[r] /\ rows' = rows \cup RowsOf(chain, high, upto[r])
          /\ Readable(chain, high, upto[r])
      BY <1>2, <1>4, <2>1, <2>3, ApplyExtends
    <3>2. upto[r] \in (high + 1) .. Len(chain)
      BY <1>2, <2>1, <2>3
    <3>3. Mirror!Extend
      BY <1>1, <1>4, <2>1, <3>1, <3>2, MirrorReadsAlike DEF Mirror!Extend
    <3> QED
      BY <3>3 DEF Mirror!Next
  <2> QED
    BY <1>2, <2>1, <2>2, <2>3
<1> QED
  BY <1>3, <1>4

\* Every step is one of EventMirror's, or changes nothing it speaks of.
LEMMA StepMirrors == IInv /\ [Next]_vars => [Mirror!Next]_(Mirror!vars)
<1> SUFFICES ASSUME IInv, [Next]_vars PROVE [Mirror!Next]_(Mirror!vars)
  OBVIOUS
<1>1. CASE Emit /\ UNCHANGED <<runVars, historyVars>>
  BY <1>1 DEF Emit, dbVars, historyVars, Mirror!Grow, Mirror!Next
<1>2. ASSUME NEW r \in Runs, Apply(r)
      PROVE  [Mirror!Next]_(Mirror!vars)
  BY <1>2, ApplyMirrors
<1>3. CASE UNCHANGED <<chain, base, high, rows>>
  BY <1>3 DEF Mirror!vars
<1>4. \/ Emit /\ UNCHANGED <<runVars, historyVars>>
      \/ \E r \in Runs : Apply(r)
      \/ UNCHANGED <<chain, base, high, rows>>
  BY DEF Next, Surroundings, Backfill, Trigger, Reply, Abandon, vars, dbVars, historyVars
<1> QED
  BY <1>1, <1>2, <1>3, <1>4

\* The Worker implements EventMirror with the furthest position stored as the
\* slice's end: overlapping, late and repeated batches add nothing wrong.
THEOREM CronRefinesMirror == Spec => ImplementsMirror
<1>1. Init => Mirror!Init
  BY DEF Init, StoreInit, Mirror!Init, None, Mirror!None
<1>2. IInv /\ [Next]_vars => [Mirror!Next]_(Mirror!vars)
  BY StepMirrors
<1> QED
  BY <1>1, <1>2, Invariant, PTL DEF Spec, ImplementsMirror, Mirror!Spec

=============================================================================
