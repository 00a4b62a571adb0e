------------------------- MODULE IndexerStoreProofs -------------------------
(***************************************************************************)
(* Facts on which the proofs about the two ingestions rest.  Slices of the *)
(* log compose, a longer log does not change them, and applying the next   *)
(* slice's watcher events to the verdict on the first gives the verdict on *)
(* both.  The database keeps its types whatever is stored in it.           *)
(***************************************************************************)
EXTENDS IndexerStore, WellFoundedInduction, TLAPS

----------------------------------------------------------------------------
(* Slices of the log.                                                       *)

\* A set of natural numbers that is bounded and not empty has a largest one.
LEMMA LargestOf ==
    ASSUME NEW c \in Nat, NEW T \in SUBSET (0 .. c), T # {}
    PROVE  \E m \in T : \A q \in T : q <= m
<1> DEFINE D == {c - q : q \in T}
<1>1. D \subseteq Nat /\ D # {}
  <2>1. \A q \in T : c - q \in Nat
    OBVIOUS
  <2> QED
    BY <2>1
<1>2. PICK d \in D : \A e \in D : ~ (<<e, d>> \in OpToRel(<, Nat))
  BY <1>1, NatLessThanWellFounded, WFMin
<1>3. \A e \in D : ~ (e < d)
  BY <1>1, <1>2 DEF OpToRel
<1>4. PICK m \in T : d = c - m
  OBVIOUS
<1>5. \A q \in T : q <= m
  <2> TAKE q \in T
  <2>1. ~ (c - q < c - m)
    BY <1>3, <1>4
  <2> QED
    BY <2>1
<1> QED
  BY <1>5

\* The rows of two adjacent slices are the rows of their union.
LEMMA RowsOfSplit ==
    ASSUME NEW log, NEW a \in Int, NEW b \in Int, NEW c \in Int, a <= b, b <= c
    PROVE  RowsOf(log, a, c) = RowsOf(log, a, b) \cup RowsOf(log, b, c)
<1>1. \A p : p \in (a + 1) .. c <=> p \in (a + 1) .. b \/ p \in (b + 1) .. c
  OBVIOUS
<1> QED
  BY <1>1 DEF RowsOf

\* Two adjacent slices can be classified when the whole can.
LEMMA ReadableSplit ==
    ASSUME NEW log, NEW a \in Int, NEW b \in Int, NEW c \in Int, a <= b, b <= c
    PROVE  Readable(log, a, c) <=> Readable(log, a, b) /\ Readable(log, b, c)
<1>1. \A p : p \in (a + 1) .. c <=> p \in (a + 1) .. b \/ p \in (b + 1) .. c
  OBVIOUS
<1> QED
  BY <1>1 DEF Readable

\* What a slice says depends on its events alone.
LEMMA SameSlice ==
    ASSUME NEW log, NEW more, NEW a \in Int, NEW b \in Int,
           \A p \in (a + 1) .. b : more[p] = log[p]
    PROVE  /\ RowsOf(more, a, b) = RowsOf(log, a, b)
           /\ Readable(more, a, b) = Readable(log, a, b)
           /\ EligibleOn(more, a, b) = EligibleOn(log, a, b)
<1>1. RowsOf(more, a, b) = RowsOf(log, a, b)
  BY DEF RowsOf, Row, Key
<1>2. Readable(more, a, b) = Readable(log, a, b)
  BY DEF Readable
<1>3. \A w \in Watchers : EndsRegistered(more, a, b, w) <=> EndsRegistered(log, a, b, w)
  <2> TAKE w \in Watchers
  <2>1. \A p \in (a + 1) .. b : \A q \in (p + 1) .. b : q \in (a + 1) .. b
    OBVIOUS
  <2> QED
    BY <2>1 DEF EndsRegistered
<1> QED
  BY <1>1, <1>2, <1>3 DEF EligibleOn

\* An event appended to the log is outside every slice of the log.
LEMMA AppendKeepsSlices ==
    ASSUME NEW S, NEW log \in Seq(S), NEW e \in S,
           NEW a \in Nat, NEW b \in Nat, b <= Len(log)
    PROVE  /\ RowsOf(Append(log, e), a, b) = RowsOf(log, a, b)
           /\ Readable(Append(log, e), a, b) = Readable(log, a, b)
           /\ EligibleOn(Append(log, e), a, b) = EligibleOn(log, a, b)
<1>1. PICK more : more = Append(log, e)
  OBVIOUS
<1>2. \A p \in (a + 1) .. b : more[p] = log[p]
  BY <1>1
<1>3. a \in Int /\ b \in Int
  OBVIOUS
<1>4. /\ RowsOf(more, a, b) = RowsOf(log, a, b)
      /\ Readable(more, a, b) = Readable(log, a, b)
      /\ EligibleOn(more, a, b) = EligibleOn(log, a, b)
  BY <1>2, <1>3, SameSlice, Zenon
<1> QED
  BY <1>1, <1>4, Zenon

\* A watcher with an event in the slice has a last one, and it is either a
\* registration or a removal.
LEMMA LastWatcherEvent ==
    ASSUME NEW log, NEW a \in Nat, NEW b \in Nat, NEW w,
           NEW p \in (a + 1) .. b, Registers(log[p], w) \/ Removes(log[p], w)
    PROVE  EndsRegistered(log, a, b, w) \/ EndsRemoved(log, a, b, w)
<1> DEFINE T == {q \in (a + 1) .. b : Registers(log[q], w) \/ Removes(log[q], w)}
<1>1. T \in SUBSET (0 .. b) /\ T # {}
  OBVIOUS
<1>2. PICK m \in T : \A q \in T : q <= m
  BY <1>1, LargestOf
<1>3. \A q \in (m + 1) .. b : ~Registers(log[q], w) /\ ~Removes(log[q], w)
  BY <1>2
<1> QED
  BY <1>3 DEF EndsRegistered, EndsRemoved

\* Applying the watcher events of a slice to the verdict on the slice before
\* it gives the verdict on both: pages compose.
LEMMA EligibleSplit ==
    ASSUME NEW log, NEW a \in Nat, NEW b \in Nat, NEW c \in Nat, a <= b, b <= c
    PROVE  EligibleOn(log, a, c) = EligibleAfter(log, b, c, EligibleOn(log, a, b))
<1> SUFFICES ASSUME NEW w \in Watchers
             PROVE  EndsRegistered(log, a, c, w) <=>
                      \/ EndsRegistered(log, b, c, w)
                      \/ EndsRegistered(log, a, b, w) /\ ~EndsRemoved(log, b, c, w)
  BY DEF EligibleOn, EligibleAfter
<1>1. ASSUME EndsRegistered(log, a, c, w), ~EndsRegistered(log, b, c, w)
      PROVE  EndsRegistered(log, a, b, w) /\ ~EndsRemoved(log, b, c, w)
  <2>1. PICK p \in (a + 1) .. c : /\ Registers(log[p], w)
                                  /\ \A q \in (p + 1) .. c : ~Removes(log[q], w)
    BY <1>1 DEF EndsRegistered
  <2>2. p \in (a + 1) .. b
    BY <1>1, <2>1 DEF EndsRegistered
  <2>3. EndsRegistered(log, a, b, w)
    BY <2>1, <2>2 DEF EndsRegistered
  <2>4. ~EndsRemoved(log, b, c, w)
    BY <2>1, <2>2 DEF EndsRemoved
  <2> QED
    BY <2>3, <2>4
<1>2. ASSUME EndsRegistered(log, b, c, w)
      PROVE  EndsRegistered(log, a, c, w)
  BY <1>2 DEF EndsRegistered
<1>3. ASSUME EndsRegistered(log, a, b, w), ~EndsRemoved(log, b, c, w)
      PROVE  EndsRegistered(log, a, c, w)
  <2>1. PICK p \in (a + 1) .. b : /\ Registers(log[p], w)
                                  /\ \A q \in (p + 1) .. b : ~Removes(log[q], w)
    BY <1>3 DEF EndsRegistered
  <2>2. CASE \E q \in (b + 1) .. c : Removes(log[q], w)
    <3>1. EndsRegistered(log, b, c, w)
      BY <1>3, <2>2, LastWatcherEvent
    <3> QED
      BY <3>1, <1>2
  <2>3. CASE \A q \in (b + 1) .. c : ~Removes(log[q], w)
    <3>1. \A q \in (p + 1) .. c : ~Removes(log[q], w)
      BY <2>1, <2>3
    <3> QED
      BY <2>1, <3>1 DEF EndsRegistered
  <2> QED
    BY <2>2, <2>3
<1> QED
  BY <1>1, <1>2, <1>3

\* An empty slice says nothing.
LEMMA EmptySlice ==
    ASSUME NEW log, NEW a \in Int
    PROVE  /\ RowsOf(log, a, a) = {}
           /\ Readable(log, a, a)
           /\ EligibleOn(log, a, a) = {}
<1>1. (a + 1) .. a = {}
  OBVIOUS
<1> QED
  BY <1>1 DEF RowsOf, Readable, EligibleOn, EndsRegistered

\* The rows of a slice are rows of the tables, keyed by position or by SLA.
LEMMA RowsOfType ==
    ASSUME NEW S \in SUBSET EventBody, NEW log \in Seq(S),
           NEW a \in Nat, NEW b \in Nat, b <= Len(log)
    PROVE  RowsOf(log, a, b) \subseteq Tables \X (Nat \cup Slas)
<1> SUFFICES ASSUME NEW p \in (a + 1) .. b, Persisted(log[p])
             PROVE  Row(log, p) \in Tables \X (Nat \cup Slas)
  BY DEF RowsOf
<1>1. log[p] \in EventBody /\ p \in Nat
  OBVIOUS
<1>2. log[p].topic \in {"check_submitted", "sla_created", "settlement_paid",
                        "bond_topped_up", "sla_cancelled", "bond_withdrawn"}
  BY DEF Persisted, TableOf
<1>3. TableOf[log[p].topic] \in Tables
  BY <1>2 DEF TableOf, Tables
<1>4. Key(log, p) \in Nat \cup Slas
  BY <1>1 DEF Key, EventBody, WatcherTopics, PayloadTopics
<1> QED
  BY <1>3, <1>4 DEF Row

----------------------------------------------------------------------------
(* The database.                                                            *)

\* The surroundings of an ingestion keep the database's types.
LEMMA SurroundingsType ==
    ASSUME StoreTypeOK, Surroundings
    PROVE  StoreTypeOK'
<1>1. CASE Emit
  <2>1. PICK e \in Bodies : chain' = Append(chain, e)
    BY <1>1 DEF Emit
  <2>2. chain' \in Seq(Bodies)
    BY <2>1 DEF StoreTypeOK
  <2> QED
    BY <1>1, <2>2 DEF Emit, StoreTypeOK, dbVars
<1>2. ASSUME NEW s \in Slas, Backfill(s)
      PROVE  StoreTypeOK'
  <2>1. SettlementsOf(s) \subseteq Nat
    BY DEF SettlementsOf
  <2> QED
    BY <1>2, <2>1 DEF Backfill, StoreTypeOK
<1> QED
  BY <1>1, <1>2 DEF Surroundings

\* Applying a page of the chain keeps the database's types.
LEMMA ApplyType ==
    ASSUME StoreTypeOK, NEW a \in Nat, NEW b \in Nat, b <= Len(chain), ApplyBatch(a, b)
    PROVE  StoreTypeOK'
<1>1. RowsOf(chain, a, b) \subseteq Tables \X (Nat \cup Slas)
  BY StoreAssumption, RowsOfType DEF StoreTypeOK
<1>2. EligibleAfter(chain, a, b, eligible) \subseteq Watchers
  BY DEF EligibleAfter
<1> QED
  BY <1>1, <1>2 DEF ApplyBatch, StoreTypeOK, CursorStored, ThresholdsKept

=============================================================================
