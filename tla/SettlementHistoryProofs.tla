------------------------ MODULE SettlementHistoryProofs ------------------------
(***************************************************************************)
(* The settlements endpoint and the history shown from it, for any log,    *)
(* page size, number of open requests and reloads.                         *)
(***************************************************************************)
EXTENDS SettlementHistory, IndexerStoreProofs, FiniteSetTheorems

----------------------------------------------------------------------------
(* A finite set of positions, from its largest down.                        *)

\* How many members are larger.
Rank(S, p) == Cardinality({r \in S : r > p})

\* Of two members the larger one has the smaller rank, and a rank is a position of the
\* set's list.
LEMMA RankOrders ==
    ASSUME NEW S \in SUBSET Nat, IsFiniteSet(S)
    PROVE  /\ \A p \in S : Rank(S, p) \in 0 .. Cardinality(S) - 1
           /\ \A p, r \in S : r > p => Rank(S, r) < Rank(S, p)
<1>1. ASSUME NEW p \in S
      PROVE  /\ IsFiniteSet({r \in S : r > p})
             /\ Rank(S, p) \in 0 .. Cardinality(S) - 1
  <2>1. {r \in S : r > p} \in SUBSET S /\ {r \in S : r > p} # S
    OBVIOUS
  <2>2. /\ IsFiniteSet({r \in S : r > p})
        /\ Rank(S, p) <= Cardinality(S)
        /\ Rank(S, p) # Cardinality(S)
    BY <2>1, FS_Subset DEF Rank
  <2>3. Cardinality(S) \in Nat /\ Rank(S, p) \in Nat
    BY <2>2, FS_CardinalityType DEF Rank
  <2> QED
    BY <2>2, <2>3
<1>2. ASSUME NEW p \in S, NEW r \in S, r > p
      PROVE  Rank(S, r) < Rank(S, p)
  <2> DEFINE above(x) == {t \in S : t > x}
  <2>1. above(r) \in SUBSET above(p) /\ r \in above(p) /\ r \notin above(r)
    <3>1. \A t \in S : t > r => t > p
      BY <1>2
    <3>2. ~ (r > r)
      OBVIOUS
    <3> QED
      BY <1>2, <3>1, <3>2
  <2>2. IsFiniteSet(above(p))
    BY <1>1
  <2>3. above(r) # above(p)
    BY <2>1
  <2> HIDE DEF above
  <2>4. Cardinality(above(r)) <= Cardinality(above(p)) /\ Cardinality(above(r)) # Cardinality(above(p))
    BY <2>1, <2>2, <2>3, FS_Subset
  <2>5. Rank(S, r) = Cardinality(above(r)) /\ Rank(S, p) = Cardinality(above(p))
    BY DEF Rank, above
  <2>6. Rank(S, r) \in Nat /\ Rank(S, p) \in Nat
    <3>1. Cardinality(S) \in Nat
      BY FS_CardinalityType
    <3> QED
      BY <1>1, <3>1, Rank(S, r) \in 0 .. Cardinality(S) - 1, Rank(S, p) \in 0 .. Cardinality(S) - 1
  <2> QED
    BY <2>4, <2>5, <2>6
<1> QED
  BY <1>1, <1>2

\* Every position of the list is some member's rank.
LEMMA RankReaches ==
    ASSUME NEW S \in SUBSET Nat, IsFiniteSet(S), NEW k \in 0 .. Cardinality(S) - 1
    PROVE  \E p \in S : Rank(S, p) = k
<1> DEFINE f == [p \in S |-> Rank(S, p)]
           T == 0 .. Cardinality(S) - 1
<1>1. Cardinality(S) \in Nat
  BY FS_CardinalityType
<1>2. IsFiniteSet(T) /\ Cardinality(T) = Cardinality(S)
  BY <1>1, FS_Interval
<1>3. f \in [S -> T]
  BY RankOrders
<1>4. \A p, r \in S : f[p] = f[r] => p = r
  <2> SUFFICES ASSUME NEW p \in S, NEW r \in S, p # r
               PROVE  Rank(S, p) # Rank(S, r)
    OBVIOUS
  <2>1. Rank(S, p) \in Int /\ Rank(S, r) \in Int
    BY <1>1, RankOrders
  <2>2. p > r \/ r > p
    OBVIOUS
  <2> QED
    BY <2>1, <2>2, RankOrders
<1>5. f \in Injection(S, T)
  BY <1>3, <1>4 DEF Injection, IsInjective
<1>6. f \in Surjection(S, T)
  BY <1>2, <1>5, FS_Injection
<1> QED
  BY <1>6 DEF Surjection

\* The list of a page: it has the page's rows and no other, largest first, and its last
\* one is the page's smallest.
LEMMA RowsInOrder ==
    ASSUME NEW S \in SUBSET Nat, IsFiniteSet(S)
    PROVE  /\ RowsIn(S) \in Seq(S)
           /\ Len(RowsIn(S)) = Cardinality(S)
           /\ \A p \in S : \E i \in 1 .. Cardinality(S) : RowsIn(S)[i] = p
           /\ \A i, j \in 1 .. Cardinality(S) : i < j => RowsIn(S)[i] > RowsIn(S)[j]
           /\ S # {} => /\ Cardinality(S) > 0
                        /\ RowsIn(S)[Cardinality(S)] = Min(S)
                        /\ Min(S) \in S /\ \A p \in S : Min(S) <= p
<1> DEFINE R == RowsIn(S)
           n == Cardinality(S)
<1>1. n \in Nat /\ (n = 0 <=> S = {})
  BY FS_CardinalityType, FS_EmptySet
<1>2. /\ \A p \in S : Rank(S, p) \in 0 .. n - 1
      /\ \A p \in S : p \in Nat
  BY RankOrders
<1>3. ASSUME NEW i \in 1 .. n
      PROVE  R[i] \in S /\ Rank(S, R[i]) = i - 1
  <2>1. i - 1 \in 0 .. n - 1
    BY <1>1
  <2>2. \E p \in S : Rank(S, p) = i - 1
    BY <2>1, RankReaches
  <2>3. R[i] = CHOOSE p \in S : Rank(S, p) = i - 1
    BY DEF RowsIn, Rank
  <2> QED
    BY <2>2, <2>3
<1>4. R = [i \in 1 .. n |-> R[i]]
  <2>1. R = [i \in 1 .. n |-> CHOOSE p \in S : Rank(S, p) = i - 1]
    BY DEF RowsIn, Rank
  <2> HIDE DEF R, n
  <2> QED
    BY <2>1
<1> HIDE DEF R, n
<1>5. R \in Seq(S) /\ Len(R) = n
  <2>1. R \in [1 .. n -> S]
    BY <1>3, <1>4
  <2> QED
    BY <1>1, <2>1
<1>6. \A i, j \in 1 .. n : i < j => R[i] > R[j]
  <2> SUFFICES ASSUME NEW i \in 1 .. n, NEW j \in 1 .. n, i < j, ~(R[i] > R[j])
               PROVE  FALSE
    OBVIOUS
  <2>1. R[i] \in S /\ R[j] \in S /\ Rank(S, R[i]) = i - 1 /\ Rank(S, R[j]) = j - 1
    BY <1>3
  <2>2. R[i] # R[j]
    BY <2>1
  <2>3. R[j] > R[i]
    <3>1. R[i] \in Nat /\ R[j] \in Nat
      BY <1>2, <2>1
    <3> QED
      BY <2>2, <3>1
  <2>4. Rank(S, R[j]) < Rank(S, R[i])
    BY <2>1, <2>3, RankOrders
  <2> QED
    BY <2>1, <2>4
<1>7. \A p \in S : \E i \in 1 .. n : R[i] = p
  <2> SUFFICES ASSUME NEW p \in S
               PROVE  \E i \in 1 .. n : R[i] = p
    OBVIOUS
  <2>1. Rank(S, p) \in 0 .. n - 1
    BY <1>2
  <2> DEFINE i == Rank(S, p) + 1
  <2>2. i \in 1 .. n
    BY <1>1, <2>1
  <2>3. R[i] \in S /\ Rank(S, R[i]) = Rank(S, p)
    BY <1>3, <2>1, <2>2
  <2>4. ~ (R[i] > p) /\ ~ (p > R[i])
    <3>1. Rank(S, R[i]) \in Int
      BY <2>1, <2>3
    <3>2. R[i] > p => Rank(S, R[i]) < Rank(S, p)
      BY <2>3, RankOrders
    <3>3. p > R[i] => Rank(S, p) < Rank(S, R[i])
      BY <2>3, RankOrders
    <3> QED
      BY <2>3, <3>1, <3>2, <3>3
  <2>5. R[i] = p
    <3>1. R[i] \in Nat /\ p \in Nat
      BY <1>2, <2>3
    <3> QED
      BY <2>4, <3>1
  <2> QED
    BY <2>2, <2>5
<1>8. ASSUME S # {}
      PROVE  /\ n > 0 /\ R[n] = Min(S)
             /\ Min(S) \in S /\ \A p \in S : Min(S) <= p
  <2>1. n > 0 /\ n \in 1 .. n
    <3>1. n # 0
      BY <1>1, <1>8
    <3> QED
      BY <1>1, <3>1
  <2>2. R[n] \in S /\ \A p \in S : R[n] <= p
    <3>1. R[n] \in S
      BY <1>3, <2>1
    <3>2. ASSUME NEW p \in S
          PROVE  R[n] <= p
      <4>0. R[n] \in Nat /\ p \in Nat
        BY <1>2, <3>1
      <4>1. PICK i \in 1 .. n : R[i] = p
        BY <1>7
      <4>2. i = n \/ R[i] > R[n]
        BY <1>6, <2>1
      <4> QED
        BY <3>1, <4>1, <4>2, <4>0
    <3> QED
      BY <3>1, <3>2
  <2>3. Min(S) \in S /\ \A p \in S : Min(S) <= p
    BY <2>2 DEF Min
  <2>4. Min(S) = R[n]
    <3>1. R[n] \in Nat /\ Min(S) \in Nat
      BY <1>2, <2>2, <2>3
    <3>2. R[n] <= Min(S) /\ Min(S) <= R[n]
      BY <2>2, <2>3
    <3> QED
      BY <3>1, <3>2
  <2> QED
    BY <2>1, <2>3, <2>4
<1> QED
  BY <1>5, <1>6, <1>7, <1>8 DEF R, n

\* A page of n rows has the newest of them: nothing that was left out is newer than one
\* that is in it, and nothing was left out when there were no more than n.
LEMMA NewestAreTop ==
    ASSUME NEW S \in SUBSET Nat, IsFiniteSet(S), NEW n \in Nat \ {0}
    PROVE  /\ Newest(S, n) \subseteq S
           /\ \A p \in Newest(S, n), r \in S : r > p => r \in Newest(S, n)
           /\ ~(Cardinality(S) > n) => Newest(S, n) = S
           /\ Cardinality(S) > n => Newest(S, n) # {}
<1>1. Newest(S, n) = {p \in S : Rank(S, p) < n}
  BY DEF Newest, Rank
<1>2. Cardinality(S) \in Nat
  BY FS_CardinalityType
<1>3. \A p \in S : Rank(S, p) \in 0 .. Cardinality(S) - 1
  BY RankOrders
<1>4. \A p, r \in S : r > p => Rank(S, r) < Rank(S, p)
  BY RankOrders
<1>5. \A p \in Newest(S, n), r \in S : r > p => r \in Newest(S, n)
  <2> SUFFICES ASSUME NEW p \in S, NEW r \in S, Rank(S, p) < n, r > p
               PROVE  Rank(S, r) < n
    BY <1>1
  <2>1. Rank(S, r) < Rank(S, p)
    BY <1>4
  <2>2. Rank(S, r) \in Int /\ Rank(S, p) \in Int
    BY <1>2, <1>3
  <2> QED
    BY <2>1, <2>2
<1>6. ~(Cardinality(S) > n) => Newest(S, n) = S
  <2> SUFFICES ASSUME ~(Cardinality(S) > n), NEW p \in S
               PROVE  Rank(S, p) < n
    BY <1>1
  <2> QED
    BY <1>2, <1>3
<1>7. Cardinality(S) > n => Newest(S, n) # {}
  <2> SUFFICES ASSUME Cardinality(S) > n
               PROVE  Newest(S, n) # {}
    OBVIOUS
  <2>1. 0 \in 0 .. Cardinality(S) - 1
    BY <1>2
  <2>2. PICK p \in S : Rank(S, p) = 0
    BY <2>1, RankReaches
  <2> QED
    BY <1>1, <2>2
<1> QED
  BY <1>1, <1>5, <1>6, <1>7

----------------------------------------------------------------------------
(* The invariant.                                                           *)

\* The settlements there are to show.
Stored == SettlementsOf(SlaId)

\* Rows are of events up to the checkpoint, so those stored later are newer.
StoredUpToCursor ==
    /\ cursor \in None .. Len(chain)
    /\ \A row \in rows : row[1] = "settlements" => row[2] \in 1 .. cursor

\* A page is a run of settlements, and the last one unless the answer says there is more.
PageIsARun(c) ==
    /\ c.sla = SlaId
    /\ c.page \subseteq Stored
    /\ \A p \in Stored : (\E r, t \in c.page : r <= p /\ p <= t) => p \in c.page
    /\ c.more => c.page # {}
    /\ ~c.more => \A p \in Stored : (\E r \in c.page : p <= r) => p \in c.page

\* On Node the thresholds of a page are those it read until one answer of the vault puts
\* them all in the table.
NodeHandles(c) ==
    \/ /\ c.at = "loop" /\ c.fetches = 0
       /\ c.todo = c.page /\ c.blank \subseteq c.page /\ c.page \ c.blank \subseteq filled
    \/ /\ c.at \in {"loop", "answered"} /\ c.fetches <= 1
       /\ c.blank = {} /\ c.page \subseteq filled
    \/ c.at = "refused" /\ c.fetches <= 1

\* The page asked for by "Load more" starts where the list on screen ends.
Continues(c) ==
    /\ shown # <<>> /\ nextCursor # None
    /\ \A p \in c.page : p < nextCursor
    /\ \A p \in Stored : p < nextCursor /\ (\E r \in c.page : r <= p) => p \in c.page
    /\ ~c.more => \A p \in Stored : p < nextCursor => p \in c.page

\* What is awaited is being handled; and an older page continues the list, unless the
\* list has changed since it was asked for.
AwaitedInv ==
    /\ \A q \in Requests : purpose[q] # "none" => call[q] # Free
    /\ ~mixed => \A q \in Requests \ outdated : purpose[q] = "more" => Continues(call[q])

IInv ==
    /\ HistoryTypeOK
    /\ StoredUpToCursor
    /\ \A q \in Requests : call[q] # Free =>
          PageIsARun(call[q]) /\ (host = "node" => NodeHandles(call[q]))
    /\ AwaitedInv
    /\ SpinnerMeansAwaited
    /\ ~mixed => Shown \subseteq Stored
    /\ ShownIsARun

\* The settlements stored are finitely many positions.
LEMMA StoredFinite ==
    ASSUME StoreTypeOK
    PROVE  Stored \in SUBSET Nat /\ IsFiniteSet(Stored)
<1>1. Len(chain) \in Nat
  BY DEF StoreTypeOK
<1>2. Stored \in SUBSET (1 .. Len(chain))
  BY DEF Stored, SettlementsOf
<1>3. IsFiniteSet(1 .. Len(chain))
  BY <1>1, FS_Interval
<1>4. Stored \in SUBSET Nat
  BY <1>1, <1>2
<1> QED
  BY <1>2, <1>3, <1>4, FS_Subset

\* So is every page.
LEMMA PageFinite ==
    ASSUME IInv, NEW q \in Requests, call[q] # Free
    PROVE  /\ call[q].page \in SUBSET Stored
           /\ call[q].page \in SUBSET Nat /\ IsFiniteSet(call[q].page)
<1>1. call[q].page \in SUBSET Stored
  BY DEF IInv, PageIsARun
<1>2. Stored \in SUBSET Nat /\ IsFiniteSet(Stored)
  BY StoredFinite DEF IInv, HistoryTypeOK, ApiTypeOK
<1> QED
  BY <1>1, <1>2, FS_Subset

\* The only rows of the settlements table in a slice are of its own events.
LEMMA SettlementRowsOf ==
    ASSUME NEW log, NEW a, NEW b, NEW row \in RowsOf(log, a, b), row[1] = "settlements"
    PROVE  row[2] \in (a + 1) .. b
<1>1. PICK p \in (a + 1) .. b : Persisted(log[p]) /\ row = Row(log, p)
  BY DEF RowsOf
<1>2. row[1] = TableOf[log[p].topic] /\ row[2] = Key(log, p)
  BY <1>1 DEF Row
<1>3. log[p].topic = "settlement_paid"
  BY <1>1, <1>2 DEF Persisted, TableOf
<1> QED
  BY <1>2, <1>3 DEF Key

\* The chain and the ingestion keep every settlement and add only newer ones.
LEMMA StoreGrows ==
    ASSUME IInv, Emit \/ Ingest
    PROVE  /\ StoreTypeOK' /\ StoredUpToCursor' /\ filled' = filled
           /\ Stored \subseteq Stored' /\ Stored' \in SUBSET Nat
           /\ \A p \in Stored', r \in Stored : p \in Stored \/ r < p
<1> USE DEF None
<1>1. /\ StoreTypeOK /\ StoredUpToCursor /\ chain \in Seq(Bodies) /\ Len(chain) \in Nat
      /\ cursor \in None .. Len(chain)
  BY DEF IInv, HistoryTypeOK, ApiTypeOK, StoreTypeOK, StoredUpToCursor
<1>2. \A p \in Stored : p \in 1 .. Len(chain) /\ p \in 1 .. cursor
  BY <1>1 DEF Stored, SettlementsOf, StoredUpToCursor
<1>3. ASSUME Emit
      PROVE  StoreTypeOK' /\ StoredUpToCursor' /\ filled' = filled /\ Stored' = Stored
  <2>1. PICK e \in Bodies : chain' = Append(chain, e)
    BY <1>3 DEF Emit
  <2>2. UNCHANGED <<cursor, rows, eligible, filled, base>>
    BY <1>3 DEF Emit, dbVars
  <2>3. /\ chain' \in Seq(Bodies) /\ Len(chain') = Len(chain) + 1
        /\ \A p \in 1 .. Len(chain) : chain'[p] = chain[p]
    BY <1>1, <2>1
  <2>4. StoreTypeOK' /\ StoredUpToCursor'
    BY <1>1, <2>2, <2>3 DEF StoreTypeOK, StoredUpToCursor
  <2>5. \A p \in 1 .. Len(chain') : <<"settlements", p>> \in rows => p \in 1 .. Len(chain)
    BY <1>1, <2>3 DEF StoredUpToCursor
  <2>6. Stored' = Stored
    BY <1>1, <2>2, <2>3, <2>5 DEF Stored, SettlementsOf
  <2> QED
    BY <2>2, <2>4, <2>6
<1>4. ASSUME Ingest
      PROVE  /\ StoreTypeOK' /\ StoredUpToCursor' /\ filled' = filled
             /\ Stored \subseteq Stored'
             /\ \A p \in Stored', r \in Stored : p \in Stored \/ r < p
  <2> DEFINE from == IF cursor = None THEN 0 ELSE cursor
  <2>1. PICK n \in Nat \cap ((cursor + 1) .. Len(chain)) : ApplyBatch(from, n)
    BY <1>4 DEF Ingest
  <2>2. from \in Nat /\ n \in Nat /\ from <= n /\ n <= Len(chain) /\ cursor <= from
    BY <1>1, <2>1
  <2>3. /\ rows' = rows \cup RowsOf(chain, from, n)
        /\ cursor' = n /\ chain' = chain /\ filled' = filled
    BY <2>1 DEF ApplyBatch, CursorStored, ThresholdsKept
  <2>4. StoreTypeOK'
    BY <1>1, <2>1, <2>2, ApplyType
  <2> HIDE DEF from
  <2>5. ASSUME NEW row \in rows', row[1] = "settlements"
        PROVE  \/ row \in rows /\ row[2] \in 1 .. cursor
               \/ row[2] \in (from + 1) .. n
    BY <1>1, <2>3, <2>5, SettlementRowsOf DEF StoredUpToCursor
  <2>6. StoredUpToCursor'
    <3> SUFFICES ASSUME NEW row \in rows', row[1] = "settlements"
                 PROVE  row[2] \in 1 .. n
      BY <1>1, <2>2, <2>3 DEF StoredUpToCursor
    <3> QED
      BY <1>1, <2>2, <2>5
  <2>7. Stored \subseteq Stored'
    BY <2>3 DEF Stored, SettlementsOf
  <2>8. ASSUME NEW p \in Stored', p \notin Stored
        PROVE  p \in (from + 1) .. n
    <3>1. p \in 1 .. Len(chain) /\ chain[p].of = SlaId /\ <<"settlements", p>> \in rows'
      BY <2>3 DEF Stored, SettlementsOf
    <3>2. <<"settlements", p>> \notin rows
      BY <2>8, <3>1 DEF Stored, SettlementsOf
    <3>3. <<"settlements", p>>[2] \in (from + 1) .. n
      BY <2>5, <3>1, <3>2
    <3> QED
      BY <3>3
  <2>9. \A p \in Stored', r \in Stored : p \in Stored \/ r < p
    <3> SUFFICES ASSUME NEW p \in Stored', NEW r \in Stored, p \notin Stored
                 PROVE  r < p
      OBVIOUS
    <3>1. p \in (from + 1) .. n /\ r \in 1 .. cursor
      BY <1>2, <2>8
    <3> QED
      BY <1>1, <2>2, <3>1
  <2> QED
    BY <2>3, <2>4, <2>6, <2>7, <2>9
<1>5. Stored' \in SUBSET Nat
  <2>1. Len(chain') \in Nat
    BY <1>3, <1>4 DEF StoreTypeOK
  <2>2. Stored' \in SUBSET (1 .. Len(chain'))
    BY DEF Stored, SettlementsOf
  <2> QED
    BY <2>1, <2>2
<1> QED
  BY <1>3, <1>4, <1>5

\* What was a run stays one.
LEMMA RunsLast ==
    ASSUME IInv, UNCHANGED <<call, stateVars, host, purpose, history>>,
           Stored \subseteq Stored', Stored' \in SUBSET Nat, filled \subseteq filled',
           \A p \in Stored', r \in Stored : p \in Stored \/ r < p
    PROVE  /\ \A q \in Requests : call'[q] # Free =>
                 PageIsARun(call[q])' /\ (host' = "node" => NodeHandles(call[q])')
           /\ AwaitedInv' /\ SpinnerMeansAwaited'
           /\ ~mixed' => Shown' \subseteq Stored'
           /\ ShownIsARun'
<1> USE DEF stateVars, history
<1>1. Stored \in SUBSET Nat
  BY StoredFinite DEF IInv, HistoryTypeOK, ApiTypeOK
<1>0. ASSUME NEW p \in Stored', NEW r \in Stored, p <= r
      PROVE  p \in Stored
  <2>1. p \in Nat /\ r \in Nat
    BY <1>1
  <2>2. ~ (r < p)
    BY <1>0, <2>1
  <2> QED
    BY <2>2
<1>2. ASSUME NEW q \in Requests, call[q] # Free
      PROVE  PageIsARun(call[q])' /\ (host' = "node" => NodeHandles(call[q])')
  <2>1. PageIsARun(call[q]) /\ call[q].page \in SUBSET Stored
    BY <1>2 DEF IInv, PageIsARun
  <2>2. \A p \in Stored', t \in call[q].page : p <= t => p \in Stored
    BY <1>0, <2>1
  <2>3. PageIsARun(call[q])'
    BY <2>1, <2>2 DEF PageIsARun
  <2>4. host' = "node" => NodeHandles(call[q])'
    BY <1>2 DEF IInv, NodeHandles
  <2> QED
    BY <2>3, <2>4
<1>3. ASSUME ~mixed
      PROVE  Shown' \subseteq Stored'
  BY <1>3 DEF IInv, Shown
<1>4. ShownIsARun'
  <2> SUFFICES ASSUME ~mixed, shown # <<>>
               PROVE  ShownIsARun'
    BY DEF ShownIsARun
  <2>1. shown \in Seq(Nat) /\ 1 \in DOMAIN shown /\ Len(shown) \in DOMAIN shown
    BY DEF IInv, HistoryTypeOK
  <2>2. shown[1] \in Stored /\ shown[Len(shown)] \in Stored
    BY <2>1 DEF IInv, Shown
  <2>3. \A p \in Stored' : p \in shown[Len(shown)] .. shown[1] => p \in Stored
    <3>1. shown[1] \in Nat /\ shown[Len(shown)] \in Nat
      BY <1>1, <2>2
    <3> QED
      BY <1>0, <2>2, <3>1
  <2>4. \A p \in Stored' : p \in Stored \/ p >= shown[Len(shown)]
    <3> SUFFICES ASSUME NEW p \in Stored', p \notin Stored
                 PROVE  p >= shown[Len(shown)]
      OBVIOUS
    <3>1. ~ (p <= shown[Len(shown)])
      BY <1>0, <2>2
    <3>2. p \in Nat /\ shown[Len(shown)] \in Nat
      BY <1>1, <2>2
    <3> QED
      BY <3>1, <3>2
  <2>5. /\ \A i, j \in DOMAIN shown : i < j => shown[i] > shown[j]
        /\ \A p \in Stored : p \in shown[Len(shown)] .. shown[1] => p \in Shown
        /\ nextCursor # None => nextCursor = shown[Len(shown)]
        /\ nextCursor = None => \A p \in Stored : p >= shown[Len(shown)]
    BY DEF IInv, ShownIsARun, Stored
  <2> QED
    BY <2>3, <2>4, <2>5 DEF ShownIsARun, Stored, Shown
<1>5. AwaitedInv'
  <2>1. ASSUME NEW q \in Requests \ outdated, ~mixed, purpose[q] = "more"
        PROVE  Continues(call[q])'
    <3>1. Continues(call[q])
      BY <2>1 DEF IInv, AwaitedInv
    <3>2. ~mixed /\ shown # <<>> /\ nextCursor # None
      BY <2>1, <3>1 DEF Continues
    <3>3. shown \in Seq(Nat) /\ Len(shown) \in DOMAIN shown
      BY <3>2 DEF IInv, HistoryTypeOK
    <3>4. nextCursor = shown[Len(shown)] /\ nextCursor \in Stored
      BY <3>2, <3>3 DEF IInv, ShownIsARun, Shown
    <3>5. \A p \in Stored' : p < nextCursor => p \in Stored
      BY <1>1, <3>4
    <3> QED
      BY <3>1, <3>5 DEF Continues
  <2> QED
    BY <2>1 DEF IInv, AwaitedInv
<1>6. SpinnerMeansAwaited'
  BY DEF IInv, SpinnerMeansAwaited, Awaited
<1> QED
  BY <1>2, <1>3, <1>4, <1>5, <1>6

\* What a handler's step does to the table and to what it holds: its page stays.
LEMMA HandlerMoves ==
    ASSUME IInv, NEW q \in Requests, Handle(q), UNCHANGED host
    PROVE  /\ UNCHANGED <<chain, cursor, rows, eligible, base>>
           /\ filled \subseteq filled' /\ filled' \subseteq Nat
           /\ call[q] # Free
           /\ \E h \in Handler :
                 /\ call' = [call EXCEPT ![q] = h]
                 /\ h.sla = call[q].sla /\ h.page = call[q].page /\ h.more = call[q].more
                 /\ host = "node" => NodeHandles(h)'
<1>1. /\ call \in [Requests -> Handler \cup {Free}] /\ filled \in SUBSET Nat
      /\ host \in Hosts
  BY DEF IInv, HistoryTypeOK, ApiTypeOK, StoreTypeOK
<1>2. PICK c : c = call[q]
  OBVIOUS
<1>3. c.at # "free" /\ c # Free
  BY <1>2 DEF Handle, FetchAnswered, FetchFailed, CacheDone, Answer, InLoop, Free
<1>4. c \in Handler
  BY <1>1, <1>2, <1>3
<1>5. PageIsARun(c) /\ (host = "node" => NodeHandles(c))
  BY <1>2, <1>3 DEF IInv
<1>6. filled \subseteq Cached(c.sla) /\ Cached(c.sla) \subseteq Nat
  <2>1. Len(chain) \in Nat
    BY DEF IInv, HistoryTypeOK, ApiTypeOK, StoreTypeOK
  <2>2. SettlementsOf(c.sla) \subseteq Nat
    BY <2>1 DEF SettlementsOf
  <2> QED
    BY <1>1, <2>2 DEF Cached
<1>7. c.page \subseteq Cached(c.sla)
  BY <1>5 DEF PageIsARun, Stored, Cached
<1>8. /\ c.fetches \in Nat /\ c.fetches + 1 \in Nat /\ c.blank \in SUBSET Nat
      /\ c.todo \in SUBSET Nat /\ c.blank \ c.todo \in SUBSET Nat
      /\ c.at \in {"loop", "cache", "answered", "refused"}
      /\ c = [at |-> c.at, sla |-> c.sla, page |-> c.page, more |-> c.more,
              blank |-> c.blank, todo |-> c.todo, fetches |-> c.fetches]
  BY <1>4 DEF Handler
<1> DEFINE Turned(h) ==
      /\ UNCHANGED <<chain, cursor, rows, eligible, base>>
      /\ filled \subseteq filled' /\ filled' \subseteq Nat
      /\ call' = [call EXCEPT ![q] = h]
      /\ h.sla = c.sla /\ h.page = c.page /\ h.more = c.more
      /\ host = "node" => NodeHandles(h)'
<1> SUFFICES \E h \in Handler : Turned(h)
  BY <1>2, <1>3
<1>9. CASE FetchAnswered(q)
  <2>1. /\ UNCHANGED <<chain, cursor, rows, eligible, base>>
        /\ c.at = "loop" /\ c.todo \cap c.blank # {}
    BY <1>2, <1>9 DEF FetchAnswered, InLoop, Nulls
  <2>2. CASE host = "node" /\ filled' = Cached(c.sla) /\ call' = [call EXCEPT ![q] = FilledAll(c)]
    <3>1. c.fetches = 0 /\ c.todo = c.page /\ c.blank \subseteq c.page
      BY <1>5, <2>1, <2>2 DEF NodeHandles
    <3>2. PICK h : h = [c EXCEPT !.at = "loop", !.blank = {}, !.todo = {}, !.fetches = 1]
      OBVIOUS
    <3>3. /\ h \in Handler /\ h.at = "loop" /\ h.blank = {} /\ h.fetches = 1
          /\ h.sla = c.sla /\ h.page = c.page /\ h.more = c.more
      BY <1>4, <3>2 DEF Handler
    <3>4. FilledAll(c) = h
      <4>1. c.blank \ c.todo = {} /\ c.fetches + 1 = 1
        BY <3>1
      <4> QED
        BY <1>8, <2>1, <3>2, <4>1 DEF FilledAll
    <3>5. NodeHandles(h)'
      BY <1>7, <2>2, <3>3 DEF NodeHandles
    <3> QED
      BY <1>6, <2>1, <2>2, <3>3, <3>4, <3>5
  <2>3. CASE /\ host = "worker" /\ filled' = filled
             /\ call' = [call EXCEPT ![q] = [FilledAll(c) EXCEPT !.at = "cache"]]
    <3>1. PICK h : h = [c EXCEPT !.at = "cache", !.blank = c.blank \ c.todo, !.todo = {},
                                 !.fetches = c.fetches + 1]
      OBVIOUS
    <3>2. h \in Handler /\ h.sla = c.sla /\ h.page = c.page /\ h.more = c.more
      BY <1>4, <1>8, <3>1 DEF Handler
    <3>3. [FilledAll(c) EXCEPT !.at = "cache"] = h
      BY <1>8, <3>1 DEF FilledAll
    <3> QED
      BY <1>1, <2>1, <2>3, <3>2, <3>3
  <2> QED
    BY <1>2, <1>9, <2>2, <2>3 DEF FetchAnswered
<1>10. CASE FetchFailed(q)
  <2>1. /\ UNCHANGED <<chain, cursor, rows, eligible, filled, base>>
        /\ c.at = "loop" /\ c.todo \cap c.blank # {}
    BY <1>2, <1>10 DEF FetchFailed, InLoop, Nulls, dbVars
  <2>2. CASE /\ host = "node"
             /\ call' = [call EXCEPT ![q].at = "refused", ![q].fetches = @ + 1]
    <3>1. PICK h : h = [c EXCEPT !.at = "refused", !.blank = c.blank, !.todo = c.todo,
                                 !.fetches = c.fetches + 1]
      OBVIOUS
    <3>2. /\ h \in Handler /\ h.at = "refused" /\ h.fetches = c.fetches + 1
          /\ h.sla = c.sla /\ h.page = c.page /\ h.more = c.more
      BY <1>4, <1>8, <3>1 DEF Handler
    <3>3. c.fetches = 0
      BY <1>5, <2>1, <2>2 DEF NodeHandles
    <3>4. NodeHandles(h)'
      BY <3>2, <3>3 DEF NodeHandles
    <3>5. call' = [call EXCEPT ![q] = h]
      BY <1>1, <1>2, <1>8, <2>2, <3>1
    <3> QED
      BY <1>1, <2>1, <3>2, <3>4, <3>5
  <2>3. CASE /\ host = "worker"
             /\ call' = [call EXCEPT ![q].todo = {p \in @ : p < Max(Nulls(q))},
                                     ![q].fetches = @ + 1]
    <3>1. PICK todo : todo = {p \in c.todo : p < Max(Nulls(q))}
      OBVIOUS
    <3>2. PICK h : h = [c EXCEPT !.at = c.at, !.blank = c.blank, !.todo = todo,
                                 !.fetches = c.fetches + 1]
      OBVIOUS
    <3>3. todo \in SUBSET Nat
      BY <1>8, <3>1
    <3>4. h \in Handler /\ h.sla = c.sla /\ h.page = c.page /\ h.more = c.more
      BY <1>4, <1>8, <3>2, <3>3 DEF Handler
    <3>5. call' = [call EXCEPT ![q] = h]
      BY <1>1, <1>2, <1>8, <2>3, <3>1, <3>2
    <3> QED
      BY <1>1, <2>1, <2>3, <3>4, <3>5
  <2> QED
    BY <1>10, <2>2, <2>3 DEF FetchFailed
<1>11. CASE CacheDone(q)
  <2>1. PICK h : h = [c EXCEPT !.at = "loop", !.blank = c.blank, !.todo = c.todo,
                               !.fetches = c.fetches]
    OBVIOUS
  <2>2. h \in Handler /\ h.sla = c.sla /\ h.page = c.page /\ h.more = c.more
    BY <1>4, <1>8, <2>1 DEF Handler
  <2>3. /\ call' = [call EXCEPT ![q] = h] /\ c.at = "cache"
        /\ filled' = filled \/ filled' = Cached(c.sla)
        /\ UNCHANGED <<chain, cursor, rows, eligible, base>>
    BY <1>1, <1>2, <1>8, <1>11, <2>1 DEF CacheDone
  <2>4. host # "node"
    BY <1>5, <2>3 DEF NodeHandles
  <2> QED
    BY <1>1, <1>6, <2>2, <2>3, <2>4
<1>12. CASE Answer(q)
  <2>1. PICK h : h = [c EXCEPT !.at = "answered", !.blank = c.blank, !.todo = c.todo,
                               !.fetches = c.fetches]
    OBVIOUS
  <2>2. /\ h \in Handler /\ h.sla = c.sla /\ h.page = c.page /\ h.more = c.more
        /\ h.at = "answered" /\ h.blank = c.blank /\ h.fetches = c.fetches
    BY <1>4, <1>8, <2>1 DEF Handler
  <2>3. /\ call' = [call EXCEPT ![q] = h] /\ c.at = "loop" /\ c.todo \cap c.blank = {}
        /\ UNCHANGED <<chain, cursor, rows, eligible, filled, base>>
    BY <1>1, <1>2, <1>8, <1>12, <2>1 DEF Answer, Nulls, dbVars
  <2>4. ASSUME host = "node"
        PROVE  NodeHandles(h)'
    <3>1. c.fetches <= 1 /\ c.blank = {} /\ c.page \subseteq filled
      BY <1>5, <2>3, <2>4 DEF NodeHandles
    <3> QED
      BY <2>2, <2>3, <3>1 DEF NodeHandles
  <2> QED
    BY <1>1, <2>2, <2>3, <2>4
<1> QED
  BY <1>9, <1>10, <1>11, <1>12 DEF Handle

\* A handler's step keeps the invariant.
LEMMA HandleStep ==
    ASSUME IInv, NEW q \in Requests, Handle(q),
           UNCHANGED <<host, stateVars, purpose, reloads, history>>
    PROVE  IInv'
<1> USE DEF stateVars, history
<1>1. /\ UNCHANGED <<chain, cursor, rows, eligible, base>>
      /\ filled \subseteq filled' /\ filled' \subseteq Nat /\ call[q] # Free
  BY HandlerMoves
<1>2. PICK h \in Handler : /\ call' = [call EXCEPT ![q] = h]
                           /\ h.sla = call[q].sla /\ h.page = call[q].page
                           /\ h.more = call[q].more
                           /\ host = "node" => NodeHandles(h)'
  BY HandlerMoves
<1>3. call \in [Requests -> Handler \cup {Free}]
  BY DEF IInv, HistoryTypeOK, ApiTypeOK
<1>4. /\ call' \in [Requests -> Handler \cup {Free}] /\ call'[q] = h /\ h # Free
      /\ \A r \in Requests : r # q => call'[r] = call[r]
  <2>1. h # Free
    BY DEF Handler, Free
  <2> QED
    BY <1>2, <1>3, <2>1
<1>5. Stored' = Stored
  BY <1>1 DEF Stored, SettlementsOf
<1>6. HistoryTypeOK' /\ StoredUpToCursor'
  BY <1>1, <1>4 DEF IInv, HistoryTypeOK, ApiTypeOK, StoreTypeOK, StoredUpToCursor
<1>7. ASSUME NEW r \in Requests, call'[r] # Free
      PROVE  PageIsARun(call[r])' /\ (host' = "node" => NodeHandles(call[r])')
  <2>1. call[r] # Free
    BY <1>1, <1>4, <1>7
  <2>2. PageIsARun(call[r]) /\ (host = "node" => NodeHandles(call[r]))
    BY <2>1 DEF IInv
  <2>3. /\ call'[r].sla = call[r].sla /\ call'[r].page = call[r].page
        /\ call'[r].more = call[r].more
    BY <1>2, <1>4
  <2>4. PageIsARun(call[r])'
    BY <1>5, <2>2, <2>3 DEF PageIsARun
  <2>5. CASE r = q
    BY <1>2, <1>4, <2>4, <2>5 DEF NodeHandles
  <2>6. CASE r # q
    BY <1>1, <1>4, <2>2, <2>4, <2>6 DEF NodeHandles
  <2> QED
    BY <2>5, <2>6
<1>8. AwaitedInv'
  <2>1. \A r \in Requests : purpose'[r] # "none" => call'[r] # Free
    BY <1>4 DEF IInv, AwaitedInv
  <2>2. ASSUME NEW r \in Requests \ outdated, ~mixed, purpose[r] = "more"
        PROVE  Continues(call[r])'
    <3>1. Continues(call[r])
      BY <2>2 DEF IInv, AwaitedInv
    <3>2. call'[r].page = call[r].page /\ call'[r].more = call[r].more
      BY <1>2, <1>4
    <3> QED
      BY <1>5, <3>1, <3>2 DEF Continues
  <2> QED
    BY <2>1, <2>2 DEF IInv, AwaitedInv
<1>9. /\ SpinnerMeansAwaited' /\ ShownIsARun'
      /\ ~mixed' => Shown' \subseteq Stored'
  BY <1>5 DEF IInv, SpinnerMeansAwaited, Awaited, ShownIsARun, Shown, Stored
<1> QED
  BY <1>6, <1>7, <1>8, <1>9 DEF IInv

\* What a request just made asks for: the newest settlements before its cursor, so a run
\* of them that leaves none out up to where it ends.
LEMMA Asked ==
    ASSUME IInv, NEW q \in Requests, NEW p \in Purposes, NEW before \in Nat \cup {None},
           Request(q, p, before)
    PROVE  /\ call[q] = Free /\ call'[q] # Free /\ Stored' = Stored
           /\ StoreTypeOK' /\ StoredUpToCursor' /\ host' = host /\ host \in Hosts
           /\ filled' = filled /\ UNCHANGED history
           /\ call' \in [Requests -> Handler \cup {Free}]
           /\ \A r \in Requests : r # q => call'[r] = call[r]
           /\ purpose' \in [Requests -> Purposes] /\ purpose'[q] = p
           /\ \A r \in Requests : r # q => purpose'[r] = purpose[r]
           /\ \A r \in Requests : call'[r] # Free =>
                 PageIsARun(call[r])' /\ (host' = "node" => NodeHandles(call[r])')
           /\ before # None =>
                 /\ \A x \in call'[q].page : x < before
                 /\ \A x \in Stored :
                       x < before /\ (\E r \in call'[q].page : r <= x) => x \in call'[q].page
                 /\ ~call'[q].more =>
                       \A x \in Stored : x < before => x \in call'[q].page
<1>1. /\ StoreTypeOK /\ StoredUpToCursor /\ host \in Hosts
      /\ call \in [Requests -> Handler \cup {Free}]
      /\ purpose \in [Requests -> Purposes]
  BY DEF IInv, HistoryTypeOK, ApiTypeOK
<1>2. /\ purpose' = [purpose EXCEPT ![q] = p] /\ Ask(q, SlaId, before)
      /\ UNCHANGED <<chain, cursor, rows, eligible, filled, base, host, history>>
  BY DEF Request, dbVars
<1>3. PICK older : older = Older(SlaId, before)
  OBVIOUS
<1>4. PICK page : page = Newest(older, PageSize)
  OBVIOUS
<1>5. PICK h : h = [at |-> "loop", sla |-> SlaId, page |-> page,
                    more |-> Cardinality(older) > PageSize,
                    blank |-> page \ filled, todo |-> page, fetches |-> 0]
  OBVIOUS
<1>6. call[q] = Free /\ call' = [call EXCEPT ![q] = h]
  BY <1>2, <1>3, <1>4, <1>5 DEF Ask
<1>7. Stored' = Stored
  BY <1>2 DEF Stored, SettlementsOf
<1>8. Stored \in SUBSET Nat /\ IsFiniteSet(Stored)
  BY <1>1, StoredFinite
<1>9. /\ older \in SUBSET Stored
      /\ \A x \in Stored : x \in older <=> (before = None \/ x < before)
  BY <1>3 DEF Older, Stored
<1>10. older \in SUBSET Nat /\ IsFiniteSet(older)
  BY <1>8, <1>9, FS_Subset
<1>11. /\ page \subseteq older
       /\ \A x \in page, r \in older : r > x => r \in page
       /\ ~h.more => page = older
       /\ h.more => page # {}
  <2>1. PageSize \in Nat \ {0}
    BY ApiAssumption
  <2> QED
    BY <1>4, <1>5, <1>10, <2>1, NewestAreTop
<1>12. page \in SUBSET Nat /\ page \in SUBSET Stored /\ page \ filled \in SUBSET Nat
  BY <1>8, <1>9, <1>11
<1>13. h \in Handler /\ h # Free /\ h.page = page /\ h.sla = SlaId
  BY <1>5, <1>12, HistoryAssumption DEF Handler, Free
<1>14. /\ call'[q] = h /\ call' \in [Requests -> Handler \cup {Free}]
       /\ \A r \in Requests : r # q => call'[r] = call[r]
  BY <1>1, <1>6, <1>13
<1>15. \A x \in Stored : (\E r \in page : r <= x) /\ (before = None \/ x < before) => x \in page
  <2> SUFFICES ASSUME NEW x \in Stored, NEW r \in page, r <= x, before = None \/ x < before
               PROVE  x \in page
    OBVIOUS
  <2>1. x \in older /\ x \in Nat /\ r \in Nat
    BY <1>8, <1>9, <1>12
  <2>2. x = r \/ x > r
    BY <2>1
  <2> QED
    BY <1>11, <2>1, <2>2
<1>16. \A x \in Stored, t \in page : x <= t => before = None \/ x < before
  <2> SUFFICES ASSUME NEW x \in Stored, NEW t \in page, x <= t, before # None
               PROVE  x < before
    OBVIOUS
  <2>1. t < before /\ t \in Nat /\ x \in Nat /\ before \in Nat
    BY <1>8, <1>9, <1>11, <1>12
  <2> QED
    BY <2>1
<1>17. PageIsARun(h)
  BY <1>9, <1>11, <1>12, <1>13, <1>15, <1>16 DEF PageIsARun
<1>18. NodeHandles(h)'
  BY <1>2, <1>5 DEF NodeHandles
<1>19. ASSUME NEW r \in Requests, call'[r] # Free
       PROVE  PageIsARun(call[r])' /\ (host' = "node" => NodeHandles(call[r])')
  <2>1. CASE r = q
    BY <1>7, <1>14, <1>17, <1>18, <2>1 DEF PageIsARun, NodeHandles
  <2>2. CASE r # q
    <3>1. call[r] # Free /\ call'[r] = call[r]
      BY <1>14, <1>19, <2>2
    <3>2. PageIsARun(call[r]) /\ (host = "node" => NodeHandles(call[r]))
      BY <3>1 DEF IInv
    <3> QED
      BY <1>2, <1>7, <3>1, <3>2 DEF PageIsARun, NodeHandles
  <2> QED
    BY <2>1, <2>2
<1>20. before # None =>
          /\ \A x \in call'[q].page : x < before
          /\ \A x \in Stored :
                x < before /\ (\E r \in call'[q].page : r <= x) => x \in call'[q].page
          /\ ~call'[q].more => \A x \in Stored : x < before => x \in call'[q].page
  BY <1>9, <1>11, <1>13, <1>14, <1>15
<1>21. StoreTypeOK' /\ StoredUpToCursor'
  BY <1>1, <1>2 DEF StoreTypeOK, StoredUpToCursor
<1>22. /\ purpose' \in [Requests -> Purposes] /\ purpose'[q] = p
       /\ \A r \in Requests : r # q => purpose'[r] = purpose[r]
  BY <1>1, <1>2
<1> QED
  BY <1>1, <1>2, <1>6, <1>7, <1>13, <1>14, <1>19, <1>20, <1>21, <1>22

\* Mounting and reloading leave the list as it is, and what continues it goes on to.
LEMMA FirstPageAsked ==
    ASSUME IInv, NEW q \in Requests, Mount(q) \/ Reload(q)
    PROVE  IInv'
<1> USE DEF stateVars, history
<1>1. PICK p \in {"initial", "reload"} : Request(q, p, None)
  BY DEF Mount, Reload
<1>2. UNCHANGED stateVars /\ reloads' \in 0 .. MaxReloads
  BY HistoryAssumption DEF Mount, Reload, IInv, HistoryTypeOK
<1>3. p \in Purposes /\ p # "more"
  BY DEF Purposes
<1>4. /\ call[q] = Free /\ call'[q] # Free /\ Stored' = Stored
      /\ StoreTypeOK' /\ StoredUpToCursor' /\ host' = host /\ host \in Hosts
      /\ UNCHANGED history
      /\ call' \in [Requests -> Handler \cup {Free}]
      /\ \A r \in Requests : r # q => call'[r] = call[r]
      /\ purpose' \in [Requests -> Purposes] /\ purpose'[q] = p
      /\ \A r \in Requests : r # q => purpose'[r] = purpose[r]
      /\ \A r \in Requests : call'[r] # Free =>
            PageIsARun(call[r])' /\ (host' = "node" => NodeHandles(call[r])')
  BY <1>1, <1>3, Asked
<1>5. HistoryTypeOK'
  BY <1>2, <1>4 DEF IInv, HistoryTypeOK, ApiTypeOK
<1>6. \A r \in Requests : purpose[r] = "more" => r # q /\ purpose'[r] = "more"
  BY <1>4 DEF IInv, AwaitedInv
<1>7. \A r \in Requests : purpose'[r] = "more" => r # q /\ purpose[r] = "more"
  BY <1>3, <1>4
<1>8. AwaitedInv'
  <2>1. \A r \in Requests : purpose'[r] # "none" => call'[r] # Free
    BY <1>4 DEF IInv, AwaitedInv
  <2>2. ASSUME NEW r \in Requests \ outdated, ~mixed, purpose'[r] = "more"
        PROVE  Continues(call[r])'
    <3>1. purpose[r] = "more" /\ call'[r] = call[r]
      BY <1>4, <1>7, <2>2
    <3>2. Continues(call[r])
      BY <2>2, <3>1 DEF IInv, AwaitedInv
    <3> QED
      BY <1>2, <1>4, <3>1, <3>2 DEF Continues
  <2> QED
    BY <1>2, <1>4, <2>1, <2>2 DEF AwaitedInv
<1>9. SpinnerMeansAwaited'
  BY <1>2, <1>6 DEF IInv, SpinnerMeansAwaited, Awaited
<1>10. ShownIsARun' /\ (~mixed' => Shown' \subseteq Stored')
  BY <1>2, <1>4 DEF IInv, ShownIsARun, Shown, Stored
<1> QED
  BY <1>4, <1>5, <1>8, <1>9, <1>10 DEF IInv

\* "Load more" asks for what continues the list.
LEMMA MoreAsked ==
    ASSUME IInv, NEW q \in Requests, LoadMore(q)
    PROVE  IInv'
<1>1. /\ nextCursor # None /\ shown # <<>> /\ ~loadingMore
      /\ Request(q, "more", nextCursor) /\ loadingMore' = TRUE
      /\ UNCHANGED <<shown, nextCursor, loading, reloads>>
  BY DEF LoadMore, CanLoadMore
<1>2. "more" \in Purposes /\ nextCursor \in Nat \cup {None}
  BY DEF Purposes, IInv, HistoryTypeOK
<1>3. /\ call[q] = Free /\ call'[q] # Free /\ Stored' = Stored
      /\ StoreTypeOK' /\ StoredUpToCursor' /\ host' = host /\ host \in Hosts
      /\ UNCHANGED history
      /\ call' \in [Requests -> Handler \cup {Free}]
      /\ \A r \in Requests : r # q => call'[r] = call[r]
      /\ purpose' \in [Requests -> Purposes] /\ purpose'[q] = "more"
      /\ \A r \in Requests : r # q => purpose'[r] = purpose[r]
      /\ \A r \in Requests : call'[r] # Free =>
            PageIsARun(call[r])' /\ (host' = "node" => NodeHandles(call[r])')
  BY <1>1, <1>2, Asked
<1>4. /\ \A x \in call'[q].page : x < nextCursor
      /\ \A x \in Stored :
            x < nextCursor /\ (\E r \in call'[q].page : r <= x) => x \in call'[q].page
      /\ ~call'[q].more => \A x \in Stored : x < nextCursor => x \in call'[q].page
  BY <1>1, <1>2, Asked
<1>5. HistoryTypeOK'
  BY <1>1, <1>3 DEF IInv, HistoryTypeOK, ApiTypeOK, history
<1>6. AwaitedInv'
  <2>1. \A r \in Requests : purpose'[r] # "none" => call'[r] # Free
    BY <1>3 DEF IInv, AwaitedInv
  <2>2. Continues(call[q])'
    BY <1>1, <1>3, <1>4 DEF Continues
  <2>3. ASSUME NEW r \in Requests \ outdated, ~mixed, purpose'[r] = "more", r # q
        PROVE  Continues(call[r])'
    <3>1. purpose[r] = "more" /\ call'[r] = call[r]
      BY <1>3, <2>3
    <3>2. Continues(call[r])
      BY <2>3, <3>1 DEF IInv, AwaitedInv
    <3> QED
      BY <1>1, <1>3, <3>1, <3>2 DEF Continues
  <2> QED
    BY <1>3, <2>1, <2>2, <2>3 DEF AwaitedInv, history
<1>7. SpinnerMeansAwaited'
  BY <1>3 DEF SpinnerMeansAwaited, Awaited
<1>8. ShownIsARun' /\ (~mixed' => Shown' \subseteq Stored')
  BY <1>1, <1>3 DEF IInv, ShownIsARun, Shown, Stored, history
<1> QED
  BY <1>3, <1>5, <1>6, <1>7, <1>8 DEF IInv

\* Letting go of a request, or of what awaits it, leaves the others as they are.
LEMMA LetGo ==
    ASSUME IInv, NEW q \in Requests, UNCHANGED <<chain, dbVars, host, reloads>>,
           call' = call \/ Freed(q),
           purpose' = [purpose EXCEPT ![q] = "none"]
    PROVE  /\ ApiTypeOK' /\ StoredUpToCursor' /\ Stored' = Stored
           /\ purpose' \in [Requests -> Purposes]
           /\ purpose'[q] = "none"
           /\ \A r \in Requests : r # q => call'[r] = call[r] /\ purpose'[r] = purpose[r]
           /\ \A r \in Requests : call'[r] # Free =>
                 PageIsARun(call[r])' /\ (host' = "node" => NodeHandles(call[r])')
           /\ \A r \in Requests : purpose'[r] # "none" => call'[r] # Free
<1> USE DEF dbVars
<1>1. /\ StoreTypeOK /\ StoredUpToCursor /\ host \in Hosts
      /\ call \in [Requests -> Handler \cup {Free}]
      /\ purpose \in [Requests -> Purposes]
  BY DEF IInv, HistoryTypeOK, ApiTypeOK
<1>2. /\ call' \in [Requests -> Handler \cup {Free}]
      /\ \A r \in Requests : r # q => call'[r] = call[r] /\ purpose'[r] = purpose[r]
      /\ \A r \in Requests : call'[r] # Free => call'[r] = call[r]
      /\ purpose' \in [Requests -> Purposes] /\ purpose'[q] = "none"
  BY <1>1 DEF Freed, Purposes
<1>3. Stored' = Stored /\ ApiTypeOK' /\ StoredUpToCursor'
  BY <1>1, <1>2 DEF Stored, SettlementsOf, ApiTypeOK, StoreTypeOK, StoredUpToCursor
<1>4. ASSUME NEW r \in Requests, call'[r] # Free
      PROVE  PageIsARun(call[r])' /\ (host' = "node" => NodeHandles(call[r])')
  <2>1. call[r] # Free /\ call'[r] = call[r]
    BY <1>2, <1>4
  <2>2. PageIsARun(call[r]) /\ (host = "node" => NodeHandles(call[r]))
    BY <2>1 DEF IInv
  <2> QED
    BY <1>3, <2>1, <2>2 DEF PageIsARun, NodeHandles
<1>5. \A r \in Requests : purpose'[r] # "none" => call'[r] # Free
  BY <1>2 DEF IInv, AwaitedInv
<1> QED
  BY <1>2, <1>3, <1>4, <1>5

\* A failure the hook is told of, or gives up waiting for.
LEMMA FailureStep ==
    ASSUME IInv, NEW q \in Requests, Failed(q), Close(q), call' = call \/ Freed(q)
    PROVE  IInv'
<1> USE DEF stateVars, history
<1>1. /\ purpose' = [purpose EXCEPT ![q] = "none"]
      /\ UNCHANGED <<chain, dbVars, host, reloads>>
  BY DEF Close
<1>2. /\ ApiTypeOK' /\ StoredUpToCursor' /\ Stored' = Stored
      /\ purpose' \in [Requests -> Purposes] /\ purpose'[q] = "none"
      /\ \A r \in Requests : r # q => call'[r] = call[r] /\ purpose'[r] = purpose[r]
      /\ \A r \in Requests : call'[r] # Free =>
            PageIsARun(call[r])' /\ (host' = "node" => NodeHandles(call[r])')
      /\ \A r \in Requests : purpose'[r] # "none" => call'[r] # Free
  BY <1>1, LetGo
<1>3. /\ outdated' \subseteq Requests /\ mixed' \in BOOLEAN
      /\ purpose[q] # "initial" => mixed' = mixed /\ outdated \ {q} \subseteq outdated'
  BY DEF Failed, OthersAwaited, IInv, HistoryTypeOK
<1>4. HistoryTypeOK'
  <2>1. /\ shown \in Seq(Nat) /\ nextCursor \in Nat \cup {None}
        /\ loading \in BOOLEAN /\ loadingMore \in BOOLEAN /\ reloads \in 0 .. MaxReloads
    BY DEF IInv, HistoryTypeOK
  <2>2. shown' \in Seq(Nat) /\ nextCursor' \in Nat \cup {None}
    <3>1. /\ shown' = <<>> \/ shown' = shown
          /\ nextCursor' = None \/ nextCursor' = nextCursor
      BY DEF Failed, MoreFailed
    <3>2. <<>> \in Seq(Nat)
      OBVIOUS
    <3> QED
      BY <2>1, <3>1, <3>2
  <2>3. loading' \in BOOLEAN /\ loadingMore' \in BOOLEAN
    BY <2>1, Zenon DEF Failed, MoreFailed
  <2> QED
    BY <1>1, <1>2, <1>3, <2>1, <2>2, <2>3 DEF HistoryTypeOK
<1>5. /\ \A r \in Requests : purpose'[r] = "more" => r # q /\ purpose[r] = "more"
      /\ \A r \in Requests : purpose[r] = "more" /\ r # q => purpose'[r] = "more"
  BY <1>2
<1>6. AwaitedInv'
  <2> SUFFICES ASSUME NEW r \in Requests \ outdated', ~mixed', purpose'[r] = "more"
               PROVE  Continues(call[r])'
    BY <1>2 DEF AwaitedInv
  <2>1. r # q /\ purpose[r] = "more" /\ call'[r] = call[r]
    BY <1>2, <1>5
  <2>2. purpose[q] # "initial"
    BY <2>1 DEF Failed, OthersAwaited
  <2>3. Continues(call[r])
    BY <1>3, <2>1, <2>2 DEF IInv, AwaitedInv
  <2>4. UNCHANGED <<shown, nextCursor>>
    BY <2>2 DEF Failed, MoreFailed
  <2> QED
    BY <1>2, <2>1, <2>3, <2>4 DEF Continues
<1>7. SpinnerMeansAwaited'
  <2> SUFFICES ASSUME loadingMore'
               PROVE  Awaited("more")'
    BY DEF SpinnerMeansAwaited
  <2>1. purpose[q] = "reload" /\ UNCHANGED stateVars
    BY DEF Failed, MoreFailed
  <2>2. PICK r \in Requests : purpose[r] = "more"
    BY <2>1 DEF IInv, SpinnerMeansAwaited, Awaited
  <2> QED
    BY <1>5, <2>1, <2>2 DEF Awaited
<1>8. ShownIsARun' /\ (~mixed' => Shown' \subseteq Stored')
  <2>1. shown' = <<>> \/ UNCHANGED <<shown, nextCursor, mixed>>
    BY DEF Failed, MoreFailed
  <2>2. CASE shown' = <<>>
    BY <2>2 DEF ShownIsARun, Shown
  <2>3. CASE UNCHANGED <<shown, nextCursor, mixed>>
    BY <1>2, <2>3 DEF IInv, ShownIsARun, Shown, Stored
  <2> QED
    BY <2>1, <2>2, <2>3
<1> QED
  BY <1>2, <1>4, <1>6, <1>7, <1>8 DEF IInv

\* A sequence over a set is one over a larger set.
LEMMA SeqOfLarger ==
    ASSUME NEW S, NEW T, S \subseteq T, NEW s \in Seq(S)
    PROVE  s \in Seq(T)
<1>1. \A i \in 1 .. Len(s) : s[i] \in T
  OBVIOUS
<1> QED
  BY <1>1

\* A list of settlements among S, newest first and with none missing, that ends with c.
RunTo(c, s, S) ==
    /\ s \in Seq(S) /\ s # <<>> /\ s[Len(s)] = c
    /\ \A i, j \in DOMAIN s : i < j => s[i] > s[j]
    /\ \A p \in S : p \in c .. s[1] => \E i \in DOMAIN s : s[i] = p

\* The settlements of a page come right after c.
Follows(page, c, S) ==
    /\ page \in SUBSET S
    /\ \A p \in page : p < c
    /\ \A p \in S : p < c /\ (\E r \in page : r <= p) => p \in page

\* A list with a page after it that takes up where the list ends.
LEMMA Appended ==
    ASSUME NEW S \in SUBSET Nat, NEW s, NEW c, RunTo(c, s, S),
           NEW page, IsFiniteSet(page), Follows(page, c, S)
    PROVE  RunTo(IF page = {} THEN c ELSE Min(page), s \o RowsIn(page), S)
<1>0. /\ s \in Seq(S) /\ s # <<>> /\ c = s[Len(s)] /\ page \in SUBSET S
      /\ \A i, j \in DOMAIN s : i < j => s[i] > s[j]
      /\ \A p \in S : p \in c .. s[1] => \E i \in DOMAIN s : s[i] = p
      /\ \A p \in page : p < c
      /\ \A p \in S : p < c /\ (\E r \in page : r <= p) => p \in page
  BY DEF RunTo, Follows
<1> USE <1>0
<1> PICK t : t = s \o RowsIn(page)
  OBVIOUS
<1> PICK last : last = IF page = {} THEN c ELSE Min(page)
  OBVIOUS
<1> DEFINE R == RowsIn(page)
           n == Cardinality(page)
           m == Len(s)
<1>1. page \in SUBSET Nat /\ page \subseteq S
  OBVIOUS
<1>2. /\ R \in Seq(page) /\ Len(R) = n
      /\ \A p \in page : \E i \in 1 .. n : R[i] = p
      /\ \A i, j \in 1 .. n : i < j => R[i] > R[j]
      /\ page # {} => n > 0 /\ R[n] = Min(page) /\ Min(page) \in page /\ \A p \in page : Min(page) <= p
  BY <1>1, RowsInOrder
<1>3. n \in Nat /\ (page = {} <=> n = 0)
  BY FS_CardinalityType, FS_EmptySet
<1>4. m \in Nat /\ m > 0 /\ DOMAIN s = 1 .. m
  OBVIOUS
<1> HIDE DEF R, n, m
<1>5. R \in Seq(S) /\ \A i \in 1 .. n : R[i] \in page /\ R[i] \in S
  <2>1. R \in Seq(page) /\ Len(R) = n
    BY <1>2
  <2>2. \A i \in 1 .. n : R[i] \in page
    BY <2>1
  <2>3. \A i \in 1 .. n : R[i] \in S
    BY <1>1, <2>2
  <2>4. R \in Seq(S)
    BY <2>1, <2>3
  <2> QED
    BY <2>2, <2>3, <2>4
<1>6. /\ t \in Seq(S) /\ Len(t) = m + n /\ DOMAIN t = 1 .. (m + n)
      /\ \A i \in 1 .. m : t[i] = s[i]
      /\ \A i \in (m + 1) .. (m + n) : t[i] = R[i - m]
  <2>1. t = s \o R /\ m = Len(s)
    BY DEF R, m
  <2>2. Len(R) = n
    BY <1>2
  <2>3. t \in Seq(S) /\ Len(t) = m + n
    <3>1. R \in Seq(S) /\ s \in Seq(S)
      BY <1>5
    <3>2. s \o R \in Seq(S) /\ Len(s \o R) = Len(s) + Len(R)
      BY <3>1
    <3> QED
      BY <2>1, <2>2, <3>2
  <2>4. DOMAIN t = 1 .. (m + n)
    BY <2>3
  <2>5. \A i \in 1 .. m : t[i] = s[i]
    BY <1>4, <1>5, <2>1
  <2>6. ASSUME NEW i \in (m + 1) .. (m + n)
        PROVE  t[i] = R[i - m]
    <3>1. i \in Nat /\ i > m /\ i <= m + n /\ i # 0
      BY <1>3, <1>4
    <3> QED
      BY <1>3, <1>4, <1>5, <2>1, <2>2, <3>1
  <2> QED
    BY <2>3, <2>4, <2>5, <2>6
<1>7. /\ \A i \in 1 .. m : s[i] \in Nat /\ s[i] >= c
      /\ c \in Nat /\ \A i \in 1 .. n : R[i] \in page /\ R[i] \in Nat
  <2>1. \A i \in 1 .. m : s[i] \in Nat
    <3>1. \A i \in 1 .. m : s[i] \in S
      BY DEF m
    <3> QED
      BY <3>1
  <2>2. c = s[m] /\ m \in 1 .. m
    BY <1>4 DEF m
  <2>3. ASSUME NEW i \in 1 .. m
        PROVE  s[i] >= c
    <3>1. i = m \/ i < m
      BY <1>4
    <3>2. i < m => s[i] > s[m]
      BY <1>4, <2>2
    <3> QED
      BY <2>1, <2>2, <3>1, <3>2
  <2>4. \A i \in 1 .. n : R[i] \in page
    BY <1>5
  <2> QED
    BY <1>1, <2>1, <2>2, <2>3, <2>4
<1>8. t[Len(t)] = last
  <2>1. CASE page = {}
    <3>1. n = 0 /\ Len(t) = m /\ m \in 1 .. m
      BY <1>3, <1>4, <1>6, <2>1
    <3>2. t[m] = s[m]
      BY <1>6, <3>1
    <3> QED
      BY <2>1, <3>1, <3>2 DEF m
  <2>2. CASE page # {}
    <3>1. m + n \in (m + 1) .. (m + n) /\ (m + n) - m = n
      BY <1>2, <1>3, <1>4, <2>2
    <3> QED
      BY <1>2, <1>6, <2>2, <3>1
  <2> QED
    BY <2>1, <2>2
<1>9. \A i, j \in DOMAIN t : i < j => t[i] > t[j]
  <2> SUFFICES ASSUME NEW i \in 1 .. (m + n), NEW j \in 1 .. (m + n), i < j
               PROVE  t[i] > t[j]
    BY <1>6
  <2>1. CASE j <= m
    <3>1. i \in 1 .. m /\ j \in 1 .. m
      BY <1>3, <1>4, <2>1
    <3>2. s[i] > s[j]
      BY <1>4, <3>1
    <3> QED
      BY <1>6, <3>1, <3>2
  <2>2. CASE i <= m /\ m < j
    <3>1. i \in 1 .. m /\ j \in (m + 1) .. (m + n) /\ j - m \in 1 .. n
      BY <1>3, <1>4, <2>2
    <3>2. R[j - m] < c
      BY <1>7, <3>1
    <3> QED
      BY <1>6, <1>7, <3>1, <3>2
  <2>3. CASE m < i
    <3>1. /\ i \in (m + 1) .. (m + n) /\ j \in (m + 1) .. (m + n)
          /\ i - m \in 1 .. n /\ j - m \in 1 .. n /\ i - m < j - m
      BY <1>3, <1>4, <2>3
    <3>2. R[i - m] > R[j - m]
      BY <1>2, <3>1
    <3>3. t[i] = R[i - m] /\ t[j] = R[j - m]
      BY <1>6, <3>1
    <3> QED
      BY <3>2, <3>3, Zenon
  <2>4. j <= m \/ (i <= m /\ m < j) \/ m < i
    <3>1. i \in Int /\ j \in Int /\ m \in Int
      BY <1>4
    <3> QED
      BY <3>1
  <2> QED
    BY <2>1, <2>2, <2>3, <2>4, Zenon
<1>10. \A p \in S : p \in last .. t[1] => \E i \in DOMAIN t : t[i] = p
  <2> SUFFICES ASSUME NEW p \in S, p \in last .. t[1]
               PROVE  \E i \in DOMAIN t : t[i] = p
    OBVIOUS
  <2>1. p \in Nat /\ t[1] = s[1] /\ s[1] \in Nat /\ p <= s[1]
    <3>1. 1 \in 1 .. m
      BY <1>4
    <3>2. p \in Nat /\ t[1] = s[1] /\ s[1] \in Nat
      BY <1>6, <1>7, <3>1
    <3>3. last \in Nat
      BY <1>1, <1>2, <1>7
    <3> QED
      BY <3>2, <3>3
  <2>2. last <= p
    <3>1. last \in Nat
      BY <1>1, <1>2, <1>7
    <3>2. p \in last .. s[1]
      BY <2>1
    <3> QED
      BY <2>1, <3>1, <3>2
  <2>3. CASE p >= c
    <3>1. p \in c .. s[1]
      BY <1>7, <2>1, <2>3
    <3>2. PICK i \in 1 .. m : s[i] = p
      BY <1>4, <3>1
    <3>3. i \in 1 .. (m + n)
      BY <1>3, <1>4
    <3> QED
      BY <1>6, <3>2, <3>3
  <2>4. CASE p < c
    <3>1. page # {}
      BY <1>7, <2>1, <2>2, <2>4
    <3>2. p \in page
      BY <1>2, <2>2, <2>4, <3>1
    <3>3. PICK i \in 1 .. n : R[i] = p
      BY <1>2, <3>2
    <3>4. m + i \in 1 .. (m + n) /\ m + i \in (m + 1) .. (m + n) /\ (m + i) - m = i
      BY <1>3, <1>4
    <3> QED
      BY <1>6, <3>3, <3>4
  <2> QED
    BY <1>7, <2>1, <2>3, <2>4
<1>11. t # <<>>
  BY <1>3, <1>4, <1>6
<1> QED
  BY <1>6, <1>8, <1>9, <1>10, <1>11 DEF RunTo

\* An answer leaves a run on screen.
LEMMA ReceiveStep ==
    ASSUME IInv, NEW q \in Requests, Receive(q)
    PROVE  IInv'
<1> USE DEF None
<1>1. /\ purpose[q] # "none" /\ call[q].at = "answered"
      /\ Show(q) /\ Freed(q)
      /\ outdated' = OthersAwaited(q)
      /\ mixed' = (purpose[q] = "more" /\ (mixed \/ q \in outdated))
      /\ purpose' = [purpose EXCEPT ![q] = "none"]
      /\ UNCHANGED <<chain, dbVars, host, reloads>>
  BY DEF Receive, Close, Show
<1>2. /\ ApiTypeOK' /\ StoredUpToCursor' /\ Stored' = Stored
      /\ purpose' \in [Requests -> Purposes] /\ purpose'[q] = "none"
      /\ \A r \in Requests : r # q => call'[r] = call[r] /\ purpose'[r] = purpose[r]
      /\ \A r \in Requests : call'[r] # Free =>
            PageIsARun(call[r])' /\ (host' = "node" => NodeHandles(call[r])')
      /\ \A r \in Requests : purpose'[r] # "none" => call'[r] # Free
  BY <1>1, LetGo
<1>3. call[q] # Free
  BY <1>1 DEF Free
<1>4. PICK page : page = call[q].page
  OBVIOUS
<1>5. /\ page \in SUBSET Stored /\ page \in SUBSET Nat /\ IsFiniteSet(page)
      /\ Stored \in SUBSET Nat
  BY <1>3, <1>4, PageFinite, StoredFinite DEF IInv, HistoryTypeOK, ApiTypeOK
<1>6. PageIsARun(call[q])
  BY <1>3 DEF IInv
<1>7. /\ RowsIn(page) \in Seq(page) /\ Len(RowsIn(page)) = Cardinality(page)
      /\ \A p \in page : \E i \in 1 .. Cardinality(page) : RowsIn(page)[i] = p
      /\ \A i, j \in 1 .. Cardinality(page) : i < j => RowsIn(page)[i] > RowsIn(page)[j]
      /\ page # {} => /\ Cardinality(page) > 0 /\ RowsIn(page)[Cardinality(page)] = Min(page)
                      /\ Min(page) \in page /\ \A p \in page : Min(page) <= p
  BY <1>5, RowsInOrder
<1>8. /\ shown' = IF purpose[q] = "more" THEN shown \o RowsIn(page) ELSE RowsIn(page)
      /\ nextCursor' = IF call[q].more THEN Min(page) ELSE None
      /\ loading' = FALSE /\ loadingMore' = FALSE
  BY <1>1, <1>4 DEF Show, CursorAfter
<1>9. call[q].more => page # {}
  BY <1>4, <1>6 DEF PageIsARun
<1>10. nextCursor' \in Nat \cup {None} /\ (nextCursor' # None => page # {} /\ nextCursor' = Min(page))
  BY <1>5, <1>7, <1>8, <1>9
<1>11. RowsIn(page) \in Seq(Nat) /\ RowsIn(page) \in Seq(Stored)
  <2>1. RowsIn(page) \in Seq(page)
    BY <1>7
  <2>2. page \subseteq Nat /\ page \subseteq Stored
    BY <1>5
  <2> QED
    BY <2>1, <2>2, SeqOfLarger
<1>12. HistoryTypeOK'
  <2>1. shown \in Seq(Nat) /\ reloads \in 0 .. MaxReloads
    BY DEF IInv, HistoryTypeOK
  <2>2. shown \o RowsIn(page) \in Seq(Nat)
    BY <1>11, <2>1
  <2>3. shown' \in Seq(Nat)
    BY <1>8, <1>11, <2>2
  <2>4. mixed' \in BOOLEAN /\ loading' \in BOOLEAN /\ loadingMore' \in BOOLEAN
    BY <1>1, <1>8, Zenon DEF IInv, HistoryTypeOK
  <2>5. reloads' \in 0 .. MaxReloads
    BY <1>1, <2>1
  <2> QED
    BY <1>1, <1>2, <1>10, <2>3, <2>4, <2>5 DEF HistoryTypeOK, OthersAwaited
<1>13. ASSUME ~mixed', purpose[q] = "more"
       PROVE  ~mixed /\ q \notin outdated
  BY <1>1, <1>13, Zenon
<1>14. AwaitedInv'
  <2>1. \A r \in Requests : purpose'[r] = "more" => r \in outdated'
    BY <1>1, <1>2 DEF OthersAwaited
  <2> QED
    BY <1>2, <2>1 DEF AwaitedInv
<1>15. SpinnerMeansAwaited'
  BY <1>8 DEF SpinnerMeansAwaited
<1>16. ASSUME ~mixed'
       PROVE  /\ Shown' \subseteq Stored
              /\ shown' # <<>> =>
                   /\ \A i, j \in DOMAIN shown' : i < j => shown'[i] > shown'[j]
                   /\ \A p \in Stored :
                        p \in shown'[Len(shown')] .. shown'[1] => p \in Shown'
                   /\ nextCursor' # None => nextCursor' = shown'[Len(shown')]
                   /\ nextCursor' = None => \A p \in Stored : p >= shown'[Len(shown')]
  <2>1. CASE purpose[q] # "more"
    <3>1. PICK R : R = RowsIn(page)
      OBVIOUS
    <3>2. PICK n \in Nat : n = Cardinality(page)
      BY <1>5, FS_CardinalityType
    <3>3. /\ shown' = R /\ R \in Seq(Stored) /\ Len(R) = n /\ DOMAIN R = 1 .. n
          /\ R \in Seq(page)
      BY <1>7, <1>8, <1>11, <2>1, <3>1, <3>2
    <3>4. \A p \in page : \E i \in 1 .. n : R[i] = p
      BY <1>7, <3>1, <3>2
    <3>5. \A i, j \in 1 .. n : i < j => R[i] > R[j]
      BY <1>7, <3>1, <3>2
    <3>6. Shown' \subseteq Stored
      BY <3>3 DEF Shown
    <3>7. ASSUME R # <<>>
          PROVE  /\ page # {} /\ n > 0 /\ R[n] = Min(page) /\ R[1] \in page
                 /\ Min(page) \in page /\ \A p \in page : Min(page) <= p
      <4>1. n # 0 /\ 1 \in 1 .. n
        BY <3>3, <3>7
      <4>2. page # {} /\ R[1] \in page
        BY <3>3, <4>1
      <4> QED
        BY <1>7, <3>1, <3>2, <4>1, <4>2
    <3>8. ASSUME R # <<>>, NEW p \in Stored, p \in R[n] .. R[1]
          PROVE  p \in Shown'
      <4>1. R[n] \in page /\ R[1] \in page /\ R[n] <= p /\ p <= R[1]
        BY <1>5, <3>7, <3>8
      <4>2. p \in page
        BY <1>4, <1>6, <4>1 DEF PageIsARun
      <4> QED
        BY <3>3, <3>4, <4>2 DEF Shown
    <3>9. ASSUME R # <<>>, ~call[q].more, NEW p \in Stored
          PROVE  p >= R[n]
      <4>1. p <= Min(page) => p \in page
        BY <1>4, <1>6, <3>7, <3>9 DEF PageIsARun
      <4>2. p \in Nat /\ Min(page) \in Nat
        BY <1>5, <3>7, <3>9
      <4> QED
        BY <3>7, <3>9, <4>1, <4>2
    <3>10. nextCursor' = None <=> ~call[q].more
      BY <1>5, <1>7, <1>8, <1>9
    <3> QED
      BY <1>10, <3>3, <3>5, <3>6, <3>7, <3>8, <3>9, <3>10
  <2>2. CASE purpose[q] = "more"
    <3>1. ~mixed /\ Continues(call[q])
      BY <1>13, <1>16, <2>2 DEF IInv, AwaitedInv
    <3>2. PICK c : c = nextCursor
      OBVIOUS
    <3>3. /\ shown # <<>> /\ c # None /\ \A p \in page : p < c
          /\ \A p \in Stored : p < c /\ (\E r \in page : r <= p) => p \in page
          /\ ~call[q].more => \A p \in Stored : p < c => p \in page
      BY <1>4, <3>1, <3>2 DEF Continues
    <3>4. /\ \A i, j \in DOMAIN shown : i < j => shown[i] > shown[j]
          /\ \A p \in Stored : p \in c .. shown[1] => p \in Shown
          /\ c = shown[Len(shown)]
      BY <3>1, <3>2, <3>3 DEF IInv, ShownIsARun, Stored
    <3>5. PICK s : s = shown
      OBVIOUS
    <3>6. PICK t : t = s \o RowsIn(page)
      OBVIOUS
    <3>7. PICK last : last = IF page = {} THEN c ELSE Min(page)
      OBVIOUS
    <3>8. s \in Seq(Stored)
      <4>1. s \in Seq(Nat) /\ \A i \in DOMAIN s : s[i] \in Stored
        BY <3>1, <3>5 DEF IInv, HistoryTypeOK, Shown
      <4> QED
        BY <4>1
    <3>9. PICK S \in SUBSET Nat : S = Stored
      BY <1>5
    <3>10. RunTo(c, s, S) /\ Follows(page, c, S)
      BY <1>5, <3>3, <3>4, <3>5, <3>8, <3>9 DEF Shown, RunTo, Follows
    <3>11. RunTo(last, t, S)
      BY <1>5, <3>6, <3>7, <3>10, Appended
    <3>12. shown' = t
      BY <1>8, <2>2, <3>5, <3>6
    <3>13. Shown' = {t[i] : i \in DOMAIN t}
      BY <3>12 DEF Shown
    <3>14. nextCursor' # None => nextCursor' = last
      BY <1>10, <3>7
    <3>15. ASSUME nextCursor' = None, NEW p \in S
           PROVE  p >= last
      <4>1. ~call[q].more
        BY <1>5, <1>7, <1>8, <1>9, <3>15
      <4>2. p \in Nat /\ c \in Nat
        BY <3>2, <3>3 DEF IInv, HistoryTypeOK
      <4>3. p < c => p \in page
        BY <3>3, <3>9, <4>1
      <4>4. page # {} => Min(page) \in page /\ Min(page) \in Nat /\ Min(page) < c /\ \A x \in page : Min(page) <= x
        BY <1>5, <1>7, <3>3
      <4> QED
        BY <3>7, <4>2, <4>3, <4>4
    <3> QED
      BY <3>9, <3>11, <3>12, <3>13, <3>14, <3>15 DEF RunTo
  <2> QED
    BY <2>1, <2>2
<1>17. ShownIsARun' /\ (~mixed' => Shown' \subseteq Stored')
  BY <1>2, <1>16 DEF ShownIsARun, Stored
<1> QED
  BY <1>2, <1>12, <1>14, <1>15, <1>17 DEF IInv

\* An answer nobody waits for any more changes nothing.
LEMMA DroppedStep ==
    ASSUME IInv, NEW q \in Requests, Dropped(q)
    PROVE  IInv'
<1>1. /\ purpose[q] = "none" /\ Freed(q)
      /\ UNCHANGED <<chain, dbVars, host, stateVars, purpose, reloads, history>>
  BY DEF Dropped
<1>2. purpose' = [purpose EXCEPT ![q] = "none"]
  BY <1>1 DEF IInv, HistoryTypeOK
<1>3. /\ ApiTypeOK' /\ StoredUpToCursor' /\ Stored' = Stored
      /\ \A r \in Requests : r # q => call'[r] = call[r]
      /\ \A r \in Requests : call'[r] # Free =>
            PageIsARun(call[r])' /\ (host' = "node" => NodeHandles(call[r])')
      /\ \A r \in Requests : purpose'[r] # "none" => call'[r] # Free
  BY <1>1, <1>2, LetGo
<1>4. HistoryTypeOK'
  BY <1>1, <1>3 DEF IInv, HistoryTypeOK, stateVars, history
<1>5. AwaitedInv'
  BY <1>1, <1>3 DEF IInv, AwaitedInv, Continues, stateVars, history
<1>6. SpinnerMeansAwaited' /\ ShownIsARun' /\ (~mixed' => Shown' \subseteq Stored')
  BY <1>1, <1>3 DEF IInv, SpinnerMeansAwaited, Awaited, ShownIsARun, Shown, Stored, stateVars, history
<1> QED
  BY <1>3, <1>4, <1>5, <1>6 DEF IInv

----------------------------------------------------------------------------
(* The theorems.                                                            *)

\* The invariant holds before anything is stored or asked for.
LEMMA InvInit == Init => IInv
<1> SUFFICES ASSUME Init PROVE IInv
  OBVIOUS
<1> USE DEF None
<1>1. StoreTypeOK /\ StoredUpToCursor
  BY DEF Init, ApiInit, StoreInit, StoreTypeOK, StoredUpToCursor
<1>2. call = [q \in Requests |-> Free] /\ host \in Hosts
  BY DEF Init, ApiInit
<1>3. ApiTypeOK
  BY <1>1, <1>2, Zenon DEF ApiTypeOK
<1>4. /\ shown = <<>> /\ nextCursor = None /\ loading = TRUE /\ loadingMore = FALSE
      /\ purpose = [q \in Requests |-> "none"] /\ reloads = 0
      /\ outdated = {} /\ mixed = FALSE
  BY DEF Init
<1>5. HistoryTypeOK
  <2>1. shown \in Seq(Nat) /\ nextCursor \in Nat \cup {None} /\ reloads \in 0 .. MaxReloads
    BY <1>4, HistoryAssumption
  <2>2. purpose \in [Requests -> Purposes]
    BY <1>4 DEF Purposes
  <2> QED
    BY <1>3, <1>4, <2>1, <2>2, Zenon DEF HistoryTypeOK
<1>6. \A q \in Requests : call[q] = Free /\ purpose[q] = "none"
  BY <1>2, <1>4
<1>7. AwaitedInv /\ SpinnerMeansAwaited
  BY <1>4, <1>6 DEF AwaitedInv, SpinnerMeansAwaited
<1>8. Shown \subseteq Stored /\ ShownIsARun
  BY <1>4 DEF Shown, ShownIsARun
<1> QED
  BY <1>1, <1>5, <1>6, <1>7, <1>8 DEF IInv

\* Every step keeps it.
LEMMA InvNext == IInv /\ [Next]_vars => IInv'
<1> SUFFICES ASSUME IInv, [Next]_vars
             PROVE  IInv'
  OBVIOUS
<1>1. CASE /\ Emit \/ Ingest
           /\ UNCHANGED <<host, call, stateVars, purpose, reloads, history>>
  <2>1. /\ StoreTypeOK' /\ StoredUpToCursor' /\ filled' = filled
        /\ Stored \subseteq Stored' /\ Stored' \in SUBSET Nat
        /\ \A p \in Stored', r \in Stored : p \in Stored \/ r < p
    BY <1>1, StoreGrows
  <2>2. /\ \A q \in Requests : call'[q] # Free =>
              PageIsARun(call[q])' /\ (host' = "node" => NodeHandles(call[q])')
        /\ AwaitedInv' /\ SpinnerMeansAwaited'
        /\ ~mixed' => Shown' \subseteq Stored'
        /\ ShownIsARun'
    BY <1>1, <2>1, RunsLast
  <2>3. HistoryTypeOK'
    BY <1>1, <2>1 DEF IInv, HistoryTypeOK, ApiTypeOK, stateVars, history
  <2> QED
    BY <2>1, <2>2, <2>3 DEF IInv
<1>2. ASSUME NEW q \in Requests, Handle(q),
             UNCHANGED <<host, stateVars, purpose, reloads, history>>
      PROVE  IInv'
  BY <1>2, HandleStep
<1>3. ASSUME NEW q \in Requests, Mount(q) \/ Reload(q)
      PROVE  IInv'
  BY <1>3, FirstPageAsked
<1>4. ASSUME NEW q \in Requests, LoadMore(q)
      PROVE  IInv'
  BY <1>4, MoreAsked
<1>5. ASSUME NEW q \in Requests, Receive(q)
      PROVE  IInv'
  BY <1>5, ReceiveStep
<1>6. ASSUME NEW q \in Requests, ReceiveError(q) \/ TimeOut(q)
      PROVE  IInv'
  <2>1. Failed(q) /\ Close(q) /\ (call' = call \/ Freed(q))
    BY <1>6 DEF ReceiveError, TimeOut
  <2> QED
    BY <2>1, FailureStep
<1>7. ASSUME NEW q \in Requests, Dropped(q)
      PROVE  IInv'
  BY <1>7, DroppedStep
<1>8. CASE UNCHANGED vars
  <2>1. /\ UNCHANGED <<chain, cursor, rows, eligible, filled, base, host, call>>
        /\ UNCHANGED <<shown, nextCursor, loading, loadingMore, purpose, reloads, history>>
    BY <1>8 DEF vars
  <2>2. Stored' = Stored /\ StoreTypeOK' /\ StoredUpToCursor'
    BY <2>1 DEF IInv, HistoryTypeOK, ApiTypeOK, StoreTypeOK, StoredUpToCursor,
                Stored, SettlementsOf
  <2>3. HistoryTypeOK'
    BY <2>1, <2>2 DEF IInv, HistoryTypeOK, ApiTypeOK, history
  <2>4. \A q \in Requests : call'[q] # Free =>
           PageIsARun(call[q])' /\ (host' = "node" => NodeHandles(call[q])')
    BY <2>1, <2>2 DEF IInv, PageIsARun, NodeHandles
  <2>5. AwaitedInv' /\ SpinnerMeansAwaited'
    BY <2>1, <2>2 DEF IInv, AwaitedInv, Continues, SpinnerMeansAwaited, Awaited, history
  <2>6. (~mixed' => Shown' \subseteq Stored') /\ ShownIsARun'
    BY <2>1, <2>2 DEF IInv, Shown, ShownIsARun, Stored, history
  <2> QED
    BY <2>2, <2>3, <2>4, <2>5, <2>6 DEF IInv
<1> QED
  BY <1>1, <1>2, <1>3, <1>4, <1>5, <1>6, <1>7, <1>8 DEF Next

\* The inductive invariant holds throughout.
LEMMA Invariant == Spec => []IInv
  BY InvInit, InvNext, PTL DEF Spec

\* Every variable keeps its type, whatever is open and in whatever order it is answered.
THEOREM HistoryTypes == Spec => []HistoryTypeOK
<1>1. IInv => HistoryTypeOK
  BY DEF IInv
<1> QED
  BY <1>1, Invariant, PTL

\* The rows on screen are a run of the SLA's settlements, newest first, and the cursor
\* is where they end (use-settlement-history.ts; routes.ts, settlements).
THEOREM HistoryIsARun == Spec => []ShownIsARun
<1>1. IInv => ShownIsARun
  BY DEF IInv
<1> QED
  BY <1>1, Invariant, PTL

\* The hook shows that it is loading more only while it waits for more.
THEOREM SpinnerAwaits == Spec => []SpinnerMeansAwaited
<1>1. IInv => SpinnerMeansAwaited
  BY DEF IInv
<1> QED
  BY <1>1, Invariant, PTL

\* The Node server asks the vault at most once for a request, and what it answers with is
\* in the database, thresholds and all (routes.ts).
THEOREM NodeCaches == Spec => []NodeAnswersCached
<1>1. IInv => NodeAnswersCached
  BY DEF IInv, NodeAnswersCached, NodeHandles, Free
<1> QED
  BY <1>1, Invariant, PTL

=============================================================================
