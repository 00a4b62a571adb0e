------------------------- MODULE WebTransactionProofs -------------------------
(***************************************************************************)
(* The wallet session and the write actions keep their invariants for any  *)
(* accounts, networks, panels, connect calls and number of clicks.  The    *)
(* wallet part and the transaction part are inductive each on its own,     *)
(* except that a run takes the connection it starts from.                  *)
(***************************************************************************)
EXTENDS WebTransaction, FiniteSetTheorems, TLAPS

----------------------------------------------------------------------------
(* The wallet.                                                              *)

\* What was read on the way to a connection, and which calls can be open when.
WalletInv ==
    /\ WalletTypeOK
    /\ startup.at = "network" => startup.address \in Accounts
    /\ \A k \in Connects : connect[k].at = "network" => connect[k].address \in Accounts
    /\ startup.at # "done" =>
          status = "checking" /\ connection = None /\ \A k \in Connects : ~Open(k)
    /\ status = "connected" => connection # None
    /\ ~raced /\ connection # None => status = "connected" /\ \A k \in Connects : ~Open(k)

\* The wallet starts with its invariant.
LEMMA WalletInitInv == WalletInit => WalletInv
<1> SUFFICES ASSUME WalletInit PROVE WalletInv
  OBVIOUS
<1>1. \A k \in Connects : connect[k].at = "idle" /\ connect[k].address = None
  BY DEF WalletInit
<1>2. startup.at = "available" /\ startup.address = None
  BY DEF WalletInit
<1>3. connect \in [Connects -> Step({"idle", "access", "network"})]
  BY DEF WalletInit, Step
<1>4. startup \in Step({"available", "address", "network", "done"})
  BY DEF WalletInit, Step
<1> QED BY <1>1, <1>2, <1>3, <1>4 DEF WalletInit, WalletInv, WalletTypeOK, Statuses, Open

\* Every step of the visitor and of the provider keeps it.
LEMMA WalletStep ==
    ASSUME WalletInv, Visitor \/ Session
    PROVE  WalletInv'
<1> USE DEF WalletInv, WalletTypeOK, Step, Statuses, Open, Connection
<1>1. CASE Visitor
  BY <1>1 DEF Visitor, SwitchNetwork, SwitchAccount, Switch
<1>2. CASE CheckAvailable
  BY <1>2 DEF CheckAvailable, StartupGoesOn, StartupEnds
<1>3. CASE CheckAddress
  BY <1>3 DEF CheckAddress, StartupGoesOn, StartupEnds
<1>4. CASE CheckNetwork
  <2>1. [address |-> startup.address, network |-> extension.network] \in Connection
    BY <1>4 DEF CheckNetwork
  <2>2. [address |-> startup.address, network |-> extension.network] # None
    BY <2>1, WalletAssumption
  <2> QED BY <1>4, <2>1, <2>2 DEF CheckNetwork, StartupEnds
<1>5. CASE Disconnect
  BY <1>5 DEF Disconnect, SessionCleared
<1>6. ASSUME NEW k \in Connects, Connect(k)
      PROVE  WalletInv'
  BY <1>6 DEF Connect, ConnectOffered
<1>7. ASSUME NEW k \in Connects, AccessGranted(k)
      PROVE  WalletInv'
  BY <1>7 DEF AccessGranted
<1>8. ASSUME NEW k \in Connects, Connected(k)
      PROVE  WalletInv'
  <2>1. [address |-> connect[k].address, network |-> extension.network] \in Connection
    BY <1>8 DEF Connected
  <2>2. [address |-> connect[k].address, network |-> extension.network] # None
    BY <2>1, WalletAssumption
  <2> QED BY <1>8, <2>1, <2>2 DEF Connected
<1>9. ASSUME NEW k \in Connects, ConnectFailed(k)
      PROVE  WalletInv'
  BY <1>9 DEF ConnectFailed
<1> QED BY <1>1, <1>2, <1>3, <1>4, <1>5, <1>6, <1>7, <1>8, <1>9 DEF Session

----------------------------------------------------------------------------
(* The runs.                                                                *)

\* What stage a run is at, how it ended, what became of its transaction, and what its
\* panel shows for it.
Coherent(f, s) ==
    LET at == flow[f].at
        end == flow[f].end
        l == landed[f]
    IN  \/ at = "building" /\ end = None /\ l = "no" /\ s = State("building", NoHash)
        \/ at \in {"checking", "signing"} /\ end = None /\ l = "no" /\ s = State("signing", NoHash)
        \/ at = "sending" /\ end = None /\ l = "no" /\ s = State("submitting", NoHash)
        \/ at = "polling" /\ end = None /\ l # "no" /\ s = State("pending", f)
        \/ at = "done" /\ end = "failed" /\ l = "no" /\ s = State("failed", NoHash)
        \/ at = "done" /\ end \in {"declined", "error"} /\ l = "no" /\ s = State("rejected", NoHash)
        \/ at = "done" /\ end \in {"lost", "threw"} /\ s = State("failed", NoHash)
        \/ at = "done" /\ end = "answered" /\ l = "success" /\ s = State("confirmed", f)
        \/ at = "done" /\ end = "answered" /\ l = "failure" /\ s = State("failed", f)
        \/ at = "done" /\ end = "answered" /\ l # "no" /\ s = State("unconfirmed", f)

\* Clicks are numbered in order; the last run of a panel is what it shows, the ones
\* before it are over, and a dialog is open only over a panel that is not busy.
RunsInv ==
    /\ TxTypeOK
    /\ \E n \in Nat : Used = 1 .. n
    /\ \A f \in Used : \E s : Coherent(f, s)
    /\ \A f \in Flows \ Used : landed[f] = "no"
    /\ \A f \in Used : flow[f].at # "done" \/ landed[f] # "no" =>
          flow[f].conn.network = Configured
    /\ \A p \in Panels, f \in Flows : Last(p, f) => Coherent(f, shown[p])
    /\ \A p \in Panels : \A f \in Of(p) : flow[f].at # "done" => Last(p, f)
    /\ \A p \in opened : ~Busy(p)

\* A panel whose last run is not over is busy.
LEMMA UnfinishedIsBusy ==
    ASSUME RunsInv, NEW p \in Panels, NEW f \in Of(p), flow[f].at # "done"
    PROVE  Busy(p)
<1>1. f \in Flows /\ Last(p, f)
  BY DEF RunsInv, Of, Used
<1>2. Coherent(f, shown[p])
  BY <1>1 DEF RunsInv
<1> QED BY <1>2 DEF Coherent, Busy, BusyStatuses, State

\* No panel has run anything yet.
LEMMA RunsInitInv == TxInit => RunsInv
<1> SUFFICES ASSUME TxInit PROVE RunsInv
  OBVIOUS
<1>1. Used = {}
  BY DEF TxInit, Used
<1>2. Used = 1 .. 0
  BY <1>1
<1>3. TxTypeOK
  BY DEF TxInit, TxTypeOK, Idle, State, TxStatuses
<1>4. \A p \in Panels : Of(p) = {}
  BY <1>1 DEF Of
<1>5. opened = {} /\ \A f \in Flows : landed[f] = "no"
  BY DEF TxInit
<1> QED BY <1>1, <1>2, <1>3, <1>4, <1>5 DEF RunsInv, Last

\* A step of one run: it may change its stage, its end and its transaction's fate, and
\* sets what its panel shows to the state that goes with them.
LEMMA RunMoves ==
    ASSUME RunsInv,
           NEW f \in Used, flow[f].at # "done",
           NEW at \in {"checking", "signing", "sending", "polling", "done"},
           NEW end \in Ends \cup {None}, NEW s, s \in [status : TxStatuses, hash : Flows \cup {NoHash}],
           flow' = [flow EXCEPT ![f].at = at, ![f].end = end],
           Set(f, s), opened' = opened,
           landed' \in [Flows -> {"no", "pool", "success", "failure"}],
           \A g \in Flows \ {f} : landed'[g] = landed[g],
           Coherent(f, s)'
    PROVE  RunsInv'
<1>1. f \in Flows /\ flow[f] \in Flow /\ f \in DOMAIN flow
  BY DEF Used, RunsInv, TxTypeOK, Unused, Flow
<1>2. flow[f].conn.network = Configured
  BY DEF RunsInv
<1>3. /\ flow'[f] \in Flow /\ flow'[f].at = at /\ flow'[f].end = end
      /\ flow'[f].panel = flow[f].panel /\ flow'[f].conn = flow[f].conn
      /\ flow'[f] # Unused
  <2>1. flow'[f] = [flow[f] EXCEPT !.at = at, !.end = end]
    BY <1>1
  <2> QED BY <1>1, <2>1 DEF Flow, Unused
<1>4. \A g \in Flows \ {f} : flow'[g] = flow[g]
  BY <1>1 DEF RunsInv, TxTypeOK
<1>5. Used' = Used
  BY <1>1, <1>3, <1>4 DEF Used
<1>6. TxTypeOK'
  <2>1. shown' \in [Panels -> [status : TxStatuses, hash : Flows \cup {NoHash}]]
    BY DEF Set, RunsInv, TxTypeOK
  <2>2. flow' \in [Flows -> Flow \cup {Unused}]
    BY <1>1, <1>3, <1>4 DEF RunsInv, TxTypeOK
  <2> QED BY <2>1, <2>2 DEF RunsInv, TxTypeOK
<1>7. \A p \in Panels : Of(p)' = Of(p)
  <2>1. \A g \in Used : flow'[g].panel = flow[g].panel
    BY <1>3, <1>4 DEF Used
  <2> QED BY <1>5, <2>1 DEF Of
<1>8. \A p \in Panels : p # flow[f].panel => shown'[p] = shown[p]
  BY DEF Set, RunsInv, TxTypeOK
<1>9. \A p \in Panels : p = flow[f].panel => shown'[p] = s
  BY DEF Set
<1>10. ASSUME NEW g \in Flows \ {f}, NEW t, Coherent(g, t)
       PROVE  Coherent(g, t)'
  <2>1. flow'[g] = flow[g] /\ landed'[g] = landed[g]
    BY <1>4
  <2> QED BY <1>10, <2>1 DEF Coherent
<1>11. \A p \in Panels, g \in Flows : Last(p, g)' <=> Last(p, g)
  BY <1>7 DEF Last
<1>12. \A p \in Panels, g \in Flows : Last(p, g)' => Coherent(g, shown[p])'
  <2> SUFFICES ASSUME NEW p \in Panels, NEW g \in Flows, Last(p, g)
               PROVE  Coherent(g, shown[p])'
    BY <1>11
  <2>1. CASE g = f
    <3>1. flow[f].panel = p
      BY <2>1 DEF Last, Of
    <3>2. shown'[p] = s
      BY <1>9, <3>1
    <3> QED BY <2>1, <3>2 DEF Coherent
  <2>2. CASE g # f
    <3>1. flow[f].panel # p
      <4>1. SUFFICES ASSUME flow[f].panel = p PROVE FALSE
        OBVIOUS
      <4>2. f \in Of(p) /\ Last(p, f)
        BY <4>1 DEF Of, RunsInv
      <4>3. g \in Nat /\ f \in Nat
        BY <1>1, TransactionAssumption DEF Flows
      <4>4. f <= g /\ g <= f
        BY <4>2 DEF Last
      <4> QED BY <2>2, <4>3, <4>4
    <3>2. shown'[p] = shown[p]
      BY <1>8, <3>1
    <3>3. Coherent(g, shown[p])
      BY DEF RunsInv
    <3> QED BY <2>2, <3>2, <3>3, <1>4 DEF Coherent
  <2> QED BY <2>1, <2>2
<1>13. \A p \in Panels : \A g \in Of(p)' : flow'[g].at # "done" => Last(p, g)'
  <2> SUFFICES ASSUME NEW p \in Panels, NEW g \in Of(p), flow'[g].at # "done"
               PROVE  Last(p, g)
    BY <1>7, <1>11 DEF Of, Used
  <2>1. flow[g].at # "done"
    BY <1>4 DEF Of, Used
  <2> QED BY <2>1 DEF RunsInv
<1>14. \A p \in opened' : ~Busy(p)'
  <2> SUFFICES ASSUME NEW p \in opened PROVE ~Busy(p)'
    OBVIOUS
  <2>1. p \in Panels /\ ~Busy(p)
    BY TransactionAssumption DEF RunsInv, TxTypeOK
  <2>2. p # flow[f].panel
    BY <2>1, UnfinishedIsBusy DEF Of
  <2> QED BY <1>8, <2>1, <2>2 DEF Busy
<1>15. \A g \in Used' : \E t : Coherent(g, t)'
  BY <1>5, <1>10 DEF RunsInv, Used
<1>16. \A g \in Flows \ Used' : landed'[g] = "no"
  BY <1>5 DEF RunsInv
<1>17. \A g \in Used' : flow'[g].at # "done" \/ landed'[g] # "no" =>
          flow'[g].conn.network = Configured
  BY <1>2, <1>3, <1>4, <1>5 DEF RunsInv, Used
<1>18. \E n \in Nat : Used' = 1 .. n
  BY <1>5 DEF RunsInv
<1> QED BY <1>6, <1>12, <1>13, <1>14, <1>15, <1>16, <1>17, <1>18 DEF RunsInv

\* A new run gets the next number, and the panel it is started from was not busy.
LEMMA RunStarts ==
    ASSUME RunsInv, WalletInv,
           NEW p \in Panels, NEW op \in Ops, NEW f \in Flows,
           Run(p, op, f), ~Busy(p), opened' \subseteq opened,
           p \notin opened'
    PROVE  RunsInv'
<1> DEFINE ok == Allowed(connection)
           x == [at |-> IF ok THEN "building" ELSE "done", panel |-> p,
                 conn |-> connection, op |-> op, end |-> IF ok THEN None ELSE "failed"]
<1>0. PICK s : s = IF ok THEN State("building", NoHash) ELSE State("failed", NoHash)
  OBVIOUS
<1>1. flow' = [flow EXCEPT ![f] = x] /\ shown' = [shown EXCEPT ![p] = s] /\ landed' = landed
  BY <1>0 DEF Run
<1>2. connection \in Connection /\ connection # None
  BY DEF Run, WalletInv, WalletTypeOK
<1>3. PICK n \in Nat : Used = 1 .. n
  BY DEF RunsInv
<1>4. f = n + 1
  <2>1. Cardinality(1 .. n) = n
    BY FS_Interval
  <2> QED BY <1>3, <2>1 DEF Run, NextFlow
<1>5. f \notin Used /\ flow[f] = Unused /\ landed[f] = "no"
  BY <1>3, <1>4 DEF Used, RunsInv
<1>6. x \in Flow /\ x # Unused
  BY <1>2 DEF Flow, Ends, Unused
<1>7. /\ flow'[f] = x
      /\ \A g \in Flows \ {f} : flow'[g] = flow[g]
      /\ shown'[p] = s
      /\ \A q \in Panels \ {p} : shown'[q] = shown[q]
  BY <1>1 DEF RunsInv, TxTypeOK
<1>8. Used' = Used \cup {f}
  BY <1>6, <1>7 DEF Used
<1>9. Used' = 1 .. (n + 1)
  BY <1>3, <1>4, <1>8
<1>10. TxTypeOK'
  <2>1. flow' \in [Flows -> Flow \cup {Unused}]
    BY <1>1, <1>6 DEF RunsInv, TxTypeOK
  <2>2. s \in [status : TxStatuses, hash : Flows \cup {NoHash}]
    BY <1>0 DEF State, TxStatuses, BusyStatuses
  <2>3. shown' \in [Panels -> [status : TxStatuses, hash : Flows \cup {NoHash}]]
    BY <1>1, <2>2 DEF RunsInv, TxTypeOK
  <2> QED BY <1>1, <2>1, <2>3 DEF RunsInv, TxTypeOK
<1>11. Coherent(f, s)'
  <2>1. x.at = (IF ok THEN "building" ELSE "done") /\ x.end = (IF ok THEN None ELSE "failed")
    OBVIOUS
  <2>2. flow'[f].at = x.at /\ flow'[f].end = x.end /\ landed'[f] = "no"
    BY <1>1, <1>5, <1>7
  <2>3. Allowed(connection) => s = State("building", NoHash)
    BY <1>0
  <2>4. ~Allowed(connection) => s = State("failed", NoHash)
    BY <1>0
  <2> HIDE DEF x
  <2> QED BY <2>1, <2>2, <2>3, <2>4 DEF Coherent
<1>12. \A g \in Flows \ {f} : flow'[g] = flow[g] /\ landed'[g] = landed[g]
  BY <1>1, <1>7
<1>13. ASSUME NEW g \in Flows \ {f}, NEW t, Coherent(g, t)
       PROVE  Coherent(g, t)'
  BY <1>12, <1>13 DEF Coherent
<1>14. \A q \in Panels \ {p} : Of(q)' = Of(q)
  <2>1. x.panel = p
    OBVIOUS
  <2> HIDE DEF x
  <2> QED BY <1>5, <1>7, <1>8, <2>1 DEF Of, Used
<1>15. Of(p)' = Of(p) \cup {f}
  <2>1. x.panel = p
    OBVIOUS
  <2> HIDE DEF x
  <2> QED BY <1>5, <1>7, <1>8, <2>1 DEF Of, Used
<1>16. \A g \in Of(p)' : g \in Nat /\ f \in Nat /\ g <= f
  <2>1. Of(p)' \subseteq 1 .. (n + 1)
    BY <1>9 DEF Of
  <2> QED BY <1>4, <2>1
<1>17. \A g \in Flows : Last(p, g)' <=> g = f
  <2>1. Last(p, f)'
    BY <1>15, <1>16 DEF Last
  <2>2. ASSUME NEW g \in Flows, Last(p, g)'
        PROVE  g = f
    <3>1. f <= g /\ g \in Of(p)'
      BY <1>15, <2>2 DEF Last
    <3> QED BY <1>16, <3>1
  <2> QED BY <2>1, <2>2
<1>18. \A q \in Panels \ {p}, g \in Flows : Last(q, g)' <=> Last(q, g)
  BY <1>14 DEF Last
<1>19. \A q \in Panels, g \in Flows : Last(q, g)' => Coherent(g, shown[q])'
  <2> SUFFICES ASSUME NEW q \in Panels, NEW g \in Flows, Last(q, g)'
               PROVE  Coherent(g, shown[q])'
    OBVIOUS
  <2>1. CASE q = p
    <3>1. g = f /\ shown'[q] = s
      BY <1>7, <1>17, <2>1
    <3> HIDE DEF x
    <3> QED BY <1>11, <3>1 DEF Coherent
  <2>2. CASE q # p
    <3>1. Last(q, g) /\ shown'[q] = shown[q]
      BY <1>7, <1>18, <2>2
    <3>2. g # f
      BY <1>5, <3>1 DEF Last, Of
    <3>3. Coherent(g, shown[q])
      BY <3>1 DEF RunsInv
    <3>4. flow'[g] = flow[g] /\ landed'[g] = landed[g]
      BY <1>12, <3>2
    <3> HIDE DEF x
    <3> QED BY <3>1, <3>3, <3>4 DEF Coherent
  <2> QED BY <2>1, <2>2
<1>20. \A q \in Panels : \A g \in Of(q)' : flow'[g].at # "done" => Last(q, g)'
  <2> SUFFICES ASSUME NEW q \in Panels, NEW g \in Of(q)', flow'[g].at # "done"
               PROVE  Last(q, g)'
    OBVIOUS
  <2>1. CASE q = p
    <3>1. CASE g = f
      BY <1>17, <2>1, <3>1
    <3>2. CASE g # f
      <4>1. g \in Of(p) /\ flow[g].at # "done"
        BY <1>12, <1>15, <2>1, <3>2 DEF Of, Used
      <4> QED BY <4>1, UnfinishedIsBusy
    <3> QED BY <3>1, <3>2
  <2>2. CASE q # p
    <3>1. g \in Of(q) /\ g \in Flows \ {f}
      BY <1>5, <1>14, <2>2 DEF Of, Used
    <3>2. flow[g].at # "done"
      BY <1>12, <3>1
    <3> QED BY <1>18, <2>2, <3>1, <3>2 DEF RunsInv
  <2> QED BY <2>1, <2>2
<1>21. \A q \in opened' : ~Busy(q)'
  <2> SUFFICES ASSUME NEW q \in opened' PROVE ~Busy(q)'
    OBVIOUS
  <2>1. q \in opened /\ q \in Panels \ {p} /\ ~Busy(q)
    BY TransactionAssumption DEF RunsInv, TxTypeOK
  <2> QED BY <1>7, <2>1 DEF Busy
<1>22. \A g \in Used' : \E t : Coherent(g, t)'
  <2> HIDE DEF x
  <2> QED BY <1>8, <1>11, <1>13 DEF RunsInv, Used
<1>23. \A g \in Flows \ Used' : landed'[g] = "no"
  BY <1>1, <1>8 DEF RunsInv
<1>24. \A g \in Used' : flow'[g].at # "done" \/ landed'[g] # "no" =>
          flow'[g].conn.network = Configured
  <2>1. flow'[f].at # "done" => flow'[f].conn.network = Configured
    BY <1>7 DEF Allowed
  <2>2. landed'[f] = "no"
    BY <1>1, <1>5
  <2> HIDE DEF x
  <2> QED BY <1>8, <1>12, <2>1, <2>2 DEF RunsInv, Used
<1>25. \E m \in Nat : Used' = 1 .. m
  BY <1>9
<1> HIDE DEF x
<1> QED BY <1>10, <1>19, <1>20, <1>21, <1>22, <1>23, <1>24, <1>25 DEF RunsInv

\* The panels that leave the page have no run any more; what a run was at, it stays at.
LEMMA PanelsLeave ==
    ASSUME RunsInv, NEW P \in SUBSET Panels, Unmounted(P)
    PROVE  RunsInv'
<1>1. \A f \in Flows : /\ flow'[f] \in Flow \cup {Unused}
                       /\ flow'[f] = Unused <=> flow[f] = Unused
                       /\ flow[f] # Unused =>
                             /\ flow'[f].at = flow[f].at /\ flow'[f].end = flow[f].end
                             /\ flow'[f].conn = flow[f].conn
                             /\ flow'[f].panel = IF flow[f].panel \in P THEN None ELSE flow[f].panel
  <2> SUFFICES ASSUME NEW f \in Flows
               PROVE  /\ flow'[f] \in Flow \cup {Unused}
                      /\ flow'[f] = Unused <=> flow[f] = Unused
                      /\ flow[f] # Unused =>
                            /\ flow'[f].at = flow[f].at /\ flow'[f].end = flow[f].end
                            /\ flow'[f].conn = flow[f].conn
                            /\ flow'[f].panel = IF flow[f].panel \in P THEN None ELSE flow[f].panel
    OBVIOUS
  <2>1. flow[f] \in Flow \cup {Unused}
    BY DEF RunsInv, TxTypeOK
  <2>2. \A y \in Flow : y # Unused /\ [y EXCEPT !.panel = None] \in Flow
    BY DEF Flow, Unused
  <2>3. CASE f \in Used /\ flow[f].panel \in P
    BY <2>1, <2>2, <2>3 DEF Unmounted, Used, Flow
  <2>4. CASE ~(f \in Used /\ flow[f].panel \in P)
    BY <2>1, <2>4 DEF Unmounted, Used
  <2> QED BY <2>3, <2>4
<1>2. flow' \in [Flows -> Flow \cup {Unused}]
  <2>1. flow' = [f \in Flows |-> flow'[f]]
    BY DEF Unmounted
  <2> QED BY <1>1, <2>1
<1>3. TxTypeOK'
  <2>1. shown' \in [Panels -> [status : TxStatuses, hash : Flows \cup {NoHash}]]
    BY DEF Unmounted, RunsInv, TxTypeOK, Idle, State, TxStatuses
  <2> QED BY <1>2, <2>1 DEF Unmounted, RunsInv, TxTypeOK
<1>4. Used' = Used
  BY <1>1 DEF Used
<1>5. \A p \in P : Of(p)' = {}
  BY <1>1, <1>4, TransactionAssumption DEF Of, Used
<1>6. \A p \in Panels \ P : Of(p)' = Of(p) /\ shown'[p] = shown[p]
  BY <1>1, <1>4, TransactionAssumption DEF Of, Used, Unmounted
<1>7. landed' = landed /\ opened' = opened \ P
  BY DEF Unmounted
<1>8. ASSUME NEW g \in Used, NEW t, Coherent(g, t)
      PROVE  Coherent(g, t)'
  <2>1. flow'[g].at = flow[g].at /\ flow'[g].end = flow[g].end /\ landed'[g] = landed[g]
    BY <1>1, <1>7 DEF Used
  <2> QED BY <1>8, <2>1 DEF Coherent
<1>9. \A p \in Panels, g \in Flows : Last(p, g)' => p \notin P /\ Last(p, g) /\ g \in Used
  BY <1>5, <1>6 DEF Last, Of
<1>10. \A p \in Panels, g \in Flows : Last(p, g)' => Coherent(g, shown[p])'
  <2> SUFFICES ASSUME NEW p \in Panels, NEW g \in Flows, Last(p, g)'
               PROVE  Coherent(g, shown[p])'
    OBVIOUS
  <2>1. p \notin P /\ Last(p, g) /\ g \in Used
    BY <1>9
  <2>2. Coherent(g, shown[p]) /\ shown'[p] = shown[p]
    BY <1>6, <2>1 DEF RunsInv
  <2>3. flow'[g].at = flow[g].at /\ flow'[g].end = flow[g].end /\ landed'[g] = landed[g]
    BY <1>1, <1>7, <2>1 DEF Used
  <2> QED BY <2>2, <2>3 DEF Coherent
<1>11. \A p \in Panels : \A g \in Of(p)' : flow'[g].at # "done" => Last(p, g)'
  <2> SUFFICES ASSUME NEW p \in Panels, NEW g \in Of(p)', flow'[g].at # "done"
               PROVE  Last(p, g)'
    OBVIOUS
  <2>1. p \notin P /\ g \in Of(p) /\ Of(p)' = Of(p)
    BY <1>5, <1>6
  <2>2. flow[g].at # "done"
    BY <1>1, <2>1 DEF Of, Used
  <2>3. Last(p, g)
    BY <2>1, <2>2 DEF RunsInv
  <2> QED BY <2>1, <2>3 DEF Last
<1>12. \A p \in opened' : ~Busy(p)'
  <2>1. \A p \in opened' : p \in Panels \ P /\ p \in opened
    BY <1>7, TransactionAssumption DEF RunsInv, TxTypeOK
  <2> QED BY <1>6, <2>1 DEF RunsInv, Busy
<1>13. \A g \in Used' : flow'[g].at # "done" \/ landed'[g] # "no" =>
          flow'[g].conn.network = Configured
  BY <1>1, <1>4, <1>7 DEF RunsInv, Used
<1>14. \A g \in Used' : \E t : Coherent(g, t)'
  BY <1>4, <1>8 DEF RunsInv
<1>15. \A g \in Flows \ Used' : landed'[g] = "no"
  BY <1>4, <1>7 DEF RunsInv
<1>16. \E n \in Nat : Used' = 1 .. n
  BY <1>4 DEF RunsInv
<1> QED BY <1>3, <1>10, <1>11, <1>12, <1>13, <1>14, <1>15, <1>16 DEF RunsInv

\* A ledger takes a transaction in: no run that is over with an answer waits for it.
LEMMA LedgerIncludes ==
    ASSUME RunsInv, NEW f \in Used, NEW ok \in BOOLEAN, Include(f, ok)
    PROVE  RunsInv'
<1>1. /\ flow' = flow /\ shown' = shown /\ opened' = opened
      /\ landed' = [landed EXCEPT ![f] = IF ok THEN "success" ELSE "failure"]
      /\ landed[f] = "pool" /\ f \in Flows
  BY DEF Include, Used
<1>2. TxTypeOK'
  BY <1>1 DEF RunsInv, TxTypeOK
<1>3. /\ landed'[f] \in {"success", "failure"}
      /\ \A g \in Flows \ {f} : landed'[g] = landed[g]
  BY <1>1 DEF RunsInv, TxTypeOK
<1>4. ASSUME NEW g \in Flows, NEW t, Coherent(g, t)
      PROVE  Coherent(g, t)'
  <2>1. CASE g = f
    BY <1>1, <1>3, <1>4, <2>1 DEF Coherent
  <2>2. CASE g # f
    BY <1>1, <1>3, <1>4, <2>2 DEF Coherent
  <2> QED BY <2>1, <2>2
<1>5. Used' = Used
  BY <1>1 DEF Used
<1>6. \A p \in Panels : Of(p)' = Of(p) /\ (Busy(p)' <=> Busy(p))
  BY <1>1, <1>5 DEF Of, Busy
<1>7. \A p \in Panels, g \in Flows : Last(p, g)' <=> Last(p, g)
  BY <1>6 DEF Last
<1>8. \A p \in Panels, g \in Flows : Last(p, g)' => Coherent(g, shown[p])'
  <2> SUFFICES ASSUME NEW p \in Panels, NEW g \in Flows, Last(p, g)
               PROVE  Coherent(g, shown[p])'
    BY <1>7
  <2>1. PICK t : t = shown[p]
    OBVIOUS
  <2>2. Coherent(g, t)'
    BY <1>4, <2>1 DEF RunsInv
  <2> QED BY <1>1, <2>1, <2>2 DEF Coherent
<1>9. \A g \in Used' : flow'[g].at # "done" \/ landed'[g] # "no" =>
          flow'[g].conn.network = Configured
  BY <1>1, <1>3, <1>5 DEF RunsInv, Used
<1>10. \A g \in Used' : \E t : Coherent(g, t)'
  BY <1>4, <1>5 DEF RunsInv, Used
<1>11. \A g \in Flows \ Used' : landed'[g] = "no"
  BY <1>1, <1>3, <1>5 DEF RunsInv
<1>12. \A p \in Panels : \A g \in Of(p)' : flow'[g].at # "done" => Last(p, g)'
  BY <1>1, <1>6, <1>7 DEF RunsInv, Of, Used
<1>13. \A p \in opened' : ~Busy(p)'
  BY <1>1, <1>6, TransactionAssumption DEF RunsInv, TxTypeOK
<1>14. \E n \in Nat : Used' = 1 .. n
  BY <1>5 DEF RunsInv
<1> QED BY <1>2, <1>8, <1>9, <1>10, <1>11, <1>12, <1>13, <1>14 DEF RunsInv

\* Opening and closing a dialog.
LEMMA DialogMoves ==
    ASSUME RunsInv, NEW p \in Panels, OpenDialog(p) \/ CloseDialog(p)
    PROVE  RunsInv'
<1>1. /\ shown' = shown /\ flow' = flow /\ landed' = landed
      /\ opened' \subseteq Dialogs
      /\ \A q \in opened' : q \in opened \/ (q = p /\ ~Busy(p))
  BY DEF OpenDialog, CloseDialog, Offered, RunsInv, TxTypeOK
<1>2. Used' = Used /\ \A q \in Panels : Of(q)' = Of(q) /\ (Busy(q)' <=> Busy(q))
  BY <1>1 DEF Used, Of, Busy
<1>3. \A q \in Panels, g \in Flows : Last(q, g)' <=> Last(q, g)
  BY <1>2 DEF Last
<1>4. TxTypeOK'
  BY <1>1 DEF RunsInv, TxTypeOK
<1>5. \A g, t : Coherent(g, t) => Coherent(g, t)'
  BY <1>1 DEF Coherent
<1>6. \A q \in Panels, g \in Flows : Last(q, g)' => Coherent(g, shown[q])'
  BY <1>1, <1>3 DEF RunsInv, Coherent
<1>7. \A q \in opened' : ~Busy(q)'
  BY <1>1, <1>2, TransactionAssumption DEF RunsInv, TxTypeOK
<1>8. \A q \in Panels : \A g \in Of(q)' : flow'[g].at # "done" => Last(q, g)'
  BY <1>1, <1>2, <1>3 DEF RunsInv, Of, Used
<1> QED BY <1>1, <1>2, <1>4, <1>5, <1>6, <1>7, <1>8 DEF RunsInv

\* Every step of a run that is under way.
LEMMA RunStep ==
    ASSUME RunsInv, NEW f \in Used,
           Progress(f) \/ PolledSuccess(f) \/ Unforced(f)
    PROVE  RunsInv'
<1>1. f \in Flows /\ flow[f] \in Flow /\ f \in DOMAIN flow /\ f \in Nat
  BY TransactionAssumption DEF Used, RunsInv, TxTypeOK, Unused, Flow, Flows
<1>2. PICK s : Coherent(f, s)
  BY DEF RunsInv
<1>3. /\ landed \in [Flows -> {"no", "pool", "success", "failure"}]
      /\ landed[f] \in {"no", "pool", "success", "failure"}
  BY <1>1 DEF RunsInv, TxTypeOK
<1>4. /\ \A z \in TxStatuses : State(z, NoHash) \in [status : TxStatuses, hash : Flows \cup {NoHash}]
      /\ \A z \in TxStatuses : State(z, f) \in [status : TxStatuses, hash : Flows \cup {NoHash}]
  BY <1>1 DEF State
<1> DEFINE Stages == {"checking", "signing", "sending", "polling", "done"}
           Fates == {"no", "pool", "success", "failure"}
           Moved(at, end, l, t) ==
              /\ flow[f].at # "done"
              /\ flow' = [flow EXCEPT ![f].at = at, ![f].end = end]
              /\ Set(f, t) /\ opened' = opened
              /\ landed' = [landed EXCEPT ![f] = l]
<1>5. ASSUME NEW at \in Stages, NEW end \in Ends \cup {None}, NEW l \in Fates, NEW t,
             t \in [status : TxStatuses, hash : Flows \cup {NoHash}],
             Moved(at, end, l, t),
             flow'[f].at = at /\ flow'[f].end = end /\ landed'[f] = l => Coherent(f, t)'
      PROVE  RunsInv'
  <2>1. flow'[f].at = at /\ flow'[f].end = end /\ landed'[f] = l
    BY <1>1, <1>3, <1>5 DEF Flow
  <2>2. /\ landed' \in [Flows -> Fates]
        /\ \A g \in Flows \ {f} : landed'[g] = landed[g]
    BY <1>1, <1>3, <1>5
  <2> QED BY <1>5, <2>1, <2>2, RunMoves
<1>6. \A at, t : Goes(f, at, t) /\ flow[f].end = None =>
          /\ flow' = [flow EXCEPT ![f].at = at, ![f].end = None]
          /\ Set(f, t) /\ opened' = opened
  <2> SUFFICES ASSUME NEW at, NEW t, Goes(f, at, t), flow[f].end = None
               PROVE  flow' = [flow EXCEPT ![f].at = at, ![f].end = None]
    BY DEF Goes
  <2>1. [flow[f] EXCEPT !.at = at] = [flow[f] EXCEPT !.at = at, !.end = None]
    BY <1>1 DEF Flow
  <2> QED BY <2>1 DEF Goes
<1>7. /\ UNCHANGED landed => landed' = [landed EXCEPT ![f] = landed[f]]
      /\ flow[f].at # "done" => flow[f].end = None
      /\ flow[f].at \in {"building", "checking", "signing", "sending"} => landed[f] = "no"
      /\ flow[f].at = "polling" => landed[f] # "no"
  BY <1>1, <1>2, <1>3 DEF Coherent
<1>8. /\ {"failed", "signing", "submitting", "pending", "rejected", "confirmed", "unconfirmed"}
              \subseteq TxStatuses
      /\ {"failed", "declined", "error", "lost", "threw", "answered"} \subseteq Ends
  BY DEF TxStatuses, BusyStatuses, Ends
<1>9. CASE Built(f)
  <2>1. Moved("checking", None, "no", State("signing", NoHash))
    BY <1>6, <1>7, <1>9 DEF Built
  <2> QED BY <1>4, <1>5, <1>8, <2>1 DEF Coherent
<1>10. CASE BuildFailed(f) \/ NetworkRefused(f) \/ SignFailed(f) \/ TryAgainLater(f)
  <2>1. Moved("done", "failed", "no", State("failed", NoHash))
    BY <1>7, <1>10 DEF BuildFailed, NetworkRefused, SignFailed, TryAgainLater, Fails, Finish
  <2> QED BY <1>4, <1>5, <1>8, <2>1 DEF Coherent
<1>11. CASE NetworkChecked(f)
  <2>1. Moved("signing", None, "no", State("signing", NoHash))
    BY <1>6, <1>7, <1>11 DEF NetworkChecked
  <2> QED BY <1>4, <1>5, <1>8, <2>1 DEF Coherent
<1>12. CASE Signed(f)
  <2>1. Moved("sending", None, "no", State("submitting", NoHash))
    BY <1>6, <1>7, <1>12 DEF Signed
  <2> QED BY <1>4, <1>5, <1>8, <2>1 DEF Coherent
<1>13. CASE Declined(f)
  <2>1. Moved("done", "declined", "no", State("rejected", NoHash))
    BY <1>7, <1>13 DEF Declined, Finish
  <2> QED BY <1>4, <1>5, <1>8, <2>1 DEF Coherent
<1>14. CASE Refused(f)
  <2>1. Moved("done", "error", "no", State("rejected", NoHash))
    BY <1>7, <1>14 DEF Refused, Finish
  <2> QED BY <1>4, <1>5, <1>8, <2>1 DEF Coherent
<1>15. CASE Accepted(f)
  <2>1. Moved("polling", None, "pool", State("pending", f))
    BY <1>6, <1>7, <1>15 DEF Accepted
  <2> QED BY <1>4, <1>5, <1>8, <2>1 DEF Coherent
<1>16. CASE SendLost(f)
  <2>1. PICK l \in {"no", "pool"} : landed' = [landed EXCEPT ![f] = l]
    BY <1>16 DEF SendLost
  <2>2. Moved("done", "lost", l, State("failed", NoHash))
    BY <1>16, <2>1 DEF SendLost, Finish
  <2> QED BY <1>4, <1>5, <1>8, <2>2 DEF Coherent
<1>17. CASE PolledSuccess(f)
  <2>1. Moved("done", "answered", "success", State("confirmed", f))
    BY <1>7, <1>17 DEF PolledSuccess, Finish
  <2> QED BY <1>4, <1>5, <1>8, <2>1 DEF Coherent
<1>18. CASE PolledFailure(f)
  <2>1. Moved("done", "answered", "failure", State("failed", f))
    BY <1>7, <1>18 DEF PolledFailure, Finish
  <2> QED BY <1>4, <1>5, <1>8, <2>1 DEF Coherent
<1>19. CASE PollGivesUp(f)
  <2>1. Moved("done", "answered", "pool", State("unconfirmed", f))
    BY <1>7, <1>19 DEF PollGivesUp, AttemptsOver, WithHash, Finish
  <2> QED BY <1>4, <1>5, <1>8, <2>1 DEF Coherent
<1>20. CASE PollThrew(f)
  <2>1. PICK l \in Fates : l = landed[f]
    BY <1>3
  <2>2. Moved("done", "threw", l, State("failed", NoHash))
    BY <1>7, <1>20, <2>1 DEF PollThrew, Finish
  <2> QED BY <1>4, <1>5, <1>8, <2>2 DEF Coherent
<1> QED BY <1>9, <1>10, <1>11, <1>12, <1>13, <1>14, <1>15, <1>16, <1>17, <1>18, <1>19, <1>20
        DEF Progress, Unforced

----------------------------------------------------------------------------
(* The two parts together.                                                  *)

\* Every step of the app, the extension and the network keeps both invariants.
LEMMA TransactionStep ==
    ASSUME WalletInv, RunsInv, [Next]_vars
    PROVE  WalletInv' /\ RunsInv'
<1>1. ASSUME UNCHANGED walletVars
      PROVE  WalletInv'
  BY <1>1 DEF walletVars, WalletInv, WalletTypeOK, Open
<1>2. ASSUME UNCHANGED txVars
      PROVE  RunsInv'
  BY <1>2 DEF txVars, RunsInv, TxTypeOK, Used, Coherent, Last, Of, Busy
<1>3. CASE UNCHANGED vars
  BY <1>1, <1>2, <1>3 DEF vars, walletVars, txVars
<1>4. CASE (Visitor \/ Session) /\ UNCHANGED txVars
  BY <1>2, <1>4, WalletStep
<1>5. ASSUME UNCHANGED walletVars, NEW p \in Panels,
             OpenDialog(p) \/ CloseDialog(p)
      PROVE  RunsInv'
  BY <1>5, DialogMoves
<1>6. ASSUME NEW p \in Panels, Unmounted({p})
      PROVE  RunsInv'
  BY <1>6, PanelsLeave
<1>7. ASSUME NEW p \in Panels, NEW f \in Flows, NEW op \in Ops, Click(p, op, f)
      PROVE  RunsInv'
  <2>1. p \notin opened' /\ opened' \subseteq opened
    BY <1>7 DEF Click, RunsInv, TxTypeOK
  <2> QED BY <1>7, <2>1, RunStarts DEF Click, Offered
<1>8. ASSUME NEW p \in Panels, NEW f \in Flows, NEW op \in Ops, ConfirmDialog(p, op, f)
      PROVE  RunsInv'
  <2>1. p \notin opened' /\ opened' \subseteq opened /\ ~Busy(p)
    BY <1>8 DEF ConfirmDialog, RunsInv
  <2> QED BY <1>8, <2>1, RunStarts DEF ConfirmDialog
<1>9. ASSUME NEW f \in Used, Progress(f) \/ PolledSuccess(f) \/ Unforced(f)
      PROVE  RunsInv'
  BY <1>9, RunStep
<1>10. ASSUME NEW f \in Used, Include(f, TRUE) \/ Include(f, FALSE)
       PROVE  RunsInv'
  BY <1>10, LedgerIncludes
<1> QED BY <1>1, <1>3, <1>4, <1>5, <1>6, <1>7, <1>8, <1>9, <1>10 DEF Next

\* Both invariants hold in every state.
LEMMA TransactionInvariant == Spec => [](WalletInv /\ RunsInv)
<1>1. Init => WalletInv /\ RunsInv
  BY WalletInitInv, RunsInitInv DEF Init
<1>2. (WalletInv /\ RunsInv) /\ [Next]_vars => (WalletInv /\ RunsInv)'
  BY TransactionStep
<1> QED BY <1>1, <1>2, PTL DEF Spec

\* The app, the extension and the network keep their types.
THEOREM TransactionTypes == Spec => []TransactionTypeOK
<1>1. WalletInv /\ RunsInv => TransactionTypeOK
  BY DEF WalletInv, RunsInv, TransactionTypeOK
<1> QED BY <1>1, TransactionInvariant, PTL

\* A session is shown as connected just when it has a connection, unless two connect
\* calls were open together.
THEOREM SessionIsConsistent == Spec => []SessionConsistent
<1>1. WalletInv /\ RunsInv => SessionConsistent
  BY DEF WalletInv, SessionConsistent
<1> QED BY <1>1, TransactionInvariant, PTL

\* Whatever the wallet went through, what was sent was signed for the deployment's
\* network.
THEOREM SentForTheDeployment == Spec => []SentForDeployment
<1>1. WalletInv /\ RunsInv => SentForDeployment
  BY DEF RunsInv, SentForDeployment
<1> QED BY <1>1, TransactionInvariant, PTL

\* What a panel says became of its last transaction is what became of it.
THEOREM TerminalStatesTrue == Spec => []TerminalStateIsTrue
<1>1. ASSUME RunsInv, NEW p \in Panels, NEW f \in Flows, Last(p, f)
      PROVE  /\ shown[p].status = "confirmed" => shown[p].hash = f /\ landed[f] = "success"
             /\ shown[p].status = "failed" /\ shown[p].hash # NoHash =>
                   shown[p].hash = f /\ landed[f] = "failure"
             /\ shown[p].status \in {"rejected", "failed"} /\ shown[p].hash = NoHash =>
                   landed[f] = "no" \/ flow[f].end \in {"lost", "threw"}
  <2>1. Coherent(f, shown[p])
    BY <1>1 DEF RunsInv
  <2>2. f # NoHash
    BY TransactionAssumption DEF Flows, NoHash
  <2> QED BY <2>1, <2>2 DEF Coherent, State
<1>2. WalletInv /\ RunsInv => TerminalStateIsTrue
  BY <1>1 DEF TerminalStateIsTrue
<1> QED BY <1>2, TransactionInvariant, PTL

\* A transaction the network took keeps its hash on its panel.
THEOREM TakenReferenced == Spec => []TakenIsReferenced
<1>1. ASSUME RunsInv, NEW p \in Panels, NEW f \in Flows, Last(p, f),
             landed[f] # "no", flow[f].end \notin {"lost", "threw"}
      PROVE  HashShown(p) = f
  <2>1. Coherent(f, shown[p])
    BY <1>1 DEF RunsInv
  <2> QED BY <1>1, <2>1 DEF Coherent, State, HashShown
<1>2. WalletInv /\ RunsInv => TakenIsReferenced
  BY <1>1 DEF TakenIsReferenced
<1> QED BY <1>2, TransactionInvariant, PTL

=============================================================================
