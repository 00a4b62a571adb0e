------------------------- MODULE WatcherDaemonProofs -------------------------
(***************************************************************************)
(* What the daemons' votes promise, for any number of daemons, accounts,   *)
(* SLAs, endpoints, rounds, attempts and restarts.  The inductive          *)
(* invariant follows a vote from the probe to the registry: the process    *)
(* that holds it, the envelope it signed and the copies in the pool all    *)
(* speak of the committed endpoint and of a health it had since the round  *)
(* began, as long as that round can still be voted in.  A second one       *)
(* follows the envelope: who still knows of it, and whether its answer was *)
(* lost.                                                                   *)
(***************************************************************************)
EXTENDS WatcherDaemon, TLAPS

----------------------------------------------------------------------------
(* The type invariant.                                                      *)

\* A process that sends or polls has signed something.
HoldsSigned == \A d \in Daemons : pc[d] \in {"send", "poll"} => signedTx[d] \in Tx

\* The program starts well typed.
LEMMA TypeInit == Init => DaemonTypeOK
BY BoundsAssumption, DaemonAssumption, AttemptsAssumption
   DEF Init, ChainInit, DaemonTypeOK, ChainTypeOK, Running, Reads, Submitting,
       Status, Tx, NoTx

\* A round that ends, or a crash, leaves the locals well typed.
LEMMA ForgetsType ==
    ASSUME DaemonTypeOK, NEW d \in Daemons, Forgets(d)
    PROVE  /\ roundID' \in [Daemons -> 0 .. MaxRound]
           /\ status' \in [Daemons -> Status]
           /\ signedTx' \in [Daemons -> Tx \cup {NoTx}]
           /\ attempt' \in [Daemons -> 0 .. MaxAttempts - 1]
BY BoundsAssumption, AttemptsAssumption DEF DaemonTypeOK, Forgets, Status

\* A step of a process goes to a place there is.
LEMMA GoesType ==
    ASSUME DaemonTypeOK, NEW d \in Daemons,
           NEW to \in Running \cup {"exited"}, Goes(d, to)
    PROVE  pc' \in [Daemons -> Running \cup {"exited"}]
BY DEF DaemonTypeOK, Goes

\* A process whose round ends is well typed.
LEMMA RoundEndsType ==
    ASSUME DaemonTypeOK, NEW d \in Daemons, RoundEnds(d),
           UNCHANGED <<chain, endpoints, confirmed>>,
           unknown' \subseteq BallotKeys
    PROVE  DaemonTypeOK'
<1>1. pc' \in [Daemons -> Running \cup {"exited"}]
  BY GoesType DEF RoundEnds, Running
<1> QED
  BY <1>1, ForgetsType DEF RoundEnds, DaemonTypeOK, ChainTypeOK, chain, endpoints

\* The ballot a process votes on, and the vote itself.
LEMMA BallotType ==
    ASSUME DaemonTypeOK, NEW d \in Daemons
    PROVE  /\ Ballot(d) \in Vote
           /\ BallotKey(d) \in [sla : Slas, round : 0 .. MaxRound, watcher : Watchers]
BY DaemonAssumption DEF DaemonTypeOK, Ballot, BallotKey, Vote

\* Ledgers, drops and changes of admission keep the types.
LEMMA ChainType ==
    ASSUME DaemonTypeOK, Chain, UNCHANGED <<endpoints, processes>>
    PROVE  DaemonTypeOK'
<1>1. ASSUME NEW t \in pool, Include(t) PROVE ChainTypeOK'
  <2>1. t \in Tx /\ t.vote \in Vote
    BY DEF DaemonTypeOK, ChainTypeOK, Tx
  <2>2. Verdict(t.vote) \in Results
    BY DEF Verdict, Results
  <2>3. seq' \in [Watchers -> Nat]
    BY <1>1, <2>1 DEF Include, DaemonTypeOK, ChainTypeOK, Vote
  <2>4. applied' \subseteq [tx : Tx, result : Results]
    BY <1>1, <2>1, <2>2 DEF Include, DaemonTypeOK, ChainTypeOK
  <2> QED
    BY <1>1, <2>1, <2>3, <2>4 DEF Include, DaemonTypeOK, ChainTypeOK
<1>2. ASSUME NEW t \in pool, Drop(t) PROVE ChainTypeOK'
  BY <1>2 DEF Drop, DaemonTypeOK, ChainTypeOK
<1>3. ASSUME NEW w \in Revocable, AdmissionChanges(w) PROVE ChainTypeOK'
  BY <1>3, BoundsOfTheRun DEF AdmissionChanges, DaemonTypeOK, ChainTypeOK
<1>4. ChainTypeOK'
  BY <1>1, <1>2, <1>3 DEF Chain
<1>5. UNCHANGED <<health, seenNow, seenLast, pc, target, roundID, status, signedTx,
                  attempt, stopping, confirmed, unknown, signed, restarts, died>>
  BY DEF endpoints, processes, locals, logged
<1> QED
  BY <1>4, <1>5 DEF DaemonTypeOK

\* So does each step of runOneRound and of the loop.
LEMMA DaemonType ==
    ASSUME DaemonTypeOK, HoldsSigned, NEW d \in Daemons, Daemon(d)
    PROVE  DaemonTypeOK'
<1> USE DEF chain, endpoints, locals, logged
<1>1. CASE ReadRound(d)
  <2>1. pc' \in [Daemons -> Running \cup {"exited"}]
    BY <1>1, GoesType DEF ReadRound, Running, Reads
  <2>2. roundID' \in [Daemons -> 0 .. MaxRound]
    BY <1>1, BoundsAssumption DEF ReadRound, DaemonTypeOK, ChainTypeOK
  <2> QED
    BY <1>1, <2>1, <2>2 DEF ReadRound, DaemonTypeOK, ChainTypeOK
<1>2. CASE CheckVoted(d)
  <2>1. CASE RoundEnds(d)
    BY <1>2, <2>1, RoundEndsType DEF CheckVoted, DaemonTypeOK
  <2>2. CASE Goes(d, "commitment") /\ UNCHANGED <<target, locals, stopping, signed, restarts, died>>
    <3>1. pc' \in [Daemons -> Running \cup {"exited"}]
      BY <2>2, GoesType DEF Running, Reads
    <3> QED
      BY <1>2, <2>2, <3>1 DEF CheckVoted, DaemonTypeOK, ChainTypeOK
  <2> QED
    BY <1>2, <2>1, <2>2 DEF CheckVoted
<1>3. CASE CheckCommitment(d)
  <2>1. CASE RoundEnds(d)
    BY <1>3, <2>1, RoundEndsType DEF CheckCommitment, DaemonTypeOK
  <2>2. CASE Goes(d, "probe") /\ UNCHANGED <<target, locals, stopping, signed, restarts, died>>
    <3>1. pc' \in [Daemons -> Running \cup {"exited"}]
      BY <2>2, GoesType DEF Running
    <3> QED
      BY <1>3, <2>2, <3>1 DEF CheckCommitment, DaemonTypeOK, ChainTypeOK
  <2> QED
    BY <1>3, <2>1, <2>2 DEF CheckCommitment
<1>4. CASE Probe(d)
  <2>1. pc' \in [Daemons -> Running \cup {"exited"}]
    BY <1>4, GoesType DEF Probe, Running, Submitting
  <2>2. status' \in [Daemons -> Status]
    BY <1>4 DEF Probe, DaemonTypeOK, Status
  <2> QED
    BY <1>4, <2>1, <2>2 DEF Probe, DaemonTypeOK, ChainTypeOK
<1>5. CASE Simulate(d)
  <2>1. CASE RoundEnds(d)
    BY <1>5, <2>1, RoundEndsType DEF Simulate, DaemonTypeOK
  <2>2. CASE Goes(d, "build") /\ UNCHANGED <<target, locals, stopping, signed, restarts, died>>
    <3>1. pc' \in [Daemons -> Running \cup {"exited"}]
      BY <2>2, GoesType DEF Running, Submitting
    <3> QED
      BY <1>5, <2>2, <3>1 DEF Simulate, DaemonTypeOK, ChainTypeOK
  <2> QED
    BY <1>5, <2>1, <2>2 DEF Simulate
<1>6. CASE Build(d)
  <2>1. pc' \in [Daemons -> Running \cup {"exited"}]
    BY <1>6, GoesType DEF Build, Running, Submitting
  <2>2. signed' \in 0 .. MaxSigned
    BY <1>6, AttemptsAssumption DEF Build, DaemonTypeOK
  <2>3. [id |-> signed', vote |-> Ballot(d), seq |-> seq[AccountOf[d]] + 1,
         built |-> now] \in Tx
    BY <2>2, BallotType, DaemonAssumption, AttemptsAssumption DEF DaemonTypeOK, ChainTypeOK, Tx
  <2>4. signedTx' \in [Daemons -> Tx \cup {NoTx}]
    BY <1>6, <2>3 DEF Build, DaemonTypeOK
  <2> QED
    BY <1>6, <2>1, <2>2, <2>4 DEF Build, DaemonTypeOK, ChainTypeOK
<1>7. ASSUME pc[d] = "send", Enqueue(signedTx[d]) \/ UNCHANGED pool,
             UNCHANGED <<now, admitted, votes, seq, applied>>
      PROVE  ChainTypeOK'
  BY <1>7 DEF Enqueue, HoldsSigned, DaemonTypeOK, ChainTypeOK
<1>8. CASE SendAnswered(d)
  <2>1. pc' \in [Daemons -> Running \cup {"exited"}]
    BY <1>8, GoesType DEF SendAnswered, Running, Submitting
  <2>2. ChainTypeOK'
    BY <1>7, <1>8 DEF SendAnswered
  <2> QED
    BY <1>8, <2>1, <2>2 DEF SendAnswered, DaemonTypeOK
<1>9. CASE SendRejected(d)
  BY <1>9, RoundEndsType DEF SendRejected, DaemonTypeOK
<1>10. CASE SendLost(d)
  <2>1. ChainTypeOK'
    BY <1>7, <1>10 DEF SendLost
  <2>2. CASE AttemptsLeft(d)
    <3>1. attempt' \in [Daemons -> 0 .. MaxAttempts - 1]
      BY <1>10, <2>2, AttemptsAssumption DEF SendLost, AttemptsLeft, DaemonTypeOK
    <3> QED
      BY <1>10, <2>1, <2>2, <3>1 DEF SendLost, DaemonTypeOK
  <2>3. CASE ~AttemptsLeft(d)
    <3>1. pc' \in [Daemons -> Running \cup {"exited"}]
      BY <1>10, <2>3, GoesType DEF SendLost, RoundEnds, Running
    <3>2. Forgets(d) /\ UNCHANGED <<target, stopping, signed, restarts, died>>
      BY <1>10, <2>3 DEF SendLost, RoundEnds
    <3>3. unknown' \subseteq BallotKeys
      BY <1>10, <2>3, BallotType DEF SendLost, DaemonTypeOK, BallotKeys
    <3> QED
      BY <1>10, <2>1, <3>1, <3>2, <3>3, ForgetsType DEF SendLost, DaemonTypeOK
  <2> QED
    BY <2>2, <2>3
<1>11. CASE PollAnswered(d)
  <2>1. pc' \in [Daemons -> Running \cup {"exited"}]
    BY <1>11, GoesType DEF PollAnswered, RoundEnds, Running
  <2>2. confirmed' \subseteq Vote
    BY <1>11 DEF PollAnswered, DaemonTypeOK, ChainTypeOK, Tx
  <2>3. Forgets(d) /\ UNCHANGED <<target, stopping, signed, restarts, died, chain, endpoints, unknown>>
    BY <1>11 DEF PollAnswered, RoundEnds
  <2> QED
    BY <2>1, <2>2, <2>3, ForgetsType DEF DaemonTypeOK, ChainTypeOK
<1>12. CASE CallFails(d)
  <2>1. unknown' \subseteq BallotKeys
    BY <1>12, BallotType DEF CallFails, DaemonTypeOK, BallotKeys
  <2> QED
    BY <1>12, <2>1, RoundEndsType DEF CallFails
<1>13. CASE Wake(d)
  <2>1. pc' \in [Daemons -> Running \cup {"exited"}]
    BY <1>13, GoesType DEF Wake, Running, Reads
  <2> QED
    BY <1>13, <2>1 DEF Wake, DaemonTypeOK, ChainTypeOK
<1>14. CASE Exit(d)
  <2>1. pc' \in [Daemons -> Running \cup {"exited"}]
    BY <1>14, GoesType DEF Exit
  <2> QED
    BY <1>14, <2>1 DEF Exit, DaemonTypeOK, ChainTypeOK
<1> QED
  BY <1>1, <1>2, <1>3, <1>4, <1>5, <1>6, <1>8, <1>9, <1>10, <1>11, <1>12, <1>13,
     <1>14 DEF Daemon

\* So do signals, crashes and restarts.
LEMMA FaultsType ==
    ASSUME DaemonTypeOK, NEW d \in Daemons, Faults(d) PROVE DaemonTypeOK'
<1> USE DEF chain, endpoints, locals, logged
<1>1. CASE Signal(d)
  <2>1. stopping' \in [Daemons -> BOOLEAN]
    BY <1>1 DEF Signal, DaemonTypeOK
  <2> QED
    BY <1>1, <2>1 DEF Signal, DaemonTypeOK, ChainTypeOK
<1>2. CASE Crash(d)
  <2>1. pc' \in [Daemons -> Running \cup {"exited"}]
    BY <1>2, GoesType DEF Crash
  <2>2. died' \subseteq BallotKeys
    BY <1>2, BallotType DEF Crash, DaemonTypeOK, BallotKeys
  <2> QED
    BY <1>2, <2>1, <2>2, ForgetsType DEF Crash, DaemonTypeOK, ChainTypeOK
<1>3. CASE Restart(d)
  <2>1. pc' \in [Daemons -> Running \cup {"exited"}]
    BY <1>3, GoesType DEF Restart, Running, Reads
  <2>2. target' \in [Daemons -> Endpoints] /\ stopping' \in [Daemons -> BOOLEAN]
    BY <1>3 DEF Restart, DaemonTypeOK
  <2>3. restarts' \in 0 .. MaxRestarts
    BY <1>3, AttemptsAssumption DEF Restart, DaemonTypeOK
  <2> QED
    BY <1>3, <2>1, <2>2, <2>3 DEF Restart, DaemonTypeOK, ChainTypeOK
<1> QED
  BY <1>1, <1>2, <1>3 DEF Faults

\* Time and the endpoints.
LEMMA EnvironmentType ==
    ASSUME DaemonTypeOK, RoundBegins \/ \E e \in Flaky : HealthChanges(e)
    PROVE  DaemonTypeOK'
<1> USE DEF chain, endpoints, processes, locals, logged
<1>1. CASE RoundBegins
  <2>1. now' \in 1 .. MaxRound
    BY <1>1, BoundsAssumption DEF RoundBegins, RoundAdvances, DaemonTypeOK, ChainTypeOK
  <2>2. seenNow' \in [Endpoints -> SUBSET Status] /\ seenLast' \in [Endpoints -> SUBSET Status]
    BY <1>1 DEF RoundBegins, DaemonTypeOK
  <2> QED
    BY <1>1, <2>1, <2>2 DEF RoundBegins, RoundAdvances, DaemonTypeOK, ChainTypeOK
<1>2. ASSUME NEW e \in Flaky, HealthChanges(e) PROVE DaemonTypeOK'
  BY <1>2, BoundsOfTheRun DEF HealthChanges, DaemonTypeOK, ChainTypeOK
<1> QED
  BY <1>1, <1>2

\* Every step keeps the types.
LEMMA TypeStep == DaemonTypeOK /\ HoldsSigned /\ [Next]_vars => DaemonTypeOK'
<1> SUFFICES ASSUME DaemonTypeOK, HoldsSigned, [Next]_vars PROVE DaemonTypeOK'
  OBVIOUS
<1>1. CASE Chain /\ UNCHANGED <<endpoints, processes>>
  BY <1>1, ChainType
<1>2. ASSUME NEW d \in Daemons, Daemon(d) \/ Faults(d) PROVE DaemonTypeOK'
  BY <1>2, DaemonType, FaultsType
<1>3. CASE UNCHANGED vars
  BY <1>3 DEF vars, chain, endpoints, processes, locals, logged, DaemonTypeOK, ChainTypeOK
<1> QED
  BY <1>1, <1>2, <1>3, EnvironmentType DEF Next

----------------------------------------------------------------------------
(* The inductive invariant.                                                 *)

\* A vote that is worth recording in round n, when the endpoints had the healths
\* s in that round and l in the one before: its round is not in the future, it is
\* under the commitment and, while its round is open, its status was seen.
Sound(v, n, s, l) ==
    /\ v.round <= n
    /\ v.hash = Commitment[v.sla]
    /\ v.round >= n - 1 =>
          v.status \in s[v.hash] \/ (v.round < n /\ v.status \in l[v.hash])

SoundNow(v) == Sound(v, now, seenNow, seenLast)

HealthSeen == \A e \in Endpoints : health[e] \in seenNow[e]

PoolSound == \A t \in pool : SoundNow(t.vote)

\* What a process holds is sound from the probe on.  A probe that a signal cut
\* short is not, but then nothing is built from it.
HeldSound(d) ==
    /\ pc[d] \in {"voted", "commitment", "probe", "simulate", "build"} => roundID[d] <= now
    /\ pc[d] \in {"probe", "simulate", "build"} => target[d] = Commitment[SlaOf[d]]
    /\ pc[d] = "simulate" /\ ~stopping[d] => SoundNow(Ballot(d))
    /\ pc[d] = "build" => SoundNow(Ballot(d))
    /\ pc[d] \in {"send", "poll"} => signedTx[d] \in Tx /\ SoundNow(signedTx[d].vote)

IInv == DaemonTypeOK /\ HealthSeen /\ PoolSound /\ \A d \in Daemons : HeldSound(d)

\* The inductive invariant holds at the start.
LEMMA InvInit == Init => IInv
<1> SUFFICES ASSUME Init PROVE IInv
  OBVIOUS
<1>1. DaemonTypeOK
  BY TypeInit
<1> QED
  BY <1>1 DEF Init, ChainInit, IInv, HealthSeen, PoolSound, HeldSound

\* What was seen stays seen until its round is closed.
LEMMA SoundLasts ==
    ASSUME DaemonTypeOK, HealthSeen, NEW v \in Vote, SoundNow(v),
           \/ RoundBegins
           \/ \E e \in Flaky : HealthChanges(e)
           \/ UNCHANGED <<now, endpoints>>
    PROVE  Sound(v, now', seenNow', seenLast')
<1>1. v.round \in 0 .. MaxRound /\ v.hash \in Endpoints /\ now \in Nat
  BY DEF Vote, DaemonTypeOK, ChainTypeOK
<1>2. CASE RoundBegins
  BY <1>1, <1>2, BoundsAssumption DEF RoundBegins, RoundAdvances, SoundNow, Sound
<1>3. ASSUME NEW e \in Flaky, HealthChanges(e)
      PROVE  Sound(v, now', seenNow', seenLast')
  <2>1. seenNow[v.hash] \subseteq seenNow'[v.hash]
    BY <1>1, <1>3 DEF HealthChanges, DaemonTypeOK
  <2>2. now' = now /\ seenLast' = seenLast
    BY <1>3 DEF HealthChanges, chain
  <2> QED
    BY <2>1, <2>2 DEF SoundNow, Sound
<1>4. CASE UNCHANGED <<now, endpoints>>
  BY <1>4 DEF SoundNow, Sound, endpoints
<1> QED
  BY <1>2, <1>3, <1>4

\* A process no step of which is taken keeps what it holds.
LEMMA HeldLasts ==
    ASSUME IInv, NEW d \in Daemons,
           pc'[d] = pc[d], target'[d] = target[d], roundID'[d] = roundID[d],
           status'[d] = status[d], signedTx'[d] = signedTx[d],
           stopping'[d] = stopping[d] \/ stopping'[d],
           \/ RoundBegins
           \/ \E e \in Flaky : HealthChanges(e)
           \/ UNCHANGED <<now, endpoints>>
    PROVE  HeldSound(d)'
<1>1. Ballot(d) \in Vote /\ Ballot(d)' = Ballot(d)
  BY BallotType DEF IInv, Ballot
<1>2. signedTx[d] \in Tx => signedTx[d].vote \in Vote
  BY DEF Tx
<1>3. roundID[d] \in Nat /\ now \in Nat /\ now' \in Nat /\ now <= now'
  BY BoundsAssumption DEF IInv, DaemonTypeOK, ChainTypeOK, RoundBegins, RoundAdvances,
     HealthChanges, chain
<1>4. roundID[d] <= now => roundID'[d] <= now'
  BY <1>3
<1>5. SoundNow(Ballot(d)) => Sound(Ballot(d), now', seenNow', seenLast')
  BY <1>1, SoundLasts DEF IInv
<1>6. signedTx[d] \in Tx /\ SoundNow(signedTx[d].vote)
         => Sound(signedTx[d].vote, now', seenNow', seenLast')
  BY <1>2, SoundLasts DEF IInv
<1> QED
  BY <1>1, <1>4, <1>5, <1>6 DEF IInv, HeldSound, SoundNow

\* Only its own process's locals are a step's to write, and the rest of the world
\* is a process's to read, save the pool and what is logged.
LEMMA OneProcess ==
    ASSUME DaemonTypeOK, NEW d \in Daemons, Daemon(d) \/ Faults(d)
    PROVE  /\ \A c \in Daemons \ {d} :
                 /\ pc'[c] = pc[c] /\ target'[c] = target[c] /\ roundID'[c] = roundID[c]
                 /\ status'[c] = status[c] /\ signedTx'[c] = signedTx[c]
                 /\ stopping'[c] = stopping[c]
           /\ UNCHANGED <<now, votes, applied, endpoints>>
<1> USE DEF chain, locals, logged, Goes, Forgets, RoundEnds, DaemonTypeOK
<1>1. CASE ReadRound(d) \/ CheckVoted(d) \/ CheckCommitment(d) \/ Probe(d)
  BY <1>1 DEF ReadRound, CheckVoted, CheckCommitment, Probe
<1>2. CASE Simulate(d) \/ Build(d)
  BY <1>2 DEF Simulate, Build
<1>3. CASE SendAnswered(d) \/ SendRejected(d) \/ SendLost(d)
  BY <1>3 DEF SendAnswered, SendRejected, SendLost
<1>4. CASE PollAnswered(d) \/ CallFails(d) \/ Wake(d) \/ Exit(d)
  BY <1>4 DEF PollAnswered, CallFails, Wake, Exit
<1>5. CASE Faults(d)
  BY <1>5 DEF Faults, Signal, Crash, Restart
<1> QED
  BY <1>1, <1>2, <1>3, <1>4, <1>5 DEF Daemon

\* A process that has left its round holds nothing.
LEMMA IdleHolds ==
    ASSUME NEW d \in Daemons, pc'[d] \in {"sleep", "exited", "round"}
    PROVE  HeldSound(d)'
BY DEF HeldSound

\* A daemon's own step keeps what it holds sound.
LEMMA OwnStep ==
    ASSUME IInv, NEW d \in Daemons, Daemon(d) PROVE HeldSound(d)'
<1> USE DEF chain, locals, logged, Goes
<1>0. pc \in [Daemons -> Running \cup {"exited"}] /\ DaemonTypeOK /\ HeldSound(d)
  BY DEF IInv, DaemonTypeOK
<1>1. ASSUME RoundEnds(d) PROVE HeldSound(d)'
  BY <1>0, <1>1, IdleHolds DEF RoundEnds
<1>2. CASE ReadRound(d)
  <2>1. pc'[d] = "voted" /\ roundID'[d] = now /\ now' = now
    BY <1>0, <1>2 DEF ReadRound, DaemonTypeOK
  <2> QED
    BY <1>0, <2>1 DEF HeldSound, DaemonTypeOK, ChainTypeOK
<1>3. CASE CheckVoted(d)
  <2>1. CASE Goes(d, "commitment") /\ UNCHANGED <<target, locals, stopping, signed, restarts, died>>
    BY <1>0, <1>3, <2>1 DEF CheckVoted, HeldSound
  <2> QED
    BY <1>1, <1>3, <2>1 DEF CheckVoted
<1>4. CASE CheckCommitment(d)
  <2>1. CASE Goes(d, "probe") /\ UNCHANGED <<target, locals, stopping, signed, restarts, died>>
            /\ Commitment[SlaOf[d]] = target[d]
    BY <1>0, <1>4, <2>1 DEF CheckCommitment, HeldSound
  <2> QED
    BY <1>1, <1>4, <2>1 DEF CheckCommitment
<1>5. CASE Probe(d)
  <2>1. /\ pc'[d] = "simulate" /\ roundID'[d] = roundID[d] /\ target'[d] = target[d]
        /\ stopping'[d] = stopping[d] /\ UNCHANGED <<now, endpoints>>
        /\ ~stopping[d] => status'[d] = health[target[d]]
    BY <1>0, <1>5 DEF Probe, DaemonTypeOK, ContextAlive
  <2>2. roundID[d] <= now /\ target[d] = Commitment[SlaOf[d]]
    BY <1>0, <1>5 DEF HeldSound, Probe
  <2>3. health[target[d]] \in seenNow[target[d]]
    BY <1>0 DEF IInv, HealthSeen, DaemonTypeOK
  <2>4. ASSUME ~stopping[d] PROVE SoundNow(Ballot(d))'
    <3>1. Ballot(d)' = [sla |-> SlaOf[d], round |-> roundID[d], watcher |-> AccountOf[d],
                        hash |-> target[d], status |-> health[target[d]]]
      BY <2>1, <2>4 DEF Ballot
    <3>2. Sound([sla |-> SlaOf[d], round |-> roundID[d], watcher |-> AccountOf[d],
                 hash |-> target[d], status |-> health[target[d]]], now, seenNow, seenLast)
      BY <2>2, <2>3 DEF Sound
    <3> QED
      BY <2>1, <3>1, <3>2 DEF SoundNow, endpoints
  <2> QED
    BY <2>1, <2>2, <2>4 DEF HeldSound
<1>6. CASE Simulate(d)
  <2>1. CASE Goes(d, "build") /\ UNCHANGED <<target, locals, stopping, signed, restarts, died>>
    <3>1. pc'[d] = "build" /\ UNCHANGED <<now, endpoints>>
      BY <1>0, <1>6, <2>1 DEF Simulate
    <3>2. SoundNow(Ballot(d)) /\ roundID[d] <= now /\ target[d] = Commitment[SlaOf[d]]
      BY <1>0, <1>6 DEF Simulate, HeldSound, ContextAlive
    <3>3. SoundNow(Ballot(d))'
      BY <2>1, <3>1, <3>2 DEF SoundNow, Ballot, endpoints
    <3> QED
      BY <2>1, <3>1, <3>2, <3>3 DEF HeldSound
  <2> QED
    BY <1>1, <1>6, <2>1 DEF Simulate
<1>7. CASE Build(d)
  <2>1. pc'[d] = "send" /\ UNCHANGED <<now, endpoints>>
    BY <1>0, <1>7 DEF Build
  <2>2. signedTx'[d] = [id |-> signed', vote |-> Ballot(d),
                        seq |-> seq[AccountOf[d]] + 1, built |-> now]
    BY <1>0, <1>7 DEF Build, DaemonTypeOK
  <2>3. SoundNow(Ballot(d))
    BY <1>0, <1>7 DEF Build, HeldSound
  <2>4. signedTx'[d] \in Tx
    <3>1. signed' \in Nat /\ seq[AccountOf[d]] + 1 \in Nat
      <4>1. signed' = signed + 1
        BY <1>7 DEF Build
      <4> QED
        BY <1>0, <4>1, DaemonAssumption DEF DaemonTypeOK, ChainTypeOK
    <3>2. Ballot(d) \in Vote /\ now \in 1 .. MaxRound
      BY <1>0, BallotType DEF DaemonTypeOK, ChainTypeOK
    <3> QED
      BY <2>2, <3>1, <3>2 DEF Tx
  <2>5. SoundNow(signedTx[d].vote)'
    BY <2>1, <2>2, <2>3 DEF SoundNow, endpoints
  <2> QED
    BY <2>1, <2>4, <2>5 DEF HeldSound
<1>8. ASSUME pc[d] = "send", pc'[d] \in {"send", "poll"}, signedTx'[d] = signedTx[d],
             UNCHANGED <<now, endpoints>>
      PROVE  HeldSound(d)'
  BY <1>0, <1>8 DEF HeldSound, SoundNow, endpoints
<1>9. CASE SendAnswered(d)
  BY <1>0, <1>8, <1>9 DEF SendAnswered
<1>10. CASE SendRejected(d) \/ PollAnswered(d) \/ CallFails(d)
  BY <1>1, <1>10 DEF SendRejected, PollAnswered, CallFails
<1>11. CASE SendLost(d)
  <2>1. CASE AttemptsLeft(d)
    BY <1>8, <1>11, <2>1 DEF SendLost
  <2> QED
    BY <1>1, <1>11, <2>1 DEF SendLost
<1>12. CASE Wake(d) \/ Exit(d)
  BY <1>0, <1>12, IdleHolds DEF Wake, Exit
<1> QED
  BY <1>2, <1>3, <1>4, <1>5, <1>6, <1>7, <1>9, <1>10, <1>11, <1>12 DEF Daemon

\* So do signals, crashes and restarts.
LEMMA OwnFault ==
    ASSUME IInv, NEW d \in Daemons, Faults(d) PROVE HeldSound(d)'
<1>0. DaemonTypeOK
  BY DEF IInv
<1>1. CASE Signal(d)
  BY <1>0, <1>1, HeldLasts DEF Signal, DaemonTypeOK, chain, locals
<1>2. CASE Crash(d) \/ Restart(d)
  BY <1>0, <1>2, IdleHolds DEF Crash, Restart, Goes, DaemonTypeOK
<1> QED
  BY <1>1, <1>2 DEF Faults

\* What enters the pool is what its sender signed.
LEMMA PoolStep ==
    ASSUME IInv, NEW d \in Daemons, Daemon(d) \/ Faults(d) PROVE PoolSound'
<1>1. UNCHANGED <<now, endpoints>>
  BY OneProcess DEF IInv
<1>2. \/ pool' \subseteq pool
      \/ pc[d] = "send" /\ pool' \subseteq pool \cup {signedTx[d]}
  BY DEF Daemon, Faults, ReadRound, CheckVoted, CheckCommitment, Probe, Simulate, Build,
         SendAnswered, SendRejected, SendLost, PollAnswered, CallFails, Wake, Exit,
         Signal, Crash, Restart, Enqueue, chain
<1>3. pc[d] = "send" => SoundNow(signedTx[d].vote)
  BY DEF IInv, HeldSound
<1> QED
  BY <1>1, <1>2, <1>3 DEF IInv, PoolSound, SoundNow, endpoints

\* Every step keeps the inductive invariant.
LEMMA InvStep == IInv /\ [Next]_vars => IInv'
<1> SUFFICES ASSUME IInv, [Next]_vars PROVE IInv'
  OBVIOUS
<1>1. DaemonTypeOK'
  BY TypeStep DEF IInv, HeldSound, HoldsSigned
<1>2. CASE RoundBegins \/ \E e \in Flaky : HealthChanges(e)
  <2>1. HealthSeen'
    BY <1>2, BoundsOfTheRun DEF IInv, DaemonTypeOK, HealthSeen, RoundBegins, HealthChanges
  <2>2. ASSUME NEW d \in Daemons PROVE HeldSound(d)'
    BY <1>2, HeldLasts DEF RoundBegins, HealthChanges, processes, locals
  <2>3. PoolSound'
    <3>1. pool' = pool
      BY <1>2 DEF RoundBegins, RoundAdvances, HealthChanges, chain
    <3>2. \A t \in pool : t.vote \in Vote
      BY DEF IInv, DaemonTypeOK, ChainTypeOK, Tx
    <3> QED
      BY <1>2, <3>1, <3>2, SoundLasts DEF IInv, PoolSound, SoundNow
  <2> QED
    BY <1>1, <2>1, <2>2, <2>3 DEF IInv
<1>3. CASE Chain /\ UNCHANGED <<endpoints, processes>>
  <2>1. now' = now /\ pool' \subseteq pool
    BY <1>3 DEF Chain, Include, Drop, AdmissionChanges
  <2>2. HealthSeen' /\ PoolSound'
    BY <1>3, <2>1 DEF IInv, HealthSeen, PoolSound, SoundNow, endpoints
  <2>3. ASSUME NEW d \in Daemons PROVE HeldSound(d)'
    BY <1>3, <2>1, HeldLasts DEF processes, locals
  <2> QED
    BY <1>1, <2>2, <2>3 DEF IInv
<1>4. ASSUME NEW d \in Daemons, Daemon(d) \/ Faults(d) PROVE IInv'
  <2>1. UNCHANGED <<now, endpoints>>
    BY <1>4, OneProcess DEF IInv
  <2>2. ASSUME NEW c \in Daemons PROVE HeldSound(c)'
    <3>1. CASE c = d
      BY <1>4, <3>1, OwnStep, OwnFault
    <3>2. CASE c # d
      BY <1>4, <2>1, <3>2, OneProcess, HeldLasts DEF IInv
    <3> QED
      BY <3>1, <3>2
  <2>3. HealthSeen'
    BY <2>1 DEF IInv, HealthSeen, endpoints
  <2> QED
    BY <1>1, <1>4, <2>2, <2>3, PoolStep DEF IInv
<1>5. CASE UNCHANGED vars
  <2>1. HealthSeen' /\ PoolSound'
    BY <1>5 DEF vars, chain, endpoints, IInv, HealthSeen, PoolSound, SoundNow
  <2>2. ASSUME NEW d \in Daemons PROVE HeldSound(d)'
    BY <1>5, HeldLasts DEF vars, chain, processes, locals
  <2> QED
    BY <1>1, <2>1, <2>2 DEF IInv
<1> QED
  BY <1>2, <1>3, <1>4, <1>5 DEF Next

\* The inductive invariant holds throughout: every vote on its way, in a process,
\* an envelope or the pool, is still true when it can still be counted.
THEOREM Invariance == Spec => []IInv
BY InvInit, InvStep, PTL DEF Spec

\* Every variable keeps to its type in every reachable state.
THEOREM DaemonTypes == Spec => []DaemonTypeOK
<1>1. IInv => DaemonTypeOK
  BY DEF IInv
<1> QED
  BY <1>1, Invariance, PTL

----------------------------------------------------------------------------
(* The promise.                                                             *)

\* A ledger that includes a vote the contract accepts casts it; one it refuses
\* changes nothing the promise speaks of.
LEMMA IncludeCasts ==
    ASSUME IInv, NEW t \in pool, Include(t), UNCHANGED <<endpoints, processes>>
    PROVE  Promise!Next \/ UNCHANGED Promise!vars
<1>1. t.vote \in Vote /\ SoundNow(t.vote) /\ now \in Nat
  BY DEF IInv, DaemonTypeOK, ChainTypeOK, Tx, PoolSound
<1>2. now' = now /\ UNCHANGED <<health, seenNow, seenLast>>
  BY DEF Include, endpoints
<1>3. CASE Verdict(t.vote) = "SUCCESS"
  <2>1. t.vote.round \in {now - 1, now}
    BY <1>3 DEF Verdict
  <2>2. ~HasWatcherVoted(t.vote.sla, t.vote.round, t.vote.watcher)
    BY <1>3 DEF Verdict
  <2>3. \A u \in votes : ~Promise!SameBallot(u, t.vote)
    BY <2>2 DEF HasWatcherVoted, Promise!SameBallot
  <2>4. t.vote.hash = Commitment[t.vote.sla]
    BY <1>1 DEF SoundNow, Sound
  <2>5. Promise!SeenSince(t.vote.round, t.vote.hash, t.vote.status)
    BY <1>1, <2>1 DEF SoundNow, Sound, Promise!SeenSince
  <2>6. votes' = votes \cup {t.vote}
    BY <1>3 DEF Include
  <2>7. Promise!Cast(t.vote)
    BY <1>2, <2>1, <2>3, <2>4, <2>5, <2>6 DEF Promise!Cast
  <2>8. t.vote \in Promise!Vote
    BY <1>1 DEF Vote, Promise!Vote, Status, Promise!Status
  <2> QED
    BY <2>7, <2>8 DEF Promise!Next
<1>4. CASE Verdict(t.vote) # "SUCCESS"
  <2>1. votes' = votes
    BY <1>4 DEF Include
  <2> QED
    BY <1>2, <2>1 DEF Promise!vars
<1> QED
  BY <1>3, <1>4

\* Every step is one of Attestation's, or changes nothing it speaks of.
LEMMA StepKeepsPromise == IInv /\ [Next]_vars => [Promise!Next]_(Promise!vars)
<1> SUFFICES ASSUME IInv, [Next]_vars PROVE Promise!Next \/ UNCHANGED Promise!vars
  OBVIOUS
<1>1. CASE RoundBegins
  <2>1. Promise!RoundBegins
    BY <1>1 DEF RoundBegins, RoundAdvances, Promise!RoundBegins
  <2> QED
    BY <2>1 DEF Promise!Next
<1>2. ASSUME NEW e \in Flaky, HealthChanges(e) PROVE Promise!Next
  <2>1. Promise!HealthChanges(e)
    BY <1>2 DEF HealthChanges, chain, Promise!HealthChanges, Status, Promise!Status
  <2> QED
    BY <2>1 DEF Promise!Next
<1>3. CASE Chain /\ UNCHANGED <<endpoints, processes>>
  <2>1. ASSUME NEW t \in pool, Drop(t) PROVE UNCHANGED Promise!vars
    BY <1>3, <2>1 DEF Drop, endpoints, Promise!vars
  <2>2. ASSUME NEW w \in Revocable, AdmissionChanges(w) PROVE UNCHANGED Promise!vars
    BY <1>3, <2>2 DEF AdmissionChanges, endpoints, Promise!vars
  <2> QED
    BY <1>3, <2>1, <2>2, IncludeCasts DEF Chain
<1>4. ASSUME NEW d \in Daemons, Daemon(d) \/ Faults(d) PROVE UNCHANGED Promise!vars
  BY <1>4, OneProcess DEF IInv, endpoints, Promise!vars
<1>5. CASE UNCHANGED vars
  BY <1>5 DEF vars, chain, endpoints, Promise!vars
<1> QED
  BY <1>1, <1>2, <1>3, <1>4, <1>5 DEF Next

\* Whatever is delayed, lost, resent, cut short or restarted, the votes that reach
\* the registry keep Attestation's promise: one per watcher, SLA and round, in an
\* open round, under the commitment, with a health the endpoint had.
THEOREM PromiseKept == Spec => KeepsPromise
<1>1. Init => Promise!Init
  BY DEF Init, ChainInit, Promise!Init, Status, Promise!Status
<1> QED
  BY <1>1, Invariance, StepKeepsPromise, PTL DEF Spec, KeepsPromise, Promise!Spec

----------------------------------------------------------------------------
(* What is logged as a success.                                             *)

\* A successful result has its vote on record, and so has a logged success.
Counted ==
    /\ SuccessIsCounted
    /\ \A a \in applied : a.result = "SUCCESS" => a.tx.vote \in votes

\* Every step keeps what was logged, and what a ledger took, on record.
LEMMA CountedStep == Counted /\ IInv /\ [Next]_vars => Counted'
<1> SUFFICES ASSUME Counted, IInv, [Next]_vars PROVE Counted'
  OBVIOUS
<1>1. CASE RoundBegins \/ \E e \in Flaky : HealthChanges(e)
  BY <1>1 DEF RoundBegins, RoundAdvances, HealthChanges, chain, processes, logged,
              Counted, SuccessIsCounted
<1>2. CASE Chain /\ UNCHANGED <<endpoints, processes>>
  <2>1. ASSUME NEW t \in pool, Include(t) PROVE Counted'
    <3>1. confirmed' = confirmed /\ votes \subseteq votes'
      BY <1>2, <2>1 DEF processes, logged, Include
    <3>2. Verdict(t.vote) = "SUCCESS" => t.vote \in votes'
      BY <2>1 DEF Include
    <3>3. applied' = applied \cup {[tx |-> t, result |-> Verdict(t.vote)]}
      BY <2>1 DEF Include
    <3> QED
      BY <3>1, <3>2, <3>3 DEF Counted, SuccessIsCounted
  <2>2. ASSUME NEW t \in pool, Drop(t) PROVE Counted'
    BY <1>2, <2>2 DEF Drop, processes, logged, Counted, SuccessIsCounted
  <2>3. ASSUME NEW w \in Revocable, AdmissionChanges(w) PROVE Counted'
    BY <1>2, <2>3 DEF AdmissionChanges, processes, logged, Counted, SuccessIsCounted
  <2> QED
    BY <1>2, <2>1, <2>2, <2>3 DEF Chain
<1>3. ASSUME NEW d \in Daemons, Daemon(d) \/ Faults(d) PROVE Counted'
  <2>1. UNCHANGED <<votes, applied>>
    BY <1>3, OneProcess DEF IInv
  <2>2. CASE PollAnswered(d)
    <3>1. PICK a \in applied :
              confirmed' = IF a.result = "SUCCESS" THEN confirmed \cup {a.tx.vote}
                           ELSE confirmed
      BY <2>2 DEF PollAnswered
    <3> QED
      BY <2>1, <3>1 DEF Counted, SuccessIsCounted
  <2>3. CASE ~PollAnswered(d)
    <3>1. confirmed' = confirmed
      BY <1>3, <2>3 DEF Daemon, Faults, ReadRound, CheckVoted, CheckCommitment, Probe,
         Simulate, Build, SendAnswered, SendRejected, SendLost, CallFails, Wake, Exit,
         Signal, Crash, Restart, logged
    <3> QED
      BY <2>1, <3>1 DEF Counted, SuccessIsCounted
  <2> QED
    BY <2>2, <2>3
<1>4. CASE UNCHANGED vars
  BY <1>4 DEF vars, chain, processes, logged, Counted, SuccessIsCounted
<1> QED
  BY <1>1, <1>2, <1>3, <1>4 DEF Next

\* "submitted check successfully" is only ever logged for a vote on record.
THEOREM SuccessCounted == Spec => []SuccessIsCounted
<1>1. Init => Counted
  BY DEF Init, ChainInit, Counted, SuccessIsCounted
<1>2. Counted => SuccessIsCounted
  BY DEF Counted
<1> QED
  BY <1>1, <1>2, CountedStep, Invariance, PTL DEF Spec

----------------------------------------------------------------------------
(* What becomes of an envelope.                                             *)

\* A ballot whose answer was lost, to the process or with it.
Explained(v) == \E u \in unknown \cup died : SameBallot(u, v)

Holding(d) == pc[d] \in {"send", "poll"}

Voted(v) == HasWatcherVoted(v.sla, v.round, v.watcher)

\* A process sends the ballot of its round, under an id of its own; it is about to cast
\* a ballot that is counted only if that is explained; and before an attempt has failed
\* nothing of it has arrived.
Tracks(d) ==
    /\ Holding(d) => signedTx[d].vote = Ballot(d) /\ signedTx[d].id <= signed
    /\ /\ pc[d] = "build" \/ (Holding(d) /\ ~Included(signedTx[d]))
       /\ Voted(BallotKey(d))
       => Explained(BallotKey(d))
    /\ pc[d] = "send" /\ attempt[d] = 0 => signedTx[d] \notin pool /\ ~Included(signedTx[d])

\* A process accounts for the transaction that it holds.
AccountsFor(d, t) ==
    /\ SlaOf[d] = t.vote.sla /\ AccountOf[d] = t.vote.watcher
    /\ Holding(d) /\ signedTx[d] = t

\* What is in the pool is not included, and is accounted for or explained; it is
\* explained if its ballot is counted by now.
PoolTracked ==
    \A t \in pool : /\ ~Included(t) /\ t.id <= signed
                    /\ Voted(t.vote) => Explained(t.vote)
                    /\ Explained(t.vote) \/ \E d \in Daemons : AccountsFor(d, t)

\* An included transaction has used its sequence number: it cannot be pooled again.
UsedOnce == \A a \in applied : a.tx.seq <= seq[a.tx.vote.watcher] /\ a.tx.id <= signed

Tracked ==
    (\A d \in Daemons : Tracks(d)) /\ PoolTracked /\ UsedOnce /\ DuplicateIsExplained

\* Nothing is tracked at the start.
LEMMA TrackedInit == Init => Tracked
BY DEF Init, ChainInit, Tracked, Tracks, PoolTracked, UsedOnce, DuplicateIsExplained, Holding

\* Rounds, healths and admissions are not about envelopes.
LEMMA TrackedFrame ==
    ASSUME Tracked, UNCHANGED <<votes, seq, pool, applied, processes>>
    PROVE  Tracked'
<1> USE DEF processes, locals, logged
<1>1. \A v : (Explained(v)' <=> Explained(v)) /\ (Voted(v)' <=> Voted(v))
  BY DEF Explained, Voted, HasWatcherVoted
<1>2. \A t : Included(t)' <=> Included(t)
  BY DEF Included
<1>3. ASSUME NEW d \in Daemons
      PROVE  /\ Ballot(d)' = Ballot(d) /\ BallotKey(d)' = BallotKey(d)
             /\ Holding(d)' <=> Holding(d)
             /\ \A t : AccountsFor(d, t)' <=> AccountsFor(d, t)
  BY DEF Ballot, BallotKey, Holding, AccountsFor
<1>4. ASSUME NEW d \in Daemons PROVE Tracks(d)'
  <2>1. Tracks(d)
    BY DEF Tracked
  <2>2. Voted(BallotKey(d))' <=> Voted(BallotKey(d))
    BY <1>3 DEF Voted, HasWatcherVoted
  <2>3. Explained(BallotKey(d))' <=> Explained(BallotKey(d))
    BY <1>3 DEF Explained
  <2>4. Included(signedTx[d])' <=> Included(signedTx[d])
    BY DEF Included
  <2> QED BY <1>3, <2>1, <2>2, <2>3, <2>4 DEF Tracks
<1>5. PoolTracked'
  BY <1>1, <1>2, <1>3 DEF Tracked, PoolTracked
<1>6. UsedOnce' /\ DuplicateIsExplained'
  BY DEF Tracked, UsedOnce, DuplicateIsExplained
<1> QED BY <1>4, <1>5, <1>6 DEF Tracked

\* One result more makes one transaction more included.
LEMMA IncludedAfter ==
    ASSUME NEW t, NEW r, NEW u, applied' = applied \cup {[tx |-> t, result |-> r]}
    PROVE  Included(u)' <=> Included(u) \/ u = t
<1> DEFINE a0 == [tx |-> t, result |-> r]
<1>1. a0.tx = t
  OBVIOUS
<1>2. a0 \in applied' /\ applied \subseteq applied'
  OBVIOUS
<1>3. \A a \in applied' : a \in applied \/ a = a0
  OBVIOUS
<1> HIDE DEF a0
<1>4. (\E a \in applied' : a.tx = u) <=> (\E a \in applied : a.tx = u) \/ u = t
  BY <1>1, <1>2, <1>3
<1> QED BY <1>4 DEF Included

\* A ledger takes in a transaction: whatever else its account had in the pool is out,
\* and a process that holds another envelope of the same ballot did lose this one.
LEMMA TrackedInclude ==
    ASSUME IInv, Tracked, NEW t \in pool, Include(t), UNCHANGED processes
    PROVE  Tracked'
<1> USE DEF processes, locals, logged
<1> DEFINE w == t.vote.watcher
<1>1. /\ t \in Tx /\ t.vote \in Vote /\ w \in Watchers /\ t.seq \in Nat
      /\ seq \in [Watchers -> Nat] /\ pool \subseteq Tx
      /\ applied \subseteq [tx : Tx, result : Results]
  BY DEF IInv, DaemonTypeOK, ChainTypeOK, Tx, Vote
<1>2. /\ t.seq = seq[w] + 1 /\ seq' = [seq EXCEPT ![w] = @ + 1]
      /\ applied' = applied \cup {[tx |-> t, result |-> Verdict(t.vote)]}
      /\ pool' = {u \in pool : u.vote.watcher # w}
      /\ votes' = IF Verdict(t.vote) = "SUCCESS" THEN votes \cup {t.vote} ELSE votes
  BY DEF Include, Includable
<1>3. \A v : Explained(v)' <=> Explained(v)
  BY DEF Explained
<1>4. ASSUME NEW u PROVE Included(u)' <=> Included(u) \/ u = t
  BY <1>2, IncludedAfter
<1>5. \A v : Voted(v)' => Voted(v) \/ SameBallot(t.vote, v)
  BY <1>2 DEF Voted, HasWatcherVoted, SameBallot
<1>6. UsedOnce'
  <2>1. \A a \in applied : a.tx.seq \in Nat /\ a.tx.vote.watcher \in Watchers
    BY <1>1 DEF Tx, Vote
  <2>2. seq'[w] = seq[w] + 1 /\ \A x \in Watchers : seq[x] \in Nat /\ seq[x] <= seq'[x]
    BY <1>1, <1>2
  <2>3. \A x \in Watchers : seq'[x] \in Nat
    BY <1>1, <1>2
  <2>4. t.id <= signed
    BY DEF Tracked, PoolTracked
  <2>5. ASSUME NEW a \in applied PROVE a.tx.seq <= seq'[a.tx.vote.watcher] /\ a.tx.id <= signed'
    BY <2>1, <2>2, <2>3 DEF Tracked, UsedOnce
  <2> QED BY <1>1, <1>2, <2>2, <2>4, <2>5 DEF UsedOnce
<1>7. PoolTracked'
  <2> SUFFICES ASSUME NEW u \in pool'
               PROVE  /\ ~Included(u)' /\ u.id <= signed'
                      /\ Voted(u.vote)' => Explained(u.vote)'
                      /\ Explained(u.vote)' \/ \E d \in Daemons : AccountsFor(d, u)'
    BY DEF PoolTracked
  <2>1. u \in pool /\ u.vote.watcher # w /\ u # t
    BY <1>2
  <2>2. ~SameBallot(t.vote, u.vote)
    BY <2>1 DEF SameBallot
  <2>3. \A d \in Daemons : AccountsFor(d, u)' <=> AccountsFor(d, u)
    BY DEF AccountsFor, Holding
  <2> QED BY <1>3, <1>4, <1>5, <2>1, <2>2, <2>3 DEF Tracked, PoolTracked
<1>8. DuplicateIsExplained'
  <2>1. Verdict(t.vote) = "DuplicateCheck" => Voted(t.vote)
    BY DEF Verdict, Voted
  <2>2. Verdict(t.vote) = "DuplicateCheck" => Explained(t.vote)
    BY <2>1 DEF Tracked, PoolTracked
  <2> QED BY <1>2, <2>2 DEF Tracked, DuplicateIsExplained, Explained
<1>9. ASSUME NEW d \in Daemons PROVE Tracks(d)'
  <2>1. /\ Ballot(d)' = Ballot(d) /\ BallotKey(d)' = BallotKey(d)
        /\ Holding(d)' <=> Holding(d)
    BY DEF Ballot, BallotKey, Holding
  <2>2. Tracks(d)
    BY DEF Tracked
  <2>3. /\ Voted(BallotKey(d))' => Voted(BallotKey(d)) \/ SameBallot(t.vote, BallotKey(d))
        /\ Explained(BallotKey(d))' <=> Explained(BallotKey(d))
        /\ Included(signedTx[d])' <=> Included(signedTx[d]) \/ signedTx[d] = t
    <3>1. Voted(BallotKey(d))' <=> HasWatcherVoted(SlaOf[d], roundID[d], AccountOf[d])'
      BY <2>1 DEF Voted, BallotKey
    <3>2. Explained(BallotKey(d))' <=> Explained(BallotKey(d))
      BY <2>1 DEF Explained
    <3>3. Included(signedTx[d])' <=> Included(signedTx[d]) \/ signedTx[d] = t
      <4>1. PICK x : x = signedTx[d]
        OBVIOUS
      <4>2. signedTx'[d] = x
        BY <4>1
      <4>3. Included(signedTx[d])' <=> Included(x)'
        BY <4>2 DEF Included
      <4> QED BY <1>4, <4>1, <4>3
    <3>4. Voted(BallotKey(d))' => Voted(BallotKey(d)) \/ SameBallot(t.vote, BallotKey(d))
      BY <1>2, <3>1 DEF Voted, HasWatcherVoted, SameBallot, BallotKey
    <3> QED BY <3>2, <3>3, <3>4
  <2>4. ASSUME pc[d] = "build" \/ (Holding(d) /\ signedTx[d] # t),
               SameBallot(t.vote, BallotKey(d))
        PROVE  Explained(BallotKey(d))
    <3>1. SlaOf[d] = t.vote.sla /\ AccountOf[d] = t.vote.watcher
      BY <2>4 DEF SameBallot, BallotKey
    <3>2. Explained(t.vote)
      <4> SUFFICES ASSUME NEW c \in Daemons, AccountsFor(c, t) PROVE FALSE
        BY DEF Tracked, PoolTracked
      <4>1. c = d
        BY <3>1, DaemonAssumption DEF AccountsFor
      <4> QED BY <2>4, <4>1 DEF AccountsFor, Holding
    <3> QED BY <2>4, <3>2 DEF Explained, SameBallot
  <2>5. signedTx[d] \notin pool => signedTx[d] # t /\ signedTx[d] \notin pool'
    BY <1>2
  <2> QED BY <2>1, <2>2, <2>3, <2>4, <2>5 DEF Tracks
<1> QED BY <1>6, <1>7, <1>8, <1>9 DEF Tracked

\* The network drops a transaction.
LEMMA TrackedDrop ==
    ASSUME Tracked, NEW t \in pool, Drop(t), UNCHANGED processes
    PROVE  Tracked'
<1> USE DEF processes, locals, logged, Drop
<1>1. pool' \subseteq pool /\ UNCHANGED <<votes, seq, applied>>
  OBVIOUS
<1>2. ASSUME NEW d \in Daemons PROVE Tracks(d)'
  <2>1. Tracks(d)
    BY DEF Tracked
  <2>2. /\ Ballot(d)' = Ballot(d) /\ BallotKey(d)' = BallotKey(d)
        /\ Holding(d)' <=> Holding(d)
    BY DEF Ballot, BallotKey, Holding
  <2>3. /\ Voted(BallotKey(d))' <=> Voted(BallotKey(d))
        /\ Explained(BallotKey(d))' <=> Explained(BallotKey(d))
        /\ Included(signedTx[d])' <=> Included(signedTx[d])
    BY <2>2 DEF Voted, HasWatcherVoted, Explained, Included
  <2> QED BY <1>1, <2>1, <2>2, <2>3 DEF Tracks
<1>3. PoolTracked'
  <2>1. \A u : Included(u)' <=> Included(u)
    BY DEF Included
  <2>2. \A v : (Explained(v)' <=> Explained(v)) /\ (Voted(v)' <=> Voted(v))
    BY DEF Explained, Voted, HasWatcherVoted
  <2>3. \A u, d : AccountsFor(d, u)' <=> AccountsFor(d, u)
    BY DEF AccountsFor, Holding
  <2> QED BY <1>1, <2>1, <2>2, <2>3 DEF Tracked, PoolTracked
<1>4. UsedOnce' /\ DuplicateIsExplained'
  BY DEF Tracked, UsedOnce, DuplicateIsExplained
<1> QED BY <1>2, <1>3, <1>4 DEF Tracked
\* What a process's step leaves of the rest: it explains no less, signs no fewer, and
\* pools nothing but the envelope it sends, which is its account's next.
LEMMA ProcessFrame ==
    ASSUME IInv, NEW d \in Daemons, Daemon(d) \/ Faults(d)
    PROVE  /\ seq' = seq /\ \A c \in Daemons \ {d} : attempt'[c] = attempt[c]
           /\ unknown \subseteq unknown' /\ died \subseteq died' /\ signed <= signed'
           /\ signed \in Nat /\ signed' \in Nat
           /\ \/ pool' = pool
              \/ pc[d] = "send" /\ Poolable(signedTx[d]) /\ pool' = pool \cup {signedTx[d]}
<1> USE DEF chain, locals, logged, Forgets, RoundEnds, IInv, DaemonTypeOK
<1>1. CASE ReadRound(d) \/ CheckVoted(d) \/ CheckCommitment(d) \/ Probe(d)
  BY <1>1 DEF ReadRound, CheckVoted, CheckCommitment, Probe
<1>2. CASE Simulate(d) \/ Build(d)
  BY <1>2 DEF Simulate, Build
<1>3. CASE SendAnswered(d) \/ SendRejected(d) \/ SendLost(d)
  BY <1>3 DEF SendAnswered, SendRejected, SendLost, Enqueue
<1>4. CASE PollAnswered(d) \/ CallFails(d) \/ Wake(d) \/ Exit(d)
  BY <1>4 DEF PollAnswered, CallFails, Wake, Exit
<1>5. CASE Faults(d)
  BY <1>5 DEF Faults, Signal, Crash, Restart
<1> QED BY <1>1, <1>2, <1>3, <1>4, <1>5 DEF Daemon

\* A step of a process keeps every envelope tracked, if it keeps its own ballot
\* tracked and lets go of none of its envelopes that is in the pool unexplained.
LEMMA ProcessStep ==
    ASSUME IInv, Tracked, NEW d \in Daemons, Daemon(d) \/ Faults(d), Tracks(d)',
           \A t \in pool' : AccountsFor(d, t) => Explained(t.vote)' \/ AccountsFor(d, t)'
    PROVE  Tracked'
<1>1. /\ seq' = seq /\ \A c \in Daemons \ {d} : attempt'[c] = attempt[c]
      /\ unknown \subseteq unknown' /\ died \subseteq died' /\ signed <= signed'
      /\ signed \in Nat /\ signed' \in Nat
      /\ \/ pool' = pool
         \/ pc[d] = "send" /\ Poolable(signedTx[d]) /\ pool' = pool \cup {signedTx[d]}
  BY ProcessFrame
<1>2. /\ \A c \in Daemons \ {d} :
            /\ pc'[c] = pc[c] /\ target'[c] = target[c] /\ roundID'[c] = roundID[c]
            /\ status'[c] = status[c] /\ signedTx'[c] = signedTx[c]
      /\ UNCHANGED <<votes, applied>>
  BY OneProcess DEF IInv
<1>3. /\ pool \subseteq Tx /\ applied \subseteq [tx : Tx, result : Results]
      /\ seq \in [Watchers -> Nat]
      /\ \A c \in Daemons : Holding(c) => signedTx[c] \in Tx
  BY DEF IInv, DaemonTypeOK, ChainTypeOK, HeldSound, Holding
<1>4. /\ \A v : Explained(v) => Explained(v)'
      /\ \A v : Voted(v)' <=> Voted(v)
      /\ \A u : Included(u)' <=> Included(u)
  <2>1. \A v : Explained(v) => Explained(v)'
    BY <1>1 DEF Explained
  <2> QED BY <1>2, <2>1 DEF Voted, HasWatcherVoted, Included
<1>5. ASSUME NEW t \in pool' \ pool
      PROVE  /\ t = signedTx[d] /\ pc[d] = "send" /\ ~Included(t) /\ t.id <= signed
             /\ Voted(t.vote) => Explained(t.vote)
             /\ t.vote.sla = SlaOf[d] /\ t.vote.watcher = AccountOf[d] /\ AccountsFor(d, t)
  <2>1. t = signedTx[d] /\ pc[d] = "send" /\ Holding(d) /\ Poolable(t) /\ t \in Tx
    BY <1>1, <1>3 DEF Holding
  <2>2. t.vote = Ballot(d) /\ t.id <= signed
    BY <2>1 DEF Tracked, Tracks
  <2>3. ~Included(t)
    <3> SUFFICES ASSUME NEW a \in applied, a.tx = t PROVE FALSE
      BY DEF Included
    <3>1. t.seq <= seq[t.vote.watcher] /\ t.seq = seq[t.vote.watcher] + 1
      BY <2>1 DEF Poolable, Includable, Tracked, UsedOnce
    <3>2. seq[t.vote.watcher] \in Nat
      BY <1>3, <2>1 DEF Tx, Vote
    <3> QED BY <3>1, <3>2
  <2>4. t.vote.sla = SlaOf[d] /\ t.vote.watcher = AccountOf[d] /\ t.vote.round = roundID[d]
    BY <2>2 DEF Ballot
  <2>5. Voted(t.vote) => Voted(BallotKey(d))
    BY <2>4 DEF Voted, BallotKey
  <2>6. Explained(BallotKey(d)) => Explained(t.vote)
    BY <2>4 DEF Explained, BallotKey, SameBallot
  <2>7. Voted(BallotKey(d)) => Explained(BallotKey(d))
    BY <2>1, <2>3 DEF Tracked, Tracks
  <2>8. AccountsFor(d, t)
    BY <2>1, <2>4 DEF AccountsFor
  <2> QED BY <2>1, <2>2, <2>3, <2>4, <2>5, <2>6, <2>7, <2>8
<1>6. ASSUME NEW c \in Daemons \ {d}
      PROVE  Tracks(c)' /\ \A t : AccountsFor(c, t) => AccountsFor(c, t)'
  <2>1. /\ Ballot(c)' = Ballot(c) /\ BallotKey(c)' = BallotKey(c)
        /\ Holding(c)' <=> Holding(c)
    BY <1>2 DEF Ballot, BallotKey, Holding
  <2>2. /\ Voted(BallotKey(c))' <=> Voted(BallotKey(c))
        /\ Explained(BallotKey(c)) => Explained(BallotKey(c))'
    <3>1. PICK v : v = BallotKey(c)
      OBVIOUS
    <3>2. BallotKey(c)' = v
      BY <2>1, <3>1
    <3>3. Voted(BallotKey(c))' <=> Voted(v)'
      BY <3>2 DEF Voted, HasWatcherVoted
    <3>4. Explained(BallotKey(c))' <=> Explained(v)'
      BY <3>2 DEF Explained
    <3> QED BY <1>4, <3>1, <3>3, <3>4
  <2>3. Included(signedTx[c])' <=> Included(signedTx[c])
    BY <1>2 DEF Included
  <2>4. pc[c] = "send" /\ signedTx[c] \notin pool => signedTx[c] \notin pool'
    <3> SUFFICES ASSUME pc[c] = "send", signedTx[c] \in pool' \ pool PROVE FALSE
      OBVIOUS
    <3>1. signedTx[c].vote = Ballot(c)
      BY DEF Tracked, Tracks, Holding
    <3>2. SlaOf[c] = SlaOf[d] /\ AccountOf[c] = AccountOf[d]
      BY <1>5, <3>1 DEF Ballot
    <3> QED BY <3>2, DaemonAssumption
  <2>5. Tracks(c)
    BY DEF Tracked
  <2>6. Tracks(c)'
    <3>1. Holding(c) => signedTx[c].id <= signed'
      <4>1. Holding(c) => signedTx[c].id \in Nat
        BY <1>3 DEF Tx
      <4> QED BY <1>1, <2>5, <4>1 DEF Tracks
    <3> QED BY <1>1, <1>2, <2>1, <2>2, <2>3, <2>4, <2>5, <3>1 DEF Tracks
  <2>7. \A t : AccountsFor(c, t) => AccountsFor(c, t)'
    BY <1>2, <2>1 DEF AccountsFor
  <2> QED BY <2>6, <2>7
<1>7. PoolTracked'
  <2> SUFFICES ASSUME NEW t \in pool'
               PROVE  /\ ~Included(t)' /\ t.id <= signed'
                      /\ Voted(t.vote)' => Explained(t.vote)'
                      /\ Explained(t.vote)' \/ \E c \in Daemons : AccountsFor(c, t)'
    BY DEF PoolTracked
  <2>1. /\ ~Included(t) /\ t.id <= signed /\ (Voted(t.vote) => Explained(t.vote))
        /\ Explained(t.vote) \/ \E c \in Daemons : AccountsFor(c, t)
    BY <1>5 DEF Tracked, PoolTracked
  <2>2. t.id \in Nat
    BY <1>1, <1>3, <1>5 DEF Tx, Holding
  <2>3. t.id <= signed'
    BY <1>1, <2>1, <2>2
  <2>4. Explained(t.vote)' \/ \E c \in Daemons : AccountsFor(c, t)'
    BY <1>4, <1>6, <2>1
  <2> QED BY <1>4, <2>1, <2>3, <2>4
<1>8. UsedOnce'
  <2> SUFFICES ASSUME NEW a \in applied
               PROVE  a.tx.seq <= seq[a.tx.vote.watcher] /\ a.tx.id <= signed'
    BY <1>1, <1>2 DEF UsedOnce
  <2>1. a.tx.id \in Nat /\ a.tx.id <= signed /\ a.tx.seq <= seq[a.tx.vote.watcher]
    BY <1>3 DEF Tracked, UsedOnce, Tx
  <2> QED BY <1>1, <2>1
<1>9. DuplicateIsExplained'
  <2> SUFFICES ASSUME NEW a \in applied, a.result = "DuplicateCheck"
               PROVE  Explained(a.tx.vote)'
    BY <1>2 DEF DuplicateIsExplained, Explained
  <2>1. Explained(a.tx.vote)
    BY DEF Tracked, DuplicateIsExplained, Explained
  <2> QED BY <1>4, <2>1
<1> QED
  <2>1. \A c \in Daemons : Tracks(c)'
    BY <1>6
  <2> QED BY <1>7, <1>8, <1>9, <2>1 DEF Tracked
\* A process that is about to send nothing has nothing to track.
LEMMA IdleTracks ==
    ASSUME NEW d, pc'[d] \notin {"build", "send", "poll"} PROVE Tracks(d)'
BY DEF Tracks, Holding

\* The rounds of a process that has sent nothing yet.
LEMMA TrackedBeforeSend ==
    ASSUME IInv, Tracked, NEW d \in Daemons,
           \/ ReadRound(d) \/ CheckVoted(d) \/ CheckCommitment(d) \/ Probe(d)
           \/ Simulate(d) \/ Build(d) \/ Wake(d) \/ Exit(d)
    PROVE  Tracked'
<1>0. DaemonTypeOK /\ Daemon(d) /\ pc \in [Daemons -> Running \cup {"exited"}]
  BY DEF IInv, DaemonTypeOK, Daemon
<1>1. pc[d] \notin {"send", "poll", "exited"}
  BY DEF ReadRound, CheckVoted, CheckCommitment, Probe, Simulate, Build, Wake, Exit
<1>2. \A t : ~AccountsFor(d, t)
  BY <1>1 DEF AccountsFor, Holding
<1> SUFFICES Tracks(d)'
  BY <1>0, <1>2, ProcessStep
<1>3. CASE pc'[d] \notin {"build", "send", "poll"}
  BY <1>3, IdleTracks
<1>4. CASE Simulate(d) /\ pc'[d] \in {"build", "send", "poll"}
  <2>1. /\ Verdict(Ballot(d)) = "SUCCESS" /\ pc' = [pc EXCEPT ![d] = "build"]
        /\ UNCHANGED <<locals, votes>>
    BY <1>0, <1>4 DEF Simulate, RoundEnds, Goes, chain
  <2>2. pc'[d] = "build" /\ ~Voted(BallotKey(d))
    BY <1>0, <2>1 DEF Verdict, Ballot, BallotKey, Voted
  <2>3. Voted(BallotKey(d))' <=> Voted(BallotKey(d))
    BY <2>1 DEF Voted, HasWatcherVoted, BallotKey, locals
  <2> QED BY <2>2, <2>3 DEF Tracks, Holding
<1>5. CASE Build(d)
  <2>1. /\ pc[d] = "build" /\ pc'[d] = "send" /\ signed' = signed + 1 /\ signed \in Nat
        /\ signedTx'[d] = [id |-> signed', vote |-> Ballot(d),
                           seq |-> seq[AccountOf[d]] + 1, built |-> now]
        /\ UNCHANGED <<votes, pool, applied, roundID, status, target, unknown, died>>
    BY <1>0, <1>5 DEF Build, Goes, DaemonTypeOK, chain, logged
  <2>2. Ballot(d)' = Ballot(d) /\ BallotKey(d)' = BallotKey(d)
    BY <2>1 DEF Ballot, BallotKey
  <2>3. /\ Voted(BallotKey(d))' <=> Voted(BallotKey(d))
        /\ Explained(BallotKey(d))' <=> Explained(BallotKey(d))
    BY <2>1, <2>2 DEF Voted, HasWatcherVoted, Explained
  <2>4. Voted(BallotKey(d)) => Explained(BallotKey(d))
    BY <2>1 DEF Tracked, Tracks
  <2>5. signedTx'[d].vote = Ballot(d) /\ signedTx'[d].id = signed + 1
    BY <2>1
  <2>6. signedTx'[d] \notin pool
    <3>1. \A t \in pool : t.id <= signed
      BY DEF Tracked, PoolTracked
    <3> QED BY <2>1, <2>5, <3>1
  <2>7. ~Included(signedTx[d])'
    <3>1. \A a \in applied : a.tx.id <= signed
      BY DEF Tracked, UsedOnce
    <3>2. \A a \in applied' : a.tx # signedTx'[d]
      BY <2>1, <2>5, <3>1
    <3> QED BY <3>2 DEF Included
  <2>8. signedTx'[d].id <= signed'
    BY <2>1, <2>5
  <2> QED BY <2>1, <2>2, <2>3, <2>4, <2>5, <2>6, <2>7, <2>8 DEF Tracks
<1>6. Simulate(d) \/ Build(d) \/ pc'[d] \notin {"build", "send", "poll"}
  BY <1>0 DEF ReadRound, CheckVoted, CheckCommitment, Probe, Wake, Exit, Goes, RoundEnds
<1> QED BY <1>3, <1>4, <1>5, <1>6

\* A process that keeps its envelope keeps it tracked, once an attempt has failed or
\* the submission is polled.
LEMMA HoldingTracks ==
    ASSUME Tracked, NEW d \in Daemons, Holding(d), Holding(d)', signed' = signed,
           UNCHANGED <<votes, applied, target, roundID, status, signedTx, unknown, died>>,
           pc'[d] = "send" /\ attempt'[d] = 0 =>
               pc[d] = "send" /\ attempt[d] = 0 /\ pool' = pool
    PROVE  Tracks(d)' /\ \A t : AccountsFor(d, t) => AccountsFor(d, t)'
<1>1. Ballot(d)' = Ballot(d) /\ BallotKey(d)' = BallotKey(d)
  BY DEF Ballot, BallotKey
<1>2. /\ Voted(BallotKey(d))' <=> Voted(BallotKey(d))
      /\ Explained(BallotKey(d))' <=> Explained(BallotKey(d))
      /\ Included(signedTx[d])' <=> Included(signedTx[d])
  BY <1>1 DEF Voted, HasWatcherVoted, Explained, Included
<1>3. Tracks(d)
  BY DEF Tracked
<1>4. Tracks(d)'
  BY <1>1, <1>2, <1>3 DEF Tracks, Holding
<1>5. ASSUME NEW t, AccountsFor(d, t) PROVE AccountsFor(d, t)'
  BY <1>5 DEF AccountsFor, Holding
<1> QED BY <1>4, <1>5

\* What a process sends is its ballot: to lose the answer, or to die before it,
\* explains the envelope.
LEMMA BallotIsSent ==
    ASSUME Tracked, NEW d \in Daemons, NEW t, AccountsFor(d, t),
           BallotKey(d) \in unknown' \cup died'
    PROVE  Explained(t.vote)'
<1>1. t.vote = Ballot(d)
  BY DEF AccountsFor, Tracked, Tracks
<1>2. SameBallot(BallotKey(d), t.vote)
  BY <1>1 DEF SameBallot, Ballot, BallotKey
<1> QED BY <1>2 DEF Explained

\* Sending, polling, and every end of either.
LEMMA TrackedSend ==
    ASSUME IInv, Tracked, NEW d \in Daemons,
           \/ SendAnswered(d) \/ SendRejected(d) \/ SendLost(d)
           \/ PollAnswered(d) \/ CallFails(d)
    PROVE  Tracked'
<1>0. DaemonTypeOK /\ Daemon(d) /\ pc \in [Daemons -> Running \cup {"exited"}]
  BY DEF IInv, DaemonTypeOK, Daemon
<1>1. ASSUME pc' = [pc EXCEPT ![d] = "sleep"],
             \A t \in pool' : AccountsFor(d, t) => Explained(t.vote)'
      PROVE  Tracked'
  <2>1. Tracks(d)'
    BY <1>0, <1>1, IdleTracks
  <2> QED BY <1>0, <1>1, <2>1, ProcessStep
<1>2. ASSUME Tracks(d)' /\ \A t : AccountsFor(d, t) => AccountsFor(d, t)' PROVE Tracked'
  BY <1>0, <1>2, ProcessStep
<1>3. pc[d] \in {"send", "poll"} => \A t : AccountsFor(d, t) => t = signedTx[d]
  BY DEF AccountsFor
<1>4. CASE SendAnswered(d)
  <2>1. /\ Holding(d) /\ pc'[d] = "poll" /\ signed' = signed
        /\ UNCHANGED <<votes, applied, target, roundID, status, signedTx, unknown, died>>
    BY <1>0, <1>4 DEF SendAnswered, Holding, Goes, locals, logged
  <2>2. Tracks(d)' /\ \A t : AccountsFor(d, t) => AccountsFor(d, t)'
    BY <2>1, HoldingTracks DEF Holding
  <2> QED BY <1>2, <2>2
<1>5. CASE SendRejected(d)
  <2>1. pc[d] = "send" /\ signedTx[d] \notin pool /\ pool' = pool
    BY <1>5 DEF SendRejected, chain
  <2>2. pc' = [pc EXCEPT ![d] = "sleep"]
    BY <1>5 DEF SendRejected, RoundEnds, Goes
  <2>3. \A t \in pool' : ~AccountsFor(d, t)
    BY <1>3, <2>1
  <2> QED BY <1>1, <2>2, <2>3
<1>6. CASE SendLost(d) /\ AttemptsLeft(d)
  <2>1. /\ Holding(d) /\ pc'[d] = "send" /\ signed' = signed
        /\ UNCHANGED <<votes, applied, target, roundID, status, signedTx, unknown, died>>
    BY <1>0, <1>6 DEF SendLost, Holding
  <2>2. attempt'[d] # 0
    BY <1>0, <1>6, AttemptsAssumption DEF SendLost, DaemonTypeOK
  <2>3. Tracks(d)' /\ \A t : AccountsFor(d, t) => AccountsFor(d, t)'
    BY <2>1, <2>2, HoldingTracks DEF Holding
  <2> QED BY <1>2, <2>3
<1>7. CASE SendLost(d) /\ ~AttemptsLeft(d)
  <2>1. /\ pc[d] = "send" /\ pc' = [pc EXCEPT ![d] = "sleep"]
        /\ BallotKey(d) \in unknown'
    BY <1>7 DEF SendLost, RoundEnds, Goes
  <2>2. ASSUME NEW t, AccountsFor(d, t) PROVE Explained(t.vote)'
    BY <2>1, <2>2, BallotIsSent
  <2> QED BY <1>1, <2>1, <2>2
<1>8. CASE PollAnswered(d)
  <2>1. pc[d] = "poll" /\ Included(signedTx[d]) /\ pool' = pool
    BY <1>8 DEF PollAnswered, Included, chain
  <2>2. pc' = [pc EXCEPT ![d] = "sleep"]
    BY <1>8 DEF PollAnswered, RoundEnds, Goes
  <2>3. \A t \in pool' : ~AccountsFor(d, t)
    BY <1>3, <2>1 DEF Tracked, PoolTracked
  <2> QED BY <1>1, <2>2, <2>3
<1>9. CASE CallFails(d)
  <2>1. /\ pc[d] \in Reads \cup Submitting /\ pc' = [pc EXCEPT ![d] = "sleep"]
        /\ pc[d] \in {"send", "poll"} => BallotKey(d) \in unknown'
    BY <1>9 DEF CallFails, RoundEnds, Goes
  <2>2. ASSUME NEW t, AccountsFor(d, t) PROVE Explained(t.vote)'
    <3>1. pc[d] \in {"send", "poll"}
      BY <2>2 DEF AccountsFor, Holding
    <3> QED BY <2>1, <2>2, <3>1, BallotIsSent
  <2> QED BY <1>1, <2>1, <2>2
<1> QED BY <1>4, <1>5, <1>6, <1>7, <1>8, <1>9

\* A signal leaves the envelope where it is; a crash explains the one it leaves behind;
\* and a process that is started again holds none.
LEMMA TrackedFault ==
    ASSUME IInv, Tracked, NEW d \in Daemons, Faults(d) PROVE Tracked'
<1>0. DaemonTypeOK /\ pc \in [Daemons -> Running \cup {"exited"}]
  BY DEF IInv, DaemonTypeOK
<1>1. CASE Signal(d)
  <2>1. UNCHANGED <<votes, applied, pool, pc, target, roundID, status, signedTx, attempt,
                    unknown, signed, died>>
    BY <1>1 DEF Signal, chain, locals, logged
  <2>2. CASE Holding(d)
    <3>1. Tracks(d)' /\ \A t : AccountsFor(d, t) => AccountsFor(d, t)'
      BY <2>1, <2>2, HoldingTracks DEF Holding
    <3> QED BY <3>1, ProcessStep
  <2>3. CASE ~Holding(d)
    <3>1. Ballot(d)' = Ballot(d) /\ BallotKey(d)' = BallotKey(d) /\ ~Holding(d)'
      BY <2>1, <2>3 DEF Ballot, BallotKey, Holding
    <3>2. /\ Voted(BallotKey(d))' <=> Voted(BallotKey(d))
          /\ Explained(BallotKey(d))' <=> Explained(BallotKey(d))
      BY <2>1, <3>1 DEF Voted, HasWatcherVoted, Explained
    <3>3. Tracks(d)'
      BY <2>1, <2>3, <3>1, <3>2 DEF Tracked, Tracks, Holding
    <3>4. \A t : AccountsFor(d, t) => AccountsFor(d, t)'
      BY <2>1 DEF AccountsFor, Holding
    <3> QED BY <3>3, <3>4, ProcessStep
  <2> QED BY <2>2, <2>3
<1>2. CASE Crash(d)
  <2>1. pc'[d] = "exited"
    BY <1>0, <1>2 DEF Crash, Goes
  <2>2. Tracks(d)'
    BY <2>1, IdleTracks
  <2>3. ASSUME NEW t, AccountsFor(d, t) PROVE Explained(t.vote)'
    <3>1. BallotKey(d) \in died'
      BY <1>2, <2>3 DEF Crash, AccountsFor, Holding
    <3> QED BY <2>3, <3>1, BallotIsSent
  <2> QED BY <2>2, <2>3, ProcessStep
<1>3. CASE Restart(d)
  <2>1. pc[d] = "exited" /\ pc'[d] = "round"
    BY <1>0, <1>3 DEF Restart, Goes
  <2>2. Tracks(d)'
    BY <2>1, IdleTracks
  <2>3. \A t : ~AccountsFor(d, t)
    BY <2>1 DEF AccountsFor, Holding
  <2> QED BY <2>2, <2>3, ProcessStep
<1> QED BY <1>1, <1>2, <1>3 DEF Faults

\* Every step keeps every envelope tracked.
LEMMA TrackedStep == IInv /\ Tracked /\ [Next]_vars => Tracked'
<1> SUFFICES ASSUME IInv, Tracked, [Next]_vars PROVE Tracked'
  OBVIOUS
<1>1. CASE RoundBegins \/ \E e \in Flaky : HealthChanges(e)
  BY <1>1, TrackedFrame DEF RoundBegins, RoundAdvances, HealthChanges, chain
<1>2. CASE Chain /\ UNCHANGED <<endpoints, processes>>
  <2>1. ASSUME NEW w \in Revocable, AdmissionChanges(w) PROVE Tracked'
    BY <1>2, <2>1, TrackedFrame DEF AdmissionChanges
  <2> QED BY <1>2, <2>1, TrackedInclude, TrackedDrop DEF Chain
<1>3. ASSUME NEW d \in Daemons, Daemon(d) \/ Faults(d) PROVE Tracked'
  BY <1>3, TrackedBeforeSend, TrackedSend, TrackedFault DEF Daemon
<1>4. CASE UNCHANGED vars
  BY <1>4, TrackedFrame DEF vars, chain
<1> QED BY <1>1, <1>2, <1>3, <1>4 DEF Next

\* A ballot is refused as a duplicate only if the answer to an earlier one of it was
\* lost, or a process died on it: no resent envelope, no second wake and no restart
\* alone votes twice.
THEOREM DuplicateExplained == Spec => []DuplicateIsExplained
<1>1. Tracked => DuplicateIsExplained
  BY DEF Tracked
<1> QED BY <1>1, TrackedInit, TrackedStep, Invariance, PTL DEF Spec

\* What a process reports as refused before inclusion is in no ledger, unless an earlier
\* attempt of the same call had failed in transport.
THEOREM RejectionTrue == Spec => RejectionIsTrue
<1>1. IInv /\ Tracked /\ [Next]_vars =>
        [\A d \in Daemons : SendRejected(d) /\ Included(signedTx[d]) => attempt[d] > 0]_vars
  <2> SUFFICES ASSUME IInv, Tracked, NEW d \in Daemons, SendRejected(d), Included(signedTx[d])
               PROVE  attempt[d] > 0
    OBVIOUS
  <2>1. attempt[d] \in Nat
    BY AttemptsAssumption DEF IInv, DaemonTypeOK
  <2>2. attempt[d] # 0
    BY DEF Tracked, Tracks, SendRejected
  <2> QED BY <2>1, <2>2
<1> QED BY <1>1, TrackedInit, TrackedStep, Invariance, PTL DEF Spec, RejectionIsTrue

=============================================================================
