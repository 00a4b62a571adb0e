--------------------------- MODULE WatcherDaemon ----------------------------
(***************************************************************************)
(* Watcher daemon processes (watcher/cmd/watcher/main.go with              *)
(* internal/contract, internal/retry and internal/health), each scoped to  *)
(* one SLA and signing with one account, over VoteRegistry.                *)
(*                                                                         *)
(* Each RPC call of a round is a step of its own, so that rounds, votes,   *)
(* registrations and other daemons move between a read and its use.  A     *)
(* call that fails has failed its three attempts (retry.Do), except for    *)
(* SendTransaction, whose attempts are steps: a lost answer does not mean  *)
(* a lost transaction.                                                     *)
(***************************************************************************)
EXTENDS VoteRegistry

CONSTANTS
    Daemons,      \* processes
    SlaOf,        \* the SLA_ID of each
    AccountOf,    \* the account of the WATCHER_SECRET_KEY of each
    Commitment,   \* sla_vault's endpoint_hash of each SLA; it never changes
    Flaky,        \* endpoints whose health may change (a bound for TLC)
    Revocable,    \* accounts whose admission may change (a bound for TLC)
    MaxAttempts,  \* retry.DefaultOptions().MaxAttempts
    MaxSigned,    \* bound on the transactions signed
    MaxRestarts   \* bound on the restarts of processes

ASSUME DaemonAssumption ==
    /\ SlaOf \in [Daemons -> Slas]
    /\ AccountOf \in [Daemons -> Watchers]
    /\ \A c, d \in Daemons :
           c # d => SlaOf[c] # SlaOf[d] \/ AccountOf[c] # AccountOf[d]

ASSUME CommitmentAssumption == Commitment \in [Slas -> Endpoints]

ASSUME BoundsOfTheRun ==
    Flaky \subseteq Endpoints /\ Revocable \subseteq Watchers

ASSUME AttemptsAssumption ==
    MaxAttempts \in Nat \ {0} /\ MaxSigned \in Nat /\ MaxRestarts \in Nat

VARIABLES
    health,     \* what a probe of each endpoint meets: an answer, or none in time
    seenNow,    \* the healths each endpoint had in the current round
    seenLast,   \* and in the round before it
    pc,         \* where each process is in its round
    target,     \* its TARGET_URL's commitment, computed at start
    roundID,    \* local roundID of runOneRound
    status,     \* local status of runOneRound
    signedTx,   \* the transaction SubmitCheck signed
    attempt,    \* failed attempts of SendTransaction
    stopping,   \* its context is cancelled: SIGINT or SIGTERM arrived
    confirmed,  \* votes a process logged as submitted successfully
    unknown,    \* ballots it sent and logged a transport error for
    signed,     \* transactions signed so far, over all processes
    restarts,   \* restarts so far, over all processes
    died        \* history: the ballots a process died on between sending and the result

endpoints == <<health, seenNow, seenLast>>
locals == <<roundID, status, signedTx, attempt>>
logged == <<confirmed, unknown>>
processes == <<pc, target, locals, stopping, logged, signed, restarts, died>>
vars == <<chain, endpoints, processes>>

NoTx == [none |-> TRUE]

Reads == {"round", "voted", "commitment"}
Submitting == {"simulate", "build", "send", "poll"}
Running == Reads \cup Submitting \cup {"probe", "sleep"}

\* Mutant: SubmitCheck is given a context of its own, which no signal cancels.
ContextAliveOrSubmitting(d) == ~stopping[d] \/ pc[d] \in Submitting

\* A call that uses the process's context can succeed.
ContextAlive(d) == ~stopping[d]

Goes(d, to) == pc' = [pc EXCEPT ![d] = to]

Forgets(d) ==
    /\ roundID' = [roundID EXCEPT ![d] = 0]
    /\ status' = [status EXCEPT ![d] = "Down"]
    /\ signedTx' = [signedTx EXCEPT ![d] = NoTx]
    /\ attempt' = [attempt EXCEPT ![d] = 0]

\* runOneRound returns: its locals are gone and the process sleeps.
RoundEnds(d) ==
    /\ Goes(d, "sleep")
    /\ Forgets(d)
    /\ UNCHANGED <<target, stopping, signed, restarts, died>>

----------------------------------------------------------------------------
(* runOneRound up to the probe.                                             *)

ReadRound(d) ==
    /\ pc[d] = "round"
    /\ ContextAlive(d)
    /\ roundID' = [roundID EXCEPT ![d] = now]
    /\ Goes(d, "voted")
    /\ UNCHANGED <<chain, endpoints, target, status, signedTx, attempt,
                   stopping, logged, signed, restarts, died>>

CheckVoted(d) ==
    /\ pc[d] = "voted"
    /\ ContextAlive(d)
    /\ IF HasWatcherVoted(SlaOf[d], roundID[d], AccountOf[d])
       THEN RoundEnds(d)
       ELSE /\ Goes(d, "commitment")
            /\ UNCHANGED <<target, locals, stopping, signed, restarts, died>>
    /\ UNCHANGED <<chain, endpoints, logged>>

CheckCommitment(d) ==
    /\ pc[d] = "commitment"
    /\ ContextAlive(d)
    /\ IF Commitment[SlaOf[d]] # target[d]
       THEN RoundEnds(d)
       ELSE /\ Goes(d, "probe")
            /\ UNCHANGED <<target, locals, stopping, signed, restarts, died>>
    /\ UNCHANGED <<chain, endpoints, logged>>

\* checker.Check has no error: a request its context cancelled counts as Down.
Probe(d) ==
    /\ pc[d] = "probe"
    /\ status' = [status EXCEPT ![d] =
                      IF ContextAlive(d) THEN health[target[d]] ELSE "Down"]
    /\ Goes(d, "simulate")
    /\ UNCHANGED <<chain, endpoints, target, roundID, signedTx, attempt,
                   stopping, logged, signed, restarts, died>>

----------------------------------------------------------------------------
(* SubmitCheck.                                                             *)

Ballot(d) == [sla |-> SlaOf[d], round |-> roundID[d], watcher |-> AccountOf[d],
              hash |-> target[d], status |-> status[d]]

BallotKey(d) == [sla |-> SlaOf[d], round |-> roundID[d], watcher |-> AccountOf[d]]

\* simulateAndPrepare: a vote the contract would refuse now is a simulation error.
Simulate(d) ==
    /\ pc[d] = "simulate"
    /\ ContextAlive(d)
    /\ IF Verdict(Ballot(d)) # "SUCCESS"
       THEN RoundEnds(d)
       ELSE /\ Goes(d, "build")
            /\ UNCHANGED <<target, locals, stopping, signed, restarts, died>>
    /\ UNCHANGED <<chain, endpoints, logged>>

\* getSourceAccount, NewTransaction and Sign.
Build(d) ==
    /\ pc[d] = "build"
    /\ ContextAlive(d)
    /\ signed < MaxSigned
    /\ signed' = signed + 1
    /\ signedTx' = [signedTx EXCEPT ![d] =
                        [id |-> signed', vote |-> Ballot(d),
                         seq |-> seq[AccountOf[d]] + 1, built |-> now]]
    /\ Goes(d, "send")
    /\ UNCHANGED <<chain, endpoints, target, roundID, status, attempt,
                   stopping, logged, restarts, died>>

Enqueue(t) == Poolable(t) /\ pool' = pool \cup {t}

\* Mutant: an answer is not an end: the envelope is sent again, uncounted.
SendAnsweredSendsAgain(d) ==
    /\ pc[d] = "send"
    /\ ContextAlive(d)
    /\ Enqueue(signedTx[d]) \/ UNCHANGED pool
    /\ Goes(d, "poll") \/ Goes(d, "send")
    /\ UNCHANGED <<now, admitted, votes, seq, applied, endpoints, target, locals,
                   stopping, logged, signed, restarts, died>>

\* SendTransaction answers PENDING, DUPLICATE or TRY_AGAIN_LATER: only ERROR
\* ends the submission, so all three are polled, the last one though the node
\* may not hold the transaction.
SendAnswered(d) ==
    /\ pc[d] = "send"
    /\ ContextAlive(d)
    /\ Enqueue(signedTx[d]) \/ UNCHANGED pool
    /\ Goes(d, "poll")
    /\ UNCHANGED <<now, admitted, votes, seq, applied, endpoints, target, locals,
                   stopping, logged, signed, restarts, died>>

\* It answers ERROR, as it may for any transaction it does not hold: also one that
\* a ledger has included since an earlier attempt.
SendRejected(d) ==
    /\ pc[d] = "send"
    /\ ContextAlive(d)
    /\ signedTx[d] \notin pool
    /\ RoundEnds(d)
    /\ UNCHANGED <<chain, endpoints, logged>>

\* Mutant: the attempts are counted one too far.
AttemptsLeftOneMore(d) == attempt[d] < MaxAttempts

\* retry.Do goes on after a failed attempt.
AttemptsLeft(d) == attempt[d] + 1 < MaxAttempts

\* Mutant: giving up on the envelope starts SubmitCheck's signing again.
SendLostSignsAgain(d) ==
    /\ pc[d] = "send"
    /\ ContextAlive(d)
    /\ Enqueue(signedTx[d]) \/ UNCHANGED pool
    /\ Goes(d, "build")
    /\ UNCHANGED <<now, admitted, votes, seq, applied, endpoints, target, locals,
                   stopping, logged, signed, restarts, died>>

\* The call fails in transport, before or after the transaction arrived: the
\* same envelope is sent again until the attempts run out.
SendLost(d) ==
    /\ pc[d] = "send"
    /\ ContextAlive(d)
    /\ Enqueue(signedTx[d]) \/ UNCHANGED pool
    /\ IF AttemptsLeft(d)
       THEN /\ attempt' = [attempt EXCEPT ![d] = @ + 1]
            /\ UNCHANGED <<pc, target, roundID, status, signedTx, stopping, unknown, signed,
                           restarts, died>>
       ELSE /\ unknown' = unknown \cup {BallotKey(d)}
            /\ RoundEnds(d)
    /\ UNCHANGED <<now, admitted, votes, seq, applied, endpoints, confirmed>>

\* Mutant: a result other than SUCCESS is polled again.
PollAnsweredSuccessOnly(d) ==
    /\ pc[d] = "poll"
    /\ ContextAlive(d)
    /\ [tx |-> signedTx[d], result |-> "SUCCESS"] \in applied
    /\ confirmed' = confirmed \cup {signedTx[d].vote}
    /\ RoundEnds(d)
    /\ UNCHANGED <<chain, endpoints, unknown>>

\* Mutant: whatever ended the poll is logged as a success.
PollAnsweredAnyStatus(d) ==
    /\ pc[d] = "poll"
    /\ ContextAlive(d)
    /\ Included(signedTx[d])
    /\ confirmed' = confirmed \cup {signedTx[d].vote}
    /\ RoundEnds(d)
    /\ UNCHANGED <<chain, endpoints, unknown>>

\* PollTransaction returns once the transaction has a result: the round's
\* submission is logged as a success only if that result is SUCCESS.
PollAnswered(d) ==
    /\ pc[d] = "poll"
    /\ ContextAlive(d)
    /\ \E a \in applied :
          /\ a.tx = signedTx[d]
          /\ confirmed' = IF a.result = "SUCCESS" THEN confirmed \cup {a.tx.vote}
                          ELSE confirmed
    /\ RoundEnds(d)
    /\ UNCHANGED <<chain, endpoints, unknown>>

\* Mutant: the poll is not bound to the context.
CallFailsNotPoll(d) ==
    /\ pc[d] \in (Reads \cup Submitting) \ {"poll"}
    /\ pc[d] = "send" => ~ContextAlive(d)
    /\ unknown' = IF pc[d] = "send" THEN unknown \cup {BallotKey(d)} ELSE unknown
    /\ RoundEnds(d)
    /\ UNCHANGED <<chain, endpoints, confirmed>>

\* A call fails for good, or at once when the context is cancelled: runOneRound
\* logs it and returns.
CallFails(d) ==
    /\ pc[d] \in Reads \cup Submitting
    /\ pc[d] = "send" => ~ContextAlive(d)
    /\ unknown' = IF pc[d] \in {"send", "poll"} THEN unknown \cup {BallotKey(d)}
                  ELSE unknown
    /\ RoundEnds(d)
    /\ UNCHANGED <<chain, endpoints, confirmed>>

----------------------------------------------------------------------------
(* The loop, signals, crashes and restarts.                                 *)

\* The sleep ends on the local clock's round boundary, which says nothing of the
\* registry's round.
Wake(d) ==
    /\ pc[d] = "sleep"
    /\ ContextAlive(d)
    /\ Goes(d, "round")
    /\ UNCHANGED <<chain, endpoints, target, locals, stopping, logged, signed, restarts, died>>

Signal(d) ==
    /\ pc[d] \in Running
    /\ ContextAlive(d)
    /\ stopping' = [stopping EXCEPT ![d] = TRUE]
    /\ UNCHANGED <<chain, endpoints, pc, target, locals, logged, signed, restarts, died>>

\* The loop finds its context cancelled, between rounds.
Exit(d) ==
    /\ pc[d] \in {"sleep", "round"}
    /\ ~ContextAlive(d)
    /\ Goes(d, "exited")
    /\ UNCHANGED <<chain, endpoints, target, locals, stopping, logged, signed, restarts, died>>

\* The process dies wherever it is.  Nothing it knew is on disk.
Crash(d) ==
    /\ pc[d] \in Running
    /\ died' = IF pc[d] \in {"send", "poll"} THEN died \cup {BallotKey(d)} ELSE died
    /\ Goes(d, "exited")
    /\ Forgets(d)
    /\ UNCHANGED <<chain, endpoints, target, stopping, logged, signed, restarts>>

\* The process is started again, perhaps with another TARGET_URL.
Restart(d) ==
    /\ pc[d] = "exited"
    /\ restarts < MaxRestarts
    /\ restarts' = restarts + 1
    /\ \E e \in Endpoints : target' = [target EXCEPT ![d] = e]
    /\ stopping' = [stopping EXCEPT ![d] = FALSE]
    /\ Goes(d, "round")
    /\ UNCHANGED <<chain, endpoints, locals, logged, signed, died>>

----------------------------------------------------------------------------
RoundBegins ==
    /\ RoundAdvances
    /\ seenLast' = seenNow
    /\ seenNow' = [e \in Endpoints |-> {health[e]}]
    /\ UNCHANGED <<health, processes>>

HealthChanges(e) ==
    \E s \in Status \ {health[e]} :
        /\ health' = [health EXCEPT ![e] = s]
        /\ seenNow' = [seenNow EXCEPT ![e] = @ \cup {s}]
        /\ UNCHANGED <<chain, seenLast, processes>>

Chain ==
    \/ \E t \in pool : Include(t) \/ Drop(t)
    \/ \E w \in Revocable : AdmissionChanges(w)

Daemon(d) ==
    \/ ReadRound(d) \/ CheckVoted(d) \/ CheckCommitment(d) \/ Probe(d)
    \/ Simulate(d) \/ Build(d) \/ SendAnswered(d) \/ SendRejected(d) \/ SendLost(d)
    \/ PollAnswered(d) \/ CallFails(d) \/ Wake(d) \/ Exit(d)

Faults(d) == Signal(d) \/ Crash(d) \/ Restart(d)

Init ==
    /\ ChainInit
    /\ health \in [Endpoints -> Status]
    /\ seenNow = [e \in Endpoints |-> {health[e]}]
    /\ seenLast = seenNow
    /\ pc = [d \in Daemons |-> "round"]
    /\ target \in [Daemons -> Endpoints]
    /\ roundID = [d \in Daemons |-> 0]
    /\ status = [d \in Daemons |-> "Down"]
    /\ signedTx = [d \in Daemons |-> NoTx]
    /\ attempt = [d \in Daemons |-> 0]
    /\ stopping = [d \in Daemons |-> FALSE]
    /\ confirmed = {}
    /\ unknown = {}
    /\ signed = 0
    /\ restarts = 0
    /\ died = {}

Next ==
    \/ RoundBegins
    \/ \E e \in Flaky : HealthChanges(e)
    \/ Chain /\ UNCHANGED <<endpoints, processes>>
    \/ \E d \in Daemons : Daemon(d) \/ Faults(d)

Spec == Init /\ [][Next]_vars

\* The steps of a process whose calls are answered, and those a cancelled context
\* forces on it.
Proceeds(d) ==
    \/ ReadRound(d) \/ CheckVoted(d) \/ CheckCommitment(d) \/ Probe(d)
    \/ Simulate(d) \/ Build(d) \/ SendAnswered(d) \/ PollAnswered(d) \/ Wake(d)

Unwinds(d) == Exit(d) \/ Probe(d) \/ (~ContextAlive(d) /\ CallFails(d))

\* Processes run, time passes, and the pool empties into ledgers or is dropped.
\* Failures, signals and restarts need not happen.
FairSpec ==
    /\ Spec
    /\ \A d \in Daemons : WF_vars(Proceeds(d)) /\ WF_vars(Unwinds(d))
    /\ WF_vars(RoundBegins)
    /\ WF_vars(\E t \in pool : (Include(t) \/ Drop(t)) /\ UNCHANGED <<endpoints, processes>>)

----------------------------------------------------------------------------
BallotKeys == [sla : Slas, round : 0 .. MaxRound, watcher : Watchers]

DaemonTypeOK ==
    /\ ChainTypeOK
    /\ health \in [Endpoints -> Status]
    /\ seenNow \in [Endpoints -> SUBSET Status]
    /\ seenLast \in [Endpoints -> SUBSET Status]
    /\ pc \in [Daemons -> Running \cup {"exited"}]
    /\ target \in [Daemons -> Endpoints]
    /\ roundID \in [Daemons -> 0 .. MaxRound]
    /\ status \in [Daemons -> Status]
    /\ signedTx \in [Daemons -> Tx \cup {NoTx}]
    /\ attempt \in [Daemons -> 0 .. MaxAttempts - 1]
    /\ stopping \in [Daemons -> BOOLEAN]
    /\ confirmed \subseteq Vote
    /\ unknown \subseteq BallotKeys
    /\ signed \in 0 .. MaxSigned
    /\ restarts \in 0 .. MaxRestarts
    /\ died \subseteq BallotKeys

Promise == INSTANCE Attestation

\* The daemons keep the promise of Attestation, through every delay, lost
\* answer, crash and restart with another TARGET_URL: a recorded vote is under
\* the SLA's commitment and says how that endpoint was since the voted round
\* began (main.go:95-128; the cancelled probe of a shutdown is never sent).
KeepsPromise == Promise!Spec

\* What a process logs as "submitted check successfully" (main.go:132-136) is
\* recorded in the registry, with the round and the status it probed.
SuccessIsCounted == confirmed \subseteq votes

\* A process wastes a transaction on a ballot that is already counted only when
\* the answer to an earlier one for that very ballot was lost: the process gave up
\* on it, or died with it in flight.  Sending one envelope again (retry.go:40-67,
\* contract.go:339-346), waking twice within a round, being slow, and being started
\* again after any other end do not cause a second vote (main.go:95-104).
DuplicateIsExplained ==
    \A a \in applied : a.result = "DuplicateCheck" =>
        \E v \in unknown \cup died : SameBallot(v, a.tx.vote)

\* Every result ends the poll for it, a failed transaction's as well
\* (contract.go:360-374), and the process goes on to sleep and to its next round.
ResultEndsPoll ==
    \A d \in Daemons :
        pc[d] = "poll" /\ Included(signedTx[d]) ~> pc[d] # "poll"

\* After SIGINT or SIGTERM the process exits from wherever it is: no call of the
\* round it is in outlives the context (main.go:58-80).
SignalEndsProcess ==
    \A d \in Daemons : stopping[d] ~> pc[d] = "exited" \/ ~stopping[d]

\* "rejected before inclusion" (contract.go:355-357) is true of a transaction
\* unless the answer to an earlier attempt of the same call was lost: only then can
\* a ledger hold what the process reports as refused.
RejectionIsTrue ==
    [][\A d \in Daemons :
          SendRejected(d) /\ Included(signedTx[d]) => attempt[d] > 0]_vars

\* main.go:1-2 says the daemon checks and votes "once per round": no round of it
\* polls for ever.  The code polls without a deadline (main.go:132,
\* contract.go:360-367) for a transaction that no ledger will include.
PollEnds == \A d \in Daemons : pc[d] = "poll" ~> pc[d] # "poll"

=============================================================================
