---------------------------- MODULE Attestation -----------------------------
(***************************************************************************)
(* What a vote promises, without the daemon, its transactions or the       *)
(* network: in each round a watcher casts at most one vote per SLA, while  *)
(* the round is the current one or the one before, under the endpoint the  *)
(* SLA committed to, and for a health that endpoint had since the round    *)
(* began.                                                                  *)
(***************************************************************************)
EXTENDS Integers

CONSTANTS
    Slas,        \* agreements
    Watchers,    \* registered accounts that vote
    Endpoints,   \* endpoint commitments (hashes)
    Commitment,  \* the endpoint each SLA committed to
    Flaky,       \* endpoints whose health may change
    MaxRound     \* bound on the round counter

Status == {"Up", "Down"}

VARIABLES
    now,       \* the registry's current round
    health,    \* what each endpoint answers to a probe
    seenNow,   \* the healths each endpoint had in the current round
    seenLast,  \* and in the round before it
    votes      \* the votes the registry holds

vars == <<now, health, seenNow, seenLast, votes>>

Vote == [sla : Slas, round : 0 .. MaxRound, watcher : Watchers,
         hash : Endpoints, status : Status]

SameBallot(u, v) == u.sla = v.sla /\ u.round = v.round /\ u.watcher = v.watcher

\* The endpoint had this health at some time since round r began.
SeenSince(r, e, s) == \/ s \in seenNow[e]
                      \/ r < now /\ s \in seenLast[e]

Init ==
    /\ now = 1
    /\ health \in [Endpoints -> Status]
    /\ seenNow = [e \in Endpoints |-> {health[e]}]
    /\ seenLast = seenNow
    /\ votes = {}

RoundBegins ==
    /\ now < MaxRound
    /\ now' = now + 1
    /\ seenLast' = seenNow
    /\ seenNow' = [e \in Endpoints |-> {health[e]}]
    /\ UNCHANGED <<health, votes>>

HealthChanges(e) ==
    \E s \in Status \ {health[e]} :
        /\ health' = [health EXCEPT ![e] = s]
        /\ seenNow' = [seenNow EXCEPT ![e] = @ \cup {s}]
        /\ UNCHANGED <<now, seenLast, votes>>

Cast(v) ==
    /\ v.round \in {now - 1, now}
    /\ \A u \in votes : ~SameBallot(u, v)
    /\ v.hash = Commitment[v.sla]
    /\ SeenSince(v.round, v.hash, v.status)
    /\ votes' = votes \cup {v}
    /\ UNCHANGED <<now, health, seenNow, seenLast>>

Next ==
    \/ RoundBegins
    \/ \E e \in Flaky : HealthChanges(e)
    \/ \E v \in Vote : Cast(v)

Spec == Init /\ [][Next]_vars

=============================================================================
