---------------------------- MODULE VoteRegistry ----------------------------
(***************************************************************************)
(* The chain as a watcher daemon meets it: watcher_registry's submit_check *)
(* with its rounds and refusals, account sequence numbers, and the pool of *)
(* transactions that are sent and not yet in a ledger.  All of it is       *)
(* outside this repository's code and is modelled from the calls the       *)
(* daemon makes and the outcomes it tells apart.                           *)
(***************************************************************************)
EXTENDS Integers, FiniteSets

CONSTANTS
    Slas,        \* agreements
    Watchers,    \* accounts
    Endpoints,   \* endpoint commitments (hashes)
    MaxRound     \* bound on the round counter

ASSUME BoundsAssumption == MaxRound \in Nat \ {0}

Status == {"Up", "Down"}

VARIABLES
    now,       \* get_current_round: ledger time in rounds of 60 seconds
    admitted,  \* accounts whose votes are taken: registered, and not paused
    votes,     \* the checks recorded
    seq,       \* last sequence number each account used
    pool,      \* transactions sent and not yet included
    applied    \* transactions included, each with its result

chain == <<now, admitted, votes, seq, pool, applied>>

Vote == [sla : Slas, round : 0 .. MaxRound, watcher : Watchers,
         hash : Endpoints, status : Status]

\* A signed submit_check: the vote, the sequence number it uses, the round it was
\* built in, from which its 30 seconds of validity run, and an id in place of its
\* hash: no two transactions that were signed have the same.
Tx == [id : Nat, vote : Vote, seq : Nat, built : 1 .. MaxRound]

Results == {"SUCCESS", "InvalidRound", "DuplicateCheck", "Refused"}

SameBallot(u, v) == u.sla = v.sla /\ u.round = v.round /\ u.watcher = v.watcher

HasWatcherVoted(s, r, w) == \E u \in votes : u.sla = s /\ u.round = r /\ u.watcher = w

\* submit_check's answer now.  The key of a check leaves the endpoint hash out.
Verdict(v) ==
    IF v.watcher \notin admitted THEN "Refused"
    ELSE IF v.round \notin {now - 1, now} THEN "InvalidRound"
    ELSE IF HasWatcherVoted(v.sla, v.round, v.watcher) THEN "DuplicateCheck"
    ELSE "SUCCESS"

\* A transaction can be included while its time bound lasts (less than one round
\* past the one it was built in), and only as its account's next one.
Includable(t) == t.seq = seq[t.vote.watcher] + 1 /\ now <= t.built + 1

\* The pool takes in a transaction that is in time, is its account's next, and is
\* the only one its account has there.
Poolable(t) == /\ Includable(t)
               /\ \A u \in pool : u.vote.watcher = t.vote.watcher => u = t

Included(t) == \E a \in applied : a.tx = t

----------------------------------------------------------------------------
ChainInit ==
    /\ now = 1
    /\ admitted = Watchers
    /\ votes = {}
    /\ seq = [w \in Watchers |-> 0]
    /\ pool = {}
    /\ applied = {}

RoundAdvances ==
    /\ now < MaxRound
    /\ now' = now + 1
    /\ UNCHANGED <<admitted, votes, seq, pool, applied>>

\* The administrator registers or removes an account, pauses or unpauses.
AdmissionChanges(w) ==
    /\ admitted' = IF w \in admitted THEN admitted \ {w} ELSE admitted \cup {w}
    /\ UNCHANGED <<now, votes, seq, pool, applied>>

\* A ledger includes the transaction.  A vote the contract refuses is a failed
\* transaction: it uses its sequence number all the same, which makes whatever
\* else its account had in the pool invalid.
Include(t) ==
    /\ t \in pool
    /\ Includable(t)
    /\ applied' = applied \cup {[tx |-> t, result |-> Verdict(t.vote)]}
    /\ votes' = IF Verdict(t.vote) = "SUCCESS" THEN votes \cup {t.vote} ELSE votes
    /\ seq' = [seq EXCEPT ![t.vote.watcher] = @ + 1]
    /\ pool' = {u \in pool : u.vote.watcher # t.vote.watcher}
    /\ UNCHANGED <<now, admitted>>

\* The network drops a transaction it does not include: evicted, or expired.
Drop(t) ==
    /\ t \in pool
    /\ pool' = pool \ {t}
    /\ UNCHANGED <<now, admitted, votes, seq, applied>>

ChainTypeOK ==
    /\ now \in 1 .. MaxRound
    /\ admitted \subseteq Watchers
    /\ votes \subseteq Vote
    /\ seq \in [Watchers -> Nat]
    /\ pool \subseteq Tx
    /\ applied \subseteq [tx : Tx, result : Results]

=============================================================================
