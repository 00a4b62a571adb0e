SPECIFICATION FairSpec
CONSTANTS
    d1 = d1
    s1 = s1
    w1 = w1
    e1 = e1
    e2 = e2
    Daemons = {d1}
    Slas = {s1}
    Watchers = {w1}
    Endpoints = {e1}
    SlaOf <- MCSlaOf
    AccountOf <- MCAccountOf
    Commitment <- MCCommitment
    Flaky = {}
    Revocable = {w1}
    MaxRound = 3
    MaxSigned = 2
    MaxAttempts = 3
    MaxRestarts = 1
INVARIANTS
    DuplicateIsExplained
PROPERTIES
    RejectionIsTrue
    ResultEndsPoll
    SignalEndsProcess
