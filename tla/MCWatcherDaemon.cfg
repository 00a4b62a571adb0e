SPECIFICATION Spec
CONSTANTS
    d1 = d1
    s1 = s1
    w1 = w1
    e1 = e1
    e2 = e2
    Daemons = {d1}
    Slas = {s1}
    Watchers = {w1}
    Endpoints = {e1, e2}
    SlaOf <- MCSlaOf
    AccountOf <- MCAccountOf
    Commitment <- MCCommitment
    Flaky = {e1}
    Revocable = {}
    MaxRound = 3
    MaxSigned = 2
    MaxAttempts = 2
    MaxRestarts = 1
INVARIANTS
    DaemonTypeOK
    SuccessIsCounted
PROPERTIES
    KeepsPromise
