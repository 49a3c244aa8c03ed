\* Two hosts, two tabs of one guest and a tab of another.
SPECIFICATION Spec
CONSTANTS
    a1 = a1
    a2 = a2
    b1 = b1
    alice = alice
    bob = bob
    Questions = {q}
    Topics = {t}
    Tabs = {a1, a2, b1}
    Hosts = {h1, h2}
    Guests = {alice, bob}
    OwnerOf <- MCOwnerOf
    NoOne = NoOne
    MaxBatch = 2
    MaxQueue = 3
    MaxBegun = 4
INVARIANTS
    TypeOK
    CountIsVoters
    CountsShown
    OwnVoteShown
    TalliesStored
    LossExplained
    StoredVotesHaveRows
CHECK_DEADLOCK FALSE
