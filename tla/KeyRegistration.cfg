SPECIFICATION Spec
CONSTANTS
    Users = {alice, bob}
    Votes = {1, 2}
    MaxKeys = 3
    MaxKills = 1
    None = None
    alice = alice
    bob = bob
INVARIANTS
    TypeOK
    KeptKeyIsRegistered
    NoKeyOnceStarted
