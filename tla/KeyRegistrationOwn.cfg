SPECIFICATION Spec
CONSTANTS
    Users = {alice, bob}
    Votes = {1}
    MaxKeys = 1
    MaxKills = 0
    None = None
    alice = alice
    bob = bob
INVARIANT
    VoterIsRegistered
