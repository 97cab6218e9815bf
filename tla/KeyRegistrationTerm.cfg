SPECIFICATION Spec
CONSTANTS
    Users = {alice}
    Votes = {1}
    MaxKeys = 1
    MaxKills = 0
    None = None
    alice = alice
INVARIANT
    VotesWithinTerm
