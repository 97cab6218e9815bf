SPECIFICATION FairSpec
CONSTANTS
    Votes = {1, 2}
    Candidates = {1, 2}
    Launches = {"fifo", "any"}
    First <- FirstDef
    Second <- SecondDef
    Fixed = {"enc2x"}
    MaxTaps = 1
    MaxCasts = 2
    MaxKills = 1
    None = None
    Part = Part
    Full = Full
    Raw = Raw
    Rand = Rand
INVARIANTS
    TypeOK
    InputIsOfLastVotes
    ProofIsOfLastVote
    UploadsAreOfReportedVotes
    VkHasPk
PROPERTY RunReachesResult
