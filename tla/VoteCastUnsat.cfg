SPECIFICATION Spec
CONSTANTS
    Votes = {1, 2}
    Candidates = {1, 2, 17}
    Launches = {"fifo"}
    First <- FirstDef
    Second <- SecondDef
    Fixed = {"enc2x"}
    MaxTaps = 1
    MaxCasts = 1
    MaxKills = 1
    None = None
    Part = Part
    Full = Full
    Raw = Raw
    Rand = Rand
PROPERTIES
    UnsatisfiedTerminates
