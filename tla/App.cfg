SPECIFICATION AppSpec
CONSTANTS
  Texts = {Blank, "a", "A"}
  Lower <- LowerDef
  Passwords = {Blank, "longer"}
  Long = {"longer"}
  Blank = Blank
  NoId = NoId
  None = None
  OngoingVotes = {1, 2}
  Answers <- AnswersDef
  MaxLoads = 3
  Nothing = Nothing
  Lettered = {"a", "A"}
  MaxScreens = 3
  MaxTasks = 2
  LastDay = 3
  MaxCandidates = 2
  NoDate = NoDate
  FIELD_PRIME = 43
  COEFF_A = 3
  SECRET_BITWIDTH = 6
  CURVE_ORDER = 52
  Bases = {0, 3, 16, 42}
  Inputs <- InputsDef
  MaxDialogs = 2
INVARIANTS AppTypeOK SubmittedWasChecked ResultIsTrue ToastNever UserIsThere ShownIsCurrent CreatedIsComplete EndsAfterStart OpenedWasShown OnceUnlessOverlapped SumIsMultiple ThrowsAtMeetings EncryptedUpToSign
CHECK_DEADLOCK FALSE
