SPECIFICATION Spec
CONSTANTS
  Value <- MCValue
  Text <- MCText
  Scalar <- MCScalar
  Prompts <- MCPrompts
  Optional = {"pool"}
  Numeric = {"pool", "budget"}
  Anchor = {"org", "remit"}
  PromptChecks = {"ceiling", "pool", "budget"}
  ValidateChecks = {"ceiling", "budget"}
  LoadChecks = {"remit", "ceiling", "pool", "budget"}
  Unprompted = {"flight"}
  Discoverable = {"org"}
  Choice <- MCChoice
  Flags <- MCFlags
  Env <- MCEnv
  Found <- MCFound
  MaxRuns = 2
  MaxEdits = 1
INVARIANT
  GreenIsServable
PROPERTIES
  UnchangedFieldsSurvive
  WritesWhatItShowed
CHECK_DEADLOCK FALSE
