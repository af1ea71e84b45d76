\* Two overlapping runs, an editor, crashes, one plan.
SPECIFICATION Spec
CONSTANTS
  a1 = a1
  a2 = a2
  c1 = c1
  c2 = c2
  e1 = e1
  None = None
  Companies = {1}
  Plans <- OnePlan
  Assets = {a1}
  CompanyOf <- OneCompany
  AssetOf <- OneMachine
  EveryDays <- EveryDay
  EveryHours <- EveryHour
  Runners = {c1, c2}
  Editors = {e1}
  MaxDay = 1
  MaxHours = 1
  LastDate = 1
  Horizon = 0
  CrashFree = 2
  Operations = {"create", "update", "toggle", "delete", "reading", "retire", "midnight"}
SYMMETRY RunnerSymmetry
INVARIANT TypeOK
INVARIANT CopiedOnce
INVARIANT EvidenceKeepsPlan
