\* An edit of a plan puts an old meter baseline back.
SPECIFICATION Spec
CONSTANTS
  a1 = a1
  a2 = a2
  c1 = c1
  c2 = c2
  e1 = e1
  None = None
  Companies = {1}
  Plans <- OnePlan
  Assets = {a1}
  CompanyOf <- OneCompany
  AssetOf <- OneMachine
  EveryDays <- EveryDay
  EveryHours <- EveryHour
  Runners = {c1}
  Editors = {e1}
  MaxDay = 1
  MaxHours = 2
  LastDate = 2
  Horizon = 0
  CrashFree = 0
  Operations = {"create", "update", "reading"}
INVARIANT MeterSpacing
