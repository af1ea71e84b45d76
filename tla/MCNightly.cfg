\* Two plans of one company, two runs that overlap, repeat and are killed on the first day,
\* and a meter that is read meanwhile.
SPECIFICATION FairSpec
CONSTANTS
  a1 = a1
  a2 = a2
  c1 = c1
  c2 = c2
  e1 = e1
  None = None
  Companies = {1}
  Plans <- TwoPlans
  Assets = {a1}
  CompanyOf <- SameCompany
  AssetOf <- SameMachine
  EveryDays <- EachDay
  EveryHours <- EachHour
  Runners = {c1, c2}
  Editors = {}
  MaxDay = 1
  MaxHours = 1
  LastDate = 2
  Horizon = 0
  CrashFree = 1
  Operations = {"create", "midnight", "reading"}
PROPERTY ImplementsBook
PROPERTY DueIsServed
PROPERTY EveryRunEnds
