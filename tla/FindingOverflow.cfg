\* A plan of the first company has an interval of millions of days.
SPECIFICATION FairSpec
CONSTANTS
  a1 = a1
  a2 = a2
  c1 = c1
  c2 = c2
  e1 = e1
  None = None
  Companies = {1, 2}
  Plans <- TwoPlans
  Assets = {a1, a2}
  CompanyOf <- OwnCompany
  AssetOf <- OwnMachine
  EveryDays <- FarAway
  EveryHours <- EachHour
  Runners = {c1}
  Editors = {}
  MaxDay = 0
  MaxHours = 0
  LastDate = 1
  Horizon = 0
  CrashFree = 0
  Operations = {"create"}
PROPERTY DueIsServed
