\* An edit that loaded a machine before it was retired.
SPECIFICATION OfficeSpec
CHECK_DEADLOCK FALSE
CONSTANTS
  None = None
  t1 = t1
  t2 = t2
  w1 = w1
  w2 = w2
  o1 = o1
  o2 = o2
  p1 = p1
  p2 = p2
  p3 = p3
  d1 = d1
  d2 = d2
  boss = boss
  u1 = u1
  u2 = u2
  k1 = k1
  k2 = k2
  x1 = x1
  x2 = x2
  v1 = v1
  v2 = v2
  v3 = v3
  v4 = v4
  m1 = m1
  j1 = j1
  j2 = j2
  c1 = c1
  c2 = c2
  th = th
  g1 = g1
  q1 = q1
  q2 = q2
  Scenes = {"assets"}
  Versions = {1, 2}
  Items = {1, 2, 3}
  Texts = {t1, t2}
  Editors = {w1, w2}
  Orders = {o1, o2}
  Reports = {1}
  People = {p1, p2, p3}
  Reviewers = {p2, p3}
  Desks = {d1, d2}
  Users = {boss, u1, u2}
  Admins = {boss}
  Limits = {1, 2}
  Calls = {k1, k2}
  Machines = {1}
  Documents = {x1, x2}
  Visits = {v1, v2, v3, v4}
  FirstDues <- MCFirstDues
  Intervals = {7, 30, 45, 90, 180, 365}
  MeterSteps = {1, 10}
  MaxMeter = 21
  YearsAhead = 1
  Ahead = 9
  Behind = 2
  Jobs = {j1, j2}
  Fleet = {m1}
  TypeOf <- MCTypeOf
  MachineOf <- MCMachineOf
  DayTicks = 2
  MonthDays = 2
  LastTick = 3
  DuesOf <- MCDuesOf
  Downtimes = {3}
  Costs = {1}
  AskFrom = 3
  MaxCommits = 1
  Span = 2
  Week = 2
  Thirty = 2
  TopN = 2
  Companies = {c1, c2}
  Members = {boss}
  Threads = {th}
  Equipment = {g1}
  Tickets = {q1, q2}
SYMMETRY OfficeSymmetry
PROPERTY BajaStands
