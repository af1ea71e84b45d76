\* One scheduled or converted order, three users, two concurrent requests.
SPECIFICATION Spec
CONSTANTS
  tec = tec
  sup = sup
  adm = adm
  stf = stf
  w1 = w1
  w2 = w2
  a1 = a1
  chk = chk
  num = num
  txt = txt
  r1 = r1
  r2 = r2
  None = None
  Users <- MCUsers
  Role <- MCRole
  PlatformAdmins = {}
  Slots = {txt}
  Kind <- TextKind
  Required <- TextRequired
  Orders = {w1}
  Assets = {a1}
  AssetOf <- OneAsset
  Workers = {r1, r2}
  MaxHours = 0
  Removable = {tec, sup}
  Operations = {"assign", "start", "complete", "verify", "cancel", "item", "photo", "schedule", "convert", "deactivate", "delete_user", "crash"}
SYMMETRY WorkerSymmetry
INVARIANT SeparationOfDuties
INVARIANT ExecutionRecord
INVARIANT DoneMeansAnswered
INVARIANT DecisionsHold
INVARIANT PhotosByExecutor
PROPERTY AssigneeFrozen
