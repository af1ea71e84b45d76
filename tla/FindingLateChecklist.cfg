\* A corrective order is finished before its checklist is copied.
SPECIFICATION Spec
CONSTANTS
  tec = tec
  sup = sup
  adm = adm
  stf = stf
  w1 = w1
  w2 = w2
  a1 = a1
  chk = chk
  num = num
  txt = txt
  r1 = r1
  r2 = r2
  None = None
  Users <- DuoUsers
  Role <- DuoRole
  PlatformAdmins = {}
  Slots = {txt}
  Kind <- TextKind
  Required <- TextRequired
  Orders = {w1}
  Assets = {a1}
  AssetOf <- OneAsset
  Workers = {r1, r2}
  MaxHours = 0
  Removable = {}
  Operations = {"start", "complete", "corrective"}
INVARIANT AllDoneMeansAnswered
