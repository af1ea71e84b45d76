\* Every kind of waiting: order lock, asset lock, both, and foreign keys.
SPECIFICATION FairSpec
CONSTANTS
  tec = tec
  sup = sup
  adm = adm
  stf = stf
  w1 = w1
  w2 = w2
  a1 = a1
  chk = chk
  num = num
  txt = txt
  r1 = r1
  r2 = r2
  None = None
  Users <- DuoUsers
  Role <- DuoRole
  PlatformAdmins = {}
  Slots = {chk}
  Kind <- CheckKind
  Required <- CheckOptional
  Orders = {w1}
  Assets = {a1}
  AssetOf <- OneAsset
  Workers = {r1, r2}
  MaxHours = 1
  Removable = {}
  Operations = {"start", "complete", "reading", "admin_reading", "photo", "corrective", "crash"}
PROPERTY MeterNeverBackwards
PROPERTY EveryRequestEnds
