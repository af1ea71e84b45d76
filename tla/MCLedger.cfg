\* Every way an order is born, a platform administrator, a measured item.
SPECIFICATION Spec
CONSTANTS
  tec = tec
  sup = sup
  adm = adm
  stf = stf
  w1 = w1
  w2 = w2
  a1 = a1
  chk = chk
  num = num
  txt = txt
  r1 = r1
  r2 = r2
  None = None
  Users <- PlatformUsers
  Role <- PlatformRole
  PlatformAdmins = {stf}
  Slots = {num}
  Kind <- NumericKind
  Required <- NumericRequired
  Orders = {w1}
  Assets = {a1}
  AssetOf <- OneAsset
  Workers = {r1, r2}
  MaxHours = 0
  Removable = {tec}
  Operations = {"assign", "start", "complete", "verify", "cancel", "item", "corrective", "schedule", "delete_user"}
INVARIANT TypeOK
PROPERTY ImplementsLedger
PROPERTY VerifiedIsFrozen
