---------------------------- MODULE MCWorkOrders ----------------------------
(***************************************************************************)
(* Small instances of WorkOrders for TLC: a technician with a supervisor   *)
(* and perhaps an administrator, and one or two orders on one machine.     *)
(***************************************************************************)
EXTENDS WorkOrders, TLC

CONSTANTS tec, sup, adm, stf, w1, w2, a1, chk, num, txt, r1, r2

MCUsers == {tec, sup, adm}
MCRole == [u \in MCUsers |-> CASE u = tec -> "technician" [] u = sup -> "supervisor"
                               [] u = adm -> "admin"]

DuoUsers == {tec, sup}
DuoRole == [u \in DuoUsers |-> CASE u = tec -> "technician" [] u = sup -> "supervisor"]

\* The platform's own administrator holds no business role worth naming.
PlatformUsers == {tec, sup, stf}
PlatformRole == [u \in PlatformUsers |-> CASE u = tec -> "technician"
                                           [] u = sup -> "supervisor" [] u = stf -> "staff"]

\* One item per run: a required text, a required measurement, an optional check.
TextKind == [s \in {txt} |-> "text"]
TextRequired == [s \in {txt} |-> TRUE]
NumericKind == [s \in {num} |-> "numeric"]
NumericRequired == [s \in {num} |-> TRUE]
CheckKind == [s \in {chk} |-> "check"]
CheckOptional == [s \in {chk} |-> FALSE]

OneAsset == [w \in {w1} |-> a1]
SameAsset == [w \in {w1, w2} |-> a1]

WorkerSymmetry == Permutations({r1, r2})
=============================================================================
