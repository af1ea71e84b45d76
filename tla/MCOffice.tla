------------------------------ MODULE MCOffice ------------------------------
(***************************************************************************)
(* The office side of the product on small instances: the components that  *)
(* share the database with the work orders, each with its own tables.  No  *)
(* action of one component reads or writes a variable of another, and no   *)
(* property speaks of two of them, so a behaviour is the scene of one       *)
(* component while the others stand still: interleaving them would only    *)
(* multiply the states.                                                    *)
(***************************************************************************)
EXTENDS ChecklistTemplates, Requests, Accounts, Assets, DueDates, Indicators, Tenancy, TLC

CONSTANTS
  Scenes,        \* the components that are looked at
  t1, t2, w1, w2, o1, o2, p1, p2, p3, d1, d2, boss, u1, u2, k1, k2,
  x1, x2, v1, v2, v3, v4, m1, j1, j2, c1, c2, th, g1, q1, q2

VARIABLE scene

office == <<templatesVars, requestsVars, accountsVars, assetsVars, dueDatesVars, indicatorsVars,
            tenancyVars>>

\* Month ends before a leap year and before a century, and one plain day.
MCFirstDues == {[y |-> 2027, m |-> 1, d |-> 31], [y |-> 2027, m |-> 10, d |-> 31],
                [y |-> 2027, m |-> 12, d |-> 31], [y |-> 2028, m |-> 2, d |-> 29],
                [y |-> 2099, m |-> 11, d |-> 30]}

MCDuesOf == j1 :> {0} @@ j2 :> {-2, -1, None}
MCTypeOf == j1 :> "preventivo" @@ j2 :> "correctivo"
MCMachineOf == j1 :> m1 @@ j2 :> m1

\* Two exchanges of like with like, in every component at once, or neither.
Swap(a, b) == a :> b @@ b :> a
Keep(a, b) == a :> a @@ b :> b

OfficeSymmetry ==
  {f @@ g :
     f \in {Swap(w1, w2) @@ Swap(d1, d2) @@ Swap(k1, k2) @@ Swap(v1, v2) @@ Swap(x1, x2)
                @@ Swap(q1, q2),
              Keep(w1, w2) @@ Keep(d1, d2) @@ Keep(k1, k2) @@ Keep(v1, v2) @@ Keep(x1, x2)
                @@ Keep(q1, q2)},
     g \in {Swap(o1, o2) @@ Swap(u1, u2) @@ Swap(v3, v4) @@ Swap(c1, c2),
              Keep(o1, o2) @@ Keep(u1, u2) @@ Keep(v3, v4) @@ Keep(c1, c2)}}

\* Where a component stands still it has one initial state.
OfficeInit ==
  /\ scene \in Scenes
  /\ TemplatesInit /\ (scene # "templates" => Fresh)
  /\ RequestsInit
  /\ AccountsInit /\ (scene # "accounts" => maxUsers = 1)
  /\ AssetsInit
  /\ DueDatesInit /\ (scene # "dueDates" => schedule = MeterPlan(1))
  /\ IndicatorsInit
  /\ TenancyInit /\ (scene # "tenancy" => member = [u \in Members |-> Stranger])

TemplatesScene ==
  /\ scene = "templates" /\ TemplatesNext
  /\ UNCHANGED <<scene, requestsVars, accountsVars, assetsVars, dueDatesVars,
                 indicatorsVars, tenancyVars>>

RequestsScene ==
  /\ scene = "requests" /\ RequestsNext
  /\ UNCHANGED <<scene, templatesVars, accountsVars, assetsVars, dueDatesVars,
                 indicatorsVars, tenancyVars>>

AccountsScene ==
  /\ scene = "accounts" /\ AccountsNext
  /\ UNCHANGED <<scene, templatesVars, requestsVars, assetsVars, dueDatesVars,
                 indicatorsVars, tenancyVars>>

AssetsScene ==
  /\ scene = "assets" /\ AssetsNext
  /\ UNCHANGED <<scene, templatesVars, requestsVars, accountsVars, dueDatesVars,
                 indicatorsVars, tenancyVars>>

DueDatesScene ==
  /\ scene = "dueDates" /\ DueDatesNext
  /\ UNCHANGED <<scene, templatesVars, requestsVars, accountsVars, assetsVars,
                 indicatorsVars, tenancyVars>>

IndicatorsScene ==
  /\ scene = "indicators" /\ IndicatorsNext
  /\ UNCHANGED <<scene, templatesVars, requestsVars, accountsVars, assetsVars,
                 dueDatesVars, tenancyVars>>

TenancyScene ==
  /\ scene = "tenancy" /\ TenancyNext
  /\ UNCHANGED <<scene, templatesVars, requestsVars, accountsVars, assetsVars,
                 dueDatesVars, indicatorsVars>>

OfficeNext ==
  \/ TemplatesScene \/ RequestsScene \/ AccountsScene
  \/ AssetsScene \/ DueDatesScene \/ IndicatorsScene \/ TenancyScene

OfficeSpec == OfficeInit /\ [][OfficeNext]_<<scene, office>>

\* In every scene, the columns of the component that moves hold what they may.
OfficeTypeOK ==
  CASE scene = "templates"  -> TemplatesTypeOK
    [] scene = "requests"   -> RequestsTypeOK
    [] scene = "accounts"   -> AccountsTypeOK
    [] scene = "assets"     -> AssetsTypeOK
    [] scene = "dueDates"   -> DueDatesTypeOK
    [] scene = "indicators" -> IndicatorsTypeOK
    [] scene = "tenancy"    -> TenancyTypeOK
=============================================================================
