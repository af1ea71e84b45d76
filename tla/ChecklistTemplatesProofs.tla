----------------------- MODULE ChecklistTemplatesProofs -----------------------
(***************************************************************************)
(* Proofs about ChecklistTemplates, for any templates, list lengths,       *)
(* editors and orders.                                                     *)
(***************************************************************************)
EXTENDS ChecklistTemplates, FiniteSetTheorems, WellFoundedInduction, TLAPS

(* What an editor holds: a page that is there; once it has locked the page, a target that *)
(* is the unused page, its one successor, or a successor to be made. *)
EditTidy(w) ==
  LET v == edit[w].page
      x == edit[w].target IN
  /\ InProgress(w) =>
       /\ v \in Versions /\ Stored(v)
       /\ edit[w].op # "add" => edit[w].seen > 0
  /\ x # None =>
       /\ InProgress(w) /\ templateLock[v] = w
       /\ x = Fork => Children(v) = {}
       /\ x = v => ~Locked(v)
       /\ x \in Versions \ {v} => x \in Children(v)
       /\ x \in Versions => Filled(edit[w].rows) \subseteq Filled(item[x])

EditsTidy == \A w \in Editors : EditTidy(w)

LineageTidy ==
  \A v \in Versions : Stored(v) /\ template[v].parent # None =>
    template[v].parent \in Versions \ {v} /\ Stored(template[v].parent)

CopiesTidy ==
  \A o \in Orders : snapshot[o].at # "none" =>
    /\ snapshot[o].version \in Versions /\ Stored(snapshot[o].version)
    /\ snapshot[o].at = "holds" => ~snapshot[o].form

TemplatesInv ==
  /\ TemplatesTypeOK /\ EditsTidy /\ LineageTidy /\ CopiesTidy
  /\ OnlyNewestIsLive /\ CopyIsTheVersion

(***************************************************************************)
(* Sets of numbers, rows.                                                  *)
(***************************************************************************)

(* A set of keys has a least one. *)
LEMMA LeastKey ==
  ASSUME NEW S, S \subseteq Nat, S # {}
  PROVE  \E x \in S : \A y \in S : x <= y
<1> DEFINE R == StrictSubsetOrdering(Nat)
           T == {0 .. x : x \in S}
<1>1. T \subseteq FiniteSubsetsOf(Nat) /\ T # {}
  <2>1. \A x \in S : 0 .. x \in SUBSET Nat /\ IsFiniteSet(0 .. x)
    BY FS_Interval
  <2>2. QED
    BY <2>1 DEF FiniteSubsetsOf
<1>2. PICK m \in T : \A t \in T : ~ (<<t, m>> \in R)
  <2>1. IsWellFoundedOn(R, FiniteSubsetsOf(Nat))
    BY FS_StrictSubsetOrderingWellFounded
  <2> HIDE DEF R, T
  <2>2. QED
    BY <1>1, <2>1, WFMin
<1>3. PICK x \in S : m = 0 .. x
  BY <1>2
<1>4. ASSUME NEW y \in S PROVE x <= y
  <2>1. ~ (<<0 .. y, 0 .. x>> \in R)
    BY <1>2, <1>3
  <2>2. 0 .. y \in SUBSET Nat /\ 0 .. x \in SUBSET Nat
    OBVIOUS
  <2>3. ~ (0 .. y \subseteq 0 .. x /\ 0 .. y # 0 .. x)
    BY <2>1, <2>2 DEF StrictSubsetOrdering
  <2>4. y < x => 0 .. y \subseteq 0 .. x /\ x \in 0 .. x /\ x \notin 0 .. y
    OBVIOUS
  <2>5. QED
    BY <2>3, <2>4
<1>5. QED
  BY <1>4

LEMMA ItemsFinite == Cardinality(Items) \in Nat /\ Items = 1 .. Cardinality(Items) /\ IsFiniteSet(Items)
BY TemplatesAssumption, FS_CardinalityType

LEMMA RowTypes ==
  /\ NoTemplate \in TemplateRows /\ Root \in TemplateRows
  /\ NoItem \in [order : Places, text : Texts \cup {None}] /\ NoItems \in ItemTables
  /\ NoSnapshot \in Snapshots /\ NoEdit \in Edits /\ Over \in Edits
  /\ ~NoTemplate.live /\ ~NoTemplate.active /\ NoTemplate.parent = None
  /\ Root.live /\ Root.parent = None
  /\ NoSnapshot.at = "none" /\ NoEdit.op = "none" /\ NoEdit.target = None
  /\ Over.op = "over" /\ Over.target = None
<1>1. NoItem \in [order : Places, text : Texts \cup {None}] /\ NoItems \in ItemTables
  BY ItemsFinite DEF NoItem, NoItems, ItemTables, Places
<1>2. 0 \in Places
  BY ItemsFinite DEF Places
<1>3. QED
  BY <1>1, <1>2 DEF NoTemplate, Root, TemplateRows, NoSnapshot, Snapshots, NoEdit, Edits, Over

LEMMA VersionKeys == Versions \subseteq Nat /\ Fork \notin Versions /\ None \notin Versions /\ Fork # None
<1>1. Versions \subseteq Nat /\ Fork \notin Versions /\ None \notin Nat
  BY TemplatesAssumption
<1>2. Fork \in Nat
  BY DEF Fork
<1>3. QED
  BY <1>1, <1>2

(* The key of a new version is one that is not used. *)
LEMMA NextIsUnused ==
  ASSUME Unused # {} PROVE NextVersion \in Versions /\ ~Stored(NextVersion)
<1>1. Unused \subseteq Nat
  BY VersionKeys DEF Unused
<1>2. \E v \in Unused : \A u \in Unused : v <= u
  BY <1>1, LeastKey
<1>3. QED
  BY <1>2 DEF NextVersion, Unused

LEMMA FilledFinite ==
  ASSUME NEW rows \in ItemTables
  PROVE  /\ Filled(rows) \subseteq Items /\ IsFiniteSet(Filled(rows))
         /\ Cardinality(Filled(rows)) \in Nat
<1>1. Filled(rows) \subseteq Items
  BY DEF Filled
<1>2. QED
  BY <1>1, ItemsFinite, FS_Subset, FS_CardinalityType

(***************************************************************************)
(* The first state.                                                        *)
(***************************************************************************)

LEMMA FirstTypes == First \in Versions /\ Plain \in ItemTables
<1>1. First \in Versions
  BY VersionKeys, LeastKey, TemplatesAssumption DEF First
<1>2. Original \in Texts
  BY TemplatesAssumption DEF Original
<1>3. \A i \in Items : i \in Places
  BY ItemsFinite DEF Places
<1>4. QED
  BY <1>1, <1>2, <1>3, RowTypes DEF Plain, ItemTables

LEMMA InitTemplates == TemplatesInit => TemplatesInv
<1> SUFFICES ASSUME TemplatesInit PROVE TemplatesInv
  OBVIOUS
<1>1. EditsTidy
  BY RowTypes DEF TemplatesInit, EditsTidy, EditTidy, InProgress
<1>2. CASE Fresh
  <2>1. TemplatesTypeOK
    BY <1>2, RowTypes, FirstTypes DEF TemplatesInit, Fresh, NoSnapshots, TemplatesTypeOK
  <2>2. LineageTidy /\ CopiesTidy /\ OnlyNewestIsLive /\ CopyIsTheVersion
    BY <1>2, RowTypes, VersionKeys DEF Fresh, NoSnapshots, LineageTidy, CopiesTidy, OnlyNewestIsLive,
       CopyIsTheVersion, Stored, Children
  <2>3. QED
    BY <1>1, <2>1, <2>2 DEF TemplatesInv
<1>3. ASSUME NEW o \in Orders, Succeeded(o) PROVE TemplatesInv
  <2> DEFINE old == [Root EXCEPT !.active = FALSE]
             new == [live |-> TRUE, parent |-> First, number |-> 2, active |-> TRUE]
             copy == [at |-> "done", form |-> TRUE, version |-> First, rows |-> Plain]
  <2>1. /\ template = [v \in Versions |->
              IF v = First THEN old ELSE IF v = Second THEN new ELSE NoTemplate]
        /\ item = [v \in Versions |-> IF v \in {First, Second} THEN Plain ELSE NoItems]
        /\ snapshot = [NoSnapshots EXCEPT ![o] = copy]
    BY <1>3 DEF Succeeded
  <2>2. /\ old \in TemplateRows /\ old.live /\ ~old.active /\ old.parent = None
        /\ new \in TemplateRows /\ new.live /\ new.active /\ new.parent = First
        /\ copy \in Snapshots /\ copy.at = "done" /\ copy.version = First /\ copy.rows = Plain
    BY FirstTypes, RowTypes DEF Root, TemplateRows, Snapshots
  <2> HIDE DEF old, new, copy
  <2>3. /\ snapshot[o] = copy /\ \A q \in Orders \ {o} : snapshot[q] = NoSnapshot
        /\ template[First] = old /\ item[First] = Plain
        /\ \A v \in Versions \ {First} : template[v] = IF v = Second THEN new ELSE NoTemplate
    <3>1. snapshot[o] = copy /\ \A q \in Orders \ {o} : snapshot[q] = NoSnapshot
      BY <2>1 DEF NoSnapshots
    <3>2. template[First] = old /\ item[First] = Plain
      BY <2>1, FirstTypes
    <3>3. \A v \in Versions \ {First} : template[v] = IF v = Second THEN new ELSE NoTemplate
      BY <2>1
    <3>4. QED
      BY <3>1, <3>2, <3>3
  <2>4. TemplatesTypeOK
    <3>1. template \in [Versions -> TemplateRows] /\ item \in [Versions -> ItemTables]
      BY <2>1, <2>2, RowTypes, FirstTypes
    <3>2. snapshot \in [Orders -> Snapshots]
      BY <2>1, <2>2, RowTypes DEF NoSnapshots
    <3>3. QED
      BY <3>1, <3>2, RowTypes DEF TemplatesInit, TemplatesTypeOK
  <2>5. LineageTidy /\ CopiesTidy /\ CopyIsTheVersion
    BY <2>2, <2>3, RowTypes, FirstTypes DEF LineageTidy, CopiesTidy, CopyIsTheVersion, Stored
  <2>6. OnlyNewestIsLive
    BY <2>2, <2>3, RowTypes, FirstTypes, VersionKeys DEF OnlyNewestIsLive, Stored, Children
  <2>7. QED
    BY <1>1, <2>4, <2>5, <2>6 DEF TemplatesInv
<1>4. QED
  BY <1>2, <1>3 DEF TemplatesInit

(***************************************************************************)
(* The rows an edit leaves.                                                *)
(***************************************************************************)

(* An edit of a typed list leaves a typed list, and empties no place: the places it *)
(* writes are the loaded one and those of items that are there. *)
LEMMA EditedRows ==
  ASSUME TemplatesTypeOK, NEW w \in Editors, NEW t \in Texts, EditTidy(w),
         edit[w].target # None, Fits(w)
  PROVE  /\ Edited(w, Base(w), t) \in ItemTables
         /\ Filled(Base(w)) \subseteq Filled(Edited(w, Base(w), t))
<1> DEFINE base == Base(w)
           rows == edit[w].rows
<1>1. /\ edit[w] \in Edits /\ rows \in ItemTables /\ edit[w].seen \in Places
      /\ edit[w].op \in {"add", "update", "up", "down"}
      /\ edit[w].op # "add" => edit[w].seen > 0
      /\ edit[w].target = Fork \/ edit[w].target \in Versions
  BY DEF TemplatesTypeOK, EditTidy, InProgress, Edits
<1>2. base \in ItemTables /\ Filled(rows) \subseteq Filled(base)
  BY <1>1, VersionKeys DEF Base, EditTidy, TemplatesTypeOK
<1> HIDE DEF base, rows
<1>3. \A i \in Items : /\ base[i].order \in Places /\ base[i].text \in Texts \cup {None}
                       /\ base[i] \in [order : Places, text : Texts \cup {None}]
                       /\ rows[i].order \in Places
  BY <1>1, <1>2 DEF ItemTables
<1>4. CASE edit[w].op = "add"
  <2> DEFINE free == Items \ Filled(base)
             new == CHOOSE i \in free : \A j \in free : i <= j
             place == Cardinality(Filled(rows)) + 1
  <2>1. Filled(base) # Items
    BY <1>4 DEF Fits, base
  <2>2. free # {} /\ free \subseteq Nat
    <3>1. Filled(base) \subseteq Items
      BY DEF Filled
    <3>2. \A i \in Items : i \in Nat
      <4>1. \A n : \A i \in 1 .. n : n \in Nat => i \in Nat
        OBVIOUS
      <4>2. QED
        BY <4>1, ItemsFinite
    <3>3. free # {}
      BY <2>1, <3>1
    <3>4. QED
      BY <3>2, <3>3
  <2>3. new \in free
    <3>1. \E i \in free : \A j \in free : i <= j
      <4> HIDE DEF free
      <4> QED BY <2>2, LeastKey
    <3>2. QED
      BY <3>1
  <2>4. place \in Places /\ place > 0
    <3>1. Filled(rows) \subseteq Items /\ Filled(rows) # Items
      BY <1>1, <1>2, <2>1, FilledFinite
    <3>2. Cardinality(Filled(rows)) < Cardinality(Items)
      <4>1. /\ Cardinality(Filled(rows)) <= Cardinality(Items)
            /\ Cardinality(Items) # Cardinality(Filled(rows))
        <5> DEFINE T == Filled(rows)
        <5>1. T \in SUBSET Items /\ Items # T
          BY <3>1
        <5> HIDE DEF T
        <5>2. Cardinality(T) <= Cardinality(Items) /\ (Cardinality(Items) = Cardinality(T) => Items = T)
          BY <5>1, ItemsFinite, FS_Subset
        <5>3. QED
          BY <5>1, <5>2 DEF T
      <4>2. QED
        BY <1>1, <4>1, ItemsFinite, FilledFinite
    <3>3. QED
      BY <1>1, <3>2, ItemsFinite, FilledFinite DEF Places
  <2>5. Edited(w, base, t) = [base EXCEPT ![new] = [order |-> place, text |-> t]]
    BY <1>4 DEF Edited, WithItem, rows
  <2> HIDE DEF new, place
  <2>6. new \in Items
    BY <2>3
  <2> DEFINE row == [order |-> place, text |-> t]
  <2>7. row \in [order : Places, text : Texts \cup {None}] /\ row.order > 0
    BY <2>4
  <2> HIDE DEF row
  <2>8. Edited(w, base, t) = [base EXCEPT ![new] = row]
    BY <2>5 DEF row
  <2>9. Edited(w, base, t) \in ItemTables
    BY <1>2, <2>7, <2>8 DEF ItemTables
  <2>10. \A i \in Items : i \in Filled(base) => Edited(w, base, t)[i].order > 0
    BY <1>2, <2>6, <2>7, <2>8 DEF ItemTables, Filled
  <2>11. QED
    BY <2>9, <2>10 DEF base, Filled
<1>5. CASE edit[w].op = "update"
  <2>1. Edited(w, base, t) =
          [i \in Items |-> IF i \in Subjects(w) THEN [order |-> edit[w].seen, text |-> t] ELSE base[i]]
    BY <1>5 DEF Edited, WithText
  <2>2. [order |-> edit[w].seen, text |-> t] \in [order : Places, text : Texts \cup {None}]
    BY <1>1
  <2>3. Edited(w, base, t) \in ItemTables
    BY <1>3, <2>1, <2>2 DEF ItemTables
  <2>4. \A i \in Items : i \in Filled(base) => Edited(w, base, t)[i].order > 0
    BY <1>1, <1>5, <2>1 DEF Filled
  <2>5. QED
    BY <2>3, <2>4 DEF base, Filled
<1>6. CASE edit[w].op \in {"up", "down"}
  <2> DEFINE Near(i) == NeighboursOf(rows, i, edit[w].op)
             moved(i) == CHOOSE n \in Near(i) : TRUE
             after(i) == IF \E s \in Subjects(w) : i \in Near(s)
                         THEN [base[i] EXCEPT !.order = edit[w].seen]
                         ELSE IF i \in Subjects(w) /\ Near(i) # {}
                         THEN [base[i] EXCEPT !.order = rows[moved(i)].order] ELSE base[i]
  <2>1. Edited(w, base, t) = [i \in Items |-> after(i)]
    BY <1>6 DEF Edited, WithMove, rows
  <2>2. ASSUME NEW i \in Items
        PROVE  /\ after(i) \in [order : Places, text : Texts \cup {None}]
               /\ i \in Filled(base) => after(i).order > 0
    <3>1. CASE \E s \in Subjects(w) : i \in Near(s)
      <4>1. after(i) = [base[i] EXCEPT !.order = edit[w].seen]
        BY <3>1
      <4>2. QED
        BY <1>1, <1>3, <1>6, <4>1
    <3>2. CASE ~(\E s \in Subjects(w) : i \in Near(s)) /\ i \in Subjects(w) /\ Near(i) # {}
      <4>1. moved(i) \in Filled(rows)
        BY <3>2 DEF NeighboursOf
      <4>2. rows[moved(i)].order > 0 /\ rows[moved(i)].order \in Places
        BY <1>3, <4>1 DEF Filled
      <4>3. after(i) = [base[i] EXCEPT !.order = rows[moved(i)].order]
        BY <3>2
      <4> HIDE DEF moved, after
      <4>4. QED
        BY <1>3, <4>2, <4>3
    <3>3. CASE ~(\E s \in Subjects(w) : i \in Near(s)) /\ ~(i \in Subjects(w) /\ Near(i) # {})
      <4>1. after(i) = base[i]
        BY <3>3
      <4>2. QED
        BY <1>3, <4>1 DEF Filled
    <3>4. QED
      BY <3>1, <3>2, <3>3
  <2> HIDE DEF after
  <2>3. Edited(w, base, t) \in ItemTables
    BY <2>1, <2>2 DEF ItemTables
  <2>4. \A i \in Items : i \in Filled(base) => Edited(w, base, t)[i].order > 0
    BY <2>1, <2>2
  <2>5. QED
    BY <2>3, <2>4 DEF base, Filled
<1>7. QED
  BY <1>1, <1>4, <1>5, <1>6

(***************************************************************************)
(* What a step leaves as it was.                                           *)
(***************************************************************************)

(* An editor that stands still keeps what it holds while its page's lock, and with it the *)
(* page's successors and orders, stay. *)
LEMMA EditStays ==
  ASSUME TemplatesInv, NEW u \in Editors, edit'[u] = edit[u],
         \A v \in Versions : Stored(v) => Stored(v)' /\ template'[v].parent = template[v].parent,
         \A v \in Versions : templateLock[v] = u =>
           /\ templateLock'[v] = u
           /\ Children(v) = {} => Children(v)' = {}
           /\ Locked(v)' => Locked(v),
         \A v \in Versions : Stored(v) => Filled(item[v]) \subseteq Filled(item'[v])
  PROVE  EditTidy(u)'
<1>1. EditTidy(u) /\ edit[u].target \in Versions \cup {Fork, None}
  BY DEF TemplatesInv, EditsTidy, TemplatesTypeOK, Edits
<1>2. InProgress(u)' = InProgress(u)
  BY DEF InProgress
<1>3. InProgress(u) => edit[u].page \in Versions /\ Stored(edit[u].page)' /\ Stored(edit[u].page)
  BY <1>1 DEF EditTidy
<1>4. CASE edit[u].target = None
  BY <1>1, <1>2, <1>3, <1>4 DEF EditTidy
<1>5. CASE edit[u].target # None
  <2> DEFINE v == edit[u].page
             x == edit[u].target
  <2>1. v \in Versions /\ templateLock[v] = u /\ templateLock'[v] = u
    BY <1>1, <1>3, <1>5 DEF EditTidy
  <2>2. x \in Versions \ {v} => x \in Children(v) /\ x \in Children(v)' /\ Stored(x)
    BY <1>1, <1>5 DEF EditTidy, Children
  <2>3. x \in Versions => Filled(edit[u].rows) \subseteq Filled(item'[x])
    BY <1>1, <1>3, <1>5, <2>1, <2>2 DEF EditTidy
  <2>4. x = Fork => Children(v)' = {}
    BY <1>1, <1>5, <2>1 DEF EditTidy
  <2>5. x = v => ~Locked(v)'
    BY <1>1, <1>5, <2>1 DEF EditTidy
  <2>6. QED
    BY <1>1, <1>2, <1>3, <1>5, <2>1, <2>2, <2>3, <2>4, <2>5 DEF EditTidy
<1>6. QED
  BY <1>4, <1>5

(* A new version, with its parent retired. *)
LEMMA NewVersion ==
  ASSUME TemplatesInv, NEW n \in Versions, NEW row \in TemplateRows, NEW p \in Versions \cup {None},
         row.live, row.parent = p, ~Stored(n), p # None => Stored(p) /\ Children(p) = {},
         template' \in [Versions -> TemplateRows], template'[n] = row,
         p # None => template'[p] = [template[p] EXCEPT !.active = FALSE],
         \A v \in Versions \ {n, p} : template'[v] = template[v]
  PROVE  /\ \A v \in Versions : Stored(v) => Stored(v)' /\ template'[v].parent = template[v].parent
         /\ \A v \in Versions \ {p} : Children(v)' = Children(v)
         /\ LineageTidy' /\ OnlyNewestIsLive'
<1>1. \A v \in Versions : template[v] \in TemplateRows
  BY DEF TemplatesInv, TemplatesTypeOK
<1>0. \A v \in Versions \ {n} :
        /\ template'[v].live = template[v].live /\ template'[v].parent = template[v].parent
        /\ template'[v].active => template[v].active /\ v # p
  <2>1. ASSUME NEW v \in Versions \ {n}, v = p
        PROVE  /\ template'[v].live = template[v].live /\ template'[v].parent = template[v].parent
               /\ ~template'[v].active
    <3>1. template'[v] = [template[v] EXCEPT !.active = FALSE]
      BY <2>1, VersionKeys
    <3>2. QED
      BY <1>1, <3>1 DEF TemplateRows
  <2>2. ASSUME NEW v \in Versions \ {n}, v # p PROVE template'[v] = template[v]
    BY <2>2
  <2>3. QED
    BY <2>1, <2>2
<1>2. \A v \in Versions : Stored(v) =>
        /\ Stored(v)' /\ template'[v].parent = template[v].parent
        /\ template'[v].active => template[v].active /\ v # p
  BY <1>0 DEF Stored
<1>3. \A v \in Versions \ {n} : Stored(v)' => Stored(v)
  BY <1>0 DEF Stored
<1>4. \A v \in Versions \ {p} : Children(v)' = Children(v)
  BY <1>2, <1>3 DEF Children, Stored
<1>5. LineageTidy'
  <2>1. ASSUME NEW v \in Versions, Stored(v)', template'[v].parent # None
        PROVE  /\ template'[v].parent \in Versions \ {v}
               /\ template'[template'[v].parent].live
    <3>1. CASE v = n
      BY <1>2, <2>1, <3>1 DEF Stored
    <3>2. CASE v # n
      <4>1. Stored(v) /\ template'[v].parent = template[v].parent
        BY <1>2, <1>3, <2>1, <3>2
      <4>2. template[v].parent \in Versions \ {v} /\ Stored(template[v].parent)
        BY <2>1, <4>1 DEF TemplatesInv, LineageTidy
      <4>3. QED
        BY <1>2, <4>1, <4>2 DEF Stored
    <3>3. QED
      BY <3>1, <3>2
  <2>2. QED
    BY <2>1 DEF LineageTidy, Stored
<1>6. OnlyNewestIsLive'
  <2>1. ASSUME NEW v \in Versions, template'[v].active PROVE Stored(v)' /\ Children(v)' = {}
    <3>1. CASE v = n
      <4>1. n # p
        BY VersionKeys
      <4>2. Children(n) = {}
        <5>1. ASSUME NEW c \in Versions, Stored(c), template[c].parent = n PROVE FALSE
          BY <5>1, VersionKeys DEF TemplatesInv, LineageTidy
        <5>2. QED
          BY <5>1 DEF Children
      <4>3. QED
        BY <1>4, <3>1, <4>1, <4>2 DEF Stored
    <3>2. CASE v # n
      <4>1. v # p
        BY <1>0, <2>1, <3>2
      <4>2. template[v].active /\ Stored(v) /\ Children(v) = {}
        BY <1>0, <2>1, <3>2 DEF TemplatesInv, OnlyNewestIsLive
      <4>3. QED
        BY <1>2, <1>4, <4>1, <4>2
    <3>3. QED
      BY <3>1, <3>2
  <2>2. QED
    BY <2>1 DEF OnlyNewestIsLive
<1>7. QED
  BY <1>2, <1>4, <1>5, <1>6

(* A version without a parent. *)
LEMMA NewRoot ==
  ASSUME TemplatesInv, NEW n \in Versions, ~Stored(n),
         template' \in [Versions -> TemplateRows], template'[n] = Root,
         \A v \in Versions \ {n} : template'[v] = template[v]
  PROVE  /\ \A v \in Versions : Stored(v) => Stored(v)' /\ template'[v].parent = template[v].parent
         /\ \A v \in Versions : Children(v)' = Children(v)
         /\ LineageTidy' /\ OnlyNewestIsLive'
<1>1. Root \in TemplateRows /\ Root.live /\ Root.parent = None
  BY RowTypes
<1> DEFINE row == Root
           p == None
<1>2. /\ row \in TemplateRows /\ row.live /\ row.parent = p /\ p = None
      /\ p \in Versions \cup {None} /\ template'[n] = row
      /\ \A v \in Versions \ {n, p} : template'[v] = template[v]
  BY <1>1
<1> HIDE DEF row, p
<1>3. /\ \A v \in Versions : Stored(v) => Stored(v)' /\ template'[v].parent = template[v].parent
      /\ \A v \in Versions \ {p} : Children(v)' = Children(v)
      /\ LineageTidy' /\ OnlyNewestIsLive'
  BY <1>2, NewVersion
<1>4. QED
  BY <1>2, <1>3, VersionKeys

(* The copies orders have keep, as long as the lists they show do. *)
LEMMA CopiesStay ==
  ASSUME TemplatesInv, snapshot' = snapshot,
         \A v \in Versions : Stored(v) => Stored(v)' /\ template'[v].parent = template[v].parent,
         \A v \in Versions : Locked(v) /\ template[v].parent = None => item'[v] = item[v]
  PROVE  CopiesTidy' /\ CopyIsTheVersion'
<1>1. CopiesTidy'
  BY DEF TemplatesInv, CopiesTidy
<1>2. ASSUME NEW o \in Orders, snapshot[o].at = "done", snapshot[o].form,
             template'[snapshot[o].version].parent = None
      PROVE  snapshot[o].rows = item'[snapshot[o].version]
  <2>1. snapshot[o].version \in Versions /\ Stored(snapshot[o].version)
    BY <1>2 DEF TemplatesInv, CopiesTidy
  <2>2. Locked(snapshot[o].version) /\ template[snapshot[o].version].parent = None
    BY <1>2, <2>1 DEF Locked
  <2>3. QED
    BY <1>2, <2>1, <2>2 DEF TemplatesInv, CopyIsTheVersion
<1>3. QED
  BY <1>1, <1>2 DEF CopyIsTheVersion

(***************************************************************************)
(* The steps.                                                              *)
(***************************************************************************)

LEMMA CreateTemplateTemplates ==
  ASSUME TemplatesInv, CreateTemplate
  PROVE  TemplatesInv'
<1> DEFINE n == NextVersion
<1>1. /\ n \in Versions /\ ~Stored(n) /\ template' = [template EXCEPT ![n] = Root]
      /\ UNCHANGED <<item, templateLock, snapshot, edit>>
  BY NextIsUnused DEF CreateTemplate
<1> HIDE DEF n
<1>2. /\ template' \in [Versions -> TemplateRows] /\ template'[n] = Root
      /\ \A v \in Versions \ {n} : template'[v] = template[v]
  BY <1>1, RowTypes DEF TemplatesInv, TemplatesTypeOK
<1>3. /\ \A v \in Versions : Stored(v) => Stored(v)' /\ template'[v].parent = template[v].parent
      /\ \A v \in Versions : Children(v)' = Children(v)
      /\ LineageTidy' /\ OnlyNewestIsLive'
  BY <1>1, <1>2, NewRoot
<1>4. EditsTidy'
  <2>1. \A v \in Versions : Locked(v)' = Locked(v)
    BY <1>1 DEF Locked
  <2>2. QED
    BY <1>1, <1>3, <2>1, EditStays DEF EditsTidy
<1>5. CopiesTidy' /\ CopyIsTheVersion'
  BY <1>1, <1>3, CopiesStay
<1>6. TemplatesTypeOK'
  BY <1>1, <1>2 DEF TemplatesInv, TemplatesTypeOK
<1>7. QED
  BY <1>3, <1>4, <1>5, <1>6 DEF TemplatesInv

LEMMA DuplicateTemplateTemplates ==
  ASSUME TemplatesInv, NEW u \in Versions, DuplicateTemplate(u)
  PROVE  TemplatesInv'
<1> DEFINE n == NextVersion
<1>1. /\ n \in Versions /\ ~Stored(n) /\ template' = [template EXCEPT ![n] = Root]
      /\ item' = [item EXCEPT ![n] = item[u]]
      /\ UNCHANGED <<templateLock, snapshot, edit>>
  BY NextIsUnused DEF DuplicateTemplate
<1> HIDE DEF n
<1>2. /\ template' \in [Versions -> TemplateRows] /\ template'[n] = Root
      /\ \A v \in Versions \ {n} : template'[v] = template[v] /\ item'[v] = item[v]
  BY <1>1, RowTypes DEF TemplatesInv, TemplatesTypeOK
<1>3. /\ \A v \in Versions : Stored(v) => Stored(v)' /\ template'[v].parent = template[v].parent
      /\ \A v \in Versions : Children(v)' = Children(v)
      /\ LineageTidy' /\ OnlyNewestIsLive'
  BY <1>1, <1>2, NewRoot
<1>4. \A v \in Versions : Locked(v) => Stored(v)
  BY DEF TemplatesInv, CopiesTidy, Locked
<1>5. EditsTidy'
  <2>1. \A v \in Versions : Locked(v)' = Locked(v)
    BY <1>1 DEF Locked
  <2>2. \A v \in Versions : Stored(v) => Filled(item[v]) \subseteq Filled(item'[v])
    BY <1>1, <1>2
  <2>3. QED
    BY <1>1, <1>3, <2>1, <2>2, EditStays DEF EditsTidy
<1>6. CopiesTidy' /\ CopyIsTheVersion'
  BY <1>1, <1>2, <1>3, <1>4, CopiesStay
<1>7. TemplatesTypeOK'
  BY <1>1, <1>2 DEF TemplatesInv, TemplatesTypeOK
<1>8. QED
  BY <1>3, <1>5, <1>6, <1>7 DEF TemplatesInv

LEMMA DeactivateTemplateTemplates ==
  ASSUME TemplatesInv, NEW u \in Versions, DeactivateTemplate(u)
  PROVE  TemplatesInv'
<1>1. /\ template' = [template EXCEPT ![u].active = FALSE]
      /\ UNCHANGED <<item, templateLock, snapshot, edit>>
  BY DEF DeactivateTemplate
<1>2. \A v \in Versions :
        /\ template'[v] \in TemplateRows /\ template'[v].live = template[v].live
        /\ template'[v].parent = template[v].parent
        /\ template'[v].active => template[v].active
  BY <1>1 DEF TemplatesInv, TemplatesTypeOK, TemplateRows
<1>3. \A v \in Versions : Stored(v)' = Stored(v) /\ Children(v)' = Children(v)
  BY <1>2 DEF Stored, Children
<1>4. LineageTidy'
  BY <1>2 DEF TemplatesInv, LineageTidy, Stored
<1>5. OnlyNewestIsLive'
  BY <1>2, <1>3 DEF TemplatesInv, OnlyNewestIsLive
<1>6. EditsTidy'
  <2>1. \A v \in Versions : Locked(v)' = Locked(v)
    BY <1>1 DEF Locked
  <2>2. QED
    BY <1>1, <1>2, <1>3, <2>1, EditStays DEF EditsTidy
<1>7. CopiesTidy' /\ CopyIsTheVersion'
  BY <1>1, <1>2, <1>3, CopiesStay
<1>8. TemplatesTypeOK'
  <2>1. template' \in [Versions -> TemplateRows]
    BY <1>1, <1>2 DEF TemplatesInv, TemplatesTypeOK
  <2>2. QED
    BY <1>1, <2>1 DEF TemplatesInv, TemplatesTypeOK
<1>9. QED
  BY <1>4, <1>5, <1>6, <1>7, <1>8 DEF TemplatesInv

(* A step of one editor in its own memory and on the locks it holds or takes. *)
LEMMA EditorStep ==
  ASSUME TemplatesInv, NEW w \in Editors, NEW row \in Edits, edit' = [edit EXCEPT ![w] = row],
         templateLock' \in [Versions -> Editors \cup {None}],
         \A v \in Versions : templateLock[v] \in Editors \ {w} => templateLock'[v] = templateLock[v],
         EditTidy(w)', UNCHANGED <<template, item, snapshot>>
  PROVE  TemplatesInv'
<1>1. edit'[w] = row /\ \A u \in Editors \ {w} : edit'[u] = edit[u]
  BY DEF TemplatesInv, TemplatesTypeOK
<1>2. \A v \in Versions : /\ Stored(v)' = Stored(v) /\ Children(v)' = Children(v)
                          /\ Locked(v)' = Locked(v)
  BY DEF Stored, Children, Locked
<1>3. ASSUME NEW u \in Editors \ {w} PROVE EditTidy(u)'
  BY <1>1, <1>2, EditStays
<1>4. CopiesTidy' /\ CopyIsTheVersion' /\ LineageTidy' /\ OnlyNewestIsLive'
  BY <1>2, CopiesStay DEF TemplatesInv, LineageTidy, OnlyNewestIsLive
<1>5. TemplatesTypeOK'
  BY DEF TemplatesInv, TemplatesTypeOK
<1>6. QED
  BY <1>3, <1>4, <1>5 DEF TemplatesInv, EditsTidy

LEMMA BeginEditTemplates ==
  ASSUME TemplatesInv, NEW w \in Editors, BeginEdit(w)
  PROVE  TemplatesInv'
<1>1. PICK op \in {"add", "update", "up", "down"}, v \in Versions, i \in Items : OpenEdit(w, op, v, i)
  BY DEF BeginEdit
<1> DEFINE row == [op |-> op, page |-> v, item |-> IF op = "add" THEN None ELSE i,
                   seen |-> IF op = "add" THEN 0 ELSE item[v][i].order,
                   target |-> None, rows |-> NoItems]
<1>2. /\ Stored(v) /\ (op # "add" => item[v][i].order > 0)
      /\ edit' = [edit EXCEPT ![w] = row] /\ UNCHANGED <<template, item, templateLock, snapshot>>
  BY <1>1 DEF OpenEdit
<1>3. /\ row \in Edits /\ row.op = op /\ row.page = v /\ row.target = None
      /\ op # "add" => row.seen > 0
  <2>1. item[v][i].order \in Places /\ 0 \in Places
    BY ItemsFinite DEF TemplatesInv, TemplatesTypeOK, ItemTables, Places
  <2> DEFINE loaded == IF op = "add" THEN None ELSE i
             place == IF op = "add" THEN 0 ELSE item[v][i].order
  <2>2. loaded \in Items \cup {None} /\ place \in Places /\ (op # "add" => place > 0)
    BY <1>2, <2>1
  <2>3. row = [op |-> op, page |-> v, item |-> loaded, seen |-> place, target |-> None,
               rows |-> NoItems]
    OBVIOUS
  <2> HIDE DEF loaded, place, row
  <2>4. QED
    BY <2>2, <2>3, RowTypes DEF Edits
<1> HIDE DEF row
<1>4. edit'[w] = row
  BY <1>2 DEF TemplatesInv, TemplatesTypeOK
<1>5. EditTidy(w)'
  BY <1>2, <1>3, <1>4 DEF EditTidy, Stored
<1>6. QED
  BY <1>2, <1>3, <1>5, EditorStep DEF TemplatesInv, TemplatesTypeOK

(* What get_editable_version decides under the lock. *)
LEMMA LockTemplateTemplates ==
  ASSUME TemplatesInv, NEW w \in Editors, LockTemplate(w)
  PROVE  TemplatesInv'
<1>0. PICK v : v = edit[w].page
  OBVIOUS
<1> DEFINE x == Editable(v)
           rows == item[IF x = Fork THEN v ELSE x]
           row == [edit[w] EXCEPT !.target = x, !.rows = rows]
<1>1. /\ InProgress(w) /\ edit[w].target = None /\ templateLock[v] = None
      /\ templateLock' = [templateLock EXCEPT ![v] = w]
      /\ edit' = [edit EXCEPT ![w].target = x, ![w].rows = rows]
      /\ UNCHANGED <<template, item, snapshot>>
  BY <1>0 DEF LockTemplate, Unheld
<1>2. /\ edit[w] \in Edits /\ v \in Versions /\ Stored(v)
      /\ edit[w].op # "add" => edit[w].seen > 0
  BY <1>0, <1>1 DEF TemplatesInv, TemplatesTypeOK, EditsTidy, EditTidy
<1>3. /\ x \in Versions \cup {Fork}
      /\ x = Fork => Children(v) = {}
      /\ x = v => ~Locked(v)
      /\ x \in Versions \ {v} => x \in Children(v)
  <2>1. CASE ~Locked(v)
    BY <1>2, <2>1, VersionKeys DEF Editable
  <2>2. CASE Locked(v) /\ Children(v) # {}
    <3>1. x = CHOOSE c \in Children(v) : TRUE
      BY <2>2 DEF Editable
    <3>2. x \in Children(v)
      BY <2>2, <3>1
    <3>3. x \in Versions \ {v}
      BY <3>2, <1>2, VersionKeys DEF Children, TemplatesInv, LineageTidy
    <3>4. QED
      BY <3>2, <3>3, VersionKeys
  <2>3. CASE Locked(v) /\ Children(v) = {}
    BY <1>2, <2>3, VersionKeys DEF Editable
  <2>4. QED
    BY <2>1, <2>2, <2>3
<1> HIDE DEF x
<1>4. rows \in ItemTables /\ (x \in Versions => rows = item[x])
  BY <1>2, <1>3, VersionKeys DEF TemplatesInv, TemplatesTypeOK
<1> HIDE DEF rows
<1>5. /\ row \in Edits /\ row.op = edit[w].op /\ row.page = v /\ row.seen = edit[w].seen
      /\ row.target = x /\ row.rows = rows
  BY <1>0, <1>2, <1>3, <1>4 DEF Edits
<1>6. edit'[w] = row /\ edit' = [edit EXCEPT ![w] = row]
  BY <1>1, <1>2 DEF TemplatesInv, TemplatesTypeOK, Edits
<1> HIDE DEF row
<1>7. /\ templateLock' \in [Versions -> Editors \cup {None}] /\ templateLock'[v] = w
      /\ \A u \in Versions : templateLock[u] \in Editors \ {w} => templateLock'[u] = templateLock[u]
  BY <1>1, <1>2, TemplatesAssumption DEF TemplatesInv, TemplatesTypeOK
<1>8. EditTidy(w)'
  <2>1. InProgress(w)'
    BY <1>1, <1>5, <1>6 DEF InProgress
  <2>2. Stored(v)' /\ Children(v)' = Children(v) /\ Locked(v)' = Locked(v)
    BY <1>1, <1>2 DEF Stored, Children, Locked
  <2>3. QED
    BY <1>1, <1>2, <1>3, <1>4, <1>5, <1>6, <1>7, <2>1, <2>2 DEF EditTidy
<1>9. QED
  BY <1>1, <1>5, <1>6, <1>7, <1>8, EditorStep

(* The end of a request gives its locks back, and those only. *)
LEMMA EndEditFrees ==
  ASSUME TemplatesInv, NEW w \in Editors, EndEdit(w)
  PROVE  /\ edit' = [edit EXCEPT ![w] = Over] /\ edit'[w] = Over
         /\ \A u \in Editors \ {w} : edit'[u] = edit[u]
         /\ templateLock' \in [Versions -> Editors \cup {None}]
         /\ \A v \in Versions : templateLock[v] \in Editors \ {w} => templateLock'[v] = templateLock[v]
         /\ EditTidy(w)'
<1>1. /\ edit' = [edit EXCEPT ![w] = Over] /\ edit'[w] = Over
      /\ \A u \in Editors \ {w} : edit'[u] = edit[u]
      /\ templateLock' = [v \in Versions |-> IF templateLock[v] = w THEN None ELSE templateLock[v]]
  BY DEF EndEdit, Released, TemplatesInv, TemplatesTypeOK
<1>2. EditTidy(w)'
  BY <1>1, RowTypes DEF EditTidy, InProgress
<1>3. QED
  BY <1>1, <1>2 DEF TemplatesInv, TemplatesTypeOK

LEMMA QuietEnd ==
  ASSUME TemplatesInv, NEW w \in Editors, EndEdit(w), UNCHANGED <<template, item, snapshot>>
  PROVE  TemplatesInv'
BY EndEditFrees, EditorStep, RowTypes

(* A commit in place leaves what orders show of a first version: the target is the unused *)
(* page, or it has a parent. *)
LEMMA EditInPlace ==
  ASSUME TemplatesInv, NEW w \in Editors, NEW t \in Texts, NEW x \in Versions, edit[w].target = x,
         Fits(w), EndEdit(w), item' = [item EXCEPT ![x] = Edited(w, Base(w), t)],
         UNCHANGED <<template, snapshot>>
  PROVE  TemplatesInv'
<1>1. EditTidy(w) /\ x # None /\ x # Fork /\ TemplatesTypeOK
  BY VersionKeys DEF TemplatesInv, EditsTidy
<1>2. /\ Edited(w, Base(w), t) \in ItemTables
      /\ Filled(item[x]) \subseteq Filled(Edited(w, Base(w), t))
  <2>1. Base(w) = item[x]
    BY <1>1 DEF Base
  <2>2. QED
    BY <1>1, <2>1, EditedRows
<1>3. /\ item' \in [Versions -> ItemTables] /\ item'[x] = Edited(w, Base(w), t)
      /\ \A v \in Versions \ {x} : item'[v] = item[v]
  BY <1>1, <1>2 DEF TemplatesTypeOK
<1>4. \A v \in Versions : /\ Stored(v)' = Stored(v) /\ Children(v)' = Children(v)
                          /\ Locked(v)' = Locked(v)
                          /\ Filled(item[v]) \subseteq Filled(item'[v])
  BY <1>2, <1>3 DEF Stored, Children, Locked
<1>5. Locked(x) => template[x].parent # None
  <2>1. x # edit[w].page => x \in Children(edit[w].page) /\ edit[w].page \in Versions
    BY <1>1 DEF EditTidy
  <2>2. x = edit[w].page => ~Locked(x)
    BY <1>1 DEF EditTidy
  <2>3. QED
    BY <2>1, <2>2, VersionKeys DEF Children
<1>6. ASSUME NEW u \in Editors PROVE EditTidy(u)'
  <2>1. CASE u = w
    BY <2>1, EndEditFrees
  <2>2. CASE u # w
    BY <1>4, <2>2, EndEditFrees, EditStays
  <2>3. QED
    BY <2>1, <2>2
<1>7. CopiesTidy' /\ CopyIsTheVersion' /\ LineageTidy' /\ OnlyNewestIsLive'
  <2>1. CopiesTidy' /\ CopyIsTheVersion'
    BY <1>3, <1>4, <1>5, CopiesStay
  <2>2. QED
    BY <1>4, <2>1 DEF TemplatesInv, LineageTidy, OnlyNewestIsLive
<1>8. TemplatesTypeOK'
  BY <1>1, <1>3, EndEditFrees, RowTypes DEF TemplatesTypeOK
<1>9. QED
  BY <1>6, <1>7, <1>8 DEF TemplatesInv, EditsTidy

(* A fork has the page to itself: the lock it holds lets no other editor fork it. *)
LEMMA EditForks ==
  ASSUME TemplatesInv, NEW w \in Editors, NEW t \in Texts, edit[w].target = Fork,
         Fits(w), EndEdit(w), template' = Forked(edit[w].page),
         item' = [item EXCEPT ![NextVersion] = Edited(w, Base(w), t)], snapshot' = snapshot
  PROVE  TemplatesInv'
<1>0. PICK p : p = edit[w].page
  OBVIOUS
<1>1. /\ EditTidy(w) /\ TemplatesTypeOK /\ edit[w].target # None
      /\ p \in Versions /\ Stored(p) /\ Children(p) = {} /\ templateLock[p] = w
  BY <1>0, VersionKeys DEF TemplatesInv, EditsTidy, EditTidy
<1> DEFINE row == [live |-> TRUE, parent |-> p, number |-> template[p].number + 1, active |-> TRUE]
<1>2. PICK n \in Versions : n = NextVersion /\ ~Stored(n)
  BY NextIsUnused DEF Fits
<1>3. /\ template' = [template EXCEPT ![n] = row, ![p].active = FALSE]
      /\ item' = [item EXCEPT ![n] = Edited(w, Base(w), t)]
  BY <1>0, <1>2 DEF Forked
<1>4. row \in TemplateRows /\ row.live /\ row.parent = p
  BY <1>1 DEF TemplatesTypeOK, TemplateRows
<1> HIDE DEF row
<1>5. Edited(w, Base(w), t) \in ItemTables
  BY <1>1, EditedRows
<1>6. /\ item' \in [Versions -> ItemTables]
      /\ \A v \in Versions \ {n} : item'[v] = item[v]
  <2>1. item \in [Versions -> ItemTables]
    BY <1>1 DEF TemplatesTypeOK
  <2>2. PICK rows \in ItemTables : rows = Edited(w, Base(w), t)
    BY <1>5
  <2>3. item' = [item EXCEPT ![n] = rows]
    BY <1>3, <2>2
  <2>4. QED
    BY <2>1, <2>3
<1>7. /\ template' \in [Versions -> TemplateRows] /\ template'[n] = row
      /\ template'[p] = [template[p] EXCEPT !.active = FALSE]
      /\ \A v \in Versions \ {n, p} : template'[v] = template[v]
  <2>1. n # p
    BY <1>1, <1>2
  <2> DEFINE mid == [template EXCEPT ![n] = row]
             old == [template[p] EXCEPT !.active = FALSE]
  <2>2. old \in TemplateRows
    BY <1>1 DEF TemplatesTypeOK, TemplateRows
  <2>3. /\ mid \in [Versions -> TemplateRows] /\ mid[n] = row
        /\ \A v \in Versions \ {n} : mid[v] = template[v]
    BY <1>1, <1>4 DEF TemplatesTypeOK
  <2>4. template' = [mid EXCEPT ![p] = old]
    BY <1>1, <1>3, <2>1 DEF TemplatesTypeOK
  <2> HIDE DEF mid, old
  <2>5. QED
    BY <1>1, <2>1, <2>2, <2>3, <2>4 DEF old
<1>8. /\ \A v \in Versions : Stored(v) => Stored(v)' /\ template'[v].parent = template[v].parent
      /\ \A v \in Versions \ {p} : Children(v)' = Children(v)
      /\ LineageTidy' /\ OnlyNewestIsLive'
  BY <1>1, <1>2, <1>4, <1>7, NewVersion
<1>9. \A v \in Versions : Locked(v)' = Locked(v) /\ (Locked(v) => Stored(v))
  BY DEF Locked, TemplatesInv, CopiesTidy
<1>10. ASSUME NEW u \in Editors PROVE EditTidy(u)'
  <2>1. CASE u = w
    BY <2>1, EndEditFrees
  <2>2. CASE u # w
    <3>1. edit'[u] = edit[u]
      BY <2>2, EndEditFrees
    <3>2. \A v \in Versions : templateLock[v] = u =>
            templateLock'[v] = u /\ (Children(v) = {} => Children(v)' = {}) /\ (Locked(v)' => Locked(v))
      BY <1>1, <1>8, <1>9, <2>2, EndEditFrees
    <3>3. \A v \in Versions : Stored(v) => Filled(item[v]) \subseteq Filled(item'[v])
      BY <1>2, <1>6
    <3>4. QED
      BY <1>8, <3>1, <3>2, <3>3, EditStays
  <2>3. QED
    BY <2>1, <2>2
<1>11. CopiesTidy' /\ CopyIsTheVersion'
  BY <1>2, <1>6, <1>8, <1>9, CopiesStay
<1>12. TemplatesTypeOK'
  BY <1>1, <1>6, <1>7, EndEditFrees, RowTypes DEF TemplatesTypeOK
<1>13. QED
  BY <1>8, <1>10, <1>11, <1>12 DEF TemplatesInv, EditsTidy

LEMMA CommitEditTemplates ==
  ASSUME TemplatesInv, NEW w \in Editors, NEW t \in Texts, CommitEdit(w, t)
  PROVE  TemplatesInv'
<1>1. edit[w].target # None /\ Fits(w) /\ EndEdit(w) /\ snapshot' = snapshot
  BY DEF CommitEdit
<1>2. CASE UNCHANGED <<template, item>>
  BY <1>1, <1>2, QuietEnd
<1>3. CASE /\ edit[w].target = Fork /\ template' = Forked(edit[w].page)
           /\ item' = [item EXCEPT ![NextVersion] = Edited(w, Base(w), t)]
  BY <1>1, <1>3, EditForks
<1>4. CASE /\ edit[w].target # Fork /\ template' = template
           /\ item' = [item EXCEPT ![edit[w].target] = Edited(w, Base(w), t)]
  <2>1. edit[w].target \in Versions
    BY <1>1, <1>4 DEF TemplatesInv, TemplatesTypeOK, Edits
  <2>2. QED
    BY <1>1, <1>4, <2>1, EditInPlace
<1>5. QED
  BY <1>2, <1>3, <1>4 DEF CommitEdit

(* A step of one order.  It names a version that no editor holds, or one that is *)
(* named already. *)
LEMMA SnapshotStep ==
  ASSUME TemplatesInv, NEW o \in Orders, NEW row \in Snapshots,
         snapshot' = [snapshot EXCEPT ![o] = row],
         row.at # "none" => row.version \in Versions /\ Stored(row.version),
         row.at = "holds" => ~row.form,
         row.at = "done" /\ row.form => row.rows = item[row.version],
         row.at \in {"names", "done"} => templateLock[row.version] = None \/ Locked(row.version),
         UNCHANGED <<template, item, templateLock, edit>>
  PROVE  TemplatesInv'
<1>1. snapshot'[o] = row /\ \A q \in Orders \ {o} : snapshot'[q] = snapshot[q]
  BY DEF TemplatesInv, TemplatesTypeOK
<1>2. \A v \in Versions : Stored(v)' = Stored(v) /\ Children(v)' = Children(v)
  BY DEF Stored, Children
<1>3. ASSUME NEW v \in Versions, Locked(v)', ~Locked(v) PROVE templateLock[v] = None
  <2>1. PICK q \in Orders : snapshot'[q].at \in {"names", "done"} /\ snapshot'[q].version = v
    BY <1>3 DEF Locked
  <2>2. q = o
    BY <1>1, <1>3, <2>1 DEF Locked
  <2>3. QED
    BY <1>1, <1>3, <2>1, <2>2
<1>4. EditsTidy'
  <2>1. ASSUME NEW u \in Editors PROVE EditTidy(u)'
    <3>1. \A v \in Versions : templateLock[v] = u => (Locked(v)' => Locked(v))
      BY <1>3, TemplatesAssumption
    <3>2. QED
      BY <1>2, <3>1, EditStays
  <2>2. QED
    BY <2>1 DEF EditsTidy
<1>5. CopiesTidy' /\ CopyIsTheVersion'
  BY <1>1, <1>2 DEF TemplatesInv, CopiesTidy, CopyIsTheVersion
<1>6. LineageTidy' /\ OnlyNewestIsLive'
  BY <1>2 DEF TemplatesInv, LineageTidy, OnlyNewestIsLive
<1>7. TemplatesTypeOK'
  BY DEF TemplatesInv, TemplatesTypeOK
<1>8. QED
  BY <1>4, <1>5, <1>6, <1>7 DEF TemplatesInv

LEMMA NameTemplateTemplates ==
  ASSUME TemplatesInv, NEW o \in Orders, NEW v \in Versions, NameTemplate(o, v)
  PROVE  TemplatesInv'
<1> DEFINE row == [at |-> "names", form |-> TRUE, version |-> v, rows |-> NoItems]
<1>1. /\ Stored(v) /\ templateLock[v] = None /\ snapshot' = [snapshot EXCEPT ![o] = row]
      /\ UNCHANGED <<template, item, templateLock, edit>>
  BY DEF NameTemplate, Unheld
<1>2. row \in Snapshots /\ row.at = "names" /\ row.version = v
  BY RowTypes DEF Snapshots
<1> HIDE DEF row
<1>3. QED
  BY <1>1, <1>2, SnapshotStep

LEMMA CopyNamedTemplates ==
  ASSUME TemplatesInv, NEW o \in Orders, CopyNamed(o)
  PROVE  TemplatesInv'
<1> DEFINE v == snapshot[o].version
           row == [snapshot[o] EXCEPT !.at = "done", !.rows = item[v]]
<1>1. /\ snapshot[o].at = "names"
      /\ snapshot' = [snapshot EXCEPT ![o].at = "done", ![o].rows = item[v]]
      /\ UNCHANGED <<template, item, templateLock, edit>>
  BY DEF CopyNamed
<1>2. snapshot[o] \in Snapshots /\ v \in Versions /\ Stored(v) /\ Locked(v) /\ item[v] \in ItemTables
  BY <1>1 DEF TemplatesInv, TemplatesTypeOK, CopiesTidy, Locked
<1>3. row \in Snapshots /\ row.at = "done" /\ row.version = v /\ row.rows = item[v]
  BY <1>2 DEF Snapshots
<1>4. snapshot' = [snapshot EXCEPT ![o] = row]
  BY <1>1, <1>2 DEF TemplatesInv, TemplatesTypeOK, Snapshots
<1> HIDE DEF row
<1>5. QED
  BY <1>1, <1>2, <1>3, <1>4, SnapshotStep

LEMMA CopyResolvedTemplates ==
  ASSUME TemplatesInv, NEW o \in Orders, NEW v \in Versions, CopyResolved(o, v)
  PROVE  TemplatesInv'
<1>1. PICK u \in Resolvable(v) :
        snapshot' = [snapshot EXCEPT ![o] =
                      [at |-> "holds", form |-> FALSE, version |-> u, rows |-> item[u]]]
  BY DEF CopyResolved
<1>2. u \in Versions /\ Stored(u)
  BY DEF Resolvable, TemplatesInv, OnlyNewestIsLive
<1> DEFINE row == [at |-> "holds", form |-> FALSE, version |-> u, rows |-> item[u]]
<1>3. row \in Snapshots /\ row.at = "holds" /\ row.version = u /\ ~row.form
  BY <1>2 DEF Snapshots, TemplatesInv, TemplatesTypeOK
<1>4. snapshot' = [snapshot EXCEPT ![o] = row] /\ UNCHANGED <<template, item, templateLock, edit>>
  BY <1>1 DEF CopyResolved
<1> HIDE DEF row
<1>5. QED
  BY <1>2, <1>3, <1>4, SnapshotStep

LEMMA CommitResolvedTemplates ==
  ASSUME TemplatesInv, NEW o \in Orders, CommitResolved(o)
  PROVE  TemplatesInv'
<1> DEFINE row == [snapshot[o] EXCEPT !.at = "done"]
<1>1. /\ snapshot[o].at = "holds" /\ templateLock[snapshot[o].version] = None
      /\ snapshot' = [snapshot EXCEPT ![o].at = "done"]
      /\ UNCHANGED <<template, item, templateLock, edit>>
  BY DEF CommitResolved, Unheld
<1>2. /\ snapshot[o] \in Snapshots /\ ~snapshot[o].form
      /\ snapshot[o].version \in Versions /\ Stored(snapshot[o].version)
  BY <1>1 DEF TemplatesInv, TemplatesTypeOK, CopiesTidy
<1>3. /\ row \in Snapshots /\ row.at = "done" /\ row.version = snapshot[o].version /\ ~row.form
      /\ snapshot' = [snapshot EXCEPT ![o] = row]
  BY <1>1, <1>2 DEF Snapshots
<1> HIDE DEF row
<1>4. QED
  BY <1>1, <1>2, <1>3, SnapshotStep

LEMMA CrashResolvedTemplates ==
  ASSUME TemplatesInv, NEW o \in Orders, CrashResolved(o)
  PROVE  TemplatesInv'
BY RowTypes, SnapshotStep DEF CrashResolved

LEMMA StepTemplates == TemplatesInv /\ [TemplatesNext]_templatesVars => TemplatesInv'
<1> SUFFICES ASSUME TemplatesInv, [TemplatesNext]_templatesVars PROVE TemplatesInv'
  OBVIOUS
<1>1. CASE CreateTemplate
  BY <1>1, CreateTemplateTemplates
<1>2. ASSUME NEW v \in Versions, DuplicateTemplate(v) \/ DeactivateTemplate(v) PROVE TemplatesInv'
  BY <1>2, DuplicateTemplateTemplates, DeactivateTemplateTemplates
<1>3. ASSUME NEW w \in Editors, BeginEdit(w) \/ LockTemplate(w) PROVE TemplatesInv'
  BY <1>3, BeginEditTemplates, LockTemplateTemplates
<1>4. ASSUME NEW w \in Editors, BeyondBounds(w) \/ CrashEdit(w) PROVE TemplatesInv'
  BY <1>4, QuietEnd DEF BeyondBounds, CrashEdit
<1>5. ASSUME NEW w \in Editors, NEW t \in Texts, CommitEdit(w, t) PROVE TemplatesInv'
  BY <1>5, CommitEditTemplates
<1>6. ASSUME NEW o \in Orders, CopyNamed(o) \/ CommitResolved(o) \/ CrashResolved(o)
      PROVE  TemplatesInv'
  BY <1>6, CopyNamedTemplates, CommitResolvedTemplates, CrashResolvedTemplates
<1>7. ASSUME NEW o \in Orders, NEW v \in Versions, NameTemplate(o, v) \/ CopyResolved(o, v)
      PROVE  TemplatesInv'
  BY <1>7, NameTemplateTemplates, CopyResolvedTemplates
<1>8. CASE UNCHANGED templatesVars
  <2>1. UNCHANGED <<template, item, templateLock, snapshot, edit>>
    BY <1>8 DEF templatesVars
  <2>2. \A v \in Versions : /\ Stored(v)' = Stored(v) /\ Children(v)' = Children(v)
                            /\ Locked(v)' = Locked(v)
    BY <2>1 DEF Stored, Children, Locked
  <2>3. EditsTidy'
    BY <2>1, <2>2, EditStays DEF EditsTidy
  <2>4. CopiesTidy' /\ CopyIsTheVersion' /\ LineageTidy' /\ OnlyNewestIsLive'
    BY <2>1, <2>2, CopiesStay DEF TemplatesInv, LineageTidy, OnlyNewestIsLive
  <2>5. TemplatesTypeOK'
    BY <2>1 DEF TemplatesInv, TemplatesTypeOK
  <2>6. QED
    BY <2>3, <2>4, <2>5 DEF TemplatesInv
<1>9. QED
  BY <1>1, <1>2, <1>3, <1>4, <1>5, <1>6, <1>7, <1>8 DEF TemplatesNext, EditStep

LEMMA TemplatesInvHolds == TemplatesSpec => []TemplatesInv
BY InitTemplates, StepTemplates, PTL DEF TemplatesSpec

(***************************************************************************)
(* Results.                                                                *)
(***************************************************************************)

(* The columns keep their types: a new item always has a place that the list has, *)
(* although its place was computed from rows read earlier (add_item). *)
THEOREM TypesHold == TemplatesSpec => []TemplatesTypeOK
<1>1. TemplatesInv => TemplatesTypeOK
  BY DEF TemplatesInv
<1>2. QED
  BY <1>1, TemplatesInvHolds, PTL

(* A version that was forked is never active again, so a lineage has one live version *)
(* (get_editable_version, deactivate_template, resolve_checklist_template). *)
THEOREM OnlyNewestHolds == TemplatesSpec => []OnlyNewestIsLive
<1>1. TemplatesInv => OnlyNewestIsLive
  BY DEF TemplatesInv
<1>2. QED
  BY <1>1, TemplatesInvHolds, PTL

(* Nobody forks a version twice: the row lock is enough, and UNIQUE(parent) never needed *)
(* (get_editable_version). *)
THEOREM ForksHold == TemplatesSpec => []ForkMeetsNoFork
<1>1. TemplatesInv => ForkMeetsNoFork
  BY VersionKeys DEF TemplatesInv, EditsTidy, EditTidy, ForkMeetsNoFork
<1>2. QED
  BY <1>1, TemplatesInvHolds, PTL

(* The corrective order that names a first version shows it for ever, although it copies *)
(* after its commit and without a lock (corrective_create, snapshot_checklist). *)
THEOREM CopiesHold == TemplatesSpec => []CopyIsTheVersion
<1>1. TemplatesInv => CopyIsTheVersion
  BY DEF TemplatesInv
<1>2. QED
  BY <1>1, TemplatesInvHolds, PTL

(* What a step does to the items of a used version. *)
LockedStep ==
  \A v \in Versions :
    Locked(v) /\ item'[v] # item[v] =>
      \E w \in Editors : edit[w].target = v /\ edit[w].page = template[v].parent

LEMMA LockedSteps == TemplatesInv /\ [TemplatesNext]_templatesVars => LockedStep
<1> SUFFICES ASSUME TemplatesInv, [TemplatesNext]_templatesVars, NEW v \in Versions,
                    Locked(v), item'[v] # item[v]
             PROVE  \E w \in Editors : edit[w].target = v /\ edit[w].page = template[v].parent
  BY DEF LockedStep
<1>1. Stored(v) /\ item \in [Versions -> ItemTables]
  BY DEF TemplatesInv, CopiesTidy, Locked, TemplatesTypeOK
<1>2. ASSUME NEW u \in Versions, DuplicateTemplate(u) PROVE FALSE
  <2>1. NextVersion # v /\ item' = [item EXCEPT ![NextVersion] = item[u]]
    BY <1>1, <1>2, NextIsUnused DEF DuplicateTemplate
  <2>2. QED
    BY <1>1, <2>1
<1>3. ASSUME NEW w \in Editors, NEW t \in Texts, CommitEdit(w, t)
      PROVE  edit[w].target = v /\ edit[w].page = template[v].parent
  <2>1. EditTidy(w) /\ edit[w].target # None /\ Fits(w)
    BY <1>3 DEF TemplatesInv, EditsTidy, CommitEdit
  <2>2. edit[w].target # Fork
    <3>1. SUFFICES ASSUME edit[w].target = Fork PROVE FALSE
      OBVIOUS
    <3>2. NextVersion # v
      BY <1>1, <2>1, <3>1, NextIsUnused DEF Fits
    <3>3. item' = item \/ item' = [item EXCEPT ![NextVersion] = Edited(w, Base(w), t)]
      BY <1>3, <3>1 DEF CommitEdit
    <3>4. QED
      BY <1>1, <3>2, <3>3
  <2>3. item' = item \/ item' = [item EXCEPT ![edit[w].target] = Edited(w, Base(w), t)]
    BY <1>3, <2>2 DEF CommitEdit
  <2>4. edit[w].target = v
    BY <1>1, <2>3
  <2>5. v \in Children(edit[w].page)
    BY <2>1, <2>4 DEF EditTidy
  <2>6. QED
    BY <2>4, <2>5 DEF Children
<1>4. QED
  BY <1>2, <1>3 DEF TemplatesNext, EditStep, CreateTemplate, DeactivateTemplate, BeginEdit, OpenEdit,
     LockTemplate, BeyondBounds, CrashEdit, CopyNamed, CommitResolved, CrashResolved, NameTemplate,
     CopyResolved, templatesVars

(* The items of a version that orders use change only by way of its parent's page: the *)
(* one way that get_editable_version leaves open. *)
THEOREM LockedHolds == TemplatesSpec => LockedOnlyThroughParent
<1>1. TemplatesInv /\ [TemplatesNext]_templatesVars => [LockedStep]_templatesVars
  BY LockedSteps
<1>2. TemplatesSpec => [][LockedStep]_templatesVars
  BY <1>1, TemplatesInvHolds, PTL DEF TemplatesSpec
<1>3. QED
  BY <1>2 DEF LockedOnlyThroughParent, LockedStep

(***************************************************************************)
(* The places of the items.                                                *)
(***************************************************************************)

(* The places of a list are 1, 2, .. n. *)
Dense(rows) == {rows[i].order : i \in Filled(rows)} = 1 .. Cardinality(Filled(rows))

(* The item an editor loaded is still in the list of its page, and the place it saw is a *)
(* place of that list; the rows it read under the lock are a whole list. *)
SeenTidy(w) ==
  InProgress(w) =>
    /\ edit[w].op # "add" =>
         LET filled == Filled(item[edit[w].page])
         IN edit[w].item \in filled /\ edit[w].seen \in 1 .. Cardinality(filled)
    /\ edit[w].target # None => Dense(edit[w].rows)

PlacesInv ==
  /\ \A v \in Versions : Dense(item[v])
  /\ \A w \in Editors : SeenTidy(w)

(* A list of n items that all stand at 1 .. n, in different places, has no gap: what the *)
(* unique constraint leaves to be proved is that no place is beyond the list. *)
LEMMA NoClashIsDense ==
  ASSUME NEW rows \in ItemTables, ~Clash(rows),
         \A i \in Filled(rows) : rows[i].order \in 1 .. Cardinality(Filled(rows))
  PROVE  Dense(rows)
<1> DEFINE S == Filled(rows)
           n == Cardinality(S)
           f == [i \in S |-> rows[i].order]
<1>1. IsFiniteSet(S) /\ n \in Nat
  BY FilledFinite
<1>2. f \in [S -> 1 .. n] /\ \A i \in S : f[i] = rows[i].order
  OBVIOUS
<1>3. \A i, j \in S : i # j => f[i] # f[j]
  BY <1>2 DEF Clash
<1> HIDE DEF S, n, f
<1>4. f \in Injection(S, 1 .. n)
  BY <1>2, <1>3 DEF Injection, IsInjective
<1>5. IsFiniteSet(1 .. n) /\ Cardinality(1 .. n) = n
  BY <1>1, FS_Interval
<1>6. f \in Surjection(S, 1 .. n)
  BY <1>4, <1>5, FS_Injection DEF n
<1>7. {f[i] : i \in S} = 1 .. n
  BY <1>2, <1>6 DEF Surjection
<1>8. QED
  BY <1>2, <1>7 DEF Dense, S, n

LEMMA DensePlaces ==
  ASSUME NEW rows \in ItemTables, Dense(rows), NEW i \in Filled(rows)
  PROVE  rows[i].order \in 1 .. Cardinality(Filled(rows))
BY DEF Dense

LEMMA MoreItems ==
  ASSUME NEW some \in ItemTables, NEW all \in ItemTables, Filled(some) \subseteq Filled(all)
  PROVE  /\ Cardinality(Filled(some)) \in Nat /\ Cardinality(Filled(all)) \in Nat
         /\ Cardinality(Filled(some)) <= Cardinality(Filled(all))
BY FilledFinite, FS_Subset

LEMMA InitPlaces == TemplatesInit => PlacesInv
<1> SUFFICES ASSUME TemplatesInit PROVE PlacesInv
  OBVIOUS
<1>1. Dense(NoItems)
  <2>1. Filled(NoItems) = {}
    BY DEF Filled, NoItems, NoItem
  <2>2. Cardinality(Filled(NoItems)) = 0
    BY <2>1, FS_EmptySet
  <2>3. QED
    BY <2>1, <2>2 DEF Dense
<1>2. Dense(Plain)
  <2>1. Plain \in ItemTables
    BY FirstTypes
  <2>2. PICK m \in Nat : \A i \in Nat : i \in 1 .. m <=> i \in Items /\ i <= 2
    <3>1. CASE Cardinality(Items) <= 2
      BY <3>1, ItemsFinite
    <3>2. CASE Cardinality(Items) > 2
      BY <3>2, ItemsFinite
    <3>3. QED
      BY <3>1, <3>2, ItemsFinite
  <2>3. Items \subseteq Nat
    <3>1. \A n : n \in Nat => 1 .. n \subseteq Nat
      OBVIOUS
    <3>2. QED
      BY <3>1, ItemsFinite
  <2>4. \A i \in Items : Plain[i].order = IF i <= 2 THEN i ELSE 0
    BY DEF Plain, NoItem
  <2>5. Filled(Plain) = 1 .. m
    <3>1. \A i \in Items : i \in Filled(Plain) <=> i <= 2
      <4>1. \A i \in Items : i > 0
        BY ItemsFinite
      <4>2. QED
        BY <2>3, <2>4, <4>1 DEF Filled
    <3>2. \A i : i \in Filled(Plain) <=> i \in 1 .. m
      <4>1. Filled(Plain) \subseteq Items /\ 1 .. m \subseteq Nat
        BY DEF Filled
      <4>2. \A i \in Nat : i \in Filled(Plain) <=> i \in 1 .. m
        BY <2>2, <3>1, <4>1
      <4>3. QED
        BY <2>3, <4>1, <4>2
    <3>3. QED
      BY <3>2
  <2>6. Cardinality(Filled(Plain)) = m
    BY <2>5, FS_Interval
  <2>7. \A i \in Filled(Plain) : Plain[i].order = i
    BY <2>2, <2>4, <2>5 DEF Filled
  <2>8. QED
    BY <2>5, <2>6, <2>7 DEF Dense
<1>3. \A v \in Versions : item[v] = Plain \/ item[v] = NoItems
  BY DEF TemplatesInit, Fresh, Succeeded
<1>4. \A w \in Editors : ~InProgress(w)
  BY DEF TemplatesInit, InProgress, NoEdit
<1>5. QED
  BY <1>1, <1>2, <1>3, <1>4 DEF PlacesInv, SeenTidy

(* An editor that stands still keeps what it saw: lists only grow. *)
LEMMA SeenStays ==
  ASSUME TemplatesInv, TemplatesTypeOK', NEW u \in Editors, SeenTidy(u), edit'[u] = edit[u],
         \A v \in Versions : Stored(v) => Filled(item[v]) \subseteq Filled(item'[v])
  PROVE  SeenTidy(u)'
<1>1. InProgress(u)' = InProgress(u)
  BY DEF InProgress
<1>2. ASSUME InProgress(u), edit[u].op # "add"
      PROVE  LET filled == Filled(item'[edit[u].page])
             IN edit[u].item \in filled /\ edit[u].seen \in 1 .. Cardinality(filled)
  <2>1. PICK v : v = edit[u].page
    OBVIOUS
  <2>2. v \in Versions /\ Stored(v)
    BY <1>2, <2>1 DEF TemplatesInv, EditsTidy, EditTidy
  <2>3. item[v] \in ItemTables /\ item'[v] \in ItemTables /\ Filled(item[v]) \subseteq Filled(item'[v])
    BY <2>2 DEF TemplatesInv, TemplatesTypeOK
  <2>4. edit[u].item \in Filled(item[v]) /\ edit[u].seen \in 1 .. Cardinality(Filled(item[v]))
    BY <1>2, <2>1 DEF SeenTidy
  <2>5. QED
    BY <2>1, <2>3, <2>4, MoreItems
<1>3. QED
  BY <1>1, <1>2 DEF SeenTidy

(* The items an edit is about are in the list it writes, and so is the place it saw. *)
LEMMA SubjectsAreThere ==
  ASSUME TemplatesInv, PlacesInv, NEW w \in Editors, edit[w].target # None, edit[w].op # "add"
  PROVE  /\ Subjects(w) \subseteq Filled(Base(w))
         /\ Subjects(w) # {} => edit[w].seen \in 1 .. Cardinality(Filled(Base(w)))
<1> DEFINE rows == edit[w].rows
           base == Base(w)
<1>1. EditTidy(w) /\ SeenTidy(w) /\ InProgress(w) /\ edit[w] \in Edits
  BY DEF TemplatesInv, TemplatesTypeOK, EditsTidy, EditTidy, PlacesInv
<1>2. /\ edit[w].page \in Versions /\ rows \in ItemTables /\ edit[w].seen > 0
      /\ edit[w].target \in Versions \cup {Fork}
  BY <1>1 DEF EditTidy, Edits
<1>3. CASE edit[w].target = edit[w].page
  <2>1. base = item[edit[w].page] /\ Subjects(w) = {edit[w].item}
    BY <1>2, <1>3, VersionKeys DEF Base, Subjects
  <2>2. QED
    BY <1>1, <2>1 DEF SeenTidy
<1>4. CASE edit[w].target # edit[w].page
  <2>1. base \in ItemTables /\ Filled(rows) \subseteq Filled(base)
    BY <1>1, <1>2, VersionKeys DEF Base, EditTidy, TemplatesInv, TemplatesTypeOK
  <2>2. ASSUME NEW i \in Subjects(w)
        PROVE  i \in Filled(rows) /\ edit[w].seen = rows[i].order
    BY <1>2, <1>4 DEF Subjects, Filled
  <2>3. \A i \in Filled(rows) : rows[i].order \in 1 .. Cardinality(Filled(rows))
    BY <1>1, <1>2, DensePlaces DEF SeenTidy
  <2>4. /\ Cardinality(Filled(rows)) \in Nat /\ Cardinality(Filled(base)) \in Nat
        /\ Cardinality(Filled(rows)) <= Cardinality(Filled(base))
    BY <1>2, <2>1, MoreItems
  <2>5. ASSUME NEW i \in Subjects(w) PROVE edit[w].seen \in 1 .. Cardinality(Filled(base))
    BY <2>2, <2>3, <2>4
  <2>6. QED
    BY <2>1, <2>2, <2>5
<1>5. QED
  BY <1>3, <1>4

(* What an edit leaves on its target is a list without gaps, unless it fails. *)
LEMMA EditedIsDense ==
  ASSUME TemplatesInv, PlacesInv, NEW w \in Editors, NEW t \in Texts,
         edit[w].target # None, Fits(w), ~Clash(Edited(w, Base(w), t))
  PROVE  Dense(Edited(w, Base(w), t))
<1> DEFINE base == Base(w)
           rows == edit[w].rows
           edited == Edited(w, Base(w), t)
           F == Filled(base)
           m == Cardinality(Filled(base))
           k == Cardinality(Filled(rows))
<1>1. /\ TemplatesTypeOK /\ EditTidy(w) /\ SeenTidy(w) /\ InProgress(w) /\ edit[w] \in Edits
      /\ rows \in ItemTables /\ edit[w].op \in {"add", "update", "up", "down"}
      /\ edit[w].target \in Versions \cup {Fork}
  BY DEF TemplatesInv, TemplatesTypeOK, EditsTidy, EditTidy, PlacesInv, InProgress, Edits
<1>2. base \in ItemTables /\ Filled(rows) \subseteq F /\ Dense(rows) /\ Dense(base)
  BY <1>1, VersionKeys DEF Base, EditTidy, SeenTidy, PlacesInv, TemplatesTypeOK
<1>3. edited \in ItemTables /\ F \subseteq Filled(edited)
  BY <1>1, EditedRows
<1>4. k \in Nat /\ m \in Nat /\ k <= m
  BY <1>1, <1>2, MoreItems
<1>5. /\ \A i \in F : base[i].order \in 1 .. m
      /\ \A i \in Filled(rows) : rows[i].order \in 1 .. k /\ rows[i].order \in 1 .. m
  BY <1>1, <1>2, <1>4, DensePlaces
<1> HIDE DEF base, rows, edited, m, k, F
<1>6. ASSUME Filled(edited) \subseteq F, \A i \in F : edited[i].order \in 1 .. m
      PROVE  Dense(edited)
  <2>1. Filled(edited) = F
    BY <1>3, <1>6
  <2>2. \A i \in Filled(edited) : edited[i].order \in 1 .. Cardinality(Filled(edited))
    BY <1>6, <2>1 DEF m, F
  <2>3. QED
    BY <1>3, <2>2, NoClashIsDense DEF edited
<1>7. CASE edit[w].op = "add"
  <2> DEFINE free == Items \ Filled(base)
             new == CHOOSE i \in free : \A j \in free : i <= j
  <2>1. new \in Items \ F
    <3>1. free # {} /\ free \subseteq Nat
      <4>1. \A n : \A i \in 1 .. n : n \in Nat => i \in Nat
        OBVIOUS
      <4>2. Filled(base) # Items /\ Filled(base) \subseteq Items
        BY <1>7 DEF Fits, base, Filled
      <4>3. QED
        BY <4>1, <4>2, ItemsFinite
    <3>2. \E i \in free : \A j \in free : i <= j
      <4> HIDE DEF free
      <4> QED BY <3>1, LeastKey
    <3>3. QED
      BY <3>2 DEF F
  <2>2. edited = [base EXCEPT ![new] = [order |-> k + 1, text |-> t]]
    BY <1>7 DEF Edited, WithItem, edited, base, rows, k
  <2> HIDE DEF new
  <2>3. /\ \A i \in F : edited[i].order \in 1 .. m /\ edited[i].order > 0
        /\ edited[new].order = k + 1
        /\ \A i \in Items \ {new} : edited[i] = base[i]
    BY <1>2, <1>5, <2>1, <2>2 DEF ItemTables, F
  <2>4. Filled(edited) = F \cup {new}
    <3>1. \A i \in Items : i \in Filled(edited) <=> i \in F \/ i = new
      BY <1>4, <2>1, <2>3 DEF Filled, F
    <3>2. QED
      BY <2>1, <3>1 DEF Filled, F
  <2>5. Cardinality(Filled(edited)) = m + 1
    <3>1. IsFiniteSet(F) /\ m = Cardinality(F)
      BY <1>2, FilledFinite DEF F, m
    <3>2. Cardinality(F \cup {new}) = m + 1
      BY <2>1, <3>1, FS_AddElement
    <3>3. QED
      BY <2>4, <3>2
  <2>6. \A i \in Filled(edited) : edited[i].order \in 1 .. m + 1
    BY <1>4, <2>3, <2>4
  <2>7. QED
    BY <1>3, <2>5, <2>6, NoClashIsDense DEF edited
<1>8. CASE edit[w].op # "add"
  <2>1. Subjects(w) \subseteq F /\ (Subjects(w) # {} => edit[w].seen \in 1 .. m)
    BY <1>8, SubjectsAreThere DEF F, base, m
  <2>2. CASE edit[w].op = "update"
    <3>1. edited = [i \in Items |-> IF i \in Subjects(w) THEN [order |-> edit[w].seen, text |-> t]
                                    ELSE base[i]]
      BY <2>2 DEF Edited, WithText, edited, base
    <3>2. \A i \in Items : /\ i \in Subjects(w) => edited[i].order = edit[w].seen
                           /\ i \notin Subjects(w) => edited[i] = base[i]
      BY <3>1
    <3>3. \A i \in F : i \in Items /\ edited[i].order \in 1 .. m
      BY <1>5, <2>1, <3>2 DEF F, Filled
    <3>4. Filled(edited) \subseteq F
      BY <2>1, <3>2 DEF F, Filled
    <3>5. QED
      BY <1>6, <3>3, <3>4 DEF edited
  <2>3. CASE edit[w].op \in {"up", "down"}
    <3> DEFINE Near(i) == NeighboursOf(rows, i, edit[w].op)
               moved(i) == CHOOSE n \in Near(i) : TRUE
               after(i) == IF \E s \in Subjects(w) : i \in Near(s)
                           THEN [base[i] EXCEPT !.order = edit[w].seen]
                           ELSE IF i \in Subjects(w) /\ Near(i) # {}
                           THEN [base[i] EXCEPT !.order = rows[moved(i)].order] ELSE base[i]
    <3>1. edited = [i \in Items |-> after(i)]
      BY <2>3 DEF Edited, WithMove, rows, edited, base
    <3>2. \A i : Near(i) \subseteq Filled(rows)
      BY DEF NeighboursOf
    <3>3. ASSUME NEW i \in Items
          PROVE  (i \in F => after(i).order \in 1 .. m) /\ (i \notin F => after(i) = base[i])
      <4>0. "order" \in DOMAIN base[i]
        BY <1>2 DEF ItemTables
      <4>1. CASE \E s \in Subjects(w) : i \in Near(s)
        <5>1. after(i) = [base[i] EXCEPT !.order = edit[w].seen]
          BY <4>1
        <5>2. edit[w].seen \in 1 .. m /\ i \in F
          BY <1>2, <2>1, <3>2, <4>1
        <5> HIDE DEF after
        <5>3. after(i).order = edit[w].seen
          BY <4>0, <5>1
        <5>4. QED
          BY <5>2, <5>3
      <4>2. CASE ~(\E s \in Subjects(w) : i \in Near(s)) /\ i \in Subjects(w) /\ Near(i) # {}
        <5>1. moved(i) \in Near(i)
          BY <4>2
        <5>2. rows[moved(i)].order \in 1 .. m /\ i \in F
          BY <1>5, <2>1, <3>2, <4>2, <5>1
        <5>3. after(i) = [base[i] EXCEPT !.order = rows[moved(i)].order]
          BY <4>2
        <5> HIDE DEF moved, after
        <5>4. after(i).order = rows[moved(i)].order
          BY <4>0, <5>3
        <5>5. QED
          BY <5>2, <5>4
      <4>3. CASE ~(\E s \in Subjects(w) : i \in Near(s)) /\ ~(i \in Subjects(w) /\ Near(i) # {})
        <5>1. after(i) = base[i]
          BY <4>3
        <5> HIDE DEF after
        <5>2. QED
          BY <1>5, <5>1
      <4>4. QED
        BY <4>1, <4>2, <4>3
    <3> HIDE DEF after
    <3>4. \A i \in Items : (i \in F => edited[i].order \in 1 .. m) /\ (i \notin F => edited[i] = base[i])
      BY <3>1, <3>3
    <3>5. Filled(edited) \subseteq F /\ \A i \in F : edited[i].order \in 1 .. m
      BY <3>4 DEF F, Filled
    <3>6. QED
      BY <1>6, <3>5 DEF edited
  <2>4. QED
    BY <1>1, <1>8, <2>2, <2>3
<1>9. QED
  BY <1>7, <1>8 DEF edited

(* A step of editor w on its lists, or on none. *)
LEMMA EditorPlaces ==
  ASSUME TemplatesInv, TemplatesTypeOK', PlacesInv, NEW w \in Editors,
         \A u \in Editors \ {w} : edit'[u] = edit[u],
         \A v \in Versions : Stored(v) => Filled(item[v]) \subseteq Filled(item'[v]),
         \A v \in Versions : Dense(item'[v]),
         SeenTidy(w)'
  PROVE  PlacesInv'
<1>1. ASSUME NEW u \in Editors PROVE SeenTidy(u)'
  BY SeenStays DEF PlacesInv
<1>2. \A v \in Versions : Dense(item[v])'
  BY DEF Dense, Filled
<1>3. QED
  BY <1>1, <1>2 DEF PlacesInv

LEMMA OpenEditPlaces ==
  ASSUME TemplatesInv, TemplatesTypeOK', PlacesInv, NEW w \in Editors, BeginEdit(w)
  PROVE  PlacesInv'
<1>1. PICK op \in {"add", "update", "up", "down"}, v \in Versions, i \in Items : OpenEdit(w, op, v, i)
  BY DEF BeginEdit
<1> DEFINE row == [op |-> op, page |-> v, item |-> IF op = "add" THEN None ELSE i,
                   seen |-> IF op = "add" THEN 0 ELSE item[v][i].order,
                   target |-> None, rows |-> NoItems]
<1>2. /\ op # "add" => item[v][i].order > 0
      /\ edit' = [edit EXCEPT ![w] = row] /\ item' = item
  BY <1>1 DEF OpenEdit
<1>3. /\ row.op = op /\ row.page = v /\ row.target = None
      /\ op # "add" => row.item = i /\ row.seen = item[v][i].order
  OBVIOUS
<1> HIDE DEF row
<1>4. edit'[w] = row /\ \A u \in Editors \ {w} : edit'[u] = edit[u]
  BY <1>2 DEF TemplatesInv, TemplatesTypeOK
<1>5. item[v] \in ItemTables /\ Dense(item[v])
  BY DEF TemplatesInv, TemplatesTypeOK, PlacesInv
<1>6. op # "add" => i \in Filled(item[v]) /\ item[v][i].order \in 1 .. Cardinality(Filled(item[v]))
  BY <1>2, <1>5, DensePlaces DEF Filled
<1>7. SeenTidy(w)'
  BY <1>2, <1>3, <1>4, <1>6 DEF SeenTidy
<1>8. QED
  BY <1>2, <1>4, <1>7, EditorPlaces DEF PlacesInv

LEMMA LockTemplatePlaces ==
  ASSUME TemplatesInv, TemplatesTypeOK', PlacesInv, NEW w \in Editors, LockTemplate(w)
  PROVE  PlacesInv'
<1>0. PICK v : v = edit[w].page
  OBVIOUS
<1> DEFINE x == Editable(v)
           from == IF x = Fork THEN v ELSE x
<1>1. /\ InProgress(w) /\ item' = item
      /\ edit' = [edit EXCEPT ![w].target = x, ![w].rows = item[from]]
  BY <1>0 DEF LockTemplate
<1>2. edit[w] \in Edits /\ v \in Versions /\ SeenTidy(w)
  BY <1>0, <1>1 DEF TemplatesInv, TemplatesTypeOK, EditsTidy, EditTidy, PlacesInv
<1>3. from \in Versions
  <2>1. CASE Children(v) = {}
    BY <1>2, <2>1 DEF Editable
  <2>2. CASE Children(v) # {}
    <3>1. (CHOOSE c \in Children(v) : TRUE) \in Children(v)
      BY <2>2
    <3>2. Children(v) \subseteq Versions
      BY DEF Children
    <3>3. QED
      BY <1>2, <3>1, <3>2, VersionKeys DEF Editable
  <2>3. QED
    BY <2>1, <2>2
<1> HIDE DEF x, from
<1>4. Dense(item[from])
  BY <1>3 DEF PlacesInv
<1>5. /\ edit'[w].op = edit[w].op /\ edit'[w].page = v /\ edit'[w].item = edit[w].item
      /\ edit'[w].seen = edit[w].seen /\ edit'[w].rows = item[from]
      /\ \A u \in Editors \ {w} : edit'[u] = edit[u]
  BY <1>0, <1>1, <1>2 DEF TemplatesInv, TemplatesTypeOK, Edits
<1>6. Dense(edit'[w].rows) /\ Filled(item'[v]) = Filled(item[v])
  BY <1>1, <1>4, <1>5
<1>7. SeenTidy(w)'
  BY <1>0, <1>1, <1>2, <1>5, <1>6 DEF SeenTidy
<1>8. QED
  BY <1>1, <1>5, <1>7, EditorPlaces DEF PlacesInv

LEMMA OverIsTidy ==
  ASSUME TemplatesInv, NEW w \in Editors, EndEdit(w)
  PROVE  SeenTidy(w)' /\ \A u \in Editors \ {w} : edit'[u] = edit[u]
BY EndEditFrees, RowTypes DEF SeenTidy, InProgress

(* A commit writes a list without gaps over a shorter or equal one, or a new version. *)
LEMMA CommitEditPlaces ==
  ASSUME TemplatesInv, TemplatesTypeOK', PlacesInv, NEW w \in Editors, NEW t \in Texts,
         CommitEdit(w, t)
  PROVE  PlacesInv'
<1>1. edit[w].target # None /\ Fits(w) /\ EndEdit(w) /\ TemplatesTypeOK /\ EditTidy(w)
  BY DEF CommitEdit, TemplatesInv, EditsTidy
<1>2. SeenTidy(w)' /\ \A u \in Editors \ {w} : edit'[u] = edit[u]
  BY <1>1, OverIsTidy
<1>3. CASE item' = item
  BY <1>2, <1>3, EditorPlaces DEF PlacesInv
<1>4. ASSUME NEW n \in Versions, ~Clash(Edited(w, Base(w), t)),
             item' = [item EXCEPT ![n] = Edited(w, Base(w), t)],
             ~Stored(n) \/ Base(w) = item[n]
      PROVE  PlacesInv'
  <2>1. PICK rows : rows = Edited(w, Base(w), t)
    OBVIOUS
  <2>2. /\ rows \in ItemTables /\ Filled(Base(w)) \subseteq Filled(rows) /\ Dense(rows)
    BY <1>1, <1>4, <2>1, EditedRows, EditedIsDense
  <2>3. \A v \in Versions : item'[v] = IF v = n THEN rows ELSE item[v]
    BY <1>1, <1>4, <2>1 DEF TemplatesTypeOK
  <2>4. \A v \in Versions : Stored(v) => Filled(item[v]) \subseteq Filled(item'[v])
    BY <1>4, <2>2, <2>3
  <2>5. \A v \in Versions : Dense(item'[v])
    BY <2>2, <2>3 DEF PlacesInv
  <2>6. QED
    BY <1>2, <2>4, <2>5, EditorPlaces
<1>5. CASE /\ edit[w].target = Fork /\ ~Clash(Edited(w, Base(w), t))
           /\ item' = [item EXCEPT ![NextVersion] = Edited(w, Base(w), t)]
  <2>1. NextVersion \in Versions /\ ~Stored(NextVersion)
    BY <1>1, <1>5, NextIsUnused DEF Fits
  <2>2. QED
    BY <1>4, <1>5, <2>1
<1>6. CASE /\ edit[w].target # Fork /\ ~Clash(Edited(w, Base(w), t))
           /\ item' = [item EXCEPT ![edit[w].target] = Edited(w, Base(w), t)]
  <2>1. edit[w].target \in Versions /\ Base(w) = item[edit[w].target]
    BY <1>1, <1>6 DEF TemplatesTypeOK, Edits, Base
  <2>2. QED
    BY <1>4, <1>6, <2>1
<1>7. QED
  BY <1>3, <1>5, <1>6 DEF CommitEdit

LEMMA StepPlaces == TemplatesInv /\ PlacesInv /\ [TemplatesNext]_templatesVars => PlacesInv'
<1> SUFFICES ASSUME TemplatesInv, PlacesInv, [TemplatesNext]_templatesVars PROVE PlacesInv'
  OBVIOUS
<1>0. TemplatesTypeOK'
  BY StepTemplates DEF TemplatesInv
<1>1. ASSUME UNCHANGED <<item, edit>> PROVE PlacesInv'
  BY <1>1 DEF PlacesInv, SeenTidy, InProgress, Dense, Filled
<1>2. ASSUME NEW v \in Versions, DuplicateTemplate(v) PROVE PlacesInv'
  <2>1. PICK n \in Versions : n = NextVersion /\ ~Stored(n)
    BY <1>2, NextIsUnused DEF DuplicateTemplate
  <2>2. item' = [item EXCEPT ![n] = item[v]] /\ edit' = edit
    BY <1>2, <2>1 DEF DuplicateTemplate
  <2>3. \A u \in Versions : item'[u] = IF u = n THEN item[v] ELSE item[u]
    BY <2>2 DEF TemplatesInv, TemplatesTypeOK
  <2>4. \A u \in Versions : Dense(item'[u])
    BY <2>3 DEF PlacesInv
  <2>5. \A u \in Versions : Stored(u) => Filled(item[u]) \subseteq Filled(item'[u])
    BY <2>1, <2>3
  <2>6. \A w \in Editors : SeenTidy(w)'
    BY <1>0, <2>2, <2>5, SeenStays DEF PlacesInv
  <2>7. \A u \in Versions : Dense(item[u])'
    BY <2>4 DEF Dense, Filled
  <2>8. QED
    BY <2>6, <2>7 DEF PlacesInv
<1>3. ASSUME NEW w \in Editors, BeginEdit(w) \/ LockTemplate(w) PROVE PlacesInv'
  BY <1>0, <1>3, OpenEditPlaces, LockTemplatePlaces
<1>4. ASSUME NEW w \in Editors, BeyondBounds(w) \/ CrashEdit(w) PROVE PlacesInv'
  <2>1. EndEdit(w) /\ item' = item
    BY <1>4 DEF BeyondBounds, CrashEdit
  <2>2. QED
    BY <1>0, <2>1, OverIsTidy, EditorPlaces DEF PlacesInv
<1>5. ASSUME NEW w \in Editors, NEW t \in Texts, CommitEdit(w, t) PROVE PlacesInv'
  BY <1>0, <1>5, CommitEditPlaces
<1>6. QED
  BY <1>1, <1>2, <1>3, <1>4, <1>5 DEF TemplatesNext, EditStep, CreateTemplate, DeactivateTemplate,
     CopyNamed, CommitResolved, CrashResolved, NameTemplate, CopyResolved, templatesVars

(* The items of a version stand at 1, 2, .. n, for any number of editors that move, change *)
(* and add items at the same time: a place that was read too early is either still the    *)
(* item's own or taken, and then the transaction fails (move_item, update_item, add_item). *)
THEOREM PlacesHold == TemplatesSpec => []PlacesAreDense
<1>1. TemplatesInv /\ PlacesInv /\ [TemplatesNext]_templatesVars => PlacesInv'
  BY StepPlaces
<1>2. PlacesInv => PlacesAreDense
  BY DEF PlacesInv, Dense, PlacesAreDense
<1>3. QED
  BY <1>1, <1>2, InitPlaces, TemplatesInvHolds, PTL DEF TemplatesSpec

(***************************************************************************)
(* Waiting.  An editor that holds a row waits only for the row of a version *)
(* with a higher number, so the holder of the highest row waits for nobody. *)
(***************************************************************************)

(* Who holds a row has reached its target, and it is the page's row. *)
HoldersTidy ==
  \A v \in Versions : templateLock[v] # None =>
    edit[templateLock[v]].page = v /\ edit[templateLock[v]].target # None

(* Numbers grow from a version to its fork, and there is a highest. *)
NumbersTidy ==
  /\ \A v \in Versions : Stored(v) /\ template[v].parent # None =>
       template[template[v].parent].number < template[v].number
  /\ \E n \in Nat : \A v \in Versions : Stored(v) => template[v].number <= n

WaitingInv == TemplatesInv /\ HoldersTidy /\ NumbersTidy

LEMMA WaitingProceeds == WaitingInv => SomeEditorProceeds
<1> SUFFICES ASSUME WaitingInv, NEW w \in Editors, InProgress(w),
                    \A u \in Editors : InProgress(u) => Waits(u)
             PROVE  FALSE
  BY DEF SomeEditorProceeds
<1> USE DEF WaitingInv
<1> DEFINE H == {v \in Versions : templateLock[v] # None}
<1>1. \A u \in Editors : EditTidy(u) /\ edit[u].target \in Versions \cup {Fork, None}
  BY DEF TemplatesInv, EditsTidy, TemplatesTypeOK, Edits
<1>2. H # {}
  <2>1. CASE edit[w].target = None
    BY <1>1, <2>1 DEF Waits, Unheld, EditTidy
  <2>2. CASE edit[w].target # None
    BY <1>1, <2>2 DEF Waits, MayReference
  <2>3. QED
    BY <2>1, <2>2
<1>3. \A v \in H : /\ templateLock[v] \in Editors /\ InProgress(templateLock[v]) /\ Stored(v)
                   /\ template[v].number \in Nat
  BY <1>1 DEF TemplatesInv, TemplatesTypeOK, TemplateRows, HoldersTidy, EditTidy
<1>4. PICK v \in H : \A u \in H : template[u].number <= template[v].number
  <2>1. PICK n \in Nat : \A u \in Versions : Stored(u) => template[u].number <= n
    BY DEF NumbersTidy
  <2> DEFINE S == {n - template[u].number : u \in H}
  <2>2. \A u \in H : n - template[u].number \in Nat
    BY <1>3, <2>1
  <2>3. S \subseteq Nat /\ S # {}
    BY <1>2, <2>2
  <2>4. PICK x \in S : \A y \in S : x <= y
    BY <2>3, LeastKey
  <2>5. PICK v \in H : x = n - template[v].number
    BY <2>4
  <2>6. ASSUME NEW u \in H PROVE template[u].number <= template[v].number
    <3>1. n - template[v].number <= n - template[u].number
      BY <2>4, <2>5
    <3>2. QED
      BY <1>3, <3>1
  <2>7. QED
    BY <2>6
<1>5. PICK o \in Editors : o = templateLock[v]
  BY <1>3
<1>6. edit[o].page = v /\ edit[o].target # None /\ Waits(o)
  BY <1>3, <1>5 DEF HoldersTidy
<1>7. PICK x : x = edit[o].target
  OBVIOUS
<1>8. x \in H /\ x # v
  BY <1>1, <1>5, <1>6, <1>7 DEF Waits, MayReference
<1>9. Stored(x) /\ template[x].parent = v
  BY <1>1, <1>6, <1>7, <1>8 DEF EditTidy, Children
<1>10. template[v].number < template[x].number
  BY <1>8, <1>9, VersionKeys DEF NumbersTidy
<1>11. QED
  BY <1>3, <1>4, <1>8, <1>10

LEMMA InitWaiting == TemplatesInit => WaitingInv
<1> SUFFICES ASSUME TemplatesInit PROVE WaitingInv
  OBVIOUS
<1>1. HoldersTidy
  BY DEF TemplatesInit, HoldersTidy
<1>2. ASSUME Fresh PROVE NumbersTidy
  <2>1. \A v \in Versions : template[v].parent = None /\ template[v].number \in {0, 1}
    BY <1>2 DEF Fresh, Root, NoTemplate
  <2>2. QED
    BY <2>1 DEF NumbersTidy
<1>3. ASSUME NEW o \in Orders, Succeeded(o) PROVE NumbersTidy
  <2>1. \A v \in Versions :
          /\ v = First => template[v].number = 1 /\ template[v].parent = None
          /\ v = Second /\ v # First => template[v].number = 2 /\ template[v].parent = First
          /\ v \notin {First, Second} => ~Stored(v)
    BY <1>3, RowTypes DEF Succeeded, Root, Stored
  <2>2. QED
    BY <2>1, FirstTypes DEF NumbersTidy
<1>4. QED
  BY <1>1, <1>2, <1>3, InitTemplates DEF WaitingInv, TemplatesInit

(* Where the templates stand, and who holds what, a step may leave as it is. *)
LEMMA NumbersStay ==
  ASSUME NumbersTidy,
         \A v \in Versions : /\ template'[v].live = template[v].live
                             /\ template'[v].parent = template[v].parent
                             /\ template'[v].number = template[v].number,
         LineageTidy
  PROVE  NumbersTidy'
<1>1. \A v \in Versions : Stored(v)' = Stored(v)
  BY DEF Stored
<1>2. ASSUME NEW v \in Versions, Stored(v)', template'[v].parent # None
      PROVE  template'[template'[v].parent].number < template'[v].number
  BY <1>1, <1>2 DEF NumbersTidy, LineageTidy
<1>3. QED
  BY <1>1, <1>2 DEF NumbersTidy

(* A new version has number 1, or one more than its parent. *)
LEMMA NumbersGrow ==
  ASSUME TemplatesInv, NumbersTidy, NEW n \in Versions, ~Stored(n), NEW p \in Versions \cup {None},
         template'[n].parent = p, template'[n].number \in Nat,
         p # None => Stored(p) /\ template'[n].number = template[p].number + 1,
         \A v \in Versions \ {n} : /\ template'[v].live = template[v].live
                                   /\ template'[v].parent = template[v].parent
                                   /\ template'[v].number = template[v].number
  PROVE  NumbersTidy'
<1>1. \A v \in Versions : Stored(v) => v # n /\ template[v].number \in Nat
  BY DEF TemplatesInv, TemplatesTypeOK, TemplateRows
<1>2. \A v \in Versions : Stored(v)' /\ v # n => Stored(v)
  BY DEF Stored
<1>3. ASSUME NEW v \in Versions, Stored(v)', template'[v].parent # None
      PROVE  template'[template'[v].parent].number < template'[v].number
  <2>1. CASE v = n
    BY <1>1, <1>3, <2>1
  <2>2. CASE v # n
    <3>1. Stored(v) /\ template[v].parent # None
      BY <1>2, <1>3, <2>2
    <3>2. template[v].parent \in Versions /\ Stored(template[v].parent)
      BY <3>1 DEF TemplatesInv, LineageTidy
    <3>3. template[template[v].parent].number < template[v].number
      BY <3>1 DEF NumbersTidy
    <3>4. QED
      BY <1>1, <2>2, <3>2, <3>3
  <2>3. QED
    BY <2>1, <2>2
<1>4. PICK m \in Nat : \A v \in Versions : Stored(v) => template[v].number <= m
  BY DEF NumbersTidy
<1>5. \A v \in Versions : Stored(v)' => template'[v].number <= m + template'[n].number
  BY <1>1, <1>2, <1>4
<1>6. m + template'[n].number \in Nat
  OBVIOUS
<1>7. QED
  BY <1>3, <1>5, <1>6 DEF NumbersTidy

LEMMA ForkNumbers ==
  ASSUME TemplatesInv, NumbersTidy, NEW p \in Versions, Stored(p), Unused # {},
         template' = Forked(p)
  PROVE  NumbersTidy'
<1>1. PICK n \in Versions : n = NextVersion /\ ~Stored(n)
  BY NextIsUnused
<1>2. n # p /\ template \in [Versions -> TemplateRows]
  BY <1>1 DEF TemplatesInv, TemplatesTypeOK
<1> DEFINE row == [live |-> TRUE, parent |-> p, number |-> template[p].number + 1, active |-> TRUE]
<1>3. /\ template' = [template EXCEPT ![n] = row, ![p].active = FALSE]
      /\ row.parent = p /\ row.number = template[p].number + 1
  BY <1>1 DEF Forked
<1> HIDE DEF row
<1>4. /\ template'[n] = row
      /\ \A v \in Versions \ {n} : /\ template'[v].live = template[v].live
                                   /\ template'[v].parent = template[v].parent
                                   /\ template'[v].number = template[v].number
  BY <1>2, <1>3 DEF TemplateRows
<1>5. template[p].number \in Nat
  BY <1>2 DEF TemplateRows
<1>6. /\ template'[n].parent = p /\ template'[n].number \in Nat
      /\ template'[n].number = template[p].number + 1 /\ p \in Versions \cup {None}
  BY <1>3, <1>4, <1>5
<1>7. QED
  BY <1>1, <1>4, <1>6, NumbersGrow

LEMMA RootNumbers ==
  ASSUME TemplatesInv, NumbersTidy, Unused # {},
         template' = [template EXCEPT ![NextVersion] = Root]
  PROVE  NumbersTidy'
<1>1. PICK n \in Versions : n = NextVersion /\ ~Stored(n)
  BY NextIsUnused
<1>2. /\ template'[n].parent = None /\ template'[n].number = 1
      /\ \A v \in Versions \ {n} : template'[v] = template[v]
  BY <1>1 DEF Root, TemplatesInv, TemplatesTypeOK
<1>3. PICK p \in Versions \cup {None} : p = None
  OBVIOUS
<1>4. /\ template'[n].parent = p /\ template'[n].number \in Nat
      /\ p # None => Stored(p) /\ template'[n].number = template[p].number + 1
      /\ \A v \in Versions \ {n} : /\ template'[v].live = template[v].live
                                    /\ template'[v].parent = template[v].parent
                                    /\ template'[v].number = template[v].number
  BY <1>2, <1>3
<1>5. QED
  BY <1>1, <1>4, NumbersGrow

LEMMA StepNumbers == WaitingInv /\ [TemplatesNext]_templatesVars => NumbersTidy'
<1> SUFFICES ASSUME WaitingInv, [TemplatesNext]_templatesVars PROVE NumbersTidy'
  OBVIOUS
<1> USE DEF WaitingInv
<1>1. ASSUME UNCHANGED template PROVE NumbersTidy'
  BY <1>1, NumbersStay DEF TemplatesInv
<1>2. ASSUME CreateTemplate \/ \E v \in Versions : DuplicateTemplate(v) PROVE NumbersTidy'
  BY <1>2, RootNumbers DEF CreateTemplate, DuplicateTemplate
<1>3. ASSUME NEW u \in Versions, DeactivateTemplate(u) PROVE NumbersTidy'
  <2>1. \A v \in Versions : /\ template'[v].live = template[v].live
                            /\ template'[v].parent = template[v].parent
                            /\ template'[v].number = template[v].number
    BY <1>3 DEF DeactivateTemplate, TemplatesInv, TemplatesTypeOK, TemplateRows
  <2>2. QED
    BY <2>1, NumbersStay DEF TemplatesInv
<1>4. ASSUME NEW w \in Editors, NEW t \in Texts, CommitEdit(w, t) PROVE NumbersTidy'
  <2>1. CASE UNCHANGED template
    BY <1>1, <2>1
  <2>2. CASE edit[w].target = Fork /\ template' = Forked(edit[w].page)
    <3>1. Unused # {}
      BY <1>4, <2>2 DEF CommitEdit, Fits
    <3>2. edit[w].page \in Versions /\ Stored(edit[w].page)
      BY <2>2, VersionKeys DEF TemplatesInv, EditsTidy, EditTidy
    <3>3. QED
      BY <2>2, <3>1, <3>2, ForkNumbers
  <2>3. QED
    BY <1>4, <2>1, <2>2 DEF CommitEdit
<1>5. QED
  BY <1>1, <1>2, <1>3, <1>4 DEF TemplatesNext, EditStep, BeginEdit, OpenEdit, LockTemplate,
     BeyondBounds, CrashEdit, CopyNamed, CommitResolved, CrashResolved, NameTemplate, CopyResolved,
     templatesVars

LEMMA StepHolders == WaitingInv /\ [TemplatesNext]_templatesVars => HoldersTidy'
<1> SUFFICES ASSUME WaitingInv, [TemplatesNext]_templatesVars PROVE HoldersTidy'
  OBVIOUS
<1> USE DEF WaitingInv
<1>1. ASSUME UNCHANGED <<templateLock, edit>> PROVE HoldersTidy'
  BY <1>1 DEF HoldersTidy
<1>2. ASSUME NEW w \in Editors, BeginEdit(w) PROVE HoldersTidy'
  <2>1. /\ edit[w].target = None /\ templateLock' = templateLock
        /\ \A u \in Editors \ {w} : edit'[u] = edit[u]
    BY <1>2, RowTypes DEF BeginEdit, OpenEdit, TemplatesInv, TemplatesTypeOK
  <2>2. QED
    BY <2>1 DEF HoldersTidy, TemplatesInv, TemplatesTypeOK
<1>3. ASSUME NEW w \in Editors, LockTemplate(w) PROVE HoldersTidy'
  <2>1. PICK v \in Versions : v = edit[w].page
    BY <1>3 DEF LockTemplate, TemplatesInv, EditsTidy, EditTidy
  <2>2. PICK x \in Versions \cup {Fork} : x = Editable(v)
    BY <2>1 DEF Editable, Children
  <2>3. /\ templateLock' = [templateLock EXCEPT ![v] = w] /\ edit[w].target = None
        /\ edit'[w].page = v /\ edit'[w].target = x
        /\ \A u \in Editors \ {w} : edit'[u] = edit[u]
    BY <1>3, <2>1, <2>2 DEF LockTemplate, TemplatesInv, TemplatesTypeOK, Edits
  <2>4. x # None
    BY VersionKeys
  <2>5. QED
    BY <2>3, <2>4 DEF HoldersTidy, TemplatesInv, TemplatesTypeOK
<1>4. ASSUME NEW w \in Editors, EndEdit(w) PROVE HoldersTidy'
  BY <1>4 DEF EndEdit, Released, HoldersTidy, TemplatesInv, TemplatesTypeOK
<1>5. QED
  BY <1>1, <1>2, <1>3, <1>4 DEF TemplatesNext, EditStep, BeyondBounds, CommitEdit, CrashEdit,
     CreateTemplate, DuplicateTemplate, DeactivateTemplate, CopyNamed, CommitResolved,
     CrashResolved, NameTemplate, CopyResolved, templatesVars

(* Whenever requests of the builder are in progress, one of them does not wait, for any number *)
(* of editors on any pages: the row an item's foreign key waits for is always that of a later *)
(* version than the row its request holds (get_editable_version, add_item). *)
THEOREM EditorsProceed == TemplatesSpec => []SomeEditorProceeds
<1>1. WaitingInv /\ [TemplatesNext]_templatesVars => WaitingInv'
  BY StepTemplates, StepNumbers, StepHolders DEF WaitingInv
<1>2. QED
  BY <1>1, InitWaiting, WaitingProceeds, PTL DEF TemplatesSpec
=============================================================================
