------------------------- MODULE ChecklistTemplates -------------------------
(***************************************************************************)
(* Checklist templates, their versions and the copies work orders take     *)
(* (apps/checklists, snapshot_checklist, resolve_checklist_template).      *)
(*                                                                         *)
(* An editor is one request of the builder: it loads the page's template   *)
(* and item, then services.py locks the template's row, decides which      *)
(* version to write, and commits.  A copied item keeps its number in the   *)
(* model; the code only has its place in the list.                         *)
(*                                                                         *)
(* Of PostgreSQL: SELECT FOR UPDATE is held to the end of the transaction; *)
(* the deferred foreign key of an order or a new item takes KEY SHARE on   *)
(* the template at commit, and waits for FOR UPDATE.                       *)
(***************************************************************************)
EXTENDS Naturals, FiniteSets, Sql

CONSTANTS
  Versions,     \* primary keys of checklists_checklisttemplate; bound
  Items,        \* items of a version; bound
  Texts,        \* what an item says
  Editors,      \* requests of the builder, each sent once; bound
  Orders        \* work orders that may take a checklist

Places == 0 .. Cardinality(Items)

\* The target of an edit that will fork its page's template.
Fork == 0

ASSUME TemplatesAssumption ==
  /\ Versions \subseteq Nat \ {Fork} /\ Versions # {}
  /\ IsFiniteSet(Items) /\ Items = 1 .. Cardinality(Items)
  /\ Texts # {}
  /\ None \notin Nat /\ None \notin Texts /\ None \notin Editors

VARIABLES
  template,     \* [Versions -> TemplateRows]: committed rows
  item,         \* [Versions -> ItemTables]: committed items
  templateLock, \* [Versions -> Editors \cup {None}]: who holds FOR UPDATE
  snapshot,     \* [Orders -> Snapshots]: an order's template and its copy
  edit          \* [Editors -> Edits]: what a request holds in memory

templatesVars == <<template, item, templateLock, snapshot, edit>>

TemplateRows == [live : BOOLEAN, parent : Versions \cup {None}, number : Nat, active : BOOLEAN]

NoTemplate == [live |-> FALSE, parent |-> None, number |-> 0, active |-> FALSE]

Root == [live |-> TRUE, parent |-> None, number |-> 1, active |-> TRUE]

ItemTables == [Items -> [order : Places, text : Texts \cup {None}]]

\* An item that is not there has no place.
NoItem == [order |-> 0, text |-> None]

NoItems == [i \in Items |-> NoItem]

\* «names»: the foreign key is committed and the copy is not taken yet;
\* «holds»: the copy is taken and the foreign key is not committed yet.
Snapshots == [at : {"none", "names", "holds", "done"}, form : BOOLEAN,
              version : Versions \cup {None}, rows : ItemTables]

NoSnapshot == [at |-> "none", form |-> FALSE, version |-> None, rows |-> NoItems]

NoSnapshots == [o \in Orders |-> NoSnapshot]

Edits == [op : {"none", "add", "update", "up", "down", "over"}, page : Versions \cup {None},
          item : Items \cup {None}, seen : Places,
          target : Versions \cup {Fork, None}, rows : ItemTables]

NoEdit == [op |-> "none", page |-> None, item |-> None, seen |-> 0,
           target |-> None, rows |-> NoItems]

Over == [NoEdit EXCEPT !.op = "over"]

\* What the items say at first.
Original == CHOOSE t \in Texts : TRUE

\* A list of the items 1 and 2.
Plain == [i \in Items |-> IF i <= 2 THEN [order |-> i, text |-> Original] ELSE NoItem]

First == CHOOSE v \in Versions : \A u \in Versions : v <= u

Second == CHOOSE v \in Versions \ {First} : \A u \in Versions \ {First} : v <= u

\* A template of two items that no order has used.
Fresh ==
  /\ template = [v \in Versions |-> IF v = First THEN Root ELSE NoTemplate]
  /\ item = [v \in Versions |-> IF v = First THEN Plain ELSE NoItems]
  /\ snapshot = NoSnapshots

\* A template that order o used, and that was edited since.
Succeeded(o) ==
  /\ template = [v \in Versions |->
       IF v = First THEN [Root EXCEPT !.active = FALSE]
       ELSE IF v = Second THEN [live |-> TRUE, parent |-> First, number |-> 2, active |-> TRUE]
       ELSE NoTemplate]
  /\ item = [v \in Versions |-> IF v \in {First, Second} THEN Plain ELSE NoItems]
  /\ snapshot = [NoSnapshots EXCEPT ![o] =
       [at |-> "done", form |-> TRUE, version |-> First, rows |-> Plain]]

TemplatesInit ==
  /\ Fresh \/ \E o \in Orders : Succeeded(o)
  /\ templateLock = [v \in Versions |-> None]
  /\ edit = [w \in Editors |-> NoEdit]

-----------------------------------------------------------------------------
(* Lineages. *)

Stored(v) == template[v].live

Children(v) == {c \in Versions : Stored(c) /\ template[c].parent = v}

\* An order names this version, in a committed row.
Locked(v) == \E o \in Orders : snapshot[o].at \in {"names", "done"} /\ snapshot[o].version = v

\* The version and those forked from it, one generation after the other.
Lineage(v) ==
  LET reach[n \in Nat] ==
        IF n = 0 THEN {v} ELSE reach[n - 1] \cup UNION {Children(u) : u \in reach[n - 1]}
  IN reach[Cardinality(Versions)]

\* resolve_checklist_template: what a plan that points at v gets.
Resolvable(v) ==
  LET active == {u \in Versions : u \in Lineage(v) /\ template[u].active} IN
  {u \in active : \A x \in active : template[x].number <= template[u].number}

Unused == {v \in Versions : ~Stored(v)}

NextVersion == CHOOSE v \in Unused : \A u \in Unused : v <= u

-----------------------------------------------------------------------------
(* The builder. *)

\* checklist_template_create
CreateTemplate ==
  /\ Unused # {}
  /\ template' = [template EXCEPT ![NextVersion] = Root]
  /\ UNCHANGED <<item, templateLock, snapshot, edit>>

\* duplicate_template: version 1 of a lineage of its own.
DuplicateTemplate(v) ==
  /\ Stored(v)
  /\ Unused # {}
  /\ template' = [template EXCEPT ![NextVersion] = Root]
  /\ item' = [item EXCEPT ![NextVersion] = item[v]]
  /\ UNCHANGED <<templateLock, snapshot, edit>>

\* deactivate_template takes no lock, but its UPDATE waits for one.
DeactivateTemplate(v) ==
  /\ Stored(v)
  /\ templateLock[v] = None
  /\ template' = [template EXCEPT ![v].active = FALSE]
  /\ UNCHANGED <<item, templateLock, snapshot, edit>>

\* The view loads the template and, except for a new item, the item.
OpenEdit(w, op, v, i) ==
  /\ edit[w] = NoEdit
  /\ Stored(v)
  /\ op # "add" => item[v][i].order > 0
  /\ edit' = [edit EXCEPT ![w] =
                [op |-> op, page |-> v, item |-> IF op = "add" THEN None ELSE i,
                 seen |-> IF op = "add" THEN 0 ELSE item[v][i].order,
                 target |-> None, rows |-> NoItems]]
  /\ UNCHANGED <<template, item, templateLock, snapshot>>

\* checklist_item_create, _update, _move_up and _move_down
BeginEdit(w) ==
  \E op \in {"add", "update", "up", "down"}, v \in Versions, i \in Items : OpenEdit(w, op, v, i)

\* Mutant: the lock is not waited for.
Unguarded(v) == TRUE

\* No transaction holds the template FOR UPDATE.
Unheld(v) == templateLock[v] = None

\* Mutant: used templates are edited in place.
InPlace(v) == v

\* get_editable_version, after the lock is taken.
Editable(v) ==
  IF ~Locked(v) THEN v
  ELSE IF Children(v) # {} THEN CHOOSE c \in Children(v) : TRUE
  ELSE Fork

InProgress(w) == edit[w].op \notin {"none", "over"}

\* get_editable_version locks the page's template, and only that one; then the rows
\* of the version to be edited are read.
LockTemplate(w) ==
  LET v == edit[w].page
      target == Editable(v) IN
  /\ InProgress(w)
  /\ edit[w].target = None
  /\ Unheld(v)
  /\ templateLock' = [templateLock EXCEPT ![v] = w]
  /\ edit' = [edit EXCEPT ![w].target = target,
                          ![w].rows = item[IF target = Fork THEN v ELSE target]]
  /\ UNCHANGED <<template, item, snapshot>>

\* _corresponding_item: the loaded item, or the one in its place on another version.
Subjects(w) ==
  IF edit[w].target = edit[w].page THEN {edit[w].item}
  ELSE {i \in Items : edit[w].seen > 0 /\ edit[w].rows[i].order = edit[w].seen}

Filled(rows) == {i \in Items : rows[i].order > 0}

\* The places the new item and the moved ones get.  move_item exchanges the place
\* of its neighbour in the fresh list with the one the item had when it was loaded.
NeighboursOf(rows, i, op) ==
  IF op = "up"
  THEN {n \in Filled(rows) : /\ rows[n].order < rows[i].order
                             /\ \A m \in Filled(rows) : rows[m].order < rows[i].order =>
                                                          rows[m].order <= rows[n].order}
  ELSE {n \in Filled(rows) : /\ rows[n].order > rows[i].order
                             /\ \A m \in Filled(rows) : rows[m].order > rows[i].order =>
                                                          rows[m].order >= rows[n].order}

\* add_item: max + 1 as read under the lock; the row is the first free one.
WithItem(w, base, t) ==
  LET free == Items \ Filled(base)
      new  == CHOOSE i \in free : \A j \in free : i <= j
  IN [base EXCEPT ![new] = [order |-> Cardinality(Filled(edit[w].rows)) + 1,
                            text |-> t]]

\* update_item saves all columns, the place as it was loaded among them.
WithText(w, base, t) ==
  [i \in Items |-> IF i \in Subjects(w) THEN [order |-> edit[w].seen, text |-> t]
                   ELSE base[i]]

WithMove(w, base) ==
  [i \in Items |->
     IF \E s \in Subjects(w) : i \in NeighboursOf(edit[w].rows, s, edit[w].op)
     THEN [base[i] EXCEPT !.order = edit[w].seen]
     ELSE IF i \in Subjects(w) /\ NeighboursOf(edit[w].rows, i, edit[w].op) # {}
     THEN LET n == CHOOSE n \in NeighboursOf(edit[w].rows, i, edit[w].op) : TRUE
          IN [base[i] EXCEPT !.order = edit[w].rows[n].order]
     ELSE base[i]]

\* The rows the transaction leaves on its target, which began as `base`.
Edited(w, base, t) ==
  CASE edit[w].op = "add"    -> WithItem(w, base, t)
    [] edit[w].op = "update" -> WithText(w, base, t)
    [] OTHER                 -> WithMove(w, base)

\* What the target's rows are when the transaction commits.
Base(w) == IF edit[w].target = Fork THEN edit[w].rows ELSE item[edit[w].target]

\* Mutant: UNIQUE(template, order) is not there.
NeverClash(rows) == FALSE

\* UNIQUE(template, order), checked at commit.
Clash(rows) == \E i, j \in Filled(rows) : i # j /\ rows[i].order = rows[j].order

\* Mutant: a fork leaves its parent active.
KeepsParent(v) == [template EXCEPT ![NextVersion] =
  [live |-> TRUE, parent |-> v, number |-> template[v].number + 1, active |-> TRUE]]

\* The new version, and the parent's retirement.
Forked(v) == [template EXCEPT
  ![NextVersion] = [live |-> TRUE, parent |-> v, number |-> template[v].number + 1,
                    active |-> TRUE],
  ![v].active = FALSE]

\* Mutant: the row stays locked after the transaction.
Kept(w) == templateLock

Released(w) == [v \in Versions |-> IF templateLock[v] = w THEN None ELSE templateLock[v]]

EndEdit(w) ==
  /\ templateLock' = Released(w)
  /\ edit' = [edit EXCEPT ![w] = Over]

\* Nobody else holds a template an uncommitted new item points at.
MayReference(w) ==
  edit[w].op = "add" /\ edit[w].target # Fork => templateLock[edit[w].target] \in {None, w}

\* The statement editor w has reached waits: for its page's row, or, with a new item, for
\* the row the item's foreign key names.
Waits(w) == IF edit[w].target = None THEN ~Unheld(edit[w].page) ELSE ~MayReference(w)

\* Bound: there is a primary key left for the fork and for the item.
Fits(w) == /\ edit[w].target = Fork => Unused # {}
           /\ edit[w].op = "add" => Filled(Base(w)) # Items

\* add_item, update_item and move_item commit the posted text t; a clash of places rolls back.
CommitEdit(w, t) ==
  LET rows == Edited(w, Base(w), t) IN
  /\ edit[w].target # None
  /\ MayReference(w)
  /\ Fits(w)
  /\ IF Clash(rows) THEN UNCHANGED <<template, item>>
     ELSE IF edit[w].target = Fork
     THEN /\ template' = Forked(edit[w].page)
          /\ item' = [item EXCEPT ![NextVersion] = rows]
     ELSE /\ item' = [item EXCEPT ![edit[w].target] = rows]
          /\ UNCHANGED template
  /\ EndEdit(w)
  /\ UNCHANGED snapshot

\* Bound: edits that need one more key than the model has.
BeyondBounds(w) ==
  /\ edit[w].target # None
  /\ ~Fits(w)
  /\ EndEdit(w)
  /\ UNCHANGED <<template, item, snapshot>>

CrashEdit(w) ==
  /\ InProgress(w)
  /\ EndEdit(w)
  /\ UNCHANGED <<template, item, snapshot>>

-----------------------------------------------------------------------------
(* Work orders take their copies. *)

\* corrective_create saves the order, with its template, and copies afterwards.
NameTemplate(o, v) ==
  /\ snapshot[o] = NoSnapshot
  /\ Stored(v)
  /\ template[v].active
  /\ Unheld(v)
  /\ snapshot' = [snapshot EXCEPT ![o] =
                    [at |-> "names", form |-> TRUE, version |-> v, rows |-> NoItems]]
  /\ UNCHANGED <<template, item, templateLock, edit>>

CopyNamed(o) ==
  /\ snapshot[o].at = "names"
  /\ snapshot' = [snapshot EXCEPT ![o].at = "done", ![o].rows = item[snapshot[o].version]]
  /\ UNCHANGED <<template, item, templateLock, edit>>

\* _create_work_order copies first, and commits the company's orders much later.
CopyResolved(o, v) ==
  /\ snapshot[o] = NoSnapshot
  /\ Stored(v)
  /\ \E u \in Resolvable(v) :
       snapshot' = [snapshot EXCEPT ![o] =
                      [at |-> "holds", form |-> FALSE, version |-> u, rows |-> item[u]]]
  /\ UNCHANGED <<template, item, templateLock, edit>>

CommitResolved(o) ==
  /\ snapshot[o].at = "holds"
  /\ Unheld(snapshot[o].version)
  /\ snapshot' = [snapshot EXCEPT ![o].at = "done"]
  /\ UNCHANGED <<template, item, templateLock, edit>>

\* The scheduler's transaction is rolled back.
CrashResolved(o) ==
  /\ snapshot[o].at = "holds"
  /\ snapshot' = [snapshot EXCEPT ![o] = NoSnapshot]
  /\ UNCHANGED <<template, item, templateLock, edit>>

-----------------------------------------------------------------------------

EditStep(w) == LockTemplate(w) \/ BeyondBounds(w) \/ \E t \in Texts : CommitEdit(w, t)

TemplatesNext ==
  \/ CreateTemplate
  \/ \E v \in Versions : DuplicateTemplate(v) \/ DeactivateTemplate(v)
  \/ \E w \in Editors : BeginEdit(w) \/ EditStep(w) \/ CrashEdit(w)
  \/ \E o \in Orders : CopyNamed(o) \/ CommitResolved(o) \/ CrashResolved(o)
  \/ \E o \in Orders, v \in Versions : NameTemplate(o, v) \/ CopyResolved(o, v)

TemplatesSpec == TemplatesInit /\ [][TemplatesNext]_templatesVars

-----------------------------------------------------------------------------
(* What the component keeps. *)

\* Values of the columns.
TemplatesTypeOK ==
  /\ template \in [Versions -> TemplateRows]
  /\ item \in [Versions -> ItemTables]
  /\ templateLock \in [Versions -> Editors \cup {None}]
  /\ snapshot \in [Orders -> Snapshots]
  /\ edit \in [Editors -> Edits]

\* One active version in a lineage, the newest: whoever deactivates, forks or
\* resolves at the same time, a version that has a successor stays retired
\* (get_editable_version, deactivate_template).
OnlyNewestIsLive ==
  \A v \in Versions : template[v].active => Stored(v) /\ Children(v) = {}

\* Two editors of a used template never fork it twice: UNIQUE(parent) is a backstop
\* that is not needed (get_editable_version).
ForkMeetsNoFork ==
  \A w \in Editors : edit[w].target = Fork => Children(edit[w].page) = {}

\* The items of a version stand at 1, 2, .. n, each in its own place, although moves
\* and edits write places that were read before the lock (move_item, add_item).
PlacesAreDense ==
  \A v \in Versions :
    {item[v][i].order : i \in Filled(item[v])} = 1 .. Cardinality(Filled(item[v]))

\* An order opened by hand shows what its version says, for ever, if the version is
\* the first of its lineage: it names the version before it copies, and an edit in
\* progress makes it wait (corrective_create, get_editable_version).
CopyIsTheVersion ==
  \A o \in Orders :
    snapshot[o].at = "done" /\ snapshot[o].form /\ template[snapshot[o].version].parent = None =>
      snapshot[o].rows = item[snapshot[o].version]

\* The items of a used version change only by way of its parent's page: on its own
\* page the version is found locked (is_locked, get_editable_version).
LockedOnlyThroughParent ==
  [][\A v \in Versions :
       Locked(v) /\ item'[v] # item[v] =>
         \E w \in Editors : edit[w].target = v /\ edit[w].page = template[v].parent]_templatesVars

\* «If template is locked (already used by a work order), its rows -- and its items'
\* rows -- must never be mutated» (get_editable_version).
LockedNeverMutated ==
  [][\A v \in Versions : Locked(v) => item'[v] = item[v]]_templatesVars

\* Editors never wait for each other in a circle: the one that holds its own page's
\* template waits, with a new item, for the successor only (get_editable_version,
\* the foreign key of an item).
SomeEditorProceeds ==
  (\E w \in Editors : InProgress(w)) => \E w \in Editors : InProgress(w) /\ ~Waits(w)
=============================================================================
