------------------------------ MODULE Groups ------------------------------
(***************************************************************************)
(* The groups the users see: user_groups with their user_subgroups, the    *)
(* groups assigned to a user (user_group_access) and the values assigned   *)
(* to a subgroup (subgroup_values).  An assignment is written in one       *)
(* transaction, its old rows deleted and the new ones inserted; the pages  *)
(* read it in several queries, and rows disappear by cascade meanwhile.    *)
(*                                                                         *)
(* A command or a request is a task of its own on a connection of the      *)
(* pool.  MySQL is external: what a transaction wrote is seen when it      *)
(* commits, rows it deleted and parents of rows it inserted are locked     *)
(* until then, and ids are never given twice.                              *)
(***************************************************************************)
EXTENDS FiniteSets, Naturals

CONSTANTS Users, UserGroups, SubGroups, Values,  \* ids, disjoint
          Tasks,    \* bound: commands and requests at one time
          NoGroup   \* parent of a subgroup that is not there

ASSUME GroupsAssumption ==
  /\ NoGroup \notin UserGroups
  /\ Users \cap SubGroups = {} /\ UserGroups \cap Values = {}
  /\ (Users \cup SubGroups) \cap (UserGroups \cup Values) = {}

VARIABLES
  life,       \* "new", "alive" or "deleted", of every id
  parent,     \* user_subgroups.group_id
  assigned,   \* user_group_access and subgroup_values: owner -> its items
  task,       \* what each task is doing
  wanted      \* history: the list last committed for an owner, deletions or not

vars == <<life, parent, assigned, task, wanted>>

\* A user owns groups, a subgroup owns values.
Owners == Users \cup SubGroups
Items == UserGroups \cup Values
ItemsOf(owner) == IF owner \in Users THEN UserGroups ELSE Values

Alive(x) == life[x] = "alive"

Idle == [kind |-> "idle"]
Writing(t) == task[t].kind \in {"posted", "cleared", "inserted"}
Reading(t) == task[t].kind \in {"listed", "assigns"}

\* An assignment is posted, its old rows deleted, its new ones inserted; a page has
\* listed its subgroups, or reads their assignments, or is answered.
Writes == [kind : {"posted", "cleared", "inserted"}, owner : Owners, list : SUBSET Items]
Pages == [kind : {"listed", "assigns", "answered"}, subs : SUBSET SubGroups,
          done : SUBSET SubGroups, lists : [SubGroups -> SUBSET Values],
          seen : [SubGroups -> SUBSET SUBSET Values]]

TypeOK ==
  /\ life \in [Owners \cup Items -> {"new", "alive", "deleted"}]
  /\ parent \in [SubGroups -> UserGroups \cup {NoGroup}]
  /\ assigned \in [Owners -> SUBSET Items]
  /\ wanted \in [Owners -> SUBSET Items]
  /\ task \in [Tasks -> {Idle} \cup Writes \cup Pages]
  /\ \A o \in Owners : assigned[o] \subseteq ItemsOf(o) /\ wanted[o] \subseteq ItemsOf(o)
  /\ \A t \in Tasks : Writing(t) => task[t].list \subseteq ItemsOf(task[t].owner)

Init ==
  /\ life \in [Owners \cup Items -> {"new", "alive"}]
  /\ parent \in [SubGroups -> UserGroups \cup {NoGroup}]
  /\ \A s \in SubGroups :
       IF Alive(s) THEN parent[s] # NoGroup /\ Alive(parent[s]) ELSE parent[s] = NoGroup
  /\ assigned = [o \in Owners |-> {}]
  /\ wanted = [o \in Owners |-> {}]
  /\ task = [t \in Tasks |-> Idle]

-----------------------------------------------------------------------------
(* Locks.                                                                    *)

\* A transaction holds the rows it deleted; after its insert also the parents of
\* the rows it inserted.
RowsHeld(o) == \E t \in Tasks : task[t].kind \in {"cleared", "inserted"} /\ task[t].owner = o
ParentHeld(x) ==
  \E t \in Tasks : task[t].kind = "inserted" /\ x \in {task[t].owner} \cup task[t].list

\* Rows that go with x: the rows it owns and those that name it.
Touched(x) == {o \in Owners : assigned[o] # {} /\ (o = x \/ x \in assigned[o])}

MayDelete(xs) ==
  \A x \in xs : ~ParentHeld(x) /\ \A o \in Touched(x) : ~RowsHeld(o)

\* Mutant: a row that is deleted stays assigned.
DeletedAlone(xs) ==
  /\ MayDelete(xs)
  /\ life' = [x \in DOMAIN life |-> IF x \in xs THEN "deleted" ELSE life[x]]
  /\ parent' = [s \in SubGroups |-> IF s \in xs THEN NoGroup ELSE parent[s]]
  /\ UNCHANGED <<assigned, task, wanted>>

\* DELETE with its cascades: xs and every assignment of them or to them.
Deleted(xs) ==
  /\ MayDelete(xs)
  /\ life' = [x \in DOMAIN life |-> IF x \in xs THEN "deleted" ELSE life[x]]
  /\ parent' = [s \in SubGroups |-> IF s \in xs THEN NoGroup ELSE parent[s]]
  /\ assigned' = [o \in Owners |-> IF o \in xs THEN {} ELSE assigned[o] \ xs]
  /\ UNCHANGED <<task, wanted>>

-----------------------------------------------------------------------------
(* Rows.  Their names and descriptions are left out.                         *)

Created(x) ==
  /\ life[x] = "new"
  /\ life' = [life EXCEPT ![x] = "alive"]
  /\ UNCHANGED <<assigned, task, wanted>>

CreateGroup(g) == Created(g) /\ UNCHANGED parent

\* A group that does not exist is refused by the foreign key.
CreateSubgroup(s, g) ==
  /\ Alive(g)
  /\ Created(s)
  /\ parent' = [parent EXCEPT ![s] = g]

\* group_id may be given or left as it is.
UpdateSubgroup(s, g) ==
  /\ Alive(s) /\ Alive(g)
  /\ parent' = [parent EXCEPT ![s] = g]
  /\ UNCHANGED <<life, assigned, task, wanted>>

SubgroupsOf(g) == {s \in SubGroups : Alive(s) /\ parent[s] = g}

DeleteGroup(g) == Alive(g) /\ Deleted({g} \cup SubgroupsOf(g))

DeleteSubgroup(s) == Alive(s) /\ Deleted({s})

\* user_worker and value_worker
CreateUserOrValue(x) == x \in Users \cup Values /\ Created(x) /\ UNCHANGED parent
DeleteUserOrValue(x) == x \in Users \cup Values /\ Alive(x) /\ Deleted({x})

-----------------------------------------------------------------------------
(* Assignments.                                                              *)

Goto(t, state) == task' = [task EXCEPT ![t] = state]

\* The routes assign a list, the clean routes the empty one.
PostAssignment(t, owner, list) ==
  /\ task[t] = Idle
  /\ list \subseteq ItemsOf(owner)
  /\ Goto(t, [kind |-> "posted", owner |-> owner, list |-> list])
  /\ UNCHANGED <<life, parent, assigned, wanted>>

\* Pages that are reading: each remembers the lists a subgroup had until it was read.
Witnessed(owner, list) ==
  [t \in Tasks |->
     IF Reading(t) /\ owner \in task[t].subs \ task[t].done
     THEN [task[t] EXCEPT !.seen[owner] = @ \cup {list}]
     ELSE task[t]]

\* Mutant: the old rows are deleted outside of the transaction.
ClearAtOnce(t) ==
  /\ task[t].kind = "posted" /\ ~RowsHeld(task[t].owner)
  /\ Goto(t, [task[t] EXCEPT !.kind = "cleared"])
  /\ assigned' = [assigned EXCEPT ![task[t].owner] = {}]
  /\ UNCHANGED <<life, parent, wanted>>

\* begin and DELETE: nobody else sees it yet, another writer of the rows waits.
Clear(t) ==
  /\ task[t].kind = "posted" /\ ~RowsHeld(task[t].owner)
  /\ Goto(t, [task[t] EXCEPT !.kind = "cleared"])
  /\ UNCHANGED <<life, parent, assigned, wanted>>

\* INSERT of the whole list, refused when a row of it has no parent; an empty list
\* needs no query.
Insert(t) ==
  /\ task[t].kind = "cleared" /\ task[t].list # {}
  /\ IF \A x \in {task[t].owner} \cup task[t].list : Alive(x)
     THEN Goto(t, [task[t] EXCEPT !.kind = "inserted"])
     ELSE Goto(t, Idle)
  /\ UNCHANGED <<life, parent, assigned, wanted>>

\* Mutant: the new rows join the old ones.
CommitJoined(t) ==
  /\ \/ task[t].kind = "inserted"
     \/ task[t].kind = "cleared" /\ task[t].list = {}
  /\ LET o == task[t].owner
         list == task[t].list
     IN  /\ assigned' = [assigned EXCEPT ![o] = @ \cup list]
         /\ wanted' = [wanted EXCEPT ![o] = list]
         /\ task' = [Witnessed(o, list) EXCEPT ![t] = Idle]
  /\ UNCHANGED <<life, parent>>

Commit(t) ==
  /\ \/ task[t].kind = "inserted"
     \/ task[t].kind = "cleared" /\ task[t].list = {}
  /\ LET o == task[t].owner
         list == task[t].list
     IN  /\ assigned' = [assigned EXCEPT ![o] = list]
         /\ wanted' = [wanted EXCEPT ![o] = list]
         /\ task' = [Witnessed(o, list) EXCEPT ![t] = Idle]
  /\ UNCHANGED <<life, parent>>

AssignGroupsToUser(t) ==
  Writing(t) /\ task[t].owner \in Users /\ (Clear(t) \/ Insert(t) \/ Commit(t))

AssignValuesToSubgroup(t) ==
  Writing(t) /\ task[t].owner \in SubGroups /\ (Clear(t) \/ Insert(t) \/ Commit(t))

\* run_db_with_timeout: the time is up, or the database fails; dropping the
\* transaction rolls it back.
CutShort(t) ==
  /\ Writing(t) \/ Reading(t)
  /\ Goto(t, Idle)
  /\ UNCHANGED <<life, parent, assigned, wanted>>

-----------------------------------------------------------------------------
(* Pages.                                                                    *)

Page(kind, subs) ==
  [kind |-> kind, subs |-> subs, done |-> {},
   lists |-> [s \in SubGroups |-> {}],
   seen |-> [s \in SubGroups |-> IF s \in subs THEN {wanted[s]} ELSE {}]]

\* ui_get_group: the subgroups first; a group without any answers None.
UiGetGroup(t, g) ==
  /\ task[t] = Idle
  /\ SubgroupsOf(g) # {}
  /\ Goto(t, Page("listed", SubgroupsOf(g)))
  /\ UNCHANGED <<life, parent, assigned, wanted>>

\* Then the values of all of them in one query, sorted by subgroup.
UiGetValues(t) ==
  /\ task[t].kind = "listed"
  /\ Goto(t, [task[t] EXCEPT !.kind = "answered", !.done = task[t].subs,
       !.lists = [s \in SubGroups |-> IF s \in task[t].subs THEN assigned[s] ELSE {}]])
  /\ UNCHANGED <<life, parent, assigned, wanted>>

\* ui_get_subgroups_assign: the page names the subgroups, existing or not.
UiGetSubgroupsAssign(t, subs) ==
  /\ task[t] = Idle /\ subs # {}
  /\ Goto(t, Page("assigns", subs))
  /\ UNCHANGED <<life, parent, assigned, wanted>>

\* One query for each.
UiGetAssign(t, s) ==
  /\ task[t].kind = "assigns" /\ s \in task[t].subs \ task[t].done
  /\ LET done == task[t].done \cup {s}
     IN  Goto(t, [task[t] EXCEPT !.done = done, !.lists[s] = assigned[s],
                                 !.kind = IF done = task[t].subs THEN "answered" ELSE "assigns"])
  /\ UNCHANGED <<life, parent, assigned, wanted>>

\* The answer leaves the server.
Answered(t) ==
  /\ task[t].kind = "answered"
  /\ Goto(t, Idle)
  /\ UNCHANGED <<life, parent, assigned, wanted>>

GroupCommand == \E g \in UserGroups : CreateGroup(g) \/ DeleteGroup(g)

SubGroupCommand ==
  \E s \in SubGroups :
    \/ DeleteSubgroup(s)
    \/ \E g \in UserGroups : CreateSubgroup(s, g) \/ UpdateSubgroup(s, g)

CommandAssign(t) == AssignGroupsToUser(t) \/ AssignValuesToSubgroup(t)

Next ==
  \/ GroupCommand \/ SubGroupCommand
  \/ \E x \in Users \cup Values : CreateUserOrValue(x) \/ DeleteUserOrValue(x)
  \/ \E t \in Tasks :
       \/ \E o \in Owners : \E list \in SUBSET ItemsOf(o) : PostAssignment(t, o, list)
       \/ CommandAssign(t) \/ CutShort(t)
       \/ \E g \in UserGroups : UiGetGroup(t, g)
       \/ \E subs \in SUBSET SubGroups : UiGetSubgroupsAssign(t, subs)
       \/ UiGetValues(t) \/ (\E s \in SubGroups : UiGetAssign(t, s)) \/ Answered(t)

Spec == Init /\ [][Next]_vars

-----------------------------------------------------------------------------
(* Properties.                                                               *)

\* A user or a subgroup that exists always has the whole list of the last
\* assignment that was committed for it, less what was deleted since: an assignment
\* that is refused, cut by its timeout or still under way takes nothing away
\* (assign_worker.rs:59-120).
AssignedWhole ==
  \A o \in Owners : Alive(o) => assigned[o] = {x \in wanted[o] : Alive(x)}

\* No assignment outlives what it names, and a subgroup has a group
\* (init_database.rs:81-153).
Referential ==
  /\ \A o \in Owners : assigned[o] # {} => Alive(o) /\ \A x \in assigned[o] : Alive(x)
  /\ \A s \in SubGroups : Alive(s) => parent[s] \in UserGroups /\ Alive(parent[s])

\* What a transaction has inserted keeps its parents until it commits.
ParentsKept ==
  \A t \in Tasks : task[t].kind = "inserted" =>
    \A x \in {task[t].owner} \cup task[t].list : Alive(x)

\* Nothing was ever assigned to or of an id not yet given.
NothingForNew ==
  \A o \in Owners :
    /\ life[o] = "new" => wanted[o] = {}
    /\ \A x \in wanted[o] : life[x] # "new"

\* A page has seen the list each of its subgroups has now until it reads it, and has
\* read one it has seen, less what was deleted.
AsSeen(page) ==
  \A s \in page.subs :
    /\ s \notin page.done => wanted[s] \in page.seen[s]
    /\ \A list \in page.seen[s] : \A x \in list : life[x] # "new"
    /\ (s \in page.done /\ life[s] # "deleted") =>
         \E list \in page.seen[s] :
           page.lists[s] \subseteq list /\ \A x \in list \ page.lists[s] : ~Alive(x)

ReadAsSeen == \A t \in Tasks : task[t] \in Pages => AsSeen(task[t])

\* An answered page has read all of its subgroups, a listed one none.
AnswersDone ==
  \A t \in Tasks :
    /\ task[t].kind = "answered" => task[t].done = task[t].subs
    /\ task[t].kind = "listed" => task[t].done = {}

\* The inductive invariant: assignments are whole and name only what exists, because
\* the rows of an assignment under way cannot lose their parents.
IndInv ==
  /\ TypeOK /\ AssignedWhole /\ Referential /\ ParentsKept /\ NothingForNew
  /\ ReadAsSeen /\ AnswersDone

\* Every list of values a page shows is a whole assignment the subgroup had while
\* the page was read, less values deleted since; never one half written, although
\* the page is read in several queries (user_group_worker.rs:253,
\* user_sub_group_workers.rs:209).
AnswersWhole ==
  \A t \in Tasks : task[t].kind = "answered" =>
    \A s \in task[t].subs : Alive(s) =>
      \E list \in task[t].seen[s] :
        /\ task[t].lists[s] \subseteq list
        /\ \A x \in list \ task[t].lists[s] : ~Alive(x)
=============================================================================
