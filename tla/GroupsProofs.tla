---------------------------- MODULE GroupsProofs ----------------------------
(***************************************************************************)
(* Theorems about Groups for every set of users, groups, subgroups, values *)
(* and tasks.                                                              *)
(***************************************************************************)
EXTENDS Groups, TLAPS

TaskStates == {Idle} \cup Writes \cup Pages

\* What the kind of a task says of it.
LEMMA TaskKinds ==
  ASSUME TypeOK, NEW t \in Tasks
  PROVE  /\ task[t] \in TaskStates
         /\ Writing(t) <=> task[t] \in Writes
         /\ task[t].kind \in {"listed", "assigns", "answered"} <=> task[t] \in Pages
         /\ task[t] = Idle <=> task[t].kind = "idle"
<1>1. task[t] \in TaskStates
  BY DEF TypeOK, TaskStates
<1>2. CASE task[t] = Idle
  BY <1>2 DEF Idle, Writes, Pages, Writing, TaskStates
<1>3. CASE task[t] \in Writes
  BY <1>3 DEF Idle, Writes, Pages, Writing, TaskStates
<1>4. CASE task[t] \in Pages
  BY <1>4 DEF Idle, Writes, Pages, Writing, TaskStates
<1> QED
  BY <1>1, <1>2, <1>3, <1>4 DEF TaskStates

\* A step of one task that changes no row.
LEMMA TaskStep ==
  ASSUME IndInv, NEW t \in Tasks, NEW state \in TaskStates,
         task' = [task EXCEPT ![t] = state],
         UNCHANGED <<life, parent, assigned, wanted>>,
         state \in Writes => state.list \subseteq ItemsOf(state.owner),
         state.kind = "inserted" => \A x \in {state.owner} \cup state.list : Alive(x),
         state \in Pages => AsSeen(state),
         state.kind = "answered" => state.done = state.subs,
         state.kind = "listed" => state.done = {}
  PROVE  IndInv'
<1> USE DEF IndInv
<1>1. \A u \in Tasks : task'[u] = IF u = t THEN state ELSE task[u]
  BY DEF TypeOK
<1>2. state.kind \in {"posted", "cleared", "inserted"} => state \in Writes
  BY DEF TaskStates, Idle, Writes, Pages
<1>3. TypeOK'
  <2>1. task' \in [Tasks -> {Idle} \cup Writes \cup Pages]
    BY DEF TypeOK, TaskStates
  <2>2. \A u \in Tasks : Writing(u)' => (task[u].list \subseteq ItemsOf(task[u].owner))'
    BY <1>1, <1>2 DEF TypeOK, Writing, ItemsOf
  <2> QED
    BY <2>1, <2>2 DEF TypeOK
<1>4. AssignedWhole' /\ Referential' /\ NothingForNew'
  BY DEF AssignedWhole, Referential, NothingForNew, Alive
<1>5. ParentsKept'
  BY <1>1 DEF ParentsKept, Alive
<1>6. ReadAsSeen'
  BY <1>1 DEF ReadAsSeen, AsSeen, Alive
<1>7. AnswersDone'
  BY <1>1 DEF AnswersDone
<1> QED
  BY <1>3, <1>4, <1>5, <1>6, <1>7

-----------------------------------------------------------------------------
(* Rows.                                                                     *)

LEMMA CreatedStep ==
  ASSUME IndInv, NEW x \in Owners \cup Items, Created(x),
         parent' \in [SubGroups -> UserGroups \cup {NoGroup}],
         \A s \in SubGroups : Alive(s)' => parent'[s] \in UserGroups /\ life'[parent'[s]] = "alive"
  PROVE  IndInv'
<1> USE DEF IndInv
<1>1. /\ life' \in [Owners \cup Items -> {"new", "alive", "deleted"}]
      /\ \A y \in Owners \cup Items : life'[y] = IF y = x THEN "alive" ELSE life[y]
      /\ life[x] = "new"
  BY DEF TypeOK, Created
<1>2. assigned' = assigned /\ wanted' = wanted /\ task' = task
  BY DEF Created
<1>3. TypeOK'
  BY <1>1, <1>2 DEF TypeOK, Writing
<1>4. \A o \in Owners : assigned[o] \subseteq Items /\ wanted[o] \subseteq Items
  BY DEF TypeOK
<1>5. AssignedWhole'
  <2> SUFFICES ASSUME NEW o \in Owners, life'[o] = "alive"
               PROVE  assigned[o] = {y \in wanted[o] : life'[y] = "alive"}
    BY <1>2 DEF AssignedWhole, Alive
  <2>1. \A y \in wanted[o] : life'[y] = "alive" <=> life[y] = "alive"
    BY <1>1, <1>4 DEF NothingForNew
  <2>2. CASE o = x
    BY <2>1, <2>2, <1>1 DEF NothingForNew, Referential, Alive
  <2>3. CASE o # x
    BY <2>1, <2>3, <1>1 DEF AssignedWhole, Alive
  <2> QED
    BY <2>2, <2>3
<1>6. Referential'
  BY <1>1, <1>2, <1>4 DEF Referential, Alive
<1>7. ParentsKept'
  <2> SUFFICES ASSUME NEW t \in Tasks, task[t].kind = "inserted",
                      NEW y \in {task[t].owner} \cup task[t].list
               PROVE  life'[y] = "alive"
    BY <1>2 DEF ParentsKept, Alive
  <2>1. y \in Owners \cup Items
    BY TaskKinds DEF Writing, Writes
  <2> QED
    BY <2>1, <1>1 DEF ParentsKept, Alive
<1>8. NothingForNew'
  BY <1>1, <1>2, <1>4 DEF NothingForNew
<1>9. ReadAsSeen'
  <2> SUFFICES ASSUME NEW t \in Tasks, task[t] \in Pages, NEW s \in task[t].subs
               PROVE  /\ s \notin task[t].done => wanted[s] \in task[t].seen[s]
                      /\ \A list \in task[t].seen[s] : \A y \in list : life'[y] # "new"
                      /\ (s \in task[t].done /\ life'[s] # "deleted") =>
                           \E list \in task[t].seen[s] :
                             /\ task[t].lists[s] \subseteq list
                             /\ \A y \in list \ task[t].lists[s] : life'[y] # "alive"
    BY <1>2 DEF ReadAsSeen, AsSeen, Alive
  <2>1. /\ s \in SubGroups
        /\ \A list \in task[t].seen[s] : list \subseteq Values
    BY DEF Pages
  <2>2. \A list \in task[t].seen[s] : \A y \in list :
          y \in Owners \cup Items /\ life[y] # "new" /\ life'[y] = life[y]
    BY <1>1, <2>1 DEF ReadAsSeen, AsSeen, Items
  <2>3. life'[s] # "deleted" => life[s] # "deleted"
    BY <1>1, <2>1 DEF Owners
  <2> QED
    BY <2>2, <2>3 DEF ReadAsSeen, AsSeen, Alive
<1>10. AnswersDone'
  BY <1>2 DEF AnswersDone
<1> QED
  BY <1>3, <1>5, <1>6, <1>7, <1>8, <1>9, <1>10

LEMMA DeletedStep ==
  ASSUME IndInv, NEW xs \in SUBSET (Owners \cup Items), Deleted(xs),
         \A x \in xs : Alive(x),
         \A s \in SubGroups \ xs : Alive(s) => parent[s] \notin xs
  PROVE  IndInv'
<1> USE DEF IndInv
<1>1. /\ life' \in [Owners \cup Items -> {"new", "alive", "deleted"}]
      /\ \A y \in Owners \cup Items : life'[y] = IF y \in xs THEN "deleted" ELSE life[y]
  BY DEF TypeOK, Deleted
<1>2. wanted' = wanted /\ task' = task
  BY DEF Deleted
<1>3. /\ assigned' \in [Owners -> SUBSET Items]
      /\ \A o \in Owners : assigned'[o] = IF o \in xs THEN {} ELSE assigned[o] \ xs
  BY DEF TypeOK, Deleted
<1>4. /\ parent' \in [SubGroups -> UserGroups \cup {NoGroup}]
      /\ \A s \in SubGroups : parent'[s] = IF s \in xs THEN NoGroup ELSE parent[s]
  BY DEF TypeOK, Deleted
<1>5. \A o \in Owners : assigned[o] \subseteq Items /\ wanted[o] \subseteq Items
  BY DEF TypeOK
<1>6. TypeOK'
  <2>1. \A o \in Owners : assigned'[o] \subseteq assigned[o]
    BY <1>3
  <2>2. \A o \in Owners : (assigned[o] \subseteq ItemsOf(o) /\ wanted[o] \subseteq ItemsOf(o))'
    BY <2>1, <1>2 DEF TypeOK, ItemsOf
  <2>3. \A t \in Tasks : Writing(t)' => (task[t].list \subseteq ItemsOf(task[t].owner))'
    BY <1>2 DEF TypeOK, Writing, ItemsOf
  <2> QED
    BY <1>1, <1>2, <1>3, <1>4, <2>2, <2>3 DEF TypeOK
<1>7. AssignedWhole'
  <2> SUFFICES ASSUME NEW o \in Owners, life'[o] = "alive"
               PROVE  assigned'[o] = {y \in wanted[o] : life'[y] = "alive"}
    BY <1>2 DEF AssignedWhole, Alive
  <2>1. o \notin xs /\ life[o] = "alive"
    BY <1>1
  <2>2. assigned[o] = {y \in wanted[o] : life[y] = "alive"}
    BY <2>1 DEF AssignedWhole, Alive
  <2>3. \A y \in wanted[o] : life'[y] = "alive" <=> y \notin xs /\ life[y] = "alive"
    BY <1>1, <1>5
  <2> QED
    BY <2>1, <2>2, <2>3, <1>3
<1>8. Referential'
  <2>1. ASSUME NEW o \in Owners, assigned'[o] # {}
        PROVE  life'[o] = "alive" /\ \A y \in assigned'[o] : life'[y] = "alive"
    BY <2>1, <1>1, <1>3, <1>5 DEF Referential, Alive
  <2>2. ASSUME NEW s \in SubGroups, life'[s] = "alive"
        PROVE  parent'[s] \in UserGroups /\ life'[parent'[s]] = "alive"
    BY <2>2, <1>1, <1>4 DEF Referential, Alive, Owners, Items
  <2> QED
    BY <2>1, <2>2 DEF Referential, Alive
<1>9. ParentsKept'
  <2> SUFFICES ASSUME NEW t \in Tasks, task[t].kind = "inserted",
                      NEW y \in {task[t].owner} \cup task[t].list
               PROVE  life'[y] = "alive"
    BY <1>2 DEF ParentsKept, Alive
  <2>1. y \in Owners \cup Items
    BY TaskKinds DEF Writing, Writes
  <2>2. y \notin xs
    BY DEF Deleted, MayDelete, ParentHeld
  <2> QED
    BY <2>1, <2>2, <1>1 DEF ParentsKept, Alive
<1>10. NothingForNew'
  BY <1>1, <1>2, <1>5 DEF NothingForNew
<1>11. ReadAsSeen'
  <2> SUFFICES ASSUME NEW t \in Tasks, task[t] \in Pages, NEW s \in task[t].subs
               PROVE  /\ s \notin task[t].done => wanted[s] \in task[t].seen[s]
                      /\ \A list \in task[t].seen[s] : \A y \in list : life'[y] # "new"
                      /\ (s \in task[t].done /\ life'[s] # "deleted") =>
                           \E list \in task[t].seen[s] :
                             /\ task[t].lists[s] \subseteq list
                             /\ \A y \in list \ task[t].lists[s] : life'[y] # "alive"
    BY <1>2 DEF ReadAsSeen, AsSeen, Alive
  <2>1. /\ s \in SubGroups
        /\ \A list \in task[t].seen[s] : list \subseteq Values
    BY DEF Pages
  <2>2. \A list \in task[t].seen[s] : \A y \in list :
          /\ y \in Owners \cup Items /\ life'[y] # "new"
          /\ life[y] # "alive" => life'[y] # "alive"
    BY <1>1, <2>1 DEF ReadAsSeen, AsSeen, Items
  <2>3. life'[s] # "deleted" => life[s] # "deleted"
    BY <1>1, <2>1 DEF Owners
  <2> QED
    BY <2>2, <2>3 DEF ReadAsSeen, AsSeen, Alive
<1>12. AnswersDone'
  BY <1>2 DEF AnswersDone
<1> QED
  BY <1>6, <1>7, <1>8, <1>9, <1>10, <1>11, <1>12

-----------------------------------------------------------------------------
(* Assignments.                                                              *)

LEMMA CommitStep ==
  ASSUME IndInv, NEW t \in Tasks, Commit(t)
  PROVE  IndInv'
<1> USE DEF IndInv
<1> DEFINE o == task[t].owner
           list == task[t].list
<1>1. /\ task[t] \in Writes /\ o \in Owners /\ list \subseteq ItemsOf(o)
      /\ list \subseteq Items
  <2>1. Writing(t)
    BY DEF Commit, Writing
  <2> QED
    BY <2>1, TaskKinds DEF TypeOK, Writes
<1>2. list = {} \/ \A x \in {o} \cup list : Alive(x)
  BY DEF Commit, ParentsKept
<1>3. /\ life' = life /\ parent' = parent
      /\ assigned' = [assigned EXCEPT ![o] = list]
      /\ wanted' = [wanted EXCEPT ![o] = list]
      /\ task' = [Witnessed(o, list) EXCEPT ![t] = Idle]
  BY DEF Commit
<1>4. /\ assigned' \in [Owners -> SUBSET Items] /\ wanted' \in [Owners -> SUBSET Items]
      /\ \A p \in Owners : /\ assigned'[p] = IF p = o THEN list ELSE assigned[p]
                           /\ wanted'[p] = IF p = o THEN list ELSE wanted[p]
  BY <1>1, <1>3 DEF TypeOK
<1> DEFINE Sees(u) == Reading(u) /\ o \in task[u].subs \ task[u].done
<1>5. \A u \in Tasks : task'[u] = IF u = t THEN Idle
                               ELSE IF Sees(u)
                               THEN [task[u] EXCEPT !.seen[o] = @ \cup {list}]
                               ELSE task[u]
  BY <1>3 DEF Witnessed
<1>6. ASSUME NEW u \in Tasks, Sees(u)
      PROVE  /\ task[u] \in Pages /\ task'[u] \in Pages \cup {Idle}
             /\ u # t => /\ task'[u].kind = task[u].kind /\ task'[u].subs = task[u].subs
                        /\ task'[u].done = task[u].done /\ task'[u].lists = task[u].lists
                        /\ \A s \in SubGroups : task'[u].seen[s] =
                             IF s = o THEN task[u].seen[s] \cup {list} ELSE task[u].seen[s]
  <2>1. task[u] \in Pages
    BY <1>6, TaskKinds DEF Reading
  <2>2. o \in SubGroups
    BY <1>6, <2>1 DEF Pages
  <2>3. list \in SUBSET Values
    BY <1>1, <2>2, GroupsAssumption DEF ItemsOf
  <2> DEFINE seen == [task[u].seen EXCEPT ![o] = @ \cup {list}]
  <2>4. /\ seen \in [SubGroups -> SUBSET SUBSET Values]
        /\ \A s \in SubGroups : seen[s] =
             IF s = o THEN task[u].seen[s] \cup {list} ELSE task[u].seen[s]
    BY <2>1, <2>2, <2>3 DEF Pages
  <2> HIDE DEF seen
  <2>5. u # t => task'[u] = [task[u] EXCEPT !.seen = seen]
    BY <1>5, <1>6 DEF seen
  <2>6. u = t => task'[u] = Idle
    BY <1>5
  <2> QED
    BY <2>1, <2>4, <2>5, <2>6 DEF Pages
<1>61. /\ task'[t] = Idle
       /\ \A u \in Tasks : (u # t /\ ~Sees(u)) => task'[u] = task[u]
  BY <1>5
<1> HIDE DEF o, list, Sees
<1>7. TypeOK'
  <2>1. task' \in [Tasks -> {Idle} \cup Writes \cup Pages]
    <3>1. DOMAIN task' = Tasks /\ task' = [u \in Tasks |-> task'[u]]
      BY <1>3 DEF Witnessed
    <3>2. \A u \in Tasks : task'[u] \in {Idle} \cup Writes \cup Pages
      BY <1>61, <1>6 DEF TypeOK
    <3> QED
      BY <3>1, <3>2
  <2>2. ASSUME NEW u \in Tasks, task'[u].kind \in {"posted", "cleared", "inserted"}
        PROVE  task'[u] = task[u]
    <3>1. u # t
      BY <1>61, <2>2 DEF Idle
    <3>2. ~Sees(u)
      BY <3>1, <1>6, <2>2 DEF Reading, Sees
    <3> QED
      BY <3>1, <3>2, <1>61
  <2>3. \A u \in Tasks : Writing(u)' => (task[u].list \subseteq ItemsOf(task[u].owner))'
    BY <2>2 DEF TypeOK, Writing, ItemsOf
  <2>4. \A p \in Owners : (assigned[p] \subseteq ItemsOf(p) /\ wanted[p] \subseteq ItemsOf(p))'
    BY <1>1, <1>4 DEF TypeOK, ItemsOf
  <2> QED
    BY <1>3, <1>4, <2>1, <2>3, <2>4 DEF TypeOK
<1>8. AssignedWhole'
  BY <1>1, <1>2, <1>3, <1>4 DEF AssignedWhole, Alive
<1>9. Referential'
  BY <1>1, <1>2, <1>3, <1>4 DEF Referential, Alive
<1>10. ParentsKept'
  <2> SUFFICES ASSUME NEW u \in Tasks, task'[u].kind = "inserted"
               PROVE  \A x \in {task'[u].owner} \cup task'[u].list : life[x] = "alive"
    BY <1>3 DEF ParentsKept, Alive
  <2>1. u # t
    BY <1>61 DEF Idle
  <2>2. ~Sees(u)
    BY <2>1, <1>6 DEF Reading, Sees
  <2>3. task'[u] = task[u]
    BY <2>1, <2>2, <1>61
  <2> QED
    BY <2>3 DEF ParentsKept, Alive
<1>11. NothingForNew'
  BY <1>1, <1>2, <1>3, <1>4 DEF NothingForNew, Alive
<1>12. ReadAsSeen'
  <2> SUFFICES ASSUME NEW u \in Tasks, task'[u] \in Pages
               PROVE  AsSeen(task[u])'
    BY DEF ReadAsSeen
  <2>1. u # t
    BY <1>61 DEF Idle, Pages
  <2>2. CASE Sees(u)
    <3> USE <1>6, <2>1, <2>2
    <3>1. AsSeen(task[u]) /\ task[u].subs \subseteq SubGroups
      BY DEF ReadAsSeen, Pages
    <3>2. \A x \in list : life[x] # "new"
      BY <1>2 DEF Alive
    <3>3. o \notin task[u].done
      BY DEF Sees
    <3>4. \A s \in task[u].subs : s # o => wanted'[s] = wanted[s]
      BY <3>1, <1>4 DEF Owners
    <3> SUFFICES ASSUME NEW s \in task[u].subs
                 PROVE  /\ s \notin task[u].done => wanted'[s] \in task'[u].seen[s]
                        /\ \A l \in task'[u].seen[s] : \A x \in l : life[x] # "new"
                        /\ (s \in task[u].done /\ life[s] # "deleted") =>
                             \E l \in task'[u].seen[s] :
                               /\ task[u].lists[s] \subseteq l
                               /\ \A x \in l \ task[u].lists[s] : life[x] # "alive"
      BY <1>3 DEF AsSeen, Alive
    <3>5. CASE s = o
      <4>1. wanted'[s] = list
        BY <3>5, <1>1, <1>4
      <4>2. task'[u].seen[s] = task[u].seen[s] \cup {list}
        BY <3>1, <3>5
      <4>3. \A l \in task[u].seen[s] : \A x \in l : life[x] # "new"
        BY <3>1 DEF AsSeen
      <4> QED
        BY <3>2, <3>3, <3>5, <4>1, <4>2, <4>3
    <3>6. CASE s # o
      BY <3>1, <3>4, <3>6, ZenonT(40) DEF AsSeen, Alive
    <3> QED
      BY <3>5, <3>6
  <2>3. CASE ~Sees(u)
    <3>1. task'[u] = task[u]
      BY <1>61, <2>1, <2>3
    <3>2. AsSeen(task[u]) /\ task[u].subs \subseteq SubGroups
      BY <3>1 DEF ReadAsSeen, Pages
    <3>3. o \in task[u].subs => o \in task[u].done
      <4>1. CASE Reading(u)
        BY <4>1, <2>3 DEF Sees
      <4>2. CASE ~Reading(u)
        BY <4>2, <3>1 DEF AnswersDone, Pages, Reading
      <4> QED
        BY <4>1, <4>2
    <3> QED
      BY <3>1, <3>2, <3>3, <1>3, <1>4 DEF AsSeen, Alive, Owners
  <2> QED
    BY <2>2, <2>3
<1>13. AnswersDone'
  <2> SUFFICES ASSUME NEW u \in Tasks, task'[u].kind \in {"answered", "listed"}
               PROVE  \/ task'[u].kind = "answered" /\ task'[u].done = task'[u].subs
                      \/ task'[u].kind = "listed" /\ task'[u].done = {}
    BY DEF AnswersDone
  <2>1. u # t
    BY <1>61 DEF Idle
  <2>2. /\ task'[u].kind = task[u].kind /\ task'[u].done = task[u].done
        /\ task'[u].subs = task[u].subs
    BY <2>1, <1>6, <1>61
  <2> QED
    BY <2>2 DEF AnswersDone
<1> QED
  BY <1>7, <1>8, <1>9, <1>10, <1>11, <1>12, <1>13

LEMMA WriterStep ==
  ASSUME IndInv, NEW t \in Tasks, Clear(t) \/ Insert(t) \/ CutShort(t)
  PROVE  IndInv'
<1>1. Idle \in TaskStates /\ Idle \notin Writes \cup Pages /\ Idle.kind = "idle"
  BY DEF TaskStates, Idle, Writes, Pages
<1>2. CASE task' = [task EXCEPT ![t] = Idle] /\ UNCHANGED <<life, parent, assigned, wanted>>
  BY <1>1, <1>2, TaskStep
<1>3. ASSUME Writing(t), NEW k \in {"cleared", "inserted"},
             task' = [task EXCEPT ![t] = [task[t] EXCEPT !.kind = k]],
             UNCHANGED <<life, parent, assigned, wanted>>,
             k = "inserted" => \A x \in {task[t].owner} \cup task[t].list : Alive(x)
      PROVE  IndInv'
  <2> DEFINE state == [task[t] EXCEPT !.kind = k]
  <2>1. task[t] \in Writes /\ task[t].list \subseteq ItemsOf(task[t].owner)
    BY <1>3, TaskKinds DEF IndInv, TypeOK
  <2>2. /\ state \in Writes /\ state.kind = k
        /\ state.owner = task[t].owner /\ state.list = task[t].list
    BY <2>1 DEF Writes
  <2>3. task' = [task EXCEPT ![t] = state]
    BY <1>3
  <2> HIDE DEF state
  <2>4. state \in TaskStates /\ state \notin Pages /\ state.kind # "answered"
    BY <2>2 DEF TaskStates, Writes, Pages
  <2> QED
    BY <1>3, <2>1, <2>2, <2>3, <2>4, TaskStep
<1>4. CASE Clear(t)
  BY <1>3, <1>4 DEF Clear, Goto, Writing
<1>5. CASE Insert(t)
  <2>1. CASE \A x \in {task[t].owner} \cup task[t].list : Alive(x)
    BY <1>3, <1>5, <2>1 DEF Insert, Goto, Writing
  <2>2. CASE ~\A x \in {task[t].owner} \cup task[t].list : Alive(x)
    BY <1>2, <1>5, <2>2 DEF Insert, Goto
  <2> QED
    BY <2>1, <2>2
<1>6. CASE CutShort(t)
  BY <1>2, <1>6 DEF CutShort, Goto
<1> QED
  BY <1>4, <1>5, <1>6

LEMMA PostStep ==
  ASSUME IndInv, NEW t \in Tasks, NEW o \in Owners, NEW list \in SUBSET ItemsOf(o),
         PostAssignment(t, o, list)
  PROVE  IndInv'
<1> DEFINE state == [kind |-> "posted", owner |-> o, list |-> list]
<1>1. list \subseteq Items
  BY DEF ItemsOf, Items
<1>2. state \in Writes /\ state.kind = "posted" /\ state.owner = o /\ state.list = list
  BY <1>1 DEF Writes
<1>3. task' = [task EXCEPT ![t] = state] /\ UNCHANGED <<life, parent, assigned, wanted>>
  BY DEF PostAssignment, Goto
<1> HIDE DEF state
<1>4. state \in TaskStates /\ state \notin Pages
  BY <1>2 DEF TaskStates, Writes, Pages
<1> QED
  BY <1>2, <1>3, <1>4, TaskStep

-----------------------------------------------------------------------------
(* Pages.                                                                    *)

LEMMA PageStart ==
  ASSUME IndInv, NEW t \in Tasks, NEW kind \in {"listed", "assigns"}, NEW subs \in SUBSET SubGroups,
         Goto(t, Page(kind, subs)), UNCHANGED <<life, parent, assigned, wanted>>
  PROVE  IndInv'
<1> DEFINE state == Page(kind, subs)
<1>1. \A s \in SubGroups : wanted[s] \in SUBSET Values
  BY GroupsAssumption DEF IndInv, TypeOK, ItemsOf, Owners
<1>2. /\ state.kind = kind /\ state.subs = subs /\ state.done = {}
      /\ state.seen = [s \in SubGroups |-> IF s \in subs THEN {wanted[s]} ELSE {}]
      /\ state.lists = [s \in SubGroups |-> {}]
      /\ state = [kind |-> kind, subs |-> subs, done |-> {},
                  lists |-> state.lists, seen |-> state.seen]
  BY DEF Page
<1>3. task' = [task EXCEPT ![t] = state]
  BY DEF Goto
<1> HIDE DEF state
<1>4. state \in Pages
  <2>1. state.seen \in [SubGroups -> SUBSET SUBSET Values]
    BY <1>1, <1>2
  <2>2. state.lists \in [SubGroups -> SUBSET Values]
    BY <1>2
  <2> QED
    BY <1>2, <2>1, <2>2 DEF Pages
<1>5. AsSeen(state)
  <2>1. \A s \in subs : state.seen[s] = {wanted[s]}
    BY <1>2
  <2>2. \A s \in subs : \A x \in wanted[s] : life[x] # "new"
    BY DEF IndInv, NothingForNew, Owners
  <2> QED
    BY <1>2, <2>1, <2>2 DEF AsSeen
<1>6. state \in TaskStates /\ state \notin Writes
  BY <1>4 DEF TaskStates, Writes, Pages
<1> QED
  BY <1>2, <1>3, <1>4, <1>5, <1>6, TaskStep

\* The values read for a subgroup are a list its page has seen, less what was deleted.
LEMMA ReadsWhole ==
  ASSUME IndInv, NEW page \in Pages, AsSeen(page), NEW s \in page.subs,
         s \notin page.done, life[s] # "deleted"
  PROVE  \E list \in page.seen[s] :
           assigned[s] \subseteq list /\ \A x \in list \ assigned[s] : ~Alive(x)
<1>1. s \in Owners
  BY DEF Pages, Owners
<1>2. wanted[s] \in page.seen[s]
  BY DEF AsSeen
<1>3. CASE Alive(s)
  BY <1>1, <1>2, <1>3 DEF IndInv, AssignedWhole
<1>4. CASE ~Alive(s)
  <2>1. life[s] = "new"
    BY <1>1, <1>4 DEF IndInv, TypeOK, Alive
  <2> QED
    BY <1>1, <1>2, <1>4, <2>1 DEF IndInv, NothingForNew, Referential
<1> QED
  BY <1>3, <1>4

\* A page reads the values of some of its subgroups.
LEMMA PageRead ==
  ASSUME IndInv, NEW t \in Tasks, task[t] \in Pages, NEW read \in SUBSET task[t].subs,
         read \cap task[t].done = {}, NEW state \in Pages,
         task' = [task EXCEPT ![t] = state], UNCHANGED <<life, parent, assigned, wanted>>,
         state.subs = task[t].subs, state.seen = task[t].seen,
         state.done = task[t].done \cup read,
         state.kind = "answered" => state.done = state.subs, state.kind # "listed",
         \A s \in task[t].subs : state.lists[s] = IF s \in read THEN assigned[s] ELSE task[t].lists[s]
  PROVE  IndInv'
<1>1. AsSeen(task[t])
  BY DEF IndInv, ReadAsSeen
<1>2. AsSeen(state)
  <2> SUFFICES ASSUME NEW s \in task[t].subs
               PROVE  /\ s \notin state.done => wanted[s] \in task[t].seen[s]
                      /\ \A list \in task[t].seen[s] : \A x \in list : life[x] # "new"
                      /\ (s \in state.done /\ life[s] # "deleted") =>
                           \E list \in task[t].seen[s] :
                             /\ state.lists[s] \subseteq list
                             /\ \A x \in list \ state.lists[s] : ~Alive(x)
    BY DEF AsSeen
  <2>1. CASE s \in read
    <3>1. state.lists[s] = assigned[s] /\ s \notin task[t].done /\ s \in state.done
      BY <2>1
    <3>2. life[s] # "deleted" =>
            \E list \in task[t].seen[s] :
              assigned[s] \subseteq list /\ \A x \in list \ assigned[s] : ~Alive(x)
      BY <1>1, <3>1, ReadsWhole
    <3> QED
      BY <1>1, <3>1, <3>2 DEF AsSeen
  <2>2. CASE s \notin read
    BY <1>1, <2>2 DEF AsSeen
  <2> QED
    BY <2>1, <2>2
<1>3. state \in TaskStates /\ state \notin Writes /\ state.kind # "inserted"
  BY DEF TaskStates, Writes, Pages
<1> QED
  BY <1>2, <1>3, TaskStep

LEMMA PageStep ==
  ASSUME IndInv, NEW t \in Tasks, UiGetValues(t) \/ \E s \in SubGroups : UiGetAssign(t, s)
  PROVE  IndInv'
<1>1. \A s \in SubGroups : assigned[s] \in SUBSET Values
  BY GroupsAssumption DEF IndInv, TypeOK, ItemsOf, Owners
<1>2. CASE UiGetValues(t)
  <2> DEFINE lists == [s \in SubGroups |-> IF s \in task[t].subs THEN assigned[s] ELSE {}]
             read == task[t].subs \ task[t].done
             st1 == [task[t] EXCEPT !.kind = "answered"]
             st2 == [st1 EXCEPT !.done = task[t].subs]
             state == [st2 EXCEPT !.lists = lists]
  <2>1. task[t] \in Pages /\ task[t].subs \subseteq SubGroups
    BY <1>2, TaskKinds DEF IndInv, UiGetValues, Pages
  <2>2. lists \in [SubGroups -> SUBSET Values]
    BY <1>1
  <2>3. \A s \in task[t].subs : lists[s] = assigned[s]
    BY <2>1
  <2>4. task' = [task EXCEPT ![t] = state] /\ UNCHANGED <<life, parent, assigned, wanted>>
    BY <1>2 DEF UiGetValues, Goto
  <2> HIDE DEF lists
  <2>5. /\ st1 \in Pages /\ st1.kind = "answered"
        /\ st1.subs = task[t].subs /\ st1.seen = task[t].seen
    BY <2>1 DEF Pages
  <2> HIDE DEF st1
  <2>6. /\ st2 \in Pages /\ st2.kind = "answered" /\ st2.done = task[t].subs
        /\ st2.subs = task[t].subs /\ st2.seen = task[t].seen
    BY <2>1, <2>5 DEF Pages
  <2> HIDE DEF st2
  <2>7. /\ state \in Pages /\ state.kind = "answered" /\ state.done = task[t].subs
        /\ state.subs = task[t].subs /\ state.seen = task[t].seen /\ state.lists = lists
    BY <2>2, <2>6 DEF Pages
  <2> HIDE DEF state
  <2>8. task[t].done = {}
    BY <1>2 DEF UiGetValues, IndInv, AnswersDone
  <2>9. /\ read \in SUBSET task[t].subs /\ read \cap task[t].done = {}
        /\ state.done = task[t].done \cup read /\ state.kind # "listed"
        /\ \A s \in task[t].subs :
             state.lists[s] = IF s \in read THEN assigned[s] ELSE task[t].lists[s]
    BY <2>3, <2>7, <2>8
  <2> HIDE DEF read
  <2>10. state.kind = "answered" => state.done = state.subs
    BY <2>7
  <2> QED
    BY <2>1, <2>4, <2>7, <2>9, <2>10, PageRead
<1>3. ASSUME NEW s \in SubGroups, UiGetAssign(t, s)
      PROVE  IndInv'
  <2> DEFINE done == task[t].done \cup {s}
             kind == IF done = task[t].subs THEN "answered" ELSE "assigns"
             lists == [task[t].lists EXCEPT ![s] = assigned[s]]
             st1 == [task[t] EXCEPT !.done = done]
             st2 == [st1 EXCEPT !.lists[s] = assigned[s]]
             state == [st2 EXCEPT !.kind = kind]
  <2>1. task[t] \in Pages /\ task[t].subs \subseteq SubGroups /\ s \in task[t].subs \ task[t].done
    BY <1>3, TaskKinds DEF IndInv, UiGetAssign, Pages
  <2>2. /\ lists \in [SubGroups -> SUBSET Values]
        /\ \A r \in SubGroups : lists[r] = IF r = s THEN assigned[s] ELSE task[t].lists[r]
    BY <1>1, <2>1 DEF Pages
  <2>3. done \in SUBSET SubGroups /\ kind \in {"answered", "assigns"}
    BY <2>1 DEF Pages
  <2>4. task' = [task EXCEPT ![t] = state] /\ UNCHANGED <<life, parent, assigned, wanted>>
    BY <1>3 DEF UiGetAssign, Goto
  <2>5. kind = "answered" => done = task[t].subs
    OBVIOUS
  <2>6. /\ st1 \in Pages /\ st1.lists = task[t].lists
        /\ st1.done = done /\ st1.subs = task[t].subs /\ st1.seen = task[t].seen
    <3> HIDE DEF done
    <3> QED
      BY <2>1, <2>3 DEF Pages
  <2> HIDE DEF st1
  <2>7. st2 = [st1 EXCEPT !.lists = lists]
    BY <2>6
  <2> HIDE DEF lists, done, kind, st2
  <2>8. /\ st2 \in Pages /\ st2.lists = lists
        /\ st2.done = done /\ st2.subs = task[t].subs /\ st2.seen = task[t].seen
    BY <2>2, <2>6, <2>7 DEF Pages
  <2>9. /\ state \in Pages /\ state.lists = lists /\ state.kind = kind
        /\ state.done = done /\ state.subs = task[t].subs /\ state.seen = task[t].seen
    BY <2>3, <2>8 DEF Pages
  <2> HIDE DEF state
  <2>10. /\ {s} \in SUBSET task[t].subs /\ {s} \cap task[t].done = {}
         /\ state.done = task[t].done \cup {s}
    BY <2>1, <2>9 DEF done
  <2>11. \A r \in task[t].subs :
           state.lists[r] = IF r \in {s} THEN assigned[r] ELSE task[t].lists[r]
    BY <2>1, <2>2, <2>9
  <2>12. (state.kind = "answered" => state.done = state.subs) /\ state.kind # "listed"
    BY <2>3, <2>5, <2>9
  <2> QED
    BY <2>1, <2>4, <2>9, <2>10, <2>11, <2>12, PageRead
<1> QED
  BY <1>2, <1>3

-----------------------------------------------------------------------------

\* At the start nothing is assigned and nobody does anything.
LEMMA IndInvInit == Init => IndInv
<1> SUFFICES ASSUME Init PROVE IndInv
  OBVIOUS
<1>1. \A t \in Tasks : task[t] = Idle
  BY DEF Init
<1>2. \A t \in Tasks : ~Writing(t) /\ task[t].kind = "idle" /\ task[t] \notin Pages
  BY <1>1 DEF Writing, Idle, Pages
<1>3. TypeOK
  BY <1>2 DEF Init, TypeOK
<1>4. AssignedWhole /\ Referential /\ NothingForNew
  BY DEF Init, AssignedWhole, Referential, NothingForNew, Alive
<1>5. ParentsKept /\ ReadAsSeen /\ AnswersDone
  BY <1>2 DEF ParentsKept, ReadAsSeen, AnswersDone
<1> QED
  BY <1>3, <1>4, <1>5 DEF IndInv

LEMMA IndInvStep == IndInv /\ [Next]_vars => IndInv'
<1> SUFFICES ASSUME IndInv, [Next]_vars PROVE IndInv'
  OBVIOUS
<1> USE GroupsAssumption
<1>1. ASSUME NEW g \in UserGroups, CreateGroup(g)
      PROVE  IndInv'
  <2>1. g \in Owners \cup Items /\ Created(g) /\ parent' = parent
    BY <1>1 DEF CreateGroup, Items
  <2>2. \A y \in Owners \cup Items : y \notin SubGroups \/ y # g
    BY DEF Owners
  <2>3. \A y \in Owners \cup Items : life'[y] = IF y = g THEN "alive" ELSE life[y]
    BY <2>1 DEF IndInv, TypeOK, Created
  <2>4. parent' \in [SubGroups -> UserGroups \cup {NoGroup}]
    BY <2>1 DEF IndInv, TypeOK
  <2>5. \A s \in SubGroups : Alive(s)' => parent'[s] \in UserGroups /\ life'[parent'[s]] = "alive"
    BY <2>1, <2>2, <2>3 DEF IndInv, Referential, Alive, Owners, Items
  <2> QED
    BY <2>1, <2>4, <2>5, CreatedStep
<1>2. ASSUME NEW s \in SubGroups, NEW g \in UserGroups, CreateSubgroup(s, g)
      PROVE  IndInv'
  <2>1. /\ s \in Owners \cup Items /\ Created(s) /\ Alive(g)
        /\ parent' = [parent EXCEPT ![s] = g]
    BY <1>2 DEF CreateSubgroup, Owners
  <2>2. /\ parent' \in [SubGroups -> UserGroups \cup {NoGroup}]
        /\ \A r \in SubGroups : parent'[r] = IF r = s THEN g ELSE parent[r]
    BY <2>1 DEF IndInv, TypeOK
  <2>3. \A y \in Owners \cup Items : life'[y] = IF y = s THEN "alive" ELSE life[y]
    BY <2>1 DEF IndInv, TypeOK, Created
  <2>4. \A r \in SubGroups : Alive(r)' => parent'[r] \in UserGroups /\ life'[parent'[r]] = "alive"
    BY <2>1, <2>2, <2>3 DEF IndInv, Referential, Alive, Owners, Items
  <2> QED
    BY <2>1, <2>2, <2>4, CreatedStep
<1>3. ASSUME NEW x \in Users \cup Values, CreateUserOrValue(x)
      PROVE  IndInv'
  <2>1. x \in Owners \cup Items /\ Created(x) /\ parent' = parent /\ x \notin SubGroups
    BY <1>3 DEF CreateUserOrValue, Items, Owners
  <2>2. \A y \in Owners \cup Items : life'[y] = IF y = x THEN "alive" ELSE life[y]
    BY <2>1 DEF IndInv, TypeOK, Created
  <2>3. parent' \in [SubGroups -> UserGroups \cup {NoGroup}]
    BY <2>1 DEF IndInv, TypeOK
  <2>4. \A s \in SubGroups : Alive(s)' => parent'[s] \in UserGroups /\ life'[parent'[s]] = "alive"
    BY <2>1, <2>2 DEF IndInv, Referential, Alive, Owners, Items
  <2> QED
    BY <2>1, <2>3, <2>4, CreatedStep
<1>4. ASSUME NEW g \in UserGroups, DeleteGroup(g)
      PROVE  IndInv'
  <2> DEFINE xs == {g} \cup SubgroupsOf(g)
  <2>1. xs \in SUBSET (Owners \cup Items) /\ Deleted(xs) /\ \A x \in xs : Alive(x)
    BY <1>4 DEF DeleteGroup, SubgroupsOf, Owners, Items
  <2>2. \A s \in SubGroups \ xs : Alive(s) => parent[s] \notin xs
    BY DEF SubgroupsOf, IndInv, Referential
  <2> QED
    BY <2>1, <2>2, DeletedStep
<1>5. ASSUME NEW s \in SubGroups, DeleteSubgroup(s)
      PROVE  IndInv'
  <2>1. {s} \in SUBSET (Owners \cup Items) /\ Deleted({s}) /\ \A x \in {s} : Alive(x)
    BY <1>5 DEF DeleteSubgroup, Owners
  <2>2. \A r \in SubGroups \ {s} : Alive(r) => parent[r] \notin {s}
    BY DEF IndInv, Referential
  <2> QED
    BY <2>1, <2>2, DeletedStep
<1>6. ASSUME NEW x \in Users \cup Values, DeleteUserOrValue(x)
      PROVE  IndInv'
  <2>1. {x} \in SUBSET (Owners \cup Items) /\ Deleted({x}) /\ \A y \in {x} : Alive(y)
    BY <1>6 DEF DeleteUserOrValue, Owners, Items
  <2>2. \A r \in SubGroups \ {x} : Alive(r) => parent[r] \notin {x}
    BY DEF IndInv, Referential
  <2> QED
    BY <2>1, <2>2, DeletedStep
<1>7. ASSUME NEW s \in SubGroups, NEW g \in UserGroups, UpdateSubgroup(s, g)
      PROVE  IndInv'
  <2>1. /\ parent' \in [SubGroups -> UserGroups \cup {NoGroup}]
        /\ \A r \in SubGroups : parent'[r] = IF r = s THEN g ELSE parent[r]
        /\ Alive(g) /\ UNCHANGED <<life, assigned, task, wanted>>
    BY <1>7 DEF UpdateSubgroup, IndInv, TypeOK
  <2>2. TypeOK' /\ Referential'
    BY <2>1 DEF IndInv, TypeOK, Referential, Alive, Writing
  <2>3. AssignedWhole' /\ ParentsKept' /\ NothingForNew' /\ AnswersDone'
    BY <2>1 DEF IndInv, AssignedWhole, ParentsKept, NothingForNew, AnswersDone, Alive
  <2>4. ReadAsSeen'
    BY <2>1 DEF IndInv, ReadAsSeen, AsSeen, Alive
  <2> QED
    BY <2>2, <2>3, <2>4 DEF IndInv
<1>8. ASSUME NEW t \in Tasks, NEW g \in UserGroups, UiGetGroup(t, g)
      PROVE  IndInv'
  <2>1. /\ SubgroupsOf(g) \in SUBSET SubGroups /\ Goto(t, Page("listed", SubgroupsOf(g)))
        /\ UNCHANGED <<life, parent, assigned, wanted>>
    BY <1>8 DEF UiGetGroup, SubgroupsOf
  <2> QED
    BY <2>1, PageStart
<1>9. ASSUME NEW t \in Tasks, NEW subs \in SUBSET SubGroups, UiGetSubgroupsAssign(t, subs)
      PROVE  IndInv'
  <2>1. /\ Goto(t, Page("assigns", subs))
        /\ UNCHANGED <<life, parent, assigned, wanted>>
    BY <1>9 DEF UiGetSubgroupsAssign
  <2> QED
    BY <2>1, PageStart
<1>10. ASSUME NEW t \in Tasks, Answered(t)
       PROVE  IndInv'
  <2>1. Idle \in TaskStates /\ Idle \notin Writes \cup Pages /\ Idle.kind = "idle"
    BY DEF TaskStates, Idle, Writes, Pages
  <2>2. task' = [task EXCEPT ![t] = Idle] /\ UNCHANGED <<life, parent, assigned, wanted>>
    BY <1>10 DEF Answered, Goto
  <2> QED
    BY <2>1, <2>2, TaskStep
<1>11. ASSUME NEW t \in Tasks, CommandAssign(t)
       PROVE  IndInv'
  BY <1>11, WriterStep, CommitStep DEF CommandAssign, AssignGroupsToUser, AssignValuesToSubgroup
<1>12. CASE UNCHANGED vars
  <2>1. UNCHANGED <<life, parent, assigned, task, wanted>>
    BY <1>12 DEF vars
  <2>2. TypeOK' /\ Referential'
    BY <2>1 DEF IndInv, TypeOK, Referential, Alive, Writing
  <2>3. AssignedWhole' /\ ParentsKept' /\ NothingForNew' /\ AnswersDone'
    BY <2>1 DEF IndInv, AssignedWhole, ParentsKept, NothingForNew, AnswersDone, Alive
  <2>4. ReadAsSeen'
    BY <2>1 DEF IndInv, ReadAsSeen, AsSeen, Alive
  <2> QED
    BY <2>2, <2>3, <2>4 DEF IndInv
<1>13. CASE GroupCommand \/ SubGroupCommand
  BY <1>13, <1>1, <1>2, <1>4, <1>5, <1>7 DEF GroupCommand, SubGroupCommand
<1>14. CASE \E x \in Users \cup Values : CreateUserOrValue(x) \/ DeleteUserOrValue(x)
  BY <1>14, <1>3, <1>6
<1>15. ASSUME NEW t \in Tasks,
              \/ \E o \in Owners : \E list \in SUBSET ItemsOf(o) : PostAssignment(t, o, list)
              \/ CommandAssign(t) \/ CutShort(t)
              \/ \E g \in UserGroups : UiGetGroup(t, g)
              \/ \E subs \in SUBSET SubGroups : UiGetSubgroupsAssign(t, subs)
              \/ UiGetValues(t) \/ (\E s \in SubGroups : UiGetAssign(t, s)) \/ Answered(t)
       PROVE  IndInv'
  BY <1>15, <1>8, <1>9, <1>10, <1>11, PostStep, WriterStep, PageStep
<1> QED
  BY <1>12, <1>13, <1>14, <1>15 DEF Next

\* What a user or a subgroup has assigned is the whole list of its last committed
\* assignment, less what was deleted, and names nothing that does not exist
\* (assign_worker.rs:59-120, init_database.rs:81-153).
THEOREM AssignmentsWhole == Spec => []IndInv
<1>1. Init => IndInv
  BY IndInvInit
<1>2. IndInv /\ [Next]_vars => IndInv'
  BY IndInvStep
<1> QED
  BY <1>1, <1>2, PTL DEF Spec

\* An assignment that is refused, cut by its timeout or under way takes nothing away
\* from the one before (assign_worker.rs:59-120).
THEOREM NothingTakenAway == Spec => []AssignedWhole
<1>1. IndInv => AssignedWhole
  BY DEF IndInv
<1> QED
  BY <1>1, AssignmentsWhole, PTL

\* Every list a page shows is a whole assignment of the time it was read in, less what
\* was deleted (user_group_worker.rs:253, user_sub_group_workers.rs:209).
THEOREM PagesWhole == Spec => []AnswersWhole
<1>1. IndInv => AnswersWhole
  <2> SUFFICES ASSUME IndInv, NEW t \in Tasks, task[t].kind = "answered",
                      NEW s \in task[t].subs, Alive(s)
               PROVE  \E list \in task[t].seen[s] :
                        /\ task[t].lists[s] \subseteq list
                        /\ \A x \in list \ task[t].lists[s] : ~Alive(x)
    BY DEF AnswersWhole
  <2>1. task[t] \in Pages
    BY TaskKinds DEF IndInv
  <2>2. s \in task[t].done /\ life[s] # "deleted"
    BY DEF IndInv, AnswersDone, Alive
  <2> QED
    BY <2>1, <2>2 DEF IndInv, ReadAsSeen, AsSeen
<1> QED
  BY <1>1, AssignmentsWhole, PTL
=============================================================================
