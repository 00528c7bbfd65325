--------------------------- MODULE DependencyProofs ---------------------------
(***************************************************************************)
(* The dependency graph and its reverse index: DependentsIndexed,          *)
(* NoCircularDependencies, SwitchRenames and UnfinishedDependencyKept.     *)
(*                                                                         *)
(* A step changes the lists of the tasks in one of four ways: it drops     *)
(* tasks, adds one, edits some or lets two swap ids (Relinked). Each is    *)
(* shown to keep the index and the graph without cycles. That something    *)
(* is not reachable is shown by a set of ids that is closed under the      *)
(* dependencies, holds the first ones and not the id in question.          *)
(***************************************************************************)
EXTENDS DaemonProofs, FiniteSetTheorems

-----------------------------------------------------------------------------
(* Reachability *)

Closed(succ, S) == \A x \in S : succ[x] \subseteq S

\* What a closed set with the first successors does not hold is not reached.
LEMMA ClosedSetHides ==
  ASSUME NEW succ, NEW id, NEW S \in SUBSET TaskIds, succ[id] \subseteq S, Closed(succ, S),
         NEW y, y \notin S
  PROVE  y \notin Reachable(succ, id)
  BY DEF Reachable, Closed

\* What is not reached is hidden by such a set.
LEMMA HidingSet ==
  ASSUME NEW succ, NEW id, NEW y \in TaskIds, y \notin Reachable(succ, id)
  PROVE  \E S \in SUBSET TaskIds : succ[id] \subseteq S /\ Closed(succ, S) /\ y \notin S
  BY DEF Reachable, Closed

\* The reached ids are themselves closed, and hold the first successors.
LEMMA ReachableClosed ==
  ASSUME NEW succ, \A x \in TaskIds : succ[x] \subseteq TaskIds, NEW id \in TaskIds
  PROVE  /\ Reachable(succ, id) \in SUBSET TaskIds
         /\ succ[id] \subseteq Reachable(succ, id)
         /\ Closed(succ, Reachable(succ, id))
<1>1. succ[id] \subseteq Reachable(succ, id)
  BY DEF Reachable
<1>2. ASSUME NEW x \in Reachable(succ, id), NEW y \in succ[x]
      PROVE  y \in Reachable(succ, id)
  <2>1. x \in TaskIds /\ y \in TaskIds
    BY DEF Reachable
  <2>2. SUFFICES ASSUME NEW S \in SUBSET TaskIds,
                        succ[id] \subseteq S, \A z \in S : succ[z] \subseteq S
                 PROVE  y \in S
    BY <2>1 DEF Reachable
  <2>3. x \in S
    BY <2>2 DEF Reachable
  <2>4. QED
    BY <2>2, <2>3
<1>3. QED
  BY <1>1, <1>2 DEF Reachable, Closed

\* What a reached id reaches is reached.
LEMMA ReachableTransitive ==
  ASSUME NEW succ, \A x \in TaskIds : succ[x] \subseteq TaskIds, NEW id \in TaskIds,
         NEW x \in Reachable(succ, id)
  PROVE  Reachable(succ, x) \subseteq Reachable(succ, id)
<1>1. /\ Reachable(succ, id) \in SUBSET TaskIds
      /\ Closed(succ, Reachable(succ, id))
  BY ReachableClosed
<1>2. succ[x] \subseteq Reachable(succ, id)
  BY <1>1 DEF Closed
<1>3. ASSUME NEW y \in Reachable(succ, x)
      PROVE  y \in Reachable(succ, id)
  BY <1>1, <1>2, ClosedSetHides
<1>4. QED
  BY <1>3

\* Fewer successors reach no more.
LEMMA ReachableMonotone ==
  ASSUME NEW succ, NEW more, \A x \in TaskIds : succ[x] \subseteq more[x], NEW id \in TaskIds
  PROVE  Reachable(succ, id) \subseteq Reachable(more, id)
<1>1. ASSUME NEW y \in Reachable(succ, id), y \notin Reachable(more, id)
      PROVE  FALSE
  <2>1. y \in TaskIds
    BY <1>1 DEF Reachable
  <2>2. PICK S \in SUBSET TaskIds : more[id] \subseteq S /\ Closed(more, S) /\ y \notin S
    BY <1>1, <2>1, HidingSet
  <2>3. succ[id] \subseteq S /\ Closed(succ, S)
    BY <2>2 DEF Closed
  <2>4. QED
    BY <1>1, <2>2, <2>3, ClosedSetHides
<1>2. QED
  BY <1>1

-----------------------------------------------------------------------------
(* The invariants, as predicates of a task list *)

Indexed(ts) ==
    \A i, d \in DOMAIN ts : d \in ts[i].dependencies <=> i \in ts[d].dependents

NoSelf(ts) == \A i \in DOMAIN ts : i \notin ts[i].dependencies

Acyclic(ts) == \A i \in DOMAIN ts : i \notin Reachable(Dependencies(ts), i)

\* The lists of tasks hold ids.
LEMMA DependenciesAreIds ==
  ASSUME NEW ts, TasksType(ts)
  PROVE  /\ DOMAIN ts \subseteq TaskIds
         /\ \A x \in TaskIds : Dependencies(ts)[x] \subseteq TaskIds
         /\ \A i \in DOMAIN ts : /\ Dependencies(ts)[i] = ts[i].dependencies
                                 /\ ts[i].dependencies \subseteq TaskIds
                                 /\ ts[i].dependents \subseteq TaskIds
  BY DEF TasksType, IsPartialFn, Task, Dependencies

-----------------------------------------------------------------------------
(* The ways a step changes the lists *)

\* Tasks may go, and those that stay keep their dependencies, and their dependents
\* as far as these stay.
Trimmed(ts) ==
    /\ DOMAIN ts \subseteq DOMAIN tasks
    /\ \A i \in DOMAIN ts :
          /\ ts[i].dependencies = tasks[i].dependencies
          /\ \A j \in DOMAIN ts : j \in ts[i].dependents <=> j \in tasks[i].dependents

\* A task joins that nobody names yet, and is entered in the index.
Extended(ts, id) ==
    /\ id \in TaskIds \ DOMAIN tasks
    /\ \A i \in DOMAIN tasks : id \notin tasks[i].dependencies \cup tasks[i].dependents
    /\ DOMAIN ts = DOMAIN tasks \cup {id}
    /\ ts[id].dependencies \subseteq DOMAIN tasks
    /\ ts[id].dependents = {}
    /\ \A i \in DOMAIN tasks :
          /\ ts[i].dependencies = tasks[i].dependencies
          /\ ts[i].dependents = tasks[i].dependents
                                  \cup IF i \in ts[id].dependencies THEN {id} ELSE {}

\* The tasks ids get new dependencies, each of which was checked, and the index
\* follows.
Edited(ts, ids) ==
    /\ DOMAIN ts = DOMAIN tasks
    /\ ids \subseteq DOMAIN tasks
    /\ \A i \in ids : /\ ts[i].dependencies \subseteq DOMAIN tasks \ {i}
                      /\ ~CircularDependency(i, ts[i].dependencies)
    /\ \A i \in DOMAIN tasks \ ids : ts[i].dependencies = tasks[i].dependencies
    /\ \A i, d \in DOMAIN tasks :
          i \in ts[d].dependents <=> IF i \in ids THEN d \in ts[i].dependencies
                                                  ELSE i \in tasks[d].dependents

\* Two tasks swap ids in every list.
Swapped(ts, a, b) ==
    /\ {a, b} \subseteq DOMAIN tasks
    /\ DOMAIN ts = DOMAIN tasks
    /\ \A i \in DOMAIN tasks :
          /\ ts[i].dependencies =
                {Renamed(a, b, d) : d \in tasks[Renamed(a, b, i)].dependencies}
          /\ ts[i].dependents =
                {Renamed(a, b, d) : d \in tasks[Renamed(a, b, i)].dependents}

Relinked(ts) ==
    \/ Trimmed(ts)
    \/ \E id : Extended(ts, id)
    \/ \E ids : Edited(ts, ids) /\ Cardinality(ids) <= MaxEdited /\ ids # {}
    \/ \E a, b : Swapped(ts, a, b)

\* Renaming exchanges two ids.
LEMMA RenamedIds ==
  ASSUME NEW a, NEW b, NEW i
  PROVE  /\ Renamed(a, b, i) = IF i = a THEN b ELSE IF i = b THEN a ELSE i
         /\ Renamed(a, b, Renamed(a, b, i)) = i
<1>1. \A j : Renamed(a, b, j) = IF j = a THEN b ELSE IF j = b THEN a ELSE j
  BY DEF Renamed
<1>2. QED
  BY <1>1

\* Within a set that holds both, renaming stays.
LEMMA RenamedWithin ==
  ASSUME NEW a, NEW b, NEW D, {a, b} \subseteq D, NEW i \in D
  PROVE  Renamed(a, b, i) \in D
<1>1. Renamed(a, b, i) = IF i = a THEN b ELSE IF i = b THEN a ELSE i
  BY RenamedIds
<1>2. QED
  BY <1>1

\* In a list of renamed ids stand the ids whose partners stood in the list.
LEMMA RenamedMember ==
  ASSUME NEW a, NEW b, NEW S, NEW d
  PROVE  d \in {Renamed(a, b, x) : x \in S} <=> Renamed(a, b, d) \in S
<1>1. d \in {Renamed(a, b, x) : x \in S} => Renamed(a, b, d) \in S
  BY RenamedIds
<1>2. Renamed(a, b, d) \in S => d \in {Renamed(a, b, x) : x \in S}
  BY RenamedIds
<1>3. QED
  BY <1>1, <1>2

-----------------------------------------------------------------------------
(* The index, and no task naming itself, survive all four *)

LEMMA RelinkedIndexed ==
  ASSUME Indexed(tasks), NEW ts, Relinked(ts)
  PROVE  Indexed(ts)
<1>1. CASE Trimmed(ts)
  BY <1>1 DEF Trimmed, Indexed
<1>2. ASSUME NEW id, Extended(ts, id), NEW i \in DOMAIN ts, NEW d \in DOMAIN ts
      PROVE  d \in ts[i].dependencies <=> i \in ts[d].dependents
  <2>1. CASE i = id /\ d = id
    BY <1>2, <2>1 DEF Extended
  <2>2. CASE i = id /\ d # id
    <3>1. d \in DOMAIN tasks /\ id \notin tasks[d].dependents
      BY <1>2, <2>2 DEF Extended
    <3>2. ts[d].dependents = tasks[d].dependents
                                \cup IF d \in ts[id].dependencies THEN {id} ELSE {}
      BY <1>2, <3>1 DEF Extended
    <3>3. QED
      BY <2>2, <3>1, <3>2
  <2>3. CASE i # id /\ d = id
    BY <1>2, <2>3 DEF Extended
  <2>4. CASE i # id /\ d # id
    <3>1. i \in DOMAIN tasks /\ d \in DOMAIN tasks
      BY <1>2, <2>4 DEF Extended
    <3>2. /\ ts[i].dependencies = tasks[i].dependencies
          /\ ts[d].dependents = tasks[d].dependents
                                   \cup IF d \in ts[id].dependencies THEN {id} ELSE {}
      BY <1>2, <3>1 DEF Extended
    <3>3. QED
      BY <2>4, <3>1, <3>2 DEF Indexed
  <2>5. QED
    BY <2>1, <2>2, <2>3, <2>4
<1>3. ASSUME NEW ids, Edited(ts, ids), NEW i \in DOMAIN ts, NEW d \in DOMAIN ts
      PROVE  d \in ts[i].dependencies <=> i \in ts[d].dependents
  <2>1. i \in DOMAIN tasks /\ d \in DOMAIN tasks
    BY <1>3 DEF Edited
  <2>2. i \in ts[d].dependents <=> IF i \in ids THEN d \in ts[i].dependencies
                                                ELSE i \in tasks[d].dependents
    BY <1>3, <2>1 DEF Edited
  <2>3. i \notin ids => ts[i].dependencies = tasks[i].dependencies
    BY <1>3, <2>1 DEF Edited
  <2>4. d \in tasks[i].dependencies <=> i \in tasks[d].dependents
    BY <2>1 DEF Indexed
  <2>5. QED
    BY <2>2, <2>3, <2>4
<1>4. ASSUME NEW a, NEW b, Swapped(ts, a, b), NEW i \in DOMAIN ts, NEW d \in DOMAIN ts
      PROVE  d \in ts[i].dependencies <=> i \in ts[d].dependents
  <2>1. i \in DOMAIN tasks /\ d \in DOMAIN tasks /\ {a, b} \subseteq DOMAIN tasks
    BY <1>4 DEF Swapped
  <2>2. Renamed(a, b, i) \in DOMAIN tasks /\ Renamed(a, b, d) \in DOMAIN tasks
    BY <2>1, RenamedWithin
  <2>3. /\ d \in ts[i].dependencies <=>
              Renamed(a, b, d) \in tasks[Renamed(a, b, i)].dependencies
        /\ i \in ts[d].dependents <=>
              Renamed(a, b, i) \in tasks[Renamed(a, b, d)].dependents
    BY <1>4, <2>1, RenamedMember DEF Swapped
  <2>4. QED
    BY <2>2, <2>3 DEF Indexed
<1>5. QED
  BY <1>1, <1>2, <1>3, <1>4 DEF Relinked, Indexed

LEMMA RelinkedNoSelf ==
  ASSUME NoSelf(tasks), NEW ts, Relinked(ts)
  PROVE  NoSelf(ts)
<1>1. CASE Trimmed(ts)
  BY <1>1 DEF Trimmed, NoSelf
<1>2. ASSUME NEW id, Extended(ts, id), NEW i \in DOMAIN ts
      PROVE  i \notin ts[i].dependencies
  BY <1>2 DEF Extended, NoSelf
<1>3. ASSUME NEW ids, Edited(ts, ids), NEW i \in DOMAIN ts
      PROVE  i \notin ts[i].dependencies
  BY <1>3 DEF Edited, NoSelf
<1>4. ASSUME NEW a, NEW b, Swapped(ts, a, b), NEW i \in DOMAIN ts
      PROVE  i \notin ts[i].dependencies
  <2>1. i \in DOMAIN tasks /\ Renamed(a, b, i) \in DOMAIN tasks
    BY <1>4, RenamedWithin DEF Swapped
  <2>2. i \in ts[i].dependencies <=>
            Renamed(a, b, i) \in tasks[Renamed(a, b, i)].dependencies
    BY <1>4, <2>1, RenamedMember DEF Swapped
  <2>3. QED
    BY <2>1, <2>2 DEF NoSelf
<1>5. QED
  BY <1>1, <1>2, <1>3, <1>4 DEF Relinked, NoSelf

-----------------------------------------------------------------------------
(* The graph has no cycle after any of the four, if edits come one by one *)

LEMMA TrimmedAcyclic ==
  ASSUME TasksType(tasks), Acyclic(tasks), NEW ts, TasksType(ts), Trimmed(ts)
  PROVE  Acyclic(ts)
<1>1. \A x \in TaskIds : Dependencies(ts)[x] \subseteq Dependencies(tasks)[x]
  BY DEF Trimmed, Dependencies
<1>2. \A i \in DOMAIN ts : i \in DOMAIN tasks /\ i \in TaskIds
  BY DependenciesAreIds DEF Trimmed
<1>3. QED
  BY <1>1, <1>2, ReachableMonotone DEF Acyclic

\* Nothing leads to the new task, so it closes no cycle.
LEMMA ExtendedAcyclic ==
  ASSUME TasksType(tasks), Acyclic(tasks), NEW ts, TasksType(ts), NEW id, Extended(ts, id)
  PROVE  Acyclic(ts)
<1> DEFINE succ == Dependencies(tasks)
           next == Dependencies(ts)
<1>1. /\ \A x \in TaskIds : id \notin succ[x] /\ (x # id => next[x] = succ[x])
      /\ next[id] = ts[id].dependencies /\ id \notin next[id]
      /\ \A x \in TaskIds : next[x] \subseteq TaskIds
  BY DependenciesAreIds DEF Extended, Dependencies
<1> HIDE DEF succ, next
<1>2. ASSUME NEW i \in DOMAIN tasks
      PROVE  i \notin Reachable(next, i)
  <2>1. i \in TaskIds /\ i # id
    BY DependenciesAreIds DEF Extended
  <2>2. i \notin Reachable(succ, i)
    BY DEF Acyclic, succ
  <2>3. PICK S \in SUBSET TaskIds : succ[i] \subseteq S /\ Closed(succ, S) /\ i \notin S
    BY <2>1, <2>2, HidingSet
  <2> DEFINE T == S \ {id}
  <2>4. next[i] \subseteq T /\ T \in SUBSET TaskIds /\ i \notin T
    BY <1>1, <2>1, <2>3
  <2>5. Closed(next, T)
    BY <1>1, <2>3 DEF Closed
  <2> HIDE DEF T
  <2>6. QED
    BY <2>4, <2>5, ClosedSetHides
<1>3. id \notin Reachable(next, id)
  <2> DEFINE T == TaskIds \ {id}
  <2>1. next[id] \subseteq T /\ Closed(next, T)
    BY <1>1 DEF Closed, Extended
  <2>2. id \notin T /\ T \in SUBSET TaskIds
    OBVIOUS
  <2> HIDE DEF T
  <2>3. QED
    BY <2>1, <2>2, ClosedSetHides
<1>4. QED
  BY <1>2, <1>3 DEF Acyclic, Extended, next

\* One task gets other dependencies, from none of which it is reached: whoever reached
\* it now reaches these and what they reach, and still not itself.
LEMMA EditedAcyclic ==
  ASSUME TasksType(tasks), Acyclic(tasks), NEW ts, TasksType(ts), NEW e, Edited(ts, {e})
  PROVE  Acyclic(ts)
<1> DEFINE succ == Dependencies(tasks)
           next == Dependencies(ts)
           deps == ts[e].dependencies
           behind == {y \in TaskIds : \E d \in deps : y = d \/ y \in Reachable(succ, d)}
<1>1. e \in DOMAIN tasks /\ e \in TaskIds /\ DOMAIN ts = DOMAIN tasks
  BY DependenciesAreIds DEF Edited
<1>2. /\ \A x \in TaskIds : succ[x] \subseteq TaskIds
      /\ \A x \in TaskIds \ {e} : next[x] = succ[x]
      /\ next[e] = deps
      /\ deps \subseteq TaskIds \ {e}
      /\ \A d \in deps : e \notin Reachable(succ, d)
  BY <1>1, DependenciesAreIds DEF Edited, Dependencies, CircularDependency
<1> HIDE DEF succ, next, deps
<1>3. deps \subseteq behind /\ e \notin behind /\ behind \in SUBSET TaskIds
  BY <1>2
<1>4. ASSUME NEW x \in behind
      PROVE  next[x] \subseteq behind
  <2>1. x \in TaskIds /\ next[x] = succ[x] /\ succ[x] \subseteq TaskIds
    BY <1>2, <1>3
  <2>2. PICK d \in deps : x = d \/ x \in Reachable(succ, d)
    OBVIOUS
  <2>3. /\ succ[d] \subseteq Reachable(succ, d)
        /\ Closed(succ, Reachable(succ, d))
    BY <1>2, ReachableClosed
  <2>4. succ[x] \subseteq Reachable(succ, d)
    BY <2>2, <2>3 DEF Closed
  <2>5. QED
    BY <2>1, <2>4
<1> DEFINE reached(y) == Reachable(succ, y)
<1>5. ASSUME NEW y \in DOMAIN tasks
      PROVE  y \notin Reachable(next, y)
  <2>1. y \in TaskIds /\ y \notin Reachable(succ, y)
    BY DependenciesAreIds DEF Acyclic, succ
  <2>2. /\ reached(y) \in SUBSET TaskIds
        /\ succ[y] \subseteq reached(y)
        /\ \A x \in reached(y) : succ[x] \subseteq reached(y)
    BY <1>2, <2>1, ReachableClosed DEF Closed
  <2>3. CASE y = e
    <3>1. Closed(next, behind)
      BY <1>4 DEF Closed
    <3> HIDE DEF behind
    <3>2. QED
      BY <1>2, <1>3, <2>3, <3>1, ClosedSetHides
  <2>4. CASE y # e /\ e \notin Reachable(succ, y)
    <3>1. Closed(next, reached(y)) /\ next[y] \subseteq reached(y)
      BY <1>2, <2>1, <2>2, <2>4 DEF Closed
    <3>2. QED
      BY <2>1, <2>2, <3>1, ClosedSetHides
  <2>5. CASE y # e /\ e \in Reachable(succ, y)
    <3>1. y \notin behind
      <4>1. SUFFICES ASSUME NEW d \in deps, y = d \/ y \in Reachable(succ, d)
                     PROVE  FALSE
        OBVIOUS
      <4>2. d \in TaskIds /\ e \notin Reachable(succ, d)
        BY <1>2
      <4>3. y # d
        BY <2>5, <4>2
      <4>4. Reachable(succ, y) \subseteq Reachable(succ, d)
        BY <1>2, <4>1, <4>2, <4>3, ReachableTransitive
      <4>5. QED
        BY <2>5, <4>2, <4>4
    <3> DEFINE S == reached(y) \cup behind
    <3>2. \A x \in reached(y) : next[x] \subseteq S
      BY <1>2, <1>3, <2>2
    <3>3. Closed(next, S)
      BY <1>4, <3>2 DEF Closed
    <3>4. next[y] \subseteq S /\ S \in SUBSET TaskIds /\ y \notin S
      BY <1>2, <1>3, <2>1, <2>2, <2>5, <3>1
    <3> HIDE DEF S
    <3>5. QED
      BY <3>3, <3>4, ClosedSetHides
  <2>6. QED
    BY <2>3, <2>4, <2>5
<1>6. QED
  BY <1>1, <1>5 DEF Acyclic, next

\* A renamed graph has no cycle if the graph has none.
LEMMA SwappedAcyclic ==
  ASSUME TasksType(tasks), Acyclic(tasks), NEW ts, TasksType(ts), NEW a, NEW b,
         Swapped(ts, a, b)
  PROVE  Acyclic(ts)
<1> DEFINE succ == Dependencies(tasks)
           next == Dependencies(ts)
<1>1. /\ {a, b} \subseteq DOMAIN tasks /\ DOMAIN tasks \subseteq TaskIds
      /\ DOMAIN ts = DOMAIN tasks
      /\ \A x \in TaskIds : Renamed(a, b, x) \in TaskIds
      /\ \A x \in DOMAIN tasks : Renamed(a, b, x) \in DOMAIN tasks
  <2>1. {a, b} \subseteq DOMAIN tasks /\ DOMAIN tasks \subseteq TaskIds /\ DOMAIN ts = DOMAIN tasks
    BY DependenciesAreIds DEF Swapped
  <2>2. QED
    BY <2>1, RenamedWithin
<1>2. ASSUME NEW x \in TaskIds, NEW y \in next[x]
      PROVE  Renamed(a, b, y) \in succ[Renamed(a, b, x)]
  <2>1. x \in DOMAIN tasks /\ y \in ts[x].dependencies
    BY <1>1, <1>2 DEF Dependencies
  <2>2. Renamed(a, b, y) \in tasks[Renamed(a, b, x)].dependencies
    BY <2>1, RenamedMember DEF Swapped
  <2>3. QED
    BY <1>1, <2>1, <2>2 DEF Dependencies
<1>3. \A x \in TaskIds : next[x] \subseteq TaskIds
  BY DependenciesAreIds
<1> HIDE DEF succ, next
<1>4. ASSUME NEW i \in DOMAIN tasks
      PROVE  i \notin Reachable(next, i)
  <2> DEFINE j == Renamed(a, b, i)
  <2>1. i \in TaskIds /\ j \in TaskIds /\ j \notin Reachable(succ, j)
    BY <1>1 DEF Acyclic, succ
  <2>2. PICK S \in SUBSET TaskIds : succ[j] \subseteq S /\ Closed(succ, S) /\ j \notin S
    BY <2>1, HidingSet
  <2> DEFINE T == {x \in TaskIds : Renamed(a, b, x) \in S}
  <2>3. next[i] \subseteq T
    BY <1>2, <1>3, <2>1, <2>2
  <2>4. ASSUME NEW x \in T
        PROVE  next[x] \subseteq T
    BY <1>2, <1>3, <2>2 DEF Closed
  <2>5. T \in SUBSET TaskIds /\ i \notin T /\ Closed(next, T)
    BY <2>2, <2>4 DEF Closed
  <2> HIDE DEF T
  <2>6. QED
    BY <2>3, <2>5, ClosedSetHides
<1>5. QED
  BY <1>1, <1>4 DEF Acyclic, next

-----------------------------------------------------------------------------
(* The task handler and the requests *)

\* No id is given out again that a list still holds, and no task swaps ids with one
\* it depends on.
NoIdConfusion == Commands \cap {"add_reused", "switch_related"} = {}

\* The lists stay as they are.
SameLists(ts) ==
    /\ DOMAIN ts = DOMAIN tasks
    /\ \A i \in DOMAIN tasks : /\ ts[i].dependencies = tasks[i].dependencies
                               /\ ts[i].dependents = tasks[i].dependents

\* The tasks are the same, whatever became of their lists.
Settled(ts) == Relinked(ts) /\ DOMAIN ts = DOMAIN tasks

LEMMA SameListsSettled ==
  ASSUME NEW ts, SameLists(ts)
  PROVE  Settled(ts)
  BY DEF SameLists, Trimmed, Relinked, Settled

LEMMA SameTasksSettled ==
  ASSUME UNCHANGED tasks
  PROVE  Settled(tasks')
  BY SameListsSettled DEF SameLists

\* A new status touches no list.
LEMMA SetStatusSameLists ==
  ASSUME TasksType(tasks), NEW ids, NEW status
  PROVE  SameLists(SetStatus(ids, status))
  BY DEF TasksType, IsPartialFn, Task, SetStatus, SameLists

NoResets(gs) == \A g \in DOMAIN gs : gs[g].status # "Reset"

\* The task handler changes statuses, and drops the tasks of reset groups.
LEMMA TaskHandlerRelinked ==
  ASSUME TasksType(tasks), TaskHandlerStep
  PROVE  Relinked(tasks') /\ (NoResets(groups) => Settled(tasks'))
<1>1. CASE HandleFinishedTasks
  <2>1. CASE NoChange
    BY <2>1, SameTasksSettled DEF NoChange, Settled
  <2>2. CASE ~NoChange
    <3> DEFINE exit == [s \in Finished |-> ChildAt(children, s)]
               ts == [i \in DOMAIN tasks |->
                        IF \E s \in Finished : exit[s].task = i
                        THEN [tasks[i] EXCEPT !.status =
                                exit[CHOOSE s \in Finished : exit[s].task = i].proc]
                        ELSE tasks[i]]
    <3>1. tasks' = ts
      BY <1>1, <2>2 DEF HandleFinishedTasks, SaveOrShutdown
    <3> HIDE DEF exit
    <3>2. SameLists(ts)
      BY DEF TasksType, IsPartialFn, Task, SameLists
    <3>3. QED
      BY <3>1, <3>2, SameListsSettled DEF Settled
  <2>3. QED
    BY <2>1, <2>2
<1>2. CASE HandleShutdown
  BY <1>2, SameTasksSettled DEF HandleShutdown, NoChange, Settled
<1>3. CASE HandleGroupResets
  <2>1. PICK ids : tasks' = [i \in DOMAIN tasks \ ids |-> tasks[i]]
    BY <1>3 DEF HandleGroupResets
  <2>2. Relinked(tasks')
    BY <2>1 DEF Trimmed, Relinked
  <2>3. ASSUME NoResets(groups)
        PROVE  DOMAIN tasks' = DOMAIN tasks
    BY <1>3, <2>3 DEF HandleGroupResets, ResetTasks, NoResets
  <2>4. QED
    BY <2>2, <2>3 DEF Settled
<1>4. CASE EnqueueDelayedTasks \/ CheckFailedDependencies \/ SpawnNew
  <2>1. UNCHANGED tasks \/ \E ids, status : tasks' = SetStatus(ids, status)
    BY <1>4 DEF EnqueueDelayedTasks, CheckFailedDependencies, SpawnNew, SpawnProcess,
                NoChange, SaveOrShutdown
  <2>2. QED
    BY <2>1, SameTasksSettled, SetStatusSameLists, SameListsSettled DEF Settled
<1>5. QED
  BY <1>1, <1>2, <1>3, <1>4 DEF TaskHandlerStep

\* Requests that change statuses at most.
LEMMA StatusRequestSettled ==
  ASSUME TasksType(tasks),
         \/ ClientEnqueue \/ ClientStash \/ ClientKill \/ ClientPause \/ ClientReset
         \/ ClientStart \/ StartStep
  PROVE  Settled(tasks')
<1>1. UNCHANGED tasks \/ \E ids, status : tasks' = SetStatus(ids, status)
  <2>1. CASE ClientEnqueue \/ ClientStash
    BY <2>1 DEF ClientEnqueue, ClientStash, Enqueue, Stash
  <2>2. CASE ClientKill \/ ClientPause \/ ClientReset
    BY <2>2 DEF ClientKill, ClientPause, ClientReset, Kill, Pause, Reset, Refuse, NoChange,
                SaveOrShutdown
  <2>3. CASE ClientStart
    BY <2>3 DEF ClientStart, StartTasks, StartSelection, ResumeTasks, Refuse, NoChange,
                SaveOrShutdown
  <2>4. CASE StartStep
    BY <2>4 DEF StartStep, StartDone, StartNext, SpawnProcess, NoChange, SaveOrShutdown
  <2>5. QED
    BY <2>1, <2>2, <2>3, <2>4
<1>2. QED
  BY <1>1, SameTasksSettled, SetStatusSameLists, SameListsSettled

\* restart puts tasks back with the lists they had.
LEMMA RestartSettled ==
  ASSUME TasksType(tasks), ClientRestart
  PROVE  Settled(tasks')
<1>1. PICK ids \in IdSets, status \in {"Queued", "Stashed"}, immediate \in BOOLEAN :
        \E priority \in [ids -> Priorities] : RestartMultiple(ids, status, priority, immediate)
  BY DEF ClientRestart
<1>2. PICK priority : RestartMultiple(ids, status, priority, immediate)
  BY <1>1
<1>3. SameLists(tasks')
  BY <1>2 DEF RestartMultiple, TasksType, IsPartialFn, Task, SameLists
<1>4. QED
  BY <1>3, SameListsSettled

\* add gives the new task an id that no list holds.
LEMMA AddTaskRelinked ==
  ASSUME NoIdConfusion, TasksType(tasks), ClientAdd
  PROVE  Relinked(tasks')
<1>1. ~IdStillNamed
  BY DEF ClientAdd, NoIdConfusion
<1>2. PICK name \in GroupNames, status \in AddStatus, deps \in SUBSET TaskIds,
           priority \in Priorities, immediate \in BOOLEAN :
             AddTask(name, status, deps, priority, immediate)
  BY DEF ClientAdd
<1>3. CASE Refuse
  BY <1>3, SameTasksSettled DEF Refuse, NoChange, Settled
<1>4. CASE ~Refuse
  <2> DEFINE task == NewTask(name, status, deps, priority)
  <2>1. PICK id \in TaskIds :
          IsNextTaskId(id) /\ deps \subseteq DOMAIN tasks /\ tasks' = WithTask(id, task)
    BY <1>2, <1>4 DEF AddTask, SaveOrFailure
  <2>2. id \notin DOMAIN tasks
    BY <2>1 DEF IsNextTaskId, TaskIds
  <2>3. \A i \in DOMAIN tasks : id \notin tasks[i].dependencies \cup tasks[i].dependents
    BY <1>1, <2>1 DEF IdStillNamed
  <2>4. task.dependencies = deps /\ task.dependents = {}
    BY DEF NewTask
  <2> HIDE DEF task
  <2>5. /\ DOMAIN tasks' = DOMAIN tasks \cup {id}
        /\ tasks'[id] = task
        /\ \A i \in DOMAIN tasks :
              /\ tasks'[i].dependencies = tasks[i].dependencies
              /\ tasks'[i].dependents = tasks[i].dependents
                                          \cup IF i \in deps THEN {id} ELSE {}
    BY <2>1, <2>2, <2>4 DEF WithTask, TasksType, IsPartialFn, Task
  <2>6. Extended(tasks', id)
    BY <2>1, <2>2, <2>3, <2>4, <2>5 DEF Extended
  <2>7. QED
    BY <2>6 DEF Relinked
<1>5. QED
  BY <1>3, <1>4

\* Locking and unlocking touch no list; an edit that passes the checks replaces
\* dependencies and moves the tasks in the index.
LEMMA EditSettled ==
  ASSUME TasksType(tasks), Indexed(tasks), ClientEdit
  PROVE  Settled(tasks')
<1>1. ASSUME NEW ids
      PROVE  SameLists(Unlocked(ids))
  BY DEF TasksType, IsPartialFn, Task, Unlocked, SameLists
<1>2. ASSUME NEW ids, EditRequest(ids)
      PROVE  Settled(tasks')
  <2>1. PICK locked :
          tasks' = [i \in DOMAIN tasks |->
              IF i \in locked
              THEN [tasks[i] EXCEPT !.status = "Locked", !.previous = tasks[i].status]
              ELSE tasks[i]]
    BY <1>2 DEF EditRequest
  <2>2. SameLists(tasks')
    BY <2>1 DEF TasksType, IsPartialFn, Task, SameLists
  <2>3. QED
    BY <2>2, SameListsSettled
<1>3. ASSUME NEW ids, EditRestore(ids)
      PROVE  Settled(tasks')
  BY <1>1, <1>3, SameListsSettled DEF EditRestore
<1>4. ASSUME NEW ids \in IdSets, Cardinality(ids) <= MaxEdited,
             NEW edits \in [ids -> EditableTask], Edit(edits)
      PROVE  Settled(tasks')
  <2>1. CASE Refuse
    BY <2>1, SameTasksSettled DEF Refuse, NoChange
  <2>2. CASE ~Refuse
    <3> DEFINE edited == [i \in DOMAIN tasks |->
            IF i \in DOMAIN edits
            THEN [Unlocked({i})[i] EXCEPT !.dependencies = edits[i].dependencies,
                                          !.priority = edits[i].priority]
            ELSE tasks[i]]
          dropped(d) ==
            {i \in DOMAIN edits : d \in tasks[i].dependencies \ edits[i].dependencies}
          gained(d) ==
            {i \in DOMAIN edits : d \in edits[i].dependencies \ tasks[i].dependencies}
          ts == [d \in DOMAIN tasks |-> [edited[d] EXCEPT
                    !.dependents = (@ \ dropped(d)) \cup gained(d)]]
    <3>1. ValidEdit(edits) /\ tasks' = ts
      BY <1>4, <2>2 DEF Edit, SaveOrFailure
    <3>2. ASSUME NEW i \in DOMAIN tasks
          PROVE  /\ ts[i].dependencies = IF i \in ids THEN edits[i].dependencies
                                                      ELSE tasks[i].dependencies
                 /\ ts[i].dependents = (tasks[i].dependents \ dropped(i)) \cup gained(i)
      <4> DEFINE unlocked == Unlocked({i})[i]
      <4>1. /\ DOMAIN unlocked = {"group", "status", "previous", "dependencies",
                                  "dependents", "priority"}
            /\ unlocked.dependents = tasks[i].dependents
            /\ DOMAIN tasks[i] = DOMAIN unlocked
        BY DEF TasksType, IsPartialFn, Task, Unlocked
      <4> HIDE DEF unlocked
      <4>2. /\ DOMAIN edited[i] = {"group", "status", "previous", "dependencies",
                                   "dependents", "priority"}
            /\ edited[i].dependents = tasks[i].dependents
            /\ edited[i].dependencies = IF i \in ids THEN edits[i].dependencies
                                                     ELSE tasks[i].dependencies
        BY <4>1 DEF unlocked
      <4> HIDE DEF edited, dropped, gained
      <4>3. QED
        BY <4>2
    <3>3. DOMAIN ts = DOMAIN tasks /\ ids \subseteq DOMAIN tasks
      BY <3>1 DEF ValidEdit
    <3> HIDE DEF ts, edited
    <3>4. \A i \in ids : /\ ts[i].dependencies \subseteq DOMAIN tasks \ {i}
                         /\ ~CircularDependency(i, ts[i].dependencies)
      BY <3>1, <3>2, <3>3 DEF ValidEdit
    <3>5. ASSUME NEW i \in DOMAIN tasks, NEW d \in DOMAIN tasks
          PROVE  i \in ts[d].dependents <=> IF i \in ids THEN d \in ts[i].dependencies
                                                         ELSE i \in tasks[d].dependents
      BY <3>2 DEF Indexed
    <3>6. Edited(ts, ids)
      BY <3>2, <3>3, <3>4, <3>5 DEF Edited
    <3>7. ids # {}
      BY DEF IdSets
    <3>8. \E S : Edited(ts, S) /\ Cardinality(S) <= MaxEdited /\ S # {}
      BY <1>4, <3>6, <3>7, Zenon
    <3>9. Settled(ts)
      BY <3>3, <3>8 DEF Relinked, Settled
    <3>10. QED
      BY <3>1, <3>9
  <2>3. QED
    BY <2>1, <2>2
<1>5. QED
  BY <1>2, <1>3, <1>4 DEF ClientEdit

\* Two tasks that do not depend on each other swap ids: where a list is not rewritten
\* it holds both ids or neither.
LEMMA SwitchSwaps ==
  ASSUME TasksType(tasks), Indexed(tasks), NoSelf(tasks),
         NEW a \in TaskIds, NEW b \in TaskIds, Switch(a, b), ~Related(a, b)
  PROVE  Refuse \/ Swapped(tasks', a, b)
<1>1. CASE Refuse
  BY <1>1
<1>2. CASE ~Refuse
  <2> DEFINE sigma(i) == CASE i = a -> b [] i = b -> a [] OTHER -> i
             renamed(S) == {sigma(i) : i \in S}
             swapped == [i \in DOMAIN tasks |-> tasks[sigma(i)]]
             deps == OnlyOne(tasks[a].dependencies, tasks[b].dependencies)
             dents == OnlyOne(tasks[a].dependents, tasks[b].dependents)
             ts == [i \in DOMAIN tasks |->
                     [swapped[i] EXCEPT
                        !.dependents = IF i \in deps THEN renamed(@) ELSE @,
                        !.dependencies = IF i \in dents THEN renamed(@) ELSE @]]
  <2>1. /\ tasks' = ts
        /\ {a, b} \subseteq DOMAIN tasks
    BY <1>2 DEF Switch, SaveOrFailure, WithStatus
  <2>2. \A i : sigma(i) = Renamed(a, b, i)
    BY DEF Renamed
  <2>3. \A i : Renamed(a, b, i) = IF i = a THEN b ELSE IF i = b THEN a ELSE i
    BY RenamedIds
  <2>4. \A S : renamed(S) = {Renamed(a, b, d) : d \in S}
    BY <2>2
  <2>5. ASSUME NEW S, a \in S <=> b \in S
        PROVE  {Renamed(a, b, d) : d \in S} = S
    <3>1. \A d : d \in {Renamed(a, b, x) : x \in S} <=> Renamed(a, b, d) \in S
      BY RenamedMember
    <3>2. \A d : Renamed(a, b, d) \in S <=> d \in S
      BY <2>3, <2>5
    <3>3. QED
      BY <3>1, <3>2
  <2>6. \A i \in DOMAIN tasks : /\ Renamed(a, b, i) \in DOMAIN tasks
                                /\ swapped[i] = tasks[Renamed(a, b, i)]
                                /\ swapped[i] \in Task
    <3>1. \A i \in DOMAIN tasks : Renamed(a, b, i) \in DOMAIN tasks
      BY <2>1, RenamedWithin
    <3> HIDE DEF sigma
    <3>2. QED
      BY <2>2, <3>1 DEF TasksType, IsPartialFn
  <2> HIDE DEF swapped, renamed, sigma, deps, dents
  <2>7. ASSUME NEW i \in DOMAIN tasks
        PROVE  LET t == tasks[Renamed(a, b, i)]
               IN  /\ ts[i].dependencies = IF i \in dents THEN renamed(t.dependencies)
                                                          ELSE t.dependencies
                   /\ ts[i].dependents = IF i \in deps THEN renamed(t.dependents)
                                                       ELSE t.dependents
    <3> DEFINE u == swapped[i]
    <3>1. DOMAIN u = {"group", "status", "previous", "dependencies", "dependents", "priority"}
      BY <2>6 DEF Task
    <3>2. ts[i] = [u EXCEPT !.dependents = IF i \in deps THEN renamed(u.dependents)
                                                         ELSE u.dependents,
                            !.dependencies = IF i \in dents THEN renamed(u.dependencies)
                                                            ELSE u.dependencies]
      OBVIOUS
    <3> HIDE DEF ts
    <3>3. u = tasks[Renamed(a, b, i)]
      BY <2>6
    <3> HIDE DEF u
    <3>4. /\ ts[i].dependencies = IF i \in dents THEN renamed(u.dependencies)
                                                  ELSE u.dependencies
          /\ ts[i].dependents = IF i \in deps THEN renamed(u.dependents)
                                               ELSE u.dependents
      BY <3>1, <3>2
    <3>5. QED
      BY <3>3, <3>4
  <2>8. DOMAIN ts = DOMAIN tasks
    OBVIOUS
  <2> HIDE DEF ts
  <2>9. /\ a \notin tasks[a].dependencies /\ a \notin tasks[b].dependencies
        /\ b \notin tasks[a].dependencies /\ b \notin tasks[b].dependencies
    BY <2>1 DEF Related, NoSelf
  <2>10. /\ a \notin tasks[a].dependents /\ a \notin tasks[b].dependents
         /\ b \notin tasks[a].dependents /\ b \notin tasks[b].dependents
    BY <2>1, <2>9 DEF Indexed
  <2>11. ASSUME NEW i \in DOMAIN tasks, i \notin dents
         PROVE  LET t == tasks[Renamed(a, b, i)]
                IN  a \in t.dependencies <=> b \in t.dependencies
    <3>1. CASE i \in {a, b}
      BY <2>3, <2>9, <3>1
    <3>2. CASE i \notin {a, b}
      <4>1. i \in tasks[a].dependents <=> i \in tasks[b].dependents
        BY <2>11 DEF dents, OnlyOne
      <4>2. QED
        BY <2>1, <2>3, <3>2, <4>1 DEF Indexed
    <3>3. QED
      BY <3>1, <3>2
  <2>12. ASSUME NEW i \in DOMAIN tasks, i \notin deps
         PROVE  LET t == tasks[Renamed(a, b, i)]
                IN  a \in t.dependents <=> b \in t.dependents
    <3>1. CASE i \in {a, b}
      BY <2>3, <2>10, <3>1
    <3>2. CASE i \notin {a, b}
      <4>1. i \in tasks[a].dependencies <=> i \in tasks[b].dependencies
        BY <2>12 DEF deps, OnlyOne
      <4>2. QED
        BY <2>1, <2>3, <3>2, <4>1 DEF Indexed
    <3>3. QED
      BY <3>1, <3>2
  <2>13. ASSUME NEW i \in DOMAIN tasks
         PROVE  LET t == tasks[Renamed(a, b, i)]
                IN  /\ ts[i].dependencies = {Renamed(a, b, d) : d \in t.dependencies}
                    /\ ts[i].dependents = {Renamed(a, b, d) : d \in t.dependents}
    BY <2>4, <2>5, <2>7, <2>11, <2>12
  <2>14. QED
    BY <2>1, <2>8, <2>13 DEF Swapped
<1>3. QED
  BY <1>1, <1>2

\* The index of the tasks that stay forgets only tasks that go.
LEMMA WithoutTrimmed ==
  ASSUME TasksType(tasks), NEW ids
  PROVE  Trimmed(Without(ids)) /\ DOMAIN Without(ids) = DOMAIN tasks \ ids
  BY DEF TasksType, IsPartialFn, Task, Without, Trimmed

LEMMA RemoveCleanRelinked ==
  ASSUME TasksType(tasks), ClientRemove \/ ClientClean
  PROVE  Relinked(tasks')
<1>1. UNCHANGED tasks \/ \E ids : tasks' = Without(ids)
  BY DEF ClientRemove, ClientClean, Remove, Clean, NoChange, SaveOrFailure
<1>2. QED
  BY <1>1, WithoutTrimmed, SameTasksSettled DEF Relinked, Settled

\* The other requests, exits and crashes leave the tasks alone.
LEMMA OtherStepsSameTasks ==
  ASSUME \/ ClientGroup \/ ClientParallel \/ ClientShutdown
         \/ ProcessExit \/ StoppedProcessKilled \/ KilledProcessExit
         \/ Crash \/ UNCHANGED vars
  PROVE  UNCHANGED tasks
  BY DEF ClientGroup, ClientParallel, ClientShutdown, GroupAdd, GroupRemove, SetParallelTasks,
         Shutdown, Refuse, NoChange, SaveOrFailure, ProcessExit, StoppedProcessKilled,
         KilledProcessExit, ProcessChanges, Crash, vars

\* Every step but a start of the daemon changes the lists in one of the four ways, and
\* as long as no group is reset only add, remove and clean change which tasks there are.
LEMMA NextRelinked ==
  ASSUME NoIdConfusion, TasksType(tasks), Indexed(tasks), NoSelf(tasks), [Next]_vars, ~Restart
  PROVE  /\ Relinked(tasks')
         /\ \/ NoResets(groups) => Settled(tasks')
            \/ ClientAdd \/ ClientRemove \/ ClientClean
<1>1. CASE TaskHandlerStep
  BY <1>1, TaskHandlerRelinked
<1>2. CASE ClientAdd
  BY <1>2, AddTaskRelinked
<1>3. CASE \/ ClientEnqueue \/ ClientStash \/ ClientKill \/ ClientPause \/ ClientReset
           \/ ClientStart \/ StartStep
  BY <1>3, StatusRequestSettled DEF Settled
<1>4. CASE ClientRestart
  BY <1>4, RestartSettled DEF Settled
<1>5. CASE ClientEdit
  BY <1>5, EditSettled DEF Settled
<1>6. CASE ClientSwitch
  <2>1. PICK a \in TaskIds, b \in TaskIds : Switch(a, b) /\ ~Related(a, b)
    BY <1>6 DEF ClientSwitch, NoIdConfusion
  <2>2. UNCHANGED tasks \/ Swapped(tasks', a, b)
    BY <2>1, SwitchSwaps DEF Refuse, NoChange
  <2>3. Swapped(tasks', a, b) => Relinked(tasks')
    BY DEF Relinked
  <2>4. Swapped(tasks', a, b) => DOMAIN tasks' = DOMAIN tasks
    BY DEF Swapped
  <2>5. Settled(tasks')
    BY <2>2, <2>3, <2>4, SameTasksSettled DEF Settled
  <2>6. QED
    BY <2>5 DEF Settled
<1>7. CASE ClientRemove \/ ClientClean
  BY <1>7, RemoveCleanRelinked
<1>8. CASE \/ ClientGroup \/ ClientParallel \/ ClientShutdown
           \/ ProcessExit \/ StoppedProcessKilled \/ KilledProcessExit
           \/ Crash \/ UNCHANGED vars
  BY <1>8, OtherStepsSameTasks, SameTasksSettled DEF Settled
<1>9. QED
  BY <1>1, <1>2, <1>3, <1>4, <1>5, <1>6, <1>7, <1>8 DEF Next, TaskHandlerStep

-----------------------------------------------------------------------------
(* The state file, and starts from it *)

\* What a step leaves in the file is what was there or the state as it is then.
Saved == UNCHANGED disk \/ disk' = Image(tasks', groups')

LEMMA NextSaved ==
  ASSUME [Next]_vars, ~Restart
  PROVE  Saved
<1>1. \A ts, gs, c : SaveOrShutdown(ts, gs, c) => Saved
  BY DEF SaveOrShutdown, InitiateShutdown, Saved
<1>2. \A ts, gs, c, answer :
        SaveOrFailure(ts, gs, c, answer) => Saved
  BY DEF SaveOrFailure, Saved
<1>3. \A kind, c :
        InitiateShutdown(kind, tasks, groups, c) /\ UNCHANGED << tasks, groups >> => Saved
  BY DEF InitiateShutdown, Saved
<1>4. CASE TaskHandlerStep
  BY <1>1, <1>4 DEF Saved, TaskHandlerStep, HandleFinishedTasks, HandleShutdown, HandleGroupResets,
     EnqueueDelayedTasks, CheckFailedDependencies, SpawnNew, SpawnProcess, NoChange
<1>5. CASE ClientAdd
  BY <1>2, <1>5 DEF Saved, ClientAdd, AddTask, Refuse, NoChange
<1>6. CASE ClientEnqueue \/ ClientStash
  BY <1>6 DEF Saved, ClientEnqueue, ClientStash, Enqueue, Stash, Unsaved
<1>7. CASE ClientKill \/ ClientPause \/ ClientReset
  BY <1>1, <1>7 DEF Saved, ClientKill, ClientPause, ClientReset, Kill, Pause, Reset, Refuse, NoChange
<1>8. CASE ClientStart \/ StartStep
  BY <1>1, <1>8 DEF Saved, ClientStart, StartTasks, StartSelection, ResumeTasks, StartStep, StartDone,
     StartNext, SpawnProcess, Refuse, NoChange
<1>9. CASE ClientRestart
  BY <1>9, Zenon DEF Saved, ClientRestart, RestartMultiple, Unsaved
<1>10. CASE ClientEdit
  BY <1>2, <1>10 DEF Saved, ClientEdit, EditRequest, EditRestore, Edit, Refuse, NoChange, Unsaved
<1>11. CASE ClientSwitch
  BY <1>2, <1>11 DEF Saved, ClientSwitch, Switch, Refuse, NoChange
<1>12. CASE ClientRemove \/ ClientClean
  BY <1>2, <1>12 DEF Saved, ClientRemove, ClientClean, Remove, Clean, NoChange
<1>13. CASE ClientGroup \/ ClientParallel \/ ClientShutdown
  BY <1>2, <1>3, <1>13 DEF Saved, ClientGroup, ClientParallel, ClientShutdown, GroupAdd, GroupRemove,
     SetParallelTasks, Shutdown, Refuse, NoChange, Unsaved
<1>14. CASE ProcessExit \/ StoppedProcessKilled \/ KilledProcessExit \/ Crash \/ UNCHANGED vars
  BY <1>14 DEF Saved, ProcessExit, StoppedProcessKilled, KilledProcessExit, ProcessChanges, Crash,
     NoChange, vars
<1>15. QED
  BY <1>4, <1>5, <1>6, <1>7, <1>8, <1>9, <1>10, <1>11, <1>12, <1>13, <1>14
     DEF Next, TaskHandlerStep

\* A started daemon takes the dependencies from the file and builds the index anew.
LEMMA RestartedLists ==
  ASSUME StateType, Restart
  PROVE  /\ tasks' = disk'.tasks
         /\ DOMAIN tasks' = DOMAIN disk.tasks
         /\ \A i \in DOMAIN tasks' :
               /\ tasks'[i].dependencies = disk.tasks[i].dependencies
               /\ tasks'[i].dependents =
                     {j \in DOMAIN tasks' : i \in tasks'[j].dependencies}
<1> DEFINE ts == RestoredTasks(disk.tasks, disk.groups)
<1>1. tasks' = ts /\ disk'.tasks = ts
  BY DEF Restart, Image
<1>2. DOMAIN ts = DOMAIN disk.tasks
  BY DEF RestoredTasks
<1>3. ASSUME NEW i \in DOMAIN disk.tasks
      PROVE  /\ ts[i].dependencies = disk.tasks[i].dependencies
             /\ ts[i].dependents =
                   {j \in DOMAIN disk.tasks : i \in disk.tasks[j].dependencies}
  BY DEF RestoredTasks, StateType, DiskType, TasksType, IsPartialFn, Task
<1> HIDE DEF ts
<1>4. QED
  BY <1>1, <1>2, <1>3

-----------------------------------------------------------------------------
(* The index *)

\* The inductive invariant.
IndexInv ==
    StateType /\ ControlType /\ Indexed(tasks) /\ NoSelf(tasks) /\ NoSelf(disk.tasks)

LEMMA InitIndex == Init => IndexInv
<1> SUFFICES ASSUME Init
             PROVE  IndexInv
  OBVIOUS
<1>1. StateType /\ ControlType
  BY InitType, TypeOKParts
<1>2. DOMAIN tasks = {} /\ DOMAIN disk.tasks = {}
  BY DEF Init, Image
<1>3. QED
  BY <1>1, <1>2 DEF IndexInv, Indexed, NoSelf

\* Every step keeps the types.
LEMMA NextTypes ==
  ASSUME StateType, ControlType, [Next]_vars
  PROVE  StateType' /\ ControlType' /\ TasksType(tasks) /\ TasksType(tasks')
<1>1. TypeOK'
  BY NextType, TypeOKParts
<1>2. StateType' /\ ControlType'
  BY <1>1, TypeOKParts, PTL
<1>3. QED
  BY <1>2 DEF StateType

LEMMA NextIndex ==
  ASSUME NoIdConfusion, IndexInv, [Next]_vars
  PROVE  IndexInv'
<1>1. /\ StateType /\ ControlType
      /\ Indexed(tasks) /\ NoSelf(tasks) /\ NoSelf(disk.tasks)
  BY DEF IndexInv
<1>2. StateType' /\ ControlType' /\ TasksType(tasks)
  BY <1>1, NextTypes
<1>3. Indexed(tasks') /\ NoSelf(tasks') /\ NoSelf(disk'.tasks)
  <2>1. CASE Restart
    BY <1>1, <2>1, RestartedLists DEF Indexed, NoSelf
  <2>2. CASE ~Restart
    <3>1. Relinked(tasks')
      BY <1>1, <1>2, <2>2, NextRelinked
    <3>2. Indexed(tasks') /\ NoSelf(tasks')
      BY <1>1, <3>1, RelinkedIndexed, RelinkedNoSelf
    <3>3. UNCHANGED disk \/ disk'.tasks = tasks'
      BY <2>2, NextSaved DEF Saved, Image
    <3>4. QED
      BY <1>1, <3>2, <3>3
  <2>3. QED
    BY <2>1, <2>2
<1>4. QED
  BY <1>2, <1>3 DEF IndexInv

\* The reverse index is right whatever adds, edits, switches, removals, resets, crashes
\* and starts follow on each other, as long as no id still named is given out again.
THEOREM IndexAlwaysRight ==
  ASSUME NoIdConfusion
  PROVE  Spec => []DependentsIndexed
<1>1. IndexInv => DependentsIndexed
  BY DEF IndexInv, Indexed, DependentsIndexed
<1>2. IndexInv /\ [Next]_vars => IndexInv'
  BY NextIndex
<1>3. QED
  BY InitIndex, <1>1, <1>2, PTL DEF Spec

\* switch, which rewrites only the lists at ids that one of the two tasks mentions and
\* the other does not, renames both ids everywhere.
THEOREM SwitchAlwaysRenames ==
  ASSUME NoIdConfusion
  PROVE  Spec => SwitchRenames
<1> DEFINE Renames ==
      \A a, b \in TaskIds :
          /\ a < b /\ Switch(a, b) /\ response' = "Success"
          /\ ~Related(a, b) /\ DependentsIndexed
          => DependenciesFollow(a, b) /\ DependentsIndexed'
<1>1. IndexInv /\ [Next]_vars => IndexInv'
  BY NextIndex
<1>2. IndexInv => DependentsIndexed
  BY DEF IndexInv, Indexed, DependentsIndexed
<1>3. ASSUME IndexInv, IndexInv'
      PROVE  Renames
  <2>1. DependentsIndexed'
    BY <1>3 DEF IndexInv, Indexed, DependentsIndexed
  <2>2. SUFFICES ASSUME NEW a \in TaskIds, NEW b \in TaskIds, Switch(a, b),
                        response' = "Success", ~Related(a, b)
                 PROVE  DependenciesFollow(a, b)
    BY <2>1
  <2>3. Swapped(tasks', a, b)
    <3>1. Refuse => response' = "Failure"
      BY DEF Refuse, Return
    <3>2. TasksType(tasks) /\ Indexed(tasks) /\ NoSelf(tasks)
      BY <1>3 DEF IndexInv, StateType
    <3>3. QED
      BY <2>2, <3>1, <3>2, SwitchSwaps
  <2>4. ASSUME NEW i \in DOMAIN tasks
        PROVE  tasks'[Renamed(a, b, i)].dependencies =
                  {Renamed(a, b, d) : d \in tasks[i].dependencies}
    <3>1. Renamed(a, b, i) \in DOMAIN tasks
      BY <2>3, RenamedWithin DEF Swapped
    <3>2. Renamed(a, b, Renamed(a, b, i)) = i
      BY RenamedIds
    <3>3. QED
      BY <2>3, <3>1, <3>2 DEF Swapped
  <2>5. QED
    BY <2>4 DEF DependenciesFollow
<1>4. IndexInv /\ [Next]_vars => Renames
  BY <1>1, <1>3
<1>5. IndexInv /\ [Next]_vars => [Renames]_vars
  BY <1>4
<1> HIDE DEF Renames
<1>6. Spec => [][Renames]_vars
  BY InitIndex, <1>1, <1>5, PTL DEF Spec
<1>7. QED
  BY <1>6 DEF SwitchRenames, Renames

-----------------------------------------------------------------------------
(* The graph *)

\* An edit changes one task at a time: the checks of an edit of several look at the
\* dependencies as they were, and cannot see a cycle that two of them close together.
OneEditAtATime == MaxEdited <= 1

\* The inductive invariant.
GraphInv == IndexInv /\ Acyclic(tasks) /\ Acyclic(disk.tasks)

\* A set of one element at most that is not empty has one element.
LEMMA SingleEdit ==
  ASSUME OneEditAtATime, NEW ids \in SUBSET TaskIds, ids # {}, Cardinality(ids) <= MaxEdited
  PROVE  \E e : ids = {e}
<1>1. IsFiniteSet(ids)
  <2>1. MaxTasks - 1 \in Int
    BY BoundsAssumption
  <2>2. IsFiniteSet(TaskIds)
    BY <2>1, FS_Interval DEF TaskIds
  <2>3. QED
    BY <2>2, FS_Subset
<1>2. Cardinality(ids) \in Nat /\ Cardinality(ids) # 0
  BY <1>1, FS_CardinalityType, FS_EmptySet
<1>3. Cardinality(ids) = 1
  BY <1>2, BoundsAssumption DEF OneEditAtATime
<1>4. QED
  BY <1>1, <1>3, FS_Singleton

LEMMA RelinkedAcyclic ==
  ASSUME OneEditAtATime, TasksType(tasks), TasksType(tasks'), Acyclic(tasks), Relinked(tasks')
  PROVE  Acyclic(tasks')
<1>1. ASSUME NEW ids, Edited(tasks', ids), Cardinality(ids) <= MaxEdited, ids # {}
      PROVE  Acyclic(tasks')
  <2>1. ids \in SUBSET TaskIds
    BY <1>1, DependenciesAreIds DEF Edited
  <2>2. PICK e : ids = {e}
    BY <1>1, <2>1, SingleEdit
  <2>3. QED
    BY <1>1, <2>2, EditedAcyclic
<1>2. QED
  BY <1>1, TrimmedAcyclic, ExtendedAcyclic, SwappedAcyclic DEF Relinked

LEMMA InitGraph == Init => GraphInv
<1> SUFFICES ASSUME Init
             PROVE  GraphInv
  OBVIOUS
<1>1. DOMAIN tasks = {} /\ DOMAIN disk.tasks = {}
  BY DEF Init, Image
<1>2. QED
  BY <1>1, InitIndex DEF GraphInv, Acyclic

LEMMA NextGraph ==
  ASSUME NoIdConfusion, OneEditAtATime, GraphInv, [Next]_vars
  PROVE  GraphInv'
<1>1. /\ StateType /\ ControlType /\ Indexed(tasks) /\ NoSelf(tasks)
      /\ Acyclic(tasks) /\ Acyclic(disk.tasks)
  BY DEF GraphInv, IndexInv
<1>2. IndexInv'
  BY NextIndex DEF GraphInv
<1>3. TasksType(tasks) /\ TasksType(tasks') /\ TasksType(disk.tasks)
  BY <1>1, NextTypes DEF StateType, DiskType
<1>4. Acyclic(tasks') /\ Acyclic(disk'.tasks)
  <2>1. CASE Restart
    <3>1. /\ tasks' = disk'.tasks
          /\ DOMAIN tasks' = DOMAIN disk.tasks
          /\ \A i \in DOMAIN tasks' : tasks'[i].dependencies = disk.tasks[i].dependencies
      BY <1>1, <2>1, RestartedLists
    <3>2. Dependencies(tasks') = Dependencies(disk.tasks)
      BY <3>1 DEF Dependencies
    <3>3. QED
      BY <1>1, <3>1, <3>2 DEF Acyclic
  <2>2. CASE ~Restart
    <3>1. Relinked(tasks')
      BY <1>1, <1>3, <2>2, NextRelinked
    <3>2. Acyclic(tasks')
      BY <1>1, <1>3, <3>1, RelinkedAcyclic
    <3>3. UNCHANGED disk \/ disk'.tasks = tasks'
      BY <2>2, NextSaved DEF Saved, Image
    <3>4. QED
      BY <1>1, <3>2, <3>3
  <2>3. QED
    BY <2>1, <2>2
<1>5. QED
  BY <1>2, <1>4 DEF GraphInv

\* No task ever waits for itself, directly or through others, in memory and after any
\* start from the state file.
THEOREM NeverCircular ==
  ASSUME NoIdConfusion, OneEditAtATime
  PROVE  Spec => []NoCircularDependencies
<1>1. GraphInv => NoCircularDependencies
  BY DEF GraphInv, Acyclic, NoCircularDependencies
<1>2. GraphInv /\ [Next]_vars => GraphInv'
  BY NextGraph
<1>3. QED
  BY InitGraph, <1>1, <1>2, PTL DEF Spec

-----------------------------------------------------------------------------
(* Removing *)

\* Every change of the tasks is saved at once: no save fails and no reset, which
\* drops tasks without saving, is asked for.
AllSaved == "reset" \notin Commands /\ ~SaveMayFail

\* The inductive invariant: no group is in a reset, and the file has the tasks there are.
RemovalInv ==
    /\ IndexInv
    /\ NoResets(groups) /\ NoResets(disk.groups)
    /\ DOMAIN disk.tasks = DOMAIN tasks

LEMMA SetGroupStatusNoResets ==
  ASSUME NEW gs, GroupsType(gs), NoResets(gs), NEW names, NEW status, status # "Reset"
  PROVE  NoResets(SetGroupStatus(gs, names, status))
  BY DEF GroupsType, IsPartialFn, Group, NoResets, SetGroupStatus

LEMMA PausedOnFailureNoResets ==
  ASSUME NEW gs, GroupsType(gs), NoResets(gs), NEW failed
  PROVE  NoResets(PausedOnFailure(gs, failed))
  BY SetGroupStatusNoResets DEF PausedOnFailure

\* Only a request for a reset puts a group into one.
LEMMA NextNoResets ==
  ASSUME StateType, NoResets(groups), NoResets(disk.groups), "reset" \notin Commands, [Next]_vars
  PROVE  NoResets(groups')
<1>1. \A names : \A status \in {"Running", "Paused"} :
        NoResets(SetGroupStatus(groups, names, status))
  BY SetGroupStatusNoResets DEF StateType
<1>2. \A failed : NoResets(PausedOnFailure(groups, failed))
  BY PausedOnFailureNoResets DEF StateType
<1>3. CASE TaskHandlerStep
  <2>1. CASE HandleFinishedTasks
    <3>1. UNCHANGED groups \/ \E failed : groups' = PausedOnFailure(groups, failed)
      BY <2>1 DEF HandleFinishedTasks, NoChange, SaveOrShutdown
    <3>2. QED
      BY <1>2, <3>1
  <2>2. CASE HandleGroupResets
    <3>1. \E names : groups' = SetGroupStatus(groups, names, "Running")
      BY <2>2 DEF HandleGroupResets
    <3>2. QED
      BY <1>1, <3>1
  <2>3. CASE HandleShutdown \/ EnqueueDelayedTasks \/ CheckFailedDependencies \/ SpawnNew
    BY <1>2, <2>3 DEF HandleShutdown, EnqueueDelayedTasks, CheckFailedDependencies, SpawnNew,
       SpawnProcess, NoChange, SaveOrShutdown
  <2>4. QED
    BY <1>3, <2>1, <2>2, <2>3 DEF TaskHandlerStep
<1>4. CASE \/ ClientAdd \/ ClientEnqueue \/ ClientStash \/ ClientEdit \/ ClientSwitch
           \/ ClientRemove \/ ClientClean \/ ClientShutdown
  BY ZenonT(30), <1>4 DEF ClientAdd, ClientEnqueue, ClientStash, ClientEdit, ClientSwitch,
     ClientRemove, ClientClean, ClientShutdown, AddTask, Enqueue, Stash, EditRequest, EditRestore, Edit,
     Switch, Remove, Clean, Shutdown, Refuse, NoChange, SaveOrFailure
<1>5. CASE ClientRestart
  BY <1>5, Zenon DEF ClientRestart, RestartMultiple
<1>6. CASE ClientKill \/ ClientPause \/ ClientReset
  BY <1>1, <1>6 DEF ClientKill, ClientPause, ClientReset, Kill, Pause, Reset, Handle, Refuse,
     NoChange, SaveOrShutdown
<1>7. CASE ClientStart \/ StartStep
  BY <1>1, <1>2, <1>7 DEF ClientStart, StartStep, StartTasks, StartSelection, ResumeTasks,
     StartDone, StartNext, SpawnProcess, Refuse, NoChange, SaveOrShutdown
<1>8. CASE ClientGroup \/ ClientParallel
  <2>1. ASSUME NEW name, NEW n, GroupAdd(name, n)
        PROVE  NoResets(groups')
    BY <2>1 DEF GroupAdd, Refuse, NoChange, SaveOrFailure, NoResets
  <2>2. ASSUME NEW name, GroupRemove(name)
        PROVE  NoResets(groups')
    BY <2>2 DEF GroupRemove, Refuse, NoChange, SaveOrFailure, NoResets
  <2>3. ASSUME NEW name, NEW n, SetParallelTasks(name, n)
        PROVE  NoResets(groups')
    BY <2>3 DEF SetParallelTasks, Refuse, NoChange, NoResets, StateType, GroupsType,
       IsPartialFn, Group
  <2>4. QED
    BY <1>8, <2>1, <2>2, <2>3 DEF ClientGroup, ClientParallel
<1>9. CASE ProcessExit \/ StoppedProcessKilled \/ KilledProcessExit \/ Crash \/ UNCHANGED vars
  BY <1>9 DEF ProcessExit, StoppedProcessKilled, KilledProcessExit, ProcessChanges, Crash,
     NoChange, vars
<1>10. CASE Restart
  BY <1>10, SetGroupStatusNoResets DEF Restart, RestoredGroups, StateType, DiskType
<1>11. QED
  BY <1>3, <1>4, <1>5, <1>6, <1>7, <1>8, <1>9, <1>10 DEF Next, TaskHandlerStep

\* A request that adds or removes tasks saves them.
LEMMA TasksSaved ==
  ASSUME ~SaveMayFail, ClientAdd \/ ClientRemove \/ ClientClean
  PROVE  DOMAIN tasks' = DOMAIN tasks \/ disk'.tasks = tasks'
<1>1. \A ts, answer : SaveOrFailure(ts, groups, children, answer) => disk'.tasks = tasks'
  BY DEF SaveOrFailure, Image
<1>2. CASE ClientAdd
  BY <1>1, <1>2 DEF ClientAdd, AddTask, Refuse, NoChange
<1>3. CASE ClientRemove \/ ClientClean
  BY <1>1, <1>3 DEF ClientRemove, ClientClean, Remove, Clean, NoChange
<1>4. QED
  BY <1>2, <1>3

LEMMA NextRemoval ==
  ASSUME NoIdConfusion, AllSaved, RemovalInv, [Next]_vars
  PROVE  RemovalInv'
<1>1. /\ StateType /\ ControlType /\ Indexed(tasks) /\ NoSelf(tasks) /\ TasksType(tasks)
      /\ NoResets(groups) /\ NoResets(disk.groups) /\ DOMAIN disk.tasks = DOMAIN tasks
  BY DEF RemovalInv, IndexInv, StateType
<1>2. IndexInv'
  BY NextIndex DEF RemovalInv
<1>3. NoResets(groups')
  BY <1>1, NextNoResets DEF AllSaved
<1>4. NoResets(disk'.groups) /\ DOMAIN disk'.tasks = DOMAIN tasks'
  <2>1. CASE Restart
    <3>1. disk'.groups = groups'
      BY <2>1 DEF Restart, Image
    <3>2. QED
      BY <1>1, <1>3, <2>1, <3>1, RestartedLists
  <2>2. CASE ~Restart
    <3>1. UNCHANGED disk \/ (disk'.tasks = tasks' /\ disk'.groups = groups')
      BY <2>2, NextSaved DEF Saved, Image
    <3>2. DOMAIN tasks' = DOMAIN tasks \/ disk'.tasks = tasks'
      BY <1>1, <2>2, NextRelinked, TasksSaved DEF Settled, AllSaved
    <3>3. QED
      BY <1>1, <1>3, <3>1, <3>2
  <2>3. QED
    BY <2>1, <2>2
<1>5. QED
  BY <1>2, <1>3, <1>4 DEF RemovalInv

\* An unfinished task that depends on another is among those that is_task_removable
\* asks about, with all that wait behind it.
LEMMA RemovableBehind ==
  ASSUME TasksType(tasks), Indexed(tasks), NEW i \in DOMAIN tasks, NEW d \in DOMAIN tasks,
         d \in tasks[i].dependencies, ~IsDone(tasks[i]),
         NEW to_delete, IsTaskRemovable(d, to_delete)
  PROVE  i \in to_delete /\ IsTaskRemovable(i, to_delete)
<1> DEFINE succ == UnfinishedDependents
<1>1. DOMAIN tasks \subseteq TaskIds
  BY DependenciesAreIds
<1>2. \A x \in TaskIds : succ[x] \subseteq TaskIds
  BY <1>1, DependenciesAreIds DEF UnfinishedDependents
<1>3. i \in succ[d]
  BY <1>1 DEF UnfinishedDependents, Indexed
<1> HIDE DEF succ
<1>4. i \in Reachable(succ, d)
  BY <1>1, <1>2, <1>3, ReachableClosed
<1>5. Reachable(succ, i) \subseteq Reachable(succ, d)
  BY <1>1, <1>2, <1>4, ReachableTransitive
<1>6. QED
  BY <1>4, <1>5 DEF IsTaskRemovable, succ

\* Nothing that an unfinished task depends on disappears under it: not by remove, of
\* several tasks at once either, nor by clean or by a start from the state file.
THEOREM DependenciesAreKept ==
  ASSUME NoIdConfusion, AllSaved
  PROVE  Spec => UnfinishedDependencyKept
<1> DEFINE Kept ==
      \A i \in DOMAIN tasks \cap DOMAIN tasks', d \in DOMAIN tasks \ DOMAIN tasks' :
          d \in tasks[i].dependencies => IsDone(tasks[i])
<1>1. Init => RemovalInv
  <2>1. Init => DOMAIN tasks = {} /\ disk = Image(tasks, groups)
                  /\ \A g \in DOMAIN groups : groups[g].status = "Running"
    BY DEF Init
  <2>2. QED
    BY <2>1, InitIndex DEF RemovalInv, NoResets, Image
<1>2. RemovalInv /\ [Next]_vars => RemovalInv'
  BY NextRemoval
<1>3. ASSUME RemovalInv, [Next]_vars
      PROVE  Kept
  <2>1. /\ StateType /\ Indexed(tasks) /\ NoSelf(tasks) /\ TasksType(tasks)
        /\ NoResets(groups) /\ DOMAIN disk.tasks = DOMAIN tasks
    BY <1>3 DEF RemovalInv, IndexInv, StateType
  <2>2. CASE DOMAIN tasks \subseteq DOMAIN tasks'
    BY <2>2
  <2>3. ASSUME NEW ids, Remove(ids), ~(DOMAIN tasks \subseteq DOMAIN tasks')
        PROVE  Kept
    <3> DEFINE matching == ids \cap WithStatus(Status \ Active)
    <3>1. tasks' = Without(Removable(ids))
      BY <2>3 DEF Remove, SaveOrFailure, NoChange
    <3>2. DOMAIN tasks' = DOMAIN tasks \ Removable(ids)
      BY <2>1, <3>1, WithoutTrimmed
    <3>3. Removable(ids) = {i \in matching : IsTaskRemovable(i, matching)}
      BY DEF Removable
    <3> HIDE DEF matching
    <3>4. SUFFICES ASSUME NEW i \in DOMAIN tasks, i \notin Removable(ids),
                          NEW d \in DOMAIN tasks, d \in Removable(ids),
                          d \in tasks[i].dependencies, ~IsDone(tasks[i])
                   PROVE  FALSE
      BY <3>2
    <3>5. i \in matching /\ IsTaskRemovable(i, matching)
      BY <2>1, <3>3, <3>4, RemovableBehind
    <3>6. QED
      BY <3>3, <3>4, <3>5
  <2>4. ASSUME NEW successful_only, NEW names, Clean(successful_only, names)
        PROVE  Kept
    <3> DEFINE cleaned ==
          {i \in WithStatus(IF successful_only THEN {"Success"} ELSE Results) :
              tasks[i].group \in names /\ IsTaskRemovable(i, {})}
    <3>1. tasks' = Without(cleaned)
      BY <2>4 DEF Clean, SaveOrFailure
    <3>2. \A d \in cleaned : IsTaskRemovable(d, {})
      OBVIOUS
    <3> HIDE DEF cleaned
    <3>3. DOMAIN tasks' = DOMAIN tasks \ cleaned
      BY <2>1, <3>1, WithoutTrimmed
    <3>4. SUFFICES ASSUME NEW i \in DOMAIN tasks, NEW d \in DOMAIN tasks, d \in cleaned,
                          d \in tasks[i].dependencies, ~IsDone(tasks[i])
                   PROVE  FALSE
      BY <3>3
    <3>5. QED
      BY <2>1, <3>2, <3>4, RemovableBehind
  <2>5. CASE Restart
    BY <2>1, <2>5, RestartedLists
  <2>6. CASE ~Restart
    <3>1. \/ DOMAIN tasks' = DOMAIN tasks
          \/ ClientAdd \/ ClientRemove \/ ClientClean
      BY <1>3, <2>1, <2>6, NextRelinked DEF Settled
    <3>2. ClientAdd => DOMAIN tasks \subseteq DOMAIN tasks'
      <4>1. ClientAdd => UNCHANGED tasks \/ \E id, task : tasks' = WithTask(id, task)
        BY DEF ClientAdd, AddTask, Refuse, NoChange, SaveOrFailure
      <4>2. ASSUME NEW id, NEW task, tasks' = WithTask(id, task)
            PROVE  DOMAIN tasks \subseteq DOMAIN tasks'
        BY <4>2 DEF WithTask
      <4>3. QED
        BY <4>1, <4>2
    <3>3. QED
      BY <2>2, <2>3, <2>4, <3>1, <3>2 DEF ClientRemove, ClientClean
  <2>7. QED
    BY <2>5, <2>6
<1>4. RemovalInv /\ [Next]_vars => [Kept]_vars
  BY <1>3
<1> HIDE DEF Kept
<1>5. Spec => [][Kept]_vars
  BY <1>1, <1>2, <1>4, PTL DEF Spec
<1>6. QED
  BY <1>5 DEF UnfinishedDependencyKept, Kept

=============================================================================
