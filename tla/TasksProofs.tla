----------------------------- MODULE TasksProofs -----------------------------
(***************************************************************************)
(* Facts about the order of tasks, for every set of configured tasks: what *)
(* the proofs about the workflow and the controller rest on.               *)
(***************************************************************************)
EXTENDS Tasks, WellFoundedInduction, TLAPS

(* The lists name ten different tasks each.                                *)
LEMMA ListsAreInjective ==
  /\ \A i, j \in 1..10 : TasksInOrder[i] = TasksInOrder[j] => i = j
  /\ \A i, j \in 1..10 : DeleteTasksInOrder[i] = DeleteTasksInOrder[j] => i = j
  /\ CreateTasks \cap DeleteTasks = {}
<1>1. \A i, j \in 1..10 : TasksInOrder[i] = TasksInOrder[j] => i = j
  BY DEF TasksInOrder
<1>2. \A i, j \in 1..10 : DeleteTasksInOrder[i] = DeleteTasksInOrder[j] => i = j
  BY DEF DeleteTasksInOrder
<1>3. CreateTasks \cap DeleteTasks = {}
  BY DEF CreateTasks, DeleteTasks, TasksInOrder, DeleteTasksInOrder
<1> QED
  BY <1>1, <1>2, <1>3

(* The number of a task is its place in the list it is in.                 *)
LEMMA IDOfTask ==
  /\ \A t \in CreateTasks : ID(t) = PositionIn(TasksInOrder, t)
  /\ \A t \in DeleteTasks : ID(t) = 100 + PositionIn(DeleteTasksInOrder, t)
<1>1. ASSUME NEW t \in CreateTasks PROVE ID(t) = PositionIn(TasksInOrder, t)
  BY DEF ID, Positions, TaskName
<1>2. ASSUME NEW t \in DeleteTasks PROVE ID(t) = 100 + PositionIn(DeleteTasksInOrder, t)
  BY ListsAreInjective DEF ID, Positions, TaskName
<1> QED
  BY <1>1, <1>2

(* TaskName.ID gives every task of the two workflows a number of its own.  *)
LEMMA TaskIDs ==
  /\ \A t \in TaskName : ID(t) \in Nat
  /\ \A t, u \in TaskName : ID(t) = ID(u) => t = u
<1>1. \A t \in CreateTasks : ID(t) \in 1..10 /\ TasksInOrder[ID(t)] = t
  <2> TAKE t \in CreateTasks
  <2>1. \E i \in 1..10 : TasksInOrder[i] = t
    BY DEF CreateTasks
  <2>2. PositionIn(TasksInOrder, t) \in 1..10 /\ TasksInOrder[PositionIn(TasksInOrder, t)] = t
    BY <2>1 DEF PositionIn
  <2> QED
    BY <2>2, IDOfTask
<1>2. \A t \in DeleteTasks : ID(t) \in 101..110 /\ DeleteTasksInOrder[ID(t) - 100] = t
  <2> TAKE t \in DeleteTasks
  <2>1. \E i \in 1..10 : DeleteTasksInOrder[i] = t
    BY DEF DeleteTasks
  <2> DEFINE i == PositionIn(DeleteTasksInOrder, t)
  <2>2. i \in 1..10 /\ DeleteTasksInOrder[i] = t
    BY <2>1 DEF PositionIn
  <2>3. ID(t) = 100 + i
    BY IDOfTask
  <2> HIDE DEF i
  <2> QED
    BY <2>2, <2>3
<1>3. \A t \in TaskName : ID(t) \in Nat
  BY <1>1, <1>2 DEF TaskName
<1>4. ASSUME NEW t \in TaskName, NEW u \in TaskName, ID(t) = ID(u)
      PROVE  t = u
  BY <1>1, <1>2, <1>4 DEF TaskName
<1> QED
  BY <1>3, <1>4

(* The task at a place of a list has the number of that place.             *)
LEMMA TaskPlaces ==
  ASSUME NEW i \in 1..10
  PROVE  /\ TasksInOrder[i] \in CreateTasks /\ ID(TasksInOrder[i]) = i
         /\ DeleteTasksInOrder[i] \in DeleteTasks /\ ID(DeleteTasksInOrder[i]) = 100 + i
<1>1. TasksInOrder[i] \in CreateTasks /\ DeleteTasksInOrder[i] \in DeleteTasks
  BY DEF CreateTasks, DeleteTasks
<1>2. PositionIn(TasksInOrder, TasksInOrder[i]) = i
      /\ PositionIn(DeleteTasksInOrder, DeleteTasksInOrder[i]) = i
  BY ListsAreInjective DEF PositionIn
<1> QED
  BY <1>1, <1>2, IDOfTask

LEMMA CreateTaskIDs ==
  /\ {"setup", "postinit", "plan", "apply"} \subseteq CreateTasks
  /\ ID("setup") = 1 /\ ID("postinit") = 4 /\ ID("plan") = 6 /\ ID("apply") = 9
<1>1. /\ TasksInOrder[1] = "setup" /\ TasksInOrder[4] = "postinit"
      /\ TasksInOrder[6] = "plan" /\ TasksInOrder[9] = "apply"
  BY DEF TasksInOrder
<1> QED
  BY <1>1, TaskPlaces

LEMMA DeleteTaskIDs ==
  /\ {"setup-delete", "postinit-delete", "plan-delete", "apply-delete"} \subseteq DeleteTasks
  /\ ID("setup-delete") = 101 /\ ID("postinit-delete") = 104
  /\ ID("plan-delete") = 106 /\ ID("apply-delete") = 109
<1>1. /\ DeleteTasksInOrder[1] = "setup-delete" /\ DeleteTasksInOrder[4] = "postinit-delete"
      /\ DeleteTasksInOrder[6] = "plan-delete" /\ DeleteTasksInOrder[9] = "apply-delete"
  BY DEF DeleteTasksInOrder
<1> QED
  BY <1>1, TaskPlaces

(* A set of tasks that is not empty has an earliest one.                   *)
LEMMA EarliestTask ==
  ASSUME NEW S \in SUBSET TaskName, S # {}
  PROVE  \E t \in S : \A u \in S \ {t} : Before(t, u)
<1> DEFINE ids == {ID(t) : t \in S}
<1>1. ids # {} /\ ids \subseteq Nat
  BY TaskIDs
<1>2. \E n \in ids : \A m \in ids : ~(<<m, n>> \in OpToRel(<, Nat))
  BY <1>1, NatLessThanWellFounded, WFMin
<1>3. PICK n \in ids : \A m \in ids : ~(m < n)
  BY <1>1, <1>2 DEF OpToRel
<1>4. PICK t \in S : ID(t) = n
  BY <1>3
<1>5. \A u \in S \ {t} : ID(u) # ID(t) /\ ~(ID(u) < ID(t)) /\ ID(u) \in Nat /\ ID(t) \in Nat
  BY <1>3, <1>4, TaskIDs
<1> QED
  BY <1>4, <1>5 DEF Before

(* nextTask returns a configured task of the same workflow, later than the *)
(* current one, or the nil task.                                           *)
LEMMA NextTaskResult ==
  ASSUME NEW t, NEW configured
  PROVE  \/ NextTask(t, configured) = RunNil
         \/ NextTask(t, configured) \in LaterTasks(t, configured)
<1> DEFINE later == LaterTasks(t, configured)
<1>1. CASE later = {}
  BY <1>1 DEF NextTask
<1>2. CASE later # {}
  <2>1. later \subseteq TaskName
    BY DEF LaterTasks, WorkflowOf, TaskName
  <2>2. \E n \in later : \A u \in later \ {n} : Before(n, u)
    BY <1>2, <2>1, EarliestTask
  <2> QED
    BY <1>2, <2>2 DEF NextTask
<1> QED
  BY <1>1, <1>2

(* ... and skips no configured task.                                       *)
LEMMA NextTaskSkipsNone ==
  ASSUME NEW t, NEW configured, NEW u \in LaterTasks(t, configured)
  PROVE  /\ NextTask(t, configured) \in LaterTasks(t, configured)
         /\ NextTask(t, configured) = u \/ Before(NextTask(t, configured), u)
<1> DEFINE later == LaterTasks(t, configured)
<1>1. later \subseteq TaskName
  BY DEF LaterTasks, WorkflowOf, TaskName
<1>2. \E n \in later : \A v \in later \ {n} : Before(n, v)
  BY <1>1, EarliestTask
<1>3. NextTask(t, configured) = CHOOSE n \in later : \A v \in later \ {n} : Before(n, v)
  BY DEF NextTask
<1> QED
  BY <1>2, <1>3

LEMMA NextTaskInWorkflow ==
  ASSUME NEW t, NEW configured
  PROVE  NextTask(t, configured) \in WorkflowOf(t) \cup {RunNil}
BY NextTaskResult DEF LaterTasks

LEMMA NextTaskType ==
  ASSUME NEW t, NEW configured
  PROVE  NextTask(t, configured) \in TaskName \cup {RunNil}
BY NextTaskInWorkflow DEF WorkflowOf, TaskName

LEMMA NilIsNoTask == RunNil \notin TaskName /\ RunNil \notin CreateTasks \cup DeleteTasks
<1>1. /\ \A i \in 1..10 : TasksInOrder[i] # RunNil
      /\ \A i \in 1..10 : DeleteTasksInOrder[i] # RunNil
  BY DEF TasksInOrder, DeleteTasksInOrder, RunNil
<1> QED
  BY <1>1 DEF TaskName, CreateTasks, DeleteTasks

LEMMA WorkflowsOfTasks ==
  /\ \A t \in CreateTasks : WorkflowOf(t) = CreateTasks /\ t \notin DeleteTasks
  /\ \A t \in DeleteTasks : WorkflowOf(t) = DeleteTasks /\ t \notin CreateTasks
BY ListsAreInjective DEF WorkflowOf

LEMMA SetupIsNoDelete ==
  CreateTasks \cap DeleteTasks = {} /\ {"setup", "postinit", "apply"} \subseteq CreateTasks
BY ListsAreInjective, CreateTaskIDs

LEMMA ConfiguredAreTasks ==
  ASSUME NEW affected \in SUBSET (TaskName \cup {"*"})
  PROVE  GetConfiguredTasks(affected) \in SUBSET TaskName
BY DEF GetConfiguredTasks, AlwaysConfigured, TaskName, CreateTasks, DeleteTasks,
       TasksInOrder, DeleteTasksInOrder

(* Two tasks have an order.                                                *)
LEMMA BeforeIsTotal ==
  ASSUME NEW t \in TaskName, NEW u \in TaskName
  PROVE  /\ t = u \/ Before(t, u) \/ Before(u, t)
         /\ ~(Before(t, u) /\ Before(u, t)) /\ ~Before(t, t)
BY TaskIDs DEF Before

(* Nothing comes before the set up.                                        *)
LEMMA SetupIsFirst ==
  ASSUME NEW t \in {"setup", "setup-delete"}, NEW u \in WorkflowOf(t)
  PROVE  ~Before(u, t)
<1>1. CASE t = "setup"
  <2>1. u \in CreateTasks
    BY <1>1, CreateTaskIDs, WorkflowsOfTasks
  <2>2. PICK i \in 1..10 : u = TasksInOrder[i]
    BY <2>1 DEF CreateTasks
  <2> QED
    BY <1>1, <2>2, TaskPlaces, CreateTaskIDs DEF Before
<1>2. CASE t = "setup-delete"
  <2>1. u \in DeleteTasks
    BY <1>2, DeleteTaskIDs, WorkflowsOfTasks
  <2>2. PICK i \in 1..10 : u = DeleteTasksInOrder[i]
    BY <2>1 DEF DeleteTasks
  <2> QED
    BY <1>2, <2>2, TaskPlaces, DeleteTaskIDs DEF Before
<1> QED
  BY <1>1, <1>2

(* A task and the one that follows it have the same workflow.              *)
LEMMA WorkflowOfLater ==
  ASSUME NEW t, NEW configured, NEW u \in LaterTasks(t, configured)
  PROVE  WorkflowOf(u) = WorkflowOf(t) /\ u \in configured /\ Before(t, u) /\ u \in TaskName
<1>1. u \in WorkflowOf(t) /\ u \in configured /\ Before(t, u)
  BY DEF LaterTasks
<1>2. t \in CreateTasks \cup DeleteTasks
  BY <1>1 DEF WorkflowOf
<1> QED
  BY <1>1, <1>2, WorkflowsOfTasks DEF TaskName

(* A configured task that comes before the next one, or all of them when   *)
(* there is no next one, is the current task or comes before it.           *)
LEMMA NothingIsSkipped ==
  ASSUME NEW configured \in SUBSET TaskName, NEW t \in TaskName,
         NEW u \in configured \cap WorkflowOf(t),
         \/ NextTask(t, configured) = RunNil
         \/ Before(u, NextTask(t, configured))
  PROVE  u = t \/ Before(u, t)
<1> SUFFICES ASSUME Before(t, u) PROVE FALSE
  BY BeforeIsTotal
<1>1. u \in LaterTasks(t, configured)
  BY DEF LaterTasks
<1> DEFINE next == NextTask(t, configured)
<1>2. next \in LaterTasks(t, configured) /\ (next = u \/ Before(next, u))
  BY <1>1, NextTaskSkipsNone
<1>3. next \in TaskName /\ next # RunNil
  BY <1>2, WorkflowOfLater, NilIsNoTask
<1> QED
  BY <1>2, <1>3, BeforeIsTotal

LEMMA ApplyIsATask == "apply" # RunNil /\ "apply-delete" # RunNil
BY DEF RunNil

(* The plan is between the post-init tasks and the apply.                  *)
LEMMA PlanBeforeApply ==
  ASSUME NEW affected
  PROVE  /\ "plan" \in LaterTasks("postinit", GetConfiguredTasks(affected))
         /\ WorkflowOf("apply") = WorkflowOf("postinit") /\ Before("plan", "apply")
         /\ "plan-delete" \in LaterTasks("postinit-delete", GetConfiguredTasks(affected))
         /\ WorkflowOf("apply-delete") = WorkflowOf("postinit-delete")
         /\ Before("plan-delete", "apply-delete")
<1>1. {"plan", "plan-delete"} \subseteq GetConfiguredTasks(affected)
  BY DEF GetConfiguredTasks, AlwaysConfigured
<1> QED
  BY <1>1, CreateTaskIDs, DeleteTaskIDs, WorkflowsOfTasks DEF LaterTasks, Before

(* The task a failed apply goes back to is before it, no later than the    *)
(* plan.                                                                   *)
LEMMA RestartIsEarlier ==
  ASSUME NEW affected, NEW t \in {"apply", "apply-delete"}
  PROVE  LET start == IF t = "apply-delete" THEN "postinit-delete" ELSE "postinit"
             plan == IF t = "apply-delete" THEN "plan-delete" ELSE "plan"
             next == NextTask(start, GetConfiguredTasks(affected))
         IN  /\ next \in TaskName /\ WorkflowOf(next) = WorkflowOf(t)
             /\ next = plan \/ Before(next, plan)
             /\ Before(plan, t) /\ Before(next, t)
<1> DEFINE start == IF t = "apply-delete" THEN "postinit-delete" ELSE "postinit"
           plan == IF t = "apply-delete" THEN "plan-delete" ELSE "plan"
           next == NextTask(start, GetConfiguredTasks(affected))
<1>1. /\ plan \in LaterTasks(start, GetConfiguredTasks(affected))
      /\ WorkflowOf(t) = WorkflowOf(start) /\ Before(plan, t)
  BY PlanBeforeApply
<1>2. next \in LaterTasks(start, GetConfiguredTasks(affected))
      /\ (next = plan \/ Before(next, plan))
  BY <1>1, NextTaskSkipsNone
<1> HIDE DEF plan, next
<1>3. /\ next \in TaskName /\ WorkflowOf(next) = WorkflowOf(t)
      /\ plan \in TaskName /\ t \in TaskName
  BY <1>1, <1>2, WorkflowOfLater, CreateTaskIDs, DeleteTaskIDs DEF TaskName
<1>4. Before(next, t)
  BY <1>1, <1>2, <1>3, TaskIDs DEF Before
<1> QED
  BY <1>1, <1>2, <1>3, <1>4 DEF plan, next
=============================================================================
