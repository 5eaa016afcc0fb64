-------------------------------- MODULE Tasks --------------------------------
(***************************************************************************)
(* The task vocabulary of a terraform workflow and the pure functions that *)
(* order it: TaskName and its ID, the tasks a resource is configured with, *)
(* the task that follows a finished one and whether a task may be          *)
(* interrupted.                                                            *)
(***************************************************************************)
EXTENDS Integers

RunNil == ""

(* The two workflows, in the order of nextTask's lists.                    *)
TasksInOrder == <<"setup", "preinit", "init", "postinit", "preplan", "plan",
                  "postplan", "preapply", "apply", "postapply">>

DeleteTasksInOrder == <<"setup-delete", "preinit-delete", "init-delete",
                        "postinit-delete", "preplan-delete", "plan-delete",
                        "postplan-delete", "preapply-delete", "apply-delete",
                        "postapply-delete">>

CreateTasks == {TasksInOrder[i] : i \in 1..10}

DeleteTasks == {DeleteTasksInOrder[i] : i \in 1..10}

TaskName == CreateTasks \cup DeleteTasks

(***************************************************************************)
(* TaskName.ID(): the two workflows occupy 1..10 and 101..110 in their     *)
(* order, the nil task is -1 and every other name, a plugin's, is -2.      *)
(***************************************************************************)
PositionIn(list, task) == CHOOSE i \in 1..10 : list[i] = task

Positions ==
  [task \in TaskName |->
     IF task \in CreateTasks THEN PositionIn(TasksInOrder, task)
     ELSE 100 + PositionIn(DeleteTasksInOrder, task)]

ID(task) ==
  IF task \in TaskName THEN Positions[task]
  ELSE IF task = RunNil THEN -1
  ELSE -2

(* The tasks every resource runs; the script tasks around them run only    *)
(* when spec.taskOptions names them in a "for".                            *)
AlwaysConfigured == {"setup", "init", "plan", "apply",
                     "setup-delete", "init-delete", "plan-delete", "apply-delete"}

(* The "*" entry and plugin names may appear in a "for" too: the former is *)
(* skipped, the latter never match a workflow position.                    *)
GetConfiguredTasks(affected) == AlwaysConfigured \cup (affected \ {"*"})

WorkflowOf(task) ==
  IF task \in CreateTasks THEN CreateTasks
  ELSE IF task \in DeleteTasks THEN DeleteTasks
  ELSE {}

Before(t, u) == ID(t) < ID(u)

(***************************************************************************)
(* nextTask: the first configured task after currentTask in the workflow   *)
(* that currentTask belongs to, and the nil task when there is none.       *)
(***************************************************************************)
LaterTasks(currentTask, configured) ==
  {t \in WorkflowOf(currentTask) \cap configured : Before(currentTask, t)}

NextTask(currentTask, configured) ==
  LET later == LaterTasks(currentTask, configured)
  IN  IF later = {} THEN RunNil
      ELSE CHOOSE t \in later : \A u \in later \ {t} : Before(t, u)

(* isTaskInterruptable, as the set of tasks it answers CanNotBeInterrupt   *)
(* for.                                                                    *)
UninterruptibleTasks == {"init", "plan", "apply",
                         "init-delete", "plan-delete", "apply-delete"}

IsTaskInterruptable(task) == task \notin UninterruptibleTasks
=============================================================================
