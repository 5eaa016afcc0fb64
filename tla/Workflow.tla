------------------------------- MODULE Workflow ------------------------------
(***************************************************************************)
(* What the controller promises the owner of a Terraform resource, without *)
(* calls, objects, status writes or crashes: the stage it is in, the runs  *)
(* of terraform tasks it has started, and whether it is reported complete. *)
(* A run is a pod seen from far away: it goes on until it succeeds, fails  *)
(* or is lost with its pod.                                                *)
(***************************************************************************)
EXTENDS Tasks, Sequences

CONSTANT Affected   \* the tasks named by spec.taskOptions

ASSUME AffectedTasks == Affected \subseteq TaskName \cup {"*"}

VARIABLES
  resource,   \* its incarnation (uid 0: none), generation and deletion mark
  stage,      \* the generation and the task of its current stage
  completed,  \* it is reported as completed
  runs        \* every run ever started, in the order of their starts

workflowVars == <<resource, stage, completed, runs>>

ConfiguredTasks == GetConfiguredTasks(Affected)

Resource == [uid: Nat, gen: Nat, deleting: BOOLEAN]
StageOf == [gen: Nat, task: TaskName \cup {RunNil}]
Results == {"running", "succeeded", "failed", "lost"}
Run == [uid: Nat, gen: Nat, task: TaskName \cup {RunNil}, result: Results]

NoResource == [uid |-> 0, gen |-> 0, deleting |-> FALSE]
NoStage == [gen |-> 0, task |-> RunNil]

TypeInv ==
  /\ resource \in Resource /\ stage \in StageOf
  /\ completed \in BOOLEAN /\ runs \in Seq(Run)

IsRunOf(r, uid, gen, task) == r.uid = uid /\ r.gen = gen /\ r.task = task

InState(uid, gen, task, result) ==
  \E i \in 1..Len(runs) : IsRunOf(runs[i], uid, gen, task) /\ runs[i].result = result

(* The stage's run is the last one started for it.                         *)
StageIs(result) ==
  \E i \in 1..Len(runs) :
    /\ IsRunOf(runs[i], resource.uid, stage.gen, stage.task) /\ runs[i].result = result
    /\ \A j \in i + 1..Len(runs) :
         ~IsRunOf(runs[j], resource.uid, stage.gen, stage.task)

Init ==
  /\ resource = NoResource /\ stage = NoStage /\ completed = FALSE /\ runs = <<>>

-----------------------------------------------------------------------------
Create ==
  /\ resource.uid = 0
  /\ resource' \in [uid: Nat \ {0}, gen: {1}, deleting: {FALSE}]
  /\ \A i \in 1..Len(runs) : runs[i].uid # resource'.uid
  /\ UNCHANGED <<stage, completed, runs>>

Edit ==
  /\ resource.uid # 0
  /\ resource' = [resource EXCEPT !.gen = @ + 1]
  /\ UNCHANGED <<stage, completed, runs>>

(* A deletion starts a generation of its own, whose workflow destroys.     *)
Delete ==
  /\ resource.uid # 0 /\ ~resource.deleting
  /\ resource' = [resource EXCEPT !.gen = @ + 1, !.deleting = TRUE]
  /\ UNCHANGED <<stage, completed, runs>>

(* Only the end of the destroy workflow lets the resource go.              *)
Gone ==
  /\ resource.deleting /\ stage.task = RunNil
  /\ \A t \in ConfiguredTasks \cap DeleteTasks :
       InState(resource.uid, stage.gen, t, "succeeded")
  /\ resource' = NoResource /\ stage' = NoStage /\ completed' = FALSE
  /\ UNCHANGED runs

-----------------------------------------------------------------------------
Enter(gen, task) ==
  /\ resource.uid # 0
  /\ stage' = [gen |-> gen, task |-> task]
  /\ UNCHANGED <<resource, runs>>

(* The stage of a generation not worked on before is its workflow's setup. *)
NewGeneration ==
  /\ \E gen \in stage.gen + 1..resource.gen :
       \/ ~(resource.deleting /\ gen = resource.gen) /\ Enter(gen, "setup")
       \/ resource.deleting /\ Enter(gen, "setup-delete")
  /\ completed' = FALSE

(* A bug: a stage whose run has failed is passed as well.                  *)
AdvanceOnEnd ==
  /\ stage.task # RunNil /\ (StageIs("succeeded") \/ StageIs("failed"))
  /\ Enter(stage.gen, NextTask(stage.task, ConfiguredTasks))
  /\ UNCHANGED completed

Advance ==
  /\ stage.task # RunNil /\ StageIs("succeeded")
  /\ Enter(stage.gen, NextTask(stage.task, ConfiguredTasks))
  /\ UNCHANGED completed

(* An apply that failed goes back to a new plan.                           *)
Replan ==
  /\ StageIs("failed")
  /\ \/ stage.task = "apply" /\ Enter(stage.gen, NextTask("postinit", ConfiguredTasks))
     \/ stage.task = "apply-delete" /\ Enter(stage.gen, NextTask("postinit-delete", ConfiguredTasks))
  /\ UNCHANGED completed

Complete ==
  /\ stage.task = RunNil
  /\ \A t \in ConfiguredTasks \cap CreateTasks :
       InState(resource.uid, stage.gen, t, "succeeded")
  /\ completed' = TRUE
  /\ UNCHANGED <<resource, stage, runs>>

-----------------------------------------------------------------------------
(* One run of a stage at a time.                                           *)
Start ==
  /\ resource.uid # 0 /\ stage.task # RunNil
  /\ ~InState(resource.uid, stage.gen, stage.task, "running")
  /\ runs' = Append(runs, [uid |-> resource.uid, gen |-> stage.gen,
                           task |-> stage.task, result |-> "running"])
  /\ UNCHANGED <<resource, stage, completed>>

End(i, result) ==
  /\ runs[i].result = "running"
  /\ runs' = [runs EXCEPT ![i].result = result]
  /\ UNCHANGED <<resource, stage, completed>>

(* The removal of an old plan takes all of its pods with it at once.       *)
Lose ==
  /\ \E lost \in SUBSET {i \in 1..Len(runs) : runs[i].result = "running"} :
       runs' = [i \in 1..Len(runs) |->
                  IF i \in lost THEN [runs[i] EXCEPT !.result = "lost"] ELSE runs[i]]
  /\ UNCHANGED <<resource, stage, completed>>

Next ==
  \/ Create \/ Edit \/ Delete \/ Gone
  \/ NewGeneration \/ Advance \/ Replan \/ Complete
  \/ Start
  \/ \E i \in 1..Len(runs) : \E result \in Results \ {"running"} : End(i, result)
  \/ Lose

Spec == Init /\ [][Next]_workflowVars

-----------------------------------------------------------------------------
(* Every run of a task follows a successful run of each configured task    *)
(* before it in its workflow, for the same resource and generation.        *)
RunsInOrder ==
  \A i \in 1..Len(runs) :
    \A t \in ConfiguredTasks \cap WorkflowOf(runs[i].task) :
      Before(t, runs[i].task) => InState(runs[i].uid, runs[i].gen, t, "succeeded")
=============================================================================
