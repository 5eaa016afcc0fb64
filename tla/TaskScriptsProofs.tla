-------------------------- MODULE TaskScriptsProofs --------------------------
(***************************************************************************)
(* Every behaviour of Workflow runs the tasks in their order.  The scripts *)
(* and their pods do nothing Workflow does not allow, so its theorems hold *)
(* of them; and no plan is applied without the approval its generation     *)
(* requires.  What the scripts leave behind is right too: a completed      *)
(* resource is the one its spec describes, a resource gone without a trace *)
(* left nothing behind, the outputs are saved and shown, and a plan gets   *)
(* the var files in their order.                                           *)
(***************************************************************************)
EXTENDS TaskScripts, TasksProofs, FiniteSetTheorems, SequenceTheorems

-----------------------------------------------------------------------------
(* Workflow.  RunsInOrder is not inductive: it has to be known of the      *)
(* stage too, whose next run it will be, that the tasks before it are done *)
(* (StageIsReady).                                                         *)

(* The configured tasks before t have succeeded.                           *)
DoneBefore(uid, gen, t) ==
  \A u \in ConfiguredTasks \cap WorkflowOf(t) :
    Before(u, t) => InState(uid, gen, u, "succeeded")

StageIsReady ==
  /\ resource.uid = 0 => stage.task = RunNil
  /\ stage.task # RunNil => DoneBefore(resource.uid, stage.gen, stage.task)

OrderInv == TypeInv /\ RunsInOrder /\ StageIsReady

LEMMA OnlyTasksConfigured == ConfiguredTasks \in SUBSET TaskName
BY AffectedTasks, ConfiguredAreTasks DEF ConfiguredTasks

-----------------------------------------------------------------------------
(* The runs of a plan that is removed are lost, the others stay.           *)
LEMMA LostRuns ==
  ASSUME TypeInv, Lose
  PROVE  /\ runs' \in Seq(Run) /\ Len(runs') = Len(runs)
         /\ \A i \in 1..Len(runs) :
              \/ runs'[i] = runs[i]
              \/ /\ runs[i].result = "running"
                 /\ runs'[i] = [runs[i] EXCEPT !.result = "lost"]
<1>0. runs \in Seq(Run) /\ Len(runs) \in Nat /\ \A i \in 1..Len(runs) : runs[i] \in Run
  BY DEF TypeInv
<1>1. PICK lost \in SUBSET {i \in 1..Len(runs) : runs[i].result = "running"} :
        runs' = [i \in 1..Len(runs) |->
                   IF i \in lost THEN [runs[i] EXCEPT !.result = "lost"] ELSE runs[i]]
  BY DEF Lose
<1>2. \A r \in Run : [r EXCEPT !.result = "lost"] \in Run
  BY DEF Run, Results
<1>3. \A i \in 1..Len(runs) :
        (IF i \in lost THEN [runs[i] EXCEPT !.result = "lost"] ELSE runs[i]) \in Run
  BY <1>0, <1>2
<1>4. runs' \in [1..Len(runs) -> Run]
  BY <1>1, <1>3
<1>5. runs' \in Seq(Run) /\ Len(runs') = Len(runs)
  BY <1>0, <1>4
<1> QED
  BY <1>1, <1>5

(* Runs that have succeeded stay.                                          *)
LEMMA RunsStay ==
  ASSUME TypeInv, [Next]_workflowVars,
         NEW uid, NEW gen, NEW t, InState(uid, gen, t, "succeeded")
  PROVE  InState(uid, gen, t, "succeeded")'
<1>1. PICK i \in 1..Len(runs) : IsRunOf(runs[i], uid, gen, t) /\ runs[i].result = "succeeded"
  BY DEF InState
<1>2. CASE UNCHANGED runs
  BY <1>1, <1>2 DEF InState
<1>3. CASE Start
  <2>1. Len(runs') = Len(runs) + 1 /\ runs'[i] = runs[i] /\ i \in 1..Len(runs')
    BY <1>3 DEF Start, TypeInv
  <2> QED
    BY <1>1, <2>1 DEF InState
<1>4. CASE \E j \in 1..Len(runs) : \E result \in Results \ {"running"} : End(j, result)
  <2>1. Len(runs') = Len(runs) /\ runs'[i] = runs[i]
    BY <1>1, <1>4 DEF End, TypeInv
  <2> QED
    BY <1>1, <2>1 DEF InState
<1>5. CASE Lose
  <2>1. Len(runs') = Len(runs) /\ runs'[i] = runs[i]
    BY <1>1, <1>5, LostRuns
  <2> QED
    BY <1>1, <2>1 DEF InState
<1> QED
  BY <1>2, <1>3, <1>4, <1>5 DEF Next, workflowVars, Create, Edit, Delete, Gone, NewGeneration,
    Enter, Advance, Replan, Complete

LEMMA DoneBeforeStays ==
  ASSUME TypeInv, [Next]_workflowVars, NEW uid, NEW gen, NEW t, DoneBefore(uid, gen, t)
  PROVE  DoneBefore(uid, gen, t)'
BY RunsStay DEF DoneBefore, ConfiguredTasks

LEMMA WorkflowTypeInit == Init => TypeInv
<1>1. NoResource \in Resource /\ NoStage \in StageOf
  BY DEF NoResource, NoStage, Resource, StageOf
<1>2. <<>> \in Seq(Run)
  OBVIOUS
<1> QED
  BY <1>1, <1>2 DEF Init, TypeInv

(* Type correctness of a step.                                             *)
LEMMA WorkflowTypeNext == TypeInv /\ [Next]_workflowVars => TypeInv'
<1> SUFFICES ASSUME TypeInv, [Next]_workflowVars PROVE TypeInv'
  OBVIOUS
<1> USE DEF TypeInv
<1>1. CASE UNCHANGED workflowVars
  BY <1>1 DEF workflowVars
<1>2. CASE Create
  <2>1. \A r \in [uid: Nat \ {0}, gen: {1}, deleting: {FALSE}] : r \in Resource
    <3> TAKE r \in [uid: Nat \ {0}, gen: {1}, deleting: {FALSE}]
    <3>1. r = [uid |-> r.uid, gen |-> 1, deleting |-> FALSE] /\ r.uid \in Nat
      OBVIOUS
    <3>2. \A n \in Nat : [uid |-> n, gen |-> 1, deleting |-> FALSE] \in Resource
      BY DEF Resource
    <3> QED
      BY <3>1, <3>2
  <2> QED
    BY <1>2, <2>1 DEF Create
<1>3. CASE Edit \/ Delete
  <2>1. \A n \in Nat : /\ [resource EXCEPT !.gen = n] \in Resource
                       /\ [resource EXCEPT !.gen = n, !.deleting = TRUE] \in Resource
    BY DEF Resource
  <2>2. resource.gen + 1 \in Nat
    BY DEF Resource
  <2>3. resource' \in Resource
    BY <1>3, <2>1, <2>2 DEF Edit, Delete
  <2> QED
    BY <1>3, <2>3 DEF Edit, Delete
<1>4. CASE Gone
  BY <1>4 DEF Gone, NoResource, NoStage, Resource, StageOf
<1>5. CASE NewGeneration
  <2>1. PICK gen \in stage.gen + 1..resource.gen :
          Enter(gen, "setup") \/ Enter(gen, "setup-delete")
    BY <1>5 DEF NewGeneration
  <2>2. gen \in Nat
    BY DEF StageOf, Resource
  <2>3. {"setup", "setup-delete"} \subseteq TaskName
    BY DEF TaskName, CreateTasks, DeleteTasks, TasksInOrder, DeleteTasksInOrder
  <2>4. \A t \in TaskName : [gen |-> gen, task |-> t] \in StageOf
    BY <2>2 DEF StageOf
  <2>5. stage' \in StageOf
    BY <2>1, <2>3, <2>4 DEF Enter
  <2> QED
    BY <1>5, <2>1, <2>5 DEF NewGeneration, Enter
<1>6. CASE Advance
  BY <1>6, NextTaskType DEF Advance, Enter, StageOf
<1>7. CASE Replan
  BY <1>7, NextTaskType DEF Replan, Enter, StageOf
<1>8. CASE Complete
  BY <1>8 DEF Complete
<1>9. CASE Start
  <2> DEFINE run == [uid |-> resource.uid, gen |-> stage.gen, task |-> stage.task,
                     result |-> "running"]
  <2>1. run \in Run
    BY DEF Run, Resource, StageOf, Results
  <2> HIDE DEF run
  <2>2. Append(runs, run) \in Seq(Run)
    BY <2>1
  <2> QED
    BY <1>9, <2>2 DEF Start, run
<1>10. CASE \E i \in 1..Len(runs) : \E result \in Results \ {"running"} : End(i, result)
  <2>1. PICK i \in 1..Len(runs), result \in Results : End(i, result)
    BY <1>10
  <2>2. \A r \in Run, x \in Results : [r EXCEPT !.result = x] \in Run
    BY DEF Run
  <2>3. runs[i] \in Run
    OBVIOUS
  <2>4. [runs EXCEPT ![i].result = result] \in Seq(Run)
    BY <2>2, <2>3
  <2> QED
    BY <2>1, <2>4 DEF End
<1>11. CASE Lose
  BY <1>11, LostRuns DEF Lose, TypeInv
<1> QED
  BY <1>1, <1>2, <1>3, <1>4, <1>5, <1>6, <1>7, <1>8, <1>9, <1>10, <1>11 DEF Next

-----------------------------------------------------------------------------
(* The stage is ready for its run in every state a step leads to.          *)
LEMMA StageIsReadyNext ==
  ASSUME TypeInv, StageIsReady, [Next]_workflowVars
  PROVE  StageIsReady'
<1>1. CASE UNCHANGED <<resource, stage>>
  BY <1>1, DoneBeforeStays DEF StageIsReady
<1>2. CASE Create
  BY <1>2 DEF Create, StageIsReady
<1>3. CASE Edit \/ Delete
  <2>1. resource'.uid = resource.uid /\ stage' = stage
    BY <1>3 DEF Edit, Delete, TypeInv, Resource
  <2> QED
    BY <2>1, DoneBeforeStays DEF StageIsReady
<1>4. CASE Gone
  BY <1>4 DEF Gone, StageIsReady, NoResource, NoStage
<1>5. CASE NewGeneration
  <2>1. stage'.task \in {"setup", "setup-delete"} /\ resource' = resource /\ resource.uid # 0
    BY <1>5 DEF NewGeneration, Enter
  <2>2. \A u \in WorkflowOf(stage'.task) : ~Before(u, stage'.task)
    BY <2>1, SetupIsFirst
  <2>3. DoneBefore(resource.uid, stage.gen, stage.task)'
    BY <2>2 DEF DoneBefore
  <2> QED
    BY <2>1, <2>3 DEF StageIsReady
<1>6. CASE Advance
  <2> DEFINE next == NextTask(stage.task, ConfiguredTasks)
  <2>1. /\ stage.task # RunNil /\ resource.uid # 0 /\ resource' = resource
        /\ stage'.gen = stage.gen /\ stage'.task = next
        /\ InState(resource.uid, stage.gen, stage.task, "succeeded")
    BY <1>6 DEF Advance, Enter, StageIs, InState
  <2>2. stage.task \in TaskName
    BY <2>1 DEF TypeInv, StageOf
  <2>3. ASSUME next # RunNil PROVE DoneBefore(resource.uid, stage.gen, next)
    <3>1. WorkflowOf(next) = WorkflowOf(stage.task)
      BY <2>3, NextTaskResult, WorkflowOfLater
    <3>2. ASSUME NEW u \in ConfiguredTasks \cap WorkflowOf(next), Before(u, next)
          PROVE  InState(resource.uid, stage.gen, u, "succeeded")
      <4>1. u = stage.task \/ Before(u, stage.task)
        BY <2>2, <3>1, <3>2, OnlyTasksConfigured, NothingIsSkipped
      <4> QED
        BY <2>1, <3>1, <4>1 DEF StageIsReady, DoneBefore
    <3> QED
      BY <3>2 DEF DoneBefore
  <2> QED
    BY <2>1, <2>3, DoneBeforeStays DEF StageIsReady
<1>7. CASE Replan
  <2> DEFINE start == IF stage.task = "apply-delete" THEN "postinit-delete" ELSE "postinit"
             next == NextTask(start, ConfiguredTasks)
  <2>1. /\ stage.task \in {"apply", "apply-delete"} /\ stage.task # RunNil
        /\ resource.uid # 0 /\ resource' = resource
        /\ stage' = [gen |-> stage.gen, task |-> next]
    BY <1>7, ApplyIsATask DEF Replan, Enter
  <2>2. next \in TaskName /\ WorkflowOf(next) = WorkflowOf(stage.task) /\ Before(next, stage.task)
    BY <2>1, RestartIsEarlier DEF ConfiguredTasks
  <2> HIDE DEF next
  <2>0. stage'.gen = stage.gen /\ stage'.task = next
    BY <2>1
  <2>3. ASSUME NEW u \in ConfiguredTasks \cap WorkflowOf(next), Before(u, next)
        PROVE  InState(resource.uid, stage.gen, u, "succeeded")
    <3>1. u \in TaskName /\ stage.task \in TaskName
      BY <2>1, OnlyTasksConfigured DEF TypeInv, StageOf
    <3>2. Before(u, stage.task)
      BY <2>2, <2>3, <3>1, TaskIDs DEF Before
    <3> QED
      BY <2>1, <2>2, <3>2 DEF StageIsReady, DoneBefore
  <2>4. DoneBefore(resource.uid, stage.gen, next)
    BY <2>3 DEF DoneBefore
  <2> QED
    BY <2>0, <2>1, <2>4, DoneBeforeStays DEF StageIsReady
<1> QED
  BY <1>1, <1>2, <1>3, <1>4, <1>5, <1>6, <1>7
     DEF Next, workflowVars, Complete, Start, End, Lose

(* A run that starts is the stage's, and the others keep their task.       *)
LEMMA RunsInOrderNext ==
  ASSUME TypeInv, RunsInOrder, StageIsReady, [Next]_workflowVars
  PROVE  RunsInOrder'
<1>1. ASSUME NEW i \in 1..Len(runs'), NEW uid, NEW gen, NEW t,
             IsRunOf(runs'[i], uid, gen, t),
             (i \in 1..Len(runs) /\ IsRunOf(runs[i], uid, gen, t)) \/ DoneBefore(uid, gen, t)
      PROVE  DoneBefore(uid, gen, t)'
  <2>1. DoneBefore(uid, gen, t)
    BY <1>1 DEF RunsInOrder, DoneBefore, IsRunOf
  <2> QED
    BY <2>1, DoneBeforeStays
<1>2. ASSUME NEW i \in 1..Len(runs')
      PROVE  \/ /\ i \in 1..Len(runs) /\ runs'[i].task = runs[i].task
                /\ runs'[i].uid = runs[i].uid /\ runs'[i].gen = runs[i].gen
             \/ DoneBefore(runs'[i].uid, runs'[i].gen, runs'[i].task)
  <2>1. CASE UNCHANGED runs
    BY <2>1
  <2>2. CASE Start
    <3>1. CASE i \in 1..Len(runs)
      <4>1. runs'[i] = runs[i]
        BY <2>2, <3>1 DEF Start, TypeInv
      <4> QED
        BY <3>1, <4>1
    <3>2. CASE i \notin 1..Len(runs)
      <4>1. runs'[i] = [uid |-> resource.uid, gen |-> stage.gen, task |-> stage.task,
                        result |-> "running"]
        BY <2>2, <3>2 DEF Start, TypeInv
      <4> QED
        BY <2>2, <4>1 DEF Start, StageIsReady
    <3> QED
      BY <3>1, <3>2
  <2>3. CASE \E j \in 1..Len(runs) : \E result \in Results \ {"running"} : End(j, result)
    <3>1. PICK j \in 1..Len(runs), result \in Results : End(j, result)
      BY <2>3
    <3>2. i \in 1..Len(runs) /\ runs[i] \in Run
      BY <3>1 DEF End, TypeInv
    <3>3. runs'[i] = runs[i] \/ runs'[i] = [runs[i] EXCEPT !.result = result]
      BY <3>1, <3>2 DEF End, TypeInv
    <3> QED
      BY <3>2, <3>3 DEF Run
  <2>4. CASE Lose
    <3>1. i \in 1..Len(runs) /\ runs[i] \in Run
      BY <2>4, LostRuns DEF TypeInv
    <3>2. runs'[i] = runs[i] \/ runs'[i] = [runs[i] EXCEPT !.result = "lost"]
      BY <2>4, <3>1, LostRuns
    <3> QED
      BY <3>1, <3>2 DEF Run
  <2> QED
    BY <2>1, <2>2, <2>3, <2>4 DEF Next, workflowVars, Create, Edit, Delete, Gone,
      NewGeneration, Enter, Advance, Replan, Complete
<1>3. ASSUME NEW i \in 1..Len(runs'), NEW uid, NEW gen, NEW t,
             IsRunOf(runs'[i], uid, gen, t)
      PROVE  DoneBefore(uid, gen, t)'
  BY <1>1, <1>2, <1>3 DEF IsRunOf
<1>4. \A i \in 1..Len(runs') : IsRunOf(runs'[i], runs'[i].uid, runs'[i].gen, runs'[i].task)
  BY DEF IsRunOf
<1> QED
  BY <1>3, <1>4 DEF RunsInOrder, DoneBefore, InState, ConfiguredTasks

LEMMA OrderInit == Init => OrderInv
<1>1. Init => RunsInOrder /\ StageIsReady
  BY DEF Init, RunsInOrder, StageIsReady, NoStage
<1> QED
  BY <1>1, WorkflowTypeInit DEF OrderInv

LEMMA OrderNext == OrderInv /\ [Next]_workflowVars => OrderInv'
BY WorkflowTypeNext, StageIsReadyNext, RunsInOrderNext DEF OrderInv

(* For every set of configured tasks: no task runs before the tasks in     *)
(* front of it have succeeded (checkSetNewStage and nextTask).             *)
THEOREM WorkflowRunsInOrder == Spec => []RunsInOrder
<1>1. OrderInv => RunsInOrder
  BY DEF OrderInv
<1> QED
  BY <1>1, OrderInit, OrderNext, PTL DEF Spec

-----------------------------------------------------------------------------
(* A step of a script is the end of its run, or no step of Workflow.       *)
LEMMA EndIsAStep ==
  ASSUME TypeInv, NEW i \in DOMAIN runs, NEW result \in Results \ {"running"},
         End(i, result)
  PROVE  Next
BY DEF TypeInv, Next

LEMMA ScriptsStep ==
  ASSUME TypeInv, [ScriptsNext]_vars
  PROVE  [Next]_workflowVars
<1>1. CASE UNCHANGED vars
  BY <1>1 DEF vars
<1>2. CASE CreateResource \/ EditSpec \/ DeleteResource
  BY <1>2 DEF CreateResource, EditSpec, DeleteResource, Next
<1>3. CASE NewStage \/ NextStage \/ StartRun \/ CompleteWorkflow \/ ResourceGone
  BY <1>3 DEF NewStage, NextStage, StartRun, CompleteWorkflow, ResourceGone, Next
<1>4. ASSUME NEW i \in Runs(TaskName),
             \/ SetUp(i) \/ SetUpStops(i) \/ TerraformInit(i) \/ Noop(i)
             \/ TerraformPlan(i) \/ Approve(i)
             \/ TerraformApply(i) \/ TerraformAppliesInPart(i) \/ TerraformRefuses(i)
             \/ ReadOutputs(i) \/ PatchSecret(i) \/ ScriptStops(i) \/ NothingToDo(i)
      PROVE  [Next]_workflowVars
  <2>1. {"succeeded", "failed", "lost"} \subseteq Results \ {"running"}
    BY DEF Results
  <2>2. \/ UNCHANGED workflowVars
        \/ \E result \in Results \ {"running"} : End(i, result)
    BY <1>4, <2>1 DEF SetUp, SetUpStops, TerraformInit, Noop, TerraformPlan, Approve,
      TerraformApply, TerraformAppliesInPart, TerraformRefuses, ReadOutputs, PatchSecret,
      ScriptStops, StopsAs, NothingToDo
  <2>3. i \in DOMAIN runs
    BY DEF Runs
  <2> QED
    BY <2>2, <2>3, EndIsAStep
<1> QED
  BY <1>1, <1>2, <1>3, <1>4 DEF ScriptsNext

(* The scripts implement Workflow, whatever the spec, the module and its   *)
(* outputs are and whatever fails.                                         *)
THEOREM ScriptsImplementWorkflow == ScriptsSpec => Spec
<1>1. ScriptsInit => Init
  BY DEF ScriptsInit
<1>2. TypeInv /\ [ScriptsNext]_vars => TypeInv'
  BY ScriptsStep, WorkflowTypeNext
<1>3. TypeInv /\ [ScriptsNext]_vars => [Next]_workflowVars
  BY ScriptsStep
<1> QED
  BY <1>1, <1>2, <1>3, WorkflowTypeInit, PTL DEF ScriptsSpec, Spec

(* The pods of a resource run in the order of its tasks (checkSetNewStage, *)
(* nextTask).                                                              *)
THEOREM ScriptsRunInOrder == ScriptsSpec => []RunsInOrder
BY ScriptsImplementWorkflow, WorkflowRunsInOrder, PTL

-----------------------------------------------------------------------------
(***************************************************************************)
(* No plan is applied without the approval its generation requires.  The   *)
(* argument: at most one pod of a generation is at work and it does the    *)
(* stage's task (RunsInv), so the plan in the directory of a generation    *)
(* that is past its planning is that of the run the stage moved on with,   *)
(* which has succeeded, and a held run succeeds by its approval (PlanInv). *)
(***************************************************************************)
RunsInv ==
  /\ resource.uid \in {0, 1} /\ resource.gen <= MaxGen
  /\ resource.uid = 0 => stage = NoStage
  /\ stage.task # RunNil => stage.gen \in Gens
  /\ resource.uid # 0 =>
       /\ stage.gen <= resource.gen
       /\ \A i \in DOMAIN runs : runs[i].gen <= stage.gen
  /\ \A i \in DOMAIN runs : runs[i].uid = 1 /\ runs[i].gen \in Gens
  /\ stage.task # RunNil =>
       \A i \in DOMAIN runs : runs[i].gen = stage.gen =>
         WorkflowOf(runs[i].task) = WorkflowOf(stage.task)
  /\ resource.uid # 0 =>
       \A i \in DOMAIN runs :
         runs[i].gen = stage.gen /\ runs[i].result = "running" => runs[i].task = stage.task
  /\ \A i, k \in DOMAIN runs : i < k /\ runs[i].gen = runs[k].gen => runs[i].result # "running"

(* What a step does to the runs.                                           *)
LEMMA EndFacts ==
  ASSUME TypeInv, NEW i \in DOMAIN runs, NEW result \in Results, End(i, result)
  PROVE  /\ DOMAIN runs' = DOMAIN runs
         /\ \A k \in DOMAIN runs : /\ runs'[k].uid = runs[k].uid /\ runs'[k].gen = runs[k].gen
                                   /\ runs'[k].task = runs[k].task
                                   /\ k # i => runs'[k].result = runs[k].result
         /\ runs[i].result = "running" /\ runs'[i].result = result
         /\ resource' = resource /\ stage' = stage
<1>1. \A k \in DOMAIN runs : runs[k] \in Run
  BY DEF TypeInv
<1>2. DOMAIN runs' = DOMAIN runs
  BY DEF End, TypeInv
<1>3. \A k \in DOMAIN runs : k # i => runs'[k] = runs[k]
  BY DEF End, TypeInv
<1>4. runs'[i] = [runs[i] EXCEPT !.result = result]
  BY DEF End, TypeInv
<1>5. ASSUME NEW r \in Run, NEW s, s = [r EXCEPT !.result = result]
      PROVE  s.uid = r.uid /\ s.gen = r.gen /\ s.task = r.task /\ s.result = result
  BY <1>5 DEF Run
<1>6. /\ runs'[i].uid = runs[i].uid /\ runs'[i].gen = runs[i].gen
      /\ runs'[i].task = runs[i].task /\ runs'[i].result = result
  BY <1>1, <1>4, <1>5
<1>7. runs[i].result = "running" /\ resource' = resource /\ stage' = stage
  BY DEF End
<1> QED
  BY <1>2, <1>3, <1>6, <1>7

LEMMA StartFacts ==
  ASSUME TypeInv, Start
  PROVE  LET n == Len(runs) + 1
         IN  /\ DOMAIN runs = 1..Len(runs) /\ Len(runs) \in Nat
             /\ DOMAIN runs' = DOMAIN runs \cup {n} /\ n \notin DOMAIN runs
             /\ \A k \in DOMAIN runs : runs'[k] = runs[k] /\ k < n
             /\ runs'[n] = [uid |-> resource.uid, gen |-> stage.gen, task |-> stage.task,
                            result |-> "running"]
             /\ resource' = resource /\ stage' = stage
             /\ resource.uid # 0 /\ stage.task # RunNil
             /\ \A k \in DOMAIN runs :
                  ~(IsRunOf(runs[k], resource.uid, stage.gen, stage.task)
                      /\ runs[k].result = "running")
BY DEF TypeInv, Start, InState

(* A stage that has ended leaves no pod of its generation at work.         *)
LEMMA NoneAtWork ==
  ASSUME TypeInv, RunsInv, resource.uid # 0, NEW result \in Results \ {"running"},
         StageIs(result), NEW i \in DOMAIN runs, runs[i].gen = stage.gen
  PROVE  runs[i].result # "running"
<1> SUFFICES ASSUME runs[i].result = "running" PROVE FALSE
  OBVIOUS
<1>1. DOMAIN runs = 1..Len(runs) /\ Len(runs) \in Nat
  BY DEF TypeInv
<1>2. PICK k \in 1..Len(runs) :
        /\ IsRunOf(runs[k], resource.uid, stage.gen, stage.task) /\ runs[k].result = result
        /\ \A j \in k + 1..Len(runs) :
             ~IsRunOf(runs[j], resource.uid, stage.gen, stage.task)
  BY DEF StageIs
<1>3. IsRunOf(runs[i], resource.uid, stage.gen, stage.task)
  BY DEF RunsInv, IsRunOf
<1>4. ~(i > k)
  BY <1>1, <1>2, <1>3
<1>5. ~(i < k)
  BY <1>1, <1>2 DEF RunsInv, IsRunOf
<1>6. i # k
  BY <1>2
<1> QED
  BY <1>1, <1>4, <1>5, <1>6

(* The stages of a generation are of one workflow.                         *)
LEMMA NextStageFacts ==
  ASSUME TypeInv, RunsInv, Advance \/ Replan
  PROVE  /\ resource' = resource /\ runs' = runs /\ resource.uid # 0
         /\ stage'.gen = stage.gen /\ stage.task # RunNil
         /\ stage'.task # RunNil => WorkflowOf(stage'.task) = WorkflowOf(stage.task)
         /\ \A i \in DOMAIN runs : runs[i].gen = stage.gen => runs[i].result # "running"
<1>1. /\ resource' = resource /\ runs' = runs /\ resource.uid # 0
      /\ stage'.gen = stage.gen /\ stage.task # RunNil
  BY ApplyIsATask DEF Advance, Replan, Enter
<1>2. stage'.task # RunNil => WorkflowOf(stage'.task) = WorkflowOf(stage.task)
  <2>1. CASE Advance
    <3>1. stage'.task = NextTask(stage.task, ConfiguredTasks)
      BY <2>1 DEF Advance, Enter
    <3> QED
      BY <3>1, NextTaskResult, WorkflowOfLater
  <2>2. CASE Replan
    <3>1. PICK t \in {"postinit", "postinit-delete"} :
            /\ stage'.task = NextTask(t, ConfiguredTasks)
            /\ WorkflowOf(stage.task) = WorkflowOf(t)
      BY <2>2, PlanBeforeApply DEF Replan, Enter
    <3> QED
      BY <3>1, NextTaskResult, WorkflowOfLater
  <2> QED
    BY <2>1, <2>2
<1>3. ASSUME NEW i \in DOMAIN runs, runs[i].gen = stage.gen PROVE runs[i].result # "running"
  <2>1. \E result \in {"succeeded", "failed"} : StageIs(result)
    BY DEF Advance, Replan
  <2>2. {"succeeded", "failed"} \subseteq Results \ {"running"}
    BY DEF Results
  <2> QED
    BY <1>1, <1>3, <2>1, <2>2, NoneAtWork
<1> QED
  BY <1>1, <1>2, <1>3

(* A step of the pods is the end of a run at most.                         *)
ScriptOf(i) ==
  \/ SetUp(i) \/ SetUpStops(i) \/ TerraformInit(i) \/ Noop(i)
  \/ TerraformPlan(i) \/ Approve(i)
  \/ TerraformApply(i) \/ TerraformAppliesInPart(i) \/ TerraformRefuses(i)
  \/ ReadOutputs(i) \/ PatchSecret(i) \/ ScriptStops(i) \/ NothingToDo(i)

LEMMA ScriptEnds ==
  ASSUME NEW i, ScriptOf(i)
  PROVE  /\ specs' = specs
         /\ \/ UNCHANGED workflowVars
            \/ \E result \in {"succeeded", "failed", "lost"} : End(i, result)
BY DEF ScriptOf, SetUp, SetUpStops, TerraformInit, Noop, TerraformPlan, Approve,
  TerraformApply, TerraformAppliesInPart, TerraformRefuses, ReadOutputs, PatchSecret,
  ScriptStops, StopsAs, NothingToDo, scriptVars

LEMMA RunsInvInit == ScriptsInit => RunsInv
<1>1. ScriptsInit => /\ resource.uid = 0 /\ resource.gen = 0 /\ stage = NoStage
                     /\ DOMAIN runs = {} /\ stage.task = RunNil
  BY DEF ScriptsInit, Init, NoResource, NoStage
<1> QED
  BY <1>1, BoundsAssumption DEF RunsInv

LEMMA RunsInvNext ==
  ASSUME TypeInv, RunsInv, [ScriptsNext]_vars
  PROVE  RunsInv'
<1> DEFINE Typed == /\ stage.gen \in Nat /\ resource.gen \in Nat /\ resource.uid \in Nat
                    /\ MaxGen \in Nat
<1>1. Typed
  BY BoundsAssumption DEF TypeInv, Resource, StageOf
<1>2. CASE UNCHANGED workflowVars
  BY <1>2 DEF RunsInv, workflowVars
<1>3. CASE CreateResource
  <2>1. /\ resource.uid = 0 /\ resource'.uid = 1 /\ resource'.gen = 1
        /\ stage' = stage /\ runs' = runs
    BY <1>3 DEF CreateResource, Create
  <2>2. DOMAIN runs = {}
    BY <1>3, <2>1 DEF CreateResource, Create, RunsInv, TypeInv
  <2>3. stage = NoStage /\ NoStage.gen = 0 /\ NoStage.task = RunNil
    BY <2>1 DEF RunsInv, NoStage
  <2>4. 1 <= MaxGen
    BY BoundsAssumption
  <2> QED
    BY <2>1, <2>2, <2>3, <2>4 DEF RunsInv
<1>4. CASE EditSpec \/ DeleteResource
  <2>1. /\ resource'.uid = resource.uid /\ resource.uid # 0 /\ resource'.gen = resource.gen + 1
        /\ stage' = stage /\ runs' = runs /\ resource.gen < MaxGen
    BY <1>4 DEF EditSpec, DeleteResource, Edit, Delete, TypeInv, Resource
  <2> QED
    BY <1>1, <2>1 DEF RunsInv
<1>5. CASE NewStage
  <2>1. PICK gen \in stage.gen + 1..resource.gen : \E task \in {"setup", "setup-delete"} :
          Enter(gen, task)
    BY <1>5 DEF NewStage, NewGeneration
  <2>2. /\ resource' = resource /\ resource.uid # 0 /\ runs' = runs /\ stage'.gen = gen
        /\ gen \in Gens /\ gen > stage.gen /\ gen <= resource.gen
    BY <1>1, <2>1 DEF Enter, RunsInv, Gens
  <2>3. \A i \in DOMAIN runs : runs[i].gen # stage'.gen /\ runs[i].gen <= stage'.gen
    BY <1>1, <2>2 DEF RunsInv, Gens
  <2> QED
    BY <2>2, <2>3 DEF RunsInv
<1>6. CASE NextStage
  <2>1. Advance \/ Replan
    BY <1>6 DEF NextStage
  <2> QED
    BY <2>1, NextStageFacts DEF RunsInv
<1>7. CASE StartRun
  <2>1. Start
    BY <1>7 DEF StartRun
  <2> DEFINE n == Len(runs) + 1
  <2>2. /\ DOMAIN runs' = DOMAIN runs \cup {n} /\ n \notin DOMAIN runs
        /\ \A k \in DOMAIN runs : runs'[k] = runs[k] /\ k < n /\ ~(n < k)
        /\ runs'[n].uid = 1 /\ runs'[n].gen = stage.gen /\ runs'[n].task = stage.task
        /\ resource' = resource /\ stage' = stage /\ resource.uid # 0 /\ stage.gen \in Gens
    BY <2>1, StartFacts DEF RunsInv
  <2>3. \A k \in DOMAIN runs : runs[k].gen = stage.gen => runs[k].result # "running"
    BY <2>1, StartFacts DEF RunsInv, IsRunOf
  <2>4. ~(n < n)
    BY <2>1, StartFacts
  <2> HIDE DEF n
  <2>5. \A i, k \in DOMAIN runs' :
          i < k /\ runs'[i].gen = runs'[k].gen => runs'[i].result # "running"
    BY <2>2, <2>3, <2>4 DEF RunsInv
  <2> QED
    BY <1>1, <2>2, <2>5 DEF RunsInv
<1>8. CASE CompleteWorkflow
  BY <1>8 DEF CompleteWorkflow, Complete, RunsInv
<1>9. CASE ResourceGone
  <2>1. /\ resource'.uid = 0 /\ resource'.gen = 0 /\ stage' = NoStage /\ runs' = runs
        /\ stage'.task = RunNil
    BY <1>9 DEF ResourceGone, Gone, NoResource, NoStage
  <2> QED
    BY <1>1, <2>1 DEF RunsInv
<1>10. ASSUME NEW i \in DOMAIN runs, NEW result \in Results \ {"running"}, End(i, result)
       PROVE  RunsInv'
  BY <1>10, EndFacts DEF RunsInv
<1>11. ASSUME NEW i \in DOMAIN runs, ScriptOf(i) PROVE RunsInv'
  <2>1. {"succeeded", "failed", "lost"} \subseteq Results \ {"running"}
    BY DEF Results
  <2> QED
    BY <1>2, <1>10, <1>11, <2>1, ScriptEnds
<1> QED
  BY <1>2, <1>3, <1>4, <1>5, <1>6, <1>7, <1>8, <1>9, <1>11 DEF ScriptsNext, ScriptOf, Runs, vars

-----------------------------------------------------------------------------
PlanTasks == {"plan", "plan-delete"}

AfterPlan(t) == \E p \in PlanTasks : p \in WorkflowOf(t) /\ Before(p, t)

PlanIsMade(g) == disk[g].plan = NoPlan \/ runs[disk[g].plan.run].result = "succeeded"

IsDir(d) ==
  d = [main |-> d.main, initialized |-> d.initialized, plan |-> d.plan, vars |-> d.vars]

DisksAndSpecs ==
  /\ disk = [g \in Gens |-> disk[g]] /\ \A g \in Gens : IsDir(disk[g])
  /\ specs = [g \in Gens |-> specs[g]]

PlannedRuns ==
  /\ planned \subseteq DOMAIN runs /\ applied \subseteq DOMAIN runs
  /\ \A i \in planned : runs[i].task \in PlanTasks

SucceededPlans ==
  \A i \in DOMAIN runs :
    runs[i].task \in PlanTasks /\ runs[i].result = "succeeded" =>
      i \in planned /\ (SpecOf(i).requireApproval => i \in approved)

(* The plan in a directory is that of the last run that made one there.    *)
LastPlan(g) ==
  disk[g].plan = NoPlan \/
    /\ disk[g].plan.run \in planned /\ runs[disk[g].plan.run].gen = g
    /\ \A k \in planned : runs[k].gen = g => k <= disk[g].plan.run

StageHasPlan ==
  resource.uid # 0 /\ stage.task # RunNil /\ AfterPlan(stage.task) => PlanIsMade(stage.gen)

AppliesHavePlan ==
  \A i \in DOMAIN runs :
    runs[i].result = "running" /\ runs[i].task \in ApplyTasks => PlanIsMade(runs[i].gen)

PlanInv ==
  /\ DisksAndSpecs /\ PlannedRuns /\ SucceededPlans /\ \A g \in Gens : LastPlan(g)
  /\ StageHasPlan /\ AppliesHavePlan /\ AppliedWasApproved

ApprovalInv == TypeInv /\ RunsInv /\ PlanInv

(* Where the plan is among the tasks.                                      *)
LEMMA OnePlanTask ==
  /\ \A p, q \in PlanTasks : \A t : p \in WorkflowOf(t) /\ q \in WorkflowOf(t) => p = q
  /\ PlanTasks \subseteq ConfiguredTasks /\ PlanTasks \subseteq TaskName
  /\ \A p \in PlanTasks : p \in WorkflowOf(p) /\ ~AfterPlan(p)
  /\ \A t \in ApplyTasks : AfterPlan(t)
  /\ \A t \in {"setup", "setup-delete"} : ~AfterPlan(t)
<1>1. "plan" \in CreateTasks /\ "plan-delete" \in DeleteTasks
  BY DEF CreateTasks, DeleteTasks, TasksInOrder, DeleteTasksInOrder
<1>2. \A p, q \in PlanTasks : \A t : p \in WorkflowOf(t) /\ q \in WorkflowOf(t) => p = q
  BY <1>1, ListsAreInjective DEF PlanTasks, WorkflowOf
<1>3. PlanTasks \subseteq ConfiguredTasks /\ PlanTasks \subseteq TaskName
  BY <1>1 DEF PlanTasks, ConfiguredTasks, GetConfiguredTasks, AlwaysConfigured, TaskName
<1>4. \A p \in PlanTasks : p \in WorkflowOf(p)
  BY <1>1, ListsAreInjective DEF PlanTasks, WorkflowOf
<1>5. \A p \in PlanTasks : ~AfterPlan(p)
  BY <1>2, <1>3, <1>4, BeforeIsTotal DEF AfterPlan
<1>6. \A t \in ApplyTasks : AfterPlan(t)
  <2>1. /\ "plan" \in WorkflowOf("apply") /\ Before("plan", "apply")
        /\ "plan-delete" \in WorkflowOf("apply-delete") /\ Before("plan-delete", "apply-delete")
    BY PlanBeforeApply DEF LaterTasks
  <2> QED
    BY <2>1 DEF AfterPlan, PlanTasks, ApplyTasks
<1>7. \A t \in {"setup", "setup-delete"} : ~AfterPlan(t)
  BY SetupIsFirst DEF AfterPlan
<1> QED
  BY <1>2, <1>3, <1>4, <1>5, <1>6, <1>7

(* A stage after the plan is reached with the plan made.                   *)
LEMMA StageHasPlanNext ==
  ASSUME TypeInv, RunsInv, PlanInv, NextStage
  PROVE  StageHasPlan'
<1>1. /\ disk' = disk /\ runs' = runs /\ stage'.gen = stage.gen /\ resource.uid # 0
      /\ stage.task # RunNil /\ stage.task \in TaskName /\ stage.gen \in Gens
  BY NextStageFacts DEF NextStage, NoScript, TypeInv, StageOf, RunsInv
<1> SUFFICES ASSUME stage'.task # RunNil, AfterPlan(stage'.task)
             PROVE  PlanIsMade(stage.gen)
  BY <1>1 DEF StageHasPlan, PlanIsMade, AfterPlan
<1> DEFINE next == stage'.task
<1>2. PICK p \in PlanTasks : p \in WorkflowOf(next) /\ Before(p, next)
  BY DEF AfterPlan
<1>3. p \in TaskName /\ p \in ConfiguredTasks
  BY OnePlanTask
<1>4. WorkflowOf(next) = WorkflowOf(stage.task)
  BY NextStageFacts DEF NextStage
<1>5. CASE Advance
  <2>1. /\ next = NextTask(stage.task, ConfiguredTasks) /\ StageIs("succeeded")
        /\ next \in LaterTasks(stage.task, ConfiguredTasks) /\ next \in TaskName
    BY <1>5, NextTaskResult, WorkflowOfLater DEF Advance, Enter
  <2>2. CASE Before(p, stage.task)
    BY <1>1, <1>2, <1>4, <2>2 DEF PlanInv, StageHasPlan, AfterPlan
  <2>3. CASE Before(stage.task, p)
    <3>1. p \in LaterTasks(stage.task, ConfiguredTasks)
      BY <1>2, <1>3, <1>4, <2>3 DEF LaterTasks
    <3>2. next = p \/ Before(next, p)
      BY <2>1, <3>1, NextTaskSkipsNone
    <3> QED
      BY <1>2, <1>3, <2>1, <3>2, BeforeIsTotal
  <2>4. CASE stage.task = p
    <3>1. DOMAIN runs = 1..Len(runs) /\ Len(runs) \in Nat
      BY DEF TypeInv
    <3>2. PICK j \in DOMAIN runs :
            /\ IsRunOf(runs[j], resource.uid, stage.gen, stage.task)
            /\ runs[j].result = "succeeded"
            /\ \A k \in DOMAIN runs :
                 k > j => ~IsRunOf(runs[k], resource.uid, stage.gen, stage.task)
      BY <2>1, <3>1 DEF StageIs
    <3>3. j \in planned
      BY <2>4, <3>2 DEF PlanInv, SucceededPlans, IsRunOf
    <3> SUFFICES ASSUME disk[stage.gen].plan # NoPlan
                 PROVE  runs[disk[stage.gen].plan.run].result = "succeeded"
      BY DEF PlanIsMade
    <3> DEFINE last == disk[stage.gen].plan.run
    <3>4. /\ last \in planned /\ runs[last].gen = stage.gen /\ j <= last
          /\ last \in DOMAIN runs /\ runs[last].task \in PlanTasks
      BY <1>1, <3>2, <3>3 DEF PlanInv, LastPlan, PlannedRuns, IsRunOf
    <3>5. WorkflowOf(runs[last].task) = WorkflowOf(stage.task)
      BY <1>1, <3>4 DEF RunsInv
    <3>6. runs[last].task = stage.task
      BY <2>4, <3>4, <3>5, OnePlanTask
    <3>7. IsRunOf(runs[last], resource.uid, stage.gen, stage.task)
      BY <1>1, <3>4, <3>6 DEF IsRunOf, RunsInv
    <3>8. ~(last > j)
      BY <3>2, <3>4, <3>7
    <3>9. last = j
      BY <3>1, <3>2, <3>4, <3>8
    <3> QED
      BY <3>2, <3>9
  <2> QED
    BY <1>1, <1>3, <2>2, <2>3, <2>4, BeforeIsTotal
<1>6. CASE Replan
  <2>1. PICK t \in {"postinit", "postinit-delete"} :
          next = NextTask(t, ConfiguredTasks) /\ WorkflowOf(stage.task) = WorkflowOf(t)
    BY <1>6, PlanBeforeApply DEF Replan, Enter
  <2>2. PICK plan \in PlanTasks : plan \in LaterTasks(t, ConfiguredTasks)
    BY <2>1, PlanBeforeApply DEF PlanTasks, ConfiguredTasks
  <2>3. /\ next \in LaterTasks(t, ConfiguredTasks) /\ next \in TaskName
        /\ next = plan \/ Before(next, plan)
    BY <2>1, <2>2, NextTaskSkipsNone, WorkflowOfLater
  <2>4. plan \in WorkflowOf(t)
    BY <2>2 DEF LaterTasks
  <2>5. p = plan
    BY <1>2, <1>4, <2>1, <2>4, OnePlanTask
  <2> QED
    BY <1>2, <1>3, <2>3, <2>5, BeforeIsTotal
<1> QED
  BY <1>5, <1>6 DEF NextStage

(* What a script does to the plans on the disk.                            *)
LEMMA DirFields ==
  ASSUME NEW d, IsDir(d), NEW x
  PROVE  LET a == [d EXCEPT !.initialized = x]
             b == [d EXCEPT !.plan = x]
         IN  /\ IsDir(a) /\ a.plan = d.plan
             /\ IsDir(b) /\ b.plan = x
BY DEF IsDir

LEMMA EmptyDirFields == IsDir(EmptyDir) /\ EmptyDir.plan = NoPlan
BY DEF EmptyDir, IsDir

LEMMA NewDirFields ==
  ASSUME NEW main, NEW initialized, NEW plan, NEW files, NEW d,
         d = [main |-> main, initialized |-> initialized, plan |-> plan, vars |-> files]
  PROVE  IsDir(d) /\ d.plan = plan
BY DEF IsDir

OnlyLosesPlans ==
  /\ disk' = [g \in Gens |-> disk'[g]] /\ \A g \in Gens : IsDir(disk'[g])
  /\ \A g \in Gens : disk'[g].plan \in {disk[g].plan, NoPlan}

LEMMA ScriptsKeepPlans ==
  ASSUME DisksAndSpecs, NEW i \in DOMAIN runs, runs[i].gen \in Gens,
         ScriptOf(i), ~TerraformPlan(i)
  PROVE  OnlyLosesPlans
<1>1. CASE disk' = disk
  BY <1>1 DEF DisksAndSpecs, OnlyLosesPlans
<1>2. ASSUME NEW main, NEW downloads, disk' = SetUpDisk(i, main, downloads)
      PROVE  OnlyLosesPlans
  <2> DEFINE disk0 == CleanedDisk(i)
             path == runs[i].gen
             files == disk0[path].vars \o Numbers(downloads)
             d == [main |-> main, initialized |-> FALSE, plan |-> NoPlan, vars |-> files]
  <2>1. /\ disk0 = [g \in Gens |-> disk0[g]]
        /\ \A g \in Gens : IsDir(disk0[g]) /\ disk0[g].plan \in {disk[g].plan, NoPlan}
    BY EmptyDirFields DEF CleanedDisk, DisksAndSpecs
  <2>2. disk' = [disk0 EXCEPT ![path] = d]
    BY <1>2 DEF SetUpDisk, GenerationPath
  <2> HIDE DEF files
  <2>3. IsDir(d) /\ d.plan = NoPlan
    BY NewDirFields
  <2> HIDE DEF d, disk0
  <2> QED
    BY <2>1, <2>2, <2>3 DEF OnlyLosesPlans
<1>3. CASE TerraformInit(i)
  <2> DEFINE path == runs[i].gen
             d == [disk[path] EXCEPT !.initialized = TRUE]
  <2>1. IsDir(d) /\ d.plan = disk[path].plan
    BY DirFields DEF DisksAndSpecs
  <2>2. disk' = [disk EXCEPT ![path] = d]
    BY <1>3 DEF TerraformInit, GenerationPath
  <2> HIDE DEF d
  <2> QED
    BY <2>1, <2>2 DEF OnlyLosesPlans, DisksAndSpecs
<1> QED
  BY <1>1, <1>2, <1>3 DEF ScriptOf, SetUp, SetUpStops, Noop, Approve, TerraformApply,
    TerraformAppliesInPart, TerraformRefuses, ReadOutputs, PatchSecret, ScriptStops,
    NothingToDo, scriptVars

LEMMA PlanWrites ==
  ASSUME DisksAndSpecs, NEW i \in DOMAIN runs, runs[i].gen \in Gens, TerraformPlan(i)
  PROVE  /\ disk' = [g \in Gens |-> disk'[g]] /\ \A g \in Gens : IsDir(disk'[g])
         /\ disk'[runs[i].gen].plan.run = i
         /\ \A g \in Gens \ {runs[i].gen} : disk'[g] = disk[g]
<1> DEFINE path == runs[i].gen
           plan == [serial |-> infra.serial, config |-> Planned(runs[i].task, Dir(i).main),
                    run |-> i]
           d == [disk[path] EXCEPT !.plan = plan]
<1>1. IsDir(d) /\ d.plan = plan
  BY DirFields DEF DisksAndSpecs
<1>2. plan.run = i
  OBVIOUS
<1>3. disk' = [disk EXCEPT ![path] = d]
  BY DEF TerraformPlan, GenerationPath
<1> HIDE DEF d, plan
<1> QED
  BY <1>1, <1>2, <1>3 DEF DisksAndSpecs

LEMMA PlanInvInit == ScriptsInit => PlanInv
<1> SUFFICES ASSUME ScriptsInit PROVE PlanInv
  OBVIOUS
<1>1. /\ DOMAIN runs = {} /\ planned = {} /\ applied = {} /\ resource.uid = 0
      /\ \A g \in Gens : disk[g].plan = NoPlan
  BY EmptyDirFields DEF ScriptsInit, Init, NoResource
<1>2. DisksAndSpecs
  BY EmptyDirFields DEF ScriptsInit, DisksAndSpecs
<1> QED
  BY <1>1, <1>2 DEF PlanInv, PlannedRuns, SucceededPlans, LastPlan, StageHasPlan,
    AppliesHavePlan, AppliedWasApproved

(* A spec written after the runs of a generation started is not theirs.    *)
LEMMA SpecsOfRunsStay ==
  ASSUME TypeInv, RunsInv, PlanInv, CreateResource \/ EditSpec \/ DeleteResource
  PROVE  /\ runs' = runs /\ disk' = disk /\ planned' = planned /\ approved' = approved
         /\ applied' = applied /\ stage' = stage
         /\ specs' = [g \in Gens |-> specs'[g]]
         /\ \A i \in DOMAIN runs : specs'[runs[i].gen] = specs[runs[i].gen]
         /\ resource.uid = 0 => stage.task = RunNil
         /\ resource.uid # 0 => resource'.uid = resource.uid
<1>1. /\ runs' = runs /\ disk' = disk /\ planned' = planned /\ approved' = approved
      /\ applied' = applied /\ stage' = stage
  BY DEF CreateResource, Create, EditSpec, Edit, DeleteResource, Delete, NoScript
<1>2. resource.uid = 0 => stage.task = RunNil
  BY DEF RunsInv, NoStage
<1>3. \E g, s : specs' = [specs EXCEPT ![g] = s]
  BY DEF CreateResource, EditSpec, DeleteResource
<1>4. specs' = [g \in Gens |-> specs'[g]]
  BY <1>3 DEF PlanInv, DisksAndSpecs
<1>5. CASE CreateResource
  <2>1. DOMAIN runs = {} /\ resource.uid = 0
    BY <1>5 DEF CreateResource, Create, RunsInv, TypeInv
  <2> QED
    BY <1>1, <1>2, <1>4, <2>1
<1>6. CASE EditSpec \/ DeleteResource
  <2>1. /\ resource.uid # 0 /\ resource'.uid = resource.uid /\ resource.gen \in Nat
        /\ \E s : specs' = [specs EXCEPT ![resource.gen + 1] = s]
    BY <1>6 DEF EditSpec, DeleteResource, Edit, Delete, TypeInv, Resource
  <2>2. \A i \in DOMAIN runs : runs[i].gen # resource.gen + 1
    BY <2>1 DEF RunsInv, Gens, TypeInv, StageOf
  <2>3. \A i \in DOMAIN runs : specs'[runs[i].gen] = specs[runs[i].gen]
    BY <2>1, <2>2 DEF PlanInv, DisksAndSpecs
  <2> QED
    BY <1>1, <1>2, <1>4, <2>1, <2>3
<1> QED
  BY <1>5, <1>6

(* The pods of one generation never work at the same time.                 *)
LEMMA OneAtWork ==
  ASSUME TypeInv, RunsInv, NEW i \in DOMAIN runs, NEW k \in DOMAIN runs,
         runs[i].gen = runs[k].gen, runs[i].result = "running"
  PROVE  k <= i /\ (runs[k].result = "running" => k = i)
<1>1. i \in Nat /\ k \in Nat
  BY DEF TypeInv
<1> QED
  BY <1>1 DEF RunsInv

LEMMA ScriptPlanInv ==
  ASSUME TypeInv, RunsInv, PlanInv, NEW i \in DOMAIN runs, ScriptOf(i)
  PROVE  PlanInv'
<1> DEFINE gen == runs[i].gen
<1>1. gen \in Gens
  BY DEF RunsInv
<1>2. specs' = specs
  BY ScriptEnds
<1>3. {"succeeded", "failed", "lost"} \subseteq Results \ {"running"}
  BY DEF Results
<1>4. /\ DOMAIN runs' = DOMAIN runs /\ resource' = resource /\ stage' = stage
      /\ \A k \in DOMAIN runs : /\ runs'[k].gen = runs[k].gen /\ runs'[k].task = runs[k].task
                                /\ k # i => runs'[k].result = runs[k].result
                                /\ runs[k].result = "succeeded" => runs'[k].result = "succeeded"
                                /\ runs'[k].result = "running" => runs[k].result = "running"
  BY <1>3, ScriptEnds, EndFacts DEF workflowVars
<1>5. runs[i].result = "running"
  BY <1>3, EndFacts DEF ScriptOf, SetUp, SetUpStops, TerraformInit, Noop, TerraformPlan, Approve,
    TerraformApply, TerraformAppliesInPart, TerraformRefuses, ReadOutputs, PatchSecret,
    ScriptStops, StopsAs, NothingToDo, Runs, ApplyRuns
<1>6. \A k \in DOMAIN runs : SpecOf(k)' = SpecOf(k)
  BY <1>2, <1>4 DEF SpecOf
<1>7. planned \subseteq planned' /\ approved \subseteq approved'
  BY DEF ScriptOf, SetUp, SetUpStops, TerraformInit, Noop, TerraformPlan, Approve,
    TerraformApply, TerraformAppliesInPart, TerraformRefuses, ReadOutputs, PatchSecret,
    ScriptStops, NothingToDo, scriptVars
<1>8. CASE TerraformPlan(i)
  <2>1. /\ planned' = planned \cup {i} /\ approved' = approved /\ applied' = applied
        /\ runs[i].task \in PlanTasks /\ i \notin planned
        /\ IsHeld(i) \/ ~SpecOf(i).requireApproval
        /\ IsHeld(i) => UNCHANGED workflowVars
    BY <1>8 DEF TerraformPlan, Runs, PlanTasks, IsHeld
  <2>2. /\ DisksAndSpecs' /\ disk'[gen].plan.run = i
        /\ \A g \in Gens \ {gen} : disk'[g] = disk[g]
    BY <1>1, <1>2, <1>8, PlanWrites DEF PlanInv, DisksAndSpecs
  <2>3. PlannedRuns'
    BY <1>4, <2>1 DEF PlanInv, PlannedRuns
  <2>4. SucceededPlans'
    BY <1>4, <1>5, <1>6, <2>1 DEF PlanInv, SucceededPlans, workflowVars
  <2>5. ASSUME NEW g \in Gens PROVE LastPlan(g)'
    <3>1. CASE g = gen
      <4>1. \A k \in planned' : runs'[k].gen = g => k <= i
        BY <1>4, <1>5, <2>1, <3>1, OneAtWork DEF PlanInv, PlannedRuns
      <4> QED
        BY <1>4, <2>1, <2>2, <3>1, <4>1 DEF LastPlan
    <3>2. CASE g # gen
      BY <1>4, <2>1, <2>2, <3>2 DEF PlanInv, PlannedRuns, LastPlan
    <3> QED
      BY <3>1, <3>2
  <2>6. ASSUME NEW g \in Gens \ {gen}, PlanIsMade(g) PROVE PlanIsMade(g)'
    BY <1>4, <2>2, <2>6 DEF PlanInv, PlannedRuns, LastPlan, PlanIsMade
  <2>7. StageHasPlan'
    <3>1. ASSUME resource.uid # 0, stage.gen = gen PROVE ~AfterPlan(stage.task)
      BY <1>5, <2>1, <3>1, OnePlanTask DEF RunsInv
    <3>2. stage.task # RunNil => stage.gen \in Gens
      BY DEF RunsInv
    <3> QED
      BY <1>4, <2>6, <3>1, <3>2 DEF PlanInv, StageHasPlan, AfterPlan
  <2>8. AppliesHavePlan'
    <3>1. PlanTasks \cap ApplyTasks = {}
      BY DEF PlanTasks, ApplyTasks
    <3>2. \A k \in DOMAIN runs :
            runs[k].result = "running" /\ runs[k].task \in ApplyTasks => runs[k].gen # gen
      BY <1>5, <2>1, <3>1, OneAtWork
    <3>3. \A k \in DOMAIN runs : runs[k].gen \in Gens
      BY DEF RunsInv
    <3> QED
      BY <1>4, <2>6, <3>2, <3>3 DEF PlanInv, AppliesHavePlan
  <2>9. AppliedWasApproved'
    BY <1>6, <2>1 DEF PlanInv, PlannedRuns, AppliedWasApproved
  <2> QED
    BY <2>2, <2>3, <2>4, <2>5, <2>7, <2>8, <2>9 DEF PlanInv
<1>9. CASE ~TerraformPlan(i)
  <2>1. OnlyLosesPlans
    BY <1>1, <1>9, ScriptsKeepPlans DEF PlanInv
  <2>2. planned' = planned
    BY <1>9 DEF ScriptOf, SetUp, SetUpStops, TerraformInit, Noop, Approve, TerraformApply,
      TerraformAppliesInPart, TerraformRefuses, ReadOutputs, PatchSecret, ScriptStops,
      NothingToDo, scriptVars
  <2>3. DisksAndSpecs'
    BY <1>2, <2>1 DEF PlanInv, DisksAndSpecs, OnlyLosesPlans
  <2>4. \A g \in Gens : LastPlan(g)'
    BY <1>4, <2>1, <2>2 DEF PlanInv, PlannedRuns, LastPlan, OnlyLosesPlans
  <2>5. ASSUME NEW g \in Gens, PlanIsMade(g) PROVE PlanIsMade(g)'
    BY <1>4, <2>1, <2>5 DEF PlanInv, PlannedRuns, LastPlan, OnlyLosesPlans, PlanIsMade
  <2>6. StageHasPlan'
    <3>1. stage.task # RunNil => stage.gen \in Gens
      BY DEF RunsInv
    <3> QED
      BY <1>4, <2>5, <3>1 DEF PlanInv, StageHasPlan, AfterPlan
  <2>7. AppliesHavePlan'
    <3>1. \A k \in DOMAIN runs : runs[k].gen \in Gens
      BY DEF RunsInv
    <3> QED
      BY <1>4, <2>5, <3>1 DEF PlanInv, AppliesHavePlan
  <2>8. SucceededPlans'
    <3>1. CASE Approve(i)
      <4>1. i \in planned /\ i \in approved'
        BY <3>1 DEF Approve
      <4> QED
        BY <1>4, <1>6, <1>7, <2>2, <4>1 DEF PlanInv, SucceededPlans
    <3>2. CASE ~Approve(i)
      <4>1. runs[i].task \in PlanTasks => runs'[i].result # "succeeded"
        <5>1. /\ PlanTasks \subseteq TerraformTasks
              /\ PlanTasks \cap (SetupTasks \cup {"init", "init-delete"}) = {}
              /\ PlanTasks \cap ApplyTasks = {}
          BY DEF PlanTasks, TerraformTasks, SetupTasks, ApplyTasks
        <5> SUFFICES ASSUME runs[i].task \in PlanTasks
                     PROVE  runs'[i].result # "succeeded"
          OBVIOUS
        <5>2. ScriptStops(i) \/ NothingToDo(i)
          BY <1>9, <3>2, <5>1 DEF ScriptOf, SetUp, SetUpStops, TerraformInit, Noop,
            TerraformApply, TerraformAppliesInPart, TerraformRefuses, ReadOutputs,
            PatchSecret, Runs, ApplyRuns, ApplyTasks
        <5>3. \E result \in {"failed", "lost"} : End(i, result)
          BY <5>2 DEF ScriptStops, StopsAs, NothingToDo
        <5> QED
          BY <1>3, <5>3, EndFacts
      <4> QED
        BY <1>4, <1>6, <1>7, <4>1 DEF PlanInv, SucceededPlans
    <3> QED
      BY <3>1, <3>2
  <2>9. PlannedRuns' /\ AppliedWasApproved'
    <3>1. CASE TerraformApply(i) \/ TerraformAppliesInPart(i)
      <4> DEFINE p == disk[gen].plan.run
      <4>1. applied' = applied \cup {p} /\ runs[i].task \in ApplyTasks /\ disk[gen].plan # NoPlan
        BY <3>1 DEF TerraformApply, TerraformAppliesInPart, ApplyRuns, Runs, ApplyTasks, Dir,
          GenerationPath, IsFresh
      <4>2. p \in planned /\ p \in DOMAIN runs /\ runs[p].task \in PlanTasks
        BY <1>1, <4>1 DEF PlanInv, LastPlan, PlannedRuns
      <4>3. runs[p].result = "succeeded"
        BY <1>5, <4>1 DEF PlanInv, AppliesHavePlan, PlanIsMade
      <4>4. SpecOf(p).requireApproval => p \in approved
        BY <4>2, <4>3 DEF PlanInv, SucceededPlans
      <4> QED
        BY <1>4, <1>6, <1>7, <2>2, <4>1, <4>2, <4>4 DEF PlanInv, PlannedRuns, AppliedWasApproved
    <3>2. CASE ~(TerraformApply(i) \/ TerraformAppliesInPart(i))
      <4>1. applied' = applied
        BY <1>9, <3>2 DEF ScriptOf, SetUp, SetUpStops, TerraformInit, Noop, Approve,
          TerraformRefuses, ReadOutputs, PatchSecret, ScriptStops, NothingToDo, scriptVars
      <4> QED
        BY <1>4, <1>6, <1>7, <2>2, <4>1 DEF PlanInv, PlannedRuns, AppliedWasApproved
    <3> QED
      BY <3>1, <3>2
  <2> QED
    BY <2>3, <2>4, <2>6, <2>7, <2>8, <2>9 DEF PlanInv
<1> QED
  BY <1>8, <1>9

LEMMA PlanInvNext ==
  ASSUME TypeInv, RunsInv, PlanInv, [ScriptsNext]_vars
  PROVE  PlanInv'
<1>1. CASE UNCHANGED <<runs, specs, disk, planned, approved, applied>> /\ StageHasPlan'
  BY <1>1 DEF PlanInv, DisksAndSpecs, IsDir, PlannedRuns, SucceededPlans, LastPlan,
    AppliesHavePlan, PlanIsMade, AppliedWasApproved, SpecOf
<1>2. CASE UNCHANGED vars
  <2>1. StageHasPlan'
    BY <1>2 DEF PlanInv, StageHasPlan, AfterPlan, PlanIsMade, vars, workflowVars, scriptVars
  <2> QED
    BY <1>1, <1>2, <2>1 DEF vars, workflowVars, scriptVars
<1>3. CASE CreateResource \/ EditSpec \/ DeleteResource
  <2>1. DisksAndSpecs'
    BY <1>3, SpecsOfRunsStay DEF PlanInv, DisksAndSpecs, IsDir
  <2>2. \A i \in DOMAIN runs : SpecOf(i)' = SpecOf(i)
    BY <1>3, SpecsOfRunsStay DEF SpecOf
  <2>3. StageHasPlan'
    BY <1>3, SpecsOfRunsStay DEF PlanInv, StageHasPlan, AfterPlan, PlanIsMade
  <2>4. PlannedRuns' /\ (\A g \in Gens : LastPlan(g)') /\ AppliesHavePlan'
    BY <1>3, SpecsOfRunsStay DEF PlanInv, PlannedRuns, LastPlan, AppliesHavePlan, PlanIsMade
  <2>5. SucceededPlans' /\ AppliedWasApproved'
    BY <1>3, <2>2, SpecsOfRunsStay DEF PlanInv, PlannedRuns, SucceededPlans, AppliedWasApproved
  <2> QED
    BY <2>1, <2>3, <2>4, <2>5 DEF PlanInv
<1>4. CASE NewStage
  <2>1. stage'.task \in {"setup", "setup-delete"} /\ runs' = runs
    BY <1>4 DEF NewStage, NewGeneration, Enter
  <2>2. StageHasPlan'
    BY <2>1, OnePlanTask DEF StageHasPlan, AfterPlan
  <2> QED
    BY <1>1, <1>4, <2>1, <2>2 DEF NewStage, NoScript
<1>5. CASE NextStage
  <2>1. runs' = runs
    BY <1>5, NextStageFacts DEF NextStage
  <2> QED
    BY <1>1, <1>5, <2>1, StageHasPlanNext DEF NextStage, NoScript
<1>6. CASE StartRun
  <2> DEFINE n == Len(runs) + 1
  <2>1. /\ DOMAIN runs' = DOMAIN runs \cup {n} /\ n \notin DOMAIN runs
        /\ \A k \in DOMAIN runs : runs'[k] = runs[k]
        /\ runs'[n].gen = stage.gen /\ runs'[n].task = stage.task
        /\ runs'[n].result = "running"
        /\ resource' = resource /\ stage' = stage /\ resource.uid # 0 /\ stage.task # RunNil
    BY <1>6, StartFacts DEF StartRun
  <2>2. UNCHANGED <<specs, disk, planned, approved, applied>>
    BY <1>6 DEF StartRun, NoScript
  <2> HIDE DEF n
  <2>3. DisksAndSpecs'
    BY <2>2 DEF PlanInv, DisksAndSpecs, IsDir
  <2>4. \A k \in DOMAIN runs : SpecOf(k)' = SpecOf(k)
    BY <2>1, <2>2 DEF SpecOf
  <2>5. PlannedRuns' /\ AppliedWasApproved'
    BY <2>1, <2>2, <2>4 DEF PlanInv, PlannedRuns, AppliedWasApproved
  <2>6. SucceededPlans'
    BY <2>1, <2>2, <2>4 DEF PlanInv, SucceededPlans
  <2>7. \A g \in Gens : LastPlan(g)'
    BY <2>1, <2>2 DEF PlanInv, PlannedRuns, LastPlan
  <2>8. ASSUME NEW g \in Gens, PlanIsMade(g) PROVE PlanIsMade(g)'
    BY <2>1, <2>2, <2>8 DEF PlanInv, PlannedRuns, LastPlan, PlanIsMade
  <2>9. stage.gen \in Gens /\ \A k \in DOMAIN runs : runs[k].gen \in Gens
    BY <2>1 DEF RunsInv
  <2>10. StageHasPlan'
    BY <2>1, <2>8, <2>9 DEF PlanInv, StageHasPlan, AfterPlan
  <2>11. AppliesHavePlan'
    BY <2>1, <2>8, <2>9, OnePlanTask DEF PlanInv, AppliesHavePlan, StageHasPlan
  <2> QED
    BY <2>3, <2>5, <2>6, <2>7, <2>10, <2>11 DEF PlanInv
<1>7. CASE CompleteWorkflow
  <2>1. UNCHANGED <<resource, stage, runs, specs, disk, planned, approved, applied>>
    BY <1>7 DEF CompleteWorkflow, Complete
  <2>2. StageHasPlan'
    BY <2>1 DEF PlanInv, StageHasPlan, AfterPlan, PlanIsMade
  <2> QED
    BY <1>1, <2>1, <2>2
<1>8. CASE ResourceGone
  <2>1. resource'.uid = 0 /\ runs' = runs
    BY <1>8 DEF ResourceGone, Gone, NoResource
  <2>2. StageHasPlan'
    BY <2>1 DEF StageHasPlan
  <2> QED
    BY <1>1, <1>8, <2>1, <2>2 DEF ResourceGone, NoScript
<1>9. ASSUME NEW i \in DOMAIN runs, ScriptOf(i) PROVE PlanInv'
  BY <1>9, ScriptPlanInv
<1> QED
  BY <1>2, <1>3, <1>4, <1>5, <1>6, <1>7, <1>8, <1>9 DEF ScriptsNext, ScriptOf, Runs

(* For every spec, number of generations, failures and lost pods: a plan   *)
(* that reached the infrastructure was approved where requireApproval      *)
(* holds (generatePod's approver, tf.sh).                                  *)
THEOREM AppliesOnlyApproved == ScriptsSpec => []AppliedWasApproved
<1>1. ScriptsInit => ApprovalInv
  BY WorkflowTypeInit, RunsInvInit, PlanInvInit DEF ApprovalInv, ScriptsInit
<1>2. ApprovalInv /\ [ScriptsNext]_vars => ApprovalInv'
  BY ScriptsStep, WorkflowTypeNext, RunsInvNext, PlanInvNext DEF ApprovalInv
<1>3. ApprovalInv => AppliedWasApproved
  BY DEF ApprovalInv, PlanInv
<1> QED
  BY <1>1, <1>2, <1>3, PTL DEF ScriptsSpec

-----------------------------------------------------------------------------
(***************************************************************************)
(* What is reported as completed was applied.  The argument: a plan is of  *)
(* the state when it was made (MadePlans), so once the stage's apply has   *)
(* changed the state, no apply of an older generation finds its plan fresh *)
(* (OlderPlans), and nothing else changes the infrastructure until the     *)
(* stage's next apply (AppliedStage).                                      *)
(***************************************************************************)
ConfigOf(task, gen) == IF task \in DeleteTasks THEN Destroyed ELSE gen

MadePlans ==
  /\ infra.serial \in Nat
  /\ \A g \in Gens :
       disk[g].plan # NoPlan =>
         /\ disk[g].plan.serial \in Nat /\ disk[g].plan.serial <= infra.serial
         /\ disk[g].plan.config = ConfigOf(runs[disk[g].plan.run].task, g)

OlderPlans ==
  resource.uid # 0 =>
    \A i \in ApplyRuns :
      runs[i].gen < stage.gen =>
        \/ Dir(i).plan = NoPlan \/ disk[stage.gen].plan = NoPlan
        \/ Dir(i).plan.serial <= disk[stage.gen].plan.serial

(* The infrastructure is what the stage's generation wants it to be, and   *)
(* no older one will change it.                                            *)
Settled(config) ==
  /\ infra.config = config
  /\ \A i \in ApplyRuns : runs[i].gen < stage.gen => ~IsFresh(Dir(i).plan)

AfterApply(t) == \E a \in ApplyTasks : a \in WorkflowOf(t) /\ Before(a, t)

AppliedBy(t) ==
  \/ stage.task = t /\ StageIs("succeeded")
  \/ stage.task = RunNil /\ InState(resource.uid, stage.gen, t, "succeeded")

IsSaving(i) == i \in DOMAIN saving /\ runs[i].result = "running" /\ runs[i].gen = stage.gen

AppliedStage ==
  resource.uid # 0 =>
    /\ AfterApply(stage.task) => Settled(ConfigOf(stage.task, stage.gen))
    /\ \A t \in ApplyTasks : AppliedBy(t) => Settled(ConfigOf(t, stage.gen))
    /\ \A i \in DOMAIN runs : IsSaving(i) => Settled(stage.gen)

(* A stage before the apply comes after an apply that has failed, if any.  *)
NotYetApplied ==
  resource.uid # 0 =>
    \A a \in ApplyTasks : a \in WorkflowOf(stage.task) /\ Before(stage.task, a) =>
      \A i \in DOMAIN runs :
        IsRunOf(runs[i], resource.uid, stage.gen, a) /\ runs[i].result = "succeeded" =>
          \E j \in DOMAIN runs : j > i /\ IsRunOf(runs[j], resource.uid, stage.gen, a)

SavingRuns ==
  \A i \in DOMAIN saving :
    i \in DOMAIN runs /\ runs[i].task = "apply" /\ SaveOutputs(SpecOf(i))

CompletedStage ==
  completed => /\ resource.uid # 0 /\ stage.task = RunNil
               /\ InState(resource.uid, stage.gen, "apply", "succeeded")

(* The var files of the spec came last.                                    *)
EndsWith(files, n) ==
  \E m \in Nat : Len(files) = m + n /\ \A k \in 1..n : files[m + k] = k

Dirs ==
  \A g \in Gens :
    /\ disk[g].main \in {0, g} /\ disk[g].initialized \in BOOLEAN
    /\ disk[g].initialized => disk[g].main = g /\ EndsWith(disk[g].vars, specs[g].varFiles)
    /\ disk[g].vars \in Seq(Nat)
    /\ disk[g].main # 0 => \E i \in DOMAIN runs : runs[i].gen = g

(* They did where the set up is over: when a pod after it is at work, and  *)
(* when the stage is past it or is to leave it.  The module of an older    *)
(* generation may have been removed since.                                 *)
HasFiles(g) == disk[g].main = 0 \/ EndsWith(disk[g].vars, specs[g].varFiles)

SetUpIsOver ==
  /\ \A i \in DOMAIN runs :
       runs[i].result = "running" /\ runs[i].task \notin SetupTasks => HasFiles(runs[i].gen)
  /\ /\ resource.uid # 0 /\ stage.task # RunNil
     /\ stage.task \in SetupTasks => StageIs("succeeded")
     => HasFiles(stage.gen)

AppliedInv == /\ MadePlans /\ OlderPlans /\ AppliedStage /\ NotYetApplied /\ SavingRuns
              /\ CompletedStage /\ Dirs /\ SetUpIsOver

-----------------------------------------------------------------------------
(* Where the apply is among the tasks, and what each workflow is for.      *)
LEMMA SameConfig ==
  ASSUME NEW t \in TaskName, NEW u \in TaskName, WorkflowOf(t) = WorkflowOf(u), NEW gen
  PROVE  ConfigOf(t, gen) = ConfigOf(u, gen)
<1>1. t \in DeleteTasks <=> u \in DeleteTasks
  BY WorkflowsOfTasks DEF TaskName
<1> QED
  BY <1>1 DEF ConfigOf

LEMMA OneApplyTask ==
  /\ ApplyTasks \subseteq ConfiguredTasks /\ ApplyTasks \subseteq TaskName
  /\ "apply" \in ApplyTasks /\ RunNil \notin ApplyTasks
  /\ \A a, b \in ApplyTasks : WorkflowOf(a) = WorkflowOf(b) => a = b
  /\ \A a \in ApplyTasks, t \in TaskName : a \in WorkflowOf(t) <=> WorkflowOf(t) = WorkflowOf(a)
  /\ \A a \in ApplyTasks : ~AfterApply(a)
  /\ ~AfterApply("setup") /\ ~AfterApply("setup-delete") /\ ~AfterApply(RunNil)
  /\ \A gen : ConfigOf("apply", gen) = gen /\ ConfigOf("apply-delete", gen) = Destroyed
<1>1. "apply" \in CreateTasks /\ "apply-delete" \in DeleteTasks
  BY DEF CreateTasks, DeleteTasks, TasksInOrder, DeleteTasksInOrder
<1>2. ApplyTasks \subseteq ConfiguredTasks /\ ApplyTasks \subseteq TaskName
  BY <1>1 DEF ApplyTasks, ConfiguredTasks, GetConfiguredTasks, AlwaysConfigured, TaskName
<1>3. \A a, b \in ApplyTasks : WorkflowOf(a) = WorkflowOf(b) => a = b
  BY <1>1, WorkflowsOfTasks DEF ApplyTasks
<1>4. \A a \in ApplyTasks, t \in TaskName : a \in WorkflowOf(t) <=> WorkflowOf(t) = WorkflowOf(a)
  BY <1>1, WorkflowsOfTasks DEF ApplyTasks, TaskName
<1>5. \A a \in ApplyTasks : ~AfterApply(a)
  BY <1>2, <1>3, <1>4, BeforeIsTotal DEF AfterApply
<1>6. ~AfterApply("setup") /\ ~AfterApply("setup-delete")
  BY SetupIsFirst DEF AfterApply
<1>7. ~AfterApply(RunNil)
  BY NilIsNoTask DEF AfterApply, WorkflowOf
<1>8. \A gen : ConfigOf("apply", gen) = gen /\ ConfigOf("apply-delete", gen) = Destroyed
  BY <1>1, WorkflowsOfTasks DEF ConfigOf
<1>9. "apply" \in ApplyTasks /\ RunNil \notin ApplyTasks
  BY ApplyIsATask DEF ApplyTasks
<1> QED
  BY <1>2, <1>3, <1>4, <1>5, <1>6, <1>7, <1>8, <1>9

(* A stage that moves on is past the apply when its apply has succeeded,   *)
(* and otherwise is not past it.                                           *)
LEMMA PastApply ==
  ASSUME TypeInv, RunsInv, Advance \/ Replan
  PROVE  /\ AfterApply(stage'.task) =>
              /\ \/ AfterApply(stage.task)
                 \/ stage.task \in ApplyTasks /\ StageIs("succeeded")
              /\ \A gen : ConfigOf(stage'.task, gen) = ConfigOf(stage.task, gen)
         /\ \A a \in ApplyTasks :
              stage'.task = RunNil /\ InState(resource.uid, stage.gen, a, "succeeded") =>
                /\ \/ AfterApply(stage.task)
                   \/ stage.task = a /\ StageIs("succeeded")
                /\ \A gen : ConfigOf(a, gen) = ConfigOf(stage.task, gen)
<1> DEFINE next == stage'.task
<1>1. /\ stage.task # RunNil /\ stage.task \in TaskName /\ next \in TaskName \cup {RunNil}
      /\ next # RunNil => WorkflowOf(next) = WorkflowOf(stage.task)
  <2>1. next \in TaskName \cup {RunNil}
    BY NextTaskType DEF Advance, Replan, Enter
  <2> QED
    BY <2>1, NextStageFacts DEF TypeInv, StageOf
<1>2. CASE Advance
  <2>1. next = NextTask(stage.task, ConfiguredTasks) /\ StageIs("succeeded")
    BY <1>2 DEF Advance, Enter
  <2>2. ASSUME NEW a \in ApplyTasks, a \in WorkflowOf(stage.task),
               next = RunNil \/ Before(a, next)
        PROVE  AfterApply(stage.task) \/ stage.task = a
    <3>1. a = stage.task \/ Before(a, stage.task)
      BY <1>1, <2>1, <2>2, OneApplyTask, OnlyTasksConfigured, NothingIsSkipped
    <3> QED
      BY <2>2, <3>1 DEF AfterApply
  <2>3. ASSUME AfterApply(next)
        PROVE  /\ \/ AfterApply(stage.task)
                  \/ stage.task \in ApplyTasks /\ StageIs("succeeded")
               /\ \A gen : ConfigOf(next, gen) = ConfigOf(stage.task, gen)
    <3>1. next \in TaskName
      BY <1>1, <2>3, OneApplyTask
    <3>2. PICK a \in ApplyTasks : a \in WorkflowOf(next) /\ Before(a, next)
      BY <2>3 DEF AfterApply
    <3>3. WorkflowOf(next) = WorkflowOf(stage.task)
      BY <1>1, <3>1, NilIsNoTask
    <3>4. \A gen : ConfigOf(next, gen) = ConfigOf(stage.task, gen)
      BY <1>1, <3>1, <3>3, SameConfig
    <3> QED
      BY <2>1, <2>2, <3>2, <3>3, <3>4
  <2>4. ASSUME NEW a \in ApplyTasks, next = RunNil,
               InState(resource.uid, stage.gen, a, "succeeded")
        PROVE  /\ \/ AfterApply(stage.task)
                  \/ stage.task = a /\ StageIs("succeeded")
               /\ \A gen : ConfigOf(a, gen) = ConfigOf(stage.task, gen)
    <3>1. PICK i \in 1..Len(runs) : IsRunOf(runs[i], resource.uid, stage.gen, a)
      BY <2>4 DEF InState
    <3>2. i \in DOMAIN runs /\ runs[i].gen = stage.gen /\ runs[i].task = a
      BY <3>1 DEF IsRunOf, TypeInv
    <3>3. WorkflowOf(a) = WorkflowOf(stage.task) /\ a \in TaskName
      BY <1>1, <3>2, OneApplyTask DEF RunsInv
    <3>4. a \in WorkflowOf(stage.task)
      BY <1>1, <3>3, OneApplyTask
    <3>5. \A gen : ConfigOf(a, gen) = ConfigOf(stage.task, gen)
      BY <1>1, <3>3, SameConfig
    <3> QED
      BY <2>1, <2>2, <2>4, <3>4, <3>5
  <2> QED
    BY <2>3, <2>4
<1>3. CASE Replan
  <2> DEFINE start == IF stage.task = "apply-delete" THEN "postinit-delete" ELSE "postinit"
  <2>1. stage.task \in ApplyTasks /\ next = NextTask(start, ConfiguredTasks)
    BY <1>3, ApplyIsATask DEF Replan, Enter, ApplyTasks
  <2>2. next \in TaskName /\ WorkflowOf(next) = WorkflowOf(stage.task) /\ Before(next, stage.task)
    BY <2>1, RestartIsEarlier DEF ConfiguredTasks, ApplyTasks
  <2>3. ~AfterApply(next)
    <3> SUFFICES ASSUME NEW a \in ApplyTasks, a \in WorkflowOf(next), Before(a, next)
                 PROVE  FALSE
      BY DEF AfterApply
    <3>1. a = stage.task
      BY <1>1, <2>1, <2>2, OneApplyTask
    <3> QED
      BY <1>1, <2>2, <3>1, BeforeIsTotal
  <2> QED
    BY <2>2, <2>3, NilIsNoTask
<1> QED
  BY <1>2, <1>3

-----------------------------------------------------------------------------
(* What a script does to a directory.                                      *)
SetUpDir(i, d, e) ==
  \E main, downloads, files :
    /\ files \in {d.vars, <<>>}
    /\ e = [main |-> main, initialized |-> FALSE, plan |-> NoPlan,
            vars |-> files \o Numbers(downloads)]
    /\ main \in {0, runs[i].gen}
    /\ downloads \in PartialDownloads \cup {0, SpecOf(i).varFiles}
    /\ SetUp(i) => downloads = SpecOf(i).varFiles

MadePlan(i, d) ==
  [serial |-> infra.serial, config |-> Planned(runs[i].task, d.main), run |-> i]

LEMMA DirChanges ==
  ASSUME DisksAndSpecs, NEW i \in DOMAIN runs, runs[i].gen \in Gens, ScriptOf(i)
  PROVE  /\ \A g \in Gens : disk'[g] # disk[g] /\ disk'[g] # EmptyDir => g = runs[i].gen
         /\ LET d == disk[runs[i].gen]
                e == disk'[runs[i].gen]
            IN  \/ e \in {d, EmptyDir}
                \/ i \in Runs(SetupTasks) /\ SetUpDir(i, d, e)
                \/ TerraformInit(i) /\ d.main # 0 /\ e = [d EXCEPT !.initialized = TRUE]
                \/ TerraformPlan(i) /\ d.initialized /\ e = [d EXCEPT !.plan = MadePlan(i, d)]
         /\ disk' # disk => i \in Runs(SetupTasks) \/ TerraformInit(i) \/ TerraformPlan(i)
<1> DEFINE path == runs[i].gen
<1>1. CASE disk' = disk
  BY <1>1
<1>2. ASSUME NEW main \in {0, runs[i].gen},
             NEW downloads \in PartialDownloads \cup {0, SpecOf(i).varFiles},
             disk' = SetUpDisk(i, main, downloads), i \in Runs(SetupTasks),
             SetUp(i) => downloads = SpecOf(i).varFiles
      PROVE  /\ \A g \in Gens : disk'[g] # disk[g] /\ disk'[g] # EmptyDir => g = path
             /\ SetUpDir(i, disk[path], disk'[path])
  <2> DEFINE disk0 == CleanedDisk(i)
             d == [main |-> main, initialized |-> FALSE, plan |-> NoPlan,
                   vars |-> disk0[path].vars \o Numbers(downloads)]
  <2>1. /\ disk0 = [g \in Gens |-> disk0[g]]
        /\ \A g \in Gens : disk0[g] = disk[g] \/ disk0[g] = EmptyDir
    BY DEF CleanedDisk, DisksAndSpecs
  <2>2. disk' = [disk0 EXCEPT ![path] = d]
    BY <1>2 DEF SetUpDisk, GenerationPath
  <2>3. EmptyDir.vars = <<>>
    BY DEF EmptyDir
  <2>4. disk0[path].vars \in {disk[path].vars, <<>>}
    BY <2>1, <2>3
  <2>5. disk'[path] = d
    BY <2>1, <2>2
  <2>6. SetUpDir(i, disk[path], d)
    BY <1>2, <2>4 DEF SetUpDir
  <2>7. \A g \in Gens \ {path} : disk'[g] = disk0[g]
    BY <2>1, <2>2
  <2> HIDE DEF d, disk0
  <2> QED
    BY <2>1, <2>5, <2>6, <2>7
<1>3. CASE TerraformInit(i)
  <2>1. disk' = [disk EXCEPT ![path] = [disk[path] EXCEPT !.initialized = TRUE]]
    BY <1>3 DEF TerraformInit, GenerationPath
  <2>2. disk[path].main # 0
    BY <1>3 DEF TerraformInit, Dir, GenerationPath
  <2> QED
    BY <1>3, <2>1, <2>2 DEF DisksAndSpecs
<1>4. CASE TerraformPlan(i)
  <2>1. disk' = [disk EXCEPT ![path] = [disk[path] EXCEPT !.plan = MadePlan(i, disk[path])]]
    BY <1>4 DEF TerraformPlan, GenerationPath, Dir, MadePlan
  <2>2. disk[path].initialized
    BY <1>4 DEF TerraformPlan, Dir, GenerationPath
  <2> QED
    BY <1>4, <2>1, <2>2 DEF DisksAndSpecs
<1>5. ASSUME SetUp(i) \/ SetUpStops(i)
      PROVE  i \in Runs(SetupTasks) /\ \E main \in {0, runs[i].gen} :
               \E downloads \in PartialDownloads \cup {0, SpecOf(i).varFiles} :
                 /\ disk' = SetUpDisk(i, main, downloads)
                 /\ SetUp(i) => downloads = SpecOf(i).varFiles
  <2>1. CASE SetUp(i)
    BY <2>1 DEF SetUp
  <2>2. CASE ~SetUp(i)
    <3>1. SetUpStops(i)
      BY <1>5, <2>2
    <3> QED
      BY <2>2, <3>1 DEF SetUpStops
  <2> QED
    BY <2>1, <2>2
<1> QED
  BY <1>1, <1>2, <1>3, <1>4, <1>5 DEF ScriptOf, Noop, Approve, TerraformApply,
    TerraformAppliesInPart, TerraformRefuses, ReadOutputs, PatchSecret, ScriptStops,
    NothingToDo, scriptVars

(* Files numbered behind those that are there.                             *)
LEMMA FilesAdded ==
  ASSUME NEW files \in Seq(Nat), NEW n \in Nat
  PROVE  /\ files \o Numbers(n) \in Seq(Nat)
         /\ EndsWith(files \o Numbers(n), n)
<1>1. Numbers(n) \in Seq(Nat) /\ Len(Numbers(n)) = n /\ \A k \in 1..n : Numbers(n)[k] = k
  BY DEF Numbers
<1> HIDE DEF Numbers
<1>2. /\ files \o Numbers(n) \in Seq(Nat) /\ Len(files) \in Nat
      /\ Len(files \o Numbers(n)) = Len(files) + n
  BY <1>1
<1>3. \A k \in 1..n : (files \o Numbers(n))[Len(files) + k] = k
  BY <1>1, <1>2
<1> QED
  BY <1>2, <1>3 DEF EndsWith

LEMMA DirsInit == ScriptsInit => Dirs
<1>1. /\ EmptyDir.main = 0 /\ EmptyDir.initialized = FALSE /\ EmptyDir.vars \in Seq(Nat)
  BY DEF EmptyDir
<1>2. ScriptsInit => \A g \in Gens : disk[g] = EmptyDir
  BY DEF ScriptsInit
<1> QED
  BY <1>1, <1>2 DEF Dirs

SpecsOfUsers ==
  /\ resource.uid # 0 => resource.gen # 0
  /\ \A g \in Gens : specs[g] \in Specs \cup {EmptySpec}
  /\ \A g \in Gens : specs[g].varFiles \in Nat

LEMMA ScriptKeepsDirs ==
  ASSUME TypeInv, RunsInv, DisksAndSpecs, SpecsOfUsers, Dirs, SetUpIsOver,
         NEW i \in DOMAIN runs, ScriptOf(i)
  PROVE  Dirs'
<1> DEFINE path == runs[i].gen
           DirOK(g, d) ==
             /\ d.main \in {0, g} /\ d.initialized \in BOOLEAN
             /\ d.initialized => d.main = g /\ EndsWith(d.vars, specs[g].varFiles)
             /\ d.vars \in Seq(Nat)
             /\ d.main # 0 => \E k \in DOMAIN runs : runs[k].gen = g
<1>1. path \in Gens /\ path # 0
  BY DEF RunsInv, Gens
<1>2. \A g \in Gens : DirOK(g, disk[g]) /\ DirOK(g, EmptyDir)
  BY DEF Dirs, EmptyDir
<1>3. ASSUME NEW e, SetUpDir(i, disk[path], e) PROVE DirOK(path, e)
  <2>1. PICK main, downloads, files :
          /\ files \in {disk[path].vars, <<>>}
          /\ e = [main |-> main, initialized |-> FALSE, plan |-> NoPlan,
                  vars |-> files \o Numbers(downloads)]
          /\ main \in {0, path}
          /\ downloads \in PartialDownloads \cup {0, SpecOf(i).varFiles}
    BY <1>3 DEF SetUpDir
  <2>2. files \in Seq(Nat)
    <3>1. disk[path].vars \in Seq(Nat) /\ <<>> \in Seq(Nat)
      BY <1>1 DEF Dirs
    <3> QED
      BY <2>1, <3>1
  <2>0. downloads \in Nat
    BY <1>1, <2>1, BoundsAssumption DEF SpecsOfUsers, SpecOf
  <2>3. files \o Numbers(downloads) \in Seq(Nat)
    BY <2>0, <2>2, FilesAdded
  <2>4. /\ e.main = main /\ e.initialized = FALSE /\ e.vars = files \o Numbers(downloads)
    BY <2>1
  <2> QED
    BY <2>1, <2>3, <2>4
<1>4. ASSUME NEW x
      PROVE  LET a == [disk[path] EXCEPT !.initialized = TRUE]
                 b == [disk[path] EXCEPT !.plan = x]
             IN  /\ TerraformInit(i) /\ disk[path].main # 0 => DirOK(path, a)
                 /\ DirOK(path, b)
  <2> DEFINE d == disk[path]
             a == [d EXCEPT !.initialized = TRUE]
             b == [d EXCEPT !.plan = x]
  <2>1. /\ a.main = d.main /\ a.vars = d.vars /\ a.initialized = TRUE
        /\ b.main = d.main /\ b.vars = d.vars /\ b.initialized = d.initialized
    BY <1>1 DEF DisksAndSpecs, IsDir
  <2>2. DirOK(path, d)
    BY <1>1, <1>2
  <2>0. TerraformInit(i) /\ d.main # 0 => EndsWith(d.vars, specs[path].varFiles)
    <3>1. TerraformInit(i) => runs[i].result = "running" /\ runs[i].task \notin SetupTasks
      BY DEF TerraformInit, Runs, SetupTasks
    <3> QED
      BY <3>1 DEF SetUpIsOver, HasFiles
  <2> HIDE DEF a, b, d
  <2>3. TerraformInit(i) /\ d.main # 0 => DirOK(path, a)
    BY <2>0, <2>1, <2>2
  <2>4. DirOK(path, b)
    BY <2>1, <2>2
  <2> QED
    BY <2>3, <2>4 DEF a, b, d
<1> HIDE DEF DirOK
<1>5. \A g \in Gens : DirOK(g, disk'[g])
  <2>1. \A g \in Gens : disk'[g] # disk[g] /\ disk'[g] # EmptyDir => g = path
    BY <1>1, DirChanges
  <2>2. DirOK(path, disk'[path])
    <3>1. CASE disk'[path] \in {disk[path], EmptyDir}
      BY <1>1, <1>2, <3>1
    <3>2. CASE SetUpDir(i, disk[path], disk'[path])
      BY <1>3, <3>2
    <3>3. CASE /\ TerraformInit(i) /\ disk[path].main # 0
               /\ disk'[path] = [disk[path] EXCEPT !.initialized = TRUE]
      BY <1>4, <3>3
    <3>4. ASSUME NEW x, disk'[path] = [disk[path] EXCEPT !.plan = x]
          PROVE  DirOK(path, disk'[path])
      BY <1>4, <3>4
    <3> QED
      BY <1>1, <3>1, <3>2, <3>3, <3>4, DirChanges
  <2>3. ASSUME NEW g \in Gens PROVE DirOK(g, disk'[g])
    <3>1. CASE g = path
      BY <2>2, <3>1
    <3>2. CASE disk'[g] = disk[g]
      BY <1>2, <3>2
    <3>3. CASE disk'[g] = EmptyDir
      BY <1>2, <3>3
    <3> QED
      BY <2>1, <3>1, <3>2, <3>3
  <2> QED
    BY <2>3
<1>6. {"succeeded", "failed", "lost"} \subseteq Results
  BY DEF Results
<1>7. /\ specs' = specs
      /\ DOMAIN runs' = DOMAIN runs
      /\ \A k \in DOMAIN runs : runs'[k].gen = runs[k].gen
  BY <1>6, ScriptEnds, EndFacts DEF workflowVars
<1> QED
  BY <1>5, <1>7 DEF DirOK, Dirs

-----------------------------------------------------------------------------
(* What a script does to the runs, the plans and the infrastructure.       *)
LEMMA ScriptRuns ==
  ASSUME TypeInv, NEW i \in DOMAIN runs, ScriptOf(i)
  PROVE  /\ specs' = specs /\ resource' = resource /\ stage' = stage /\ completed' = completed
         /\ DOMAIN runs' = DOMAIN runs /\ runs[i].result = "running"
         /\ \A k \in DOMAIN runs :
              /\ runs'[k].uid = runs[k].uid /\ runs'[k].gen = runs[k].gen
              /\ runs'[k].task = runs[k].task
              /\ k # i => runs'[k].result = runs[k].result
              /\ runs'[k].result = "running" => runs[k].result = "running"
         /\ ApplyRuns' \subseteq ApplyRuns
<1>1. {"succeeded", "failed", "lost"} \subseteq Results \ {"running"}
  BY DEF Results
<1>2. completed' = completed
  BY ScriptEnds DEF End, workflowVars
<1>3. runs[i].result = "running"
  BY <1>1, EndFacts DEF ScriptOf, SetUp, SetUpStops, TerraformInit, Noop, TerraformPlan, Approve,
    TerraformApply, TerraformAppliesInPart, TerraformRefuses, ReadOutputs, PatchSecret,
    ScriptStops, StopsAs, NothingToDo, Runs, ApplyRuns
<1>4. /\ DOMAIN runs' = DOMAIN runs /\ resource' = resource /\ stage' = stage /\ specs' = specs
      /\ \A k \in DOMAIN runs :
           /\ runs'[k].uid = runs[k].uid /\ runs'[k].gen = runs[k].gen
           /\ runs'[k].task = runs[k].task
           /\ k # i => runs'[k].result = runs[k].result
           /\ runs'[k].result = "running" => runs[k].result = "running"
  BY <1>1, ScriptEnds, EndFacts DEF workflowVars
<1>5. DOMAIN saving \subseteq DOMAIN saving'
  BY DEF ScriptOf, SetUp, SetUpStops, TerraformInit, Noop, TerraformPlan, Approve,
    TerraformApply, TerraformAppliesInPart, TerraformRefuses, ReadOutputs, PatchSecret,
    ScriptStops, NothingToDo, scriptVars
<1>6. ApplyRuns' \subseteq ApplyRuns
  BY <1>4, <1>5 DEF ApplyRuns, Runs
<1> QED
  BY <1>2, <1>3, <1>4, <1>6

LEMMA PlanChanges ==
  ASSUME DisksAndSpecs, NEW i \in DOMAIN runs, runs[i].gen \in Gens, ScriptOf(i),
         NEW g \in Gens
  PROVE  \/ disk'[g].plan \in {disk[g].plan, NoPlan}
         \/ /\ g = runs[i].gen /\ TerraformPlan(i) /\ disk[g].initialized
            /\ disk'[g].plan = MadePlan(i, disk[g])
<1> DEFINE d == disk[runs[i].gen]
           e == disk'[runs[i].gen]
<1>0. IsDir(d) /\ EmptyDir.plan = NoPlan
  BY EmptyDirFields DEF DisksAndSpecs
<1>1. CASE disk'[g] \in {disk[g], EmptyDir}
  BY <1>0, <1>1
<1>2. ASSUME SetUpDir(i, d, e) PROVE e.plan = NoPlan
  BY <1>2 DEF SetUpDir
<1>3. ASSUME e = [d EXCEPT !.initialized = TRUE] PROVE e.plan = d.plan
  BY <1>0, <1>3, DirFields
<1>4. ASSUME e = [d EXCEPT !.plan = MadePlan(i, d)] PROVE e.plan = MadePlan(i, d)
  BY <1>0, <1>4, DirFields
<1>5. CASE disk'[g] \notin {disk[g], EmptyDir}
  <2>1. g = runs[i].gen
    BY <1>5, DirChanges
  <2> QED
    BY <1>2, <1>3, <1>4, <1>5, <2>1, DirChanges
<1> QED
  BY <1>1, <1>5

LEMMA InfraChanges ==
  ASSUME NEW i \in DOMAIN runs, ScriptOf(i)
  PROVE  \/ infra' = infra
         \/ /\ i \in ApplyRuns /\ IsFresh(Dir(i).plan) /\ infra'.serial = infra.serial + 1
            /\ disk' = disk
            /\ \/ TerraformApply(i) /\ infra'.config = Dir(i).plan.config
               \/ TerraformAppliesInPart(i) /\ infra'.config = Mixed
BY DEF ScriptOf, SetUp, SetUpStops, TerraformInit, Noop, TerraformPlan, Approve,
  TerraformApply, TerraformAppliesInPart, TerraformRefuses, ReadOutputs, PatchSecret,
  ScriptStops, NothingToDo, scriptVars

(* A plan and an apply of one generation are never at work together.       *)
LEMMA NoPlanWhileApplying ==
  ASSUME TypeInv, RunsInv, NEW i \in DOMAIN runs, TerraformPlan(i), NEW k \in ApplyRuns
  PROVE  runs[k].gen # runs[i].gen
<1>1. /\ runs[i].result = "running" /\ runs[i].task \notin ApplyTasks
      /\ k \in DOMAIN runs /\ runs[k].result = "running" /\ runs[k].task \in ApplyTasks
  BY DEF TerraformPlan, Runs, ApplyRuns, ApplyTasks
<1> QED
  BY <1>1, OneAtWork

LEMMA ScriptMadePlans ==
  ASSUME TypeInv, RunsInv, PlanInv, Dirs, MadePlans, NEW i \in DOMAIN runs, ScriptOf(i)
  PROVE  MadePlans'
<1>1. runs[i].gen \in Gens /\ DisksAndSpecs
  BY DEF RunsInv, PlanInv
<1>2. infra.serial \in Nat /\ infra'.serial \in Nat /\ infra.serial <= infra'.serial
  BY InfraChanges DEF MadePlans
<1>3. ASSUME NEW g \in Gens, disk'[g].plan # NoPlan
      PROVE  /\ disk'[g].plan.serial \in Nat /\ disk'[g].plan.serial <= infra'.serial
             /\ disk'[g].plan.config = ConfigOf(runs'[disk'[g].plan.run].task, g)
  <2>1. CASE disk'[g].plan = disk[g].plan
    <3>1. disk[g].plan.run \in DOMAIN runs
      BY <1>3, <2>1 DEF PlanInv, LastPlan, PlannedRuns
    <3>2. runs'[disk[g].plan.run].task = runs[disk[g].plan.run].task
      BY <3>1, ScriptRuns
    <3> QED
      BY <1>2, <1>3, <2>1, <3>2 DEF MadePlans
  <2>2. CASE /\ g = runs[i].gen /\ TerraformPlan(i) /\ disk[g].initialized
             /\ disk'[g].plan = MadePlan(i, disk[g])
    <3>1. /\ disk'[g].plan.serial = infra.serial /\ disk'[g].plan.run = i
          /\ disk'[g].plan.config = Planned(runs[i].task, g)
      BY <2>2 DEF MadePlan, Dirs
    <3>2. runs'[i].task = runs[i].task /\ runs[i].task \in {"plan", "plan-delete"}
      BY <2>2, ScriptRuns DEF TerraformPlan, Runs
    <3>3. "plan" \notin DeleteTasks /\ "plan-delete" \in DeleteTasks /\ "plan" # "plan-delete"
      BY CreateTaskIDs, DeleteTaskIDs, WorkflowsOfTasks
    <3>4. Planned(runs[i].task, g) = ConfigOf(runs[i].task, g)
      BY <3>2, <3>3 DEF Planned, ConfigOf
    <3> QED
      BY <1>2, <3>1, <3>2, <3>4
  <2> QED
    BY <1>1, <1>3, <2>1, <2>2, PlanChanges
<1> QED
  BY <1>2, <1>3 DEF MadePlans

LEMMA ScriptOlderPlans ==
  ASSUME TypeInv, RunsInv, PlanInv, MadePlans, OlderPlans, NEW i \in DOMAIN runs, ScriptOf(i)
  PROVE  OlderPlans'
<1>1. runs[i].gen \in Gens /\ DisksAndSpecs
  BY DEF RunsInv, PlanInv
<1> SUFFICES ASSUME resource.uid # 0, NEW k \in ApplyRuns', runs'[k].gen < stage.gen
             PROVE  \/ disk'[runs[k].gen].plan = NoPlan \/ disk'[stage.gen].plan = NoPlan
                    \/ disk'[runs[k].gen].plan.serial <= disk'[stage.gen].plan.serial
  <2>1. \A k \in ApplyRuns' : k \in DOMAIN runs' /\ runs'[k].gen = runs[k].gen
    BY ScriptRuns DEF ApplyRuns, Runs
  <2> QED
    BY <2>1, ScriptRuns DEF OlderPlans, Dir, GenerationPath
<1> DEFINE h == runs[k].gen
           g == stage.gen
<1>2. k \in ApplyRuns /\ k \in DOMAIN runs /\ runs'[k].gen = h /\ h < g
  BY ScriptRuns DEF ApplyRuns, Runs
<1>3. h \in Gens /\ g \in Gens
  <2>1. h \in Gens /\ g \in Nat /\ g <= resource.gen /\ resource.gen <= MaxGen
    BY <1>2 DEF RunsInv, TypeInv, StageOf
  <2>2. resource.gen \in Nat
    BY DEF TypeInv, Resource
  <2> QED
    BY <1>2, <2>1, <2>2, BoundsAssumption DEF Gens
<1>4. \/ disk[h].plan = NoPlan \/ disk[g].plan = NoPlan
      \/ disk[h].plan.serial <= disk[g].plan.serial
  BY <1>2 DEF OlderPlans, Dir, GenerationPath
<1>5. disk'[h].plan \in {disk[h].plan, NoPlan}
  BY <1>1, <1>2, <1>3, PlanChanges, NoPlanWhileApplying
<1>6. CASE disk'[g].plan \in {disk[g].plan, NoPlan}
  BY <1>4, <1>5, <1>6
<1>7. CASE TerraformPlan(i) /\ disk'[g].plan = MadePlan(i, disk[g])
  <2>1. disk'[g].plan.serial = infra.serial
    BY <1>7 DEF MadePlan
  <2> QED
    BY <1>3, <1>5, <2>1 DEF MadePlans
<1> QED
  BY <1>1, <1>3, <1>6, <1>7, PlanChanges

(* A script other than the apply of the stage's generation leaves settled  *)
(* infrastructure alone.                                                   *)
LEMMA SettledStays ==
  ASSUME TypeInv, RunsInv, PlanInv, resource.uid # 0, NEW i \in DOMAIN runs, ScriptOf(i),
         ~(i \in ApplyRuns /\ runs[i].gen = stage.gen), NEW config, Settled(config)
  PROVE  Settled(config)'
<1>1. /\ runs[i].gen \in Gens /\ DisksAndSpecs /\ runs[i].gen <= stage.gen
      /\ stage.gen \in Nat /\ runs[i].gen \in Nat
  BY DEF RunsInv, PlanInv, TypeInv, StageOf, Gens
<1>2. infra' = infra
  BY <1>1, InfraChanges DEF Settled
<1>3. ASSUME NEW k \in ApplyRuns', runs'[k].gen < stage.gen
      PROVE  \/ disk'[runs'[k].gen].plan = NoPlan
             \/ disk'[runs'[k].gen].plan.serial # infra'.serial
  <2>1. k \in ApplyRuns /\ k \in DOMAIN runs /\ runs'[k].gen = runs[k].gen
    BY ScriptRuns DEF ApplyRuns, Runs
  <2>2. runs[k].gen \in Gens
    BY <2>1 DEF RunsInv
  <2>3. disk'[runs[k].gen].plan \in {disk[runs[k].gen].plan, NoPlan}
    BY <1>1, <2>1, <2>2, PlanChanges, NoPlanWhileApplying
  <2> QED
    BY <1>2, <1>3, <2>1, <2>3 DEF Settled, IsFresh, Dir, GenerationPath
<1> QED
  BY <1>2, <1>3, ScriptRuns DEF Settled, Dir, GenerationPath, IsFresh

(* The apply of the stage's generation settles it.                         *)
LEMMA ApplySettles ==
  ASSUME TypeInv, RunsInv, PlanInv, MadePlans, OlderPlans, resource.uid # 0,
         NEW i \in ApplyRuns, runs[i].gen = stage.gen, TerraformApply(i),
         NEW task, NEW gen, task = stage.task, gen = stage.gen
  PROVE  task = runs[i].task /\ Settled(ConfigOf(task, gen))'
<1> DEFINE plan == disk[stage.gen].plan
<1>1. /\ i \in DOMAIN runs /\ stage.task = runs[i].task /\ stage.gen \in Gens
      /\ runs[i].task \in ApplyTasks /\ stage.task # RunNil
  BY OneApplyTask DEF ApplyRuns, Runs, RunsInv
<1>2. /\ IsFresh(plan) /\ infra'.serial = infra.serial + 1 /\ disk' = disk
      /\ infra'.config = plan.config /\ plan # NoPlan /\ plan.serial = infra.serial
  BY DEF TerraformApply, Dir, GenerationPath, IsFresh
<1>3. /\ plan.run \in DOMAIN runs /\ runs[plan.run].gen = stage.gen
      /\ runs[plan.run].task \in TaskName
  BY <1>1, <1>2, OnePlanTask DEF PlanInv, LastPlan, PlannedRuns
<1>4. plan.config = ConfigOf(stage.task, stage.gen)
  <2>1. WorkflowOf(runs[plan.run].task) = WorkflowOf(stage.task)
    BY <1>1, <1>3 DEF RunsInv
  <2>2. ConfigOf(runs[plan.run].task, stage.gen) = ConfigOf(stage.task, stage.gen)
    BY <1>1, <1>3, <2>1, OneApplyTask, SameConfig
  <2> QED
    BY <1>1, <1>2, <2>2 DEF MadePlans
<1>5. ScriptOf(i)
  BY DEF ScriptOf
<1>6. ASSUME NEW k \in ApplyRuns', runs'[k].gen < stage.gen
      PROVE  \/ disk'[runs'[k].gen].plan = NoPlan
             \/ disk'[runs'[k].gen].plan.serial # infra'.serial
  <2>1. k \in ApplyRuns /\ k \in DOMAIN runs /\ runs'[k].gen = runs[k].gen
    BY <1>1, <1>5, ScriptRuns DEF ApplyRuns, Runs
  <2>2. runs[k].gen \in Gens
    BY <2>1 DEF RunsInv
  <2>3. disk[runs[k].gen].plan = NoPlan \/ disk[runs[k].gen].plan.serial <= infra.serial
    BY <1>2, <1>6, <2>1 DEF OlderPlans, Dir, GenerationPath
  <2>4. disk[runs[k].gen].plan # NoPlan => disk[runs[k].gen].plan.serial \in Nat
    BY <2>2 DEF MadePlans
  <2>5. infra.serial \in Nat
    BY DEF MadePlans
  <2> QED
    BY <1>2, <2>1, <2>3, <2>4, <2>5 DEF IsFresh
<1> QED
  BY <1>1, <1>2, <1>4, <1>5, <1>6, ScriptRuns DEF Settled, Dir, GenerationPath, IsFresh

-----------------------------------------------------------------------------
(* The scripts keep what was applied.                                      *)
LEMMA SavingChanges ==
  ASSUME NEW i \in DOMAIN runs, ScriptOf(i)
  PROVE  \/ DOMAIN saving' = DOMAIN saving
         \/ /\ TerraformApply(i) /\ runs[i].task = "apply" /\ SaveOutputs(SpecOf(i))
            /\ DOMAIN saving' = DOMAIN saving \cup {i}
BY DEF ScriptOf, SetUp, SetUpStops, TerraformInit, Noop, TerraformPlan, Approve,
  TerraformApply, TerraformAppliesInPart, TerraformRefuses, ReadOutputs, PatchSecret,
  ScriptStops, NothingToDo, scriptVars

LEMMA ScriptSavingRuns ==
  ASSUME TypeInv, SavingRuns, NEW i \in DOMAIN runs, ScriptOf(i)
  PROVE  SavingRuns'
<1>1. \A k \in DOMAIN runs : SpecOf(k)' = SpecOf(k)
  BY ScriptRuns DEF SpecOf
<1>2. \A k \in DOMAIN runs : SaveOutputs(SpecOf(k))' <=> SaveOutputs(SpecOf(k))
  BY <1>1 DEF SaveOutputs
<1> QED
  BY <1>2, SavingChanges, ScriptRuns DEF SavingRuns

LEMMA ApplySucceeds ==
  ASSUME TypeInv, PlannedRuns, NEW i \in DOMAIN runs, ScriptOf(i),
         runs[i].task \in ApplyTasks, runs'[i].result = "succeeded"
  PROVE  TerraformApply(i) \/ PatchSecret(i)
<1>1. /\ ApplyTasks \subseteq TerraformTasks /\ ApplyTasks \cap SetupTasks = {}
      /\ ApplyTasks \cap ({"init", "init-delete"} \cup PlanTasks) = {}
      /\ {"failed", "lost"} \subseteq Results
  BY DEF ApplyTasks, TerraformTasks, SetupTasks, PlanTasks, Results
<1>2. ASSUME NEW result \in {"failed", "lost"}, End(i, result) PROVE FALSE
  BY <1>1, <1>2, EndFacts
<1>3. ASSUME UNCHANGED runs PROVE FALSE
  BY <1>3, ScriptRuns
<1>4. ~(SetUp(i) \/ SetUpStops(i) \/ TerraformInit(i) \/ Noop(i) \/ TerraformPlan(i) \/ Approve(i))
  BY <1>1 DEF SetUp, SetUpStops, TerraformInit, Noop, TerraformPlan, Approve, Runs,
    PlannedRuns, PlanTasks
<1>5. ~(TerraformAppliesInPart(i) \/ TerraformRefuses(i) \/ ScriptStops(i) \/ NothingToDo(i))
  BY <1>2 DEF TerraformAppliesInPart, TerraformRefuses, ScriptStops, StopsAs, NothingToDo
<1>6. ~ReadOutputs(i)
  BY <1>3 DEF ReadOutputs, workflowVars
<1> QED
  BY <1>4, <1>5, <1>6 DEF ScriptOf

(* The stage's apply has succeeded before the step, or does by it.         *)
LEMMA ScriptAppliedBy ==
  ASSUME TypeInv, NEW i \in DOMAIN runs, ScriptOf(i), NEW t, AppliedBy(t)'
  PROVE  \/ AppliedBy(t)
         \/ runs[i].gen = stage.gen /\ runs[i].task = t /\ runs'[i].result = "succeeded"
<1>1. /\ DOMAIN runs = 1..Len(runs) /\ DOMAIN runs' = 1..Len(runs') /\ Len(runs) \in Nat
      /\ Len(runs') = Len(runs)
  <2>1. \A s \in Seq(Run) : DOMAIN s = 1..Len(s) /\ Len(s) \in Nat
    OBVIOUS
  <2>2. TypeInv'
    <3>1. {"succeeded", "failed", "lost"} \subseteq Results \ {"running"}
      BY DEF Results
    <3>2. [Next]_workflowVars
      BY <3>1, ScriptEnds, EndIsAStep
    <3> QED
      BY <3>2, WorkflowTypeNext
  <2>3. runs \in Seq(Run) /\ runs' \in Seq(Run)
    BY <2>2 DEF TypeInv
  <2> QED
    BY <2>1, <2>3, ScriptRuns
<1>2. stage' = stage /\ resource' = resource
  BY ScriptRuns
<1>3. ASSUME NEW u, NEW k \in DOMAIN runs, IsRunOf(runs'[k], resource.uid, stage.gen, u)
      PROVE  IsRunOf(runs[k], resource.uid, stage.gen, u)
  BY <1>3, ScriptRuns DEF IsRunOf
<1>4. ASSUME NEW u, NEW k \in DOMAIN runs, ~IsRunOf(runs'[k], resource.uid, stage.gen, u)
      PROVE  ~IsRunOf(runs[k], resource.uid, stage.gen, u)
  BY <1>4, ScriptRuns DEF IsRunOf
<1>5. CASE stage'.task = t /\ StageIs("succeeded")'
  <2>1. PICK k \in 1..Len(runs) :
          /\ IsRunOf(runs'[k], resource.uid, stage.gen, t) /\ runs'[k].result = "succeeded"
          /\ \A j \in k + 1..Len(runs) : ~IsRunOf(runs'[j], resource.uid, stage.gen, t)
    BY <1>1, <1>2, <1>5 DEF StageIs
  <2>2. /\ IsRunOf(runs[k], resource.uid, stage.gen, t)
        /\ \A j \in k + 1..Len(runs) : ~IsRunOf(runs[j], resource.uid, stage.gen, t)
    BY <1>1, <1>3, <1>4, <2>1
  <2>3. k # i => runs[k].result = "succeeded"
    BY <1>1, <2>1, ScriptRuns
  <2>4. k # i => AppliedBy(t)
    BY <1>2, <1>5, <2>2, <2>3 DEF AppliedBy, StageIs
  <2> QED
    BY <2>1, <2>2, <2>4 DEF IsRunOf
<1>6. CASE stage'.task = RunNil /\ InState(resource.uid, stage.gen, t, "succeeded")'
  <2>1. PICK k \in 1..Len(runs) :
          /\ IsRunOf(runs'[k], resource.uid, stage.gen, t) /\ runs'[k].result = "succeeded"
    BY <1>1, <1>2, <1>6 DEF InState
  <2>2. IsRunOf(runs[k], resource.uid, stage.gen, t)
    BY <1>1, <1>3, <2>1
  <2>3. k # i => runs[k].result = "succeeded"
    BY <1>1, <2>1, ScriptRuns
  <2>4. k # i => AppliedBy(t)
    BY <1>2, <1>6, <2>2, <2>3 DEF AppliedBy, InState
  <2> QED
    BY <2>1, <2>2, <2>4 DEF IsRunOf
<1> QED
  BY <1>2, <1>5, <1>6 DEF AppliedBy, InState

LEMMA ScriptAppliedStage ==
  ASSUME TypeInv, RunsInv, PlanInv, MadePlans, OlderPlans, AppliedStage, SavingRuns,
         NEW i \in DOMAIN runs, ScriptOf(i)
  PROVE  AppliedStage'
<1> SUFFICES ASSUME resource.uid # 0, NEW task, NEW gen, task = stage.task, gen = stage.gen
             PROVE  AppliedStage'
  BY ScriptRuns DEF AppliedStage
<1>1. stage' = stage /\ resource' = resource /\ runs[i].result = "running"
  BY ScriptRuns
<1> DEFINE Goal ==
      /\ AfterApply(task) => Settled(ConfigOf(task, gen))'
      /\ \A t \in ApplyTasks : AppliedBy(t)' => Settled(ConfigOf(t, gen))'
      /\ \A k \in DOMAIN runs : IsSaving(k)' => Settled(gen)'
<1>2. Goal => AppliedStage'
  <2>1. stage'.task = task /\ stage'.gen = gen /\ DOMAIN runs' = DOMAIN runs
    BY <1>1, ScriptRuns
  <2>2. AfterApply(stage.task)' => AfterApply(task)
    BY <2>1 DEF AfterApply
  <2>3. /\ Settled(ConfigOf(task, gen))' => Settled(ConfigOf(stage.task, stage.gen))'
        /\ Settled(gen)' => Settled(stage.gen)'
    BY <2>1 DEF Settled, ConfigOf
  <2>4. \A t \in ApplyTasks : Settled(ConfigOf(t, gen))' => Settled(ConfigOf(t, stage.gen))'
    BY <2>1 DEF Settled, ConfigOf
  <2> QED
    BY <2>1, <2>2, <2>3, <2>4 DEF AppliedStage
<1>3. \A k \in DOMAIN runs :
        IsSaving(k)' => /\ runs[k].result = "running" /\ runs[k].gen = stage.gen
                        /\ \/ k \in DOMAIN saving
                           \/ k = i /\ TerraformApply(i) /\ runs[i].task = "apply"
  <2> SUFFICES ASSUME NEW k \in DOMAIN runs, IsSaving(k)'
               PROVE  /\ runs[k].result = "running" /\ runs[k].gen = stage.gen
                      /\ \/ k \in DOMAIN saving
                         \/ k = i /\ TerraformApply(i) /\ runs[i].task = "apply"
    OBVIOUS
  <2>1. /\ k \in DOMAIN saving' /\ runs'[k].result = "running"
        /\ runs'[k].gen = stage'.gen
    BY DEF IsSaving
  <2>2. runs'[k].gen = runs[k].gen /\ (runs'[k].result = "running" => runs[k].result = "running")
    BY ScriptRuns
  <2>3. \/ DOMAIN saving' = DOMAIN saving
        \/ /\ TerraformApply(i) /\ runs[i].task = "apply"
           /\ DOMAIN saving' = DOMAIN saving \cup {i}
    BY SavingChanges
  <2> QED
    BY <1>1, <2>1, <2>2, <2>3
<1>4. CASE i \in ApplyRuns /\ runs[i].gen = stage.gen
  <2>1. runs[i].task \in ApplyTasks /\ stage.task = runs[i].task /\ stage.task # RunNil
    BY <1>1, <1>4, OneApplyTask DEF RunsInv, ApplyRuns, Runs
  <2>2. ~AfterApply(task)
    BY <2>1, OneApplyTask
  <2>3. \A k \in DOMAIN runs : IsSaving(k)' => TerraformApply(i) /\ runs[i].task = "apply"
    BY <1>1, <1>3, <1>4, OneAtWork DEF ApplyRuns
  <2>4. CASE TerraformApply(i)
    <3>1. Settled(ConfigOf(task, gen))'
      BY <1>4, <2>4, ApplySettles
    <3>2. \A t \in ApplyTasks : AppliedBy(t)' => t = stage.task
      BY <1>1, <2>1 DEF AppliedBy
    <3>3. ConfigOf("apply", gen) = gen
      BY OneApplyTask
    <3>4. \A k \in DOMAIN runs : IsSaving(k)' => Settled(gen)'
      <4>1. runs[i].task = "apply" => Settled(gen)'
        BY <2>1, <3>1, <3>3
      <4> QED
        BY <2>3, <4>1
    <3> QED
      BY <1>2, <2>2, <3>1, <3>2, <3>4
  <2>5. CASE ~TerraformApply(i)
    <3>1. runs'[i].result # "succeeded"
      BY <1>4, <2>1, <2>5, ApplySucceeds DEF PlanInv, ApplyRuns, PatchSecret
    <3>2. \A t \in ApplyTasks : ~AppliedBy(t)'
      <4> SUFFICES ASSUME NEW t \in ApplyTasks, AppliedBy(t)' PROVE FALSE
        OBVIOUS
      <4>1. AppliedBy(t)
        BY <3>1, ScriptAppliedBy
      <4>2. StageIs("succeeded")
        BY <2>1, <4>1 DEF AppliedBy
      <4>3. "succeeded" \in Results \ {"running"}
        BY DEF Results
      <4> QED
        BY <1>1, <1>4, <4>2, <4>3, NoneAtWork
    <3> QED
      BY <1>2, <2>2, <2>3, <2>5, <3>2
  <2> QED
    BY <2>4, <2>5
<1>5. CASE ~(i \in ApplyRuns /\ runs[i].gen = stage.gen)
  <2>1. \A c : Settled(c) => Settled(c)'
    BY <1>5, SettledStays
  <2>2. TerraformApply(i) => runs[i].gen # stage.gen
    BY <1>5 DEF TerraformApply
  <2>3. ASSUME NEW k \in DOMAIN runs, IsSaving(k)' PROVE IsSaving(k)
    BY <1>3, <2>2, <2>3 DEF IsSaving
  <2>4. ASSUME NEW t \in ApplyTasks, AppliedBy(t)' PROVE Settled(ConfigOf(t, gen))
    <3>1. CASE AppliedBy(t)
      BY <3>1 DEF AppliedStage
    <3>2. CASE runs[i].gen = stage.gen /\ runs[i].task = t /\ runs'[i].result = "succeeded"
      <4>1. i \in DOMAIN saving
        BY <2>2, <2>4, <3>2, ApplySucceeds DEF PlanInv, PatchSecret
      <4>2. t = "apply" /\ Settled(gen)
        BY <1>1, <3>2, <4>1 DEF SavingRuns, AppliedStage, IsSaving
      <4> QED
        BY <4>2, OneApplyTask
    <3> QED
      BY <2>4, <3>1, <3>2, ScriptAppliedBy
  <2>5. ASSUME AfterApply(task) PROVE Settled(ConfigOf(task, gen))
    BY <2>5 DEF AppliedStage
  <2>6. ASSUME NEW k \in DOMAIN runs, IsSaving(k)' PROVE Settled(gen)
    BY <2>3, <2>6 DEF AppliedStage
  <2> QED
    BY <1>2, <2>1, <2>4, <2>5, <2>6
<1> QED
  BY <1>4, <1>5

LEMMA ScriptNotYetApplied ==
  ASSUME TypeInv, RunsInv, NotYetApplied, NEW i \in DOMAIN runs, ScriptOf(i)
  PROVE  NotYetApplied'
<1>1. stage' = stage /\ resource' = resource /\ DOMAIN runs' = DOMAIN runs
  BY ScriptRuns
<1> SUFFICES ASSUME resource.uid # 0, NEW a \in ApplyTasks, a \in WorkflowOf(stage.task),
                    Before(stage.task, a), NEW k \in DOMAIN runs,
                    IsRunOf(runs'[k], resource.uid, stage.gen, a),
                    runs'[k].result = "succeeded"
             PROVE  \E j \in DOMAIN runs :
                      j > k /\ IsRunOf(runs'[j], resource.uid, stage.gen, a)
  BY <1>1 DEF NotYetApplied, Before, ID
<1>2. stage.task # a
  <2>1. a \in TaskName
    BY OneApplyTask
  <2> QED
    BY <2>1, BeforeIsTotal
<1>3. IsRunOf(runs[k], resource.uid, stage.gen, a)
  BY ScriptRuns DEF IsRunOf
<1>4. k # i
  BY <1>2, <1>3, ScriptRuns DEF RunsInv, IsRunOf
<1>5. runs[k].result = "succeeded"
  BY <1>4, ScriptRuns
<1>6. PICK j \in DOMAIN runs : j > k /\ IsRunOf(runs[j], resource.uid, stage.gen, a)
  BY <1>3, <1>5 DEF NotYetApplied
<1> QED
  BY <1>6, ScriptRuns DEF IsRunOf

LEMMA ScriptCompletedStage ==
  ASSUME TypeInv, CompletedStage, NEW i \in DOMAIN runs, ScriptOf(i)
  PROVE  CompletedStage'
<1>1. {"succeeded", "failed", "lost"} \subseteq Results \ {"running"}
  BY DEF Results
<1>2. [Next]_workflowVars
  BY <1>1, ScriptEnds, EndIsAStep
<1> SUFFICES ASSUME NEW uid, NEW gen, uid = resource.uid, gen = stage.gen, completed
             PROVE  uid # 0 /\ stage.task = RunNil /\ InState(uid, gen, "apply", "succeeded")'
  BY ScriptRuns DEF CompletedStage
<1> QED
  BY <1>2, RunsStay DEF CompletedStage

(* Only a set up takes var files away, and one that succeeds has them all. *)
LEMMA FilesStay ==
  ASSUME TypeInv, RunsInv, PlanInv, NEW i \in DOMAIN runs, ScriptOf(i), NEW g \in Gens,
         HasFiles(g), g # runs[i].gen \/ i \notin Runs(SetupTasks)
  PROVE  HasFiles(g)'
<1> DEFINE d == disk[g]
           e == disk'[g]
<1>1. specs' = specs /\ runs[i].gen \in Gens /\ DisksAndSpecs
  BY ScriptEnds DEF RunsInv, PlanInv
<1>2. \/ e \in {d, EmptyDir}
      \/ e = [d EXCEPT !.initialized = TRUE]
      \/ e = [d EXCEPT !.plan = MadePlan(i, d)]
  BY <1>1, DirChanges
<1>3. EmptyDir.main = 0
  BY DEF EmptyDir
<1>4. IsDir(d)
  BY <1>1 DEF DisksAndSpecs
<1>5. ASSUME NEW x
      PROVE  LET a == [d EXCEPT !.initialized = x]
                 b == [d EXCEPT !.plan = x]
             IN  a.main = d.main /\ a.vars = d.vars /\ b.main = d.main /\ b.vars = d.vars
  <2> HIDE DEF d
  <2> QED
    BY <1>4 DEF IsDir
<1>6. e.main = 0 \/ (e.main = d.main /\ e.vars = d.vars)
  BY <1>2, <1>3, <1>5
<1> QED
  BY <1>1, <1>6 DEF HasFiles

LEMMA SetUpGetsFiles ==
  ASSUME TypeInv, RunsInv, PlanInv, SpecsOfUsers, Dirs, NEW i \in DOMAIN runs, SetUp(i)
  PROVE  HasFiles(runs[i].gen)'
<1> DEFINE path == runs[i].gen
           disk0 == CleanedDisk(i)
           n == specs[path].varFiles
<1>1. /\ specs' = specs /\ path \in Gens /\ runs'[i].gen = path /\ n \in Nat
  <2>1. ScriptOf(i)
    BY DEF ScriptOf
  <2> QED
    BY <2>1, ScriptRuns DEF RunsInv, SpecsOfUsers
<1>2. disk0 = [g \in Gens |-> disk0[g]] /\ disk0[path].vars \in Seq(Nat)
  <2>1. disk[path].vars \in Seq(Nat) /\ EmptyDir.vars \in Seq(Nat)
    BY <1>1 DEF Dirs, EmptyDir
  <2> QED
    BY <1>1, <2>1 DEF CleanedDisk, PlanInv, DisksAndSpecs
<1>3. disk'[path].vars = disk0[path].vars \o Numbers(n)
  <2>1. disk' = SetUpDisk(i, path, n)
    BY DEF SetUp, SpecOf
  <2> HIDE DEF disk0, n
  <2>2. disk' = [CleanedDisk(i) EXCEPT ![path] =
                   [main |-> path, initialized |-> FALSE, plan |-> NoPlan,
                    vars |-> CleanedDisk(i)[path].vars \o Numbers(n)]]
    BY <2>1 DEF SetUpDisk, GenerationPath
  <2> QED
    BY <1>1, <1>2, <2>2 DEF disk0
<1>4. EndsWith(disk'[path].vars, n)
  BY <1>1, <1>2, <1>3, FilesAdded
<1> QED
  BY <1>1, <1>4 DEF HasFiles

LEMMA SetUpSucceeds ==
  ASSUME TypeInv, PlanInv, NEW i \in Runs(SetupTasks), ScriptOf(i),
         runs'[i].result = "succeeded"
  PROVE  SetUp(i)
<1>1. /\ i \in DOMAIN runs /\ runs[i].result = "running"
      /\ runs[i].task \notin {"init", "init-delete", "plan", "plan-delete", "apply", "apply-delete"}
  BY DEF Runs, SetupTasks
<1>2. i \notin planned
  BY <1>1 DEF Runs, PlanInv, PlannedRuns, PlanTasks
<1>3. ASSUME NEW result \in {"failed", "lost"}, End(i, result) PROVE FALSE
  BY <1>1, <1>3, EndFacts DEF Results
<1>4. ~SetUpStops(i) /\ ~ScriptStops(i)
  BY <1>3 DEF SetUpStops, ScriptStops, StopsAs
<1>5. /\ ~TerraformInit(i) /\ ~TerraformPlan(i) /\ ~TerraformApply(i)
      /\ ~TerraformAppliesInPart(i) /\ ~TerraformRefuses(i) /\ ~ReadOutputs(i)
      /\ ~PatchSecret(i) /\ ~NothingToDo(i)
  BY <1>1 DEF TerraformInit, TerraformPlan, TerraformApply, TerraformAppliesInPart,
    TerraformRefuses, ReadOutputs, PatchSecret, NothingToDo, ApplyRuns, ApplyTasks, Runs
<1>6. ~Approve(i) /\ ~Noop(i)
  BY <1>2 DEF Approve, Noop, Runs
<1> QED
  BY <1>4, <1>5, <1>6 DEF ScriptOf

(* A stage of the set up that is left, and a pod of a later task, have     *)
(* the var files of the spec.                                              *)
LEMMA ScriptSetUpIsOver ==
  ASSUME TypeInv, RunsInv, PlanInv, SpecsOfUsers, Dirs, SetUpIsOver,
         NEW i \in DOMAIN runs, ScriptOf(i)
  PROVE  SetUpIsOver'
<1> DEFINE path == runs[i].gen
<1>1. /\ DOMAIN runs' = DOMAIN runs /\ runs[i].result = "running"
      /\ resource' = resource /\ stage' = stage
      /\ \A k \in DOMAIN runs :
           /\ runs'[k].uid = runs[k].uid /\ runs'[k].gen = runs[k].gen
           /\ runs'[k].task = runs[k].task
           /\ k # i => runs'[k].result = runs[k].result
           /\ runs'[k].result = "running" => runs[k].result = "running"
  BY ScriptRuns
<1>2. DOMAIN runs = 1..Len(runs) /\ DOMAIN runs' = 1..Len(runs') /\ Len(runs) \in Nat
      /\ Len(runs') = Len(runs)
  <2>1. [Next]_workflowVars
    BY ScriptEnds, EndIsAStep DEF Results
  <2>2. TypeInv'
    BY <2>1, WorkflowTypeNext
  <2> QED
    BY <1>1, <2>2 DEF TypeInv
<1>3. ASSUME NEW k \in DOMAIN runs, runs'[k].result = "running", runs[k].task \notin SetupTasks
      PROVE  HasFiles(runs[k].gen)'
  <2>1. runs[k].result = "running" /\ runs[k].gen \in Gens /\ HasFiles(runs[k].gen)
    BY <1>1, <1>3 DEF SetUpIsOver, RunsInv
  <2>2. runs[k].gen # path \/ i \notin Runs(SetupTasks)
    BY <1>1, <1>3, <2>1, OneAtWork DEF Runs
  <2>3. \A g \in Gens : HasFiles(g) /\ (g # path \/ i \notin Runs(SetupTasks)) => HasFiles(g)'
    BY FilesStay
  <2>4. runs'[k].gen = runs[k].gen
    BY <1>1
  <2> QED
    BY <2>1, <2>2, <2>3, <2>4 DEF HasFiles
<1>4. ASSUME resource.uid # 0, stage.task # RunNil,
             stage.task \in SetupTasks => StageIs("succeeded")'
      PROVE  HasFiles(stage.gen)'
  <2> DEFINE g == stage.gen
             IsOf(k) == IsRunOf(runs[k], resource.uid, g, stage.task)
  <2>1. g \in Gens
    BY <1>4 DEF RunsInv
  <2>2. ASSUME stage.task \in SetupTasks
        PROVE  \E k \in DOMAIN runs : /\ IsOf(k) /\ runs'[k].result = "succeeded"
                                      /\ \A j \in DOMAIN runs : j > k => ~IsOf(j)
    BY <1>1, <1>2, <1>4, <2>2 DEF StageIs, IsRunOf
  <2>3. CASE i \in Runs(SetupTasks) /\ g = path
    <3>1. stage.task = runs[i].task /\ stage.task \in SetupTasks /\ IsOf(i)
      BY <1>1, <1>4, <2>3 DEF RunsInv, Runs, IsRunOf
    <3>2. PICK k \in DOMAIN runs : /\ IsOf(k) /\ runs'[k].result = "succeeded"
                                   /\ \A j \in DOMAIN runs : j > k => ~IsOf(j)
      BY <2>2, <3>1
    <3>3. k <= i /\ ~(i > k)
      BY <1>1, <2>3, <3>1, <3>2, OneAtWork DEF IsRunOf
    <3>4. k = i
      BY <1>2, <3>3
    <3>5. runs'[i].result = "succeeded"
      BY <3>2, <3>4
    <3>6. SetUp(i)
      BY <2>3, <3>5, SetUpSucceeds
    <3> QED
      BY <2>3, <3>6, SetUpGetsFiles, <1>1 DEF HasFiles
  <2>4. CASE ~(i \in Runs(SetupTasks) /\ g = path)
    <3>1. stage.task \in SetupTasks => StageIs("succeeded")
      <4> SUFFICES ASSUME stage.task \in SetupTasks PROVE StageIs("succeeded")
        OBVIOUS
      <4>1. PICK k \in DOMAIN runs : /\ IsOf(k) /\ runs'[k].result = "succeeded"
                                     /\ \A j \in DOMAIN runs : j > k => ~IsOf(j)
        BY <2>2
      <4>2. k # i
        BY <1>1, <2>4, <4>1 DEF Runs, IsRunOf
      <4>3. runs[k].result = "succeeded"
        BY <1>1, <4>1, <4>2
      <4> QED
        BY <1>2, <4>1, <4>3 DEF StageIs
    <3>2. HasFiles(g)
      BY <1>4, <3>1 DEF SetUpIsOver
    <3>3. HasFiles(g)'
      BY <1>1, <2>1, <2>4, <3>2, FilesStay DEF HasFiles
    <3> QED
      BY <1>1, <3>3 DEF HasFiles
  <2> QED
    BY <2>3, <2>4
<1> QED
  BY <1>1, <1>3, <1>4 DEF SetUpIsOver

-----------------------------------------------------------------------------
(* So do the users and the controller.                                     *)
LEMMA UsersKeepApplied ==
  ASSUME TypeInv, RunsInv, PlanInv, AppliedInv, SpecsOfUsers,
         CreateResource \/ EditSpec \/ DeleteResource
  PROVE  AppliedInv'
<1>1. /\ runs' = runs /\ disk' = disk /\ stage' = stage
      /\ \A i \in DOMAIN runs : specs'[runs[i].gen] = specs[runs[i].gen]
      /\ resource.uid = 0 => stage.task = RunNil
      /\ resource.uid # 0 => resource'.uid = resource.uid
  BY SpecsOfRunsStay
<1>2. infra' = infra /\ saving' = saving /\ completed' = completed
  BY DEF CreateResource, Create, EditSpec, Edit, DeleteResource, Delete, NoScript
<1>3. \A i \in DOMAIN runs : SpecOf(i)' = SpecOf(i)
  BY <1>1 DEF SpecOf
<1>4. ApplyRuns' = ApplyRuns
  BY <1>1, <1>2 DEF ApplyRuns, Runs
<1>5. MadePlans'
  BY <1>1, <1>2 DEF AppliedInv, MadePlans
<1>6. SavingRuns'
  <2>1. \A k \in DOMAIN runs : SaveOutputs(SpecOf(k))' <=> SaveOutputs(SpecOf(k))
    BY <1>3 DEF SaveOutputs
  <2> QED
    BY <1>1, <1>2, <2>1 DEF AppliedInv, SavingRuns
<1>7. CompletedStage'
  BY <1>1, <1>2 DEF AppliedInv, CompletedStage, InState
<1>8. Dirs' /\ SetUpIsOver'
  <2>0. \A g \in Gens : disk[g].main # 0 => specs'[g] = specs[g]
    BY <1>1 DEF AppliedInv, Dirs
  <2>1. Dirs'
    <3>1. \A g \in Gens : disk[g].initialized => disk[g].main # 0
      BY DEF AppliedInv, Dirs, Gens
    <3> QED
      BY <1>1, <2>0, <3>1 DEF AppliedInv, Dirs
  <2>2. ASSUME NEW g \in Gens, HasFiles(g) PROVE HasFiles(g)'
    BY <1>1, <2>0, <2>2 DEF HasFiles
  <2>3. \A i \in DOMAIN runs : runs[i].gen \in Gens
    BY DEF RunsInv
  <2>4. stage.task # RunNil => stage.gen \in Gens /\ resource.uid # 0
    BY <1>1 DEF RunsInv
  <2>5. StageIs("succeeded")' /\ resource.uid # 0 => StageIs("succeeded")
    BY <1>1 DEF StageIs
  <2>6. \A i \in DOMAIN runs :
          runs[i].result = "running" /\ runs[i].task \notin SetupTasks => HasFiles(runs[i].gen)'
    BY <1>1, <2>2, <2>3 DEF AppliedInv, SetUpIsOver
  <2>7. resource.uid # 0 /\ stage.task # RunNil
          /\ (stage.task \in SetupTasks => StageIs("succeeded")')
          => HasFiles(stage.gen)'
    BY <1>1, <2>2, <2>4, <2>5 DEF AppliedInv, SetUpIsOver
  <2> QED
    BY <1>1, <2>1, <2>4, <2>6, <2>7 DEF SetUpIsOver, HasFiles
<1>9. CASE resource.uid # 0
  <2>1. resource'.uid = resource.uid
    BY <1>1, <1>9
  <2>2. OlderPlans'
    BY <1>1, <1>4, <1>9 DEF AppliedInv, OlderPlans, Dir, GenerationPath
  <2>3. NotYetApplied'
    BY <1>1, <1>9, <2>1 DEF AppliedInv, NotYetApplied, Before, ID
  <2>4. AppliedStage'
    <3>1. \A t : AppliedBy(t)' <=> AppliedBy(t)
      BY <1>1, <2>1 DEF AppliedBy, StageIs, InState
    <3>2. \A k \in DOMAIN runs : IsSaving(k)' <=> IsSaving(k)
      BY <1>1, <1>2 DEF IsSaving
    <3>3. \A c : Settled(c)' <=> Settled(c)
      BY <1>1, <1>2, <1>4 DEF Settled, IsFresh, Dir, GenerationPath
    <3> SUFFICES ASSUME NEW task, NEW gen, task = stage.task, gen = stage.gen
                 PROVE  /\ AfterApply(task) => Settled(ConfigOf(task, gen))'
                        /\ \A t \in ApplyTasks : AppliedBy(t)' => Settled(ConfigOf(t, gen))'
                        /\ \A k \in DOMAIN runs : IsSaving(k)' => Settled(gen)'
      BY <1>1 DEF AppliedStage
    <3> QED
      BY <1>9, <3>1, <3>2, <3>3 DEF AppliedInv, AppliedStage
  <2> QED
    BY <1>5, <1>6, <1>7, <1>8, <2>2, <2>3, <2>4 DEF AppliedInv
<1>10. CASE resource.uid = 0
  <2>1. DOMAIN runs = {} /\ 1..Len(runs) = {}
    BY <1>10 DEF CreateResource, Create, EditSpec, Edit, DeleteResource, Delete, RunsInv, TypeInv
  <2>2. stage.task = RunNil
    BY <1>1, <1>10
  <2>3. OlderPlans' /\ NotYetApplied'
    BY <1>1, <2>1 DEF OlderPlans, NotYetApplied, ApplyRuns, Runs
  <2>4. AppliedStage'
    <3>1. ~AfterApply(stage.task)'
      BY <1>1, <2>2, OneApplyTask
    <3>2. \A t \in ApplyTasks : ~AppliedBy(t)'
      BY <1>1, <2>1, <2>2, OneApplyTask DEF AppliedBy, InState
    <3> QED
      BY <1>1, <2>1, <3>1, <3>2 DEF AppliedStage
  <2> QED
    BY <1>5, <1>6, <1>7, <1>8, <2>3, <2>4 DEF AppliedInv
<1> QED
  BY <1>9, <1>10

LEMMA NewStageKeepsApplied ==
  ASSUME TypeInv, RunsInv, PlanInv, AppliedInv, NewStage
  PROVE  AppliedInv'
<1>1. PICK gen \in stage.gen + 1..resource.gen : \E task \in {"setup", "setup-delete"} :
        Enter(gen, task)
  BY DEF NewStage, NewGeneration
<1>2. /\ resource' = resource /\ resource.uid # 0 /\ runs' = runs /\ disk' = disk
      /\ infra' = infra /\ saving' = saving /\ specs' = specs /\ completed' = FALSE
      /\ stage'.gen = gen /\ stage'.task \in {"setup", "setup-delete"}
  BY <1>1 DEF Enter, NewStage, NewGeneration, NoScript
<1>3. gen \in Gens /\ gen > stage.gen /\ gen \in Nat /\ stage.gen \in Nat
  BY <1>1, <1>2, BoundsAssumption DEF RunsInv, TypeInv, Resource, StageOf, Gens
<1>4. \A i \in DOMAIN runs : runs[i].gen # gen
  BY <1>2, <1>3 DEF RunsInv, Gens
<1>5. disk[gen].plan = NoPlan
  BY <1>3, <1>4 DEF PlanInv, LastPlan, PlannedRuns
<1>6. MadePlans' /\ SavingRuns' /\ CompletedStage' /\ Dirs' /\ SetUpIsOver'
  <2>1. \A k \in DOMAIN runs : SaveOutputs(SpecOf(k))' <=> SaveOutputs(SpecOf(k))
    BY <1>2 DEF SaveOutputs, SpecOf
  <2>2. SetUpIsOver'
    <3>1. DOMAIN runs = 1..Len(runs) /\ ~StageIs("succeeded")'
      BY <1>2, <1>4 DEF StageIs, IsRunOf, TypeInv
    <3>2. stage'.task \in SetupTasks
      BY <1>2 DEF SetupTasks
    <3> QED
      BY <1>2, <3>1, <3>2 DEF AppliedInv, SetUpIsOver, HasFiles
  <2> QED
    BY <1>2, <2>1, <2>2 DEF AppliedInv, MadePlans, SavingRuns, CompletedStage, Dirs
<1>7. OlderPlans'
  BY <1>2, <1>5 DEF OlderPlans, Dir, GenerationPath
<1>8. NotYetApplied'
  BY <1>2, <1>4 DEF NotYetApplied, IsRunOf
<1>9. AppliedStage'
  <2>1. ~AfterApply(stage.task)'
    BY <1>2, OneApplyTask
  <2>2. \A t \in ApplyTasks : ~AppliedBy(t)'
    BY <1>2, NilIsNoTask, CreateTaskIDs, DeleteTaskIDs DEF AppliedBy, ApplyTasks
  <2>3. \A k \in DOMAIN runs : ~IsSaving(k)'
    BY <1>2, <1>4 DEF IsSaving
  <2> QED
    BY <1>2, <2>1, <2>2, <2>3 DEF AppliedStage
<1> QED
  BY <1>6, <1>7, <1>8, <1>9 DEF AppliedInv

LEMMA NextStageKeepsApplied ==
  ASSUME TypeInv, RunsInv, PlanInv, AppliedInv, NextStage
  PROVE  AppliedInv'
<1>1. /\ resource' = resource /\ runs' = runs /\ resource.uid # 0
      /\ stage'.gen = stage.gen /\ stage.task # RunNil
      /\ stage'.task # RunNil => WorkflowOf(stage'.task) = WorkflowOf(stage.task)
      /\ \A i \in DOMAIN runs : runs[i].gen = stage.gen => runs[i].result # "running"
  BY NextStageFacts DEF NextStage
<1>2. /\ disk' = disk /\ infra' = infra /\ saving' = saving /\ specs' = specs
      /\ completed' = completed
  BY DEF NextStage, NoScript, Advance, Replan
<1>3. stage.task \in TaskName /\ stage'.task \in TaskName \cup {RunNil}
  BY <1>1, NextTaskType DEF TypeInv, StageOf, NextStage, Advance, Replan, Enter
<1>4. ApplyRuns' = ApplyRuns
  BY <1>1, <1>2 DEF ApplyRuns, Runs
<1>5. MadePlans' /\ SavingRuns' /\ CompletedStage' /\ Dirs' /\ OlderPlans'
  <2>1. \A k \in DOMAIN runs : SaveOutputs(SpecOf(k))' <=> SaveOutputs(SpecOf(k))
    BY <1>1, <1>2 DEF SaveOutputs, SpecOf
  <2> QED
    BY <1>1, <1>2, <1>4, <2>1 DEF AppliedInv, MadePlans, SavingRuns, CompletedStage, Dirs,
      OlderPlans, Dir, GenerationPath
<1>6. ASSUME NEW a \in ApplyTasks, a \in WorkflowOf(stage'.task), Before(stage'.task, a),
             NEW i \in DOMAIN runs, IsRunOf(runs[i], resource.uid, stage.gen, a),
             runs[i].result = "succeeded"
      PROVE  \E j \in DOMAIN runs : j > i /\ IsRunOf(runs[j], resource.uid, stage.gen, a)
  <2>0. stage'.task \in TaskName /\ a \in WorkflowOf(stage.task) /\ a \in TaskName
    <3>1. WorkflowOf(RunNil) = {}
      BY NilIsNoTask DEF WorkflowOf
    <3>2. stage'.task # RunNil
      BY <1>6, <3>1
    <3> QED
      BY <1>1, <1>3, <1>6, <3>2, OneApplyTask
  <2>1. CASE Advance
    <3>1. Before(stage.task, stage'.task)
      <4>1. stage'.task = NextTask(stage.task, ConfiguredTasks) /\ stage'.task # RunNil
        BY <2>0, <2>1, NilIsNoTask DEF Advance, Enter
      <4> QED
        BY <4>1, NextTaskResult, WorkflowOfLater
    <3>2. Before(stage.task, a)
      BY <1>3, <1>6, <2>0, <3>1, TaskIDs DEF Before
    <3> QED
      BY <1>1, <1>6, <2>0, <3>2 DEF AppliedInv, NotYetApplied
  <2>2. CASE Replan
    <3>1. stage.task = a /\ StageIs("failed")
      BY <1>3, <2>0, <2>2, OneApplyTask DEF Replan, ApplyTasks
    <3>2. DOMAIN runs = 1..Len(runs) /\ Len(runs) \in Nat
      BY DEF TypeInv
    <3>3. PICK k \in DOMAIN runs :
            /\ IsRunOf(runs[k], resource.uid, stage.gen, a) /\ runs[k].result = "failed"
            /\ \A j \in k + 1..Len(runs) : ~IsRunOf(runs[j], resource.uid, stage.gen, a)
      BY <3>1, <3>2 DEF StageIs
    <3>4. k > i
      BY <1>6, <3>2, <3>3
    <3> QED
      BY <3>3, <3>4
  <2> QED
    BY <2>1, <2>2 DEF NextStage
<1>7. NotYetApplied'
  BY <1>1, <1>6 DEF NotYetApplied, Before, ID
<1>8. ASSUME NEW t \in ApplyTasks, stage'.task = t, StageIs("succeeded")' PROVE FALSE
  <2>1. DOMAIN runs = 1..Len(runs) /\ Len(runs) \in Nat
    BY DEF TypeInv
  <2>2. PICK k \in DOMAIN runs :
          /\ IsRunOf(runs[k], resource.uid, stage.gen, t) /\ runs[k].result = "succeeded"
          /\ \A j \in DOMAIN runs : j > k => ~IsRunOf(runs[j], resource.uid, stage.gen, t)
    BY <1>1, <1>8, <2>1 DEF StageIs
  <2>3. stage'.task # RunNil /\ t \in TaskName /\ t \in WorkflowOf(stage.task)
    BY <1>1, <1>3, <1>8, OneApplyTask
  <2>4. CASE Advance
    <3>1. Before(stage.task, t)
      BY <1>8, <2>3, <2>4, NextTaskResult, WorkflowOfLater DEF Advance, Enter
    <3> QED
      BY <1>1, <2>2, <2>3, <3>1 DEF AppliedInv, NotYetApplied
  <2>5. CASE Replan
    <3>1. stage.task \in ApplyTasks
      BY <2>5 DEF Replan, ApplyTasks
    <3>2. stage.task = t
      BY <1>3, <2>3, <3>1, OneApplyTask
    <3> DEFINE start == IF stage.task = "apply-delete" THEN "postinit-delete" ELSE "postinit"
    <3>3. stage'.task = NextTask(start, ConfiguredTasks)
      BY <2>5 DEF Replan, Enter
    <3>4. Before(stage'.task, stage.task)
      BY <3>1, <3>3, RestartIsEarlier DEF ApplyTasks, ConfiguredTasks
    <3> QED
      BY <1>3, <1>8, <3>2, <3>4, BeforeIsTotal
  <2> QED
    BY <2>4, <2>5 DEF NextStage
<1>9. SetUpIsOver'
  <2>1. stage.task \in SetupTasks => StageIs("succeeded")
    BY DEF NextStage, Advance, Replan, SetupTasks
  <2>2. HasFiles(stage.gen)
    BY <1>1, <2>1 DEF AppliedInv, SetUpIsOver
  <2> QED
    BY <1>1, <1>2, <2>2 DEF AppliedInv, SetUpIsOver, HasFiles
<1>10. AppliedStage'
  <2>1. Advance \/ Replan
    BY DEF NextStage
  <2>2. \A c : Settled(c) => Settled(c)'
    BY <1>1, <1>2, <1>4 DEF Settled, IsFresh, Dir, GenerationPath
  <2>3. \A k \in DOMAIN runs : ~IsSaving(k)'
    BY <1>1 DEF IsSaving
  <2> SUFFICES ASSUME NEW task, NEW gen, task = stage'.task, gen = stage.gen
               PROVE  /\ AfterApply(task) => Settled(ConfigOf(task, gen))'
                      /\ \A t \in ApplyTasks : AppliedBy(t)' => Settled(ConfigOf(t, gen))'
    BY <1>1, <2>3 DEF AppliedStage
  <2>4. stage.task \in ApplyTasks /\ StageIs("succeeded") => AppliedBy(stage.task)
    BY DEF AppliedBy
  <2>5. ASSUME AfterApply(task) PROVE Settled(ConfigOf(task, gen))
    <3>1. ConfigOf(task, gen) = ConfigOf(stage.task, gen)
      BY <2>1, <2>5, PastApply
    <3>2. AfterApply(stage.task) \/ (stage.task \in ApplyTasks /\ AppliedBy(stage.task))
      BY <2>1, <2>4, <2>5, PastApply
    <3> QED
      BY <1>1, <3>1, <3>2 DEF AppliedInv, AppliedStage
  <2>6. ASSUME NEW t \in ApplyTasks, AppliedBy(t)' PROVE Settled(ConfigOf(t, gen))
    <3>1. stage'.task = RunNil /\ InState(resource.uid, stage.gen, t, "succeeded")
      BY <1>1, <1>8, <2>6 DEF AppliedBy, InState
    <3>2. ConfigOf(t, gen) = ConfigOf(stage.task, gen)
      BY <2>1, <3>1, PastApply
    <3>3. AfterApply(stage.task) \/ (stage.task \in ApplyTasks /\ AppliedBy(stage.task))
      BY <2>1, <2>4, <3>1, PastApply
    <3> QED
      BY <1>1, <3>2, <3>3 DEF AppliedInv, AppliedStage
  <2> QED
    BY <2>2, <2>5, <2>6
<1> QED
  BY <1>5, <1>7, <1>9, <1>10 DEF AppliedInv

LEMMA StartKeepsApplied ==
  ASSUME TypeInv, RunsInv, PlanInv, AppliedInv, StartRun
  PROVE  AppliedInv'
<1> DEFINE n == Len(runs) + 1
<1>1. /\ DOMAIN runs' = DOMAIN runs \cup {n} /\ n \notin DOMAIN runs
      /\ DOMAIN runs = 1..Len(runs) /\ Len(runs) \in Nat
      /\ \A k \in DOMAIN runs : runs'[k] = runs[k] /\ k < n
      /\ runs'[n].uid = resource.uid /\ runs'[n].gen = stage.gen
      /\ runs'[n].task = stage.task /\ runs'[n].result = "running"
      /\ resource' = resource /\ stage' = stage /\ resource.uid # 0 /\ stage.task # RunNil
  BY StartFacts DEF StartRun
<1>2. /\ disk' = disk /\ infra' = infra /\ saving' = saving /\ specs' = specs
      /\ completed' = completed
  BY DEF StartRun, NoScript, Start
<1>3. stage.gen \in Nat /\ ~(stage.gen < stage.gen)
  BY DEF TypeInv, StageOf
<1>4. Len(runs') = n /\ 1..Len(runs') = DOMAIN runs'
  BY DEF StartRun, Start, TypeInv
<1> HIDE DEF n
<1>5. \A k \in ApplyRuns' : k \in ApplyRuns \/ runs'[k].gen = stage.gen
  BY <1>1, <1>2 DEF ApplyRuns, Runs
<1>6. \A k \in ApplyRuns : k \in DOMAIN runs
  BY DEF ApplyRuns, Runs
<1>7. MadePlans'
  <2>1. \A g \in Gens : disk[g].plan # NoPlan => disk[g].plan.run \in DOMAIN runs
    BY DEF PlanInv, LastPlan, PlannedRuns
  <2> QED
    BY <1>1, <1>2, <2>1 DEF AppliedInv, MadePlans
<1>8. OlderPlans'
  BY <1>1, <1>2, <1>3, <1>5, <1>6 DEF AppliedInv, OlderPlans, Dir, GenerationPath
<1>9. SavingRuns'
  <2>1. \A k \in DOMAIN runs : SaveOutputs(SpecOf(k))' <=> SaveOutputs(SpecOf(k))
    BY <1>1, <1>2 DEF SaveOutputs, SpecOf
  <2> QED
    BY <1>1, <1>2, <2>1 DEF AppliedInv, SavingRuns
<1>10. CompletedStage' /\ Dirs' /\ SetUpIsOver'
  <2>1. CompletedStage' /\ Dirs'
    BY <1>1, <1>2 DEF AppliedInv, CompletedStage, Dirs
  <2>2. StageIs("succeeded")' => FALSE
    <3> SUFFICES ASSUME StageIs("succeeded")' PROVE FALSE
      OBVIOUS
    <3>1. PICK k \in DOMAIN runs' :
            /\ runs'[k].result = "succeeded"
            /\ \A j \in k + 1..n : ~IsRunOf(runs'[j], resource.uid, stage.gen, stage.task)
      BY <1>1, <1>4 DEF StageIs
    <3>2. k # n /\ n \in Nat /\ k \in Nat /\ k < n
      BY <1>1, <3>1 DEF n
    <3> QED
      BY <1>1, <3>1, <3>2 DEF IsRunOf
  <2>3. stage.task \notin SetupTasks => HasFiles(stage.gen)
    BY <1>1 DEF AppliedInv, SetUpIsOver
  <2> QED
    BY <1>1, <1>2, <2>1, <2>2, <2>3 DEF AppliedInv, SetUpIsOver, HasFiles
<1>11. NotYetApplied'
  BY <1>1 DEF AppliedInv, NotYetApplied, IsRunOf, Before, ID
<1>12. AppliedStage'
  <2>1. \A c : Settled(c) => Settled(c)'
    BY <1>1, <1>2, <1>3, <1>5, <1>6 DEF Settled, IsFresh, Dir, GenerationPath
  <2>2. ASSUME NEW t \in ApplyTasks, AppliedBy(t)' PROVE FALSE
    <3>1. PICK k \in DOMAIN runs' :
            /\ runs'[k].result = "succeeded"
            /\ \A j \in k + 1..n : ~IsRunOf(runs'[j], resource.uid, stage.gen, stage.task)
      BY <1>1, <1>4, <2>2 DEF AppliedBy, StageIs
    <3>2. k # n /\ n \in Nat /\ k \in Nat /\ k < n
      BY <1>1, <3>1 DEF n
    <3> QED
      BY <1>1, <3>1, <3>2 DEF IsRunOf
  <2>3. ASSUME NEW k \in DOMAIN runs', IsSaving(k)' PROVE IsSaving(k) /\ k \in DOMAIN runs
    BY <1>1, <1>2, <2>3 DEF IsSaving, AppliedInv, SavingRuns
  <2> SUFFICES ASSUME NEW task, NEW gen, task = stage.task, gen = stage.gen
               PROVE  /\ AfterApply(task) => Settled(ConfigOf(task, gen))'
                      /\ \A k \in DOMAIN runs' : IsSaving(k)' => Settled(gen)'
    BY <1>1, <2>2 DEF AppliedStage
  <2> QED
    BY <1>1, <2>1, <2>3 DEF AppliedInv, AppliedStage
<1> QED
  BY <1>7, <1>8, <1>9, <1>10, <1>11, <1>12 DEF AppliedInv

LEMMA CompleteKeepsApplied ==
  ASSUME TypeInv, RunsInv, PlanInv, AppliedInv,
         CompleteWorkflow \/ ResourceGone \/ UNCHANGED vars
  PROVE  AppliedInv'
<1>1. /\ runs' = runs /\ disk' = disk /\ infra' = infra /\ saving' = saving /\ specs' = specs
  BY DEF CompleteWorkflow, Complete, ResourceGone, Gone, NoScript, vars, workflowVars, scriptVars
<1>2. MadePlans' /\ SavingRuns' /\ Dirs' /\ SetUpIsOver'
  <2>1. \A k \in DOMAIN runs : SaveOutputs(SpecOf(k))' <=> SaveOutputs(SpecOf(k))
    BY <1>1 DEF SaveOutputs, SpecOf
  <2>2. (resource' = resource /\ stage' = stage) \/ resource'.uid = 0
    BY DEF CompleteWorkflow, Complete, ResourceGone, Gone, NoResource, vars, workflowVars
  <2>3. StageIs("succeeded")' /\ resource' = resource /\ stage' = stage => StageIs("succeeded")
    BY <1>1 DEF StageIs
  <2> QED
    BY <1>1, <2>1, <2>2, <2>3 DEF AppliedInv, MadePlans, SavingRuns, Dirs, SetUpIsOver, HasFiles
<1>3. CASE ResourceGone
  <2>1. resource'.uid = 0 /\ completed' = FALSE
    BY <1>3 DEF ResourceGone, Gone, NoResource
  <2> QED
    BY <1>2, <2>1 DEF AppliedInv, OlderPlans, AppliedStage, NotYetApplied, CompletedStage
<1>4. CASE CompleteWorkflow \/ UNCHANGED vars
  <2>1. resource' = resource /\ stage' = stage
    BY <1>4 DEF CompleteWorkflow, Complete, vars, workflowVars
  <2>2. OlderPlans' /\ NotYetApplied'
    BY <1>1, <2>1 DEF AppliedInv, OlderPlans, NotYetApplied, ApplyRuns, Runs, Dir,
      GenerationPath, Before, ID
  <2>3. AppliedStage'
    <3>1. \A t : AppliedBy(t)' <=> AppliedBy(t)
      BY <1>1, <2>1 DEF AppliedBy, StageIs, InState
    <3>2. \A k \in DOMAIN runs : IsSaving(k)' <=> IsSaving(k)
      BY <1>1, <2>1 DEF IsSaving
    <3>3. \A c : Settled(c)' <=> Settled(c)
      BY <1>1, <2>1 DEF Settled, IsFresh, Dir, GenerationPath, ApplyRuns, Runs
    <3> SUFFICES ASSUME resource.uid # 0, NEW task, NEW gen, task = stage.task, gen = stage.gen
                 PROVE  /\ AfterApply(task) => Settled(ConfigOf(task, gen))'
                        /\ \A t \in ApplyTasks : AppliedBy(t)' => Settled(ConfigOf(t, gen))'
                        /\ \A k \in DOMAIN runs : IsSaving(k)' => Settled(gen)'
      BY <1>1, <2>1 DEF AppliedStage
    <3> QED
      BY <3>1, <3>2, <3>3 DEF AppliedInv, AppliedStage
  <2>4. CompletedStage'
    <3>1. CASE UNCHANGED vars
      BY <3>1 DEF AppliedInv, CompletedStage, vars, workflowVars, InState
    <3>2. CASE CompleteWorkflow
      <4>1. "apply" \in ConfiguredTasks \cap CreateTasks
        BY OneApplyTask, CreateTaskIDs
      <4>2. stage.task = RunNil /\ InState(resource.uid, stage.gen, "apply", "succeeded")
        BY <3>2, <4>1 DEF CompleteWorkflow, Complete
      <4>3. resource.uid # 0
        BY <4>2 DEF InState, IsRunOf, RunsInv, TypeInv
      <4> QED
        BY <1>1, <2>1, <4>2, <4>3 DEF CompletedStage, InState
    <3> QED
      BY <1>4, <3>1, <3>2
  <2> QED
    BY <1>2, <2>2, <2>3, <2>4 DEF AppliedInv
<1> QED
  BY <1>3, <1>4

-----------------------------------------------------------------------------
(* The types of the variables of the scripts.                              *)
ScriptTypes ==
  /\ infra.config \in Gens \cup {Destroyed, Mixed}
  /\ approved \subseteq DOMAIN runs
  /\ DOMAIN secrets = SecretNames
  /\ misread \in BOOLEAN /\ troubles \in 0..MaxTroubles

AppliedInvariant ==
  TypeInv /\ RunsInv /\ PlanInv /\ SpecsOfUsers /\ ScriptTypes /\ AppliedInv

LEMMA SpecFields == EmptySpec.varFiles = 0 /\ ~SaveOutputs(EmptySpec)
BY DEF EmptySpec, SaveOutputs

LEMMA AppliedInit == ScriptsInit => AppliedInvariant
<1> SUFFICES ASSUME ScriptsInit PROVE AppliedInvariant
  OBVIOUS
<1>1. TypeInv /\ RunsInv /\ PlanInv /\ Dirs
  BY WorkflowTypeInit, RunsInvInit, PlanInvInit, DirsInit DEF ScriptsInit
<1>2. /\ DOMAIN runs = {} /\ resource.uid = 0 /\ completed = FALSE /\ DOMAIN saving = {}
      /\ \A g \in Gens : disk[g].plan = NoPlan /\ specs[g] = EmptySpec
      /\ infra.serial = 0 /\ infra.config = Destroyed /\ approved = {}
      /\ DOMAIN secrets = SecretNames /\ misread = FALSE /\ troubles = 0
  BY EmptyDirFields DEF ScriptsInit, Init, NoResource
<1>3. SpecsOfUsers
  BY <1>2, SpecFields DEF SpecsOfUsers
<1>4. ScriptTypes
  <2>1. troubles \in 0..MaxTroubles
    BY <1>2, BoundsAssumption
  <2>2. misread \in BOOLEAN
    BY <1>2, Zenon
  <2> QED
    BY <1>2, <2>1, <2>2 DEF ScriptTypes
<1>5. AppliedInv
  BY <1>1, <1>2 DEF AppliedInv, MadePlans, OlderPlans, AppliedStage, NotYetApplied,
    SavingRuns, CompletedStage, SetUpIsOver
<1> QED
  BY <1>1, <1>3, <1>4, <1>5 DEF AppliedInvariant

LEMMA SpecsOfUsersNext ==
  ASSUME TypeInv, RunsInv, PlanInv, SpecsOfUsers, [ScriptsNext]_vars
  PROVE  SpecsOfUsers'
<1>1. /\ specs = [g \in Gens |-> specs[g]] /\ resource.gen \in Nat /\ resource.gen <= MaxGen
  BY DEF PlanInv, DisksAndSpecs, RunsInv, TypeInv, Resource
<1>2. ASSUME NEW g, NEW s \in Specs \cup {EmptySpec}, specs' = [specs EXCEPT ![g] = s],
             resource'.gen # 0
      PROVE  SpecsOfUsers'
  <2>1. s.varFiles \in Nat
    BY SpecFields, SpecsAssumption
  <2> QED
    BY <1>1, <1>2, <2>1 DEF SpecsOfUsers
<1>3. CASE CreateResource
  <2>1. resource'.gen # 0
    BY <1>3 DEF CreateResource
  <2>2. \E s \in Specs : specs' = [specs EXCEPT ![1] = s]
    BY <1>3 DEF CreateResource
  <2> QED
    BY <1>2, <2>1, <2>2
<1>4. CASE EditSpec \/ DeleteResource
  <2>1. resource'.gen = resource.gen + 1 /\ resource.uid # 0
    BY <1>4 DEF EditSpec, DeleteResource, Edit, Delete, TypeInv, Resource
  <2>2. resource.gen \in Gens /\ resource'.gen # 0
    BY <1>1, <2>1, BoundsAssumption DEF SpecsOfUsers, Gens
  <2>3. specs[resource.gen] \in Specs \cup {EmptySpec}
    BY <2>2 DEF SpecsOfUsers
  <2> QED
    BY <1>2, <1>4, <2>2, <2>3 DEF EditSpec, DeleteResource
<1>5. CASE specs' = specs /\ (resource' = resource \/ resource'.uid = 0)
  BY <1>5 DEF SpecsOfUsers
<1>6. ASSUME NEW i \in DOMAIN runs, ScriptOf(i) PROVE SpecsOfUsers'
  BY <1>5, <1>6, ScriptRuns
<1>7. CASE NewStage \/ NextStage \/ StartRun \/ CompleteWorkflow \/ ResourceGone
  <2>1. specs' = specs /\ (resource' = resource \/ resource'.uid = 0)
    BY <1>7 DEF NewStage, NewGeneration, NextStage, Advance, Replan, Enter, StartRun, Start,
      CompleteWorkflow, Complete, ResourceGone, Gone, NoResource
  <2> QED
    BY <1>5, <2>1
<1>8. CASE UNCHANGED vars
  BY <1>5, <1>8 DEF vars, workflowVars, scriptVars
<1> QED
  BY <1>3, <1>4, <1>6, <1>7, <1>8 DEF ScriptsNext, ScriptOf, Runs

LEMMA ScriptKeepsTypes ==
  ASSUME TypeInv, RunsInv, PlanInv, MadePlans, ScriptTypes, NEW i \in DOMAIN runs, ScriptOf(i)
  PROVE  ScriptTypes'
<1>1. infra'.config \in Gens \cup {Destroyed, Mixed}
  <2>1. runs[i].gen \in Gens
    BY DEF RunsInv
  <2>2. \A t, g : ConfigOf(t, g) \in {Destroyed, g}
    BY DEF ConfigOf
  <2>3. IsFresh(Dir(i).plan) => Dir(i).plan.config \in Gens \cup {Destroyed}
    BY <2>1, <2>2 DEF IsFresh, Dir, GenerationPath, MadePlans
  <2> QED
    BY <2>3, InfraChanges DEF ScriptTypes
<1>2. approved' \subseteq approved \cup {i} /\ DOMAIN secrets' = DOMAIN secrets
  BY DEF ScriptOf, SetUp, SetUpStops, TerraformInit, Noop, TerraformPlan, Approve,
    TerraformApply, TerraformAppliesInPart, TerraformRefuses, ReadOutputs, PatchSecret,
    ScriptStops, NothingToDo, scriptVars
<1>3. misread' = misread /\ (troubles' = troubles \/ Trouble)
  BY DEF ScriptOf, SetUp, SetUpStops, TerraformInit, Noop, TerraformPlan, Approve,
    TerraformApply, TerraformAppliesInPart, TerraformRefuses, ReadOutputs, PatchSecret,
    ScriptStops, NothingToDo, scriptVars
<1>4. troubles' \in 0..MaxTroubles
  BY <1>3, BoundsAssumption DEF Trouble, ScriptTypes
<1> QED
  BY <1>1, <1>2, <1>3, <1>4, ScriptRuns DEF ScriptTypes

LEMMA ScriptTypesNext ==
  ASSUME TypeInv, RunsInv, PlanInv, MadePlans, ScriptTypes, [ScriptsNext]_vars
  PROVE  ScriptTypes'
<1>1. ASSUME infra' = infra, approved' = approved, secrets' = secrets, misread' \in BOOLEAN,
             troubles' = troubles \/ Trouble, DOMAIN runs \subseteq DOMAIN runs'
      PROVE  ScriptTypes'
  <2>1. troubles' \in 0..MaxTroubles
    BY <1>1, BoundsAssumption DEF Trouble, ScriptTypes
  <2> QED
    BY <1>1, <2>1 DEF ScriptTypes
<1>2. CASE StartRun
  <2>1. DOMAIN runs \subseteq DOMAIN runs'
    BY <1>2, StartFacts DEF StartRun
  <2> QED
    BY <1>1, <1>2, <2>1 DEF StartRun, NoScript, ScriptTypes
<1>3. CASE \/ CreateResource \/ EditSpec \/ DeleteResource \/ NewStage \/ NextStage
           \/ ResourceGone \/ UNCHANGED vars
  <2>1. runs' = runs /\ infra' = infra /\ approved' = approved /\ secrets' = secrets
    BY <1>3 DEF CreateResource, Create, EditSpec, Edit, DeleteResource, Delete, NewStage,
      NewGeneration, NextStage, Advance, Replan, Enter, ResourceGone, Gone, NoScript, vars,
      workflowVars, scriptVars
  <2>2. misread' = misread /\ troubles' = troubles
    BY <1>3 DEF CreateResource, EditSpec, DeleteResource, NewStage, NextStage, ResourceGone,
      NoScript, vars, scriptVars
  <2> QED
    BY <1>1, <2>1, <2>2 DEF ScriptTypes
<1>4. CASE CompleteWorkflow
  <2>1. runs' = runs /\ infra' = infra /\ approved' = approved /\ secrets' = secrets
    BY <1>4 DEF CompleteWorkflow, Complete
  <2>2. misread' \in BOOLEAN /\ (troubles' = troubles \/ Trouble)
    BY <1>4 DEF CompleteWorkflow, ScriptTypes
  <2> QED
    BY <1>1, <2>1, <2>2
<1>5. ASSUME NEW i \in DOMAIN runs, ScriptOf(i) PROVE ScriptTypes'
  BY <1>5, ScriptKeepsTypes
<1> QED
  BY <1>2, <1>3, <1>4, <1>5 DEF ScriptsNext, ScriptOf, Runs

LEMMA AppliedNext == AppliedInvariant /\ [ScriptsNext]_vars => AppliedInvariant'
<1> SUFFICES ASSUME AppliedInvariant, [ScriptsNext]_vars PROVE AppliedInvariant'
  OBVIOUS
<1> USE DEF AppliedInvariant
<1>1. TypeInv' /\ RunsInv' /\ PlanInv' /\ SpecsOfUsers'
  BY ScriptsStep, WorkflowTypeNext, RunsInvNext, PlanInvNext, SpecsOfUsersNext
<1>2. ScriptTypes'
  BY ScriptTypesNext DEF AppliedInv
<1>3. ASSUME NEW i \in DOMAIN runs, ScriptOf(i) PROVE AppliedInv'
  <2> USE DEF AppliedInv
  <2>1. MadePlans' /\ OlderPlans'
    BY <1>3, ScriptMadePlans, ScriptOlderPlans
  <2>2. AppliedStage' /\ NotYetApplied' /\ SavingRuns'
    BY <1>3, ScriptAppliedStage, ScriptNotYetApplied, ScriptSavingRuns
  <2>3. CompletedStage' /\ Dirs' /\ SetUpIsOver'
    BY <1>3, ScriptCompletedStage, ScriptKeepsDirs, ScriptSetUpIsOver DEF PlanInv
  <2> QED
    BY <2>1, <2>2, <2>3
<1>4. AppliedInv'
  BY <1>3, UsersKeepApplied, NewStageKeepsApplied, NextStageKeepsApplied, StartKeepsApplied,
    CompleteKeepsApplied DEF ScriptsNext, ScriptOf, Runs
<1> QED
  BY <1>1, <1>2, <1>4

LEMMA AppliedIsInvariant == ScriptsSpec => []AppliedInvariant
BY AppliedInit, AppliedNext, PTL DEF ScriptsSpec

(* Every variable of the scripts keeps its type: a directory has the       *)
(* module of its generation or none, a plan is of a run there was          *)
(* (setup.sh, tf.sh).                                                      *)
THEOREM ScriptsTypes == ScriptsSpec => []TypeOK
<1>1. AppliedInvariant => TypeOK
  <2> SUFFICES ASSUME AppliedInvariant PROVE TypeOK
    OBVIOUS
  <2> USE DEF AppliedInvariant, AppliedInv
  <2>1. specs \in [Gens -> Specs \cup {EmptySpec}]
    BY DEF SpecsOfUsers, PlanInv, DisksAndSpecs
  <2>2. DOMAIN runs = 1..Len(runs) /\ Len(runs) \in Nat
    BY DEF TypeInv
  <2>3. NoPlan.run = 0
    BY DEF NoPlan
  <2>4. \A g \in Gens : disk[g].main \in {0, g} /\ disk[g].plan.run \in 0..Len(runs)
    BY <2>2, <2>3 DEF Dirs, PlanInv, LastPlan, PlannedRuns
  <2>5. planned \cup approved \cup applied \cup DOMAIN saving \subseteq DOMAIN runs
    BY DEF PlanInv, PlannedRuns, ScriptTypes, SavingRuns
  <2> QED
    BY <2>1, <2>4, <2>5 DEF TypeOK, ScriptTypes, MadePlans
<1> QED
  BY <1>1, AppliedIsInvariant, PTL

(* For every spec, number of generations, failures and lost pods: what is  *)
(* reported as completed is in force, whichever pods of older generations  *)
(* are still at work (tf.sh, the end of the workflow in Reconcile).        *)
THEOREM CompletedWasApplied == ScriptsSpec => []CompletedIsApplied
<1>1. AppliedInvariant => CompletedIsApplied
  <2> SUFFICES ASSUME AppliedInvariant, completed PROVE infra.config = stage.gen
    BY DEF CompletedIsApplied
  <2>1. resource.uid # 0 /\ AppliedBy("apply")
    BY DEF AppliedInvariant, AppliedInv, CompletedStage, AppliedBy
  <2>2. Settled(ConfigOf("apply", stage.gen))
    BY <2>1, OneApplyTask DEF AppliedInvariant, AppliedInv, AppliedStage
  <2> QED
    BY <2>2, OneApplyTask DEF Settled
<1> QED
  BY <1>1, AppliedIsInvariant, PTL

(* The resource goes when its infrastructure is destroyed, and not before  *)
(* (updateFinalizer at the end of the destroy workflow).                   *)
THEOREM GoneWasDestroyed == ScriptsSpec => GoneIsDestroyed
<1>1. AppliedInvariant /\ [ScriptsNext]_vars =>
        (resource.uid # 0 /\ resource'.uid = 0 => infra.config = Destroyed)
  <2> SUFFICES ASSUME AppliedInvariant, [ScriptsNext]_vars, resource.uid # 0, resource'.uid = 0
               PROVE  infra.config = Destroyed
    OBVIOUS
  <2>1. CASE ResourceGone
    <3>1. "apply-delete" \in ConfiguredTasks \cap DeleteTasks /\ "apply-delete" \in ApplyTasks
      BY OneApplyTask, DeleteTaskIDs DEF ApplyTasks
    <3>2. AppliedBy("apply-delete")
      BY <2>1, <3>1 DEF ResourceGone, Gone, AppliedBy
    <3>3. Settled(ConfigOf("apply-delete", stage.gen))
      BY <3>1, <3>2 DEF AppliedInvariant, AppliedInv, AppliedStage
    <3> QED
      BY <3>3, OneApplyTask DEF Settled
  <2>2. CASE \/ CreateResource \/ EditSpec \/ DeleteResource \/ NewStage \/ NextStage
             \/ StartRun \/ CompleteWorkflow \/ UNCHANGED vars
    <3>1. CASE CreateResource
      BY <3>1 DEF CreateResource
    <3>2. CASE EditSpec \/ DeleteResource
      BY <3>2 DEF EditSpec, Edit, DeleteResource, Delete, TypeInv, Resource, AppliedInvariant
    <3>3. CASE \/ NewStage \/ NextStage \/ StartRun \/ CompleteWorkflow \/ UNCHANGED vars
      <4>1. resource' = resource
        BY <3>3 DEF NewStage, NewGeneration, NextStage, Advance, Replan, Enter, StartRun, Start,
          CompleteWorkflow, Complete, vars, workflowVars
      <4> QED
        BY <4>1
    <3> QED
      BY <2>2, <3>1, <3>2, <3>3
  <2>3. ASSUME NEW i \in DOMAIN runs, ScriptOf(i) PROVE FALSE
    BY <2>3, ScriptRuns DEF AppliedInvariant
  <2> QED
    BY <2>1, <2>2, <2>3 DEF ScriptsNext, ScriptOf, Runs
<1> QED
  BY <1>1, AppliedIsInvariant, PTL DEF ScriptsSpec, GoneIsDestroyed

-----------------------------------------------------------------------------
(***************************************************************************)
(* The outputs, when no two generations write to one secret, which an      *)
(* outputsSecret that stays the same makes them do: an apply of an older   *)
(* generation may then patch the secret after the newer one.               *)
(***************************************************************************)
SecretsApart ==
  \A s, t \in Specs : \A g, h \in Gens :
    g # h /\ SaveOutputs(s) /\ SaveOutputs(t) =>
      OutputsSecretName(s, g) # OutputsSecretName(t, h)

SavedOutputs ==
  resource.uid # 0 =>
    \A i \in DOMAIN runs :
      runs[i].gen = stage.gen /\ runs[i].task = "apply" /\ SaveOutputs(SpecOf(i)) =>
        /\ runs[i].result = "succeeded" =>
             secrets[OutputsSecretName(SpecOf(i), runs[i].gen)]
               = WantedOutputs(SpecOf(i), runs[i].gen)
        /\ i \in DOMAIN saving /\ saving[i] # <<>> =>
             saving[i][1] = WantedOutputs(SpecOf(i), runs[i].gen)

OutputsInv == AppliedInvariant /\ SavedOutputs /\ OutputsAreShown

LEMMA SpecsThatSave ==
  ASSUME RunsInv, SpecsOfUsers, NEW i \in DOMAIN runs, SaveOutputs(SpecOf(i))
  PROVE  SpecOf(i) \in Specs /\ runs[i].gen \in Gens
BY SpecFields DEF RunsInv, SpecsOfUsers, SpecOf

(* The outputs are those of the generation once its apply has settled.     *)
LEMMA OutputsRead ==
  ASSUME NEW gen \in Gens, infra.config = gen, NEW s
  PROVE  [key \in {k \in Outputs : Kept(s, k)} |-> infra.config] = WantedOutputs(s, gen)
<1>1. Outputs = OutputsOf[gen]
  BY DEF Outputs
<1>2. {k \in Outputs : Kept(s, k)}
        = (IF s.outputsToInclude = {} THEN OutputsOf[gen]
           ELSE OutputsOf[gen] \cap s.outputsToInclude) \ s.outputsToOmit
  BY <1>1 DEF Kept
<1> QED
  BY <1>2 DEF WantedOutputs

LEMMA ScriptSavedOutputs ==
  ASSUME SecretsApart, AppliedInvariant, SavedOutputs, NEW i \in DOMAIN runs, ScriptOf(i)
  PROVE  SavedOutputs'
<1> USE DEF AppliedInvariant
<1>1. /\ specs' = specs /\ stage' = stage /\ resource' = resource
      /\ DOMAIN runs' = DOMAIN runs /\ runs[i].result = "running"
      /\ \A k \in DOMAIN runs :
           /\ runs'[k].gen = runs[k].gen /\ runs'[k].task = runs[k].task
           /\ k # i => runs'[k].result = runs[k].result
  BY ScriptRuns
<1>2. \A k \in DOMAIN runs : SpecOf(k)' = SpecOf(k)
  BY <1>1 DEF SpecOf
<1> SUFFICES ASSUME resource.uid # 0, NEW k \in DOMAIN runs, NEW s, NEW gen, s = SpecOf(k),
                    gen = runs[k].gen, gen = stage.gen, runs[k].task = "apply", SaveOutputs(s)
             PROVE  /\ runs'[k].result = "succeeded" =>
                         secrets'[OutputsSecretName(s, gen)] = WantedOutputs(s, gen)
                    /\ k \in DOMAIN saving' /\ saving'[k] # <<>> =>
                         saving'[k][1] = WantedOutputs(s, gen)
  <2>1. \A k \in DOMAIN runs : SpecOf(k)' = SpecOf(k) /\ runs'[k].gen = runs[k].gen
    BY <1>1, <1>2
  <2>2. \A k \in DOMAIN runs : SaveOutputs(SpecOf(k))' <=> SaveOutputs(SpecOf(k))
    BY <2>1 DEF SaveOutputs
  <2>3. \A k \in DOMAIN runs :
          /\ OutputsSecretName(SpecOf(k), runs[k].gen)' = OutputsSecretName(SpecOf(k), runs[k].gen)
          /\ WantedOutputs(SpecOf(k), runs[k].gen)' = WantedOutputs(SpecOf(k), runs[k].gen)
    BY <2>1 DEF OutputsSecretName, WantedOutputs
  <2> QED
    BY <1>1, <2>1, <2>2, <2>3 DEF SavedOutputs
<1>3. /\ runs[k].result = "succeeded" =>
           secrets[OutputsSecretName(s, gen)] = WantedOutputs(s, gen)
      /\ k \in DOMAIN saving /\ saving[k] # <<>> => saving[k][1] = WantedOutputs(s, gen)
  BY DEF SavedOutputs
<1>4. s \in Specs /\ gen \in Gens
  BY SpecsThatSave
<1>5. CASE PatchSecret(i)
  <2>1. /\ i \in DOMAIN saving /\ saving[i] # <<>> /\ runs[i].task = "apply"
        /\ secrets' = [secrets EXCEPT ![OutputsSecretName(SpecOf(i), runs[i].gen)] = saving[i][1]]
        /\ saving' = saving /\ SaveOutputs(SpecOf(i))
    BY <1>5 DEF PatchSecret, AppliedInv, SavingRuns
  <2>2. SpecOf(i) \in Specs /\ runs[i].gen \in Gens
    BY <2>1, SpecsThatSave
  <2>3. DOMAIN secrets = SecretNames /\ OutputsSecretName(s, gen) \in SecretNames
    BY <1>4 DEF ScriptTypes, SecretNames
  <2>4. CASE runs[i].gen = gen
    <3>1. SpecOf(i) = s
      BY <2>4 DEF SpecOf
    <3>2. saving[i][1] = WantedOutputs(s, gen)
      BY <2>1, <2>4, <3>1 DEF SavedOutputs
    <3>3. secrets'[OutputsSecretName(s, gen)] = saving[i][1]
      BY <2>1, <2>3, <2>4, <3>1
    <3> QED
      BY <1>3, <2>1, <3>2, <3>3
  <2>5. CASE runs[i].gen # gen
    <3>1. OutputsSecretName(SpecOf(i), runs[i].gen) # OutputsSecretName(s, gen)
      BY <1>4, <2>1, <2>2, <2>5 DEF SecretsApart
    <3>2. secrets'[OutputsSecretName(s, gen)] = secrets[OutputsSecretName(s, gen)]
      BY <2>1, <2>3, <3>1
    <3>3. k # i
      BY <2>5
    <3> QED
      BY <1>1, <1>3, <2>1, <3>2, <3>3
  <2> QED
    BY <2>4, <2>5
<1>6. CASE ~PatchSecret(i)
  <2>1. secrets' = secrets
    BY <1>6 DEF ScriptOf, SetUp, SetUpStops, TerraformInit, Noop, TerraformPlan, Approve,
      TerraformApply, TerraformAppliesInPart, TerraformRefuses, ReadOutputs, ScriptStops,
      NothingToDo, scriptVars
  <2>2. runs'[k].result = "succeeded" => runs[k].result = "succeeded"
    <3> SUFFICES ASSUME k = i, runs'[i].result = "succeeded" PROVE FALSE
      BY <1>1
    <3>1. TerraformApply(i)
      BY <1>6, ApplySucceeds DEF PlanInv, ApplyTasks
    <3>2. UNCHANGED workflowVars
      BY <3>1 DEF TerraformApply
    <3> QED
      BY <1>1, <3>2 DEF workflowVars
  <2>3. k \in DOMAIN saving' /\ saving'[k] # <<>> => saving'[k][1] = WantedOutputs(s, gen)
    <3>1. CASE ReadOutputs(i)
      <4> DEFINE data == [key \in {o \in Outputs : Kept(SpecOf(i), o)} |-> infra.config]
      <4>1. i \in DOMAIN saving /\ saving' = [saving EXCEPT ![i] = <<data>>]
        BY <3>1 DEF ReadOutputs
      <4>2. CASE k = i
        <5>1. IsSaving(i)
          BY <1>1, <4>1, <4>2 DEF IsSaving
        <5>2. infra.config = gen
          BY <4>2, <5>1 DEF AppliedInv, AppliedStage, Settled
        <5>3. data = WantedOutputs(s, gen)
          BY <1>4, <4>2, <5>2, OutputsRead
        <5> HIDE DEF data
        <5> QED
          BY <4>1, <4>2, <5>3
      <4>3. CASE k # i
        <5> HIDE DEF data
        <5> QED
          BY <1>3, <4>1, <4>3
      <4> QED
        BY <4>2, <4>3
    <3>2. CASE TerraformApply(i)
      <4>1. \/ saving' = saving
            \/ saving' = [j \in DOMAIN saving \cup {i} |-> IF j = i THEN <<>> ELSE saving[j]]
        BY <3>2 DEF TerraformApply
      <4> QED
        BY <1>3, <4>1
    <3>3. CASE ~ReadOutputs(i) /\ ~TerraformApply(i)
      <4>1. saving' = saving
        BY <1>6, <3>3 DEF ScriptOf, SetUp, SetUpStops, TerraformInit, Noop, TerraformPlan,
          Approve, TerraformAppliesInPart, TerraformRefuses, ScriptStops, NothingToDo, scriptVars
      <4> QED
        BY <1>3, <4>1
    <3> QED
      BY <3>1, <3>2, <3>3
  <2> QED
    BY <1>3, <2>1, <2>2, <2>3
<1> QED
  BY <1>5, <1>6

LEMMA OthersSavedOutputs ==
  ASSUME AppliedInvariant, SavedOutputs,
         \/ CreateResource \/ EditSpec \/ DeleteResource \/ NewStage \/ NextStage \/ StartRun
         \/ CompleteWorkflow \/ ResourceGone \/ UNCHANGED vars
  PROVE  SavedOutputs'
<1> USE DEF AppliedInvariant
<1>1. secrets' = secrets /\ saving' = saving
  BY DEF CreateResource, EditSpec, DeleteResource, NewStage, NextStage, StartRun,
    CompleteWorkflow, ResourceGone, NoScript, vars, scriptVars
<1>2. ASSUME NEW k \in DOMAIN runs', resource'.uid # 0, runs'[k].gen = stage'.gen,
             k \in DOMAIN runs => /\ runs'[k] = runs[k] /\ resource.uid # 0
                                  /\ stage'.gen = stage.gen
                                  /\ specs'[runs[k].gen] = specs[runs[k].gen],
             k \notin DOMAIN runs => runs'[k].result = "running",
             NEW s, NEW gen, s = SpecOf(k)', gen = runs'[k].gen, runs'[k].task = "apply",
             SaveOutputs(s)
      PROVE  /\ runs'[k].result = "succeeded" =>
                  secrets'[OutputsSecretName(s, gen)] = WantedOutputs(s, gen)
             /\ k \in DOMAIN saving' /\ saving'[k] # <<>> =>
                  saving'[k][1] = WantedOutputs(s, gen)
  <2>1. CASE k \in DOMAIN runs
    <3>1. s = SpecOf(k) /\ gen = runs[k].gen /\ runs'[k] = runs[k] /\ gen = stage.gen
      BY <1>2, <2>1 DEF SpecOf
    <3> QED
      BY <1>1, <1>2, <2>1, <3>1 DEF SavedOutputs
  <2>2. CASE k \notin DOMAIN runs
    <3>1. k \notin DOMAIN saving
      BY <2>2 DEF AppliedInv, SavingRuns
    <3> QED
      BY <1>1, <1>2, <2>2, <3>1
  <2> QED
    BY <2>1, <2>2
<1>3. ASSUME NEW k \in DOMAIN runs', resource'.uid # 0, runs'[k].gen = stage'.gen
      PROVE  /\ k \in DOMAIN runs => /\ runs'[k] = runs[k] /\ resource.uid # 0
                                     /\ stage'.gen = stage.gen
                                     /\ specs'[runs[k].gen] = specs[runs[k].gen]
             /\ k \notin DOMAIN runs => runs'[k].result = "running"
  <2>1. CASE CreateResource
    <3>1. DOMAIN runs' = {}
      BY <2>1 DEF CreateResource, Create, RunsInv, TypeInv
    <3> QED
      BY <1>3, <3>1
  <2>2. CASE EditSpec \/ DeleteResource
    <3>1. resource.uid # 0
      BY <2>2 DEF EditSpec, Edit, DeleteResource, Delete
    <3> QED
      BY <1>3, <2>2, <3>1, SpecsOfRunsStay
  <2>3. CASE NewStage
    <3>1. PICK gen \in stage.gen + 1..resource.gen : \E task \in {"setup", "setup-delete"} :
            Enter(gen, task)
      BY <2>3 DEF NewStage, NewGeneration
    <3>2. /\ resource' = resource /\ runs' = runs /\ stage'.gen = gen
      BY <3>1 DEF Enter
    <3>3. gen > stage.gen /\ gen \in Nat /\ stage.gen \in Nat
      BY <3>1 DEF TypeInv, StageOf, Resource
    <3>4. \A j \in DOMAIN runs : runs[j].gen # gen
      BY <1>3, <3>2, <3>3 DEF RunsInv, Gens
    <3> QED
      BY <1>3, <3>2, <3>4
  <2>4. CASE NextStage
    <3>1. resource' = resource /\ runs' = runs /\ stage'.gen = stage.gen
      BY <2>4, NextStageFacts DEF NextStage
    <3> QED
      BY <1>3, <2>4, <3>1 DEF NextStage
  <2>5. CASE StartRun
    <3>1. /\ DOMAIN runs' = DOMAIN runs \cup {Len(runs) + 1} /\ resource' = resource
          /\ \A j \in DOMAIN runs : runs'[j] = runs[j]
          /\ runs'[Len(runs) + 1].result = "running" /\ stage' = stage
      BY <2>5, StartFacts DEF StartRun
    <3> QED
      BY <1>3, <2>5, <3>1 DEF StartRun
  <2>6. CASE CompleteWorkflow \/ UNCHANGED vars
    <3>1. resource' = resource /\ runs' = runs /\ stage' = stage /\ specs' = specs
      BY <2>6 DEF CompleteWorkflow, Complete, vars, workflowVars, scriptVars
    <3> QED
      BY <1>3, <3>1
  <2>7. CASE ResourceGone
    <3>1. resource'.uid = 0
      BY <2>7 DEF ResourceGone, Gone, NoResource
    <3> QED
      BY <1>3, <3>1
  <2> QED
    BY <2>1, <2>2, <2>3, <2>4, <2>5, <2>6, <2>7
<1> QED
  BY <1>2, <1>3 DEF SavedOutputs

(* Once completed, the run that applied its generation has saved them.     *)
LEMMA CompletedIsSaved ==
  ASSUME AppliedInvariant, SavedOutputs, NEW s, s = specs[stage.gen], SaveOutputs(s),
         resource.uid # 0, InState(resource.uid, stage.gen, "apply", "succeeded")
  PROVE  /\ secrets[OutputsSecretName(s, stage.gen)] = WantedOutputs(s, stage.gen)
         /\ \E i \in DOMAIN runs : runs[i].gen = stage.gen
<1>1. PICK i \in DOMAIN runs :
        /\ runs[i].gen = stage.gen /\ runs[i].task = "apply" /\ runs[i].result = "succeeded"
  BY DEF InState, IsRunOf, AppliedInvariant, TypeInv
<1>2. SpecOf(i) = s
  BY <1>1 DEF SpecOf
<1> QED
  BY <1>1, <1>2 DEF SavedOutputs

LEMMA ShowIsData ==
  ASSUME NEW old, NEW s, NEW gen
  PROVE  Show(old, WantedOutputs(s, gen)) = WantedOutputs(s, gen)
BY DEF Show, WantedOutputs

LEMMA OutputsAreShownNext ==
  ASSUME AppliedInvariant, SavedOutputs, OutputsAreShown, [ScriptsNext]_vars
  PROVE  OutputsAreShown'
<1> USE DEF AppliedInvariant
<1>1. ASSUME completed' => /\ completed /\ stage' = stage /\ specs'[stage.gen] = specs[stage.gen]
                           /\ shown' = shown /\ misread' = misread
      PROVE  OutputsAreShown'
  BY <1>1 DEF OutputsAreShown, WantedOutputs
<1>2. CASE CreateResource \/ EditSpec \/ DeleteResource
  <2>1. /\ completed' = completed /\ stage' = stage /\ shown' = shown /\ misread' = misread
    BY <1>2 DEF CreateResource, Create, EditSpec, Edit, DeleteResource, Delete
  <2>2. completed => \E i \in DOMAIN runs : runs[i].gen = stage.gen
    BY DEF AppliedInv, CompletedStage, InState, IsRunOf, TypeInv
  <2>3. completed => specs'[stage.gen] = specs[stage.gen]
    BY <1>2, <2>2, SpecsOfRunsStay
  <2> QED
    BY <1>1, <2>1, <2>3
<1>3. CASE NewStage \/ ResourceGone
  <2>1. completed' = FALSE
    BY <1>3 DEF NewStage, NewGeneration, ResourceGone, Gone
  <2> QED
    BY <1>1, <2>1
<1>4. CASE NextStage \/ StartRun
  <2>1. completed' = completed /\ stage.task # RunNil
    BY <1>4, NextStageFacts DEF NextStage, Advance, Replan, StartRun, Start
  <2>2. ~completed
    BY <2>1 DEF AppliedInv, CompletedStage
  <2> QED
    BY <1>1, <2>1, <2>2
<1>5. CASE UNCHANGED vars
  BY <1>1, <1>5 DEF vars, workflowVars, scriptVars
<1>6. ASSUME NEW i \in DOMAIN runs, ScriptOf(i) PROVE OutputsAreShown'
  <2>1. shown' = shown /\ misread' = misread
    BY <1>6 DEF ScriptOf, SetUp, SetUpStops, TerraformInit, Noop, TerraformPlan, Approve,
      TerraformApply, TerraformAppliesInPart, TerraformRefuses, ReadOutputs, PatchSecret,
      ScriptStops, NothingToDo, scriptVars
  <2> QED
    BY <1>1, <1>6, <2>1, ScriptRuns
<1>7. CASE CompleteWorkflow
  <2>1. stage' = stage /\ specs' = specs
    BY <1>7 DEF CompleteWorkflow, Complete
  <2> SUFFICES ASSUME NEW s, s = specs[stage.gen], s.writeOutputsToStatus, ~misread'
               PROVE  shown' = WantedOutputs(s, stage.gen)
    BY <2>1 DEF OutputsAreShown, WantedOutputs
  <2>2. "apply" \in ConfiguredTasks \cap CreateTasks
    BY OneApplyTask, CreateTaskIDs
  <2>3. InState(resource.uid, stage.gen, "apply", "succeeded")
    BY <1>7, <2>2 DEF CompleteWorkflow, Complete
  <2>4. resource.uid # 0
    BY <2>3 DEF InState, IsRunOf, RunsInv, TypeInv
  <2>5. SaveOutputs(s)
    BY DEF SaveOutputs
  <2>6. secrets[OutputsSecretName(s, stage.gen)] = WantedOutputs(s, stage.gen)
    BY <2>3, <2>4, <2>5, CompletedIsSaved
  <2>7. shown' = Show(shown, secrets[OutputsSecretName(s, stage.gen)])
    BY <1>7 DEF CompleteWorkflow
  <2> QED
    BY <2>6, <2>7, ShowIsData
<1> QED
  BY <1>2, <1>3, <1>4, <1>5, <1>6, <1>7 DEF ScriptsNext, ScriptOf, Runs

LEMMA OutputsInvInit == ScriptsInit => OutputsInv
<1>1. ScriptsInit => DOMAIN runs = {} /\ completed = FALSE
  BY DEF ScriptsInit, Init
<1> QED
  BY <1>1, AppliedInit DEF OutputsInv, SavedOutputs, OutputsAreShown

LEMMA OutputsInvNext ==
  ASSUME SecretsApart, OutputsInv, [ScriptsNext]_vars
  PROVE  OutputsInv'
<1>1. AppliedInvariant'
  BY AppliedNext DEF OutputsInv
<1>2. ASSUME NEW i \in DOMAIN runs, ScriptOf(i) PROVE SavedOutputs'
  BY <1>2, ScriptSavedOutputs DEF OutputsInv
<1>3. SavedOutputs'
  BY <1>2, OthersSavedOutputs DEF OutputsInv, ScriptsNext, ScriptOf, Runs
<1>4. OutputsAreShown'
  BY OutputsAreShownNext DEF OutputsInv
<1> QED
  BY <1>1, <1>3, <1>4 DEF OutputsInv

(* Once completed, the secret holds the outputs of its generation that the *)
(* spec lets through, when every generation has a secret of its own        *)
(* (the apply branch of tf.sh).                                            *)
THEOREM OutputsWereSaved ==
  ASSUME SecretsApart
  PROVE  ScriptsSpec => []OutputsAreSaved
<1>1. OutputsInv => OutputsAreSaved
  BY CompletedIsSaved DEF OutputsInv, OutputsAreSaved, AppliedInvariant, AppliedInv, CompletedStage
<1>2. OutputsInv /\ [ScriptsNext]_vars => OutputsInv'
  BY OutputsInvNext
<1> QED
  BY <1>1, <1>2, OutputsInvInit, PTL DEF ScriptsSpec

(* And the status shows the same, unless the secret was misread (the end   *)
(* of the workflow in Reconcile).                                          *)
THEOREM OutputsWereShown ==
  ASSUME SecretsApart
  PROVE  ScriptsSpec => []OutputsAreShown
<1>1. OutputsInv => OutputsAreShown
  BY DEF OutputsInv
<1>2. OutputsInv /\ [ScriptsNext]_vars => OutputsInv'
  BY OutputsInvNext
<1> QED
  BY <1>1, <1>2, OutputsInvInit, PTL DEF ScriptsSpec

-----------------------------------------------------------------------------
(* The names of up to ten var files sort by their indices, so terraform    *)
(* gets the files as they came, those of the spec last.                    *)
LEMMA NamesInOrder ==
  ASSUME NEW j \in 1..10, NEW k \in 1..10
  PROVE  SortedBefore(NameOf(j), NameOf(k)) <=> j < k
<1>1. ASSUME NEW i \in 1..10 PROVE NameOf(i) = <<i - 1, 10>>
  BY <1>1 DEF NameOf, FileIndex
<1> QED
  BY <1>1 DEF SortedBefore

LEMMA EarlierFiles ==
  ASSUME NEW n \in 0..10, NEW k \in 1..n
  PROVE  Cardinality(Earlier(1..n, k)) = k - 1
<1>1. Earlier(1..n, k) = 1..(k - 1)
  BY NamesInOrder DEF Earlier
<1>2. Cardinality(1..(k - 1)) = k - 1
  BY FS_Interval
<1> QED
  BY <1>1, <1>2

LEMMA FileNumbers ==
  ASSUME NEW files \in Seq(Nat), Len(files) <= 10
  PROVE  \E n \in 0..10 : /\ DOMAIN files = 1..n
                          /\ files = [m \in 1..n |-> files[m]]
<1>1. Len(files) \in Nat /\ DOMAIN files = 1..Len(files)
  BY LenProperties
<1>2. files = [m \in 1..Len(files) |-> files[m]]
  BY <1>1
<1>3. ASSUME NEW n \in Nat, n <= 10 PROVE n \in 0..10
  BY <1>3
<1> QED
  BY <1>1, <1>2, <1>3, Zenon

LEMMA VarFilesAsTheyCame ==
  ASSUME NEW dir, NEW files \in Seq(Nat), files = dir.vars, Len(files) <= 10
  PROVE  VarFiles(dir) = files
<1> DEFINE Nth(names, m) == CHOOSE k \in names : Cardinality(Earlier(names, k)) = m - 1
<1>1. PICK n \in 0..10 : DOMAIN files = 1..n /\ files = [m \in 1..n |-> files[m]]
  BY FileNumbers
<1>2. ASSUME NEW m \in 1..n PROVE Nth(1..n, m) = m
  <2>1. ASSUME NEW k \in 1..n PROVE Cardinality(Earlier(1..n, k)) = k - 1
    BY EarlierFiles
  <2>2. ASSUME NEW k \in 1..n PROVE k - 1 = m - 1 <=> k = m
    OBVIOUS
  <2>3. \A k \in 1..n : Cardinality(Earlier(1..n, k)) = m - 1 <=> k = m
    BY <2>1, <2>2, Zenon
  <2> QED
    BY <2>3, Zenon
<1>3. VarFiles(dir) = [m \in DOMAIN files |-> files[Nth(DOMAIN files, m)]]
  BY DEF VarFiles
<1> HIDE DEF Nth
<1>4. VarFiles(dir) = [m \in 1..n |-> files[m]]
  BY <1>1, <1>2, <1>3
<1> QED
  BY <1>1, <1>4

LEMMA SuffixOfFiles ==
  ASSUME NEW files \in Seq(Nat), NEW n \in Nat, EndsWith(files, n)
  PROVE  IsSuffix(Numbers(n), files)
<1> DEFINE s == Numbers(n)
<1>1. PICK m \in Nat : Len(files) = m + n /\ \A k \in 1..n : files[m + k] = k
  BY DEF EndsWith
<1>2. Len(s) = n /\ s \in Seq(Nat) /\ \A k \in 1..n : s[k] = k
  BY DEF Numbers
<1> HIDE DEF s
<1>3. /\ Reverse(s) = [i \in 1..n |-> s[(n - i) + 1]]
      /\ Reverse(files) = [i \in 1..(m + n) |-> files[((m + n) - i) + 1]]
  BY <1>1, <1>2 DEF Reverse
<1>4. /\ Len(Reverse(s)) = n /\ Len(Reverse(files)) = m + n
      /\ Reverse(s) \in Seq(Nat) /\ Reverse(files) \in Seq(Nat)
  <2>1. \A i \in 1..n : s[(n - i) + 1] \in Nat
    BY <1>2
  <2>2. \A i \in 1..(m + n) : files[((m + n) - i) + 1] \in Nat
    BY <1>1
  <2> QED
    BY <1>3, <2>1, <2>2
<1>5. \A i \in 1..n : Reverse(s)[i] = (n - i) + 1 /\ Reverse(files)[i] = (n - i) + 1
  <2> SUFFICES ASSUME NEW i \in 1..n
               PROVE  Reverse(s)[i] = (n - i) + 1 /\ Reverse(files)[i] = (n - i) + 1
    OBVIOUS
  <2>1. (n - i) + 1 \in 1..n /\ ((m + n) - i) + 1 = m + ((n - i) + 1) /\ i \in 1..(m + n)
    OBVIOUS
  <2> QED
    BY <1>1, <1>2, <1>3, <2>1
<1>6. SubSeq(Reverse(s), 1, n) = SubSeq(Reverse(files), 1, n)
  BY <1>4, <1>5
<1> QED
  BY <1>4, <1>6 DEF IsSuffix, IsPrefix, s

(* A plan gets the var files in the order of the spec, for any numbers of  *)
(* files and of set ups that stopped half-way, up to ten files: a module   *)
(* is initialized after a set up that got them all (setup.sh's             *)
(* add_file_as_next_index, tf.sh).                                         *)
THEOREM PlanGetsVarFilesInOrder == ScriptsSpec => []VarFilesInOrder
<1>1. AppliedInvariant => VarFilesInOrder
  <2> SUFFICES ASSUME AppliedInvariant, NEW g \in Gens, disk[g].initialized,
                      Len(disk[g].vars) <= 10
               PROVE  IsSuffix(Numbers(specs[g].varFiles), VarFiles(disk[g]))
    BY DEF VarFilesInOrder
  <2>1. /\ disk[g].vars \in Seq(Nat) /\ specs[g].varFiles \in Nat
        /\ EndsWith(disk[g].vars, specs[g].varFiles)
    BY DEF AppliedInvariant, AppliedInv, Dirs, SpecsOfUsers
  <2> QED
    BY <2>1, VarFilesAsTheyCame, SuffixOfFiles
<1> QED
  BY <1>1, AppliedIsInvariant, PTL

=============================================================================
