------------------------------- MODULE TaskPods ------------------------------
(***************************************************************************)
(* The pods and the plugin jobs of a workflow.  Workflow says which stage  *)
(* is run next; here the call that runs it goes through the plugins in the *)
(* order of a Go map, makes the sidecars, generates the pod, and on its    *)
(* way out runs the createPluginJob calls it has deferred, whose           *)
(* goroutines create the jobs when they get to it.  The first call of a    *)
(* generation starts a reaper of the plugin jobs of older generations.     *)
(***************************************************************************)
EXTENDS Workflow, PodGeneration

CONSTANTS Specs,            \* the specs users write
          MaxGen, MaxReapers, MaxCrashes   \* bounds

(* The script tasks that run are those the task options name.              *)
ASSUME SpecsAssumption ==
  \A s \in Specs :
    /\ s.taskOptions \in Seq(TaskOption)
    /\ GetConfiguredTasks(TasksOf(s)) \cap TaskName = ConfiguredTasks
    /\ s.plugins \in [DOMAIN s.plugins -> Plugin] /\ DOMAIN s.plugins \subseteq PluginNames
    /\ s.requireApproval \in BOOLEAN

ASSUME BoundsAssumption ==
  MaxGen \in Nat \ {0} /\ MaxReapers \in Nat /\ MaxCrashes \in Nat

VARIABLES
  spec,       \* the resource's spec
  started,    \* status.pluginsStarted
  configMaps, \* the data of the ConfigMap of each generation
  pod,        \* the pod of the last run
  call,       \* the running call: its copy of the spec and what it deferred
  creators,   \* the goroutines that are to create a job
  jobs,       \* the plugin jobs in the cluster
  reapers,    \* the reapPlugins goroutines: -1 not there, 0 started, or the
              \* generation read
  crashes     \* failures so far

podVars == <<spec, started, configMaps, pod, call, creators, jobs, reapers, crashes>>
vars == <<workflowVars, podVars>>

Idle == [spec |-> EmptySpec, gen |-> 0, due |-> <<>>, spawned |-> FALSE]

(* at: the stage that started it; after: the task it is to run after;      *)
(* valid: its pod can be generated; late: its generation was over when it  *)
(* was created.                                                            *)
Job == [plugin: PluginNames, gen: Nat, at: TaskName, after: TaskName \cup {RunNil},
        valid: BOOLEAN, late: BOOLEAN]

Gens == 1..MaxGen

TypeOK ==
  /\ TypeInv
  /\ spec \in Specs \cup {EmptySpec} /\ started \subseteq PluginNames
  /\ DOMAIN configMaps \subseteq Gens
  /\ \A j \in jobs \cup creators : j \in Job
  /\ reapers \in [1..MaxReapers -> {-1, 0} \cup Gens]
  /\ crashes \in 0..MaxCrashes

PodsInit ==
  /\ Init
  /\ spec = EmptySpec /\ started = {} /\ configMaps = <<>> /\ pod = NoPod
  /\ call = Idle /\ creators = {} /\ jobs = {}
  /\ reapers = [i \in 1..MaxReapers |-> -1] /\ crashes = 0

-----------------------------------------------------------------------------
(* The users.                                                              *)
CreateResource ==
  /\ resource' = [uid |-> 1, gen |-> 1, deleting |-> FALSE] /\ Create
  /\ spec' \in Specs
  /\ UNCHANGED <<started, configMaps, pod, call, creators, jobs, reapers, crashes>>

EditSpec ==
  /\ resource.gen < MaxGen /\ Edit
  /\ spec' \in Specs
  /\ UNCHANGED <<started, configMaps, pod, call, creators, jobs, reapers, crashes>>

DeleteResource == resource.gen < MaxGen /\ Delete /\ UNCHANGED podVars

-----------------------------------------------------------------------------
(***************************************************************************)
(* The controller's calls, up to the one that runs a stage.  A call that   *)
(* sees a new generation starts its workflow, whatever pod runs (the hold  *)
(* of an uninterruptible stage ends when its pod is found); the plugins    *)
(* may start again unless it was the deletion that made the generation.    *)
(***************************************************************************)
InCall == call.due # <<>>
WorkedOn == stage.gen = resource.gen

NewStage ==
  /\ ~InCall /\ ~WorkedOn
  /\ stage' = [gen |-> resource.gen, task |-> IF resource.deleting THEN "setup-delete" ELSE "setup"]
  /\ NewGeneration
  /\ started' = IF resource.deleting THEN started ELSE {}
  /\ UNCHANGED <<spec, configMaps, pod, call, creators, jobs, reapers, crashes>>

NextStage == ~InCall /\ WorkedOn /\ Advance /\ UNCHANGED podVars

EndWorkflow == ~InCall /\ WorkedOn /\ Complete /\ UNCHANGED podVars

(* The jobs are owned by the resource and go with it.                      *)
ResourceGone ==
  /\ ~InCall /\ WorkedOn /\ Gone
  /\ jobs' = {}
  /\ UNCHANGED <<spec, started, configMaps, pod, call, creators, reapers, crashes>>

-----------------------------------------------------------------------------
(* A bug: an After plugin starts with its task.                            *)
IsDueTooEarly(s, p, task) ==
  LET plugin == s.plugins[p]
  IN  \/ plugin.when = "After" /\ ID(plugin.task) <= ID(task)
      \/ plugin.when = "At" /\ ID(plugin.task) = ID(task)

(* The plugins the stage is due to start or to take into its pod.          *)
IsDue(s, p, task) ==
  LET plugin == s.plugins[p]
  IN  \/ plugin.when = "After" /\ ID(plugin.task) < ID(task)
      \/ plugin.when = "At" /\ ID(plugin.task) = ID(task)

IsSidecar(s, p, task) ==
  s.plugins[p].when = "Sidecar" /\ ID(s.plugins[p].task) = ID(task)

(* One plugin of the loop.  A sidecar that must be there and cannot be     *)
(* generated ends the call; one whose container's name is taken is left    *)
(* out.                                                                    *)
NamesOf(sidecars) == UNION {ContainerNames(sidecars[i]) : i \in DOMAIN sidecars}

AddSidecar(sidecars, new) ==
  IF ContainerNames(new) \cap NamesOf(sidecars) # {} THEN sidecars
  ELSE Append(sidecars, new)

AddPlugin(s, task, acc, p) ==
  LET sidecar == GetPluginSidecarPod(s, p, resource.gen)
  IN  IF acc.failed THEN acc
      ELSE IF IsDue(s, p, task) THEN [acc EXCEPT !.due = Append(@, p)]
      ELSE IF ~IsSidecar(s, p, task) THEN acc
      ELSE IF sidecar # NoPod THEN [acc EXCEPT !.sidecars = AddSidecar(@, sidecar)]
      ELSE [acc EXCEPT !.failed = s.plugins[p].must]

(* A bug: only the create workflow is held.                                *)
AddApproverToCreates(s, task, acc) ==
  IF acc.failed \/ ~s.requireApproval \/ task # "plan" THEN acc
  ELSE [acc EXCEPT !.sidecars = AddSidecar(@, ApproverPod(s, resource.gen))]

(* The sidecar that holds a plan until it is approved.                     *)
AddApprover(s, task, acc) ==
  LET sidecar == ApproverPod(s, resource.gen)
  IN  IF acc.failed \/ ~s.requireApproval \/ task \notin {"plan", "plan-delete"} THEN acc
      ELSE IF sidecar = NoPod THEN [acc EXCEPT !.failed = TRUE]
      ELSE [acc EXCEPT !.sidecars = AddSidecar(@, sidecar)]

NoPlugins == [sidecars |-> <<>>, due |-> <<>>, failed |-> FALSE]

AddPlugins(s, task, order) ==
  FoldLeft(LAMBDA acc, p : AddPlugin(s, task, acc, p), NoPlugins, order)

Plugins(s, task, order) == AddApprover(s, task, AddPlugins(s, task, order))

-----------------------------------------------------------------------------
(***************************************************************************)
(* The call that runs the stage.  setupAndRun starts the reaper and makes  *)
(* the ConfigMap on the first pod of a generation, before generatePod may  *)
(* find the volumes wrong; the deferred calls run however the call ends.   *)
(***************************************************************************)
IsChanged == stage.task \in SetupTasks

StartReaper ==
  IF ~IsChanged THEN UNCHANGED reapers
  ELSE \E i \in 1..MaxReapers :
         /\ reapers[i] = -1 /\ \A j \in 1..i - 1 : reapers[j] # -1
         /\ reapers' = [reapers EXCEPT ![i] = 0]

CreateConfigMap ==
  configMaps' = IF ~IsChanged THEN configMaps
                ELSE [gen \in DOMAIN configMaps \cup {resource.gen} |->
                        IF gen = resource.gen THEN ConfigMapData(spec) ELSE configMaps[gen]]

CreatePod(new) ==
  IF new = NoPod THEN UNCHANGED <<workflowVars, pod>>
  ELSE Start /\ pod' = new

RunStage ==
  /\ ~InCall /\ WorkedOn /\ resource.uid # 0 /\ stage.task # RunNil
  /\ ~\E i \in DOMAIN runs : IsRunOf(runs[i], resource.uid, stage.gen, stage.task)
                             /\ runs[i].result # "lost"
  /\ \E order \in SetToSeqs(DOMAIN spec.plugins \ started) :
       LET plugins == Plugins(spec, stage.task, order)
       IN  /\ IF plugins.failed THEN UNCHANGED <<workflowVars, pod, configMaps, reapers>>
              ELSE /\ CreatePod(GeneratePod(NewTaskOptions(spec, stage.task, resource.gen),
                                            plugins.sidecars))
                   /\ StartReaper /\ CreateConfigMap
           /\ call' = IF plugins.due = <<>> THEN Idle
                      ELSE [spec |-> spec, gen |-> resource.gen, due |-> plugins.due,
                            spawned |-> FALSE]
  /\ UNCHANGED <<spec, started, creators, jobs, crashes>>

(* createPluginJob, the last one deferred first: a goroutine, then the     *)
(* status.                                                                 *)
Spawn ==
  /\ InCall /\ ~call.spawned
  /\ LET p == Last(call.due)
         plugin == call.spec.plugins[p]
     IN  creators' = creators \cup
           {[plugin |-> p, gen |-> call.gen, at |-> stage.task, late |-> FALSE,
             after |-> IF plugin.when = "After" THEN plugin.task ELSE RunNil,
             valid |-> GetPluginSidecarPod(call.spec, p, call.gen) # NoPod]}
  /\ call' = [call EXCEPT !.spawned = TRUE]
  /\ UNCHANGED <<workflowVars, spec, started, configMaps, pod, jobs, reapers, crashes>>

(* A bug: the call ends with the first of its deferred calls.              *)
RecordLastOnly ==
  /\ InCall /\ call.spawned
  /\ started' = started \cup {Last(call.due)}
  /\ call' = Idle
  /\ UNCHANGED <<workflowVars, spec, configMaps, pod, creators, jobs, reapers, crashes>>

RecordStarted ==
  /\ InCall /\ call.spawned
  /\ started' = started \cup {Last(call.due)}
  /\ call' = IF Len(call.due) = 1 THEN Idle
             ELSE [call EXCEPT !.due = Front(@), !.spawned = FALSE]
  /\ UNCHANGED <<workflowVars, spec, configMaps, pod, creators, jobs, reapers, crashes>>

-----------------------------------------------------------------------------
(***************************************************************************)
(* The goroutines.  generateJob drops the error of generatePod and uses    *)
(* the pod that is not there: the controller panics.                       *)
(***************************************************************************)
CreateJob(c) ==
  /\ resource.uid # 0 /\ c.valid
  /\ creators' = creators \ {c}
  /\ jobs' = jobs \cup {[c EXCEPT !.late = stage.gen # c.gen]}
  /\ UNCHANGED <<workflowVars, spec, started, configMaps, pod, call, reapers, crashes>>

Stop ==
  /\ crashes < MaxCrashes /\ crashes' = crashes + 1
  /\ call' = Idle /\ creators' = {} /\ reapers' = [i \in DOMAIN reapers |-> -1]
  /\ UNCHANGED <<workflowVars, spec, started, configMaps, pod, jobs>>

Panic(c) == ~c.valid /\ Stop

Crash == Stop

(* A bug: the reaper is one generation ahead.                              *)
ReaperReadsNext(i) ==
  /\ reapers[i] = 0
  /\ reapers' = [reapers EXCEPT ![i] = resource.gen + 1]
  /\ UNCHANGED <<workflowVars, spec, started, configMaps, pod, call, creators, jobs, crashes>>

ReaperReads(i) ==
  /\ reapers[i] = 0
  /\ reapers' = [reapers EXCEPT ![i] = IF resource.uid = 0 THEN -1 ELSE resource.gen]
  /\ UNCHANGED <<workflowVars, spec, started, configMaps, pod, call, creators, jobs, crashes>>

(* A bug: the jobs of newer generations are reaped.                        *)
Newer(j, gen) == j.gen > gen

Outdated(j, gen) == j.gen # gen

ReaperDeletes(i) ==
  /\ reapers[i] > 0
  /\ jobs' = {j \in jobs : ~Outdated(j, reapers[i])}
  /\ reapers' = [reapers EXCEPT ![i] = -1]
  /\ UNCHANGED <<workflowVars, spec, started, configMaps, pod, call, creators, crashes>>

(* An error is logged; the reaper only tries again while pods match its    *)
(* labels, and the pods of a job have no labels.                           *)
ReaperFails(i) ==
  /\ reapers[i] > 0 /\ crashes < MaxCrashes /\ crashes' = crashes + 1
  /\ reapers' = [reapers EXCEPT ![i] = -1]
  /\ UNCHANGED <<workflowVars, spec, started, configMaps, pod, call, creators, jobs>>

(* The kubelet; a pod may be deleted under way.                            *)
EndRun(i) == End(i, "succeeded") /\ UNCHANGED podVars

LosePod(i) ==
  /\ crashes < MaxCrashes /\ crashes' = crashes + 1
  /\ End(i, "lost")
  /\ UNCHANGED <<spec, started, configMaps, pod, call, creators, jobs, reapers>>

PodsNext ==
  \/ CreateResource \/ EditSpec \/ DeleteResource
  \/ NewStage \/ NextStage \/ EndWorkflow \/ ResourceGone
  \/ RunStage \/ Spawn \/ RecordStarted
  \/ \E c \in creators : CreateJob(c) \/ Panic(c)
  \/ Crash
  \/ \E i \in 1..MaxReapers : ReaperReads(i) \/ ReaperDeletes(i) \/ ReaperFails(i)
  \/ \E i \in 1..Len(runs) : EndRun(i) \/ LosePod(i)

PodsSpec == PodsInit /\ [][PodsNext]_vars

-----------------------------------------------------------------------------
(* A pod can start and is found: every mount of every container, those of  *)
(* the sidecars too, has exactly one volume, no two containers share a     *)
(* name, and the label the controller lists by is not the user's.          *)
PodsAreValid ==
  pod # NoPod =>
    /\ \A c \in DOMAIN pod.containers :
         /\ \A m \in pod.containers[c].mounts :
              Cardinality({v \in pod.volumes : v.name = m}) = 1
         /\ \A d \in DOMAIN pod.containers :
              pod.containers[c].name = pod.containers[d].name => c = d
    /\ pod.labels["generation"] = Last(runs).gen

(* The script file a container is told to execute is in the ConfigMap of   *)
(* its generation, which was filled when the generation began.             *)
ScriptsAreMounted ==
  \A c \in DOMAIN pod.containers :
    LET file == pod.containers[c].file
    IN  file # NoFile => file \in DOMAIN configMaps[pod.gen]

(* Every plan of a resource that requires approval, a destroy plan too,    *)
(* has the approver at its side.                                           *)
PlansAreHeld ==
  pod # NoPod /\ spec.requireApproval
    => \/ pod.gen # resource.gen \/ pod.task \notin {"plan", "plan-delete"}
       \/ Approver \in ContainerNames(pod)

(* "Plugins that are older than the current generation are automatically   *)
(* reaped" (terraform_types.go): once the reapers of a generation are      *)
(* done, a job of an older one was created late by its goroutine, or a     *)
(* reaper was lost or failed.                                              *)
OldJobsWereLate ==
  /\ \A i \in DOMAIN reapers : reapers[i] = -1
  /\ \E i \in DOMAIN runs : runs[i].gen = stage.gen
  /\ crashes = 0
  => \A j \in jobs : j.gen >= stage.gen \/ j.late

(* An After plugin runs "after the defined task has completed", as far as  *)
(* it starts in the workflow of that task.                                 *)
AfterItsTask ==
  resource.uid # 0 => \A j \in jobs \cup creators :
    j.after \in WorkflowOf(j.at) \cap ConfiguredTasks
      => InState(resource.uid, j.gen, j.after, "succeeded")

(* A completed workflow has started every plugin that one of its tasks     *)
(* makes due.                                                              *)
DuePluginsStarted ==
  completed /\ WorkedOn /\ crashes = 0
  => \A p \in DOMAIN spec.plugins :
       (\E t \in ConfiguredTasks \cap CreateTasks : IsDue(spec, p, t)) => p \in started
=============================================================================
