-------------------------- MODULE TerraformController ------------------------
(***************************************************************************)
(* One Terraform resource, the pods of its workflow and the controller     *)
(* that reconciles it.  The users of the cluster create, edit, label and   *)
(* delete the resource and delete pods; the kubelet runs the pods; the     *)
(* garbage collector removes what a deleted resource owned.                *)
(*                                                                         *)
(* A call of Reconcile is split where it talks to the API server: it reads *)
(* the resource (GetResource), takes the one branch its copy asks for, and *)
(* each branch makes its writes one action at a time, so that everything   *)
(* else, a crash included, may happen between two of them.                 *)
(***************************************************************************)
EXTENDS Stages

CONSTANTS
  IgnoreDeletes,      \* the values users give to spec.ignoreDelete
  PluginWhen,         \* [PluginNames -> {"At", "After", "Sidecar"}]
  PluginTask,         \* [PluginNames -> TaskName]
  KeepPods,           \* spec.keepCompletedPods or spec.keepLatestPodsOnly
  DeleteBeforeFirstStage, \* whether users may delete a resource without a stage
  EvictPhases,        \* the phases in which users delete a pod
  EvictRecordedOnly,  \* users delete the stage's pod only once it is recorded failed
  EvictAfterLook,     \* users delete pods also while a call has looked (see below)
  PodLag,             \* whether the pod informer may lag behind a creation
  Faults,             \* the kinds of failure that may happen
  MaxUid, MaxGen, MaxPods, MaxLabels, MaxFailures, MaxEvictions,
  MaxFaults           \* bounds

PodPhases == {"Pending", "Running", "Succeeded", "Failed"}

(* Failures of the controller's environment: a status write that is not    *)
(* confirmed, an update of the resource or the creation of an object that  *)
(* is refused, a delete of pods, a Get or the List of a stage's pods that  *)
(* fails, a crash of the controller.                                       *)
FaultKinds == {"status", "update", "create", "delete", "get", "list", "crash"}

ASSUME IgnoreAssumption == IgnoreDeletes \subseteq BOOLEAN
ASSUME PluginAssumption ==
  /\ PluginWhen \in [PluginNames -> {"At", "After", "Sidecar"}]
  /\ PluginTask \in [PluginNames -> TaskName]
ASSUME BooleanAssumption ==
  {KeepPods, DeleteBeforeFirstStage, EvictRecordedOnly, EvictAfterLook, PodLag}
    \subseteq BOOLEAN
ASSUME FaultAssumption == Faults \subseteq FaultKinds /\ EvictPhases \subseteq PodPhases
ASSUME BoundAssumption ==
  /\ MaxUid \in Nat /\ MaxGen \in Nat /\ MaxPods \in Nat /\ MaxLabels \in Nat
  /\ MaxFailures \in Nat /\ MaxEvictions \in Nat /\ MaxFaults \in Nat

VARIABLES
  meta,      \* the resource's metadata and spec; uid 0 when it does not exist
  status,    \* the resource's status subresource
  uids,      \* incarnations of the resource created so far
  pods,      \* the pods of the workflow, present or gone, by order of creation
  nextPod,
  bundles,   \* the ConfigMap, Secret, Role... of a prefix and generation
  jobs,      \* the plugin jobs created
  queued,    \* the resource is in the controller's work queue
  pc,        \* where the running call of Reconcile is
  tfMeta, tfStatus, \* the variable tf of that call
  looked,    \* the call has looked for the failed apply's pod, and not missed it
  deferred,  \* the plugins whose createPluginJob the call has deferred
  spent      \* how often the bounded events have happened

cluster == <<meta, status, uids, pods, nextPod, bundles, jobs, queued>>
call == <<pc, tfMeta, tfStatus, looked, deferred>>
vars == <<cluster, call, spent>>

PodId == 1..MaxPods

(* prefix, ver and task make up the pod's generateName, gen is its         *)
(* generation label; there: it exists; listed: the informer has seen it.   *)
Pod == [prefix: Nat, owner: Nat, task: TaskName \cup {RunNil}, gen: Nat, ver: Nat,
        phase: PodPhases, there: BOOLEAN, listed: BOOLEAN]

NoPod == [prefix |-> 0, owner |-> 0, task |-> RunNil, gen |-> 0, ver |-> 0,
          phase |-> "Pending", there |-> FALSE, listed |-> FALSE]

NoMeta == [uid |-> 0, gen |-> 0, deleting |-> FALSE, finalizer |-> FALSE,
           ignoreDelete |-> FALSE, label |-> NoLabel]

Bundle == [prefix: Nat, gen: Nat, owner: Nat]

(* again: the job was created after another one for the same plugin and    *)
(* generation.                                                             *)
Job == [plugin: PluginNames, owner: Nat, gen: Nat, again: BOOLEAN]

PCs == {"idle", "read", "restart", "started", "remove", "plugins"}

TypeOK ==
  /\ meta \in Meta
  /\ status \in Status
  /\ uids \in Nat
  /\ pods \in [PodId -> Pod]
  /\ nextPod \in Nat \ {0}
  /\ bundles \in SUBSET Bundle
  /\ jobs \in SUBSET Job
  /\ queued \in BOOLEAN
  /\ pc \in PCs
  /\ tfMeta \in Meta
  /\ tfStatus \in Status
  /\ looked \in BOOLEAN
  /\ deferred \in SUBSET PluginNames
  /\ spent \in [labels: Nat, failures: Nat, evictions: Nat, faults: Nat]

Init ==
  /\ meta = NoMeta /\ status = EmptyStatus /\ uids = 0
  /\ pods = [i \in PodId |-> NoPod] /\ nextPod = 1
  /\ bundles = {} /\ jobs = {}
  /\ queued = FALSE
  /\ pc = "idle" /\ tfMeta = NoMeta /\ tfStatus = EmptyStatus
  /\ looked = FALSE /\ deferred = {}
  /\ spent = [labels |-> 0, failures |-> 0, evictions |-> 0, faults |-> 0]

-----------------------------------------------------------------------------
(***************************************************************************)
(* The users of the cluster.  The API server counts generations: a change  *)
(* of the spec and the deletion of an object that has a finalizer each     *)
(* start a new one, labels and status do not.  Every change of the         *)
(* resource puts it in the work queue.                                     *)
(***************************************************************************)
CreateResource ==
  /\ meta.uid = 0 /\ uids < MaxUid
  /\ uids' = uids + 1
  /\ \E ignore \in IgnoreDeletes, label \in RetryLabels \cup {NoLabel} :
       meta' = [uid |-> uids', gen |-> 1, deleting |-> FALSE, finalizer |-> FALSE,
                ignoreDelete |-> ignore, label |-> label]
  /\ status' = EmptyStatus
  /\ queued' = TRUE
  /\ UNCHANGED <<pods, nextPod, bundles, jobs, call, spent>>

EditSpec ==
  /\ meta.uid # 0 /\ meta.gen < MaxGen
  /\ \E ignore \in IgnoreDeletes :
       meta' = [meta EXCEPT !.gen = @ + 1, !.ignoreDelete = ignore]
  /\ queued' = TRUE
  /\ UNCHANGED <<status, uids, pods, nextPod, bundles, jobs, call, spent>>

SetLabel ==
  /\ meta.uid # 0 /\ spent.labels < MaxLabels
  /\ \E label \in RetryLabels \ {meta.label} : meta' = [meta EXCEPT !.label = label]
  /\ spent' = [spent EXCEPT !.labels = @ + 1]
  /\ queued' = TRUE
  /\ UNCHANGED <<status, uids, pods, nextPod, bundles, jobs, call>>

DeleteResource ==
  /\ meta.uid # 0 /\ ~meta.deleting
  /\ DeleteBeforeFirstStage \/ status.stage.gen # 0
  /\ IF meta.finalizer
     THEN /\ meta' = [meta EXCEPT !.gen = @ + 1, !.deleting = TRUE]
          /\ UNCHANGED status
     ELSE meta' = NoMeta /\ status' = EmptyStatus
  /\ queued' = TRUE
  /\ UNCHANGED <<uids, pods, nextPod, bundles, jobs, call, spent>>

DeletePod(i) ==
  /\ pods[i].there /\ pods[i].phase \in EvictPhases
  /\ EvictRecordedOnly => status.stage.podName = i /\ status.stage.state = "failed"
  /\ looked => EvictAfterLook
  /\ spent.evictions < MaxEvictions
  /\ spent' = [spent EXCEPT !.evictions = @ + 1]
  /\ pods' = [pods EXCEPT ![i].there = FALSE]
  /\ queued' = TRUE
  /\ UNCHANGED <<meta, status, uids, nextPod, bundles, jobs, call>>

-----------------------------------------------------------------------------
(* The kubelet, the garbage collector, the informers.                      *)
SetPhase(i, from, to) ==
  /\ pods[i].there /\ pods[i].phase = from
  /\ pods' = [pods EXCEPT ![i].phase = to]
  /\ queued' = TRUE
  /\ UNCHANGED <<meta, status, uids, nextPod, bundles, jobs, call>>

PodStarts(i) == SetPhase(i, "Pending", "Running") /\ UNCHANGED spent

PodSucceeds(i) == SetPhase(i, "Running", "Succeeded") /\ UNCHANGED spent

PodFails(i) ==
  /\ spent.failures < MaxFailures
  /\ spent' = [spent EXCEPT !.failures = @ + 1]
  /\ SetPhase(i, "Pending", "Failed") \/ SetPhase(i, "Running", "Failed")

CollectPod(i) ==
  /\ pods[i].there /\ pods[i].owner # meta.uid
  /\ pods' = [pods EXCEPT ![i].there = FALSE]
  /\ queued' = TRUE
  /\ UNCHANGED <<meta, status, uids, nextPod, bundles, jobs, call, spent>>

CollectBundle(b) ==
  /\ b.owner # meta.uid
  /\ bundles' = bundles \ {b}
  /\ UNCHANGED <<meta, status, uids, pods, nextPod, jobs, queued, call, spent>>

InformerLists(i) ==
  /\ pods[i].there /\ ~pods[i].listed
  /\ pods' = [pods EXCEPT ![i].listed = TRUE]
  /\ queued' = TRUE
  /\ UNCHANGED <<meta, status, uids, nextPod, bundles, jobs, call, spent>>

(* The manager's cache replays every object from time to time.             *)
Resync ==
  /\ meta.uid # 0 /\ pc = "idle" /\ ~queued
  /\ queued' = TRUE
  /\ UNCHANGED <<meta, status, uids, pods, nextPod, bundles, jobs, call, spent>>

-----------------------------------------------------------------------------
(* What the steps of Reconcile are built from.                             *)
Fault(kind) ==
  /\ kind \in Faults /\ spent.faults < MaxFaults
  /\ spent' = [spent EXCEPT !.faults = @ + 1]

(* The call goes on at a place with s as its copy of the status, or ends.  *)
GoOn(place, s) ==
  /\ pc' = place /\ looked' = FALSE
  /\ tfMeta' = IF place = "idle" THEN NoMeta ELSE tfMeta
  /\ tfStatus' = IF place = "idle" THEN EmptyStatus ELSE s

Return == GoOn("idle", EmptyStatus)

(***************************************************************************)
(* updateStatusWithRetry as its callers see it.  After a conflict it reads *)
(* the resource again and puts the wanted status on it, so the write       *)
(* replaces whatever is there, on whatever resource has the name.  It      *)
(* fails when there is none and when its retries run out, with the write   *)
(* done or not.  The call goes on at next, after an error at failed, and   *)
(* requeue tells whether Reconcile returns that error.                     *)
(***************************************************************************)
UpdateStatusWithRetry(desired, next, failed, requeue) ==
  \/ /\ meta.uid # 0
     /\ status' = desired
     /\ queued' = (queued \/ desired # status)
     /\ GoOn(next, desired)
     /\ UNCHANGED spent
  \/ /\ \/ meta.uid = 0 /\ UNCHANGED <<status, spent>>
        \/ meta.uid # 0 /\ Fault("status") /\ status' \in {status, desired}
     /\ queued' = (queued \/ requeue \/ status' # status)
     /\ GoOn(failed, desired)

(* update: the API server refuses a copy that is not the latest.           *)
Update(finalizer) ==
  \/ /\ meta = tfMeta /\ status = tfStatus
     /\ IF meta.deleting /\ ~finalizer
        THEN meta' = NoMeta /\ status' = EmptyStatus
        ELSE meta' = [meta EXCEPT !.finalizer = finalizer] /\ UNCHANGED status
     /\ queued' = (queued \/ meta' # meta)
     /\ UNCHANGED spent
  \/ /\ \/ ~(meta = tfMeta /\ status = tfStatus) /\ UNCHANGED spent
        \/ Fault("update")
     /\ queued' = TRUE
     /\ UNCHANGED <<meta, status>>

(* Bugs: a pending pod is not seen; the time of the retry is not compared. *)
StagePodsStarted(s) ==
  {i \in PodId : /\ pods[i].there /\ pods[i].listed /\ pods[i].phase # "Pending"
                 /\ pods[i].prefix = s.prefix /\ pods[i].task = s.stage.task
                 /\ pods[i].gen = s.stage.gen}
StagePodsBeforeRetry(s) ==
  {i \in PodId : /\ pods[i].there /\ pods[i].listed
                 /\ pods[i].prefix = s.prefix /\ pods[i].task = s.stage.task
                 /\ pods[i].gen = s.stage.gen}

(* The pods found for the stage of s: by generateName, by generation label *)
(* and created no earlier than the last retry.                             *)
StagePods(s) ==
  {i \in PodId : /\ pods[i].there /\ pods[i].listed
                 /\ pods[i].prefix = s.prefix
                 /\ pods[i].task = s.stage.task
                 /\ pods[i].ver = s.stage.gen
                 /\ pods[i].gen = s.stage.gen
                 /\ i >= s.retryAt}

PodGone(s) == ~\E i \in PodId : i = s.stage.podName /\ pods[i].there

(* What checkSetNewStage sees: a call that has looked goes on without it.  *)
PodMissed(s) == ~looked /\ PodGone(s)

(* The copy of the call past the finalizer and the initial status.         *)
Initialized ==
  /\ pc = "read"
  /\ tfStatus.phase # "deleted"
  /\ UpdatedFinalizer(tfMeta, tfStatus) = tfMeta.finalizer
  /\ tfStatus.prefix # 0

prepared == Prepared(tfMeta, tfStatus, nextPod)

newStage == CheckSetNewStage(tfMeta, prepared, IsRetry(tfMeta, tfStatus), PodMissed(prepared))

MustLook == LooksForPod(tfMeta, prepared, IsRetry(tfMeta, tfStatus)) /\ ~looked

InStage == Initialized /\ tfStatus.stage.gen # 0 /\ newStage = {} /\ ~MustLook

InTask == InStage /\ prepared.stage.task # RunNil

-----------------------------------------------------------------------------
(* Reconcile                                                               *)
GetResource ==
  /\ pc = "idle" /\ queued /\ meta.uid # 0
  /\ pc' = "read" /\ tfMeta' = meta /\ tfStatus' = status /\ looked' = FALSE
  /\ queued' = FALSE
  /\ UNCHANGED <<meta, status, uids, pods, nextPod, bundles, jobs, deferred, spent>>

ResourceNotFound ==
  /\ pc = "idle" /\ queued /\ meta.uid = 0
  /\ queued' = FALSE
  /\ UNCHANGED <<meta, status, uids, pods, nextPod, bundles, jobs, call, spent>>

(* "Final delete by removing finalizers", and the finalizer of a resource  *)
(* that is not deleted: both end the call with one update.                 *)
UpdateFinalizer ==
  /\ pc = "read"
  /\ \/ tfStatus.phase = "deleted"
     \/ UpdatedFinalizer(tfMeta, tfStatus) # tfMeta.finalizer
  /\ Update(UpdatedFinalizer(tfMeta, tfStatus))
  /\ Return
  /\ UNCHANGED <<uids, pods, nextPod, bundles, jobs, deferred>>

(* The random suffix of the prefix is fresh: it is the uid's.              *)
InitializeStatus ==
  /\ pc = "read"
  /\ tfStatus.phase # "deleted"
  /\ UpdatedFinalizer(tfMeta, tfStatus) = tfMeta.finalizer
  /\ tfStatus.prefix = 0
  /\ UpdateStatusWithRetry([tfStatus EXCEPT !.prefix = tfMeta.uid, !.phase = "initializing"],
                           "idle", "idle", FALSE)
  /\ UNCHANGED <<meta, uids, pods, nextPod, bundles, jobs, deferred>>

AddFirstStage ==
  /\ Initialized /\ tfStatus.stage.gen = 0
  /\ UpdateStatusWithRetry(FirstStage(tfMeta, tfStatus), "idle", "idle", TRUE)
  /\ UNCHANGED <<meta, uids, pods, nextPod, bundles, jobs, deferred>>

(***************************************************************************)
(* The pod of a failed apply is looked for by name, and the stage's pods   *)
(* are listed afterwards: in between the pod may go.  Any error but        *)
(* NotFound counts as a pod that is there.  A pod that is not found stays  *)
(* away, so RemoveOldPlan takes that look with the decision it leads to.   *)
(***************************************************************************)
LookForPod ==
  /\ Initialized /\ tfStatus.stage.gen # 0 /\ MustLook
  /\ \/ ~PodGone(prepared) /\ UNCHANGED spent
     \/ Fault("get")
  /\ looked' = TRUE
  /\ UNCHANGED <<cluster, pc, tfMeta, tfStatus, deferred>>

IsRestart(s) == s.stage.reason \in {"RESTARTED_WORKFLOW", "RESTARTED_DELETE_WORKFLOW"}

SetNewStage ==
  /\ Initialized /\ tfStatus.stage.gen # 0
  /\ \E s \in newStage :
       /\ ~IsRestart(s)
       /\ UpdateStatusWithRetry(s, "idle", "idle", FALSE)
  /\ UNCHANGED <<meta, uids, pods, nextPod, bundles, jobs, deferred>>

(***************************************************************************)
(* removeOldPlan deletes the pods of the resource's generation that are    *)
(* not running.  It is given the reason of the stage that is about to be   *)
(* replaced, and spares the tasks up to postinit only for the reason of a  *)
(* restart.  Its error is dropped.                                         *)
(***************************************************************************)
Spared(reason) ==
  {t \in {"setup", "preinit", "init", "postinit"} : reason = "RESTARTED_WORKFLOW"}
  \cup
  {t \in {"setup-delete", "preinit-delete", "init-delete", "postinit-delete"} :
     reason = "RESTARTED_DELETE_WORKFLOW"}

(* A bug: only the failed pods go, the plan that was applied stays.        *)
OnlyFailedPods(m, s) ==
  {i \in PodId : pods[i].there /\ pods[i].gen = m.gen /\ pods[i].phase = "Failed"}

OldPlanPods(m, s) ==
  {i \in PodId : /\ pods[i].there /\ pods[i].gen = m.gen
                 /\ pods[i].phase # "Running"
                 /\ pods[i].task \notin Spared(s.stage.reason)}

RemoveOldPlan ==
  /\ Initialized /\ tfStatus.stage.gen # 0
  /\ \E s \in newStage : IsRestart(s) /\ GoOn("restart", s)
  /\ \/ LET old == OldPlanPods(tfMeta, prepared)
        IN  /\ pods' = [i \in PodId |-> [pods[i] EXCEPT !.there = @ /\ i \notin old]]
            /\ queued' = (queued \/ old # {})
            /\ UNCHANGED spent
     \/ Fault("delete") /\ UNCHANGED <<pods, queued>>
  /\ UNCHANGED <<meta, status, uids, nextPod, bundles, jobs, deferred>>

RestartWorkflow ==
  /\ pc = "restart"
  /\ UpdateStatusWithRetry(tfStatus, "idle", "idle", FALSE)
  /\ UNCHANGED <<meta, uids, pods, nextPod, bundles, jobs, deferred>>

-----------------------------------------------------------------------------
(* The nil task: the workflow is over.                                     *)
EndWorkflow ==
  /\ InStage /\ prepared.stage.task = RunNil
  /\ prepared.phase \in {"running", "deleting"}
  /\ UpdateStatusWithRetry([prepared EXCEPT !.phase = IF @ = "running" THEN "completed"
                                                      ELSE "deleted"],
                           "idle", "idle", TRUE)
  /\ UNCHANGED <<meta, uids, pods, nextPod, bundles, jobs, deferred>>

NothingToDo ==
  /\ InStage /\ prepared.stage.task = RunNil
  /\ prepared.phase \notin {"running", "deleting"}
  /\ Return
  /\ UNCHANGED <<cluster, deferred, spent>>

(* The stage's pods cannot be listed: the call ends without a requeue.     *)
ListFails ==
  /\ InTask /\ Fault("list")
  /\ Return
  /\ UNCHANGED <<cluster, deferred>>

(* The pod of a stage in progress has been deleted.                        *)
ResetStage ==
  /\ InTask /\ StagePods(prepared) = {}
  /\ prepared.stage.state = "in-progress"
  /\ UpdateStatusWithRetry([prepared EXCEPT !.stage.state = "initializing"],
                           "idle", "idle", TRUE)
  /\ UNCHANGED <<meta, uids, pods, nextPod, bundles, jobs, deferred>>

-----------------------------------------------------------------------------
(***************************************************************************)
(* setupAndRun and what surrounds it.  The first stage of a generation     *)
(* creates the objects its pods mount, any other stage requires them.      *)
(* Plugins are deferred before, so they start even when it fails; sidecar  *)
(* plugins are part of the pod.                                            *)
(***************************************************************************)
NotChangedByCreation(s) ==
  s.stage.reason \in {"GENERATION_CHANGE", "TF_RESOURCE_DELETED"}

IsChanged(s) ==
  s.stage.reason \in {"GENERATION_CHANGE", "TF_RESOURCE_DELETED", "TF_RESOURCE_CREATED"}

PluginsAgain(s) ==
  {p \in PluginNames : PluginWhen[p] = "After" /\ Before(PluginTask[p], s.stage.task)}

PluginsDue(s) ==
  {p \in PluginNames \ s.plugins :
     \/ PluginWhen[p] = "After" /\ Before(PluginTask[p], s.stage.task)
     \/ PluginWhen[p] = "At" /\ ID(PluginTask[p]) = ID(s.stage.task)}

TaskBundle == [prefix |-> tfStatus.prefix, gen |-> tfMeta.gen, owner |-> tfMeta.uid]

HasBundle == \E b \in bundles : b.prefix = tfStatus.prefix /\ b.gen = tfMeta.gen

StartsPod ==
  /\ InTask /\ StagePods(prepared) = {}
  /\ prepared.stage.state # "in-progress"

SetupAndRun ==
  /\ StartsPod
  /\ IsChanged(prepared) \/ HasBundle
  /\ nextPod <= MaxPods
  /\ bundles' = IF IsChanged(prepared) THEN bundles \cup {TaskBundle} ELSE bundles
  /\ pods' = [pods EXCEPT ![nextPod] =
                [prefix |-> prepared.prefix, owner |-> tfMeta.uid,
                 task |-> prepared.stage.task,
                 gen |-> prepared.stage.gen, ver |-> tfMeta.gen,
                 phase |-> "Pending", there |-> TRUE, listed |-> ~PodLag]]
  /\ nextPod' = nextPod + 1
  /\ GoOn("started", [prepared EXCEPT
                    !.phase = IF @ = "initializing" THEN "running"
                              ELSE IF @ = "initializing-delete" THEN "deleting"
                              ELSE @,
                    !.stage.state = "in-progress"])
  /\ deferred' = PluginsDue(prepared)
  /\ queued' = TRUE
  /\ UNCHANGED <<meta, status, uids, jobs, spent>>

(* The deferred calls run when Reconcile returns.                          *)
AfterRun == IF deferred' = {} THEN "idle" ELSE "plugins"

SetupFails ==
  /\ StartsPod
  /\ \/ /\ Fault("create")
        /\ bundles' \in {bundles, IF IsChanged(prepared) THEN bundles \cup {TaskBundle}
                                  ELSE bundles}
     \/ ~IsChanged(prepared) /\ ~HasBundle /\ UNCHANGED <<bundles, spent>>
  /\ deferred' = PluginsDue(prepared)
  /\ GoOn(AfterRun, prepared)
  /\ queued' = TRUE
  /\ UNCHANGED <<meta, status, uids, pods, nextPod, jobs>>

SaveStarted ==
  /\ pc = "started"
  /\ UNCHANGED deferred
  /\ UpdateStatusWithRetry(tfStatus, AfterRun, AfterRun, TRUE)
  /\ UNCHANGED <<meta, uids, pods, nextPod, bundles, jobs>>

(* createPluginJob: the job is created on the side, its error only logged. *)
CreatePluginJob(p) ==
  /\ pc = "plugins" /\ p \in deferred
  /\ deferred' = deferred \ {p}
  /\ LET first == [plugin |-> p, owner |-> tfMeta.uid, gen |-> tfMeta.gen, again |-> FALSE]
     IN  \/ jobs' = jobs \cup {[first EXCEPT !.again = first \in jobs]}
         \/ "create" \in Faults /\ UNCHANGED jobs
  /\ UpdateStatusWithRetry([tfStatus EXCEPT !.plugins = @ \cup {p}],
                           AfterRun, AfterRun, FALSE)
  /\ UNCHANGED <<meta, uids, pods, nextPod, bundles>>

-----------------------------------------------------------------------------
(* A pod is found for the stage: its phase becomes the stage's state, and  *)
(* a pod that succeeded is deleted unless it is to be kept.                *)
PhaseAsState(phase) == IF phase = "Failed" THEN "failed" ELSE phase

AnyPodCompletes(phase) == IF phase = "Failed" THEN "failed" ELSE "complete"

StageStateOf(phase) ==
  IF phase = "Failed" THEN "failed"
  ELSE IF phase = "Succeeded" THEN "complete"
  ELSE phase

FoundPod(i) ==
  /\ InTask /\ i \in StagePods(prepared)
  /\ LET next == IF pods[i].phase = "Succeeded" /\ ~KeepPods THEN "remove" ELSE "idle"
     IN  UpdateStatusWithRetry([prepared EXCEPT !.stage.state = StageStateOf(pods[i].phase),
                                                !.stage.podName = i],
                               next, "idle", TRUE)
  /\ UNCHANGED <<meta, uids, pods, nextPod, bundles, jobs, deferred>>

RemovePod ==
  /\ pc = "remove"
  /\ Return
  /\ \/ /\ pods' = [i \in PodId |-> [pods[i] EXCEPT !.there = @ /\ i # tfStatus.stage.podName]]
        /\ queued' = TRUE
        /\ UNCHANGED spent
     \/ Fault("delete") /\ UNCHANGED <<pods, queued>>
  /\ UNCHANGED <<meta, status, uids, nextPod, bundles, jobs, deferred>>

(* The controller stops and starts again: its cache lists every resource.  *)
Crash ==
  /\ pc # "idle" /\ Fault("crash")
  /\ Return /\ deferred' = {} /\ queued' = TRUE
  /\ UNCHANGED <<meta, status, uids, pods, nextPod, bundles, jobs>>

-----------------------------------------------------------------------------
Users ==
  \/ CreateResource \/ EditSpec \/ SetLabel \/ DeleteResource
  \/ \E i \in PodId : DeletePod(i)

PodEnds(i) == PodSucceeds(i) \/ PodFails(i)

Cluster ==
  \/ \E i \in PodId : PodStarts(i) \/ PodEnds(i) \/ CollectPod(i) \/ InformerLists(i)
  \/ \E b \in bundles : CollectBundle(b)
  \/ Resync

Reconcile ==
  \/ GetResource \/ ResourceNotFound \/ UpdateFinalizer \/ InitializeStatus
  \/ AddFirstStage \/ SetNewStage \/ LookForPod \/ RemoveOldPlan \/ RestartWorkflow
  \/ EndWorkflow \/ NothingToDo \/ ListFails \/ ResetStage
  \/ SetupAndRun \/ SetupFails \/ SaveStarted
  \/ \E p \in PluginNames : CreatePluginJob(p)
  \/ \E i \in PodId : FoundPod(i)
  \/ RemovePod

Next == Users \/ Cluster \/ Reconcile \/ Crash

Spec == Init /\ [][Next]_vars

(***************************************************************************)
(* The work queue hands out what is in it and a worker finishes its call;  *)
(* a pod that is scheduled starts and ends; the garbage collector and the  *)
(* informers catch up, the cache resyncs.  Users owe nothing.              *)
(***************************************************************************)
Fairness ==
  /\ WF_vars(Reconcile)
  /\ \A i \in PodId : WF_vars(PodStarts(i)) /\ WF_vars(PodEnds(i))
  /\ \A i \in PodId : WF_vars(CollectPod(i)) /\ WF_vars(InformerLists(i))
  /\ WF_vars(\E b \in bundles : CollectBundle(b))
  /\ WF_vars(Resync)

FairSpec == Spec /\ Fairness

-----------------------------------------------------------------------------
(* The properties.                                                         *)
Live(i) == pods[i].there /\ pods[i].phase \in {"Pending", "Running"}

Finished(uid, gen, task) ==
  \E i \in PodId : /\ pods[i].owner = uid /\ pods[i].gen = gen
                   /\ pods[i].task = task /\ pods[i].phase = "Succeeded"

(***************************************************************************)
(* A task's pod is created only after every configured task before it, in  *)
(* its workflow and for its generation, has succeeded: "the only way for   *)
(* the pod to transition to the next stage is for the pod to complete      *)
(* successfully" (checkSetNewStage).                                       *)
(***************************************************************************)
TasksRunInOrder ==
  \A i \in PodId :
    pods[i].task # RunNil =>
      \A t \in Configured \cap WorkflowOf(pods[i].task) :
        Before(t, pods[i].task) => Finished(pods[i].owner, pods[i].gen, t)

(* A completed resource has run every configured task of the create        *)
(* workflow for the generation its status shows.                           *)
CompletedRanWholeWorkflow ==
  meta.uid # 0 /\ status.phase = "completed" =>
    \A t \in Configured \cap CreateTasks : Finished(meta.uid, status.stage.gen, t)

(* A completed resource that was retried has run its workflow again: every *)
(* task from the one the retry starts at has succeeded in a pod created    *)
(* after the retry.                                                        *)
RetryStart(label) == IF label \in SetupLabels THEN "setup" ELSE "init"

CompletedAfterRetry ==
  meta.uid # 0 /\ status.phase = "completed" /\ status.retryReason # NoLabel =>
    \A t \in Configured \cap CreateTasks :
      Before(t, RetryStart(status.retryReason)) \/
      \E i \in PodId : /\ i >= status.retryAt /\ pods[i].task = t
                       /\ pods[i].owner = meta.uid /\ pods[i].gen = status.stage.gen
                       /\ pods[i].phase = "Succeeded"

(* Never two unfinished pods for one task of one generation: two terraform *)
(* processes would work on the same state.                                 *)
OneLivePodPerStage ==
  \A i, j \in PodId :
    /\ Live(i) /\ Live(j)
    /\ pods[i].prefix = pods[j].prefix /\ pods[i].gen = pods[j].gen
    /\ pods[i].task = pods[j].task
    => i = j

(* The status on the resource was written for this incarnation of it: a    *)
(* resource deleted and created again starts from an empty status and uses *)
(* a prefix of its own.                                                    *)
StatusOfIncarnation == status.prefix \in {0, meta.uid}

(* Every apply pod acts on a plan made after any earlier apply pod of its  *)
(* generation was started.                                                 *)
ApplyHasFreshPlan ==
  \A i \in PodId :
    LET plan == IF pods[i].task = "apply" THEN "plan" ELSE "plan-delete"
        Same(k, task) == /\ pods[k].owner = pods[i].owner /\ pods[k].gen = pods[i].gen
                         /\ pods[k].task = task
    IN  pods[i].task \in {"apply", "apply-delete"} =>
          \E j \in PodId : /\ j < i /\ Same(j, plan) /\ pods[j].phase = "Succeeded"
                           /\ ~\E k \in j..(i - 1) : Same(k, pods[i].task)

(* The finalizer of a resource that is not to ignore its deletion goes     *)
(* only after its destroy workflow has applied: "The finalizer will be     *)
(* responsible for starting the destroy-workflow" (updateFinalizer).       *)
Destroyed(uid) ==
  \E i \in PodId : /\ pods[i].owner = uid /\ pods[i].task = "apply-delete"
                   /\ pods[i].phase = "Succeeded"

ReleasedOnlyAfterDestroy ==
  [][meta.deleting /\ ~meta.ignoreDelete /\ meta'.uid = 0 => Destroyed(meta.uid)]_vars

(* Once a call knows that the resource is being deleted it starts no task  *)
(* of the create workflow.                                                 *)
NoCreateTaskOnceDeleting ==
  [][nextPod' # nextPod /\ tfMeta.deleting => pods'[nextPod].task \in DeleteTasks]_vars

(* A stage that is not interruptible is not replaced while its pod lives:  *)
(* "Cannot change to the next stage because the current stage cannot be    *)
(* interrupted and is currently running" (checkSetNewStage).               *)
StageReplaced ==
  meta.uid # 0 /\ meta'.uid = meta.uid /\ status.stage.gen # 0
  /\ <<status.stage.gen, status.stage.task>> # <<status'.stage.gen, status'.stage.task>>

LivePodOf(s) ==
  \E i \in PodId : /\ Live(i) /\ pods[i].prefix = s.prefix
                   /\ pods[i].gen = s.stage.gen /\ pods[i].task = s.stage.task

UninterruptibleStageKept ==
  [][StageReplaced /\ ~status.stage.interruptible => ~LivePodOf(status)]_vars

(* The same while the stage is still recorded as in progress, which is     *)
(* what the code looks at.                                                 *)
InProgressStageKept ==
  [][StageReplaced /\ ~status.stage.interruptible => status.stage.state # "in-progress"]_vars

(* "Each plugin is run once per generation" (Plugin).                      *)
PluginsRunOncePerGeneration == \A j \in jobs : ~j.again

(* A resource that is being deleted goes away, unless a task failed.       *)
DeletionEnds == meta.deleting ~> (meta.uid = 0 \/ status.stage.state = "failed")

(* Every generation of a resource is settled: the workflow completes, or a *)
(* task fails, or the resource is deleted.                                 *)
WorkflowSettles ==
  meta.uid # 0 ~> (meta.uid = 0 \/ status.stage.state = "failed"
                   \/ (status.phase = "completed" /\ status.stage.gen = meta.gen))
=============================================================================
