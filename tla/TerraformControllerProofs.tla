---------------------- MODULE TerraformControllerProofs ----------------------
(***************************************************************************)
(* Theorems about TerraformController for every configuration, any number  *)
(* of incarnations, generations and pods, and every kind of fault: its     *)
(* types, what holds of a resource that is deleted, the order of the tasks *)
(* and what is left of it when there are retries.                          *)
(***************************************************************************)
EXTENDS TerraformController, TasksProofs

-----------------------------------------------------------------------------
(* What the decisions of Reconcile return, for every configuration.        *)

(* The in-memory edits of Reconcile and its stages are statuses.           *)
LEMMA PreparedType ==
  ASSUME NEW m \in Meta, NEW s \in Status, NEW now \in Nat
  PROVE  /\ Prepared(m, s, now) \in Status
         /\ IsRetry(m, s) => Prepared(m, s, now).retryReason \in RetryLabels
BY DEF Prepared, IsRetry, MarkedDeletion, Meta, Status, Phases

LEMMA NewStageType ==
  ASSUME NEW m \in Meta, NEW s \in Status, NEW task \in TaskName \cup {RunNil},
         NEW reason \in StageReasons \cup RetryLabels, NEW interruptible \in BOOLEAN,
         NEW state \in StageStates
  PROVE  NewStage(m, s, task, reason, interruptible, state) \in Status
<1> DEFINE stage == [gen |-> m.gen, task |-> task, state |-> state,
                     interruptible |-> interruptible, reason |-> reason, podName |-> 0]
<1>1. stage \in Stage
  BY DEF Stage, Meta
<1>2. [s EXCEPT !.stage = stage] \in Status
  BY <1>1 DEF Status
<1>3. [s EXCEPT !.stage = stage, !.plugins = {}, !.phase = "initializing"] \in Status
  BY <1>1 DEF Status, Phases
<1> HIDE DEF stage
<1>4. NewStage(m, s, task, reason, interruptible, state)
        = IF reason = "GENERATION_CHANGE"
          THEN [s EXCEPT !.stage = stage, !.plugins = {}, !.phase = "initializing"]
          ELSE [s EXCEPT !.stage = stage]
  BY DEF NewStage, stage
<1> QED
  BY <1>2, <1>3, <1>4

LEMMA TaskNames ==
  {"setup", "init", "setup-delete", "init-delete"} \subseteq TaskName
BY DEF TaskName, CreateTasks, DeleteTasks, TasksInOrder, DeleteTasksInOrder

LEMMA FirstStageType ==
  ASSUME NEW m \in Meta, NEW s \in Status
  PROVE  FirstStage(m, s) \in Status
<1>1. NewStage(m, s, "setup", "TF_RESOURCE_CREATED", FALSE, "initializing") \in Status
  BY NewStageType, TaskNames DEF StageReasons, StageStates
<1> QED
  BY <1>1 DEF FirstStage, Status

LEMMA CheckSetNewStageType ==
  ASSUME NEW m \in Meta, NEW s \in Status, NEW retry \in BOOLEAN, NEW podGone \in BOOLEAN,
         retry => s.retryReason \in RetryLabels
  PROVE  CheckSetNewStage(m, s, retry, podGone) \in SUBSET Status
<1>1. ASSUME retry PROVE RetryStage(m, s) \in Status
  <2> DEFINE task == RetryTask(s, s.retryReason)
  <2>1. task \in TaskName
    BY TaskNames DEF RetryTask
  <2>2. IsTaskInterruptable(task) \in BOOLEAN /\ "initializing" \in StageStates
    BY DEF IsTaskInterruptable, StageStates
  <2> HIDE DEF task
  <2>3. NewStage(m, s, task, s.retryReason, IsTaskInterruptable(task), "initializing") \in Status
    BY <1>1, <2>1, <2>2, NewStageType
  <2> QED
    BY <2>3 DEF RetryStage, task
<1>2. GenerationStage(m, s) \in Status
  <2>1. NewStage(m, s, "setup", "GENERATION_CHANGE", TRUE, "initializing") \in Status
    BY NewStageType, TaskNames DEF StageReasons, StageStates
  <2>2. NewStage(m, s, "setup-delete", "TF_RESOURCE_DELETED",
                 s.phase # "initializing-delete", "initializing") \in Status
    BY NewStageType, TaskNames DEF StageReasons, StageStates
  <2> QED
    BY <2>1, <2>2 DEF GenerationStage
<1>3. CompletedStage(m, s) \in Status
  <2> DEFINE task == NextTask(s.stage.task, Configured)
             state == IF task = RunNil THEN "complete" ELSE "initializing"
  <2>1. task \in TaskName \cup {RunNil}
    BY NextTaskType
  <2> HIDE DEF task
  <2>2. IsTaskInterruptable(task) \in BOOLEAN /\ state \in StageStates
        /\ "COMPLETED" \in StageReasons
    BY DEF IsTaskInterruptable, StageStates, StageReasons
  <2> HIDE DEF state
  <2>3. NewStage(m, s, task, "COMPLETED", IsTaskInterruptable(task), state) \in Status
    BY <2>1, <2>2, NewStageType
  <2> QED
    BY <2>3 DEF CompletedStage, task, state
<1>4. RestartStage(m, s) \in Status
  <2> DEFINE delete == s.stage.task = "apply-delete"
             task == NextTask(IF delete THEN "postinit-delete" ELSE "postinit", Configured)
             reason == IF delete THEN "RESTARTED_DELETE_WORKFLOW" ELSE "RESTARTED_WORKFLOW"
  <2>1. task \in TaskName \cup {RunNil}
    BY NextTaskType
  <2>2. reason \in StageReasons /\ "initializing" \in StageStates
    BY DEF StageReasons, StageStates
  <2> HIDE DEF task, reason
  <2>3. IsTaskInterruptable(task) \in BOOLEAN
    BY DEF IsTaskInterruptable
  <2>4. NewStage(m, s, task, reason, IsTaskInterruptable(task), "initializing") \in Status
    BY <2>1, <2>2, <2>3, NewStageType
  <2> QED
    BY <2>4 DEF RestartStage, task, reason
<1> QED
  BY <1>1, <1>2, <1>3, <1>4 DEF CheckSetNewStage

-----------------------------------------------------------------------------
-----------------------------------------------------------------------------
(* Types.                                                                  *)
LEMMA EmptyTypes == NoMeta \in Meta /\ EmptyStatus \in Status /\ NoPod \in Pod
BY DEF NoMeta, Meta, EmptyStatus, EmptyStage, Status, Stage, Phases, StageStates,
       StageReasons, NoPod, Pod, PodPhases

(* What a call works with is typed: its prepared copy and its new stage.   *)
LEMMA PreparedStatus ==
  ASSUME TypeOK
  PROVE  prepared \in Status /\ newStage \in SUBSET Status
<1>1. tfMeta \in Meta /\ tfStatus \in Status /\ nextPod \in Nat
  BY DEF TypeOK
<1>2. prepared \in Status
      /\ (IsRetry(tfMeta, tfStatus) => prepared.retryReason \in RetryLabels)
  BY <1>1, PreparedType DEF prepared
<1>3. IsRetry(tfMeta, tfStatus) \in BOOLEAN /\ PodMissed(prepared) \in BOOLEAN
  BY DEF IsRetry, PodMissed, PodGone
<1> HIDE DEF prepared
<1> QED
  BY <1>1, <1>2, <1>3, CheckSetNewStageType DEF newStage

(* The writes of a call keep the resource, its copy and the budget typed.  *)
Budget == [labels: Nat, failures: Nat, evictions: Nat, faults: Nat]

LEMMA FaultType ==
  ASSUME TypeOK, NEW kind, Fault(kind)
  PROVE  spent' \in Budget
BY DEF TypeOK, Fault, Budget

LEMMA GoOnType ==
  ASSUME TypeOK, NEW place \in PCs, NEW s \in Status, GoOn(place, s)
  PROVE  pc' \in PCs /\ tfMeta' \in Meta /\ tfStatus' \in Status /\ looked' \in BOOLEAN
BY EmptyTypes DEF TypeOK, GoOn

LEMMA StatusWriteType ==
  ASSUME TypeOK, NEW desired \in Status, NEW next \in PCs, NEW failed \in PCs,
         NEW requeue \in BOOLEAN,
         UpdateStatusWithRetry(desired, next, failed, requeue)
  PROVE  /\ status' \in Status /\ queued' \in BOOLEAN /\ pc' \in PCs
         /\ tfMeta' \in Meta /\ tfStatus' \in Status /\ looked' \in BOOLEAN /\ spent' \in Budget
<1>1. \/ GoOn(next, desired) /\ status' = desired /\ UNCHANGED spent
      \/ GoOn(failed, desired) /\ UNCHANGED <<status, spent>>
      \/ GoOn(failed, desired) /\ Fault("status") /\ status' \in {status, desired}
  BY DEF UpdateStatusWithRetry
<1>2. pc' \in PCs /\ tfMeta' \in Meta /\ tfStatus' \in Status /\ looked' \in BOOLEAN
  BY <1>1, GoOnType
<1>3. status' \in Status
  BY <1>1 DEF TypeOK
<1>4. spent' \in Budget
  BY <1>1, FaultType DEF TypeOK, Budget
<1>5. queued' \in BOOLEAN
  <2>1. queued' = (queued \/ desired # status) \/ queued' = (queued \/ requeue \/ status' # status)
    BY DEF UpdateStatusWithRetry
  <2> QED
    BY <2>1
<1> QED
  BY <1>2, <1>3, <1>4, <1>5

LEMMA UpdateType ==
  ASSUME TypeOK, NEW finalizer \in BOOLEAN, Update(finalizer)
  PROVE  meta' \in Meta /\ status' \in Status /\ queued' \in BOOLEAN /\ spent' \in Budget
<1>1. [meta EXCEPT !.finalizer = finalizer] \in Meta
  BY DEF TypeOK, Meta
<1>2. meta' \in Meta /\ status' \in Status
  BY <1>1, EmptyTypes DEF TypeOK, Update
<1>3. spent' \in Budget
  BY FaultType DEF TypeOK, Update, Budget
<1>4. queued' \in BOOLEAN
  <2>1. queued' = (queued \/ meta' # meta) \/ queued' = TRUE
    BY DEF Update
  <2> QED
    BY <2>1
<1> QED
  BY <1>2, <1>3, <1>4

LEMMA PodNumbers ==
  /\ PodId \subseteq Nat
  /\ \A n \in Nat : n <= MaxPods /\ n # 0 => n \in PodId
BY BoundAssumption DEF PodId

(* Pods keep their type when some of them go, change phase or are seen.    *)
LEMMA PodsType ==
  ASSUME TypeOK, NEW i \in PodId
  PROVE  /\ \A p \in Pod : [pods EXCEPT ![i] = p] \in [PodId -> Pod]
         /\ \A ph \in PodPhases : [pods EXCEPT ![i].phase = ph] \in [PodId -> Pod]
         /\ [pods EXCEPT ![i].there = FALSE] \in [PodId -> Pod]
         /\ [pods EXCEPT ![i].listed = TRUE] \in [PodId -> Pod]
<1>1. pods \in [PodId -> Pod] /\ pods[i] \in Pod
  BY DEF TypeOK
<1>2. \A p \in Pod : [pods EXCEPT ![i] = p] \in [PodId -> Pod]
  BY <1>1
<1>3. \A ph \in PodPhases : [pods[i] EXCEPT !.phase = ph] \in Pod
  BY <1>1 DEF Pod
<1>4. [pods[i] EXCEPT !.there = FALSE] \in Pod /\ [pods[i] EXCEPT !.listed = TRUE] \in Pod
  BY <1>1 DEF Pod
<1> QED
  BY <1>1, <1>2, <1>3, <1>4

LEMMA PodsLeaveType ==
  ASSUME TypeOK, NEW S
  PROVE  [i \in PodId |-> [pods[i] EXCEPT !.there = @ /\ i \notin S]] \in [PodId -> Pod]
<1>1. \A i \in PodId : [pods[i] EXCEPT !.there = @ /\ i \notin S] \in Pod
  <2> TAKE i \in PodId
  <2>1. pods[i] \in Pod /\ (pods[i].there /\ i \notin S) \in BOOLEAN
    BY DEF TypeOK, Pod
  <2> QED
    BY <2>1 DEF Pod
<1> QED
  BY <1>1

(* The users' and the cluster's steps keep the types.                      *)
LEMMA UsersType ==
  ASSUME TypeOK, Users
  PROVE  TypeOK'
<1>1. CASE CreateResource
  <2>1. meta' \in Meta
    <3>1. PICK ignore \in IgnoreDeletes, label \in RetryLabels \cup {NoLabel} :
            meta' = [uid |-> uids', gen |-> 1, deleting |-> FALSE, finalizer |-> FALSE,
                     ignoreDelete |-> ignore, label |-> label]
      BY <1>1 DEF CreateResource
    <3>2. uids' \in Nat /\ ignore \in BOOLEAN
      BY <1>1, IgnoreAssumption DEF TypeOK, CreateResource
    <3> QED
      BY <3>1, <3>2 DEF Meta
  <2> QED
    BY <1>1, <2>1, EmptyTypes DEF TypeOK, CreateResource, call
<1>2. CASE EditSpec
  <2>1. meta' \in Meta
    <3>1. PICK ignore \in IgnoreDeletes :
            meta' = [meta EXCEPT !.gen = @ + 1, !.ignoreDelete = ignore]
      BY <1>2 DEF EditSpec
    <3>2. meta \in Meta /\ ignore \in BOOLEAN /\ meta.gen + 1 \in Nat
      BY IgnoreAssumption DEF TypeOK, Meta
    <3>3. \A n \in Nat : [meta EXCEPT !.gen = n, !.ignoreDelete = ignore] \in Meta
      BY <3>2 DEF Meta
    <3> QED
      BY <3>1, <3>2, <3>3
  <2> QED
    BY <1>2, <2>1 DEF TypeOK, EditSpec, call
<1>3. CASE SetLabel
  <2>1. meta' \in Meta /\ spent' \in Budget
    BY <1>3 DEF TypeOK, SetLabel, Meta, Budget
  <2> QED
    BY <1>3, <2>1 DEF TypeOK, SetLabel, call, Budget
<1>4. CASE DeleteResource
  <2>1. meta' \in Meta /\ status' \in Status
    <3>1. [meta EXCEPT !.gen = @ + 1, !.deleting = TRUE] \in Meta
      <4>1. meta \in Meta /\ meta.gen + 1 \in Nat
        BY DEF TypeOK, Meta
      <4>2. \A n \in Nat : [meta EXCEPT !.gen = n, !.deleting = TRUE] \in Meta
        BY <4>1 DEF Meta
      <4> QED
        BY <4>1, <4>2
    <3> QED
      BY <1>4, <3>1, EmptyTypes DEF TypeOK, DeleteResource
  <2> QED
    BY <1>4, <2>1 DEF TypeOK, DeleteResource, call
<1>5. ASSUME NEW i \in PodId, DeletePod(i) PROVE TypeOK'
  <2>1. pods' \in [PodId -> Pod] /\ spent' \in Budget
    <3>1. pods' = [pods EXCEPT ![i].there = FALSE]
      BY <1>5 DEF DeletePod
    <3>2. spent' \in Budget
      BY <1>5 DEF TypeOK, DeletePod, Budget
    <3> QED
      BY <1>5, <3>1, <3>2, PodsType
  <2> QED
    BY <1>5, <2>1 DEF TypeOK, DeletePod, call, Budget
<1> QED
  BY <1>1, <1>2, <1>3, <1>4, <1>5 DEF Users

LEMMA ClusterType ==
  ASSUME TypeOK, Cluster
  PROVE  TypeOK'
<1>1. ASSUME NEW i \in PodId, PodStarts(i) \/ PodEnds(i) PROVE TypeOK'
  <2>1. \E from, to \in PodPhases : SetPhase(i, from, to)
    BY <1>1 DEF PodStarts, PodEnds, PodSucceeds, PodFails, PodPhases
  <2>2. pods' \in [PodId -> Pod] /\ queued' = TRUE
        /\ UNCHANGED <<meta, status, uids, nextPod, bundles, jobs, call>>
    <3>1. PICK from, to \in PodPhases : SetPhase(i, from, to)
      BY <2>1
    <3> QED
      BY <1>1, <3>1, PodsType DEF SetPhase
  <2>3. spent' \in Budget
    BY <1>1 DEF TypeOK, PodStarts, PodEnds, PodSucceeds, PodFails, Budget
  <2> QED
    BY <2>2, <2>3 DEF TypeOK, call, Budget
<1>2. ASSUME NEW i \in PodId, CollectPod(i) \/ InformerLists(i) PROVE TypeOK'
  <2>1. pods' \in [PodId -> Pod]
    BY <1>2, PodsType DEF CollectPod, InformerLists
  <2> QED
    BY <1>2, <2>1 DEF TypeOK, CollectPod, InformerLists, call
<1>3. ASSUME NEW b \in bundles, CollectBundle(b) PROVE TypeOK'
  BY <1>3 DEF TypeOK, CollectBundle, call
<1>4. CASE Resync
  BY <1>4 DEF TypeOK, Resync, call
<1> QED
  BY <1>1, <1>2, <1>3, <1>4 DEF Cluster

(* The statuses the branches of Reconcile write.                           *)
LEMMA EditedStatusType ==
  ASSUME NEW s \in Status
  PROVE  /\ \A n \in Nat : [s EXCEPT !.prefix = n, !.phase = "initializing"] \in Status
         /\ \A ph \in Phases : [s EXCEPT !.phase = ph] \in Status
         /\ \A st \in StageStates : [s EXCEPT !.stage.state = st] \in Status
         /\ \A ph \in Phases, st \in StageStates :
              [s EXCEPT !.phase = ph, !.stage.state = st] \in Status
         /\ \A st \in StageStates, n \in Nat :
              [s EXCEPT !.stage.state = st, !.stage.podName = n] \in Status
         /\ \A p \in PluginNames : [s EXCEPT !.plugins = @ \cup {p}] \in Status
<1>1. s.stage \in Stage /\ s.plugins \in SUBSET PluginNames /\ "initializing" \in Phases
  BY DEF Status, Phases
<1>2. \A n \in Nat : [s EXCEPT !.prefix = n, !.phase = "initializing"] \in Status
  BY <1>1 DEF Status
<1>3. \A ph \in Phases : [s EXCEPT !.phase = ph] \in Status
  BY DEF Status
<1>4. \A st \in StageStates : [s.stage EXCEPT !.state = st] \in Stage
  BY <1>1 DEF Stage
<1>5. \A st \in StageStates, n \in Nat :
        [s.stage EXCEPT !.state = st, !.podName = n] \in Stage
  BY <1>1 DEF Stage
<1>6. \A g \in Stage : [s EXCEPT !.stage = g] \in Status
  BY DEF Status
<1>7. \A g \in Stage, ph \in Phases : [s EXCEPT !.phase = ph, !.stage = g] \in Status
  BY DEF Status
<1>8. \A p \in PluginNames : [s EXCEPT !.plugins = @ \cup {p}] \in Status
  BY <1>1 DEF Status
<1>9. ASSUME NEW st \in StageStates PROVE [s EXCEPT !.stage.state = st] \in Status
  <2>1. [s EXCEPT !.stage.state = st] = [s EXCEPT !.stage = [s.stage EXCEPT !.state = st]]
    BY <1>1 DEF Status, Stage
  <2> QED
    BY <2>1, <1>4, <1>6
<1>10. ASSUME NEW ph \in Phases, NEW st \in StageStates
       PROVE  [s EXCEPT !.phase = ph, !.stage.state = st] \in Status
  <2>1. [s EXCEPT !.phase = ph, !.stage.state = st]
          = [s EXCEPT !.phase = ph, !.stage = [s.stage EXCEPT !.state = st]]
    BY <1>1 DEF Status, Stage
  <2> QED
    BY <2>1, <1>4, <1>7
<1>11. ASSUME NEW st \in StageStates, NEW n \in Nat
       PROVE  [s EXCEPT !.stage.state = st, !.stage.podName = n] \in Status
  <2>1. [s EXCEPT !.stage.state = st, !.stage.podName = n]
          = [s EXCEPT !.stage = [s.stage EXCEPT !.state = st, !.podName = n]]
    BY <1>1 DEF Status, Stage
  <2> QED
    BY <2>1, <1>5, <1>6
<1> QED
  BY <1>2, <1>3, <1>8, <1>9, <1>10, <1>11

(* The places a call can be at.                                            *)
LEMMA Places ==
  {"idle", "read", "restart", "started", "remove", "plugins"} = PCs /\ AfterRun \in PCs
BY DEF PCs, AfterRun

(* An action that only writes the status keeps the types.                  *)
LEMMA StatusActionType ==
  ASSUME TypeOK, NEW desired \in Status, NEW next \in PCs, NEW failed \in PCs,
         NEW requeue \in BOOLEAN,
         UpdateStatusWithRetry(desired, next, failed, requeue),
         UNCHANGED <<meta, uids, pods, nextPod, bundles>>,
         jobs' \in SUBSET Job, deferred' \in SUBSET PluginNames
  PROVE  TypeOK'
<1>1. /\ status' \in Status /\ queued' \in BOOLEAN /\ pc' \in PCs
      /\ tfMeta' \in Meta /\ tfStatus' \in Status /\ looked' \in BOOLEAN /\ spent' \in Budget
  BY StatusWriteType
<1> QED
  BY <1>1 DEF TypeOK, Budget

(* The steps of Reconcile, one at a time.                                  *)
LEMMA ReconcileType ==
  ASSUME TypeOK, Reconcile
  PROVE  TypeOK'
<1> USE Places
<1>0. /\ prepared \in Status /\ newStage \in SUBSET Status /\ tfStatus \in Status
      /\ tfMeta \in Meta /\ jobs \in SUBSET Job /\ deferred \in SUBSET PluginNames
  BY PreparedStatus DEF TypeOK
<1> HIDE DEF prepared, newStage
<1>1. CASE GetResource
  BY <1>1 DEF TypeOK, GetResource
<1>2. CASE ResourceNotFound
  BY <1>2 DEF TypeOK, ResourceNotFound, call
<1>3. CASE UpdateFinalizer
  <2> DEFINE finalizer == UpdatedFinalizer(tfMeta, tfStatus)
  <2>1. finalizer \in BOOLEAN
    BY <1>0 DEF UpdatedFinalizer, Meta
  <2> HIDE DEF finalizer
  <2>2. Update(finalizer) /\ Return /\ UNCHANGED <<uids, pods, nextPod, bundles, jobs, deferred>>
    BY <1>3 DEF UpdateFinalizer, finalizer
  <2>3. meta' \in Meta /\ status' \in Status /\ queued' \in BOOLEAN /\ spent' \in Budget
    BY <2>1, <2>2, UpdateType
  <2>4. pc' \in PCs /\ tfMeta' \in Meta /\ tfStatus' \in Status /\ looked' \in BOOLEAN
    BY <2>2, GoOnType, EmptyTypes DEF Return
  <2> QED
    BY <2>2, <2>3, <2>4 DEF TypeOK, Budget
<1>4. CASE InitializeStatus
  <2>1. [tfStatus EXCEPT !.prefix = tfMeta.uid, !.phase = "initializing"] \in Status
    BY <1>0, EditedStatusType DEF Meta
  <2> QED
    BY <1>0, <1>4, <2>1, StatusActionType DEF InitializeStatus
<1>5. CASE AddFirstStage
  <2>1. FirstStage(tfMeta, tfStatus) \in Status
    BY <1>0, FirstStageType
  <2> QED
    BY <1>0, <1>5, <2>1, StatusActionType DEF AddFirstStage
<1>6. CASE SetNewStage
  <2>1. PICK s \in newStage : UpdateStatusWithRetry(s, "idle", "idle", FALSE)
    BY <1>6 DEF SetNewStage
  <2> QED
    BY <1>0, <1>6, <2>1, StatusActionType DEF SetNewStage
<1>7. CASE RemoveOldPlan
  <2>1. PICK s \in newStage : GoOn("restart", s)
    BY <1>7 DEF RemoveOldPlan
  <2>2. pc' \in PCs /\ tfMeta' \in Meta /\ tfStatus' \in Status /\ looked' \in BOOLEAN
    BY <1>0, <2>1, GoOnType
  <2>3. pods' \in [PodId -> Pod]
    BY <1>7, PodsLeaveType DEF RemoveOldPlan, TypeOK
  <2>4. queued' \in BOOLEAN
    <3> DEFINE old == OldPlanPods(tfMeta, prepared)
    <3>1. queued' = (queued \/ old # {}) \/ queued' = queued
      BY <1>7 DEF RemoveOldPlan
    <3> QED
      BY <3>1 DEF TypeOK
  <2>5. spent' \in Budget
    BY <1>7, FaultType DEF RemoveOldPlan, TypeOK, Budget
  <2> QED
    BY <1>7, <2>2, <2>3, <2>4, <2>5 DEF TypeOK, RemoveOldPlan, Budget
<1>8. CASE RestartWorkflow
  BY <1>0, <1>8, StatusActionType DEF RestartWorkflow
<1>9. CASE EndWorkflow
  <2> DEFINE ph == IF prepared.phase = "running" THEN "completed" ELSE "deleted"
  <2>1. ph \in Phases
    BY DEF Phases
  <2> HIDE DEF ph
  <2>2. [prepared EXCEPT !.phase = ph] \in Status
    BY <1>0, <2>1, EditedStatusType
  <2>3. UpdateStatusWithRetry([prepared EXCEPT !.phase = ph], "idle", "idle", TRUE)
    BY <1>9 DEF EndWorkflow, ph
  <2> QED
    BY <1>0, <1>9, <2>2, <2>3, StatusActionType DEF EndWorkflow
<1>10. CASE NothingToDo
  <2>1. pc' \in PCs /\ tfMeta' \in Meta /\ tfStatus' \in Status /\ looked' \in BOOLEAN
    BY <1>10, GoOnType, EmptyTypes DEF NothingToDo, Return
  <2> QED
    BY <1>10, <2>1 DEF TypeOK, NothingToDo, cluster
<1>18. CASE LookForPod
  <2>1. spent' \in Budget
    BY <1>18, FaultType DEF LookForPod, TypeOK, Budget
  <2> QED
    BY <1>18, <2>1 DEF TypeOK, LookForPod, cluster, Budget
<1>19. CASE ListFails
  <2>1. pc' \in PCs /\ tfMeta' \in Meta /\ tfStatus' \in Status /\ looked' \in BOOLEAN
    BY <1>19, GoOnType, EmptyTypes DEF ListFails, Return
  <2>2. spent' \in Budget
    BY <1>19, FaultType DEF ListFails
  <2> QED
    BY <1>19, <2>1, <2>2 DEF TypeOK, ListFails, cluster, Budget
<1>11. CASE ResetStage
  <2>1. [prepared EXCEPT !.stage.state = "initializing"] \in Status
    BY <1>0, EditedStatusType DEF StageStates
  <2> QED
    BY <1>0, <1>11, <2>1, StatusActionType DEF ResetStage
<1>12. CASE SetupAndRun
  <2> DEFINE pod == [prefix |-> prepared.prefix, owner |-> tfMeta.uid,
                     task |-> prepared.stage.task,
                     gen |-> prepared.stage.gen, ver |-> tfMeta.gen,
                     phase |-> "Pending", there |-> TRUE, listed |-> ~PodLag]
             ph == IF prepared.phase = "initializing" THEN "running"
                   ELSE IF prepared.phase = "initializing-delete" THEN "deleting"
                   ELSE prepared.phase
  <2>1. pod \in Pod
    BY <1>0 DEF Pod, Status, Stage, Meta, PodPhases
  <2>2. ph \in Phases /\ "in-progress" \in StageStates
    BY <1>0 DEF Status, Phases, StageStates
  <2>3. nextPod \in PodId /\ nextPod + 1 \in Nat
    <3>1. SetupAndRun => nextPod <= MaxPods
      BY DEF SetupAndRun
    <3>2. nextPod \in Nat \ {0}
      BY DEF TypeOK
    <3> QED
      BY <1>12, <3>1, <3>2, PodNumbers
  <2>4. TaskBundle \in Bundle
    BY <1>0 DEF TaskBundle, Bundle, Status, Meta
  <2> HIDE DEF pod, ph, TaskBundle
  <2>5. bundles' \in SUBSET Bundle
    BY <1>12, <2>4 DEF SetupAndRun, TypeOK
  <2>6. pods' \in [PodId -> Pod]
    <3>1. pods' = [pods EXCEPT ![nextPod] = pod]
      BY <1>12 DEF SetupAndRun, pod
    <3> QED
      BY <2>1, <2>3, <3>1, PodsType
  <2>7. pc' \in PCs /\ tfMeta' \in Meta /\ tfStatus' \in Status /\ looked' \in BOOLEAN
    <3>1. GoOn("started", [prepared EXCEPT !.phase = ph, !.stage.state = "in-progress"])
      BY <1>12 DEF SetupAndRun, ph
    <3>2. [prepared EXCEPT !.phase = ph, !.stage.state = "in-progress"] \in Status
      BY <1>0, <2>2, EditedStatusType
    <3> QED
      BY <3>1, <3>2, GoOnType
  <2>8. deferred' \in SUBSET PluginNames
    BY <1>12 DEF SetupAndRun, PluginsDue
  <2> QED
    BY <1>12, <2>3, <2>5, <2>6, <2>7, <2>8 DEF SetupAndRun, TypeOK
<1>13. CASE SetupFails
  <2>1. TaskBundle \in Bundle
    BY <1>0 DEF TaskBundle, Bundle, Status, Meta
  <2>2. deferred' \in SUBSET PluginNames
    BY <1>13 DEF SetupFails, PluginsDue
  <2>3. pc' \in PCs /\ tfMeta' \in Meta /\ tfStatus' \in Status /\ looked' \in BOOLEAN
    BY <1>0, <1>13, GoOnType DEF SetupFails
  <2> HIDE DEF TaskBundle
  <2>4. bundles' \in SUBSET Bundle
    BY <1>13, <2>1 DEF SetupFails, TypeOK
  <2>5. spent' \in Budget
    BY <1>13, FaultType DEF SetupFails, TypeOK, Budget
  <2> QED
    BY <1>13, <2>2, <2>3, <2>4, <2>5 DEF SetupFails, TypeOK, Budget
<1>14. CASE SaveStarted
  BY <1>0, <1>14, StatusActionType DEF SaveStarted
<1>15. ASSUME NEW p \in PluginNames, CreatePluginJob(p) PROVE TypeOK'
  <2> DEFINE first == [plugin |-> p, owner |-> tfMeta.uid, gen |-> tfMeta.gen, again |-> FALSE]
  <2>1. [first EXCEPT !.again = first \in jobs] \in Job
    <3>1. \A b \in BOOLEAN : [first EXCEPT !.again = b] \in Job
      BY <1>0 DEF Job, Meta
    <3>2. (first \in jobs) \in BOOLEAN
      OBVIOUS
    <3> QED
      BY <3>1, <3>2
  <2> HIDE DEF first
  <2>2. jobs' \in SUBSET Job
    BY <1>0, <1>15, <2>1 DEF CreatePluginJob, first
  <2>3. deferred' \in SUBSET PluginNames
    BY <1>0, <1>15 DEF CreatePluginJob
  <2>4. [tfStatus EXCEPT !.plugins = @ \cup {p}] \in Status
    BY <1>0, EditedStatusType
  <2> QED
    BY <1>15, <2>2, <2>3, <2>4, StatusActionType DEF CreatePluginJob
<1>16. ASSUME NEW i \in PodId, FoundPod(i) PROVE TypeOK'
  <2> DEFINE next == IF pods[i].phase = "Succeeded" /\ ~KeepPods THEN "remove" ELSE "idle"
             desired == [prepared EXCEPT !.stage.state = StageStateOf(pods[i].phase),
                                         !.stage.podName = i]
  <2>1. pods[i].phase \in PodPhases
    BY DEF TypeOK, Pod
  <2>2. StageStateOf(pods[i].phase) \in StageStates
    BY <2>1 DEF StageStateOf, StageStates, PodPhases
  <2>3. i \in Nat
    BY PodNumbers
  <2>4. desired \in Status
    BY <1>0, <2>2, <2>3, EditedStatusType
  <2>5. UpdateStatusWithRetry(desired, next, "idle", TRUE)
    BY <1>16 DEF FoundPod
  <2>6. next \in PCs
    OBVIOUS
  <2> HIDE DEF next, desired
  <2> QED
    BY <1>0, <1>16, <2>4, <2>5, <2>6, StatusActionType DEF FoundPod
<1>17. CASE RemovePod
  <2>1. pods' \in [PodId -> Pod] /\ queued' \in BOOLEAN
    <3>1. CASE pods' = pods
      BY <1>17, <3>1 DEF RemovePod, TypeOK
    <3>2. CASE /\ pods' = [i \in PodId |->
                            [pods[i] EXCEPT !.there = @ /\ i # tfStatus.stage.podName]]
               /\ queued' = TRUE
      <4>1. \A i \in PodId :
              [pods[i] EXCEPT !.there = @ /\ i # tfStatus.stage.podName] \in Pod
        <5> TAKE i \in PodId
        <5>1. pods[i] \in Pod /\ (pods[i].there /\ i # tfStatus.stage.podName) \in BOOLEAN
          BY DEF TypeOK, Pod
        <5> QED
          BY <5>1 DEF Pod
      <4> QED
        BY <3>2, <4>1
    <3> QED
      BY <1>17, <3>1, <3>2 DEF RemovePod
  <2>2. pc' \in PCs /\ tfMeta' \in Meta /\ tfStatus' \in Status /\ looked' \in BOOLEAN
    BY <1>17, GoOnType, EmptyTypes DEF RemovePod, Return
  <2>3. spent' \in Budget
    BY <1>17, FaultType DEF RemovePod, TypeOK, Budget
  <2> QED
    BY <1>17, <2>1, <2>2, <2>3 DEF RemovePod, TypeOK, Budget
<1> QED
  BY <1>1, <1>2, <1>3, <1>4, <1>5, <1>6, <1>7, <1>8, <1>9, <1>10, <1>11, <1>12,
     <1>13, <1>14, <1>15, <1>16, <1>17, <1>18, <1>19 DEF Reconcile

LEMMA CrashType ==
  ASSUME TypeOK, Crash
  PROVE  TypeOK'
<1>1. pc' \in PCs /\ tfMeta' \in Meta /\ tfStatus' \in Status /\ looked' \in BOOLEAN
  BY GoOnType, EmptyTypes, Places DEF Crash, Return
<1>2. spent' \in Budget
  BY FaultType DEF Crash
<1> QED
  BY <1>1, <1>2 DEF Crash, TypeOK, Budget

-----------------------------------------------------------------------------
(* Whatever users, the cluster and the environment do, every status the    *)
(* controller writes, every pod and job it creates and every copy its      *)
(* calls hold is one of the API's phases, stages, tasks and states.        *)
THEOREM TypeCorrect == Spec => []TypeOK
<1>1. Init => TypeOK
  <2> SUFFICES ASSUME Init PROVE TypeOK
    OBVIOUS
  <2>1. pods \in [PodId -> Pod]
    BY EmptyTypes DEF Init
  <2>2. meta \in Meta /\ status \in Status /\ tfMeta \in Meta /\ tfStatus \in Status
    BY EmptyTypes DEF Init
  <2>3. spent \in [labels: Nat, failures: Nat, evictions: Nat, faults: Nat]
    BY DEF Init
  <2>4. uids \in Nat /\ nextPod \in Nat \ {0} /\ pc \in PCs
    BY DEF Init, PCs
  <2>6. queued \in BOOLEAN
    BY DEF Init
  <2>5. /\ bundles \in SUBSET Bundle /\ jobs \in SUBSET Job
        /\ deferred \in SUBSET PluginNames /\ looked \in BOOLEAN
    BY DEF Init
  <2> QED
    BY <2>1, <2>2, <2>3, <2>4, <2>5, <2>6 DEF TypeOK
<1>2. TypeOK /\ [Next]_vars => TypeOK'
  <2> SUFFICES ASSUME TypeOK, [Next]_vars PROVE TypeOK'
    OBVIOUS
  <2>1. CASE UNCHANGED vars
    BY <2>1 DEF TypeOK, vars, cluster, call
  <2> QED
    BY <2>1, UsersType, ClusterType, ReconcileType, CrashType DEF Next
<1> QED
  BY <1>1, <1>2, PTL DEF Spec

-----------------------------------------------------------------------------
(***************************************************************************)
(* A resource is released only after its destroy workflow has applied, for *)
(* any tasks, plugins, edits, evictions and faults, any number of          *)
(* incarnations and of pods.  Three things break it in the code and are    *)
(* assumed away: retries, a deletion before the first stage is written,    *)
(* and spec.ignoreDelete (which gives the finalizer up on purpose).        *)
(***************************************************************************)
DeletionIsPlain ==
  IgnoreDeletes \subseteq {FALSE} /\ RetryLabels = {} /\ DeleteBeforeFirstStage = FALSE

(* The tasks of a stage of the destroy workflow, or of one that is over.   *)
DestroyStages == DeleteTasks \cup {RunNil}

(* s has passed the task that destroys.                                    *)
PastDestroy(m, s) ==
  \/ s.stage.task \in DeleteTasks /\ Before("apply-delete", s.stage.task)
  \/ s.stage.task = "apply-delete" /\ s.stage.state = "complete"
  \/ s.stage.task = RunNil /\ s.phase \in {"deleting", "deleted"}
  \/ s.stage.task = RunNil /\ m.deleting /\ s.stage.gen = m.gen

(* What a resource with metadata m may show as its status: it was written  *)
(* for this incarnation, and once the deletion has its generation the      *)
(* stage belongs to the destroy workflow.                                  *)
Sound(m, s) ==
  /\ s.stage.gen <= m.gen
  /\ s.prefix \in {0, m.uid}
  /\ s.phase \in DeletePhases => m.deleting
  /\ m.deleting => s.stage.gen # 0
  /\ m.deleting /\ s.stage.gen = m.gen => s.stage.task \in DestroyStages
  /\ s.phase \in {"deleting", "deleted"} => s.stage.task \in DestroyStages
  /\ s.phase = "deleted" \/ PastDestroy(m, s) => Destroyed(m.uid)

(* A call past the finalizer works on a resource that cannot go away under *)
(* it, so its copy is of this incarnation, only older.                     *)
CallHoldsResource ==
  /\ pc \notin {"idle", "read"} => tfMeta.finalizer /\ tfStatus.stage.gen # 0
  /\ pc # "idle" /\ tfMeta.finalizer =>
       /\ meta.finalizer /\ meta.uid = tfMeta.uid
       /\ tfMeta.gen <= meta.gen
       /\ tfMeta.deleting => meta.deleting
       /\ tfMeta.gen = meta.gen /\ meta.deleting => tfMeta.deleting
       /\ pc = "read" => status = tfStatus

(* Pods not created yet leave no trace; the prefix of a pod is its owner's. *)
PodsAreTraced ==
  \A i \in PodId : /\ pods[i].owner = pods[i].prefix
                   /\ i >= nextPod => ~pods[i].there /\ pods[i].phase = "Pending"

ResourceExists ==
  /\ meta.uid # 0 => meta.gen > 0
  /\ tfMeta.uid # 0 => tfMeta.gen > 0
  /\ pc # "idle" => tfMeta.uid # 0
  /\ meta.uid = 0 => meta = NoMeta
  /\ ~meta.ignoreDelete /\ ~tfMeta.ignoreDelete

DeletionSound ==
  /\ Sound(meta, status)
  /\ Sound(tfMeta, tfStatus)
  /\ CallHoldsResource
  /\ PodsAreTraced
  /\ ResourceExists

DeletionInv == TypeOK /\ DeletionSound

-----------------------------------------------------------------------------
(* The decisions: what Reconcile makes of a sound copy is sound.           *)
LEMMA ApplyDeleteAhead ==
  ASSUME NEW t \in DeleteTasks,
         t # "apply-delete", ~Before("apply-delete", t)
  PROVE  LET n == NextTask(t, Configured)
         IN  n \in DeleteTasks /\ ~Before("apply-delete", n)
<1>1. "apply-delete" \in TaskName /\ t \in TaskName /\ DeleteTasks \cap CreateTasks = {}
  BY DeleteTaskIDs, ListsAreInjective DEF TaskName
<1>2. Before(t, "apply-delete")
  BY <1>1, TaskIDs DEF Before
<1>3. "apply-delete" \in LaterTasks(t, Configured)
  BY <1>1, <1>2, DeleteTaskIDs
     DEF LaterTasks, WorkflowOf, Configured, GetConfiguredTasks, AlwaysConfigured
<1> DEFINE n == NextTask(t, Configured)
<1>4. n \in LaterTasks(t, Configured) /\ (n = "apply-delete" \/ Before(n, "apply-delete"))
  BY <1>3, NextTaskSkipsNone
<1>5. n \in DeleteTasks
  BY <1>1, <1>4 DEF LaterTasks, WorkflowOf
<1>6. ID(n) \in Nat /\ ID("apply-delete") \in Nat
  BY <1>1, <1>5, TaskIDs DEF TaskName
<1> QED
  BY <1>4, <1>5, <1>6 DEF Before

LEMMA NextTaskKeepsWorkflow ==
  /\ \A t \in DestroyStages : NextTask(t, Configured) \in DestroyStages
  /\ \A t \in CreateTasks : NextTask(t, Configured) \in CreateTasks \cup {RunNil}
<1>1. WorkflowOf(RunNil) = {} /\ DeleteTasks \cap CreateTasks = {}
  BY ListsAreInjective, NilIsNoTask DEF WorkflowOf
<1>2. /\ \A t \in DeleteTasks : WorkflowOf(t) = DeleteTasks
      /\ \A t \in CreateTasks : WorkflowOf(t) = CreateTasks
  BY <1>1 DEF WorkflowOf
<1> QED
  BY <1>1, <1>2, NextTaskInWorkflow DEF DestroyStages

LEMMA NoRetries ==
  ASSUME DeletionIsPlain, NEW m \in Meta, NEW s
  PROVE  ~IsRetry(m, s)
BY DEF DeletionIsPlain, Meta, IsRetry

LEMMA PreparedSound ==
  ASSUME DeletionIsPlain, NEW m \in Meta, NEW s \in Status, NEW now \in Nat, Sound(m, s)
  PROVE  LET p == Prepared(m, s, now)
         IN  /\ p \in Status /\ Sound(m, p)
             /\ p.stage = s.stage /\ p.prefix = s.prefix
             /\ m.deleting => IsDeleting(p)
<1> DEFINE p == Prepared(m, s, now)
<1>1. p = MarkedDeletion(m, s)
  BY NoRetries DEF Prepared
<1>2. CASE m.deleting /\ s.phase \notin DeletePhases
  <2>1. p = [s EXCEPT !.phase = "initializing-delete"]
    BY <1>1, <1>2 DEF MarkedDeletion
  <2>2. /\ p.stage = s.stage /\ p.prefix = s.prefix /\ p.phase = "initializing-delete"
        /\ p \in Status
    BY <2>1 DEF Status, Phases
  <2> HIDE DEF p
  <2>3. PastDestroy(m, p) => PastDestroy(m, s)
    BY <2>2 DEF PastDestroy
  <2> QED
    BY <1>2, <2>2, <2>3 DEF Sound, p, IsDeleting, DeletePhases
<1>3. CASE ~(m.deleting /\ s.phase \notin DeletePhases)
  BY <1>1, <1>3 DEF MarkedDeletion, IsDeleting
<1> QED
  BY <1>2, <1>3

LEMMA NewStageFields ==
  ASSUME NEW m \in Meta, NEW s \in Status, NEW task, NEW reason, NEW interruptible, NEW state
  PROVE  LET n == NewStage(m, s, task, reason, interruptible, state)
         IN  /\ n.stage.gen = m.gen /\ n.stage.task = task /\ n.stage.state = state
             /\ n.prefix = s.prefix
             /\ reason # "GENERATION_CHANGE" => n.phase = s.phase
             /\ reason = "GENERATION_CHANGE" => n.phase = "initializing"
BY DEF NewStage, Status

LEMMA NewStageSound ==
  ASSUME NEW m \in Meta, NEW s \in Status, NEW podGone \in BOOLEAN, Sound(m, s),
         m.deleting => IsDeleting(s), m.gen > 0,
         NEW n \in CheckSetNewStage(m, s, FALSE, podGone)
  PROVE  Sound(m, n) /\ n.stage.gen # 0
<1> DEFINE Follows(task, state) ==
      n.stage.gen = m.gen /\ n.stage.task = task /\ n.stage.state = state
      /\ n.prefix = s.prefix
<1>1. ASSUME n = GenerationStage(m, s) PROVE Sound(m, n) /\ n.stage.gen = m.gen
  <2>1. CASE IsDeleting(s)
    <3>1. Follows("setup-delete", "initializing") /\ n.phase = s.phase
      BY <1>1, <2>1, NewStageFields DEF GenerationStage
    <3>2. /\ "setup-delete" \in DestroyStages /\ "setup-delete" # RunNil
          /\ ~Before("apply-delete", "setup-delete")
      BY DeleteTaskIDs DEF DestroyStages, RunNil, Before
    <3>3. ~PastDestroy(m, n)
      BY <3>1, <3>2 DEF PastDestroy
    <3> QED
      BY <3>1, <3>2, <3>3 DEF Sound, Meta
  <2>2. CASE ~IsDeleting(s)
    <3>1. Follows("setup", "initializing") /\ n.phase = "initializing"
      <4>1. n = NewStage(m, s, "setup", "GENERATION_CHANGE", TRUE, "initializing")
        BY <1>1, <2>2 DEF GenerationStage
      <4> QED
        BY <4>1 DEF NewStage, Status
    <3>2. ~m.deleting
      BY <2>2
    <3>3. ~PastDestroy(m, n)
      BY <3>1, <3>2, SetupIsNoDelete DEF PastDestroy, RunNil
    <3> QED
      BY <3>1, <3>2, <3>3 DEF Sound, Meta, DeletePhases
  <2> QED
    BY <2>1, <2>2
<1>2. ASSUME n = CompletedStage(m, s), s.stage.gen = m.gen, s.stage.state = "complete",
             s.stage.task # RunNil
      PROVE  Sound(m, n) /\ n.stage.gen = m.gen
  <2> DEFINE t == s.stage.task
             task == NextTask(t, Configured)
             state == IF task = RunNil THEN "complete" ELSE "initializing"
  <2>1. Follows(task, state) /\ n.phase = s.phase
    BY <1>2, NewStageFields DEF CompletedStage
  <2>2. t \in CreateTasks \cup DeleteTasks
    BY <1>2 DEF Status, Stage, TaskName
  <2>3. CASE t \in DeleteTasks
    <3>1. task \in DestroyStages
      BY <2>3, NextTaskKeepsWorkflow DEF DestroyStages
    <3>2. PastDestroy(m, n) => PastDestroy(m, s)
      <4>1. CASE t = "apply-delete" \/ Before("apply-delete", t)
        BY <1>2, <2>3, <4>1 DEF PastDestroy
      <4>2. CASE t # "apply-delete" /\ ~Before("apply-delete", t)
        <5>1. task \in DeleteTasks /\ ~Before("apply-delete", task) /\ task # RunNil
          BY <2>3, <4>2, ApplyDeleteAhead, NilIsNoTask
        <5>2. ~PastDestroy(m, n)
          BY <2>1, <5>1 DEF PastDestroy
        <5> QED
          BY <5>2
      <4> QED
        BY <4>1, <4>2
    <3> QED
      BY <2>1, <3>1, <3>2 DEF Sound, Meta
  <2>4. CASE t \in CreateTasks
    <3>1. ~m.deleting /\ s.phase \notin {"deleting", "deleted"}
      BY <1>2, <2>4, SetupIsNoDelete, NilIsNoTask DEF Sound, DestroyStages
    <3>2. task \in CreateTasks \cup {RunNil}
      BY <2>4, NextTaskKeepsWorkflow
    <3>3. ~PastDestroy(m, n)
      BY <2>1, <3>1, <3>2, SetupIsNoDelete, NilIsNoTask, DeleteTaskIDs DEF PastDestroy
    <3> QED
      BY <2>1, <3>1, <3>3 DEF Sound, Meta
  <2> QED
    BY <2>2, <2>3, <2>4
<1>3. ASSUME n = RestartStage(m, s), s.stage.gen = m.gen,
             s.stage.task \in {"apply", "apply-delete"}
      PROVE  Sound(m, n) /\ n.stage.gen = m.gen
  <2>1. CASE s.stage.task = "apply-delete"
    <3> DEFINE task == NextTask("postinit-delete", Configured)
    <3>1. Follows(task, "initializing") /\ n.phase = s.phase
      BY <1>3, <2>1, NewStageFields DEF RestartStage
    <3>2. task \in DeleteTasks /\ ~Before("apply-delete", task) /\ task # RunNil
      BY DeleteTaskIDs, ApplyDeleteAhead, NilIsNoTask DEF Before
    <3>3. ~PastDestroy(m, n)
      BY <3>1, <3>2 DEF PastDestroy
    <3> QED
      BY <3>1, <3>2, <3>3 DEF Sound, Meta, DestroyStages
  <2>2. CASE s.stage.task = "apply"
    <3> DEFINE task == NextTask("postinit", Configured)
    <3>1. Follows(task, "initializing") /\ n.phase = s.phase
      BY <1>3, <2>2, NewStageFields DEF RestartStage
    <3>2. task \in CreateTasks \cup {RunNil}
      BY NextTaskKeepsWorkflow, SetupIsNoDelete
    <3>3. ~m.deleting /\ s.phase \notin {"deleting", "deleted"}
      BY <1>3, <2>2, SetupIsNoDelete, NilIsNoTask DEF Sound, DestroyStages
    <3>4. ~PastDestroy(m, n)
      BY <3>1, <3>2, <3>3, SetupIsNoDelete, NilIsNoTask DEF PastDestroy
    <3> QED
      BY <3>1, <3>3, <3>4 DEF Sound, Meta
  <2> QED
    BY <1>3, <2>1, <2>2
<1> QED
  BY <1>1, <1>2, <1>3 DEF CheckSetNewStage, IsNewGeneration, IsFailedApply, Meta

LEMMA FirstStageSound ==
  ASSUME NEW m \in Meta, NEW s \in Status, Sound(m, s), s.stage.gen = 0, m.gen > 0
  PROVE  Sound(m, FirstStage(m, s)) /\ FirstStage(m, s).stage.gen # 0
<1> DEFINE n == FirstStage(m, s)
<1>1. /\ n.stage.gen = m.gen /\ n.stage.task = "setup" /\ n.phase = s.phase
      /\ n.prefix = s.prefix
  BY DEF FirstStage, NewStage, Status
<1>2. ~m.deleting /\ s.phase \notin DeletePhases
  BY DEF Sound
<1> HIDE DEF n
<1>3. ~PastDestroy(m, n)
  BY <1>1, <1>2, SetupIsNoDelete DEF PastDestroy, RunNil
<1> QED
  BY <1>1, <1>2, <1>3 DEF Sound, Meta, n, DeletePhases

-----------------------------------------------------------------------------
(* The steps.  What was destroyed stays so, and pods keep their traces.    *)
LEMMA SetPhaseKeeps ==
  ASSUME TypeOK, PodsAreTraced, NEW i \in PodId, NEW from, NEW to,
         from \in {"Pending", "Running"}, SetPhase(i, from, to), UNCHANGED nextPod
  PROVE  PodsAreTraced' /\ \A u : Destroyed(u) => Destroyed(u)'
<1>1. /\ pods \in [PodId -> Pod] /\ pods[i].there /\ pods[i].phase = from
      /\ pods' = [pods EXCEPT ![i].phase = to]
  BY DEF TypeOK, SetPhase
<1>2. /\ \A j \in PodId \ {i} : pods'[j] = pods[j]
      /\ pods'[i] = [pods[i] EXCEPT !.phase = to]
  BY <1>1
<1>3. /\ pods'[i].owner = pods[i].owner /\ pods'[i].prefix = pods[i].prefix
      /\ pods'[i].there = pods[i].there
  BY <1>1, <1>2 DEF Pod
<1>4. ~(i >= nextPod)
  BY <1>1 DEF PodsAreTraced
<1>5. PodsAreTraced'
  <2> SUFFICES ASSUME NEW j \in PodId
               PROVE  /\ pods'[j].owner = pods'[j].prefix
                      /\ j >= nextPod => ~pods'[j].there /\ pods'[j].phase = "Pending"
    BY DEF PodsAreTraced
  <2>1. CASE j = i
    BY <2>1, <1>3, <1>4 DEF PodsAreTraced
  <2>2. CASE j # i
    BY <2>2, <1>2 DEF PodsAreTraced
  <2> QED
    BY <2>1, <2>2
<1>6. pods[i].phase # "Succeeded"
  BY <1>1
<1>7. \A u : Destroyed(u) => Destroyed(u)'
  BY <1>2, <1>6 DEF Destroyed
<1> QED
  BY <1>5, <1>7

(* Pods that leave or are listed change nothing else.                      *)
LEMMA OnlyPresenceKeeps ==
  ASSUME TypeOK, PodsAreTraced, UNCHANGED nextPod,
         \A i \in PodId :
           /\ pods'[i].owner = pods[i].owner /\ pods'[i].prefix = pods[i].prefix
           /\ pods'[i].task = pods[i].task /\ pods'[i].phase = pods[i].phase
           /\ pods'[i].there => pods[i].there
  PROVE  PodsAreTraced' /\ \A u : Destroyed(u) => Destroyed(u)'
<1>1. PodsAreTraced'
  BY DEF PodsAreTraced
<1>2. \A u : Destroyed(u) => Destroyed(u)'
  BY DEF Destroyed
<1> QED
  BY <1>1, <1>2

(* The copies of a step that leaves the resource and the call alone.       *)
LEMMA QuietKeeps ==
  ASSUME DeletionSound, UNCHANGED <<meta, status, pc, tfMeta, tfStatus>>, PodsAreTraced',
         \A u : Destroyed(u) => Destroyed(u)'
  PROVE  DeletionSound'
<1>1. Sound(meta, status)' /\ Sound(tfMeta, tfStatus)'
  BY DEF DeletionSound, Sound, PastDestroy
<1>2. CallHoldsResource' /\ ResourceExists'
  BY DEF DeletionSound, CallHoldsResource, ResourceExists
<1> QED
  BY <1>1, <1>2 DEF DeletionSound

LEMMA EmptySound ==
  /\ EmptyStatus.stage.gen = 0 /\ EmptyStatus.stage.task = RunNil /\ EmptyStatus.prefix = 0
  /\ EmptyStatus.phase = "" /\ EmptyStatus.phase \notin DeletePhases
  /\ NoMeta.gen = 0 /\ NoMeta.uid = 0 /\ ~NoMeta.deleting /\ ~NoMeta.finalizer
  /\ ~NoMeta.ignoreDelete
  /\ RunNil \notin DeleteTasks /\ RunNil # "apply-delete" /\ RunNil \in DestroyStages
BY NilIsNoTask DEF EmptyStatus, EmptyStage, NoMeta, DeletePhases, RunNil, DestroyStages

LEMMA EmptyCallSound ==
  ASSUME tfMeta' = NoMeta, tfStatus' = EmptyStatus
  PROVE  Sound(tfMeta, tfStatus)'
<1>1. ~PastDestroy(tfMeta', tfStatus')
  BY EmptySound DEF PastDestroy
<1>2. tfStatus'.stage.gen = 0 /\ tfMeta'.gen = 0 /\ tfStatus'.prefix = 0
  BY EmptySound
<1>3. tfStatus'.phase \notin DeletePhases /\ tfStatus'.phase \notin {"deleting", "deleted"}
      /\ ~tfMeta'.deleting
  BY EmptySound DEF DeletePhases
<1> QED
  BY <1>1, <1>2, <1>3 DEF Sound

(* A status the call may write over whatever the resource shows.           *)
LEMMA DesiredSound ==
  ASSUME DeletionInv, pc # "idle", tfMeta.finalizer, NEW d \in Status, Sound(tfMeta, d),
         meta.deleting => d.stage.gen # 0
  PROVE  Sound(meta, d)
<1>1. /\ meta.uid = tfMeta.uid /\ tfMeta.gen <= meta.gen
      /\ tfMeta.deleting => meta.deleting
      /\ tfMeta.gen = meta.gen /\ meta.deleting => tfMeta.deleting
  BY DEF DeletionInv, DeletionSound, CallHoldsResource
<1>2. d.stage.gen \in Nat /\ tfMeta.gen \in Nat /\ meta.gen \in Nat
  BY DEF DeletionInv, TypeOK, Status, Stage, Meta
<1>3. d.stage.gen <= tfMeta.gen
  BY DEF Sound
<1>4. meta.deleting /\ d.stage.gen = meta.gen => tfMeta.deleting /\ d.stage.gen = tfMeta.gen
  BY <1>1, <1>2, <1>3
<1>5. PastDestroy(meta, d) => PastDestroy(tfMeta, d)
  BY <1>4 DEF PastDestroy
<1> QED
  BY <1>1, <1>2, <1>3, <1>4, <1>5 DEF Sound

(* A call that only writes a status.                                       *)
LEMMA StatusWriteKeeps ==
  ASSUME DeletionInv, pc # "idle", tfMeta.finalizer, NEW d \in Status, Sound(tfMeta, d),
         meta.deleting => d.stage.gen # 0,
         NEW next, NEW failed, NEW requeue,
         next # "read", next # "idle" => d.stage.gen # 0,
         failed # "read", failed # "idle" => d.stage.gen # 0,
         UpdateStatusWithRetry(d, next, failed, requeue),
         UNCHANGED <<meta, pods, nextPod>>
  PROVE  DeletionSound'
<1>1. /\ status' \in {status, d}
      /\ \E place \in {next, failed} : GoOn(place, d)
  BY DEF UpdateStatusWithRetry
<1>2. Sound(meta, d) /\ Sound(meta, status) /\ Sound(tfMeta, tfStatus)
  BY DesiredSound DEF DeletionInv, DeletionSound
<1>3. Sound(meta, status)'
  BY <1>1, <1>2 DEF Sound, PastDestroy, Destroyed
<1>4. PICK place \in {next, failed} : GoOn(place, d)
  BY <1>1
<1>5. place # "read" /\ (place # "idle" => d.stage.gen # 0)
  BY <1>4
<1>6. CASE place = "idle"
  <2>1. pc' = "idle" /\ tfMeta' = NoMeta /\ tfStatus' = EmptyStatus
    BY <1>4, <1>6 DEF GoOn
  <2>2. Sound(tfMeta, tfStatus)'
    BY <2>1, EmptyCallSound
  <2>3. CallHoldsResource'
    BY <2>1 DEF CallHoldsResource
  <2>4. ResourceExists'
    BY <2>1 DEF DeletionInv, DeletionSound, ResourceExists, NoMeta
  <2> QED
    BY <1>3, <2>2, <2>3, <2>4 DEF DeletionInv, DeletionSound, PodsAreTraced
<1>7. CASE place # "idle"
  <2>1. pc' = place /\ tfMeta' = tfMeta /\ tfStatus' = d
    BY <1>4, <1>7 DEF GoOn
  <2>2. Sound(tfMeta, tfStatus)'
    BY <2>1 DEF Sound, PastDestroy, Destroyed
  <2>3. CallHoldsResource'
    BY <1>5, <1>7, <2>1 DEF DeletionInv, DeletionSound, CallHoldsResource
  <2>4. ResourceExists'
    BY <2>1 DEF DeletionInv, DeletionSound, ResourceExists
  <2> QED
    BY <1>3, <2>2, <2>3, <2>4 DEF DeletionInv, DeletionSound, PodsAreTraced
<1> QED
  BY <1>6, <1>7

LEMMA EmptyStatusSound ==
  ASSUME status' = EmptyStatus, ~meta'.deleting, meta'.gen \in Nat
  PROVE  Sound(meta, status)'
<1>1. ~PastDestroy(meta', status')
  BY EmptySound DEF PastDestroy
<1>2. status'.stage.gen = 0 /\ status'.prefix = 0
  BY EmptySound
<1>3. status'.phase \notin DeletePhases /\ status'.phase \notin {"deleting", "deleted"}
  BY EmptySound DEF DeletePhases
<1>4. status'.stage.gen <= meta'.gen
  BY <1>2
<1> QED
  BY <1>1, <1>2, <1>3, <1>4 DEF Sound

(* The resource goes away while no call relies on it.                      *)
LEMMA ReleaseKeeps ==
  ASSUME DeletionSound, meta' = NoMeta, status' = EmptyStatus,
         UNCHANGED <<pods, nextPod, pc, tfMeta, tfStatus>>,
         ~(pc # "idle" /\ tfMeta.finalizer)
  PROVE  DeletionSound'
<1>1. Sound(meta, status)'
  <2>1. ~meta'.deleting /\ meta'.gen = 0
    BY EmptySound
  <2>2. meta'.gen \in Nat
    BY <2>1
  <2> QED
    BY <2>1, <2>2, EmptyStatusSound
<1>2. Sound(tfMeta, tfStatus)' /\ PodsAreTraced'
  BY DEF DeletionSound, Sound, PastDestroy, Destroyed, PodsAreTraced
<1>3. ResourceExists'
  BY EmptySound DEF DeletionSound, ResourceExists
<1>4. CallHoldsResource'
  BY DEF DeletionSound, CallHoldsResource
<1> QED
  BY <1>1, <1>2, <1>3, <1>4 DEF DeletionSound

(* A new generation is one that neither the status nor a call has seen.    *)
LEMMA NewGenerationKeeps ==
  ASSUME DeletionInv, meta'.gen = meta.gen + 1, meta'.uid = meta.uid, meta.uid # 0,
         meta'.finalizer = meta.finalizer, ~meta'.ignoreDelete,
         meta.deleting => meta'.deleting, meta'.deleting => status.stage.gen # 0,
         UNCHANGED <<status, pods, nextPod, pc, tfMeta, tfStatus>>
  PROVE  DeletionSound'
<1> USE DEF DeletionInv
<1>1. /\ meta.gen \in Nat /\ status.stage.gen \in Nat /\ tfMeta.gen \in Nat
      /\ Sound(meta, status) /\ Sound(tfMeta, tfStatus)
  BY DEF TypeOK, Meta, Status, Stage, DeletionSound
<1>2. status.stage.gen <= meta.gen
  BY <1>1 DEF Sound
<1>3. status'.stage.gen < meta'.gen
  BY <1>1, <1>2
<1>4. PastDestroy(meta', status') => PastDestroy(meta, status)
  BY <1>1, <1>3 DEF PastDestroy
<1>5. Sound(meta, status)'
  BY <1>1, <1>3, <1>4 DEF Sound, Destroyed
<1>6. Sound(tfMeta, tfStatus)' /\ PodsAreTraced'
  BY <1>1 DEF Sound, PastDestroy, Destroyed, PodsAreTraced, DeletionSound
<1>7. ResourceExists'
  BY <1>1 DEF ResourceExists, DeletionSound
<1>8. CallHoldsResource'
  <2>1. pc # "idle" /\ tfMeta.finalizer => tfMeta.gen <= meta.gen /\ meta.finalizer
                                          /\ meta.uid = tfMeta.uid
                                          /\ (tfMeta.deleting => meta.deleting)
                                          /\ (pc = "read" => status = tfStatus)
    BY DEF DeletionSound, CallHoldsResource
  <2>2. pc # "idle" /\ tfMeta.finalizer => tfMeta.gen < meta'.gen
    BY <1>1, <2>1
  <2>3. tfMeta.gen < meta'.gen => tfMeta.gen <= meta'.gen /\ tfMeta.gen # meta'.gen
    BY <1>1
  <2> QED
    BY <2>1, <2>2, <2>3 DEF DeletionSound, CallHoldsResource
<1> QED
  BY <1>5, <1>6, <1>7, <1>8 DEF DeletionSound

(* What users may do to the resource while a call is under way.            *)
LEMMA UsersKeep ==
  ASSUME DeletionIsPlain, DeletionInv, Users
  PROVE  DeletionSound'
<1> USE DEF DeletionInv
<1>0. /\ meta \in Meta /\ status \in Status /\ tfMeta \in Meta /\ tfStatus \in Status
      /\ uids \in Nat
  BY DEF TypeOK
<1>1. ASSUME CreateResource PROVE DeletionSound'
  <2>1. /\ meta'.uid # 0 /\ meta'.gen = 1 /\ ~meta'.deleting /\ ~meta'.ignoreDelete
        /\ status' = EmptyStatus /\ meta.uid = 0
        /\ UNCHANGED <<pods, nextPod, pc, tfMeta, tfStatus>>
    <3>1. PICK ignore \in IgnoreDeletes, label \in RetryLabels \cup {NoLabel} :
            meta' = [uid |-> uids', gen |-> 1, deleting |-> FALSE, finalizer |-> FALSE,
                     ignoreDelete |-> ignore, label |-> label]
      BY <1>1 DEF CreateResource
    <3>2. ~ignore
      BY DEF DeletionIsPlain
    <3>3. uids' # 0
      BY <1>0, <1>1 DEF CreateResource
    <3>4. /\ meta'.uid = uids' /\ meta'.gen = 1 /\ ~meta'.deleting
          /\ meta'.ignoreDelete = ignore
      BY <3>1
    <3> QED
      BY <1>1, <3>2, <3>3, <3>4 DEF CreateResource, call
  <2>2. Sound(meta, status)'
    BY <2>1, EmptyStatusSound
  <2>3. Sound(tfMeta, tfStatus)' /\ PodsAreTraced' /\ ResourceExists'
    BY <2>1 DEF DeletionSound, Sound, PastDestroy, Destroyed, PodsAreTraced, ResourceExists
  <2>4. ~(pc # "idle" /\ tfMeta.finalizer)
    BY <2>1 DEF DeletionSound, CallHoldsResource, ResourceExists
  <2>5. CallHoldsResource'
    BY <2>1, <2>4 DEF DeletionSound, CallHoldsResource
  <2> QED
    BY <2>2, <2>3, <2>5 DEF DeletionSound
<1>2. ASSUME EditSpec PROVE DeletionSound'
  <2>1. PICK ignore \in IgnoreDeletes :
          meta' = [meta EXCEPT !.gen = @ + 1, !.ignoreDelete = ignore]
    BY <1>2 DEF EditSpec
  <2>2. /\ meta'.gen = meta.gen + 1 /\ meta'.uid = meta.uid /\ meta.uid # 0
        /\ meta'.deleting = meta.deleting
        /\ meta'.finalizer = meta.finalizer /\ ~meta'.ignoreDelete
        /\ UNCHANGED <<status, pods, nextPod, pc, tfMeta, tfStatus>>
    BY <1>0, <1>2, <2>1 DEF EditSpec, call, DeletionIsPlain, Meta
  <2>3. meta.deleting => status.stage.gen # 0
    BY DEF DeletionSound, Sound
  <2> QED
    BY <2>2, <2>3, NewGenerationKeeps
<1>3. ASSUME SetLabel PROVE DeletionSound'
  BY <1>3 DEF SetLabel, DeletionIsPlain
<1>4. ASSUME DeleteResource PROVE DeletionSound'
  <2>1. CASE meta.finalizer
    <3>1. /\ meta' = [meta EXCEPT !.gen = @ + 1, !.deleting = TRUE]
          /\ UNCHANGED <<status, pods, nextPod, pc, tfMeta, tfStatus>>
          /\ meta.uid # 0 /\ status.stage.gen # 0
      BY <1>4, <2>1 DEF DeleteResource, call, DeletionIsPlain
    <3>2. /\ meta'.gen = meta.gen + 1 /\ meta'.uid = meta.uid
          /\ meta'.finalizer = meta.finalizer
          /\ meta'.ignoreDelete = meta.ignoreDelete /\ meta'.deleting
      BY <1>0, <3>1 DEF Meta
    <3> QED
      BY <3>1, <3>2, NewGenerationKeeps DEF DeletionSound, ResourceExists
  <2>2. CASE ~meta.finalizer
    <3>1. /\ meta' = NoMeta /\ status' = EmptyStatus
          /\ UNCHANGED <<pods, nextPod, pc, tfMeta, tfStatus>>
      BY <1>4, <2>2 DEF DeleteResource, call
    <3> QED
      BY <2>2, <3>1, ReleaseKeeps DEF DeletionSound, CallHoldsResource
  <2> QED
    BY <2>1, <2>2
<1>5. ASSUME NEW i \in PodId, DeletePod(i) PROVE DeletionSound'
  <2>1. /\ pods' = [pods EXCEPT ![i].there = FALSE] /\ pods \in [PodId -> Pod]
        /\ UNCHANGED <<meta, status, call, nextPod>>
    BY <1>5 DEF DeletePod, TypeOK
  <2>2. \A j \in PodId :
           /\ pods'[j].owner = pods[j].owner /\ pods'[j].prefix = pods[j].prefix
           /\ pods'[j].task = pods[j].task /\ pods'[j].phase = pods[j].phase
           /\ pods'[j].there => pods[j].there
    BY <2>1 DEF Pod
  <2> QED
    BY <2>1, <2>2, OnlyPresenceKeeps, QuietKeeps DEF DeletionSound, call
<1> QED
  BY <1>1, <1>2, <1>3, <1>4, <1>5 DEF Users

LEMMA ClusterKeeps ==
  ASSUME DeletionInv, Cluster
  PROVE  DeletionSound'
<1> USE DEF DeletionInv
<1>1. ASSUME NEW i \in PodId, PodStarts(i) \/ PodEnds(i) PROVE DeletionSound'
  <2>1. /\ \E from \in {"Pending", "Running"} : \E to \in PodPhases : SetPhase(i, from, to)
        /\ UNCHANGED nextPod
    BY <1>1 DEF PodStarts, PodEnds, PodSucceeds, PodFails, PodPhases, SetPhase
  <2>2. PodsAreTraced' /\ \A u : Destroyed(u) => Destroyed(u)'
    BY <2>1, SetPhaseKeeps DEF DeletionSound
  <2>3. UNCHANGED <<meta, status, call>>
    BY <2>1 DEF SetPhase
  <2> QED
    BY <2>2, <2>3, QuietKeeps DEF call
<1>2. ASSUME NEW i \in PodId, CollectPod(i) \/ InformerLists(i) PROVE DeletionSound'
  <2>1. /\ pods' = [pods EXCEPT ![i].there = FALSE]
           \/ pods' = [pods EXCEPT ![i].listed = TRUE]
        /\ pods \in [PodId -> Pod] /\ UNCHANGED <<meta, status, call, nextPod>>
    BY <1>2 DEF CollectPod, InformerLists, TypeOK
  <2>2. \A j \in PodId :
           /\ pods'[j].owner = pods[j].owner /\ pods'[j].prefix = pods[j].prefix
           /\ pods'[j].task = pods[j].task /\ pods'[j].phase = pods[j].phase
           /\ pods'[j].there => pods[j].there
    BY <2>1 DEF Pod
  <2> QED
    BY <2>1, <2>2, OnlyPresenceKeeps, QuietKeeps DEF DeletionSound, call
<1>3. ASSUME NEW b \in bundles, CollectBundle(b) PROVE DeletionSound'
  <2>1. UNCHANGED <<meta, status, call, pods, nextPod>>
    BY <1>3 DEF CollectBundle
  <2> QED
    BY <2>1, OnlyPresenceKeeps, QuietKeeps DEF DeletionSound, call
<1>4. ASSUME Resync PROVE DeletionSound'
  <2>1. UNCHANGED <<meta, status, call, pods, nextPod>>
    BY <1>4 DEF Resync
  <2> QED
    BY <2>1, OnlyPresenceKeeps, QuietKeeps DEF DeletionSound, call
<1> QED
  BY <1>1, <1>2, <1>3, <1>4 DEF Cluster

-----------------------------------------------------------------------------
(* What a call past the finalizer and the initial status holds.            *)
LEMMA PastFinalizer ==
  ASSUME DeletionInv, pc = "read", tfStatus.phase # "deleted",
         UpdatedFinalizer(tfMeta, tfStatus) = tfMeta.finalizer
  PROVE  tfMeta.finalizer
BY DEF UpdatedFinalizer, DeletionInv, DeletionSound, ResourceExists

LEMMA WorkingCall ==
  ASSUME DeletionIsPlain, DeletionInv, Initialized
  PROVE  /\ pc = "read" /\ tfMeta.finalizer /\ tfMeta \in Meta /\ tfMeta.gen > 0
         /\ tfStatus \in Status /\ Sound(tfMeta, tfStatus)
         /\ prepared \in Status /\ Sound(tfMeta, prepared)
         /\ prepared.stage = tfStatus.stage /\ prepared.prefix = tfMeta.uid
         /\ tfMeta.deleting => IsDeleting(prepared)
         /\ meta.deleting => status.stage.gen # 0 /\ status = tfStatus
<1> USE DEF DeletionInv
<1>1. /\ tfMeta \in Meta /\ tfStatus \in Status /\ nextPod \in Nat /\ Sound(tfMeta, tfStatus)
      /\ pc = "read" /\ tfMeta.finalizer /\ tfStatus.prefix # 0
  BY PastFinalizer DEF Initialized, TypeOK, DeletionSound
<1>2. tfMeta.gen > 0
  BY <1>1 DEF DeletionSound, ResourceExists
<1>3. /\ prepared \in Status /\ Sound(tfMeta, prepared)
      /\ prepared.stage = tfStatus.stage /\ prepared.prefix = tfStatus.prefix
      /\ tfMeta.deleting => IsDeleting(prepared)
  BY <1>1, PreparedSound DEF prepared
<1>4. meta.deleting => status.stage.gen # 0 /\ status = tfStatus
  BY <1>1 DEF DeletionSound, Sound, CallHoldsResource
<1>5. tfStatus.prefix = tfMeta.uid
  BY <1>1 DEF Sound
<1> QED
  BY <1>1, <1>2, <1>3, <1>4, <1>5

LEMMA WorkingNewStage ==
  ASSUME DeletionIsPlain, DeletionInv, Initialized, NEW s \in newStage
  PROVE  s \in Status /\ Sound(tfMeta, s) /\ s.stage.gen # 0
<1>1. ~IsRetry(tfMeta, tfStatus) /\ PodMissed(prepared) \in BOOLEAN
  BY NoRetries DEF DeletionInv, TypeOK, PodMissed, PodGone
<1>2. s \in CheckSetNewStage(tfMeta, prepared, FALSE, PodMissed(prepared))
  BY <1>1 DEF newStage, CheckSetNewStage
<1>3. s \in Status
  BY PreparedStatus DEF DeletionInv
<1> HIDE DEF prepared
<1> QED
  BY <1>1, <1>2, <1>3, WorkingCall, NewStageSound

(* With a stage of the present generation, or a stage that is not locked,  *)
(* a deleting resource is in its destroy workflow.                         *)
LEMMA WorkingStage ==
  ASSUME DeletionIsPlain, DeletionInv, InStage, prepared.stage.state # "in-progress",
         tfMeta.deleting
  PROVE  prepared.stage.task \in DestroyStages
<1>1. ~IsRetry(tfMeta, tfStatus)
  BY NoRetries DEF DeletionInv, TypeOK
<1>2. CheckSetNewStage(tfMeta, prepared, FALSE, PodMissed(prepared)) = {}
  BY <1>1 DEF InStage, newStage, CheckSetNewStage
<1> HIDE DEF prepared
<1>3. prepared.stage.gen = tfMeta.gen
  BY <1>2 DEF CheckSetNewStage, IsLocked, IsNewGeneration
<1> QED
  BY <1>3, WorkingCall DEF Sound, InStage

(* A call that goes on, or ends, without writing the resource.             *)
LEMMA GoOnKeeps ==
  ASSUME DeletionInv, pc # "idle", NEW d \in Status, Sound(tfMeta, d),
         NEW place, place # "read", place # "idle" => d.stage.gen # 0 /\ tfMeta.finalizer,
         GoOn(place, d), UNCHANGED <<meta, status>>,
         PodsAreTraced', \A u : Destroyed(u) => Destroyed(u)'
  PROVE  DeletionSound'
<1>1. Sound(meta, status)'
  BY DEF DeletionInv, DeletionSound, Sound, PastDestroy
<1>2. CASE place = "idle"
  <2>1. pc' = "idle" /\ tfMeta' = NoMeta /\ tfStatus' = EmptyStatus
    BY <1>2 DEF GoOn
  <2>2. Sound(tfMeta, tfStatus)'
    BY <2>1, EmptyCallSound
  <2>3. CallHoldsResource'
    BY <2>1 DEF CallHoldsResource
  <2>4. ResourceExists'
    BY <2>1 DEF DeletionInv, DeletionSound, ResourceExists, NoMeta
  <2> QED
    BY <1>1, <2>2, <2>3, <2>4 DEF DeletionSound
<1>3. CASE place # "idle"
  <2>1. pc' = place /\ tfMeta' = tfMeta /\ tfStatus' = d
    BY <1>3 DEF GoOn
  <2>2. Sound(tfMeta, tfStatus)'
    BY <2>1 DEF Sound, PastDestroy
  <2>3. CallHoldsResource'
    BY <1>3, <2>1 DEF DeletionInv, DeletionSound, CallHoldsResource
  <2>4. ResourceExists'
    BY <2>1 DEF DeletionInv, DeletionSound, ResourceExists
  <2> QED
    BY <1>1, <2>2, <2>3, <2>4 DEF DeletionSound
<1> QED
  BY <1>2, <1>3

LEMMA ReturnKeeps ==
  ASSUME DeletionInv, pc # "idle", Return, UNCHANGED <<meta, status>>,
         PodsAreTraced', \A u : Destroyed(u) => Destroyed(u)'
  PROVE  DeletionSound'
<1>1. Sound(meta, status)'
  BY DEF DeletionInv, DeletionSound, Sound, PastDestroy
<1>2. pc' = "idle" /\ tfMeta' = NoMeta /\ tfStatus' = EmptyStatus
  BY DEF Return, GoOn
<1>3. Sound(tfMeta, tfStatus)'
  BY <1>2, EmptyCallSound
<1>4. CallHoldsResource' /\ ResourceExists'
  BY <1>2 DEF CallHoldsResource, DeletionInv, DeletionSound, ResourceExists, NoMeta
<1> QED
  BY <1>1, <1>3, <1>4 DEF DeletionSound

(* A copy edited outside the stage's task and generation.                  *)
LEMMA EditedSound ==
  ASSUME NEW m, NEW s, NEW n, Sound(m, s),
         n.stage.gen = s.stage.gen, n.stage.task = s.stage.task, n.prefix \in {s.prefix, m.uid},
         n.phase \in DeletePhases => s.phase \in DeletePhases,
         n.phase \in {"deleting", "deleted"} => s.stage.task \in DestroyStages,
         n.phase = "deleted" => s.phase = "deleted" \/ Destroyed(m.uid),
         PastDestroy(m, n) => PastDestroy(m, s) \/ Destroyed(m.uid)
  PROVE  Sound(m, n)
BY DEF Sound

(* The one that finds the pod of its stage finished knows what it did.     *)
LEMMA FoundPodKeeps ==
  ASSUME DeletionIsPlain, DeletionInv, NEW i \in PodId, FoundPod(i)
  PROVE  DeletionSound'
<1> USE DEF DeletionInv
<1> DEFINE state == StageStateOf(pods[i].phase)
           d == [prepared EXCEPT !.stage.state = state, !.stage.podName = i]
           next == IF pods[i].phase = "Succeeded" /\ ~KeepPods THEN "remove" ELSE "idle"
<1>1. Initialized /\ tfStatus.stage.gen # 0 /\ i \in StagePods(prepared)
  BY DEF FoundPod, InTask, InStage
<1>2. /\ UpdateStatusWithRetry(d, next, "idle", TRUE)
      /\ UNCHANGED <<meta, pods, nextPod>>
  BY DEF FoundPod
<1>3. state \in StageStates /\ i \in Nat
  BY PodNumbers DEF TypeOK, Pod, PodPhases, StageStateOf, StageStates
<1>4. state = "complete" => pods[i].phase = "Succeeded"
  BY DEF StageStateOf, TypeOK, Pod, PodPhases
<1>5. /\ prepared \in Status /\ Sound(tfMeta, prepared) /\ prepared.prefix = tfMeta.uid
      /\ prepared.stage = tfStatus.stage
      /\ pc = "read" /\ tfMeta.finalizer
  BY <1>1, WorkingCall
<1> HIDE DEF prepared, state, next
<1>6. d \in Status
  BY <1>3, <1>5, EditedStatusType
<1>7. /\ d.stage.gen = prepared.stage.gen /\ d.stage.task = prepared.stage.task
      /\ d.prefix = prepared.prefix /\ d.phase = prepared.phase /\ d.stage.state = state
  BY <1>5 DEF Status, Stage
<1>8. PastDestroy(tfMeta, d) => PastDestroy(tfMeta, prepared) \/ Destroyed(tfMeta.uid)
  <2>1. CASE d.stage.task = "apply-delete" /\ d.stage.state = "complete"
    <3>1. /\ pods[i].task = "apply-delete" /\ pods[i].phase = "Succeeded"
          /\ pods[i].prefix = tfMeta.uid
      BY <1>1, <1>4, <1>5, <1>7, <2>1 DEF StagePods
    <3>2. pods[i].owner = tfMeta.uid
      BY <3>1 DEF DeletionSound, PodsAreTraced
    <3> QED
      BY <3>1, <3>2 DEF Destroyed
  <2>2. CASE ~(d.stage.task = "apply-delete" /\ d.stage.state = "complete")
    BY <1>7, <2>2 DEF PastDestroy
  <2> QED
    BY <2>1, <2>2
<1> HIDE DEF d
<1>9. Sound(tfMeta, d)
  <2>1. d.phase \in {"deleting", "deleted"} => prepared.stage.task \in DestroyStages
    BY <1>5, <1>7 DEF Sound
  <2> QED
    BY <1>5, <1>7, <1>8, <2>1, EditedSound
<1>10. d.stage.gen # 0
  BY <1>1, <1>5, <1>7
<1> QED
  BY <1>2, <1>5, <1>6, <1>9, <1>10, StatusWriteKeeps DEF next

LEMMA SetupAndRunKeeps ==
  ASSUME DeletionIsPlain, DeletionInv, SetupAndRun
  PROVE  DeletionSound'
<1> USE DEF DeletionInv
<1> DEFINE ph == IF prepared.phase = "initializing" THEN "running"
                 ELSE IF prepared.phase = "initializing-delete" THEN "deleting"
                 ELSE prepared.phase
           d == [prepared EXCEPT !.phase = ph, !.stage.state = "in-progress"]
           pod == [prefix |-> prepared.prefix, owner |-> tfMeta.uid,
                   task |-> prepared.stage.task,
                   gen |-> prepared.stage.gen, ver |-> tfMeta.gen,
                   phase |-> "Pending", there |-> TRUE, listed |-> ~PodLag]
<1>1. /\ InStage /\ Initialized /\ tfStatus.stage.gen # 0
      /\ prepared.stage.task # RunNil /\ prepared.stage.state # "in-progress"
  BY DEF SetupAndRun, StartsPod, InTask, InStage
<1>2. /\ GoOn("started", d) /\ pods' = [pods EXCEPT ![nextPod] = pod]
      /\ nextPod' = nextPod + 1 /\ nextPod <= MaxPods
      /\ UNCHANGED <<meta, status>>
  BY DEF SetupAndRun
<1>3. /\ prepared \in Status /\ Sound(tfMeta, prepared) /\ prepared.prefix = tfMeta.uid
      /\ prepared.stage = tfStatus.stage /\ pc = "read" /\ tfMeta.finalizer
  BY <1>1, WorkingCall
<1>4. tfMeta.deleting => prepared.stage.task \in DestroyStages
  BY <1>1, WorkingStage
<1> HIDE DEF prepared
<1>5. ph \in Phases /\ "in-progress" \in StageStates
  BY <1>3 DEF Status, Phases, StageStates
<1>6. ph \in {"deleting", "deleted"} => tfMeta.deleting
  BY <1>3 DEF Sound, DeletePhases
<1>7. /\ ph \in DeletePhases => prepared.phase \in DeletePhases
      /\ ph = "deleted" => prepared.phase = "deleted"
  BY DEF DeletePhases
<1> HIDE DEF ph
<1>8. d \in Status
  BY <1>3, <1>5, EditedStatusType
<1>9. /\ d.stage.gen = prepared.stage.gen /\ d.stage.task = prepared.stage.task
      /\ d.prefix = prepared.prefix /\ d.phase = ph /\ d.stage.state = "in-progress"
  BY <1>3 DEF Status, Stage
<1> HIDE DEF d
<1>10. PastDestroy(tfMeta, d) => PastDestroy(tfMeta, prepared)
  BY <1>1, <1>9 DEF PastDestroy
<1>11. Sound(tfMeta, d)
  BY <1>3, <1>4, <1>6, <1>7, <1>9, <1>10, EditedSound
<1>12. nextPod \in PodId /\ nextPod \in Nat
  BY <1>2, PodNumbers DEF TypeOK
<1>13. pods \in [PodId -> Pod] /\ pods[nextPod].phase = "Pending" /\ PodsAreTraced
  BY <1>12 DEF TypeOK, DeletionSound, PodsAreTraced
<1>14. /\ \A j \in PodId \ {nextPod} : pods'[j] = pods[j]
       /\ pods'[nextPod] = pod
  BY <1>2, <1>12, <1>13
<1>15. PodsAreTraced'
  <2>1. pods'[nextPod].owner = pods'[nextPod].prefix
    BY <1>3, <1>14
  <2>2. \A j \in PodId : j >= nextPod + 1 => j # nextPod /\ j >= nextPod
    BY <1>12, PodNumbers
  <2> QED
    BY <1>2, <1>13, <1>14, <2>1, <2>2 DEF PodsAreTraced
<1>16. \A u : Destroyed(u) => Destroyed(u)'
  BY <1>13, <1>14 DEF Destroyed
<1> QED
  BY <1>1, <1>2, <1>3, <1>8, <1>9, <1>11, <1>15, <1>16, GoOnKeeps

(* Only the finalizer of a deleted, destroyed resource is taken away.      *)
LEMMA UpdateFinalizerStep ==
  ASSUME DeletionIsPlain, DeletionInv, UpdateFinalizer
  PROVE  /\ DeletionSound'
         /\ meta' = NoMeta /\ meta # NoMeta => Destroyed(meta.uid)
<1> USE DEF DeletionInv
<1> DEFINE finalizer == UpdatedFinalizer(tfMeta, tfStatus)
<1>1. /\ Update(finalizer) /\ Return /\ pc = "read" /\ UNCHANGED <<pods, nextPod>>
      /\ tfStatus.phase = "deleted" \/ finalizer # tfMeta.finalizer
  BY DEF UpdateFinalizer
<1>2. /\ meta \in Meta /\ tfMeta.uid # 0 /\ ~tfMeta.ignoreDelete
      /\ Sound(tfMeta, tfStatus) /\ Sound(meta, status)
  BY <1>1 DEF TypeOK, DeletionSound, ResourceExists
<1>3. finalizer = (~(tfStatus.phase = "deleted" /\ tfMeta.finalizer))
  BY <1>2 DEF UpdatedFinalizer
<1>4. pc' = "idle" /\ tfMeta' = NoMeta /\ tfStatus' = EmptyStatus
  BY <1>1 DEF Return, GoOn
<1> HIDE DEF finalizer
<1>5. Sound(tfMeta, tfStatus)' /\ CallHoldsResource'
  BY <1>4, EmptyCallSound DEF CallHoldsResource
<1>6. PodsAreTraced'
  BY <1>1 DEF DeletionSound, PodsAreTraced
<1>7. CASE meta = tfMeta /\ status = tfStatus /\ meta.deleting /\ ~finalizer
           /\ meta' = NoMeta /\ status' = EmptyStatus
  <2>1. Destroyed(meta.uid)
    <3>1. tfStatus.phase = "deleted"
      BY <1>3, <1>7
    <3> QED
      BY <1>2, <1>7, <3>1 DEF Sound
  <2>2. DeletionSound'
    <3>1. meta'.gen = 0 /\ ~meta'.deleting
      BY <1>7, EmptySound
    <3>2. meta'.gen \in Nat
      BY <3>1
    <3>3. Sound(meta, status)'
      BY <1>7, <3>1, <3>2, EmptyStatusSound
    <3>4. ResourceExists'
      BY <1>4, <1>7, EmptySound DEF ResourceExists
    <3> QED
      BY <1>5, <1>6, <3>3, <3>4 DEF DeletionSound
  <2> QED
    BY <2>1, <2>2
<1>8. CASE meta' = [meta EXCEPT !.finalizer = finalizer] /\ UNCHANGED status
           /\ meta = tfMeta
  <2>1. /\ meta'.uid = meta.uid /\ meta'.gen = meta.gen /\ meta'.deleting = meta.deleting
        /\ meta'.ignoreDelete = meta.ignoreDelete
    BY <1>2, <1>8 DEF Meta
  <2>2. Sound(meta, status)'
    BY <1>1, <1>2, <1>8, <2>1 DEF Sound, PastDestroy, Destroyed
  <2>3. ResourceExists'
    BY <1>2, <1>4, <1>8, <2>1 DEF ResourceExists, DeletionSound, NoMeta
  <2>4. meta' # NoMeta
    BY <1>2, <1>8, <2>1, EmptySound
  <2> QED
    BY <1>5, <1>6, <2>2, <2>3, <2>4 DEF DeletionSound
<1>9. CASE UNCHANGED <<meta, status>>
  <2>1. Sound(meta, status)'
    BY <1>1, <1>2, <1>9 DEF Sound, PastDestroy, Destroyed
  <2>2. ResourceExists'
    BY <1>4, <1>9 DEF ResourceExists, DeletionSound, NoMeta
  <2> QED
    BY <1>5, <1>6, <1>9, <2>1, <2>2 DEF DeletionSound
<1> QED
  BY <1>1, <1>7, <1>8, <1>9 DEF Update

LEMMA EndWorkflowKeeps ==
  ASSUME DeletionIsPlain, DeletionInv, EndWorkflow
  PROVE  DeletionSound'
<1> DEFINE ph == IF prepared.phase = "running" THEN "completed" ELSE "deleted"
           d == [prepared EXCEPT !.phase = ph]
<1>1. /\ Initialized /\ tfStatus.stage.gen # 0 /\ prepared.stage.task = RunNil
      /\ prepared.phase \in {"running", "deleting"}
      /\ UpdateStatusWithRetry(d, "idle", "idle", TRUE) /\ UNCHANGED <<meta, pods, nextPod>>
  BY DEF EndWorkflow, InStage
<1>2. /\ prepared \in Status /\ Sound(tfMeta, prepared) /\ prepared.stage = tfStatus.stage
      /\ pc = "read" /\ tfMeta.finalizer
  BY <1>1, WorkingCall
<1> HIDE DEF prepared
<1>3. ph \in Phases /\ (ph \in DeletePhases => prepared.phase = "deleting" /\ ph = "deleted")
  BY <1>1 DEF Phases, DeletePhases
<1>4. d \in Status
  BY <1>2, <1>3, EditedStatusType
<1>5. d.stage = prepared.stage /\ d.prefix = prepared.prefix /\ d.phase = ph
  BY <1>2 DEF Status
<1> HIDE DEF d, ph
<1>6. ph \in DeletePhases => PastDestroy(tfMeta, prepared) /\ Destroyed(tfMeta.uid)
  BY <1>1, <1>2, <1>3 DEF PastDestroy, Sound
<1>7. PastDestroy(tfMeta, d) => PastDestroy(tfMeta, prepared) \/ Destroyed(tfMeta.uid)
  BY <1>5, <1>6 DEF PastDestroy, DeletePhases
<1>8. "deleting" \in DeletePhases /\ {"deleting", "deleted"} \subseteq DeletePhases
      /\ RunNil \in DestroyStages
  BY DEF DeletePhases, DestroyStages
<1>9. Sound(tfMeta, d)
  BY <1>1, <1>2, <1>3, <1>5, <1>6, <1>7, <1>8, EditedSound
<1> QED
  BY <1>1, <1>2, <1>4, <1>5, <1>9, StatusWriteKeeps

LEMMA ResetStageKeeps ==
  ASSUME DeletionIsPlain, DeletionInv, ResetStage
  PROVE  DeletionSound'
<1> DEFINE d == [prepared EXCEPT !.stage.state = "initializing"]
<1>1. /\ Initialized /\ tfStatus.stage.gen # 0
      /\ UpdateStatusWithRetry(d, "idle", "idle", TRUE) /\ UNCHANGED <<meta, pods, nextPod>>
  BY DEF ResetStage, InTask, InStage
<1>2. /\ prepared \in Status /\ Sound(tfMeta, prepared) /\ prepared.stage = tfStatus.stage
      /\ pc = "read" /\ tfMeta.finalizer
  BY <1>1, WorkingCall
<1> HIDE DEF prepared
<1>3. d \in Status
  BY <1>2, EditedStatusType DEF StageStates
<1>4. /\ d.stage.gen = prepared.stage.gen /\ d.stage.task = prepared.stage.task
      /\ d.prefix = prepared.prefix /\ d.phase = prepared.phase
      /\ d.stage.state = "initializing"
  BY <1>2 DEF Status, Stage
<1> HIDE DEF d
<1>5. PastDestroy(tfMeta, d) => PastDestroy(tfMeta, prepared)
  BY <1>4 DEF PastDestroy
<1>6. d.phase \in {"deleting", "deleted"} => prepared.stage.task \in DestroyStages
  BY <1>2, <1>4 DEF Sound
<1>7. Sound(tfMeta, d)
  BY <1>2, <1>4, <1>5, <1>6, EditedSound
<1> QED
  BY <1>1, <1>2, <1>3, <1>4, <1>7, StatusWriteKeeps

LEMMA InitializeStatusKeeps ==
  ASSUME DeletionIsPlain, DeletionInv, InitializeStatus
  PROVE  DeletionSound'
<1> USE DEF DeletionInv
<1> DEFINE d == [tfStatus EXCEPT !.prefix = tfMeta.uid, !.phase = "initializing"]
<1>1. /\ UpdateStatusWithRetry(d, "idle", "idle", FALSE) /\ UNCHANGED <<meta, pods, nextPod>>
      /\ pc = "read" /\ tfMeta.finalizer
  BY PastFinalizer DEF InitializeStatus
<1>2. tfStatus \in Status /\ tfMeta \in Meta /\ Sound(tfMeta, tfStatus)
  BY DEF TypeOK, DeletionSound
<1>3. d \in Status
  BY <1>2, EditedStatusType DEF Meta
<1>4. d.stage = tfStatus.stage /\ d.prefix = tfMeta.uid /\ d.phase = "initializing"
  BY <1>2 DEF Status
<1> HIDE DEF d
<1>5. PastDestroy(tfMeta, d) => PastDestroy(tfMeta, tfStatus)
  BY <1>4 DEF PastDestroy
<1>6. d.phase \notin DeletePhases /\ d.phase \notin {"deleting", "deleted"}
  BY <1>4 DEF DeletePhases
<1>7. Sound(tfMeta, d)
  BY <1>2, <1>4, <1>5, <1>6, EditedSound
<1>8. meta.deleting => d.stage.gen # 0
  BY <1>1, <1>4 DEF DeletionSound, CallHoldsResource, Sound
<1> QED
  BY <1>1, <1>3, <1>7, <1>8, StatusWriteKeeps

LEMMA CreatePluginJobKeeps ==
  ASSUME DeletionInv, NEW p \in PluginNames, CreatePluginJob(p)
  PROVE  DeletionSound'
<1> USE DEF DeletionInv
<1> DEFINE d == [tfStatus EXCEPT !.plugins = @ \cup {p}]
<1>1. /\ UpdateStatusWithRetry(d, AfterRun, AfterRun, FALSE) /\ pc = "plugins"
      /\ UNCHANGED <<meta, pods, nextPod>>
  BY DEF CreatePluginJob
<1>2. /\ tfStatus \in Status /\ Sound(tfMeta, tfStatus) /\ tfMeta.finalizer
      /\ tfStatus.stage.gen # 0
  BY <1>1 DEF TypeOK, DeletionSound, CallHoldsResource
<1>3. d \in Status
  BY <1>2, EditedStatusType
<1>4. d.stage = tfStatus.stage /\ d.prefix = tfStatus.prefix /\ d.phase = tfStatus.phase
  BY <1>2 DEF Status
<1> HIDE DEF d
<1>5. Sound(tfMeta, d)
  BY <1>2, <1>4 DEF Sound, PastDestroy
<1>6. AfterRun # "read"
  BY DEF AfterRun
<1> QED
  BY <1>1, <1>2, <1>3, <1>4, <1>5, <1>6, StatusWriteKeeps

(* Pods leave in RemoveOldPlan and RemovePod.                              *)
LEMMA LeavingKeeps ==
  ASSUME DeletionInv, UNCHANGED nextPod,
         \/ UNCHANGED pods
         \/ \E gone : pods' = [i \in PodId |-> [pods[i] EXCEPT !.there = @ /\ gone[i]]]
  PROVE  PodsAreTraced' /\ \A u : Destroyed(u) => Destroyed(u)'
<1>1. pods \in [PodId -> Pod] /\ TypeOK /\ PodsAreTraced
  BY DEF DeletionInv, TypeOK, DeletionSound
<1>2. CASE UNCHANGED pods
  BY <1>1, <1>2, OnlyPresenceKeeps
<1>3. CASE \E gone : pods' = [i \in PodId |-> [pods[i] EXCEPT !.there = @ /\ gone[i]]]
  <2>1. PICK gone : pods' = [i \in PodId |-> [pods[i] EXCEPT !.there = @ /\ gone[i]]]
    BY <1>3
  <2>2. \A i \in PodId :
          /\ pods'[i].owner = pods[i].owner /\ pods'[i].prefix = pods[i].prefix
          /\ pods'[i].task = pods[i].task /\ pods'[i].phase = pods[i].phase
          /\ pods'[i].there => pods[i].there
    BY <1>1, <2>1 DEF Pod
  <2> QED
    BY <1>1, <2>2, OnlyPresenceKeeps
<1> QED
  BY <1>2, <1>3

LEMMA ReconcileKeeps ==
  ASSUME DeletionIsPlain, DeletionInv, Reconcile
  PROVE  DeletionSound'
<1> USE DEF DeletionInv
<1>0. /\ tfStatus \in Status /\ Sound(tfMeta, tfStatus) /\ Sound(meta, status) /\ PodsAreTraced
      /\ tfMeta \in Meta /\ meta \in Meta
  BY DEF TypeOK, DeletionSound
<1>1. ASSUME GetResource PROVE DeletionSound'
  <2>1. /\ meta.uid # 0 /\ pc' = "read" /\ tfMeta' = meta /\ tfStatus' = status
        /\ UNCHANGED <<meta, status, pods, nextPod>>
    BY <1>1 DEF GetResource
  <2>2. Sound(meta, status)' /\ Sound(tfMeta, tfStatus)' /\ PodsAreTraced'
    BY <1>0, <2>1 DEF Sound, PastDestroy, Destroyed, PodsAreTraced
  <2>3. ResourceExists'
    BY <2>1 DEF DeletionSound, ResourceExists
  <2>4. CallHoldsResource'
    BY <1>0, <2>1 DEF CallHoldsResource, Meta
  <2> QED
    BY <2>2, <2>3, <2>4 DEF DeletionSound
<1>2. ASSUME ResourceNotFound PROVE DeletionSound'
  <2>1. UNCHANGED <<meta, status, call, pods, nextPod>>
    BY <1>2 DEF ResourceNotFound
  <2> QED
    BY <1>0, <2>1, OnlyPresenceKeeps, QuietKeeps DEF call
<1>3. ASSUME AddFirstStage PROVE DeletionSound'
  <2>1. FirstStage(tfMeta, tfStatus) \in Status
    BY <1>0, FirstStageType
  <2>2. /\ Initialized /\ tfStatus.stage.gen = 0 /\ UNCHANGED <<meta, pods, nextPod>>
        /\ UpdateStatusWithRetry(FirstStage(tfMeta, tfStatus), "idle", "idle", TRUE)
    BY <1>3 DEF AddFirstStage
  <2>3. pc = "read" /\ tfMeta.finalizer /\ tfMeta.gen > 0
    BY <2>2, WorkingCall
  <2>4. Sound(tfMeta, FirstStage(tfMeta, tfStatus)) /\ FirstStage(tfMeta, tfStatus).stage.gen # 0
    BY <1>0, <2>2, <2>3, FirstStageSound
  <2> QED
    BY <2>1, <2>2, <2>3, <2>4, StatusWriteKeeps
<1>4. ASSUME SetNewStage PROVE DeletionSound'
  <2>1. PICK s \in newStage : UpdateStatusWithRetry(s, "idle", "idle", FALSE)
    BY <1>4 DEF SetNewStage
  <2>2. Initialized /\ UNCHANGED <<meta, pods, nextPod>>
    BY <1>4 DEF SetNewStage
  <2> QED
    BY <2>1, <2>2, WorkingCall, WorkingNewStage, StatusWriteKeeps
<1>5. ASSUME RemoveOldPlan PROVE DeletionSound'
  <2>1. PICK s \in newStage : GoOn("restart", s)
    BY <1>5 DEF RemoveOldPlan
  <2>2. Initialized /\ UNCHANGED <<meta, status, nextPod>>
    BY <1>5 DEF RemoveOldPlan
  <2>3. PodsAreTraced' /\ \A u : Destroyed(u) => Destroyed(u)'
    <3>1. CASE UNCHANGED pods
      BY <2>2, <3>1, LeavingKeeps
    <3>2. CASE pods' = [i \in PodId |-> [pods[i] EXCEPT !.there =
                                           @ /\ i \notin OldPlanPods(tfMeta, prepared)]]
      <4> DEFINE gone == [i \in PodId |-> i \notin OldPlanPods(tfMeta, prepared)]
      <4>1. pods' = [i \in PodId |-> [pods[i] EXCEPT !.there = @ /\ gone[i]]]
        BY <3>2
      <4> QED
        BY <2>2, <4>1, LeavingKeeps
    <3> QED
      BY <1>5, <3>1, <3>2 DEF RemoveOldPlan
  <2> QED
    BY <2>1, <2>2, <2>3, WorkingCall, WorkingNewStage, GoOnKeeps
<1>6. ASSUME RestartWorkflow \/ SaveStarted PROVE DeletionSound'
  <2>1. /\ pc \notin {"idle", "read"} /\ UNCHANGED <<meta, pods, nextPod>>
        /\ \/ UpdateStatusWithRetry(tfStatus, "idle", "idle", FALSE)
           \/ UpdateStatusWithRetry(tfStatus, AfterRun, AfterRun, TRUE)
    BY <1>6 DEF RestartWorkflow, SaveStarted
  <2>2. tfMeta.finalizer /\ tfStatus.stage.gen # 0 /\ AfterRun # "read"
    BY <2>1 DEF DeletionSound, CallHoldsResource, AfterRun
  <2> QED
    BY <1>0, <2>1, <2>2, StatusWriteKeeps
<1>7. ASSUME NothingToDo \/ ListFails PROVE DeletionSound'
  <2>1. Return /\ pc # "idle" /\ UNCHANGED <<meta, status, pods, nextPod>>
    BY <1>7 DEF NothingToDo, ListFails, cluster, InTask, InStage, Initialized
  <2> QED
    BY <1>0, <2>1, OnlyPresenceKeeps, ReturnKeeps
<1>10. ASSUME LookForPod PROVE DeletionSound'
  <2>1. UNCHANGED <<meta, status, pc, tfMeta, tfStatus, pods, nextPod>>
    BY <1>10 DEF LookForPod, cluster
  <2> QED
    BY <1>0, <2>1, OnlyPresenceKeeps, QuietKeeps
<1>8. ASSUME SetupFails PROVE DeletionSound'
  <2>1. /\ Initialized /\ tfStatus.stage.gen # 0 /\ UNCHANGED <<meta, status, pods, nextPod>>
        /\ GoOn(AfterRun, prepared)
    BY <1>8 DEF SetupFails, StartsPod, InTask, InStage
  <2>2. AfterRun # "read"
    BY DEF AfterRun
  <2>3. PodsAreTraced' /\ \A u : Destroyed(u) => Destroyed(u)'
    BY <1>0, <2>1, OnlyPresenceKeeps
  <2> QED
    BY <2>1, <2>2, <2>3, WorkingCall, GoOnKeeps
<1>9. ASSUME RemovePod PROVE DeletionSound'
  <2>1. Return /\ pc # "idle" /\ UNCHANGED <<meta, status, nextPod>>
    BY <1>9 DEF RemovePod
  <2>2. CASE UNCHANGED pods
    BY <2>1, <2>2, LeavingKeeps, ReturnKeeps
  <2>3. CASE pods' = [i \in PodId |-> [pods[i] EXCEPT !.there = @ /\ i # tfStatus.stage.podName]]
    <3> DEFINE gone == [i \in PodId |-> i # tfStatus.stage.podName]
    <3>1. pods' = [i \in PodId |-> [pods[i] EXCEPT !.there = @ /\ gone[i]]]
      BY <2>3
    <3> QED
      BY <2>1, <3>1, LeavingKeeps, ReturnKeeps
  <2> QED
    BY <1>9, <2>2, <2>3 DEF RemovePod
<1> QED
  BY <1>1, <1>2, <1>3, <1>4, <1>5, <1>6, <1>7, <1>8, <1>9, <1>10, UpdateFinalizerStep,
     InitializeStatusKeeps, EndWorkflowKeeps, ResetStageKeeps, SetupAndRunKeeps,
     CreatePluginJobKeeps, FoundPodKeeps DEF Reconcile

LEMMA CrashKeeps ==
  ASSUME DeletionInv, Crash
  PROVE  DeletionSound'
<1>1. Return /\ pc # "idle" /\ UNCHANGED <<meta, status, pods, nextPod>>
  BY DEF Crash
<1> QED
  BY <1>1, OnlyPresenceKeeps, ReturnKeeps DEF DeletionInv, DeletionSound

-----------------------------------------------------------------------------
(* The invariant is inductive.                                             *)
THEOREM DeletionInvariant == ASSUME DeletionIsPlain PROVE Spec => []DeletionInv
<1>1. Init => DeletionSound
  <2> SUFFICES ASSUME Init PROVE DeletionSound
    OBVIOUS
  <2>1. /\ meta = NoMeta /\ status = EmptyStatus /\ tfMeta = NoMeta /\ tfStatus = EmptyStatus
        /\ pc = "idle" /\ pods = [i \in PodId |-> NoPod]
    BY DEF Init
  <2>2. ~PastDestroy(NoMeta, EmptyStatus)
    BY EmptySound DEF PastDestroy
  <2>3. /\ EmptyStatus.stage.gen = 0 /\ NoMeta.gen = 0
        /\ EmptyStatus.phase \notin {"deleting", "deleted"} /\ EmptyStatus.phase # "deleted"
    BY EmptySound
  <2>4. EmptyStatus.stage.gen <= NoMeta.gen
    BY <2>3
  <2>5. Sound(NoMeta, EmptyStatus)
    BY <2>2, <2>3, <2>4, EmptySound DEF Sound
  <2>6. PodsAreTraced
    BY <2>1 DEF PodsAreTraced, NoPod
  <2>7. CallHoldsResource /\ ResourceExists
    BY <2>1, EmptySound DEF CallHoldsResource, ResourceExists
  <2> QED
    BY <2>1, <2>5, <2>6, <2>7 DEF DeletionSound
<1>2. TypeOK /\ DeletionSound /\ [Next]_vars => DeletionSound'
  <2> SUFFICES ASSUME DeletionInv, [Next]_vars PROVE DeletionSound'
    BY DEF DeletionInv
  <2>1. CASE UNCHANGED vars
    <3>1. UNCHANGED <<meta, status, call, pods, nextPod>>
      BY <2>1 DEF vars, cluster
    <3> QED
      BY <3>1, OnlyPresenceKeeps, QuietKeeps DEF DeletionInv, DeletionSound, call
  <2> QED
    BY <2>1, UsersKeep, ClusterKeeps, ReconcileKeeps, CrashKeeps DEF Next
<1> QED
  BY <1>1, <1>2, TypeCorrect, PTL DEF Spec, DeletionInv



(* ReleasedOnlyAfterDestroy: a resource that is being deleted goes away    *)
(* only after an apply-delete pod of its own has succeeded.                *)
THEOREM ReleasedAfterDestroy ==
  ASSUME DeletionIsPlain PROVE Spec => ReleasedOnlyAfterDestroy
<1>1. DeletionInv /\ [Next]_vars
        => [meta.deleting /\ ~meta.ignoreDelete /\ meta'.uid = 0 => Destroyed(meta.uid)]_vars
  <2> SUFFICES ASSUME DeletionInv, Next, meta.deleting, meta'.uid = 0
               PROVE  Destroyed(meta.uid)
    OBVIOUS
  <2> USE DEF DeletionInv
  <2>1. meta.uid # 0 /\ meta # NoMeta
    BY EmptySound DEF DeletionSound, ResourceExists
  <2>2. CASE UpdateFinalizer
    <3>1. meta' = NoMeta \/ meta'.uid = meta.uid
      <4>1. meta' \in {NoMeta, meta} \/ \E f \in BOOLEAN : meta' = [meta EXCEPT !.finalizer = f]
        BY <2>2 DEF UpdateFinalizer, Update, UpdatedFinalizer, TypeOK, Meta
      <4> QED
        BY <4>1 DEF TypeOK, Meta
    <3> QED
      BY <2>1, <2>2, <3>1, UpdateFinalizerStep
  <2>3. CASE EditSpec \/ SetLabel
    BY <2>1, <2>3 DEF EditSpec, SetLabel, TypeOK, Meta
  <2>4. CASE ~UpdateFinalizer /\ ~EditSpec /\ ~SetLabel
    <3>1. CreateResource => meta.uid = 0
      BY DEF CreateResource
    <3>2. DeleteResource => ~meta.deleting
      BY DEF DeleteResource
    <3>3. \A i \in PodId : DeletePod(i) => UNCHANGED meta
      BY DEF DeletePod
    <3>4. Cluster \/ Crash => UNCHANGED meta
      BY DEF Cluster, PodStarts, PodEnds, PodSucceeds, PodFails, SetPhase, CollectPod,
             InformerLists, CollectBundle, Resync, Crash
    <3>5. Reconcile => UNCHANGED meta
      BY <2>4 DEF Reconcile, GetResource, ResourceNotFound, InitializeStatus, AddFirstStage,
             SetNewStage, LookForPod, RemoveOldPlan, RestartWorkflow, EndWorkflow,
             NothingToDo, ListFails, cluster, ResetStage, SetupAndRun, SetupFails,
             SaveStarted, CreatePluginJob, FoundPod, RemovePod
    <3> QED
      BY <2>1, <2>4, <3>1, <3>2, <3>3, <3>4, <3>5 DEF Next, Users
  <2> QED
    BY <2>2, <2>3, <2>4
<1> QED
  BY <1>1, DeletionInvariant, PTL DEF Spec, ReleasedOnlyAfterDestroy

(* NoCreateTaskOnceDeleting: a call whose copy is being deleted starts     *)
(* only tasks of the destroy workflow.                                     *)
THEOREM OnlyDeleteTasksOnceDeleting ==
  ASSUME DeletionIsPlain PROVE Spec => NoCreateTaskOnceDeleting
<1>1. DeletionInv /\ [Next]_vars
        => [nextPod' # nextPod /\ tfMeta.deleting => pods'[nextPod].task \in DeleteTasks]_vars
  <2> SUFFICES ASSUME DeletionInv, Next, nextPod' # nextPod, tfMeta.deleting
               PROVE  pods'[nextPod].task \in DeleteTasks
    OBVIOUS
  <2>1. ~(Users \/ Cluster \/ Crash)
    BY DEF Users, CreateResource, EditSpec, SetLabel, DeleteResource, DeletePod,
           Cluster, PodStarts, PodEnds, PodSucceeds, PodFails, SetPhase, CollectPod,
           InformerLists, CollectBundle, Resync, Crash
  <2>2. SetupAndRun
    <3>1. Reconcile => SetupAndRun \/ UNCHANGED nextPod
      BY DEF Reconcile, GetResource, ResourceNotFound, UpdateFinalizer, InitializeStatus,
             AddFirstStage, SetNewStage, LookForPod, RemoveOldPlan, RestartWorkflow,
             EndWorkflow, NothingToDo, ListFails, cluster, ResetStage, SetupFails,
             SaveStarted, CreatePluginJob, FoundPod, RemovePod
    <3> QED
      BY <2>1, <3>1 DEF Next
  <2>3. /\ InStage /\ prepared.stage.task # RunNil /\ prepared.stage.state # "in-progress"
        /\ nextPod <= MaxPods
    BY <2>2 DEF SetupAndRun, StartsPod, InTask
  <2>4. prepared.stage.task \in DeleteTasks
    BY <2>3, WorkingStage DEF DestroyStages
  <2>5. nextPod \in PodId /\ pods \in [PodId -> Pod]
    BY <2>3, PodNumbers DEF DeletionInv, TypeOK
  <2> HIDE DEF prepared
  <2>6. pods'[nextPod].task = prepared.stage.task
    BY <2>2, <2>5 DEF SetupAndRun
  <2> QED
    BY <2>4, <2>6
<1> QED
  BY <1>1, DeletionInvariant, PTL DEF Spec, NoCreateTaskOnceDeleting

-----------------------------------------------------------------------------
(***************************************************************************)
(* The order of the tasks.  The controller runs the tasks of a generation  *)
(* in their order, completes a resource only after all of them, and never  *)
(* replaces a stage it holds to be in progress: for any tasks, plugins,    *)
(* edits, deletions, evictions and faults, with any lag of the informers.  *)
(* The assumption is that of the deletion proofs: without retries every    *)
(* stage but the first is entered from the one before it.  The last part   *)
(* proves what is left of the order when there are retries.                *)
(***************************************************************************)

(* The configured tasks before task have succeeded.                        *)
DoneBefore(uid, gen, task) ==
  \A t \in Configured \cap WorkflowOf(task) : Before(t, task) => Finished(uid, gen, t)

(* What a status of the resource uid says is backed by pods: its stage may *)
(* start, a complete stage has run, and so has the create workflow when no *)
(* stage is left.  No retry hides the pods that are already there.         *)
Ready(uid, s) ==
  /\ s.retryAt = 0
  /\ s.prefix = 0 => s.stage.gen = 0
  /\ s.stage.task # RunNil =>
       /\ s.stage.gen # 0
       /\ DoneBefore(uid, s.stage.gen, s.stage.task)
       /\ s.stage.state = "complete" => Finished(uid, s.stage.gen, s.stage.task)
  /\ s.stage.task \in DeleteTasks => IsDeleting(s)
  /\ s.stage.task = RunNil /\ s.stage.gen # 0 /\ ~IsDeleting(s) =>
       \A t \in Configured \cap CreateTasks : Finished(uid, s.stage.gen, t)
  /\ s.phase = "completed" => s.stage.task = RunNil /\ s.stage.gen # 0

(* What a call past its reading knows of the status on the resource, which *)
(* only it writes.                                                         *)
StageKey(s) == <<s.stage.gen, s.stage.task>>

CallKnows ==
  /\ pc = "restart" => status.stage.state = "failed"
  /\ pc \in {"started", "plugins", "remove"} => StageKey(status) = StageKey(tfStatus)

OrderSound ==
  /\ Ready(meta.uid, status) /\ Ready(tfMeta.uid, tfStatus)
  /\ CallKnows
  /\ TasksRunInOrder

OrderInv == DeletionInv /\ OrderSound

-----------------------------------------------------------------------------
(* The decisions: what Reconcile makes of a ready status is ready.         *)
LEMMA ConfiguredTasks == Configured \in SUBSET TaskName
BY AffectedAssumption, ConfiguredAreTasks DEF Configured

(* A copy that keeps its stage's task and generation.                      *)
LEMMA EditedReady ==
  ASSUME NEW uid, NEW s, NEW n, Ready(uid, s),
         n.stage.gen = s.stage.gen, n.stage.task = s.stage.task, n.retryAt = s.retryAt,
         n.prefix = 0 => s.stage.gen = 0,
         IsDeleting(s) => IsDeleting(n),
         n.phase = "completed" => s.stage.task = RunNil /\ s.stage.gen # 0,
         n.stage.state = "complete" =>
           s.stage.state = "complete" \/ Finished(uid, s.stage.gen, s.stage.task)
  PROVE  Ready(uid, n)
BY DEF Ready

LEMMA PreparedReady ==
  ASSUME DeletionIsPlain, NEW uid, NEW m \in Meta, NEW s \in Status, NEW now, Ready(uid, s)
  PROVE  Ready(uid, Prepared(m, s, now))
<1> DEFINE p == Prepared(m, s, now)
<1>1. p = MarkedDeletion(m, s)
  BY NoRetries DEF Prepared
<1>2. CASE m.deleting /\ s.phase \notin DeletePhases
  <2>1. p = [s EXCEPT !.phase = "initializing-delete"]
    BY <1>1, <1>2 DEF MarkedDeletion
  <2>2. /\ p.stage = s.stage /\ p.prefix = s.prefix /\ p.phase = "initializing-delete"
        /\ p.retryAt = s.retryAt
    BY <2>1 DEF Status
  <2> HIDE DEF p
  <2>3. IsDeleting(p) /\ p.phase # "completed"
    BY <2>2 DEF IsDeleting, DeletePhases
  <2>4. p.prefix = 0 => s.stage.gen = 0
    BY <2>2 DEF Ready
  <2> QED
    BY <2>2, <2>3, <2>4, EditedReady DEF p
<1>3. CASE ~(m.deleting /\ s.phase \notin DeletePhases)
  BY <1>1, <1>3 DEF MarkedDeletion
<1> QED
  BY <1>2, <1>3

(* Nothing has to be done before the set up.                               *)
LEMMA SetupIsReady ==
  ASSUME NEW uid, NEW n, n.prefix # 0, n.stage.gen # 0, n.retryAt = 0,
         n.stage.task \in {"setup", "setup-delete"}, n.stage.state = "initializing",
         n.stage.task = "setup-delete" => IsDeleting(n), n.phase # "completed"
  PROVE  Ready(uid, n)
<1>1. DoneBefore(uid, n.stage.gen, n.stage.task)
  BY SetupIsFirst DEF DoneBefore
<1>2. n.stage.task # RunNil /\ (n.stage.task = "setup" => n.stage.task \notin DeleteTasks)
  BY CreateTaskIDs, WorkflowsOfTasks DEF RunNil
<1> QED
  BY <1>1, <1>2 DEF Ready

LEMMA NextTaskReady ==
  ASSUME NEW uid, NEW s \in Status, NEW n, Ready(uid, s),
         s.stage.task # RunNil, s.stage.state = "complete",
         n.prefix = s.prefix, n.retryAt = s.retryAt, n.phase = s.phase,
         n.stage.gen = s.stage.gen,
         n.stage.task = NextTask(s.stage.task, Configured),
         n.stage.state = "complete" => n.stage.task = RunNil
  PROVE  Ready(uid, n)
<1> DEFINE t == s.stage.task
           next == n.stage.task
<1>1. t \in TaskName /\ DoneBefore(uid, s.stage.gen, t) /\ Finished(uid, s.stage.gen, t)
  BY DEF Status, Stage, Ready
<1>2. ASSUME NEW u \in Configured \cap WorkflowOf(t), next = RunNil \/ Before(u, next)
      PROVE  Finished(uid, s.stage.gen, u)
  <2>1. u = t \/ Before(u, t)
    BY <1>1, <1>2, ConfiguredTasks, NothingIsSkipped
  <2> QED
    BY <1>1, <2>1 DEF DoneBefore
<1>3. next # RunNil => WorkflowOf(next) = WorkflowOf(t)
  BY NextTaskResult, WorkflowOfLater
<1>4. next # RunNil => DoneBefore(uid, n.stage.gen, next)
  BY <1>2, <1>3 DEF DoneBefore
<1>5. next \in DeleteTasks => t \in DeleteTasks
  BY <1>1, <1>3, NilIsNoTask, WorkflowsOfTasks DEF TaskName
<1>6. next = RunNil /\ ~IsDeleting(n) =>
        \A u \in Configured \cap CreateTasks : Finished(uid, n.stage.gen, u)
  BY <1>1, <1>2, WorkflowsOfTasks DEF Ready, IsDeleting, TaskName
<1> QED
  BY <1>4, <1>5, <1>6 DEF Ready, IsDeleting

LEMMA RestartReady ==
  ASSUME NEW uid, NEW s \in Status, NEW n, Ready(uid, s),
         s.stage.task \in {"apply", "apply-delete"},
         n.prefix = s.prefix, n.retryAt = s.retryAt, n.phase = s.phase,
         n.stage.gen = s.stage.gen,
         n.stage.task = NextTask(IF s.stage.task = "apply-delete" THEN "postinit-delete"
                                 ELSE "postinit", Configured),
         n.stage.state = "initializing"
  PROVE  Ready(uid, n)
<1> DEFINE t == s.stage.task
           next == n.stage.task
<1>1. next \in TaskName /\ WorkflowOf(next) = WorkflowOf(t) /\ Before(next, t)
  BY RestartIsEarlier DEF Configured
<1>2. t \in TaskName /\ t # RunNil /\ next # RunNil
  BY <1>1, ApplyIsATask, NilIsNoTask DEF Status, Stage
<1>3. ASSUME NEW u \in Configured \cap WorkflowOf(next), Before(u, next)
      PROVE  Finished(uid, s.stage.gen, u)
  <2>1. Before(u, t)
    BY <1>1, <1>2, <1>3, ConfiguredTasks, TaskIDs DEF Before
  <2> QED
    BY <1>1, <1>2, <2>1 DEF Ready, DoneBefore
<1>4. next \in DeleteTasks => t \in DeleteTasks
  BY <1>1, <1>2, WorkflowsOfTasks DEF TaskName
<1>5. DoneBefore(uid, n.stage.gen, next)
  BY <1>3 DEF DoneBefore
<1> QED
  BY <1>2, <1>4, <1>5 DEF Ready, IsDeleting

(* What rule a new stage comes from.                                       *)
LEMMA NewStageReady ==
  ASSUME NEW uid, NEW m \in Meta, NEW s \in Status, NEW podGone \in BOOLEAN, Ready(uid, s),
         m.gen > 0, s.prefix # 0, NEW n \in CheckSetNewStage(m, s, FALSE, podGone)
  PROVE  /\ Ready(uid, n) /\ ~IsLocked(s)
         /\ IsRestart(n) => s.stage.state = "failed"
<1>0. ~IsLocked(s) /\ s.retryAt = 0
  BY DEF CheckSetNewStage, Ready
<1>1. ASSUME n = GenerationStage(m, s) PROVE Ready(uid, n) /\ ~IsRestart(n)
  <2>1. CASE IsDeleting(s)
    <3>1. /\ n.stage.gen = m.gen /\ n.stage.task = "setup-delete" /\ n.stage.state = "initializing"
          /\ n.prefix = s.prefix /\ n.phase = s.phase /\ n.stage.reason = "TF_RESOURCE_DELETED"
          /\ n.retryAt = 0
      BY <1>0, <1>1, <2>1 DEF GenerationStage, NewStage, Status
    <3>2. IsDeleting(n) /\ n.phase # "completed" /\ n.stage.gen # 0
      BY <2>1, <3>1 DEF IsDeleting, DeletePhases, Meta
    <3> QED
      BY <3>1, <3>2, SetupIsReady DEF IsRestart
  <2>2. CASE ~IsDeleting(s)
    <3>1. /\ n.stage.gen = m.gen /\ n.stage.task = "setup" /\ n.stage.state = "initializing"
          /\ n.prefix = s.prefix /\ n.phase = "initializing" /\ n.retryAt = 0
          /\ n.stage.reason = "GENERATION_CHANGE"
      BY <1>0, <1>1, <2>2 DEF GenerationStage, NewStage, Status
    <3>2. n.stage.gen # 0
      BY <3>1 DEF Meta
    <3> QED
      BY <3>1, <3>2, SetupIsReady DEF IsRestart
  <2> QED
    BY <2>1, <2>2
<1>2. ASSUME n = CompletedStage(m, s), s.stage.gen = m.gen, s.stage.state = "complete",
             s.stage.task # RunNil
      PROVE  Ready(uid, n) /\ ~IsRestart(n)
  <2> DEFINE task == NextTask(s.stage.task, Configured)
  <2>1. /\ n.stage.gen = m.gen /\ n.stage.task = task /\ n.prefix = s.prefix
        /\ n.phase = s.phase /\ n.stage.reason = "COMPLETED" /\ n.retryAt = s.retryAt
        /\ n.stage.state = IF task = RunNil THEN "complete" ELSE "initializing"
    BY <1>2 DEF CompletedStage, NewStage, Status
  <2> QED
    BY <1>2, <2>1, NextTaskReady DEF IsRestart
<1>3. ASSUME n = RestartStage(m, s), s.stage.gen = m.gen, s.stage.state = "failed",
             s.stage.task \in {"apply", "apply-delete"}
      PROVE  Ready(uid, n)
  <2>1. /\ n.stage.gen = m.gen /\ n.prefix = s.prefix /\ n.retryAt = s.retryAt
        /\ n.stage.task = NextTask(IF s.stage.task = "apply-delete" THEN "postinit-delete"
                                   ELSE "postinit", Configured)
        /\ n.phase = s.phase /\ n.stage.state = "initializing"
    BY <1>3 DEF RestartStage, NewStage, Status
  <2> QED
    BY <1>3, <2>1, RestartReady
<1> QED
  BY <1>0, <1>1, <1>2, <1>3 DEF CheckSetNewStage, IsNewGeneration, IsFailedApply

LEMMA FirstStageReady ==
  ASSUME NEW uid, NEW m \in Meta, NEW s \in Status, Ready(uid, s), s.stage.gen = 0,
         m.gen > 0, s.prefix # 0
  PROVE  Ready(uid, FirstStage(m, s))
<1> DEFINE n == FirstStage(m, s)
<1>1. /\ n.stage.gen = m.gen /\ n.stage.task = "setup" /\ n.stage.state = "initializing"
      /\ n.prefix = s.prefix /\ n.phase = s.phase /\ n.retryAt = s.retryAt
  BY DEF FirstStage, NewStage, Status
<1>2. n.stage.gen # 0
  BY <1>1 DEF Meta
<1>3. n.phase # "completed" /\ n.retryAt = 0
  BY <1>1 DEF Ready
<1> HIDE DEF n
<1> QED
  BY <1>1, <1>2, <1>3, SetupIsReady DEF n

-----------------------------------------------------------------------------
(* What a step does to the pods: one may be created, the others stay runs  *)
(* of their task, an end is final, and pods do not come back, are not      *)
(* unlisted and do not start again.                                        *)
SamePod(i) ==
  /\ pods'[i].prefix = pods[i].prefix /\ pods'[i].owner = pods[i].owner
  /\ pods'[i].gen = pods[i].gen /\ pods'[i].task = pods[i].task
  /\ pods'[i].ver = pods[i].ver
  /\ pods'[i].there => pods[i].there
  /\ pods[i].listed => pods'[i].listed
  /\ pods[i].phase \in {"Succeeded", "Failed"} => pods'[i].phase = pods[i].phase
  /\ pods'[i].phase \in {"Pending", "Running"} => pods[i].phase \in {"Pending", "Running"}

LEMMA OtherStepsKeepPods ==
  ASSUME TypeOK, [Next]_vars, ~SetupAndRun, NEW i \in PodId
  PROVE  SamePod(i)
<1>0. pods \in [PodId -> Pod] /\ pods[i] \in Pod
  BY DEF TypeOK
<1>1. CASE UNCHANGED pods
  BY <1>1 DEF SamePod
<1>2. ASSUME NEW j \in PodId, NEW from, NEW to, SetPhase(j, from, to),
             from \in {"Pending", "Running"}
      PROVE  SamePod(i)
  BY <1>0, <1>2 DEF SetPhase, SamePod, Pod
<1>3. ASSUME NEW j \in PodId, PodStarts(j) \/ PodEnds(j) PROVE SamePod(i)
  <2>1. \E from \in {"Pending", "Running"} : \E to \in PodPhases : SetPhase(j, from, to)
    BY <1>3 DEF PodStarts, PodEnds, PodSucceeds, PodFails, PodPhases
  <2> QED
    BY <1>2, <2>1
<1>4. ASSUME NEW j \in PodId, DeletePod(j) \/ CollectPod(j) \/ InformerLists(j)
      PROVE  SamePod(i)
  <2>1. pods' = [pods EXCEPT ![j].there = FALSE] \/ pods' = [pods EXCEPT ![j].listed = TRUE]
    BY <1>4 DEF DeletePod, CollectPod, InformerLists
  <2> QED
    BY <1>0, <2>1 DEF SamePod, Pod
<1>5. ASSUME NEW gone, pods' = [j \in PodId |-> [pods[j] EXCEPT !.there = @ /\ gone[j]]]
      PROVE  SamePod(i)
  BY <1>0, <1>5 DEF SamePod, Pod
<1>6. CASE RemoveOldPlan
  <2> DEFINE gone == [j \in PodId |-> j \notin OldPlanPods(tfMeta, prepared)]
  <2>1. UNCHANGED pods
        \/ pods' = [j \in PodId |-> [pods[j] EXCEPT !.there = @ /\ gone[j]]]
    BY <1>6 DEF RemoveOldPlan
  <2> QED
    BY <1>1, <1>5, <2>1
<1>7. CASE RemovePod
  <2> DEFINE gone == [j \in PodId |-> j # tfStatus.stage.podName]
  <2>1. UNCHANGED pods
        \/ pods' = [j \in PodId |-> [pods[j] EXCEPT !.there = @ /\ gone[j]]]
    BY <1>7 DEF RemovePod
  <2> QED
    BY <1>1, <1>5, <2>1
<1>8. CASE UNCHANGED vars
  BY <1>1, <1>8 DEF vars, cluster
<1>9. CASE Users
  BY <1>1, <1>4, <1>9 DEF Users, CreateResource, EditSpec, SetLabel, DeleteResource
<1>10. CASE Cluster
  BY <1>1, <1>3, <1>4, <1>10 DEF Cluster, CollectBundle, Resync
<1>11. CASE Reconcile
  BY <1>1, <1>6, <1>7, <1>11 DEF Reconcile, GetResource, ResourceNotFound, UpdateFinalizer,
    InitializeStatus, AddFirstStage, SetNewStage, LookForPod, RestartWorkflow, EndWorkflow,
    NothingToDo, ListFails, cluster, ResetStage, SetupFails, SaveStarted, CreatePluginJob,
    FoundPod
<1>12. CASE Crash
  BY <1>1, <1>12 DEF Crash
<1> QED
  BY <1>8, <1>9, <1>10, <1>11, <1>12 DEF Next

LEMMA SetupAndRunPods ==
  ASSUME DeletionInv, SetupAndRun
  PROVE  /\ nextPod \in PodId /\ ~pods[nextPod].there /\ pods[nextPod].phase = "Pending"
         /\ pods' = [pods EXCEPT ![nextPod] = pods'[nextPod]]
         /\ pods'[nextPod] = [prefix |-> prepared.prefix, owner |-> tfMeta.uid,
                              task |-> prepared.stage.task,
                              gen |-> prepared.stage.gen, ver |-> tfMeta.gen,
                              phase |-> "Pending", there |-> TRUE, listed |-> ~PodLag]
         /\ \A i \in PodId \ {nextPod} : pods'[i] = pods[i]
<1> DEFINE pod == [prefix |-> prepared.prefix, owner |-> tfMeta.uid,
                   task |-> prepared.stage.task,
                   gen |-> prepared.stage.gen, ver |-> tfMeta.gen,
                   phase |-> "Pending", there |-> TRUE, listed |-> ~PodLag]
<1>1. nextPod \in PodId /\ nextPod \in Nat /\ pods \in [PodId -> Pod] /\ PodsAreTraced
  BY PodNumbers DEF SetupAndRun, DeletionInv, TypeOK, DeletionSound
<1>2. ~pods[nextPod].there /\ pods[nextPod].phase = "Pending"
  BY <1>1 DEF PodsAreTraced
<1>3. pods' = [pods EXCEPT ![nextPod] = pod]
  BY DEF SetupAndRun
<1> HIDE DEF pod
<1>4. pods'[nextPod] = pod /\ \A i \in PodId \ {nextPod} : pods'[i] = pods[i]
  BY <1>1, <1>3
<1> QED
  BY <1>1, <1>2, <1>3, <1>4 DEF pod

LEMMA FinishedStays ==
  ASSUME DeletionInv, [Next]_vars
  PROVE  \A uid, gen, task : Finished(uid, gen, task) => Finished(uid, gen, task)'
<1>1. CASE SetupAndRun
  <2>1. \A i \in PodId : pods[i].phase = "Succeeded" => pods'[i] = pods[i]
    BY <1>1, SetupAndRunPods
  <2> QED
    BY <2>1 DEF Finished
<1>2. CASE ~SetupAndRun
  BY <1>2, OtherStepsKeepPods DEF Finished, SamePod, DeletionInv
<1> QED
  BY <1>1, <1>2

LEMMA ReadyStays ==
  ASSUME DeletionInv, [Next]_vars
  PROVE  \A uid, s : Ready(uid, s) => Ready(uid, s)'
<1>1. \A uid, gen, task : DoneBefore(uid, gen, task) => DoneBefore(uid, gen, task)'
  BY FinishedStays DEF DoneBefore
<1> QED
  BY <1>1, FinishedStays DEF Ready

-----------------------------------------------------------------------------
(* The stage the resource shows may be replaced.                           *)
StageFree ==
  \/ status.stage.gen = 0
  \/ status.stage.interruptible
  \/ status.stage.state # "in-progress"

(* What every step keeps, but for the pod it may create.                   *)
StatusStep ==
  /\ Ready(meta.uid, status)' /\ Ready(tfMeta.uid, tfStatus)'
  /\ CallKnows'
  /\ StageReplaced => StageFree

LEMMA EmptyReady == \A uid : Ready(uid, EmptyStatus)
<1>1. /\ EmptyStatus.stage.gen = 0 /\ EmptyStatus.stage.task = RunNil
      /\ EmptyStatus.phase # "completed" /\ RunNil \notin DeleteTasks
  BY EmptySound
<1>2. EmptyStatus.retryAt = 0
  BY DEF EmptyStatus
<1> QED
  BY <1>1, <1>2 DEF Ready

(* A call that writes a status, of its stage or of one that may follow.    *)
LEMMA StatusWriteStep ==
  ASSUME OrderInv, [Next]_vars, pc # "idle", tfMeta.finalizer,
         NEW d, Ready(tfMeta.uid, d),
         NEW next \in {"idle", "plugins", "remove"}, NEW failed \in {"idle", "plugins"},
         NEW requeue,
         StageKey(d) = StageKey(status) \/ (StageFree /\ next = "idle" /\ failed = "idle"),
         UpdateStatusWithRetry(d, next, failed, requeue), UNCHANGED meta
  PROVE  StatusStep
<1>1. meta.uid = tfMeta.uid /\ Ready(meta.uid, status)
  BY DEF OrderInv, DeletionInv, DeletionSound, CallHoldsResource, OrderSound
<1>2. status' \in {status, d}
  BY DEF UpdateStatusWithRetry
<1>3. PICK place \in {next, failed} : GoOn(place, d)
  BY DEF UpdateStatusWithRetry
<1>4. Ready(meta.uid, status)'
  BY <1>1, <1>2, ReadyStays DEF OrderInv
<1>5. Ready(tfMeta.uid, tfStatus)'
  <2>1. CASE place = "idle"
    BY <1>3, <2>1, EmptyReady, ReadyStays DEF GoOn, OrderInv
  <2>2. CASE place # "idle"
    BY <1>3, <2>2, ReadyStays DEF GoOn, OrderInv
  <2> QED
    BY <2>1, <2>2
<1>6. CallKnows'
  <2>1. pc' \in {"idle", "plugins", "remove"}
    BY <1>3 DEF GoOn
  <2>2. pc' # "idle" => tfStatus' = d /\ StageKey(d) = StageKey(status)
    BY <1>3 DEF GoOn
  <2>3. pc' # "idle" => StageKey(status') = StageKey(tfStatus')
    BY <1>2, <2>2
  <2> QED
    BY <2>1, <2>3 DEF CallKnows, StageKey
<1>7. StageReplaced => StageFree
  BY <1>2 DEF StageReplaced, StageKey
<1> QED
  BY <1>4, <1>5, <1>6, <1>7 DEF StatusStep

(* A call that goes on or ends without writing the resource.               *)
LEMMA GoOnStep ==
  ASSUME OrderInv, [Next]_vars, NEW d, NEW place,
         place = "restart" => status.stage.state = "failed",
         place \in {"started", "plugins", "remove"} => StageKey(d) = StageKey(status),
         place # "idle" => Ready(tfMeta.uid, d),
         GoOn(place, d), UNCHANGED <<meta, status>>
  PROVE  StatusStep
<1>1. Ready(meta.uid, status)'
  BY ReadyStays DEF OrderInv, OrderSound
<1>2. CASE place = "idle"
  <2>1. Ready(tfMeta.uid, tfStatus)'
    BY <1>2, EmptyReady, ReadyStays DEF GoOn, OrderInv
  <2> QED
    BY <1>1, <1>2, <2>1 DEF StatusStep, GoOn, CallKnows, StageReplaced
<1>3. CASE place # "idle"
  <2>1. Ready(tfMeta.uid, tfStatus)'
    BY <1>3, ReadyStays DEF GoOn, OrderInv
  <2>2. CallKnows'
    BY <1>3 DEF GoOn, CallKnows, StageKey
  <2> QED
    BY <1>1, <2>1, <2>2 DEF StatusStep, StageReplaced
<1> QED
  BY <1>2, <1>3

(* A step that leaves the call alone, and the status of a resource that    *)
(* stays.                                                                  *)
LEMMA QuietStep ==
  ASSUME OrderInv, [Next]_vars, UNCHANGED <<pc, tfMeta, tfStatus>>,
         \/ UNCHANGED status /\ meta'.uid = meta.uid
         \/ /\ status' = EmptyStatus /\ meta'.uid # meta.uid
            /\ ~(pc # "idle" /\ tfMeta.finalizer)
  PROVE  StatusStep
<1>1. Ready(meta.uid, status)'
  BY EmptyReady, ReadyStays DEF OrderInv, OrderSound
<1>2. Ready(tfMeta.uid, tfStatus)'
  BY ReadyStays DEF OrderInv, OrderSound, call
<1>3. pc \notin {"idle", "read"} => tfMeta.finalizer
  BY DEF OrderInv, DeletionInv, DeletionSound, CallHoldsResource
<1>4. CallKnows'
  BY <1>3 DEF OrderInv, OrderSound, CallKnows, StageKey, call
<1> QED
  BY <1>1, <1>2, <1>4 DEF StatusStep, StageReplaced

LEMMA UsersStep ==
  ASSUME DeletionIsPlain, OrderInv, Users
  PROVE  StatusStep
<1>0. /\ [Next]_vars /\ meta \in Meta /\ uids \in Nat /\ ResourceExists
      /\ CallHoldsResource
  BY DEF Next, OrderInv, DeletionInv, TypeOK, DeletionSound
<1>1. CASE CreateResource
  <2>1. meta'.uid = uids + 1 /\ meta.uid = 0 /\ status' = EmptyStatus /\ UNCHANGED call
    BY <1>1 DEF CreateResource
  <2>2. meta'.uid # meta.uid
    BY <1>0, <2>1
  <2>3. ~(pc # "idle" /\ tfMeta.finalizer)
    BY <1>0, <2>1 DEF CallHoldsResource, ResourceExists
  <2> QED
    BY <1>0, <2>1, <2>2, <2>3, QuietStep DEF call
<1>2. CASE EditSpec \/ SetLabel \/ (DeleteResource /\ meta.finalizer)
  <2>1. meta'.uid = meta.uid /\ UNCHANGED <<status, call>>
    BY <1>0, <1>2 DEF EditSpec, SetLabel, DeleteResource, Meta
  <2> QED
    BY <1>0, <2>1, QuietStep DEF call
<1>3. CASE DeleteResource /\ ~meta.finalizer
  <2>1. meta' = NoMeta /\ status' = EmptyStatus /\ meta.uid # 0 /\ UNCHANGED call
    BY <1>3 DEF DeleteResource
  <2>2. ~(pc # "idle" /\ tfMeta.finalizer)
    BY <1>0, <1>3 DEF CallHoldsResource
  <2> QED
    BY <1>0, <2>1, <2>2, EmptySound, QuietStep DEF call
<1>4. CASE \E i \in PodId : DeletePod(i)
  BY <1>0, <1>4, QuietStep DEF DeletePod, call
<1> QED
  BY <1>1, <1>2, <1>3, <1>4 DEF Users

LEMMA ClusterStep ==
  ASSUME OrderInv, Cluster
  PROVE  StatusStep
<1>1. UNCHANGED <<meta, status, call>>
  BY DEF Cluster, PodStarts, PodEnds, PodSucceeds, PodFails, SetPhase, CollectPod,
         InformerLists, CollectBundle, Resync
<1> QED
  BY <1>1, QuietStep DEF Next, call

-----------------------------------------------------------------------------
(* The steps of a call.                                                    *)
LEMMA ReadyCall ==
  ASSUME DeletionIsPlain, OrderInv, Initialized
  PROVE  /\ pc = "read" /\ tfMeta.finalizer /\ tfMeta \in Meta /\ tfMeta.gen > 0
         /\ prepared \in Status /\ Ready(tfMeta.uid, prepared) /\ prepared.prefix # 0
         /\ prepared.stage = status.stage /\ tfStatus = status
         /\ StageKey(prepared) = StageKey(status)
<1>1. /\ pc = "read" /\ tfMeta.finalizer /\ tfMeta \in Meta /\ tfMeta.gen > 0
      /\ tfStatus \in Status /\ prepared \in Status /\ prepared.stage = tfStatus.stage
      /\ prepared.prefix = tfMeta.uid
  BY WorkingCall DEF OrderInv
<1>2. Ready(tfMeta.uid, prepared)
  BY <1>1, PreparedReady DEF prepared, OrderInv, OrderSound
<1>3. tfMeta.uid # 0 /\ tfStatus = status
  BY <1>1 DEF OrderInv, DeletionInv, DeletionSound, ResourceExists, CallHoldsResource
<1> HIDE DEF prepared
<1> QED
  BY <1>1, <1>2, <1>3 DEF StageKey

LEMMA ReadyNewStage ==
  ASSUME DeletionIsPlain, OrderInv, Initialized, NEW n \in newStage
  PROVE  /\ Ready(tfMeta.uid, n) /\ StageFree
         /\ IsRestart(n) => status.stage.state = "failed"
<1>1. ~IsRetry(tfMeta, tfStatus) /\ PodMissed(prepared) \in BOOLEAN
  BY NoRetries DEF OrderInv, DeletionInv, TypeOK, PodMissed, PodGone
<1>2. n \in CheckSetNewStage(tfMeta, prepared, FALSE, PodMissed(prepared))
  BY <1>1 DEF newStage, CheckSetNewStage
<1> HIDE DEF prepared
<1>3. /\ Ready(tfMeta.uid, n) /\ ~IsLocked(prepared)
      /\ IsRestart(n) => prepared.stage.state = "failed"
  BY <1>1, <1>2, ReadyCall, NewStageReady
<1> QED
  BY <1>3, ReadyCall DEF IsLocked, StageFree

LEMMA FoundPodStep ==
  ASSUME DeletionIsPlain, OrderInv, NEW i \in PodId, FoundPod(i)
  PROVE  StatusStep
<1> DEFINE state == StageStateOf(pods[i].phase)
           d == [prepared EXCEPT !.stage.state = state, !.stage.podName = i]
           next == IF pods[i].phase = "Succeeded" /\ ~KeepPods THEN "remove" ELSE "idle"
<1>1. /\ Initialized /\ i \in StagePods(prepared) /\ UNCHANGED meta
      /\ UpdateStatusWithRetry(d, next, "idle", TRUE)
  BY DEF FoundPod, InTask, InStage
<1>2. state = "complete" => pods[i].phase = "Succeeded"
  BY DEF StageStateOf, OrderInv, DeletionInv, TypeOK, Pod, PodPhases
<1>3. next \in {"idle", "remove"}
  OBVIOUS
<1>4. /\ prepared \in Status /\ Ready(tfMeta.uid, prepared) /\ pc = "read" /\ tfMeta.finalizer
      /\ StageKey(prepared) = StageKey(status) /\ prepared.prefix # 0
      /\ prepared.prefix = tfMeta.uid
  BY <1>1, ReadyCall, WorkingCall DEF OrderInv
<1> HIDE DEF prepared, state, next
<1>5. /\ d.stage.gen = prepared.stage.gen /\ d.stage.task = prepared.stage.task
      /\ d.prefix = prepared.prefix /\ d.phase = prepared.phase /\ d.stage.state = state
      /\ d.retryAt = prepared.retryAt
  BY <1>4 DEF Status, Stage
<1> HIDE DEF d
<1>6. d.stage.state = "complete" => Finished(tfMeta.uid, d.stage.gen, d.stage.task)
  <2>1. /\ pods[i].prefix = tfMeta.uid /\ pods[i].task = d.stage.task
        /\ pods[i].gen = d.stage.gen
    BY <1>1, <1>4, <1>5 DEF StagePods
  <2>2. pods[i].owner = tfMeta.uid
    BY <2>1 DEF OrderInv, DeletionInv, DeletionSound, PodsAreTraced
  <2> QED
    BY <1>2, <1>5, <2>1, <2>2 DEF Finished
<1>7. Ready(tfMeta.uid, d)
  BY <1>4, <1>5, <1>6 DEF Ready, IsDeleting
<1>8. StageKey(d) = StageKey(status) /\ [Next]_vars
  BY <1>4, <1>5 DEF StageKey, Next, Reconcile
<1> QED
  BY <1>1, <1>3, <1>4, <1>7, <1>8, StatusWriteStep

LEMMA SetupAndRunStep ==
  ASSUME DeletionIsPlain, OrderInv, SetupAndRun
  PROVE  StatusStep
<1> DEFINE ph == IF prepared.phase = "initializing" THEN "running"
                 ELSE IF prepared.phase = "initializing-delete" THEN "deleting"
                 ELSE prepared.phase
           d == [prepared EXCEPT !.phase = ph, !.stage.state = "in-progress"]
<1>1. Initialized /\ GoOn("started", d) /\ UNCHANGED <<meta, status>>
  BY DEF SetupAndRun, StartsPod, InTask, InStage
<1>2. /\ prepared \in Status /\ Ready(tfMeta.uid, prepared) /\ prepared.prefix # 0
      /\ StageKey(prepared) = StageKey(status)
  BY <1>1, ReadyCall
<1> HIDE DEF prepared
<1>3. /\ IsDeleting(prepared) => ph \in DeletePhases
      /\ ph = "completed" => prepared.phase = "completed"
  BY DEF IsDeleting, DeletePhases
<1> HIDE DEF ph
<1>4. /\ d.stage.gen = prepared.stage.gen /\ d.stage.task = prepared.stage.task
      /\ d.prefix = prepared.prefix /\ d.phase = ph /\ d.stage.state = "in-progress"
      /\ d.retryAt = prepared.retryAt
  BY <1>2 DEF Status, Stage
<1> HIDE DEF d
<1>5. Ready(tfMeta.uid, d)
  BY <1>2, <1>3, <1>4 DEF Ready, IsDeleting
<1>6. StageKey(d) = StageKey(status) /\ [Next]_vars
  BY <1>2, <1>4 DEF StageKey, Next, Reconcile
<1> QED
  BY <1>1, <1>5, <1>6, GoOnStep

LEMMA EndWorkflowStep ==
  ASSUME DeletionIsPlain, OrderInv, EndWorkflow \/ ResetStage
  PROVE  StatusStep
<1> DEFINE over == [prepared EXCEPT !.phase = IF @ = "running" THEN "completed" ELSE "deleted"]
           again == [prepared EXCEPT !.stage.state = "initializing"]
<1>1. /\ Initialized /\ tfStatus.stage.gen # 0 /\ UNCHANGED meta
      /\ \/ /\ UpdateStatusWithRetry(over, "idle", "idle", TRUE)
            /\ prepared.stage.task = RunNil /\ prepared.phase \in {"running", "deleting"}
         \/ UpdateStatusWithRetry(again, "idle", "idle", TRUE)
  BY DEF EndWorkflow, ResetStage, InTask, InStage
<1>2. /\ prepared \in Status /\ Ready(tfMeta.uid, prepared) /\ pc = "read" /\ tfMeta.finalizer
      /\ StageKey(prepared) = StageKey(status) /\ prepared.prefix # 0
      /\ prepared.stage.gen # 0
  BY <1>1, ReadyCall
<1> HIDE DEF prepared
<1>3. /\ over.stage = prepared.stage /\ over.prefix = prepared.prefix
      /\ over.phase = IF prepared.phase = "running" THEN "completed" ELSE "deleted"
      /\ again.stage.gen = prepared.stage.gen /\ again.stage.task = prepared.stage.task
      /\ again.prefix = prepared.prefix /\ again.phase = prepared.phase
      /\ again.stage.state = "initializing"
      /\ over.retryAt = prepared.retryAt /\ again.retryAt = prepared.retryAt
  BY <1>2 DEF Status, Stage
<1> HIDE DEF over, again
<1>4. /\ StageKey(over) = StageKey(status) /\ StageKey(again) = StageKey(status)
      /\ [Next]_vars
  BY <1>2, <1>3 DEF StageKey, Next, Reconcile
<1>5. Ready(tfMeta.uid, again)
  BY <1>2, <1>3 DEF Ready, IsDeleting
<1>6. prepared.stage.task = RunNil /\ prepared.phase \in {"running", "deleting"}
        => Ready(tfMeta.uid, over)
  <2> SUFFICES ASSUME prepared.stage.task = RunNil, prepared.phase \in {"running", "deleting"}
               PROVE  Ready(tfMeta.uid, over)
    OBVIOUS
  <2>1. IsDeleting(prepared) => IsDeleting(over)
    BY <1>3 DEF IsDeleting, DeletePhases
  <2> QED
    BY <1>2, <1>3, <2>1, EditedReady
<1> QED
  BY <1>1, <1>2, <1>4, <1>5, <1>6, StatusWriteStep

LEMMA InitializeStatusStep ==
  ASSUME DeletionIsPlain, OrderInv, InitializeStatus
  PROVE  StatusStep
<1> DEFINE d == [tfStatus EXCEPT !.prefix = tfMeta.uid, !.phase = "initializing"]
<1>1. /\ UpdateStatusWithRetry(d, "idle", "idle", FALSE) /\ UNCHANGED meta
      /\ pc = "read" /\ tfMeta.finalizer /\ tfStatus.prefix = 0
  BY PastFinalizer DEF InitializeStatus, OrderInv
<1>2. /\ tfStatus \in Status /\ Ready(tfMeta.uid, tfStatus) /\ status = tfStatus
  BY <1>1 DEF OrderInv, DeletionInv, TypeOK, OrderSound, DeletionSound, CallHoldsResource
<1>3. /\ d.stage = tfStatus.stage /\ d.prefix = tfMeta.uid /\ d.phase = "initializing"
      /\ d.retryAt = tfStatus.retryAt
  BY <1>2 DEF Status
<1> HIDE DEF d
<1>4. tfStatus.stage.gen = 0 /\ tfStatus.stage.task = RunNil /\ tfStatus.retryAt = 0
  BY <1>1, <1>2 DEF Ready
<1>5. Ready(tfMeta.uid, d)
  BY <1>3, <1>4, NilIsNoTask DEF Ready
<1>6. StageKey(d) = StageKey(status) /\ [Next]_vars
  BY <1>2, <1>3 DEF StageKey, Next, Reconcile
<1> QED
  BY <1>1, <1>5, <1>6, StatusWriteStep

LEMMA CreatePluginJobStep ==
  ASSUME OrderInv, NEW p \in PluginNames, CreatePluginJob(p)
  PROVE  StatusStep
<1> DEFINE d == [tfStatus EXCEPT !.plugins = @ \cup {p}]
<1>1. /\ UpdateStatusWithRetry(d, AfterRun, AfterRun, FALSE) /\ pc = "plugins"
      /\ UNCHANGED meta /\ AfterRun \in {"idle", "plugins"}
  BY DEF CreatePluginJob, AfterRun
<1>2. /\ tfStatus \in Status /\ Ready(tfMeta.uid, tfStatus) /\ tfMeta.finalizer
      /\ StageKey(status) = StageKey(tfStatus)
  BY <1>1 DEF OrderInv, DeletionInv, TypeOK, DeletionSound, CallHoldsResource, OrderSound,
              CallKnows
<1>3. /\ d.stage = tfStatus.stage /\ d.prefix = tfStatus.prefix /\ d.phase = tfStatus.phase
      /\ d.retryAt = tfStatus.retryAt
  BY <1>2 DEF Status
<1> HIDE DEF d
<1>4. Ready(tfMeta.uid, d)
  BY <1>2, <1>3 DEF Ready, IsDeleting
<1>5. StageKey(d) = StageKey(status) /\ [Next]_vars
  BY <1>2, <1>3 DEF StageKey, Next, Reconcile
<1> QED
  BY <1>1, <1>2, <1>4, <1>5, StatusWriteStep

LEMMA ReconcileStep ==
  ASSUME DeletionIsPlain, OrderInv, Reconcile
  PROVE  StatusStep
<1>0. [Next]_vars /\ CallKnows
  BY DEF Next, OrderInv, OrderSound
<1>1. CASE GetResource
  <2>1. Ready(meta.uid, status)' /\ Ready(tfMeta.uid, tfStatus)'
    BY <1>0, <1>1, ReadyStays DEF GetResource, OrderInv, OrderSound
  <2> QED
    BY <1>1, <2>1 DEF GetResource, StatusStep, CallKnows, StageReplaced
<1>2. CASE ResourceNotFound
  BY <1>0, <1>2, QuietStep DEF ResourceNotFound, call
<1>3. CASE UpdateFinalizer
  <2>1. /\ pc = "read" /\ pc' = "idle" /\ tfMeta' = NoMeta /\ tfStatus' = EmptyStatus
        /\ Update(UpdatedFinalizer(tfMeta, tfStatus))
    BY <1>3 DEF UpdateFinalizer, Return, GoOn
  <2>2. \/ UNCHANGED status /\ meta'.uid = meta.uid
        \/ status' = EmptyStatus /\ ~StageReplaced
    <3> DEFINE finalizer == UpdatedFinalizer(tfMeta, tfStatus)
    <3>1. meta \in Meta
      BY DEF OrderInv, DeletionInv, TypeOK
    <3>2. \/ meta' = [meta EXCEPT !.finalizer = finalizer] /\ UNCHANGED status
          \/ meta' = NoMeta /\ status' = EmptyStatus
          \/ UNCHANGED <<meta, status>>
      BY <2>1 DEF Update
    <3> HIDE DEF finalizer
    <3>3. meta' = [meta EXCEPT !.finalizer = finalizer] => meta'.uid = meta.uid
      BY <3>1 DEF Meta
    <3>4. meta' = NoMeta => meta'.uid = 0
      BY EmptySound
    <3>5. meta'.uid = 0 => ~StageReplaced
      BY DEF StageReplaced
    <3> QED
      BY <3>2, <3>3, <3>4, <3>5
  <2>3. Ready(meta.uid, status)'
    BY <1>0, <2>2, EmptyReady, ReadyStays DEF OrderInv, OrderSound
  <2>4. Ready(tfMeta.uid, tfStatus)'
    BY <1>0, <2>1, EmptyReady, ReadyStays DEF OrderInv
  <2> QED
    BY <2>1, <2>2, <2>3, <2>4 DEF StatusStep, CallKnows, StageReplaced
<1>4. CASE AddFirstStage
  <2>1. /\ Initialized /\ tfStatus.stage.gen = 0 /\ UNCHANGED meta
        /\ UpdateStatusWithRetry(FirstStage(tfMeta, tfStatus), "idle", "idle", TRUE)
    BY <1>4 DEF AddFirstStage
  <2>2. /\ tfStatus \in Status /\ tfStatus.prefix # 0 /\ Ready(tfMeta.uid, tfStatus)
        /\ pc = "read" /\ tfMeta.finalizer /\ tfMeta \in Meta /\ tfMeta.gen > 0
        /\ tfStatus = status
    BY <2>1, ReadyCall DEF Initialized, OrderInv, DeletionInv, TypeOK, OrderSound
  <2>3. Ready(tfMeta.uid, FirstStage(tfMeta, tfStatus)) /\ StageFree
    BY <2>1, <2>2, FirstStageReady DEF StageFree
  <2> QED
    BY <1>0, <2>1, <2>2, <2>3, StatusWriteStep
<1>5. CASE SetNewStage
  <2>1. PICK s \in newStage : UpdateStatusWithRetry(s, "idle", "idle", FALSE)
    BY <1>5 DEF SetNewStage
  <2>2. Initialized /\ UNCHANGED meta
    BY <1>5 DEF SetNewStage
  <2> QED
    BY <1>0, <2>1, <2>2, ReadyCall, ReadyNewStage, StatusWriteStep
<1>6. CASE RemoveOldPlan
  <2>1. PICK s \in newStage : IsRestart(s) /\ GoOn("restart", s)
    BY <1>6 DEF RemoveOldPlan
  <2>2. Initialized /\ UNCHANGED <<meta, status>>
    BY <1>6 DEF RemoveOldPlan
  <2>3. Ready(tfMeta.uid, s) /\ status.stage.state = "failed"
    BY <2>1, <2>2, ReadyNewStage
  <2> QED
    BY <1>0, <2>1, <2>2, <2>3, GoOnStep
<1>7. CASE RestartWorkflow
  <2>1. /\ pc = "restart" /\ UNCHANGED meta
        /\ UpdateStatusWithRetry(tfStatus, "idle", "idle", FALSE)
    BY <1>7 DEF RestartWorkflow
  <2>2. StageFree /\ Ready(tfMeta.uid, tfStatus) /\ tfMeta.finalizer
    BY <2>1 DEF StageFree, OrderInv, OrderSound, CallKnows, DeletionInv, DeletionSound,
                CallHoldsResource
  <2> QED
    BY <1>0, <2>1, <2>2, StatusWriteStep
<1>8. CASE NothingToDo \/ ListFails
  <2>1. Return /\ UNCHANGED <<meta, status>>
    BY <1>8 DEF NothingToDo, ListFails, cluster
  <2> QED
    BY <1>0, <2>1, GoOnStep DEF Return
<1>12. CASE LookForPod
  <2>1. UNCHANGED <<meta, status, pc, tfMeta, tfStatus>>
    BY <1>12 DEF LookForPod, cluster
  <2> QED
    BY <1>0, <2>1, QuietStep
<1>9. CASE SetupFails
  <2>1. Initialized /\ GoOn(AfterRun, prepared) /\ UNCHANGED <<meta, status>>
    BY <1>9 DEF SetupFails, StartsPod, InTask, InStage
  <2>2. AfterRun \in {"idle", "plugins"}
    BY DEF AfterRun
  <2>3. Ready(tfMeta.uid, prepared) /\ StageKey(prepared) = StageKey(status)
    BY <2>1, ReadyCall
  <2> QED
    BY <1>0, <2>1, <2>2, <2>3, GoOnStep
<1>10. CASE SaveStarted
  <2>1. /\ pc = "started" /\ UNCHANGED meta /\ AfterRun \in {"idle", "plugins"}
        /\ UpdateStatusWithRetry(tfStatus, AfterRun, AfterRun, TRUE)
    BY <1>10 DEF SaveStarted, AfterRun
  <2>2. /\ StageKey(tfStatus) = StageKey(status) /\ Ready(tfMeta.uid, tfStatus)
        /\ tfMeta.finalizer
    BY <2>1 DEF OrderInv, OrderSound, CallKnows, DeletionInv, DeletionSound,
                CallHoldsResource
  <2> QED
    BY <1>0, <2>1, <2>2, StatusWriteStep
<1>11. CASE RemovePod
  <2>1. Return /\ UNCHANGED <<meta, status>>
    BY <1>11 DEF RemovePod
  <2> QED
    BY <1>0, <2>1, GoOnStep DEF Return
<1> QED
  BY <1>1, <1>2, <1>3, <1>4, <1>5, <1>6, <1>7, <1>8, <1>9, <1>10, <1>11, <1>12, SetupAndRunStep,
     FoundPodStep, EndWorkflowStep, InitializeStatusStep, CreatePluginJobStep DEF Reconcile

LEMMA StatusStepHolds ==
  ASSUME DeletionIsPlain, OrderInv, [Next]_vars
  PROVE  StatusStep
<1>1. CASE UNCHANGED vars
  <2>1. UNCHANGED <<meta, status, call>>
    BY <1>1 DEF vars, cluster
  <2> QED
    BY <2>1, QuietStep DEF call
<1>2. CASE Crash
  <2>1. Return /\ UNCHANGED <<meta, status>> /\ [Next]_vars
    BY <1>2 DEF Crash
  <2> QED
    BY <2>1, GoOnStep DEF Return
<1> QED
  BY <1>1, <1>2, UsersStep, ClusterStep, ReconcileStep DEF Next

(* The pod that is created is that of a stage that was ready for it.       *)
LEMMA RunsInOrderKeeps ==
  ASSUME DeletionIsPlain, OrderInv, [Next]_vars
  PROVE  TasksRunInOrder'
<1>1. \A uid, gen, task : DoneBefore(uid, gen, task) => DoneBefore(uid, gen, task)'
  BY FinishedStays DEF DoneBefore, OrderInv
<1>2. \A i \in PodId : pods[i].task # RunNil =>
        DoneBefore(pods[i].owner, pods[i].gen, pods[i].task)
  BY DEF OrderInv, OrderSound, TasksRunInOrder, DoneBefore
<1>3. ASSUME NEW i \in PodId, pods'[i].task # RunNil
      PROVE  DoneBefore(pods'[i].owner, pods'[i].gen, pods'[i].task)
  <2>1. CASE SetupAndRun /\ i = nextPod
    <3>1. /\ pods'[i].owner = tfMeta.uid /\ pods'[i].gen = prepared.stage.gen
          /\ pods'[i].task = prepared.stage.task
      BY <2>1, SetupAndRunPods DEF OrderInv
    <3>2. Ready(tfMeta.uid, prepared)
      BY <2>1, ReadyCall DEF SetupAndRun, StartsPod, InTask, InStage
    <3> HIDE DEF prepared
    <3> QED
      BY <1>3, <3>1, <3>2 DEF Ready
  <2>2. CASE SetupAndRun /\ i # nextPod
    <3>1. pods'[i] = pods[i]
      BY <2>2, SetupAndRunPods DEF OrderInv
    <3> QED
      BY <1>2, <1>3, <3>1
  <2>3. CASE ~SetupAndRun
    BY <1>2, <1>3, <2>3, OtherStepsKeepPods DEF SamePod, OrderInv, DeletionInv
  <2> QED
    BY <2>1, <2>2, <2>3
<1>4. ASSUME NEW i \in PodId, NEW uid, NEW gen, NEW task, task # RunNil,
             uid = pods'[i].owner, gen = pods'[i].gen, task = pods'[i].task
      PROVE  DoneBefore(uid, gen, task)'
  BY <1>1, <1>3, <1>4
<1> QED
  BY <1>4 DEF TasksRunInOrder, DoneBefore

LEMMA OrderInit == Init => OrderSound
<1> SUFFICES ASSUME Init PROVE OrderSound
  OBVIOUS
<1>1. Ready(meta.uid, status) /\ Ready(tfMeta.uid, tfStatus)
  BY EmptyReady DEF Init
<1>2. CallKnows /\ TasksRunInOrder
  BY DEF Init, CallKnows, TasksRunInOrder, NoPod
<1> QED
  BY <1>1, <1>2 DEF OrderSound

-----------------------------------------------------------------------------
(* The invariant is inductive, on top of that of the deletion.             *)
THEOREM OrderInvariant == ASSUME DeletionIsPlain PROVE Spec => []OrderInv
<1>1. DeletionInv /\ OrderSound /\ [Next]_vars => OrderSound'
  BY StatusStepHolds, RunsInOrderKeeps DEF OrderInv, OrderSound, StatusStep
<1> QED
  BY <1>1, OrderInit, DeletionInvariant, PTL DEF Spec, OrderInv

(* TasksRunInOrder: a task's pod is created only after every configured    *)
(* task before it has succeeded, for the resource and the generation.      *)
THEOREM ControllerRunsTasksInOrder ==
  ASSUME DeletionIsPlain PROVE Spec => []TasksRunInOrder
<1>1. OrderInv => TasksRunInOrder
  BY DEF OrderInv, OrderSound
<1> QED
  BY <1>1, OrderInvariant, PTL

(* CompletedRanWholeWorkflow: a completed resource has run every           *)
(* configured task of the create workflow.                                 *)
THEOREM CompletedHasRunAll ==
  ASSUME DeletionIsPlain PROVE Spec => []CompletedRanWholeWorkflow
<1>1. OrderInv => CompletedRanWholeWorkflow
  BY DEF OrderInv, OrderSound, Ready, IsDeleting, DeletePhases, CompletedRanWholeWorkflow
<1> QED
  BY <1>1, OrderInvariant, PTL

(* InProgressStageKept: a stage that is not interruptible is not replaced  *)
(* while the resource shows it in progress.                                *)
THEOREM StageInProgressIsKept ==
  ASSUME DeletionIsPlain PROVE Spec => InProgressStageKept
<1>1. OrderInv /\ [Next]_vars
        => [StageReplaced /\ ~status.stage.interruptible => status.stage.state # "in-progress"]_vars
  BY StatusStepHolds DEF StatusStep, StageFree, StageReplaced
<1> QED
  BY <1>1, OrderInvariant, PTL DEF Spec, InProgressStageKept

-----------------------------------------------------------------------------
(* One live pod per stage.  When the informers do not lag, every pod that  *)
(* is there is seen under the generation it was made for, so a call finds  *)
(* the live pod of its stage and starts no other.                          *)
PodsAreSeen ==
  \A i \in PodId : pods[i].there => pods[i].listed /\ pods[i].ver = pods[i].gen

SingleInv == PodsAreSeen /\ OneLivePodPerStage

LEMMA StartsUnseenPod ==
  ASSUME DeletionIsPlain, OrderInv, SetupAndRun
  PROVE  /\ prepared.stage.gen = tfMeta.gen
         /\ \A j \in PodId :
              ~(/\ pods[j].there /\ pods[j].listed /\ pods[j].ver = pods[j].gen
                /\ pods[j].prefix = prepared.prefix /\ pods[j].gen = prepared.stage.gen
                /\ pods[j].task = prepared.stage.task)
<1>1. /\ Initialized /\ newStage = {} /\ StagePods(prepared) = {}
      /\ prepared.stage.state # "in-progress"
  BY DEF SetupAndRun, StartsPod, InTask, InStage
<1>2. ~IsRetry(tfMeta, tfStatus) /\ prepared.retryAt = 0
  BY <1>1, NoRetries, ReadyCall DEF OrderInv, DeletionInv, TypeOK, Ready
<1> HIDE DEF prepared
<1>3. prepared.stage.gen = tfMeta.gen
  BY <1>1, <1>2 DEF newStage, CheckSetNewStage, IsLocked, IsNewGeneration
<1>4. \A j \in PodId : j >= prepared.retryAt
  BY <1>2 DEF PodId
<1> QED
  BY <1>1, <1>3, <1>4 DEF StagePods

LEMMA SingleKeeps ==
  ASSUME DeletionIsPlain, PodLag = FALSE, OrderInv, SingleInv, [Next]_vars
  PROVE  SingleInv'
<1>1. CASE SetupAndRun
  <2>1. /\ nextPod \in PodId
        /\ pods'[nextPod] = [prefix |-> prepared.prefix, owner |-> tfMeta.uid,
                             task |-> prepared.stage.task,
                             gen |-> prepared.stage.gen, ver |-> tfMeta.gen,
                             phase |-> "Pending", there |-> TRUE, listed |-> ~PodLag]
        /\ \A i \in PodId \ {nextPod} : pods'[i] = pods[i]
    BY <1>1, SetupAndRunPods DEF OrderInv
  <2>2. /\ prepared.stage.gen = tfMeta.gen
        /\ \A j \in PodId :
             ~(/\ pods[j].there /\ pods[j].listed /\ pods[j].ver = pods[j].gen
               /\ pods[j].prefix = prepared.prefix /\ pods[j].gen = prepared.stage.gen
               /\ pods[j].task = prepared.stage.task)
    BY <1>1, StartsUnseenPod
  <2> HIDE DEF prepared
  <2>0. pods'[nextPod].listed
    <3>1. pods'[nextPod].listed = ~PodLag
      BY <2>1
    <3> QED
      BY <3>1
  <2>3. /\ pods'[nextPod].ver = pods'[nextPod].gen
        /\ pods'[nextPod].prefix = prepared.prefix
        /\ pods'[nextPod].gen = prepared.stage.gen
        /\ pods'[nextPod].task = prepared.stage.task
    BY <2>1, <2>2
  <2>4. PodsAreSeen'
    BY <2>0, <2>1, <2>3 DEF SingleInv, PodsAreSeen
  <2>5. ASSUME NEW j \in PodId \ {nextPod}, pods'[j].there,
               pods'[j].prefix = pods'[nextPod].prefix, pods'[j].gen = pods'[nextPod].gen,
               pods'[j].task = pods'[nextPod].task
        PROVE  FALSE
    BY <2>1, <2>2, <2>3, <2>5 DEF SingleInv, PodsAreSeen
  <2>6. OneLivePodPerStage'
    BY <2>1, <2>5 DEF SingleInv, OneLivePodPerStage, Live
  <2> QED
    BY <2>4, <2>6 DEF SingleInv
<1>2. CASE ~SetupAndRun
  <2>1. \A i \in PodId : SamePod(i)
    BY <1>2, OtherStepsKeepPods DEF OrderInv, DeletionInv
  <2> QED
    BY <2>1 DEF SingleInv, PodsAreSeen, OneLivePodPerStage, Live, SamePod
<1> QED
  BY <1>1, <1>2

(* OneLivePodPerStage: never two unfinished pods for one task of one       *)
(* generation, when the informer has seen every pod that was created.      *)
THEOREM OnlyOneLivePod ==
  ASSUME DeletionIsPlain, PodLag = FALSE PROVE Spec => []OneLivePodPerStage
<1>1. Init => SingleInv
  BY DEF Init, SingleInv, PodsAreSeen, OneLivePodPerStage, Live, NoPod
<1>2. OrderInv /\ SingleInv /\ [Next]_vars => SingleInv'
  BY SingleKeeps
<1>3. SingleInv => OneLivePodPerStage
  BY DEF SingleInv
<1> QED
  BY <1>1, <1>2, <1>3, OrderInvariant, PTL DEF Spec

-----------------------------------------------------------------------------
(***************************************************************************)
(* Retries.  A completed resource that was retried has run its workflow    *)
(* again, from the task the retry starts at.  Retries, deletions before    *)
(* the first stage and any lag of the informers are allowed here; the one  *)
(* assumption is that no resource gives its finalizer up by                *)
(* spec.ignoreDelete, so that a call keeps the resource it has read.       *)
(***************************************************************************)
FinalizersAreKept == IgnoreDeletes \subseteq {FALSE}

(* The task has succeeded in a pod created since the retry at that count.  *)
FinishedSince(uid, gen, task, at) ==
  \E i \in PodId : /\ i >= at /\ i < nextPod
                   /\ pods[i].owner = uid /\ pods[i].gen = gen
                   /\ pods[i].task = task /\ pods[i].phase = "Succeeded"

(* The last retry of s does not ask for the task, or it has run again.     *)
RunSince(uid, s, task) ==
  \/ Before(task, RetryStart(s.retryReason))
  \/ FinishedSince(uid, s.stage.gen, task, s.retryAt)

(* The tasks the stage of s has behind it, all of them when it is over,    *)
(* have run since the retry; a destroy workflow is that of a deletion.     *)
RetryCovered(uid, s) ==
  /\ s.stage.task \in CreateTasks =>
       \A t \in Configured \cap CreateTasks :
         Before(t, s.stage.task) \/ (t = s.stage.task /\ s.stage.state = "complete")
           => RunSince(uid, s, t)
  /\ s.stage.task \in DeleteTasks => IsDeleting(s)
  /\ s.stage.task = RunNil /\ ~IsDeleting(s) =>
       \A t \in Configured \cap CreateTasks : RunSince(uid, s, t)

(* A retry met a new generation and a stage in progress, so the stage was  *)
(* reset and not replaced: the next call takes the new generation.         *)
Outdated(m, s) ==
  s.stage.gen < m.gen /\ s.stage.state # "in-progress" /\ s.phase # "completed"

Retried(m, s) ==
  /\ s.stage.gen <= m.gen
  /\ s.prefix \in {0, m.uid}
  /\ s.retryReason # NoLabel =>
       /\ s.prefix # 0 /\ s.stage.gen # 0
       /\ RetryCovered(m.uid, s) \/ Outdated(m, s)
  /\ s.phase = "completed" => s.stage.task = RunNil /\ s.stage.gen # 0

(* The resource a call has found its finalizer on does not go away.        *)
CallKeepsResource ==
  /\ pc \notin {"idle", "read"} => tfMeta.finalizer
  /\ pc # "idle" /\ tfMeta.finalizer =>
       meta.finalizer /\ meta.uid = tfMeta.uid /\ tfMeta.gen <= meta.gen
  /\ pc # "idle" => tfMeta.uid # 0
  /\ meta.uid = 0 => meta = NoMeta
  /\ ~meta.ignoreDelete /\ ~tfMeta.ignoreDelete

PodsAreOwned ==
  \A i \in PodId : pods[i].owner = pods[i].prefix /\ (i >= nextPod => ~pods[i].there)

RetrySound ==
  /\ Retried(meta, status) /\ Retried(tfMeta, tfStatus)
  /\ CallKeepsResource
  /\ PodsAreOwned

RetryInv == TypeOK /\ RetrySound

-----------------------------------------------------------------------------
(* The decisions: what Reconcile makes of the copy it has prepared.        *)
LEMMA EmptyRetried == \A m \in Meta : Retried(m, EmptyStatus)
<1>1. /\ EmptyStatus.stage.gen = 0 /\ EmptyStatus.prefix = 0
      /\ EmptyStatus.phase # "completed"
  BY EmptySound
<1>2. EmptyStatus.retryReason = NoLabel
  BY DEF EmptyStatus
<1> QED
  BY <1>1, <1>2 DEF Retried, Meta

(* A copy that keeps its stage's task and its retry.                       *)
LEMMA EditedCovered ==
  ASSUME NEW uid, NEW s, NEW n, RetryCovered(uid, s),
         n.stage.gen = s.stage.gen, n.stage.task = s.stage.task,
         n.retryReason = s.retryReason, n.retryAt = s.retryAt,
         IsDeleting(s) => IsDeleting(n),
         n.stage.state = "complete" =>
           s.stage.state = "complete" \/ RunSince(uid, s, s.stage.task)
  PROVE  RetryCovered(uid, n)
BY DEF RetryCovered, RunSince

LEMMA SetupIsCovered ==
  ASSUME NEW uid, NEW n, n.stage.task \in {"setup", "setup-delete"},
         n.stage.state = "initializing", n.stage.task = "setup-delete" => IsDeleting(n)
  PROVE  RetryCovered(uid, n)
<1>0. \A t \in WorkflowOf(n.stage.task) : ~Before(t, n.stage.task)
  BY SetupIsFirst
<1>1. ASSUME n.stage.task = "setup" PROVE \A t \in CreateTasks : ~Before(t, n.stage.task)
  <2>1. n.stage.task \in CreateTasks
    BY <1>1, CreateTaskIDs
  <2>2. WorkflowOf(n.stage.task) = CreateTasks
    BY <2>1, WorkflowsOfTasks
  <2> QED
    BY <1>0, <2>2
<1>2. /\ n.stage.task # RunNil
      /\ n.stage.task = "setup-delete" => n.stage.task \notin CreateTasks
  BY CreateTaskIDs, DeleteTaskIDs, WorkflowsOfTasks, NilIsNoTask
<1>3. n.stage.task = "setup" => n.stage.task \notin DeleteTasks
  BY CreateTaskIDs, WorkflowsOfTasks
<1> QED
  BY <1>1, <1>2, <1>3 DEF RetryCovered

LEMMA RetryStartIsCreate == \A label : RetryStart(label) \in CreateTasks
<1>1. TasksInOrder[1] = "setup" /\ TasksInOrder[3] = "init"
  BY DEF TasksInOrder
<1>2. {"setup", "init"} \subseteq CreateTasks
  BY <1>1, TaskPlaces
<1> QED
  BY <1>2 DEF RetryStart

(* The stage of a retry has nothing behind it that the retry asks for.     *)
LEMMA RetryStageCovered ==
  ASSUME NEW uid, NEW m \in Meta, NEW s \in Status, s.phase = "initializing"
  PROVE  LET n == RetryStage(m, s)
         IN  /\ RetryCovered(uid, n) /\ n.stage.gen = m.gen /\ n.phase = "initializing"
             /\ n.prefix = s.prefix
<1> DEFINE n == RetryStage(m, s)
           start == RetryStart(s.retryReason)
<1>1. RetryTask(s, s.retryReason) = start
  BY DEF RetryTask, RetryStart, IsDeleting, DeletePhases
<1>2. /\ n.stage.gen = m.gen /\ n.stage.task = start /\ n.stage.state = "initializing"
      /\ n.phase = "initializing" /\ n.prefix = s.prefix /\ n.retryReason = s.retryReason
  BY <1>1 DEF RetryStage, NewStage, Status
<1> HIDE DEF n
<1>3. start \in CreateTasks /\ start \notin DeleteTasks /\ start # RunNil
  BY RetryStartIsCreate, WorkflowsOfTasks, NilIsNoTask
<1>4. RetryCovered(uid, n)
  BY <1>2, <1>3 DEF RetryCovered, RunSince
<1> QED
  BY <1>2, <1>4 DEF n

LEMMA NextTaskCovered ==
  ASSUME NEW uid, NEW s \in Status, NEW n, RetryCovered(uid, s),
         s.stage.task # RunNil, s.stage.state = "complete",
         n.phase = s.phase, n.retryReason = s.retryReason, n.retryAt = s.retryAt,
         n.stage.gen = s.stage.gen, n.stage.task = NextTask(s.stage.task, Configured),
         n.stage.state = "complete" => n.stage.task = RunNil
  PROVE  RetryCovered(uid, n)
<1> DEFINE t == s.stage.task
           next == n.stage.task
<1>1. t \in TaskName
  BY DEF Status, Stage
<1>2. ASSUME NEW u \in Configured \cap CreateTasks, t \in CreateTasks,
             next = RunNil \/ Before(u, next)
      PROVE  RunSince(uid, n, u)
  <2>1. u = t \/ Before(u, t)
    BY <1>1, <1>2, ConfiguredTasks, NothingIsSkipped, WorkflowsOfTasks
  <2>2. RunSince(uid, s, u)
    BY <1>2, <2>1 DEF RetryCovered
  <2> QED
    BY <2>2 DEF RunSince
<1>3. next # RunNil => WorkflowOf(next) = WorkflowOf(t) /\ next \in TaskName
  BY NextTaskResult, WorkflowOfLater
<1>4. /\ next \in DeleteTasks => t \in DeleteTasks
      /\ next \in CreateTasks => t \in CreateTasks
  BY <1>1, <1>3, NilIsNoTask, WorkflowsOfTasks DEF TaskName
<1>5. t \in DeleteTasks => IsDeleting(n)
  BY DEF RetryCovered, IsDeleting
<1>6. t \in CreateTasks \/ t \in DeleteTasks
  BY <1>1 DEF TaskName
<1>7. n.stage.state = "complete" => next \notin CreateTasks
  BY NilIsNoTask
<1> QED
  BY <1>2, <1>4, <1>5, <1>6, <1>7 DEF RetryCovered

LEMMA RestartCovered ==
  ASSUME NEW uid, NEW s \in Status, NEW n, RetryCovered(uid, s),
         s.stage.task \in {"apply", "apply-delete"},
         n.phase = s.phase, n.retryReason = s.retryReason, n.retryAt = s.retryAt,
         n.stage.gen = s.stage.gen,
         n.stage.task = NextTask(IF s.stage.task = "apply-delete" THEN "postinit-delete"
                                 ELSE "postinit", Configured),
         n.stage.state = "initializing"
  PROVE  RetryCovered(uid, n) /\ n.stage.task # RunNil
<1> DEFINE t == s.stage.task
           next == n.stage.task
<1>1. next \in TaskName /\ WorkflowOf(next) = WorkflowOf(t) /\ Before(next, t)
  BY RestartIsEarlier DEF Configured
<1>2. t \in TaskName /\ t # RunNil /\ next # RunNil
  BY <1>1, ApplyIsATask, NilIsNoTask DEF Status, Stage
<1>3. ASSUME NEW u \in Configured \cap CreateTasks, t \in CreateTasks, Before(u, next)
      PROVE  RunSince(uid, n, u)
  <2>1. Before(u, t)
    BY <1>1, <1>2, <1>3, ConfiguredTasks, TaskIDs DEF Before
  <2>2. RunSince(uid, s, u)
    BY <1>3, <2>1 DEF RetryCovered
  <2> QED
    BY <2>2 DEF RunSince
<1>4. /\ next \in DeleteTasks => t \in DeleteTasks
      /\ next \in CreateTasks => t \in CreateTasks
  BY <1>1, <1>2, WorkflowsOfTasks DEF TaskName
<1>5. t \in DeleteTasks => IsDeleting(n)
  BY DEF RetryCovered, IsDeleting
<1> QED
  BY <1>2, <1>3, <1>4, <1>5 DEF RetryCovered

(* The copy past the deletion mark, when the call does not mark a retry.   *)
LEMMA MarkedRetried ==
  ASSUME NEW m \in Meta, NEW s \in Status, Retried(m, s), NEW p, p = MarkedDeletion(m, s)
  PROVE  /\ Retried(m, p) /\ p.stage = s.stage /\ p.prefix = s.prefix
         /\ p.retryReason = s.retryReason /\ p.retryAt = s.retryAt
         /\ p.phase \in {"initializing-delete", s.phase}
<1>1. CASE m.deleting /\ s.phase \notin DeletePhases
  <2>1. /\ p.stage = s.stage /\ p.prefix = s.prefix /\ p.phase = "initializing-delete"
        /\ p.retryReason = s.retryReason /\ p.retryAt = s.retryAt
    BY <1>1 DEF MarkedDeletion, Status
  <2>2. IsDeleting(p) /\ p.phase # "completed"
    BY <2>1 DEF IsDeleting, DeletePhases
  <2>3. RetryCovered(m.uid, s) => RetryCovered(m.uid, p)
    BY <2>1, <2>2, EditedCovered
  <2>4. Outdated(m, s) => Outdated(m, p)
    BY <2>1, <2>2 DEF Outdated
  <2> QED
    BY <2>1, <2>2, <2>3, <2>4 DEF Retried
<1>2. CASE ~(m.deleting /\ s.phase \notin DeletePhases)
  BY <1>2 DEF MarkedDeletion
<1> QED
  BY <1>1, <1>2

(* A new stage of the generation, or of the new one.                       *)
LEMMA GenerationRetried ==
  ASSUME NEW m \in Meta, NEW s \in Status, s.stage.gen # 0, s.stage.gen <= m.gen,
         s.prefix = m.uid, m.uid # 0, NEW n, n = GenerationStage(m, s)
  PROVE  Retried(m, n)
<1>0. m.gen \in Nat /\ m.gen # 0
  BY DEF Meta, Status, Stage
<1>1. /\ n.stage.gen = m.gen /\ n.stage.state = "initializing" /\ n.prefix = s.prefix
      /\ n.stage.task = IF IsDeleting(s) THEN "setup-delete" ELSE "setup"
      /\ n.phase = IF IsDeleting(s) THEN s.phase ELSE "initializing"
  BY DEF GenerationStage, NewStage, Status
<1>2. n.stage.task = "setup-delete" => IsDeleting(n)
  BY <1>1 DEF IsDeleting
<1>3. n.phase # "completed"
  BY <1>1 DEF IsDeleting, DeletePhases
<1>4. RetryCovered(m.uid, n)
  BY <1>1, <1>2, SetupIsCovered
<1> QED
  BY <1>0, <1>1, <1>3, <1>4 DEF Retried

LEMMA NewStageRetried ==
  ASSUME NEW m \in Meta, NEW s \in Status, Retried(m, s), s.stage.gen # 0,
         s.prefix = m.uid, m.uid # 0, NEW podGone \in BOOLEAN,
         NEW n \in CheckSetNewStage(m, s, FALSE, podGone)
  PROVE  Retried(m, n)
<1>0. m.gen \in Nat /\ m.gen # 0 /\ s.stage.gen <= m.gen
  BY DEF Meta, Status, Stage, Retried
<1>1. ASSUME n = GenerationStage(m, s) PROVE Retried(m, n)
  BY <1>0, <1>1, GenerationRetried
<1>2. ASSUME n = CompletedStage(m, s), s.stage.gen = m.gen, s.stage.state = "complete",
             s.stage.task # RunNil
      PROVE  Retried(m, n)
  <2> DEFINE task == NextTask(s.stage.task, Configured)
  <2>1. /\ n.stage.gen = m.gen /\ n.stage.task = task /\ n.prefix = s.prefix
        /\ n.phase = s.phase /\ n.retryReason = s.retryReason /\ n.retryAt = s.retryAt
        /\ n.stage.state = IF task = RunNil THEN "complete" ELSE "initializing"
    BY <1>2 DEF CompletedStage, NewStage, Status
  <2> HIDE DEF task
  <2>2. n.stage.state = "complete" => n.stage.task = RunNil
    BY <2>1
  <2>3. s.retryReason # NoLabel => RetryCovered(m.uid, s)
    BY <1>0, <1>2 DEF Retried, Outdated
  <2>4. RetryCovered(m.uid, s) => RetryCovered(m.uid, n)
    BY <1>2, <2>1, <2>2, NextTaskCovered DEF task
  <2> QED
    BY <1>0, <1>2, <2>1, <2>3, <2>4 DEF Retried
<1>3. ASSUME n = RestartStage(m, s), s.stage.gen = m.gen, s.stage.state = "failed",
             s.stage.task \in {"apply", "apply-delete"}
      PROVE  Retried(m, n)
  <2>1. /\ n.stage.gen = m.gen /\ n.prefix = s.prefix /\ n.phase = s.phase
        /\ n.retryReason = s.retryReason /\ n.retryAt = s.retryAt
        /\ n.stage.task = NextTask(IF s.stage.task = "apply-delete" THEN "postinit-delete"
                                   ELSE "postinit", Configured)
        /\ n.stage.state = "initializing"
    BY <1>3 DEF RestartStage, NewStage, Status
  <2>2. s.retryReason # NoLabel => RetryCovered(m.uid, s)
    BY <1>0, <1>3 DEF Retried, Outdated
  <2>3. RetryCovered(m.uid, s) => RetryCovered(m.uid, n)
    BY <1>3, <2>1, RestartCovered
  <2>4. s.phase # "completed"
    BY <1>3, ApplyIsATask DEF Retried
  <2> QED
    BY <1>0, <2>1, <2>2, <2>3, <2>4 DEF Retried
<1> QED
  BY <1>1, <1>2, <1>3 DEF CheckSetNewStage, IsNewGeneration, IsFailedApply

(* The stage of a call that marks a retry, and the copy it marks.          *)
LEMMA RetryMark ==
  ASSUME NEW m \in Meta, NEW s \in Status, IsRetry(m, s), NEW now, NEW p,
         p = Prepared(m, s, now)
  PROVE  /\ p.stage = s.stage /\ p.prefix = s.prefix /\ p.phase = "initializing"
         /\ p.retryAt = now
BY DEF Prepared, Status

LEMMA RetryStageRetried ==
  ASSUME NEW m \in Meta, NEW s \in Status, s.stage.gen # 0, s.stage.gen <= m.gen,
         s.prefix = m.uid, m.uid # 0, s.phase = "initializing", NEW podGone,
         NEW n \in CheckSetNewStage(m, s, TRUE, podGone)
  PROVE  Retried(m, n) /\ (IsNewGeneration(m, s) => ~IsLocked(s))
<1>0. m.gen \in Nat /\ m.gen # 0
  BY DEF Meta, Status, Stage
<1>1. CASE s.stage.gen # m.gen
  <2>1. n = GenerationStage(m, s) /\ ~IsLocked(s)
    BY <1>1 DEF CheckSetNewStage, IsNewGeneration, IsFailedApply
  <2> QED
    BY <2>1, GenerationRetried
<1>2. CASE s.stage.gen = m.gen
  <2>1. n = RetryStage(m, s)
    BY <1>2 DEF CheckSetNewStage, IsNewGeneration, IsFailedApply
  <2>2. /\ RetryCovered(m.uid, n) /\ n.stage.gen = m.gen /\ n.phase = "initializing"
        /\ n.prefix = s.prefix
    BY <2>1, RetryStageCovered
  <2> QED
    BY <1>0, <1>2, <2>2 DEF Retried, IsNewGeneration
<1> QED
  BY <1>1, <1>2

-----------------------------------------------------------------------------
(* What a step does to the pods the invariant speaks of.                   *)
LEMMA OnlyRunsCount ==
  ASSUME [Next]_vars, ~SetupAndRun
  PROVE  nextPod' = nextPod
<1>1. CASE UNCHANGED vars
  BY <1>1 DEF vars, cluster
<1>2. CASE Users \/ Crash
  BY <1>2 DEF Users, CreateResource, EditSpec, SetLabel, DeleteResource, DeletePod, Crash
<1>3. CASE Cluster
  BY <1>3 DEF Cluster, PodStarts, PodEnds, PodSucceeds, PodFails, SetPhase, CollectPod,
              InformerLists, CollectBundle, Resync
<1>4. CASE Reconcile
  BY <1>4 DEF Reconcile, GetResource, ResourceNotFound, UpdateFinalizer, InitializeStatus,
    AddFirstStage, SetNewStage, LookForPod, RemoveOldPlan, RestartWorkflow, EndWorkflow,
    NothingToDo, ListFails, cluster, ResetStage, SetupFails, SaveStarted, CreatePluginJob,
    FoundPod, RemovePod
<1> QED
  BY <1>1, <1>2, <1>3, <1>4 DEF Next

LEMMA FinishedSinceStays ==
  ASSUME RetryInv, [Next]_vars
  PROVE  \A uid, gen, task, at : FinishedSince(uid, gen, task, at) =>
                                   FinishedSince(uid, gen, task, at)'
<1>0. nextPod \in Nat /\ pods \in [PodId -> Pod]
  BY DEF RetryInv, TypeOK
<1>1. CASE SetupAndRun
  <2>1. /\ nextPod' = nextPod + 1
        /\ \A i \in PodId : i # nextPod => pods'[i] = pods[i]
    BY <1>0, <1>1 DEF SetupAndRun
  <2>2. \A i \in PodId : i < nextPod => i < nextPod' /\ pods'[i] = pods[i]
    BY <1>0, <2>1, PodNumbers
  <2> QED
    BY <2>2 DEF FinishedSince
<1>2. CASE ~SetupAndRun
  <2>1. nextPod' = nextPod /\ \A i \in PodId : SamePod(i)
    BY <1>2, OnlyRunsCount, OtherStepsKeepPods DEF RetryInv
  <2> QED
    BY <2>1 DEF FinishedSince, SamePod
<1> QED
  BY <1>1, <1>2

LEMMA RetriedStays ==
  ASSUME RetryInv, [Next]_vars
  PROVE  \A m, s : Retried(m, s) => Retried(m, s)'
<1>1. \A uid, s, task : RunSince(uid, s, task) => RunSince(uid, s, task)'
  BY FinishedSinceStays DEF RunSince
<1>2. \A uid, s : RetryCovered(uid, s) => RetryCovered(uid, s)'
  BY <1>1 DEF RetryCovered
<1> QED
  BY <1>2 DEF Retried

(* What is so of a copy of the resource stays so of the resource.          *)
LEMMA RetriedLater ==
  ASSUME NEW m \in Meta, NEW n \in Meta, n.uid = m.uid, m.gen <= n.gen,
         NEW s \in Status, Retried(m, s)
  PROVE  Retried(n, s)
<1>1. /\ s.stage.gen \in Nat /\ m.gen \in Nat /\ n.gen \in Nat
      /\ s.stage.gen <= m.gen
  BY DEF Meta, Status, Stage, Retried
<1>2. Outdated(m, s) => Outdated(n, s)
  BY <1>1 DEF Outdated
<1>3. s.stage.gen <= n.gen
  BY <1>1
<1> QED
  BY <1>2, <1>3 DEF Retried

-----------------------------------------------------------------------------
(* What every step keeps, but for the pods.                                *)
RetryStatusStep ==
  /\ Retried(meta, status)' /\ Retried(tfMeta, tfStatus)'
  /\ CallKeepsResource'

(* A step that leaves the call alone, and the status of a resource that    *)
(* stays.                                                                  *)
LEMMA QuietRetry ==
  ASSUME RetryInv, [Next]_vars, UNCHANGED <<pc, tfMeta, tfStatus>>,
         meta' \in Meta, ~meta'.ignoreDelete, meta'.uid = 0 => meta' = NoMeta,
         \/ /\ UNCHANGED status /\ meta'.uid = meta.uid /\ meta.gen <= meta'.gen
            /\ meta'.finalizer = meta.finalizer
         \/ status' = EmptyStatus /\ ~(pc # "idle" /\ tfMeta.finalizer)
  PROVE  RetryStatusStep
<1>0. /\ meta \in Meta /\ status \in Status /\ tfMeta \in Meta
      /\ Retried(meta, status) /\ Retried(tfMeta, tfStatus) /\ CallKeepsResource
      /\ UNCHANGED <<pc, tfMeta, tfStatus>>
  BY DEF RetryInv, TypeOK, RetrySound, call
<1>1. PICK m \in Meta : m = meta'
  OBVIOUS
<1>2. Retried(m, status') /\ CallKeepsResource'
  <2>1. CASE /\ UNCHANGED status /\ m.uid = meta.uid /\ meta.gen <= m.gen
             /\ m.finalizer = meta.finalizer
    <3>1. Retried(m, status)
      BY <1>0, <2>1, RetriedLater
    <3>2. tfMeta.gen <= meta.gen => tfMeta.gen <= m.gen
      BY <1>0, <1>1, <2>1 DEF Meta
    <3> QED
      BY <1>0, <1>1, <2>1, <3>1, <3>2 DEF CallKeepsResource
  <2>2. CASE status' = EmptyStatus /\ ~(pc # "idle" /\ tfMeta.finalizer)
    BY <1>0, <1>1, <2>2, EmptyRetried DEF CallKeepsResource
  <2> QED
    BY <1>1, <2>1, <2>2
<1>3. Retried(meta, status)'
  BY <1>1, <1>2, RetriedStays
<1>4. Retried(tfMeta, tfStatus)'
  BY <1>0, RetriedStays
<1> QED
  BY <1>2, <1>3, <1>4 DEF RetryStatusStep

(* A call that goes on or ends without writing the resource.               *)
LEMMA GoOnRetry ==
  ASSUME RetryInv, [Next]_vars, pc # "idle", NEW d, NEW place,
         place # "idle" => tfMeta.finalizer /\ Retried(tfMeta, d),
         GoOn(place, d), UNCHANGED <<meta, status>>
  PROVE  RetryStatusStep
<1>0. /\ Retried(meta, status) /\ CallKeepsResource
  BY DEF RetryInv, RetrySound
<1>1. Retried(meta, status)'
  BY <1>0, RetriedStays
<1>2. CASE place = "idle"
  <2>1. tfMeta' = NoMeta /\ tfStatus' = EmptyStatus /\ pc' = "idle"
    BY <1>2 DEF GoOn
  <2>2. Retried(tfMeta, tfStatus)'
    BY <2>1, EmptyTypes, EmptyRetried, RetriedStays
  <2>3. CallKeepsResource'
    BY <1>0, <2>1, EmptySound DEF CallKeepsResource
  <2> QED
    BY <1>1, <2>2, <2>3 DEF RetryStatusStep
<1>3. CASE place # "idle"
  <2>1. tfMeta' = tfMeta /\ tfStatus' = d /\ pc' = place
    BY <1>3 DEF GoOn
  <2>2. Retried(tfMeta, tfStatus)'
    BY <1>3, <2>1, RetriedStays
  <2>3. CallKeepsResource'
    BY <1>0, <1>3, <2>1 DEF CallKeepsResource
  <2> QED
    BY <1>1, <2>2, <2>3 DEF RetryStatusStep
<1> QED
  BY <1>2, <1>3

(* A call that writes a status.                                            *)
LEMMA StatusWriteRetry ==
  ASSUME RetryInv, [Next]_vars, pc # "idle", tfMeta.finalizer,
         NEW d \in Status, Retried(tfMeta, d), NEW next, NEW failed, NEW requeue,
         UpdateStatusWithRetry(d, next, failed, requeue), UNCHANGED meta
  PROVE  RetryStatusStep
<1>0. /\ meta \in Meta /\ tfMeta \in Meta /\ Retried(meta, status) /\ CallKeepsResource
  BY DEF RetryInv, TypeOK, RetrySound
<1>1. meta.uid = tfMeta.uid /\ tfMeta.gen <= meta.gen
  BY <1>0 DEF CallKeepsResource
<1>2. Retried(meta, d)
  BY <1>0, <1>1, RetriedLater
<1>3. status' \in {status, d}
  BY DEF UpdateStatusWithRetry
<1>4. Retried(meta, status)'
  BY <1>0, <1>2, <1>3, RetriedStays
<1>5. PICK place \in {next, failed} : GoOn(place, d)
  BY DEF UpdateStatusWithRetry
<1>6. CASE place = "idle"
  <2>1. tfMeta' = NoMeta /\ tfStatus' = EmptyStatus /\ pc' = "idle"
    BY <1>5, <1>6 DEF GoOn
  <2>2. Retried(tfMeta, tfStatus)'
    BY <2>1, EmptyTypes, EmptyRetried, RetriedStays
  <2>3. CallKeepsResource'
    BY <1>0, <2>1, EmptySound DEF CallKeepsResource
  <2> QED
    BY <1>4, <2>2, <2>3 DEF RetryStatusStep
<1>7. CASE place # "idle"
  <2>1. tfMeta' = tfMeta /\ tfStatus' = d /\ pc' = place
    BY <1>5, <1>7 DEF GoOn
  <2>2. Retried(tfMeta, tfStatus)'
    BY <2>1, RetriedStays
  <2>3. CallKeepsResource'
    BY <1>0, <2>1 DEF CallKeepsResource
  <2> QED
    BY <1>4, <2>2, <2>3 DEF RetryStatusStep
<1> QED
  BY <1>6, <1>7

LEMMA TypesStay == TypeOK /\ [Next]_vars => TypeOK'
<1> SUFFICES ASSUME TypeOK, [Next]_vars PROVE TypeOK'
  OBVIOUS
<1>1. CASE UNCHANGED vars
  BY <1>1 DEF vars, cluster, call, TypeOK
<1> QED
  BY <1>1, UsersType, ClusterType, ReconcileType, CrashType DEF Next

LEMMA UsersRetry ==
  ASSUME FinalizersAreKept, RetryInv, Users
  PROVE  RetryStatusStep
<1>0. /\ [Next]_vars /\ meta \in Meta /\ meta' \in Meta /\ uids \in Nat /\ CallKeepsResource
  BY TypesStay DEF Next, RetryInv, TypeOK, RetrySound
<1>1. CASE CreateResource
  <2>0. /\ uids' = uids + 1 /\ meta.uid = 0 /\ status' = EmptyStatus /\ UNCHANGED call
        /\ \E ignore \in IgnoreDeletes, label \in RetryLabels \cup {NoLabel} :
             meta' = [uid |-> uids', gen |-> 1, deleting |-> FALSE, finalizer |-> FALSE,
                      ignoreDelete |-> ignore, label |-> label]
    BY <1>1 DEF CreateResource
  <2>1. meta'.uid # 0 /\ meta'.ignoreDelete \in IgnoreDeletes
    BY <1>0, <2>0
  <2>3. ~meta'.ignoreDelete
    BY <2>1 DEF FinalizersAreKept
  <2>2. ~(pc # "idle" /\ tfMeta.finalizer)
    BY <1>0, <2>0, EmptySound DEF CallKeepsResource
  <2> QED
    BY <1>0, <2>0, <2>1, <2>2, <2>3, QuietRetry DEF call
<1>2. CASE EditSpec \/ SetLabel \/ (DeleteResource /\ meta.finalizer)
  <2>1. /\ meta'.uid = meta.uid /\ meta.uid # 0 /\ UNCHANGED <<status, call>>
        /\ meta'.gen \in {meta.gen, meta.gen + 1} /\ ~meta'.ignoreDelete
        /\ meta'.finalizer = meta.finalizer
    BY <1>0, <1>2 DEF EditSpec, SetLabel, DeleteResource, Meta, FinalizersAreKept,
                      CallKeepsResource
  <2>2. meta.gen <= meta'.gen
    BY <1>0, <2>1 DEF Meta
  <2> QED
    BY <1>0, <2>1, <2>2, QuietRetry DEF call
<1>3. CASE DeleteResource /\ ~meta.finalizer
  <2>1. meta' = NoMeta /\ status' = EmptyStatus /\ UNCHANGED call
    BY <1>3 DEF DeleteResource
  <2>2. ~(pc # "idle" /\ tfMeta.finalizer)
    BY <1>0, <1>3 DEF CallKeepsResource
  <2> QED
    BY <1>0, <2>1, <2>2, EmptySound, QuietRetry DEF call
<1>4. CASE \E i \in PodId : DeletePod(i)
  <2>1. UNCHANGED <<meta, status, call>>
    BY <1>4 DEF DeletePod
  <2>2. meta'.gen = meta.gen /\ meta.gen \in Nat
    BY <1>0, <2>1 DEF Meta
  <2> QED
    BY <1>0, <2>1, <2>2, QuietRetry DEF CallKeepsResource, call
<1> QED
  BY <1>1, <1>2, <1>3, <1>4 DEF Users

LEMMA ClusterRetry ==
  ASSUME RetryInv, Cluster \/ UNCHANGED vars
  PROVE  RetryStatusStep
<1>1. UNCHANGED <<meta, status, call>>
  BY DEF Cluster, PodStarts, PodEnds, PodSucceeds, PodFails, SetPhase, CollectPod,
         InformerLists, CollectBundle, Resync, vars, cluster
<1>2. [Next]_vars /\ meta \in Meta /\ CallKeepsResource
  BY DEF Next, RetryInv, TypeOK, RetrySound
<1>3. meta' \in Meta /\ meta'.gen = meta.gen /\ meta.gen \in Nat
  BY <1>1, <1>2 DEF Meta
<1> QED
  BY <1>1, <1>2, <1>3, QuietRetry DEF CallKeepsResource, call

-----------------------------------------------------------------------------
(* The steps of a call.                                                    *)
LEMMA RetryCall ==
  ASSUME RetryInv, Initialized
  PROVE  /\ pc = "read" /\ tfMeta.finalizer /\ tfMeta \in Meta
         /\ tfStatus \in Status /\ prepared \in Status /\ Retried(tfMeta, tfStatus)
         /\ tfStatus.prefix = tfMeta.uid /\ tfMeta.uid # 0 /\ nextPod \in Nat
<1>1. /\ pc = "read" /\ tfMeta \in Meta /\ tfStatus \in Status /\ Retried(tfMeta, tfStatus)
      /\ nextPod \in Nat /\ prepared \in Status
  BY PreparedStatus DEF RetryInv, TypeOK, RetrySound, Initialized
<1>2. tfMeta.finalizer
  BY DEF Initialized, UpdatedFinalizer, RetryInv, RetrySound, CallKeepsResource
<1>3. tfStatus.prefix # 0 /\ tfStatus.prefix \in {0, tfMeta.uid}
  BY <1>1 DEF Initialized, Retried
<1> QED
  BY <1>1, <1>2, <1>3

(* A call that does not mark a retry works on a copy that is retried, and  *)
(* finds a new stage unless it holds the stage of its generation.          *)
LEMMA PlainCall ==
  ASSUME RetryInv, Initialized, ~IsRetry(tfMeta, tfStatus)
  PROVE  /\ Retried(tfMeta, prepared) /\ prepared.prefix = tfMeta.uid
         /\ prepared.stage = tfStatus.stage
<1>1. prepared = MarkedDeletion(tfMeta, tfStatus)
  BY DEF prepared, Prepared
<1> HIDE DEF prepared
<1> QED
  BY <1>1, RetryCall, MarkedRetried

LEMMA MarkingCall ==
  ASSUME RetryInv, Initialized, IsRetry(tfMeta, tfStatus)
  PROVE  /\ prepared.stage = tfStatus.stage /\ prepared.prefix = tfMeta.uid
         /\ prepared.phase = "initializing" /\ prepared.retryAt = nextPod
         /\ StagePods(prepared) = {}
<1>1. prepared = Prepared(tfMeta, tfStatus, nextPod)
  BY DEF prepared
<1> HIDE DEF prepared
<1>2. /\ prepared.stage = tfStatus.stage /\ prepared.prefix = tfMeta.uid
      /\ prepared.phase = "initializing" /\ prepared.retryAt = nextPod
  BY <1>1, RetryCall, RetryMark
<1>3. \A i \in PodId : i >= nextPod => ~pods[i].there
  BY DEF RetryInv, RetrySound, PodsAreOwned
<1> QED
  BY <1>2, <1>3 DEF StagePods

LEMMA RetryNewStage ==
  ASSUME RetryInv, Initialized, tfStatus.stage.gen # 0, NEW n \in newStage
  PROVE  n \in Status /\ Retried(tfMeta, n)
<1>1. n \in Status
  BY PreparedStatus DEF RetryInv
<1>2. /\ tfMeta \in Meta /\ prepared \in Status /\ tfMeta.uid # 0
      /\ Retried(tfMeta, tfStatus) /\ PodMissed(prepared) \in BOOLEAN
  BY RetryCall DEF PodMissed, PodGone
<1>3. n \in CheckSetNewStage(tfMeta, prepared, IsRetry(tfMeta, tfStatus), PodMissed(prepared))
  BY DEF newStage
<1> HIDE DEF prepared
<1> DEFINE gone == PodMissed(prepared)
<1>4. CASE IsRetry(tfMeta, tfStatus)
  <2>1. /\ prepared.stage.gen # 0 /\ prepared.stage.gen <= tfMeta.gen
        /\ prepared.prefix = tfMeta.uid /\ prepared.phase = "initializing"
    BY <1>2, <1>4, MarkingCall DEF Retried
  <2>2. n \in CheckSetNewStage(tfMeta, prepared, TRUE, gone)
    BY <1>3, <1>4 DEF CheckSetNewStage
  <2> HIDE DEF gone
  <2> QED
    BY <1>1, <1>2, <2>1, <2>2, RetryStageRetried
<1>5. CASE ~IsRetry(tfMeta, tfStatus)
  <2>1. /\ prepared.stage.gen # 0 /\ Retried(tfMeta, prepared)
        /\ prepared.prefix = tfMeta.uid
    BY <1>2, <1>5, PlainCall
  <2>2. n \in CheckSetNewStage(tfMeta, prepared, FALSE, gone) /\ gone \in BOOLEAN
    BY <1>2, <1>3, <1>5 DEF CheckSetNewStage
  <2> HIDE DEF gone
  <2> QED
    BY <1>1, <1>2, <2>1, <2>2, NewStageRetried
<1> QED
  BY <1>4, <1>5

(* A call without a new stage: it marks a retry only over a stage that is  *)
(* in progress for an older generation, and its copy is covered otherwise. *)
LEMMA RetryHeld ==
  ASSUME RetryInv, InStage
  PROVE  /\ IsRetry(tfMeta, tfStatus) =>
              /\ prepared.stage.state = "in-progress" /\ prepared.stage.gen < tfMeta.gen
              /\ prepared.stage.gen # 0 /\ prepared.prefix = tfMeta.uid
              /\ prepared.phase = "initializing" /\ StagePods(prepared) = {}
         /\ ~IsRetry(tfMeta, tfStatus) =>
              /\ prepared.retryReason # NoLabel => RetryCovered(tfMeta.uid, prepared)
              /\ Retried(tfMeta, prepared) /\ prepared.prefix = tfMeta.uid
<1>1. /\ Initialized /\ tfStatus.stage.gen # 0 /\ newStage = {}
  BY DEF InStage
<1>2. /\ tfMeta \in Meta /\ prepared \in Status /\ Retried(tfMeta, tfStatus)
      /\ tfMeta.gen \in Nat
  BY <1>1, RetryCall DEF Meta
<1>3. CheckSetNewStage(tfMeta, prepared, IsRetry(tfMeta, tfStatus), PodMissed(prepared)) = {}
  BY <1>1 DEF newStage
<1> HIDE DEF prepared
<1>4. CASE IsRetry(tfMeta, tfStatus)
  <2>1. /\ prepared.stage = tfStatus.stage /\ prepared.prefix = tfMeta.uid
        /\ prepared.phase = "initializing" /\ StagePods(prepared) = {}
    BY <1>1, <1>4, MarkingCall
  <2>2. prepared.stage.state = "in-progress" /\ prepared.stage.gen # tfMeta.gen
    BY <1>3, <1>4 DEF CheckSetNewStage, IsNewGeneration, IsLocked
  <2>3. prepared.stage.gen \in Nat /\ prepared.stage.gen <= tfMeta.gen
    BY <1>2, <2>1 DEF Status, Stage, Retried
  <2> QED
    BY <1>1, <1>2, <1>4, <2>1, <2>2, <2>3
<1>5. CASE ~IsRetry(tfMeta, tfStatus)
  <2>1. /\ Retried(tfMeta, prepared) /\ prepared.prefix = tfMeta.uid
    BY <1>1, <1>5, PlainCall
  <2>2. prepared.stage.state # "in-progress" => prepared.stage.gen = tfMeta.gen
    BY <1>3, <1>5 DEF CheckSetNewStage, IsNewGeneration, IsLocked
  <2>3. ~Outdated(tfMeta, prepared)
    BY <1>2, <2>2 DEF Outdated
  <2> QED
    BY <1>5, <2>1, <2>3 DEF Retried
<1> QED
  BY <1>4, <1>5

LEMMA FoundPodRetry ==
  ASSUME RetryInv, NEW i \in PodId, FoundPod(i)
  PROVE  RetryStatusStep
<1> DEFINE state == StageStateOf(pods[i].phase)
           d == [prepared EXCEPT !.stage.state = state, !.stage.podName = i]
           next == IF pods[i].phase = "Succeeded" /\ ~KeepPods THEN "remove" ELSE "idle"
<1>1. /\ InStage /\ Initialized /\ prepared.stage.task # RunNil
      /\ i \in StagePods(prepared) /\ UNCHANGED meta
      /\ UpdateStatusWithRetry(d, next, "idle", TRUE)
  BY DEF FoundPod, InTask, InStage
<1>2. state = "complete" => pods[i].phase = "Succeeded"
  BY DEF StageStateOf, RetryInv, TypeOK, Pod, PodPhases
<1>3. state \in StageStates /\ i \in Nat /\ nextPod \in Nat
  BY PodNumbers DEF StageStateOf, StageStates, RetryInv, TypeOK, Pod, PodPhases
<1>4. /\ prepared \in Status /\ pc = "read" /\ tfMeta.finalizer /\ tfMeta.uid # 0
      /\ ~IsRetry(tfMeta, tfStatus)
      /\ prepared.retryReason # NoLabel => RetryCovered(tfMeta.uid, prepared)
      /\ Retried(tfMeta, prepared) /\ prepared.prefix = tfMeta.uid
  BY <1>1, RetryCall, RetryHeld
<1> HIDE DEF prepared, state, next
<1>5. /\ d.stage.gen = prepared.stage.gen /\ d.stage.task = prepared.stage.task
      /\ d.prefix = prepared.prefix /\ d.phase = prepared.phase /\ d.stage.state = state
      /\ d.retryReason = prepared.retryReason /\ d.retryAt = prepared.retryAt
      /\ d \in Status
  <2>1. prepared.stage \in Stage
    BY <1>4 DEF Status
  <2>2. d.stage.gen = prepared.stage.gen /\ d.stage.task = prepared.stage.task
    BY <1>4, <2>1 DEF Status, Stage
  <2>3. d.stage.state = state
    BY <1>4, <2>1 DEF Status, Stage
  <2>4. /\ d.prefix = prepared.prefix /\ d.phase = prepared.phase
        /\ d.retryReason = prepared.retryReason /\ d.retryAt = prepared.retryAt
    BY <1>4 DEF Status
  <2>5. d \in Status
    BY <1>3, <1>4, EditedStatusType
  <2> QED
    BY <2>2, <2>3, <2>4, <2>5
<1> HIDE DEF d
<1>6. d.stage.state = "complete" => RunSince(tfMeta.uid, prepared, prepared.stage.task)
  <2>1. /\ pods[i].prefix = tfMeta.uid /\ pods[i].task = prepared.stage.task
        /\ pods[i].gen = prepared.stage.gen /\ i >= prepared.retryAt /\ pods[i].there
    BY <1>1, <1>4 DEF StagePods
  <2>2. pods[i].owner = tfMeta.uid /\ ~(i >= nextPod)
    BY <2>1 DEF RetryInv, RetrySound, PodsAreOwned
  <2>3. i < nextPod
    BY <1>3, <2>2
  <2> QED
    BY <1>2, <1>5, <2>1, <2>2, <2>3 DEF RunSince, FinishedSince
<1>7. RetryCovered(tfMeta.uid, prepared) => RetryCovered(tfMeta.uid, d)
  BY <1>5, <1>6, EditedCovered DEF IsDeleting
<1>8. Retried(tfMeta, d)
  BY <1>4, <1>5, <1>7 DEF Retried
<1>9. [Next]_vars
  BY DEF Next, Reconcile
<1> QED
  BY <1>1, <1>4, <1>5, <1>8, <1>9, StatusWriteRetry

LEMMA SetupAndRunRetry ==
  ASSUME RetryInv, SetupAndRun
  PROVE  RetryStatusStep
<1> DEFINE ph == IF prepared.phase = "initializing" THEN "running"
                 ELSE IF prepared.phase = "initializing-delete" THEN "deleting"
                 ELSE prepared.phase
           d == [prepared EXCEPT !.phase = ph, !.stage.state = "in-progress"]
<1>1. /\ InStage /\ Initialized /\ GoOn("started", d) /\ UNCHANGED <<meta, status>>
      /\ prepared.stage.state # "in-progress" /\ prepared.stage.task # RunNil
  BY DEF SetupAndRun, StartsPod, InTask, InStage
<1>2. /\ prepared \in Status /\ pc = "read" /\ tfMeta.finalizer /\ tfMeta.uid # 0
      /\ prepared.retryReason # NoLabel => RetryCovered(tfMeta.uid, prepared)
      /\ Retried(tfMeta, prepared)
  BY <1>1, RetryCall, RetryHeld
<1> HIDE DEF prepared
<1>3. /\ IsDeleting(prepared) => ph \in DeletePhases
      /\ ph = "completed" => prepared.phase = "completed"
  BY DEF IsDeleting, DeletePhases
<1> HIDE DEF ph
<1>4. /\ d.stage.gen = prepared.stage.gen /\ d.stage.task = prepared.stage.task
      /\ d.prefix = prepared.prefix /\ d.phase = ph /\ d.stage.state = "in-progress"
      /\ d.retryReason = prepared.retryReason /\ d.retryAt = prepared.retryAt
  BY <1>2 DEF Status, Stage
<1> HIDE DEF d
<1>5. RetryCovered(tfMeta.uid, prepared) => RetryCovered(tfMeta.uid, d)
  BY <1>3, <1>4, EditedCovered DEF IsDeleting
<1>6. Retried(tfMeta, d) /\ [Next]_vars
  BY <1>2, <1>3, <1>4, <1>5 DEF Retried, Next, Reconcile
<1> QED
  BY <1>1, <1>2, <1>6, GoOnRetry

LEMMA EndWorkflowRetry ==
  ASSUME RetryInv, EndWorkflow
  PROVE  RetryStatusStep
<1> DEFINE ph == IF prepared.phase = "running" THEN "completed" ELSE "deleted"
           d == [prepared EXCEPT !.phase = ph]
<1>1. /\ InStage /\ Initialized /\ tfStatus.stage.gen # 0 /\ UNCHANGED meta
      /\ UpdateStatusWithRetry(d, "idle", "idle", TRUE)
      /\ prepared.stage.task = RunNil /\ prepared.phase \in {"running", "deleting"}
  BY DEF EndWorkflow, InStage
<1>2. ~IsRetry(tfMeta, tfStatus)
  BY <1>1, RetryHeld
<1>3. /\ prepared \in Status /\ pc = "read" /\ tfMeta.finalizer
      /\ prepared.retryReason # NoLabel => RetryCovered(tfMeta.uid, prepared)
      /\ Retried(tfMeta, prepared) /\ prepared.stage.gen # 0
  BY <1>1, <1>2, RetryCall, RetryHeld, PlainCall
<1> HIDE DEF prepared
<1>4. ph \in Phases /\ (IsDeleting(prepared) => ph \in DeletePhases)
  BY <1>1 DEF IsDeleting, DeletePhases, Phases
<1> HIDE DEF ph
<1>5. /\ d.stage = prepared.stage /\ d.prefix = prepared.prefix /\ d.phase = ph
      /\ d.retryReason = prepared.retryReason /\ d.retryAt = prepared.retryAt
      /\ d \in Status
  BY <1>3, <1>4, EditedStatusType DEF Status
<1> HIDE DEF d
<1>6. RetryCovered(tfMeta.uid, prepared) => RetryCovered(tfMeta.uid, d)
  BY <1>4, <1>5, EditedCovered DEF IsDeleting
<1>7. Retried(tfMeta, d) /\ [Next]_vars
  BY <1>1, <1>3, <1>5, <1>6 DEF Retried, Next, Reconcile
<1> QED
  BY <1>1, <1>3, <1>5, <1>7, StatusWriteRetry

LEMMA ResetStageRetry ==
  ASSUME RetryInv, ResetStage
  PROVE  RetryStatusStep
<1> DEFINE d == [prepared EXCEPT !.stage.state = "initializing"]
<1>1. /\ InStage /\ Initialized /\ prepared.stage.task # RunNil /\ UNCHANGED meta
      /\ UpdateStatusWithRetry(d, "idle", "idle", TRUE)
  BY DEF ResetStage, InTask, InStage
<1>2. prepared \in Status /\ pc = "read" /\ tfMeta.finalizer /\ tfMeta.uid # 0
  BY <1>1, RetryCall
<1>3. \/ /\ prepared.stage.gen < tfMeta.gen /\ prepared.phase = "initializing"
         /\ prepared.stage.gen # 0 /\ prepared.prefix = tfMeta.uid
      \/ /\ Retried(tfMeta, prepared)
         /\ prepared.retryReason # NoLabel => RetryCovered(tfMeta.uid, prepared)
  BY <1>1, RetryHeld
<1> HIDE DEF prepared
<1>4. /\ d.stage.gen = prepared.stage.gen /\ d.stage.task = prepared.stage.task
      /\ d.prefix = prepared.prefix /\ d.phase = prepared.phase
      /\ d.stage.state = "initializing"
      /\ d.retryReason = prepared.retryReason /\ d.retryAt = prepared.retryAt
  BY <1>2 DEF Status, Stage
<1>8. "initializing" \in StageStates
  BY DEF StageStates
<1>9. d \in Status
  BY <1>2, <1>8, EditedStatusType
<1> HIDE DEF d
<1>5. [Next]_vars
  BY DEF Next, Reconcile
<1>6. CASE Retried(tfMeta, prepared)
           /\ (prepared.retryReason # NoLabel => RetryCovered(tfMeta.uid, prepared))
  <2>1. RetryCovered(tfMeta.uid, prepared) => RetryCovered(tfMeta.uid, d)
    BY <1>4, EditedCovered DEF IsDeleting
  <2>2. Retried(tfMeta, d)
    BY <1>1, <1>4, <1>6, <2>1 DEF Retried
  <2> QED
    BY <1>1, <1>2, <1>5, <1>9, <2>2, StatusWriteRetry
<1>7. CASE /\ prepared.stage.gen < tfMeta.gen /\ prepared.phase = "initializing"
           /\ prepared.stage.gen # 0 /\ prepared.prefix = tfMeta.uid
  <2>1. Outdated(tfMeta, d)
    BY <1>4, <1>7 DEF Outdated
  <2>2. prepared.stage.gen <= tfMeta.gen
    BY <1>2, <1>7, RetryCall, <1>1 DEF Status, Stage, Meta
  <2>3. Retried(tfMeta, d)
    BY <1>2, <1>4, <1>7, <2>1, <2>2 DEF Retried
  <2> QED
    BY <1>1, <1>2, <1>5, <1>9, <2>3, StatusWriteRetry
<1> QED
  BY <1>3, <1>6, <1>7

LEMMA SetupFailsRetry ==
  ASSUME RetryInv, SetupFails
  PROVE  RetryStatusStep
<1>1. /\ InStage /\ Initialized /\ GoOn(AfterRun, prepared) /\ UNCHANGED <<meta, status>>
      /\ prepared.stage.state # "in-progress"
  BY DEF SetupFails, StartsPod, InTask, InStage
<1>2. pc = "read" /\ tfMeta.finalizer /\ Retried(tfMeta, prepared)
  BY <1>1, RetryCall, RetryHeld
<1>3. [Next]_vars
  BY DEF Next, Reconcile
<1> HIDE DEF prepared
<1> QED
  BY <1>1, <1>2, <1>3, GoOnRetry

LEMMA FirstStagesRetry ==
  ASSUME RetryInv, InitializeStatus \/ AddFirstStage
  PROVE  RetryStatusStep
<1>0. /\ tfStatus \in Status /\ tfMeta \in Meta /\ Retried(tfMeta, tfStatus)
      /\ [Next]_vars /\ UNCHANGED meta
  BY DEF RetryInv, TypeOK, RetrySound, Next, Reconcile, InitializeStatus, AddFirstStage
<1>1. CASE InitializeStatus
  <2> DEFINE d == [tfStatus EXCEPT !.prefix = tfMeta.uid, !.phase = "initializing"]
  <2>1. /\ UpdateStatusWithRetry(d, "idle", "idle", FALSE)
        /\ pc = "read" /\ tfStatus.prefix = 0
    BY <1>1 DEF InitializeStatus
  <2>2. tfMeta.finalizer
    BY <1>1 DEF InitializeStatus, UpdatedFinalizer, RetryInv, RetrySound, CallKeepsResource
  <2>3. /\ d.stage = tfStatus.stage /\ d.prefix = tfMeta.uid /\ d.phase = "initializing"
        /\ d.retryReason = tfStatus.retryReason /\ d \in Status
    BY <1>0, EditedStatusType DEF Status, Meta
  <2> HIDE DEF d
  <2>4. Retried(tfMeta, d)
    BY <1>0, <2>1, <2>3 DEF Retried
  <2> QED
    BY <1>0, <2>1, <2>2, <2>3, <2>4, StatusWriteRetry
<1>2. CASE AddFirstStage
  <2> DEFINE d == FirstStage(tfMeta, tfStatus)
  <2>1. /\ UpdateStatusWithRetry(d, "idle", "idle", TRUE)
        /\ Initialized /\ tfStatus.stage.gen = 0
    BY <1>2 DEF AddFirstStage
  <2>2. /\ pc = "read" /\ tfMeta.finalizer /\ d \in Status
    BY <1>0, <2>1, RetryCall, FirstStageType
  <2>3. /\ d.stage.gen = tfMeta.gen /\ d.prefix = tfStatus.prefix /\ d.phase = tfStatus.phase
        /\ d.retryReason = tfStatus.retryReason
    BY <1>0 DEF FirstStage, NewStage, Status
  <2> HIDE DEF d
  <2>4. tfMeta.gen <= tfMeta.gen
    BY <1>0 DEF Meta
  <2>5. Retried(tfMeta, d)
    BY <1>0, <2>1, <2>3, <2>4 DEF Retried
  <2> QED
    BY <1>0, <2>1, <2>2, <2>5, StatusWriteRetry
<1> QED
  BY <1>1, <1>2

LEMMA CreatePluginJobRetry ==
  ASSUME RetryInv, NEW p \in PluginNames, CreatePluginJob(p)
  PROVE  RetryStatusStep
<1> DEFINE d == [tfStatus EXCEPT !.plugins = @ \cup {p}]
<1>1. /\ UpdateStatusWithRetry(d, AfterRun, AfterRun, FALSE) /\ pc = "plugins"
      /\ UNCHANGED meta /\ [Next]_vars
  BY DEF CreatePluginJob, Next, Reconcile
<1>2. /\ tfStatus \in Status /\ Retried(tfMeta, tfStatus) /\ tfMeta.finalizer
  BY <1>1 DEF RetryInv, TypeOK, RetrySound, CallKeepsResource
<1>3. /\ d.stage = tfStatus.stage /\ d.prefix = tfStatus.prefix /\ d.phase = tfStatus.phase
      /\ d.retryReason = tfStatus.retryReason /\ d.retryAt = tfStatus.retryAt /\ d \in Status
  BY <1>2, EditedStatusType DEF Status
<1> HIDE DEF d
<1>4. RetryCovered(tfMeta.uid, tfStatus) => RetryCovered(tfMeta.uid, d)
  BY <1>3, EditedCovered DEF IsDeleting
<1>5. Outdated(tfMeta, tfStatus) => Outdated(tfMeta, d)
  BY <1>3 DEF Outdated
<1>6. Retried(tfMeta, d)
  BY <1>2, <1>3, <1>4, <1>5 DEF Retried
<1> QED
  BY <1>1, <1>2, <1>3, <1>6, StatusWriteRetry

LEMMA UpdateFinalizerRetry ==
  ASSUME RetryInv, UpdateFinalizer
  PROVE  RetryStatusStep
<1> DEFINE finalizer == UpdatedFinalizer(tfMeta, tfStatus)
<1>1. /\ pc' = "idle" /\ tfMeta' = NoMeta /\ tfStatus' = EmptyStatus /\ pc = "read"
      /\ Update(finalizer) /\ [Next]_vars
  BY DEF UpdateFinalizer, Return, GoOn, Next, Reconcile
<1>2. meta \in Meta /\ status \in Status /\ Retried(meta, status) /\ CallKeepsResource
  BY DEF RetryInv, TypeOK, RetrySound
<1>3. \/ meta' = [meta EXCEPT !.finalizer = finalizer] /\ UNCHANGED status /\ meta = tfMeta
      \/ meta' = NoMeta /\ status' = EmptyStatus
      \/ UNCHANGED <<meta, status>>
  BY <1>1 DEF Update
<1>4. meta' \in Meta
  BY <1>1, TypesStay DEF RetryInv, TypeOK
<1> HIDE DEF finalizer
<1>5. Retried(tfMeta, tfStatus)'
  BY <1>1, EmptyTypes, EmptyRetried, RetriedStays
<1>6. CASE meta' = [meta EXCEPT !.finalizer = finalizer] /\ UNCHANGED status /\ meta = tfMeta
  <2>1. /\ meta'.uid = meta.uid /\ meta'.gen = meta.gen /\ meta.gen \in Nat
        /\ meta'.ignoreDelete = meta.ignoreDelete
    BY <1>2, <1>6 DEF Meta
  <2>2. PICK m \in Meta : m = meta'
    BY <1>4
  <2>3. Retried(m, status)
    BY <1>2, <2>1, <2>2, RetriedLater
  <2>4. Retried(meta, status)'
    BY <1>1, <1>6, <2>2, <2>3, RetriedStays
  <2>5. CallKeepsResource'
    BY <1>1, <1>2, <1>6, <2>1, EmptySound DEF CallKeepsResource
  <2> QED
    BY <1>5, <2>4, <2>5 DEF RetryStatusStep
<1>7. CASE meta' = NoMeta /\ status' = EmptyStatus
  <2>1. Retried(meta, status)'
    BY <1>1, <1>7, EmptyTypes, EmptyRetried, RetriedStays
  <2>2. CallKeepsResource'
    BY <1>1, <1>7, EmptySound DEF CallKeepsResource
  <2> QED
    BY <1>5, <2>1, <2>2 DEF RetryStatusStep
<1>8. CASE UNCHANGED <<meta, status>>
  <2>1. Retried(meta, status)'
    BY <1>1, <1>2, <1>8, RetriedStays
  <2>2. CallKeepsResource'
    BY <1>1, <1>2, <1>8, EmptySound DEF CallKeepsResource
  <2> QED
    BY <1>5, <2>1, <2>2 DEF RetryStatusStep
<1> QED
  BY <1>3, <1>6, <1>7, <1>8

LEMMA ReconcileRetry ==
  ASSUME RetryInv, Reconcile
  PROVE  RetryStatusStep
<1>0. [Next]_vars /\ CallKeepsResource
  BY DEF Next, RetryInv, RetrySound
<1>1. CASE GetResource
  <2>1. Retried(meta, status)' /\ Retried(tfMeta, tfStatus)'
    BY <1>0, <1>1, RetriedStays DEF GetResource, RetryInv, RetrySound
  <2>2. meta.gen <= meta.gen
    BY DEF RetryInv, TypeOK, Meta
  <2>3. CallKeepsResource'
    BY <1>0, <1>1, <2>2 DEF GetResource, CallKeepsResource
  <2> QED
    BY <2>1, <2>3 DEF RetryStatusStep
<1>2. CASE ResourceNotFound
  <2>1. UNCHANGED <<meta, status, call>> /\ meta \in Meta /\ meta.gen \in Nat
    BY <1>2 DEF ResourceNotFound, RetryInv, TypeOK, Meta
  <2>2. meta' \in Meta /\ meta.gen <= meta'.gen
    BY <2>1
  <2> QED
    BY <1>0, <2>1, <2>2, QuietRetry DEF CallKeepsResource, call
<1>3. CASE SetNewStage
  <2>1. PICK s \in newStage : UpdateStatusWithRetry(s, "idle", "idle", FALSE)
    BY <1>3 DEF SetNewStage
  <2>2. Initialized /\ tfStatus.stage.gen # 0 /\ UNCHANGED meta
    BY <1>3 DEF SetNewStage
  <2> QED
    BY <1>0, <2>1, <2>2, RetryCall, RetryNewStage, StatusWriteRetry
<1>4. CASE RemoveOldPlan
  <2>1. PICK s \in newStage : GoOn("restart", s)
    BY <1>4 DEF RemoveOldPlan
  <2>2. Initialized /\ tfStatus.stage.gen # 0 /\ UNCHANGED <<meta, status>>
    BY <1>4 DEF RemoveOldPlan
  <2> QED
    BY <1>0, <2>1, <2>2, RetryCall, RetryNewStage, GoOnRetry
<1>5. CASE RestartWorkflow \/ SaveStarted
  <2>1. /\ pc \in {"restart", "started"} /\ UNCHANGED meta
        /\ \E next, failed, requeue : UpdateStatusWithRetry(tfStatus, next, failed, requeue)
    BY <1>5 DEF RestartWorkflow, SaveStarted
  <2>2. tfStatus \in Status /\ Retried(tfMeta, tfStatus) /\ tfMeta.finalizer
    BY <2>1 DEF RetryInv, TypeOK, RetrySound, CallKeepsResource
  <2> QED
    BY <1>0, <2>1, <2>2, StatusWriteRetry
<1>6. CASE NothingToDo \/ ListFails \/ RemovePod
  <2>1. Return /\ UNCHANGED <<meta, status>> /\ pc # "idle"
    BY <1>6 DEF NothingToDo, ListFails, RemovePod, InTask, InStage, Initialized, cluster
  <2> QED
    BY <1>0, <2>1, GoOnRetry DEF Return
<1>7. CASE LookForPod
  <2>1. UNCHANGED <<meta, status, pc, tfMeta, tfStatus>> /\ meta \in Meta /\ meta.gen \in Nat
    BY <1>7 DEF LookForPod, cluster, RetryInv, TypeOK, Meta
  <2>2. meta' \in Meta /\ meta.gen <= meta'.gen
    BY <2>1
  <2> QED
    BY <1>0, <2>1, <2>2, QuietRetry DEF CallKeepsResource
<1> QED
  BY <1>1, <1>2, <1>3, <1>4, <1>5, <1>6, <1>7, UpdateFinalizerRetry, FirstStagesRetry,
     EndWorkflowRetry, ResetStageRetry, SetupAndRunRetry, SetupFailsRetry,
     CreatePluginJobRetry, FoundPodRetry DEF Reconcile

LEMMA PodsAreOwnedKeeps ==
  ASSUME RetryInv, [Next]_vars
  PROVE  PodsAreOwned'
<1>0. /\ nextPod \in Nat /\ pods \in [PodId -> Pod] /\ PodsAreOwned
  BY DEF RetryInv, TypeOK, RetrySound
<1>1. CASE SetupAndRun
  <2>1. /\ InStage /\ Initialized /\ prepared.stage.state # "in-progress"
        /\ nextPod' = nextPod + 1 /\ nextPod \in PodId
    BY <1>0, <1>1, PodNumbers DEF SetupAndRun, StartsPod, InTask, InStage, RetryInv, TypeOK
  <2>2. prepared.prefix = tfMeta.uid
    BY <2>1, RetryHeld
  <2>3. /\ pods'[nextPod].prefix = prepared.prefix /\ pods'[nextPod].owner = tfMeta.uid
        /\ \A i \in PodId : i # nextPod => pods'[i] = pods[i]
    BY <1>0, <1>1, <2>1 DEF SetupAndRun
  <2> HIDE DEF prepared
  <2>4. \A i \in PodId : i >= nextPod' => i >= nextPod /\ i # nextPod
    BY <1>0, <2>1, PodNumbers
  <2> QED
    BY <1>0, <2>2, <2>3, <2>4 DEF PodsAreOwned
<1>2. CASE ~SetupAndRun
  <2>1. nextPod' = nextPod /\ \A i \in PodId : SamePod(i)
    BY <1>2, OnlyRunsCount, OtherStepsKeepPods DEF RetryInv
  <2> QED
    BY <1>0, <2>1 DEF PodsAreOwned, SamePod
<1> QED
  BY <1>1, <1>2

LEMMA RetryKeeps ==
  ASSUME FinalizersAreKept, RetryInv, [Next]_vars
  PROVE  RetryInv'
<1>1. RetryStatusStep
  <2>1. CASE Crash
    <3>1. Return /\ UNCHANGED <<meta, status>> /\ pc # "idle"
      BY <2>1 DEF Crash
    <3> QED
      BY <3>1, GoOnRetry DEF Return
  <2> QED
    BY <2>1, UsersRetry, ClusterRetry, ReconcileRetry DEF Next
<1>2. TypeOK' /\ PodsAreOwned'
  BY TypesStay, PodsAreOwnedKeeps DEF RetryInv
<1> QED
  BY <1>1, <1>2 DEF RetryInv, RetrySound, RetryStatusStep

LEMMA RetryInit == Init /\ TypeOK => RetryInv
<1> SUFFICES ASSUME Init, TypeOK PROVE RetryInv
  OBVIOUS
<1>1. Retried(meta, status) /\ Retried(tfMeta, tfStatus)
  BY EmptyTypes, EmptyRetried DEF Init
<1>2. CallKeepsResource
  BY EmptySound DEF Init, CallKeepsResource
<1>3. PodsAreOwned
  BY DEF Init, PodsAreOwned, NoPod
<1> QED
  BY <1>1, <1>2, <1>3 DEF RetryInv, RetrySound

-----------------------------------------------------------------------------
(* The invariant is inductive.                                             *)
THEOREM RetryInvariant == ASSUME FinalizersAreKept PROVE Spec => []RetryInv
<1>1. Init /\ TypeOK => RetryInv
  BY RetryInit
<1>2. RetryInv /\ [Next]_vars => RetryInv'
  BY RetryKeeps
<1> QED
  BY <1>1, <1>2, TypeCorrect, PTL DEF Spec

(* CompletedAfterRetry: a completed resource that was retried has run      *)
(* every task from the one the retry starts at in a pod created after the  *)
(* retry.                                                                  *)
THEOREM CompletedRanSinceRetry ==
  ASSUME FinalizersAreKept PROVE Spec => []CompletedAfterRetry
<1>1. RetryInv => CompletedAfterRetry
  <2> SUFFICES ASSUME RetryInv, meta.uid # 0, status.phase = "completed",
                      status.retryReason # NoLabel
               PROVE  \A t \in Configured \cap CreateTasks : RunSince(meta.uid, status, t)
    BY DEF CompletedAfterRetry, RunSince, FinishedSince
  <2>1. Retried(meta, status)
    BY DEF RetryInv, RetrySound
  <2>2. RetryCovered(meta.uid, status) /\ status.stage.task = RunNil
    BY <2>1 DEF Retried, Outdated
  <2>3. ~IsDeleting(status)
    BY DEF IsDeleting, DeletePhases
  <2> QED
    BY <2>2, <2>3 DEF RetryCovered
<1> QED
  BY <1>1, RetryInvariant, PTL

(* StatusOfIncarnation: the status on the resource was written for this    *)
(* incarnation of it, whatever is retried or deleted.                      *)
THEOREM StatusIsOfIncarnation ==
  ASSUME FinalizersAreKept PROVE Spec => []StatusOfIncarnation
<1>1. RetryInv => StatusOfIncarnation
  BY DEF RetryInv, RetrySound, Retried, StatusOfIncarnation
<1> QED
  BY <1>1, RetryInvariant, PTL
=============================================================================
