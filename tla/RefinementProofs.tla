---------------------------- MODULE RefinementProofs --------------------------
(***************************************************************************)
(* The controller implements Workflow: its initial state is one of         *)
(* Workflow's, and every step of it, a crash or a lost write included, is  *)
(* a step of Workflow or leaves the abstract state as it was.              *)
(*                                                                         *)
(* Workflow looks at the runs of a stage, a call of Reconcile only at what *)
(* the status it has read says of them.  RefinementInv is the bridge: what *)
(* a status says is backed by the pods.  The assumptions are those of the  *)
(* deletion and of the one live pod per stage: no retries, no deletion     *)
(* before the first stage, no spec.ignoreDelete, no lag of the informer    *)
(* behind a creation; and LooksAreSound, for a call reads the pod of a     *)
(* failed apply and lists the stage's pods one after the other.            *)
(*                                                                         *)
(* The plan that an apply acts on and the plugins that a generation has    *)
(* started are remembered in the same way, by the pods and by the status:  *)
(* PlanInv and PluginInv say how, and give the two last theorems.          *)
(***************************************************************************)
EXTENDS TerraformControllerProofs, TerraformRefinement, SequenceTheorems

-----------------------------------------------------------------------------
(* The two modules speak of the same tasks: Workflow has its own copy of   *)
(* Tasks.                                                                  *)
LEMMA SameTasks ==
  /\ W!RunNil = RunNil /\ W!CreateTasks = CreateTasks /\ W!DeleteTasks = DeleteTasks
  /\ W!ConfiguredTasks = Configured
BY DEF W!RunNil, RunNil, W!CreateTasks, CreateTasks, W!DeleteTasks, DeleteTasks,
  W!TasksInOrder, TasksInOrder, W!DeleteTasksInOrder, DeleteTasksInOrder,
  W!ConfiguredTasks, Configured, W!GetConfiguredTasks, GetConfiguredTasks,
  W!AlwaysConfigured, AlwaysConfigured

LEMMA SameNextTask == \A t : W!NextTask(t, W!ConfiguredTasks) = NextTask(t, Configured)
<1>1. \A t, configured : W!NextTask(t, configured) = NextTask(t, configured)
  BY DEF W!NextTask, NextTask, W!LaterTasks, LaterTasks, W!WorkflowOf, WorkflowOf,
    W!Before, Before, W!ID, ID, W!Positions, Positions, W!PositionIn, PositionIn,
    W!TaskName, TaskName, W!RunNil, RunNil, W!CreateTasks, CreateTasks, W!DeleteTasks,
    DeleteTasks, W!TasksInOrder, TasksInOrder, W!DeleteTasksInOrder, DeleteTasksInOrder
<1> QED
  BY <1>1, SameTasks

-----------------------------------------------------------------------------
(***************************************************************************)
(* What a status says of the last run of its stage is so: the pod it names *)
(* is that run, and has ended as its state says.  The runs of the destroy  *)
(* workflow are all there when it is over.                                 *)
(***************************************************************************)
IsPodOf(i, uid, gen, task) ==
  pods[i].owner = uid /\ pods[i].gen = gen /\ pods[i].task = task

Recorded(uid, s, phase) ==
  /\ s.stage.podName \in PodId
  /\ IsPodOf(s.stage.podName, uid, s.stage.gen, s.stage.task)
  /\ pods[s.stage.podName].phase = phase
  /\ \A j \in PodId : j > s.stage.podName => ~IsPodOf(j, uid, s.stage.gen, s.stage.task)

DestroyRan(uid, s) ==
  s.stage.task = RunNil /\ s.phase \in {"deleting", "deleted"} =>
    \A t \in Configured \cap DeleteTasks : Finished(uid, s.stage.gen, t)

Backed(uid, s) ==
  /\ s.stage.task # RunNil /\ s.stage.state = "complete" => Recorded(uid, s, "Succeeded")
  /\ s.stage.task \in {"apply", "apply-delete"} /\ s.stage.state = "failed"
       => Recorded(uid, s, "Failed")
  /\ s.phase = "deleted" => s.stage.task = RunNil
  /\ DestroyRan(uid, s)

(* A pod that is there is the last one of its task and generation.         *)
LastIsThere ==
  \A i, j \in PodId :
    pods[i].there /\ j > i => ~IsPodOf(j, pods[i].owner, pods[i].gen, pods[i].task)

PlanStart(apply) == IF apply = "apply-delete" THEN "postinit-delete" ELSE "postinit"

(* What a call in the middle of a restart, or past its set up, is doing.   *)
RestartsStage ==
  pc = "restart" =>
    /\ status.stage.task \in {"apply", "apply-delete"} /\ status.stage.state = "failed"
    /\ tfStatus.stage.gen = status.stage.gen
    /\ tfStatus.stage.task = NextTask(PlanStart(status.stage.task), Configured)

CallInTask == pc \in {"started", "plugins", "remove"} => tfStatus.stage.task # RunNil

(* Incarnations and pods are counted; pods to come have no task.           *)
Counted ==
  /\ nextPod <= MaxPods + 1
  /\ meta.uid <= uids /\ tfMeta.uid <= uids
  /\ \A i \in PodId : /\ pods[i].owner <= uids
                      /\ i >= nextPod => pods[i].task = RunNil

(***************************************************************************)
(* A call that has found the pod of a failed apply goes on while the pod   *)
(* is there.  It takes an assumption: between the two reads nobody deletes *)
(* the pod, and the first one fails only when there is no pod.             *)
(***************************************************************************)
LooksAreSound == EvictAfterLook = FALSE /\ "get" \notin Faults

FoundPodStays ==
  looked =>
    /\ pc = "read" /\ tfMeta.finalizer
    /\ tfStatus.stage.podName \in PodId /\ pods[tfStatus.stage.podName].there
    /\ pods[tfStatus.stage.podName].owner = tfMeta.uid

(* Only a resource with its finalizer gets a stage.                        *)
Held ==
  /\ meta.uid = 0 => status = EmptyStatus
  /\ status.stage.gen # 0 => meta.finalizer

CallBacked ==
  /\ Backed(meta.uid, status) /\ Backed(tfMeta.uid, tfStatus)
  /\ RestartsStage /\ CallInTask /\ Held

RefinementInv ==
  OrderInv /\ SingleInv /\ LastIsThere /\ Counted /\ CallBacked /\ FoundPodStays

-----------------------------------------------------------------------------
(* The decisions: a new stage has nothing to show for itself yet.          *)
LEMMA NextTaskBacked ==
  ASSUME NEW uid, NEW s \in Status, Ready(uid, s), s.stage.state = "complete",
         s.stage.task \in DeleteTasks, NextTask(s.stage.task, Configured) = RunNil
  PROVE  \A t \in Configured \cap DeleteTasks : Finished(uid, s.stage.gen, t)
<1>1. /\ s.stage.task \in TaskName /\ s.stage.task # RunNil
      /\ WorkflowOf(s.stage.task) = DeleteTasks
  BY NilIsNoTask, WorkflowsOfTasks DEF TaskName
<1>2. /\ DoneBefore(uid, s.stage.gen, s.stage.task)
      /\ Finished(uid, s.stage.gen, s.stage.task)
  BY <1>1 DEF Ready
<1> SUFFICES ASSUME NEW t \in Configured \cap DeleteTasks
             PROVE  Finished(uid, s.stage.gen, t)
  OBVIOUS
<1>3. t = s.stage.task \/ Before(t, s.stage.task)
  BY <1>1, ConfiguredTasks, NothingIsSkipped
<1> QED
  BY <1>1, <1>2, <1>3 DEF DoneBefore

LEMMA UnstartedBacked ==
  ASSUME NEW uid, NEW n, n.stage.state \notin {"complete", "failed"},
         n.stage.task # RunNil, n.phase # "deleted"
  PROVE  Backed(uid, n)
BY DEF Backed, DestroyRan

LEMMA NewStageBacked ==
  ASSUME NEW uid, NEW m \in Meta, NEW s \in Status, NEW podGone \in BOOLEAN, Ready(uid, s),
         Sound(m, s), s.phase # "deleted", NEW n \in CheckSetNewStage(m, s, FALSE, podGone)
  PROVE  /\ Backed(uid, n)
         /\ IsRestart(n) =>
              /\ s.stage.task \in {"apply", "apply-delete"} /\ s.stage.state = "failed"
              /\ n.stage.gen = s.stage.gen
              /\ n.stage.task = NextTask(PlanStart(s.stage.task), Configured)
<1>1. ASSUME n = GenerationStage(m, s) PROVE Backed(uid, n) /\ ~IsRestart(n)
  <2>1. /\ n.stage.task \in {"setup", "setup-delete"} /\ n.stage.state = "initializing"
        /\ n.phase \in {"initializing", s.phase}
        /\ n.stage.reason \in {"GENERATION_CHANGE", "TF_RESOURCE_DELETED"}
    BY <1>1 DEF GenerationStage, NewStage, Status
  <2>2. n.stage.task # RunNil
    BY <2>1 DEF RunNil
  <2> QED
    BY <2>1, <2>2, UnstartedBacked DEF IsRestart
<1>2. ASSUME n = CompletedStage(m, s), s.stage.gen = m.gen, s.stage.state = "complete",
             s.stage.task # RunNil
      PROVE  Backed(uid, n) /\ ~IsRestart(n)
  <2> DEFINE task == NextTask(s.stage.task, Configured)
  <2>1. /\ n.stage.gen = s.stage.gen /\ n.stage.task = task
        /\ n.phase = s.phase /\ n.stage.reason = "COMPLETED"
        /\ n.stage.state = IF task = RunNil THEN "complete" ELSE "initializing"
    BY <1>2 DEF CompletedStage, NewStage, Status
  <2>2. CASE task # RunNil
    BY <2>1, <2>2, UnstartedBacked DEF IsRestart
  <2>3. CASE task = RunNil
    <3>1. s.phase = "deleting" => s.stage.task \in DeleteTasks
      BY <1>2 DEF Sound, DestroyStages
    <3>2. DestroyRan(uid, n)
      BY <1>2, <2>1, <2>3, <3>1, NextTaskBacked DEF DestroyRan
    <3> QED
      BY <2>1, <2>3, <3>2, ApplyIsATask DEF Backed, IsRestart
  <2> QED
    BY <2>2, <2>3
<1>3. ASSUME n = RestartStage(m, s), s.stage.gen = m.gen, s.stage.state = "failed",
             s.stage.task \in {"apply", "apply-delete"}
      PROVE  /\ Backed(uid, n) /\ n.stage.gen = s.stage.gen
             /\ n.stage.task = NextTask(PlanStart(s.stage.task), Configured)
  <2>1. /\ n.stage.gen = s.stage.gen /\ n.phase = s.phase /\ n.stage.state = "initializing"
        /\ n.stage.task = NextTask(PlanStart(s.stage.task), Configured)
    BY <1>3 DEF RestartStage, NewStage, Status, PlanStart
  <2>2. n.stage.task # RunNil
    BY <1>3, <2>1, RestartIsEarlier, NilIsNoTask DEF Configured, PlanStart
  <2> QED
    BY <2>1, <2>2, UnstartedBacked
<1>4. \/ n = GenerationStage(m, s)
      \/ /\ n = CompletedStage(m, s) /\ s.stage.gen = m.gen /\ s.stage.state = "complete"
         /\ s.stage.task # RunNil
      \/ /\ n = RestartStage(m, s) /\ s.stage.gen = m.gen /\ s.stage.state = "failed"
         /\ s.stage.task \in {"apply", "apply-delete"}
  BY DEF CheckSetNewStage, IsNewGeneration, IsFailedApply
<1> QED
  BY <1>1, <1>2, <1>3, <1>4

-----------------------------------------------------------------------------
(* What a step leaves: the pods, but for the one that is created, and the  *)
(* numbers they and the resource are counted by.                           *)
LEMMA RecordedStays ==
  ASSUME TypeOK, [Next]_vars, ~SetupAndRun, NEW phase \in {"Succeeded", "Failed"}
  PROVE  \A uid, s : Recorded(uid, s, phase) => Recorded(uid, s, phase)'
BY OtherStepsKeepPods DEF Recorded, IsPodOf, SamePod

LEMMA DestroyRanStays ==
  ASSUME DeletionInv, [Next]_vars
  PROVE  \A uid, s : DestroyRan(uid, s) => DestroyRan(uid, s)'
BY FinishedStays DEF DestroyRan

LEMMA BackedStays ==
  ASSUME DeletionInv, [Next]_vars, ~SetupAndRun
  PROVE  \A uid, s : Backed(uid, s) => Backed(uid, s)'
<1>1. \A uid, s : Recorded(uid, s, "Succeeded") => Recorded(uid, s, "Succeeded")'
  BY RecordedStays DEF DeletionInv
<1>2. \A uid, s : Recorded(uid, s, "Failed") => Recorded(uid, s, "Failed")'
  BY RecordedStays DEF DeletionInv
<1> QED
  BY <1>1, <1>2, DestroyRanStays DEF Backed

LEMMA EmptyBacked == \A uid : Backed(uid, EmptyStatus)
<1>1. /\ EmptyStatus.stage.task = RunNil /\ EmptyStatus.phase = ""
  BY EmptySound
<1>2. RunNil \notin {"apply", "apply-delete"}
  BY ApplyIsATask
<1> QED
  BY <1>1, <1>2 DEF Backed, DestroyRan

LEMMA EditedMeta ==
  ASSUME NEW m \in Meta
  PROVE  /\ \A x, y : [m EXCEPT !.gen = x, !.ignoreDelete = y].uid = m.uid
         /\ \A x : [m EXCEPT !.gen = x, !.deleting = TRUE].uid = m.uid
         /\ \A x : [m EXCEPT !.label = x].uid = m.uid
         /\ \A x : [m EXCEPT !.finalizer = x].uid = m.uid
BY DEF Meta

LEMMA CountsStep ==
  ASSUME TypeOK, ResourceExists, [Next]_vars
  PROVE  /\ ~SetupAndRun => nextPod' = nextPod
         /\ uids' \in Nat /\ uids <= uids'
         /\ meta'.uid \in {0, meta.uid, uids'}
         /\ tfMeta'.uid \in {0, tfMeta.uid, meta.uid}
<1>1. /\ uids \in Nat /\ meta \in Meta /\ NoMeta.uid = 0
      /\ \A x, y : [meta EXCEPT !.gen = x, !.ignoreDelete = y].uid = meta.uid
      /\ \A x : [meta EXCEPT !.gen = x, !.deleting = TRUE].uid = meta.uid
      /\ \A x : [meta EXCEPT !.label = x].uid = meta.uid
      /\ \A x : [meta EXCEPT !.finalizer = x].uid = meta.uid
  BY EmptySound, EditedMeta DEF TypeOK
<1>2. CASE CreateResource
  BY <1>1, <1>2 DEF CreateResource, call
<1>3. CASE EditSpec \/ SetLabel \/ DeleteResource
  <2>1. meta'.uid \in {0, meta.uid}
    <3>1. CASE EditSpec
      <4>1. \E x, y : meta' = [meta EXCEPT !.gen = x, !.ignoreDelete = y]
        BY <3>1 DEF EditSpec
      <4> QED
        BY <1>1, <4>1
    <3>2. CASE SetLabel
      BY <1>1, <3>2 DEF SetLabel
    <3>3. CASE DeleteResource
      <4>1. meta' = NoMeta \/ \E x : meta' = [meta EXCEPT !.gen = x, !.deleting = TRUE]
        BY <3>3 DEF DeleteResource
      <4> QED
        BY <1>1, <4>1
    <3> QED
      BY <1>3, <3>1, <3>2, <3>3
  <2>2. UNCHANGED <<uids, nextPod, tfMeta>>
    BY <1>3 DEF EditSpec, SetLabel, DeleteResource, call
  <2> QED
    BY <1>1, <2>1, <2>2
<1>4. CASE Cluster \/ \E i \in PodId : DeletePod(i)
  BY <1>1, <1>4 DEF Cluster, PodStarts, PodEnds, PodSucceeds, PodFails, SetPhase, CollectPod,
    InformerLists, CollectBundle, Resync, DeletePod, call
<1>5. \A place, s : GoOn(place, s) => tfMeta'.uid \in {0, tfMeta.uid}
  BY <1>1 DEF GoOn
<1>6. ASSUME NEW d, NEW n, NEW f, NEW r, UpdateStatusWithRetry(d, n, f, r),
             UNCHANGED <<meta, uids, nextPod>>
      PROVE  /\ nextPod' = nextPod
             /\ uids' \in Nat /\ uids <= uids'
             /\ meta'.uid \in {0, meta.uid, uids'}
             /\ tfMeta'.uid \in {0, tfMeta.uid, meta.uid}
  <2>1. GoOn(n, d) \/ GoOn(f, d)
    BY <1>6 DEF UpdateStatusWithRetry
  <2>2. tfMeta'.uid \in {0, tfMeta.uid}
    BY <1>5, <2>1
  <2>3. uids' \in Nat /\ uids <= uids'
    BY <1>1, <1>6
  <2>4. nextPod' = nextPod /\ meta'.uid = meta.uid
    BY <1>6
  <2> QED
    BY <2>2, <2>3, <2>4, Zenon
<1>7. CASE UpdateFinalizer
  <2>1. /\ \/ meta' \in {meta, NoMeta}
           \/ \E x : meta' = [meta EXCEPT !.finalizer = x]
        /\ \E place, s : GoOn(place, s)
        /\ UNCHANGED <<uids, nextPod>>
    BY <1>7 DEF UpdateFinalizer, Update, Return
  <2>2. meta'.uid \in {0, meta.uid} /\ tfMeta'.uid \in {0, tfMeta.uid}
    BY <1>1, <1>5, <2>1
  <2> QED
    BY <1>1, <2>1, <2>2
<1>8. CASE GetResource \/ ResourceNotFound
  BY <1>1, <1>8 DEF GetResource, ResourceNotFound, call
<1>9. CASE Crash
  BY <1>1, <1>5, <1>9 DEF Crash, Return
<1>10. CASE UNCHANGED vars
  BY <1>1, <1>10 DEF vars, cluster, call
<1>11. CASE \/ InitializeStatus \/ AddFirstStage \/ SetNewStage \/ RestartWorkflow
            \/ EndWorkflow \/ ResetStage \/ SaveStarted \/ \E i \in PodId : FoundPod(i)
            \/ \E p \in PluginNames : CreatePluginJob(p)
  <2>1. /\ \E d, n, f, r : UpdateStatusWithRetry(d, n, f, r)
        /\ UNCHANGED <<meta, uids, nextPod>>
    <3>1. CASE InitializeStatus \/ AddFirstStage
      BY <3>1 DEF InitializeStatus, AddFirstStage
    <3>2. CASE SetNewStage \/ RestartWorkflow
      BY <3>2 DEF SetNewStage, RestartWorkflow
    <3>3. CASE EndWorkflow
      BY <3>3 DEF EndWorkflow
    <3>4. CASE ResetStage
      BY <3>4 DEF ResetStage
    <3>5. CASE SaveStarted
      BY <3>5 DEF SaveStarted
    <3>6. CASE \E i \in PodId : FoundPod(i)
      BY <3>6 DEF FoundPod
    <3>7. CASE \E p \in PluginNames : CreatePluginJob(p)
      BY <3>7 DEF CreatePluginJob
    <3> QED
      BY <1>11, <3>1, <3>2, <3>3, <3>4, <3>5, <3>6, <3>7
  <2> QED
    BY <1>6, <2>1
<1>12. ASSUME NEW place, NEW s, GoOn(place, s), UNCHANGED <<meta, uids>>,
              ~SetupAndRun => nextPod' = nextPod
       PROVE  /\ ~SetupAndRun => nextPod' = nextPod
              /\ uids' \in Nat /\ uids <= uids'
              /\ meta'.uid \in {0, meta.uid, uids'}
              /\ tfMeta'.uid \in {0, tfMeta.uid, meta.uid}
  BY <1>1, <1>5, <1>12
<1>13. CASE \/ RemoveOldPlan \/ NothingToDo \/ ListFails \/ SetupAndRun \/ SetupFails
            \/ RemovePod
  <2>1. /\ \E place, s : GoOn(place, s)
        /\ UNCHANGED <<meta, uids>> /\ (~SetupAndRun => nextPod' = nextPod)
    <3>1. CASE RemoveOldPlan
      BY <3>1 DEF RemoveOldPlan
    <3>2. CASE NothingToDo \/ ListFails
      BY <3>2 DEF NothingToDo, ListFails, Return, cluster
    <3>3. CASE SetupAndRun
      BY <3>3 DEF SetupAndRun
    <3>4. CASE SetupFails
      BY <3>4 DEF SetupFails
    <3>5. CASE RemovePod
      BY <3>5 DEF RemovePod, Return
    <3> QED
      BY <1>13, <3>1, <3>2, <3>3, <3>4, <3>5
  <2> QED
    BY <1>12, <2>1
<1>14. CASE LookForPod
  BY <1>1, <1>14 DEF LookForPod, cluster
<1> QED
  BY <1>2, <1>3, <1>4, <1>7, <1>8, <1>9, <1>10, <1>11, <1>13, <1>14
     DEF Next, Users, Reconcile

(* The pod that is created is the stage's next, after every other of it.   *)
LEMMA StartFacts ==
  ASSUME DeletionIsPlain, OrderInv, SingleInv, SetupAndRun
  PROVE  /\ Initialized /\ tfMeta.uid = meta.uid /\ meta.uid # 0 /\ tfStatus = status
         /\ prepared \in Status /\ prepared.stage = status.stage
         /\ prepared.stage.task # RunNil /\ prepared.phase # "deleted"
         /\ newStage = {} /\ ~MustLook /\ nextPod \in PodId
         /\ \A j \in PodId :
              pods[j].there => ~IsPodOf(j, meta.uid, status.stage.gen, status.stage.task)
         /\ pods'[nextPod].owner = meta.uid /\ pods'[nextPod].gen = status.stage.gen
         /\ pods'[nextPod].task = status.stage.task
<1>1. /\ Initialized /\ prepared.stage.task # RunNil /\ newStage = {} /\ ~MustLook
  BY DEF SetupAndRun, StartsPod, InTask, InStage
<1>2. /\ pc = "read" /\ tfMeta.finalizer /\ prepared \in Status
      /\ prepared.stage = status.stage /\ tfStatus = status /\ prepared.prefix = tfMeta.uid
      /\ tfMeta \in Meta
  BY <1>1, ReadyCall, WorkingCall DEF OrderInv
<1>3. tfMeta.uid = meta.uid /\ meta.uid # 0 /\ UNCHANGED <<meta, status>>
  BY <1>2 DEF OrderInv, DeletionInv, DeletionSound, CallHoldsResource, ResourceExists,
              SetupAndRun
<1>4. prepared.phase # "deleted"
  <2>1. tfStatus.phase # "deleted" /\ prepared = MarkedDeletion(tfMeta, tfStatus)
    BY <1>1, <1>2, NoRetries DEF Initialized, prepared, Prepared
  <2>2. tfStatus \in Status
    BY DEF OrderInv, DeletionInv, TypeOK
  <2> HIDE DEF prepared
  <2> QED
    BY <2>1, <2>2 DEF MarkedDeletion, Status
<1> HIDE DEF prepared
<1>5. /\ nextPod \in PodId
      /\ pods'[nextPod].owner = tfMeta.uid /\ pods'[nextPod].gen = prepared.stage.gen
      /\ pods'[nextPod].task = prepared.stage.task
  BY SetupAndRunPods DEF OrderInv
<1>6. ASSUME NEW j \in PodId, pods[j].there
      PROVE  ~IsPodOf(j, meta.uid, status.stage.gen, status.stage.task)
  <2>1. pods[j].listed /\ pods[j].ver = pods[j].gen /\ pods[j].owner = pods[j].prefix
    BY <1>6 DEF SingleInv, PodsAreSeen, OrderInv, DeletionInv, DeletionSound, PodsAreTraced
  <2> QED
    BY <1>2, <1>3, <1>6, <2>1, StartsUnseenPod DEF IsPodOf
<1>7. /\ pods'[nextPod].owner = meta.uid /\ pods'[nextPod].gen = status.stage.gen
      /\ pods'[nextPod].task = status.stage.task
  BY <1>2, <1>3, <1>5
<1> QED
  BY <1>1, <1>2, <1>3, <1>4, <1>5, <1>6, <1>7

LEMMA CountedKeeps ==
  ASSUME DeletionIsPlain, OrderInv, SingleInv, Counted, [Next]_vars
  PROVE  Counted'
<1>0. TypeOK /\ ResourceExists /\ uids \in Nat /\ nextPod \in Nat /\ MaxPods \in Nat
  BY BoundAssumption DEF OrderInv, DeletionInv, DeletionSound, TypeOK
<1>1. /\ uids' \in Nat /\ uids <= uids' /\ meta'.uid <= uids' /\ tfMeta'.uid <= uids'
  BY <1>0, CountsStep DEF Counted, TypeOK, Meta
<1>2. CASE SetupAndRun
  <2>1. /\ nextPod \in PodId /\ nextPod' = nextPod + 1 /\ UNCHANGED uids
        /\ \A i \in PodId \ {nextPod} : pods'[i] = pods[i]
        /\ pods'[nextPod].owner = tfMeta.uid
    BY <1>2, SetupAndRunPods DEF OrderInv, SetupAndRun
  <2>2. \A i \in PodId : pods'[i].owner <= uids'
    BY <2>1 DEF Counted
  <2>3. \A i \in PodId : i >= nextPod' => pods'[i].task = RunNil
    BY <1>0, <2>1 DEF Counted, PodId
  <2>4. nextPod' <= MaxPods + 1
    BY <1>0, <2>1 DEF PodId
  <2> QED
    BY <1>1, <2>2, <2>3, <2>4 DEF Counted
<1>3. CASE ~SetupAndRun
  <2>1. nextPod' = nextPod
    BY <1>0, <1>3, CountsStep
  <2>2. \A i \in PodId : pods'[i].owner = pods[i].owner /\ pods'[i].task = pods[i].task
    BY <1>0, <1>3, OtherStepsKeepPods DEF SamePod
  <2>3. \A i \in PodId : pods[i].owner \in Nat
    BY <1>0 DEF TypeOK, Pod
  <2> QED
    BY <1>0, <1>1, <2>1, <2>2, <2>3 DEF Counted
<1> QED
  BY <1>2, <1>3

LEMMA LastIsThereKeeps ==
  ASSUME DeletionIsPlain, OrderInv, SingleInv, Counted, LastIsThere, [Next]_vars
  PROVE  LastIsThere'
<1>1. CASE SetupAndRun
  <2>1. /\ nextPod \in PodId /\ \A i \in PodId \ {nextPod} : pods'[i] = pods[i]
        /\ prepared.stage.task # RunNil
    BY <1>1, SetupAndRunPods, StartFacts DEF OrderInv
  <2>2. /\ \A j \in PodId :
             pods[j].there => ~IsPodOf(j, meta.uid, status.stage.gen, status.stage.task)
        /\ pods'[nextPod].owner = meta.uid /\ pods'[nextPod].gen = status.stage.gen
        /\ pods'[nextPod].task = status.stage.task
        /\ status.stage.task # RunNil
    BY <1>1, StartFacts
  <2>0. nextPod \in Nat /\ PodId \subseteq Nat
    BY PodNumbers, <2>1
  <2>3. ASSUME NEW i \in PodId, NEW j \in PodId, pods'[i].there, j > i,
               pods'[j].owner = pods'[i].owner, pods'[j].gen = pods'[i].gen,
               pods'[j].task = pods'[i].task
        PROVE  FALSE
    <3>1. CASE i = nextPod
      <4>1. j >= nextPod /\ j # nextPod
        BY <2>0, <2>3, <3>1
      <4>2. pods[j].task = RunNil /\ pods'[j] = pods[j]
        BY <2>1, <4>1 DEF Counted
      <4> QED
        BY <2>2, <2>3, <3>1, <4>2
    <3>2. CASE i # nextPod /\ j = nextPod
      BY <2>1, <2>2, <2>3, <3>2 DEF IsPodOf
    <3>3. CASE i # nextPod /\ j # nextPod
      BY <2>1, <2>3, <3>3 DEF LastIsThere, IsPodOf
    <3> QED
      BY <3>1, <3>2, <3>3
  <2> QED
    BY <2>3 DEF LastIsThere, IsPodOf
<1>2. CASE ~SetupAndRun
  <2>1. \A i \in PodId : SamePod(i)
    BY <1>2, OtherStepsKeepPods DEF OrderInv, DeletionInv
  <2> QED
    BY <2>1 DEF LastIsThere, IsPodOf, SamePod
<1> QED
  BY <1>1, <1>2

-----------------------------------------------------------------------------
(* The steps of CallBacked.                                                *)
LEMMA BackedWriteStep ==
  ASSUME RefinementInv, [Next]_vars, ~SetupAndRun, pc # "idle", tfMeta.finalizer,
         NEW d, Backed(tfMeta.uid, d),
         NEW next \in {"idle", "plugins", "remove"}, NEW failed \in {"idle", "plugins"},
         NEW requeue, (next = "idle" /\ failed = "idle") \/ d.stage.task # RunNil,
         UpdateStatusWithRetry(d, next, failed, requeue), UNCHANGED meta
  PROVE  CallBacked'
<1>0. DeletionInv
  BY DEF RefinementInv, OrderInv
<1>1. /\ meta.uid = tfMeta.uid /\ meta.uid # 0 /\ meta.finalizer
      /\ Backed(meta.uid, status)
  BY <1>0 DEF RefinementInv, CallBacked, DeletionInv, DeletionSound, CallHoldsResource,
              ResourceExists
<1>2. status' \in {status, d}
  BY DEF UpdateStatusWithRetry
<1>3. PICK place \in {next, failed} : GoOn(place, d)
  BY DEF UpdateStatusWithRetry
<1>4. Backed(meta.uid, status)'
  BY <1>0, <1>1, <1>2, BackedStays
<1>5. Backed(tfMeta.uid, tfStatus)'
  <2>1. CASE place = "idle"
    BY <1>0, <1>3, <2>1, EmptyBacked, BackedStays DEF GoOn
  <2>2. CASE place # "idle"
    BY <1>0, <1>3, <2>2, BackedStays DEF GoOn
  <2> QED
    BY <2>1, <2>2
<1>6. RestartsStage' /\ CallInTask'
  <2>1. pc' \in {"idle", "plugins", "remove"} /\ (pc' # "idle" => tfStatus' = d)
    BY <1>3 DEF GoOn
  <2>2. pc' # "idle" => d.stage.task # RunNil
    BY <1>3 DEF GoOn
  <2> QED
    BY <2>1, <2>2 DEF RestartsStage, CallInTask
<1>7. Held'
  BY <1>1 DEF Held
<1> QED
  BY <1>4, <1>5, <1>6, <1>7 DEF CallBacked

LEMMA BackedGoOnStep ==
  ASSUME RefinementInv, [Next]_vars, ~SetupAndRun, NEW d, NEW place,
         place # "idle" => Backed(tfMeta.uid, d),
         place = "restart" =>
           /\ status.stage.task \in {"apply", "apply-delete"} /\ status.stage.state = "failed"
           /\ d.stage.gen = status.stage.gen
           /\ d.stage.task = NextTask(PlanStart(status.stage.task), Configured),
         place \in {"started", "plugins", "remove"} => d.stage.task # RunNil,
         GoOn(place, d), UNCHANGED <<meta, status>>
  PROVE  CallBacked'
<1>0. DeletionInv /\ Backed(meta.uid, status) /\ Held
  BY DEF RefinementInv, OrderInv, CallBacked
<1>1. Backed(meta.uid, status)' /\ Held'
  BY <1>0, BackedStays DEF Held
<1>2. CASE place = "idle"
  <2>1. Backed(tfMeta.uid, tfStatus)'
    BY <1>0, <1>2, EmptyBacked, BackedStays DEF GoOn
  <2>2. pc' = "idle"
    BY <1>2 DEF GoOn
  <2> QED
    BY <1>1, <2>1, <2>2 DEF CallBacked, RestartsStage, CallInTask
<1>3. CASE place # "idle"
  <2>1. Backed(tfMeta.uid, tfStatus)'
    BY <1>0, <1>3, BackedStays DEF GoOn
  <2>2. pc' = place /\ tfStatus' = d
    BY <1>3 DEF GoOn
  <2>3. RestartsStage' /\ CallInTask'
    BY <2>2 DEF RestartsStage, CallInTask
  <2> QED
    BY <1>1, <2>1, <2>3 DEF CallBacked
<1> QED
  BY <1>2, <1>3

LEMMA BackedQuietStep ==
  ASSUME RefinementInv, [Next]_vars, ~SetupAndRun, UNCHANGED <<pc, tfMeta, tfStatus>>,
         \/ /\ UNCHANGED status /\ meta'.uid = meta.uid
            /\ meta.finalizer => meta'.finalizer
         \/ status' = EmptyStatus /\ ~(pc # "idle" /\ tfMeta.finalizer)
  PROVE  CallBacked'
<1>0. DeletionInv /\ CallBacked
  BY DEF RefinementInv, OrderInv
<1>1. Backed(meta.uid, status)'
  BY <1>0, EmptyBacked, BackedStays DEF CallBacked
<1>2. Backed(tfMeta.uid, tfStatus)'
  BY <1>0, BackedStays DEF CallBacked
<1>3. pc = "restart" => tfMeta.finalizer
  BY <1>0 DEF DeletionInv, DeletionSound, CallHoldsResource
<1>4. RestartsStage' /\ CallInTask'
  BY <1>0, <1>3 DEF CallBacked, RestartsStage, CallInTask
<1>5. Held'
  BY <1>0, EmptySound DEF CallBacked, Held
<1> QED
  BY <1>1, <1>2, <1>4, <1>5 DEF CallBacked

(* What an update of the finalizer makes of the resource: it stays, with   *)
(* its finalizer if it has a stage, or goes at the end of its deletion.    *)
LEMMA UpdateFinalizerResult ==
  ASSUME DeletionInv, UpdateFinalizer
  PROVE  \/ UNCHANGED <<meta, status>>
         \/ /\ UNCHANGED status /\ meta'.finalizer
            /\ meta'.uid = meta.uid /\ meta'.gen = meta.gen /\ meta'.deleting = meta.deleting
         \/ /\ meta' = NoMeta /\ status' = EmptyStatus
            /\ meta.deleting /\ status.phase = "deleted" /\ meta.uid # 0
<1> DEFINE finalizer == UpdatedFinalizer(tfMeta, tfStatus)
<1>1. /\ Update(finalizer) /\ pc = "read"
      /\ meta \in Meta /\ tfMeta.uid # 0 /\ ~tfMeta.ignoreDelete /\ Sound(meta, status)
  BY DEF UpdateFinalizer, DeletionInv, TypeOK, DeletionSound, ResourceExists
<1>2. finalizer = (~(tfStatus.phase = "deleted" /\ tfMeta.finalizer))
  BY <1>1 DEF UpdatedFinalizer
<1> HIDE DEF finalizer
<1>3. CASE UNCHANGED <<meta, status>>
  BY <1>3
<1>4. CASE meta = tfMeta /\ status = tfStatus /\ ~finalizer
  <2>1. status.phase = "deleted" /\ meta.uid # 0
    BY <1>1, <1>2, <1>4
  <2>2. meta.deleting
    BY <1>1, <2>1 DEF Sound, DeletePhases
  <2>3. (meta' = NoMeta /\ status' = EmptyStatus) \/ UNCHANGED <<meta, status>>
    BY <1>1, <1>4, <2>2 DEF Update
  <2> QED
    BY <2>1, <2>2, <2>3
<1>5. CASE meta = tfMeta /\ status = tfStatus /\ finalizer
  <2>1. \/ UNCHANGED status /\ meta' = [meta EXCEPT !.finalizer = TRUE]
        \/ UNCHANGED <<meta, status>>
    BY <1>1, <1>5 DEF Update
  <2> QED
    BY <1>1, <2>1 DEF Meta
<1> QED
  BY <1>1, <1>3, <1>4, <1>5 DEF Update

LEMMA UsersBacked ==
  ASSUME DeletionIsPlain, RefinementInv, Users
  PROVE  CallBacked'
<1>0. /\ [Next]_vars /\ meta \in Meta /\ ResourceExists /\ CallHoldsResource
  BY DEF Next, RefinementInv, OrderInv, DeletionInv, TypeOK, DeletionSound
<1>1. ~SetupAndRun /\ UNCHANGED <<pc, tfMeta, tfStatus>>
  BY DEF Users, CreateResource, EditSpec, SetLabel, DeleteResource, DeletePod, call,
         SetupAndRun, GoOn, StartsPod, InTask, InStage, Initialized
<1>2. CASE CreateResource \/ (DeleteResource /\ ~meta.finalizer)
  <2>1. status' = EmptyStatus
    BY <1>2 DEF CreateResource, DeleteResource
  <2>2. ~(pc # "idle" /\ tfMeta.finalizer)
    BY <1>0, <1>2 DEF CallHoldsResource, ResourceExists, CreateResource
  <2> QED
    BY <1>0, <1>1, <2>1, <2>2, BackedQuietStep
<1>3. CASE EditSpec \/ SetLabel \/ (DeleteResource /\ meta.finalizer)
  <2>1. /\ UNCHANGED status /\ meta'.uid = meta.uid
        /\ meta'.finalizer = meta.finalizer
    BY <1>0, <1>3 DEF EditSpec, SetLabel, DeleteResource, Meta
  <2> QED
    BY <1>0, <1>1, <2>1, BackedQuietStep
<1>4. CASE \E i \in PodId : DeletePod(i)
  BY <1>0, <1>1, <1>4, BackedQuietStep DEF DeletePod
<1> QED
  BY <1>2, <1>3, <1>4 DEF Users

LEMMA ClusterBacked ==
  ASSUME RefinementInv, Cluster
  PROVE  CallBacked'
<1>1. UNCHANGED <<meta, status, pc, tfMeta, tfStatus>>
  BY DEF Cluster, PodStarts, PodEnds, PodSucceeds, PodFails, SetPhase, CollectPod,
         InformerLists, CollectBundle, Resync, call
<1>2. ~SetupAndRun
  BY <1>1 DEF SetupAndRun, GoOn, StartsPod, InTask, InStage, Initialized
<1> QED
  BY <1>1, <1>2, BackedQuietStep DEF Next

-----------------------------------------------------------------------------
(* The steps of a call.                                                    *)
LEMMA PreparedBacked ==
  ASSUME DeletionIsPlain, RefinementInv, Initialized
  PROVE  Backed(tfMeta.uid, prepared) /\ prepared.phase # "deleted"
<1>0. tfMeta \in Meta /\ tfStatus \in Status /\ Backed(tfMeta.uid, tfStatus)
  BY DEF RefinementInv, CallBacked, OrderInv, DeletionInv, TypeOK
<1>1. tfStatus.phase # "deleted" /\ prepared = MarkedDeletion(tfMeta, tfStatus)
  BY <1>0, NoRetries DEF Initialized, prepared, Prepared
<1> HIDE DEF prepared
<1>2. /\ prepared.stage = tfStatus.stage
      /\ prepared.phase \in {"initializing-delete", tfStatus.phase}
  BY <1>0, <1>1 DEF MarkedDeletion, Status
<1> QED
  BY <1>0, <1>1, <1>2 DEF Backed, Recorded, DestroyRan

LEMMA BackedNewStage ==
  ASSUME DeletionIsPlain, RefinementInv, Initialized, NEW n \in newStage
  PROVE  /\ Backed(tfMeta.uid, n)
         /\ IsRestart(n) =>
              /\ status.stage.task \in {"apply", "apply-delete"}
              /\ status.stage.state = "failed"
              /\ n.stage.gen = status.stage.gen
              /\ n.stage.task = NextTask(PlanStart(status.stage.task), Configured)
<1>0. OrderInv /\ DeletionInv
  BY DEF RefinementInv, OrderInv
<1>1. /\ ~IsRetry(tfMeta, tfStatus) /\ PodMissed(prepared) \in BOOLEAN
      /\ tfMeta \in Meta /\ prepared \in Status
      /\ Ready(tfMeta.uid, prepared) /\ Sound(tfMeta, prepared)
      /\ prepared.stage = status.stage /\ prepared.phase # "deleted"
  BY <1>0, NoRetries, ReadyCall, WorkingCall, PreparedBacked DEF DeletionInv, TypeOK, PodMissed, PodGone
<1>2. n \in CheckSetNewStage(tfMeta, prepared, FALSE, PodMissed(prepared))
  BY <1>1 DEF newStage, CheckSetNewStage
<1> HIDE DEF prepared
<1> DEFINE gone == PodMissed(prepared)
<1>3. gone \in BOOLEAN /\ n \in CheckSetNewStage(tfMeta, prepared, FALSE, gone)
  BY <1>1, <1>2
<1> HIDE DEF gone
<1>4. /\ Backed(tfMeta.uid, n)
      /\ IsRestart(n) =>
           /\ prepared.stage.task \in {"apply", "apply-delete"}
           /\ prepared.stage.state = "failed"
           /\ n.stage.gen = prepared.stage.gen
           /\ n.stage.task = NextTask(PlanStart(prepared.stage.task), Configured)
  BY <1>1, <1>3, NewStageBacked
<1> QED
  BY <1>1, <1>4

LEMMA FoundPodBacked ==
  ASSUME DeletionIsPlain, RefinementInv, NEW i \in PodId, FoundPod(i)
  PROVE  CallBacked'
<1> DEFINE state == StageStateOf(pods[i].phase)
           d == [prepared EXCEPT !.stage.state = state, !.stage.podName = i]
           next == IF pods[i].phase = "Succeeded" /\ ~KeepPods THEN "remove" ELSE "idle"
<1>0. OrderInv /\ DeletionInv
  BY DEF RefinementInv, OrderInv
<1>1. /\ Initialized /\ prepared.stage.task # RunNil
      /\ i \in StagePods(prepared) /\ UNCHANGED meta
      /\ UpdateStatusWithRetry(d, next, "idle", TRUE)
  BY DEF FoundPod, InTask, InStage
<1>2. /\ state = "complete" => pods[i].phase = "Succeeded"
      /\ state = "failed" => pods[i].phase = "Failed"
  BY <1>0 DEF StageStateOf, DeletionInv, TypeOK, Pod, PodPhases
<1>3. next \in {"idle", "remove"}
  OBVIOUS
<1>4. /\ prepared \in Status /\ pc = "read" /\ tfMeta.finalizer
      /\ prepared.prefix = tfMeta.uid
      /\ Backed(tfMeta.uid, prepared) /\ prepared.phase # "deleted"
  BY <1>0, <1>1, ReadyCall, WorkingCall, PreparedBacked
<1> HIDE DEF prepared, state, next
<1>5. /\ d.stage.gen = prepared.stage.gen /\ d.stage.task = prepared.stage.task
      /\ d.phase = prepared.phase /\ d.stage.state = state /\ d.stage.podName = i
  BY <1>4 DEF Status, Stage
<1> HIDE DEF d
<1>6. /\ IsPodOf(i, tfMeta.uid, d.stage.gen, d.stage.task)
      /\ \A j \in PodId : j > i => ~IsPodOf(j, tfMeta.uid, d.stage.gen, d.stage.task)
  <2>1. /\ pods[i].prefix = tfMeta.uid /\ pods[i].task = d.stage.task
        /\ pods[i].gen = d.stage.gen /\ pods[i].there
    BY <1>1, <1>4, <1>5 DEF StagePods
  <2>2. pods[i].owner = tfMeta.uid
    BY <1>0, <2>1 DEF DeletionInv, DeletionSound, PodsAreTraced
  <2> QED
    BY <2>1, <2>2 DEF IsPodOf, RefinementInv, LastIsThere
<1>7. Backed(tfMeta.uid, d)
  BY <1>1, <1>2, <1>4, <1>5, <1>6 DEF Backed, Recorded, DestroyRan
<1>8. ~SetupAndRun /\ [Next]_vars
  <2>1. i \in StagePods(prepared)
    BY <1>1
  <2> QED
    BY <2>1 DEF SetupAndRun, StartsPod, Next, Reconcile
<1> QED
  BY <1>1, <1>3, <1>4, <1>5, <1>7, <1>8, BackedWriteStep

(* The stage a pod is started for has not ended.                           *)
LEMMA StartNotOver ==
  ASSUME DeletionIsPlain, RefinementInv, SetupAndRun
  PROVE  /\ status.stage.state # "complete"
         /\ ~(status.stage.task \in {"apply", "apply-delete"} /\ status.stage.state = "failed")
<1>1. /\ Initialized /\ tfMeta.uid = meta.uid
      /\ prepared \in Status /\ prepared.stage = status.stage /\ tfStatus = status
      /\ prepared.stage.task # RunNil /\ newStage = {} /\ ~MustLook
      /\ \A j \in PodId :
           pods[j].there => ~IsPodOf(j, meta.uid, status.stage.gen, status.stage.task)
  BY StartFacts DEF RefinementInv
<1>2. ~IsRetry(tfMeta, tfStatus) /\ Backed(meta.uid, status)
  BY NoRetries DEF RefinementInv, OrderInv, DeletionInv, TypeOK, CallBacked
<1> HIDE DEF prepared
<1>3. CheckSetNewStage(tfMeta, prepared, FALSE, PodMissed(prepared)) = {}
  BY <1>1, <1>2 DEF newStage, CheckSetNewStage
<1>4. prepared.stage.state # "complete"
  BY <1>1, <1>3 DEF CheckSetNewStage, IsLocked
<1>5. ASSUME status.stage.task \in {"apply", "apply-delete"}, status.stage.state = "failed"
      PROVE  FALSE
  <2>1. ~IsNewGeneration(tfMeta, prepared)
    BY <1>1, <1>3, <1>5 DEF CheckSetNewStage, IsLocked
  <2>2. looked
    BY <1>1, <1>2, <1>5, <2>1 DEF MustLook, LooksForPod, IsFailedApply
  <2>3. status.stage.podName \in PodId /\ pods[status.stage.podName].there
    BY <1>1, <2>2 DEF RefinementInv, FoundPodStays
  <2>4. IsPodOf(status.stage.podName, meta.uid, status.stage.gen, status.stage.task)
    BY <1>2, <1>5 DEF Backed, Recorded
  <2> QED
    BY <1>1, <2>3, <2>4
<1> QED
  BY <1>1, <1>4, <1>5

LEMMA SetupAndRunBacked ==
  ASSUME DeletionIsPlain, RefinementInv, SetupAndRun
  PROVE  CallBacked'
<1> DEFINE ph == IF prepared.phase = "initializing" THEN "running"
                 ELSE IF prepared.phase = "initializing-delete" THEN "deleting"
                 ELSE prepared.phase
           d == [prepared EXCEPT !.phase = ph, !.stage.state = "in-progress"]
<1>0. OrderInv /\ DeletionInv /\ SingleInv /\ [Next]_vars
  BY DEF RefinementInv, OrderInv, Next, Reconcile
<1>1. GoOn("started", d) /\ UNCHANGED <<meta, status>>
  BY DEF SetupAndRun
<1>2. /\ prepared \in Status /\ prepared.stage = status.stage
      /\ prepared.stage.task # RunNil /\ prepared.phase # "deleted"
  BY <1>0, StartFacts
<1> HIDE DEF prepared
<1>3. ph # "deleted"
  BY <1>2
<1> HIDE DEF ph
<1>4. d.stage.task = prepared.stage.task /\ d.phase = ph /\ d.stage.state = "in-progress"
  BY <1>2 DEF Status, Stage
<1> HIDE DEF d
<1>5. pc' = "started" /\ tfStatus' = d
  BY <1>1 DEF GoOn
<1>6. Backed(tfMeta.uid, tfStatus)' /\ CallInTask' /\ RestartsStage'
  BY <1>2, <1>3, <1>4, <1>5 DEF Backed, DestroyRan, CallInTask, RestartsStage
<1>7. Backed(meta.uid, status)'
  <2>1. /\ status'.stage.state # "complete"
        /\ ~(status'.stage.task \in {"apply", "apply-delete"} /\ status'.stage.state = "failed")
        /\ status'.stage.task # RunNil
        /\ status'.phase = "deleted" => status'.stage.task = RunNil
    BY <1>1, <1>2, StartNotOver DEF RefinementInv, CallBacked, Backed
  <2> QED
    BY <2>1 DEF Backed, DestroyRan
<1>8. Held'
  BY <1>1 DEF Held, RefinementInv, CallBacked
<1> QED
  BY <1>6, <1>7, <1>8 DEF CallBacked

LEMMA EndWorkflowBacked ==
  ASSUME DeletionIsPlain, RefinementInv, EndWorkflow
  PROVE  CallBacked'
<1> DEFINE d == [prepared EXCEPT !.phase = IF @ = "running" THEN "completed" ELSE "deleted"]
<1>0. OrderInv /\ [Next]_vars
  BY DEF RefinementInv, Next, Reconcile
<1>1. /\ Initialized /\ prepared.stage.task = RunNil /\ UNCHANGED meta
      /\ prepared.phase \in {"running", "deleting"}
      /\ UpdateStatusWithRetry(d, "idle", "idle", TRUE)
  BY DEF EndWorkflow, InStage
<1>2. /\ prepared \in Status /\ pc = "read" /\ tfMeta.finalizer
      /\ Backed(tfMeta.uid, prepared)
  BY <1>0, <1>1, ReadyCall, PreparedBacked
<1>3. ~SetupAndRun
  BY <1>1 DEF SetupAndRun, StartsPod, InTask
<1> HIDE DEF prepared
<1>4. /\ d.stage = prepared.stage
      /\ d.phase = IF prepared.phase = "running" THEN "completed" ELSE "deleted"
  BY <1>2 DEF Status
<1> HIDE DEF d
<1>5. Backed(tfMeta.uid, d)
  <2>1. RunNil \notin {"apply", "apply-delete"}
    BY ApplyIsATask
  <2>2. DestroyRan(tfMeta.uid, prepared)
    BY <1>2 DEF Backed
  <2>3. DestroyRan(tfMeta.uid, d)
    BY <1>1, <1>4, <2>2 DEF DestroyRan
  <2> QED
    BY <1>1, <1>4, <2>1, <2>3 DEF Backed
<1> QED
  BY <1>0, <1>1, <1>2, <1>3, <1>5, BackedWriteStep

LEMMA ResetStageBacked ==
  ASSUME DeletionIsPlain, RefinementInv, ResetStage
  PROVE  CallBacked'
<1> DEFINE d == [prepared EXCEPT !.stage.state = "initializing"]
<1>0. OrderInv /\ [Next]_vars
  BY DEF RefinementInv, Next, Reconcile
<1>1. /\ Initialized /\ prepared.stage.task # RunNil /\ UNCHANGED meta
      /\ UpdateStatusWithRetry(d, "idle", "idle", TRUE)
  BY DEF ResetStage, InTask, InStage
<1>2. /\ prepared \in Status /\ pc = "read" /\ tfMeta.finalizer
      /\ prepared.phase # "deleted"
  BY <1>0, <1>1, ReadyCall, PreparedBacked
<1>3. ~SetupAndRun
  BY DEF ResetStage, SetupAndRun, StartsPod
<1> HIDE DEF prepared
<1>4. /\ d.stage.task = prepared.stage.task /\ d.stage.state = "initializing"
      /\ d.phase = prepared.phase
  BY <1>2 DEF Status, Stage
<1> HIDE DEF d
<1>5. Backed(tfMeta.uid, d)
  BY <1>1, <1>2, <1>4, UnstartedBacked
<1> QED
  BY <1>0, <1>1, <1>2, <1>3, <1>5, BackedWriteStep

LEMMA FirstStagesBacked ==
  ASSUME DeletionIsPlain, RefinementInv, InitializeStatus \/ AddFirstStage
  PROVE  CallBacked'
<1> DEFINE first == [tfStatus EXCEPT !.prefix = tfMeta.uid, !.phase = "initializing"]
           d == IF tfStatus.prefix = 0 THEN first ELSE FirstStage(tfMeta, tfStatus)
<1>0. OrderInv /\ DeletionInv /\ [Next]_vars
  BY DEF RefinementInv, OrderInv, Next, Reconcile
<1>1. /\ pc = "read" /\ tfStatus.phase # "deleted" /\ tfStatus.stage.gen = 0
      /\ UpdatedFinalizer(tfMeta, tfStatus) = tfMeta.finalizer /\ UNCHANGED meta
      /\ \E requeue : UpdateStatusWithRetry(d, "idle", "idle", requeue)
  BY <1>0 DEF InitializeStatus, AddFirstStage, Initialized, OrderInv, OrderSound, Ready
<1>2. /\ tfMeta.finalizer /\ tfStatus \in Status
      /\ Ready(tfMeta.uid, tfStatus)
  BY <1>0, <1>1, PastFinalizer DEF DeletionInv, TypeOK, OrderInv, OrderSound
<1>3. ~SetupAndRun
  BY <1>1 DEF SetupAndRun, StartsPod, InTask, InStage
<1>4. Backed(tfMeta.uid, first)
  <2>1. first.stage = tfStatus.stage /\ first.phase = "initializing"
    BY <1>2 DEF Status
  <2>2. tfStatus.stage.task = RunNil /\ RunNil \notin {"apply", "apply-delete"}
    BY <1>1, <1>2, ApplyIsATask DEF Ready
  <2> HIDE DEF first
  <2> QED
    BY <2>1, <2>2 DEF Backed, DestroyRan
<1>5. Backed(tfMeta.uid, FirstStage(tfMeta, tfStatus))
  <2> DEFINE n == FirstStage(tfMeta, tfStatus)
  <2>1. /\ n.stage.task = "setup" /\ n.stage.state = "initializing"
        /\ n.phase = tfStatus.phase
    BY <1>2 DEF FirstStage, NewStage, Status
  <2>2. n.stage.task # RunNil
    BY <2>1 DEF RunNil
  <2> HIDE DEF n
  <2> QED
    BY <1>1, <2>1, <2>2, UnstartedBacked DEF n
<1>6. Backed(tfMeta.uid, d)
  BY <1>4, <1>5
<1> HIDE DEF d
<1> QED
  BY <1>0, <1>1, <1>2, <1>3, <1>6, BackedWriteStep

LEMMA CreatePluginJobBacked ==
  ASSUME DeletionIsPlain, RefinementInv, NEW p \in PluginNames, CreatePluginJob(p)
  PROVE  CallBacked'
<1> DEFINE d == [tfStatus EXCEPT !.plugins = @ \cup {p}]
<1>1. /\ UpdateStatusWithRetry(d, AfterRun, AfterRun, FALSE) /\ pc = "plugins"
      /\ UNCHANGED meta /\ AfterRun \in {"idle", "plugins"} /\ [Next]_vars
  BY DEF CreatePluginJob, AfterRun, Next, Reconcile
<1>2. /\ tfStatus \in Status /\ tfMeta.finalizer /\ Backed(tfMeta.uid, tfStatus)
      /\ tfStatus.stage.task # RunNil
  BY <1>1 DEF RefinementInv, OrderInv, DeletionInv, TypeOK, DeletionSound,
              CallHoldsResource, CallBacked, CallInTask
<1>3. ~SetupAndRun
  BY <1>1 DEF SetupAndRun, StartsPod, InTask, InStage, Initialized
<1>4. d.stage = tfStatus.stage /\ d.phase = tfStatus.phase
  BY <1>2 DEF Status
<1> HIDE DEF d
<1>5. Backed(tfMeta.uid, d)
  BY <1>2, <1>4 DEF Backed, Recorded, DestroyRan
<1> QED
  BY <1>1, <1>2, <1>3, <1>4, <1>5, BackedWriteStep

LEMMA ReconcileBacked ==
  ASSUME DeletionIsPlain, RefinementInv, Reconcile
  PROVE  CallBacked'
<1>0. [Next]_vars /\ OrderInv /\ DeletionInv /\ CallBacked
  BY DEF Next, RefinementInv, OrderInv
<1>1. CASE GetResource
  <2>1. ~SetupAndRun
    BY <1>1 DEF GetResource, SetupAndRun, StartsPod, InTask, InStage, Initialized
  <2>2. Backed(meta.uid, status)' /\ Backed(tfMeta.uid, tfStatus)'
    BY <1>0, <1>1, <2>1, BackedStays DEF GetResource, CallBacked
  <2> QED
    BY <1>0, <1>1, <2>2 DEF GetResource, CallBacked, RestartsStage, CallInTask, Held
<1>2. CASE ResourceNotFound
  <2>1. ~SetupAndRun
    BY <1>2 DEF ResourceNotFound, SetupAndRun, StartsPod, InTask, InStage, Initialized
  <2> QED
    BY <1>0, <1>2, <2>1, BackedQuietStep DEF ResourceNotFound, call
<1>3. CASE UpdateFinalizer
  <2>1. /\ pc' = "idle" /\ tfMeta' = NoMeta /\ tfStatus' = EmptyStatus /\ ~SetupAndRun
    BY <1>3 DEF UpdateFinalizer, Return, GoOn, SetupAndRun
  <2>2. \/ UNCHANGED <<meta, status>>
        \/ UNCHANGED status /\ meta'.finalizer /\ meta'.uid = meta.uid
        \/ meta' = NoMeta /\ status' = EmptyStatus
    BY <1>0, <1>3, UpdateFinalizerResult
  <2>3. Backed(tfMeta.uid, tfStatus)'
    BY <1>0, <2>1, EmptyBacked, BackedStays
  <2>4. Backed(meta.uid, status)'
    BY <1>0, <2>1, <2>2, EmptyBacked, BackedStays DEF CallBacked
  <2>5. Held'
    BY <1>0, <2>2, EmptySound DEF CallBacked, Held
  <2> QED
    BY <2>1, <2>3, <2>4, <2>5 DEF CallBacked, RestartsStage, CallInTask
<1>4. CASE SetNewStage
  <2>1. PICK s \in newStage : UpdateStatusWithRetry(s, "idle", "idle", FALSE)
    BY <1>4 DEF SetNewStage
  <2>2. Initialized /\ UNCHANGED meta /\ newStage # {}
    BY <1>4, <2>1 DEF SetNewStage
  <2>3. ~SetupAndRun
    BY <2>2 DEF SetupAndRun, StartsPod, InTask, InStage
  <2>4. pc = "read" /\ tfMeta.finalizer /\ Backed(tfMeta.uid, s)
    BY <1>0, <2>1, <2>2, ReadyCall, BackedNewStage
  <2> QED
    BY <1>0, <2>1, <2>2, <2>3, <2>4, BackedWriteStep
<1>5. CASE RemoveOldPlan
  <2>1. PICK s \in newStage : IsRestart(s) /\ GoOn("restart", s)
    BY <1>5 DEF RemoveOldPlan
  <2>2. Initialized /\ UNCHANGED <<meta, status>> /\ newStage # {}
    BY <1>5, <2>1 DEF RemoveOldPlan
  <2>3. ~SetupAndRun
    BY <2>2 DEF SetupAndRun, StartsPod, InTask, InStage
  <2>4. /\ Backed(tfMeta.uid, s)
        /\ status.stage.task \in {"apply", "apply-delete"} /\ status.stage.state = "failed"
        /\ s.stage.gen = status.stage.gen
        /\ s.stage.task = NextTask(PlanStart(status.stage.task), Configured)
    BY <2>1, <2>2, BackedNewStage
  <2> QED
    BY <1>0, <2>1, <2>2, <2>3, <2>4, BackedGoOnStep
<1>6. CASE RestartWorkflow
  <2>1. /\ pc = "restart" /\ UNCHANGED meta
        /\ UpdateStatusWithRetry(tfStatus, "idle", "idle", FALSE)
    BY <1>6 DEF RestartWorkflow
  <2>2. Backed(tfMeta.uid, tfStatus) /\ tfMeta.finalizer /\ ~SetupAndRun
    BY <1>0, <2>1 DEF CallBacked, DeletionInv, DeletionSound, CallHoldsResource,
      SetupAndRun, StartsPod, InTask, InStage, Initialized
  <2> QED
    BY <1>0, <2>1, <2>2, BackedWriteStep
<1>7. CASE NothingToDo \/ ListFails \/ RemovePod
  <2>1. Return /\ UNCHANGED <<meta, status>>
    BY <1>7 DEF NothingToDo, ListFails, RemovePod, cluster
  <2>2. ~SetupAndRun
    BY <2>1 DEF SetupAndRun, Return, GoOn
  <2> QED
    BY <1>0, <2>1, <2>2, BackedGoOnStep DEF Return
<1>8. CASE SetupFails
  <2>1. /\ Initialized /\ GoOn(AfterRun, prepared) /\ UNCHANGED <<meta, status>>
        /\ prepared.stage.task # RunNil
    BY <1>8 DEF SetupFails, StartsPod, InTask, InStage
  <2>2. AfterRun \in {"idle", "plugins"}
    BY DEF AfterRun
  <2>3. Backed(tfMeta.uid, prepared)
    BY <2>1, PreparedBacked
  <2>4. ~SetupAndRun
    BY <2>1, <2>2 DEF SetupAndRun, GoOn
  <2> QED
    BY <1>0, <2>1, <2>2, <2>3, <2>4, BackedGoOnStep
<1>9. CASE SaveStarted
  <2>1. /\ pc = "started" /\ UNCHANGED meta /\ AfterRun \in {"idle", "plugins"}
        /\ UpdateStatusWithRetry(tfStatus, AfterRun, AfterRun, TRUE)
    BY <1>9 DEF SaveStarted, AfterRun
  <2>2. /\ Backed(tfMeta.uid, tfStatus) /\ tfMeta.finalizer /\ tfStatus.stage.task # RunNil
        /\ ~SetupAndRun
    BY <1>0, <2>1 DEF CallBacked, CallInTask, DeletionInv, DeletionSound, CallHoldsResource,
      SetupAndRun, StartsPod, InTask, InStage, Initialized
  <2> QED
    BY <1>0, <2>1, <2>2, BackedWriteStep
<1>10. CASE LookForPod
  <2>1. UNCHANGED <<meta, status, pc, tfMeta, tfStatus>> /\ pc = "read"
    BY <1>10 DEF LookForPod, Initialized, cluster
  <2>2. ~SetupAndRun
    BY <2>1 DEF SetupAndRun, GoOn
  <2> QED
    BY <1>0, <2>1, <2>2, BackedQuietStep
<1> QED
  BY <1>1, <1>2, <1>3, <1>4, <1>5, <1>6, <1>7, <1>8, <1>9, <1>10, SetupAndRunBacked,
     FoundPodBacked, EndWorkflowBacked, ResetStageBacked, FirstStagesBacked,
     CreatePluginJobBacked
     DEF Reconcile

LEMMA BackedKeeps ==
  ASSUME DeletionIsPlain, RefinementInv, [Next]_vars
  PROVE  CallBacked'
<1>1. CASE UNCHANGED vars
  <2>1. UNCHANGED <<meta, status, pc, tfMeta, tfStatus>> /\ ~SetupAndRun
    BY <1>1 DEF vars, cluster, call, SetupAndRun, StartsPod, InTask, InStage, Initialized, GoOn
  <2> QED
    BY <2>1, BackedQuietStep
<1>2. CASE Crash
  <2>1. Return /\ UNCHANGED <<meta, status>> /\ ~SetupAndRun
    BY <1>2 DEF Crash, SetupAndRun, Return, GoOn
  <2> QED
    BY <2>1, BackedGoOnStep DEF Return
<1> QED
  BY <1>1, <1>2, UsersBacked, ClusterBacked, ReconcileBacked DEF Next

-----------------------------------------------------------------------------
(* The pod that was found: only a deletion by hand could take it, for the  *)
(* resource that owns it is the one the call works on.                     *)
LEMMA OwnPodStays ==
  ASSUME TypeOK, CallHoldsResource, LooksAreSound, [Next]_vars, looked, ~SetupAndRun,
         pc = "read", tfMeta.finalizer, UNCHANGED <<pc, tfMeta, tfStatus>>,
         NEW i \in PodId, pods[i].there, pods[i].owner = tfMeta.uid
  PROVE  pods'[i].there
<1>0. pods \in [PodId -> Pod] /\ pods[i].owner = meta.uid
  BY DEF TypeOK, CallHoldsResource
<1>1. CASE Users
  <2>1. UNCHANGED pods
    BY <1>1 DEF Users, CreateResource, EditSpec, SetLabel, DeleteResource, DeletePod,
      LooksAreSound
  <2> QED
    BY <2>1
<1>2. CASE Cluster
  <2>1. CASE \E j \in PodId : CollectPod(j)
    <3>1. PICK j \in PodId : CollectPod(j)
      BY <2>1
    <3>2. j # i /\ pods' = [pods EXCEPT ![j].there = FALSE]
      BY <1>0, <3>1 DEF CollectPod
    <3> QED
      BY <1>0, <3>2
  <2>2. CASE \E j \in PodId : InformerLists(j)
    <3>1. PICK j \in PodId : pods' = [pods EXCEPT ![j].listed = TRUE]
      BY <2>2 DEF InformerLists
    <3> QED
      BY <1>0, <3>1 DEF Pod
  <2>3. CASE \E j \in PodId : PodStarts(j) \/ PodEnds(j)
    <3>1. PICK j \in PodId : \E to : pods' = [pods EXCEPT ![j].phase = to]
      BY <2>3 DEF PodStarts, PodEnds, PodSucceeds, PodFails, SetPhase
    <3> QED
      BY <1>0, <3>1 DEF Pod
  <2>4. CASE Resync \/ \E b \in bundles : CollectBundle(b)
    BY <2>4 DEF Resync, CollectBundle
  <2> QED
    BY <1>2, <2>1, <2>2, <2>3, <2>4 DEF Cluster
<1>3. CASE LookForPod \/ UNCHANGED vars
  BY <1>3 DEF LookForPod, vars, cluster
<1>4. CASE Crash
  BY <1>4 DEF Crash
<1>5. CASE Reconcile /\ ~LookForPod
  <2>1. UNCHANGED pods \/ RemoveOldPlan \/ RemovePod
    BY <1>5 DEF Reconcile, GetResource, ResourceNotFound, UpdateFinalizer, InitializeStatus,
      AddFirstStage, SetNewStage, RestartWorkflow, EndWorkflow, NothingToDo, ListFails,
      ResetStage, SetupFails, SaveStarted, CreatePluginJob, FoundPod, cluster
  <2>2. ~RemoveOldPlan /\ ~RemovePod
    BY DEF RemoveOldPlan, RemovePod, GoOn
  <2> QED
    BY <2>1, <2>2
<1> QED
  BY <1>1, <1>2, <1>3, <1>4, <1>5 DEF Next

LEMMA LookedStep ==
  ASSUME [Next]_vars
  PROVE  ~looked' \/ LookForPod \/ (looked /\ ~SetupAndRun /\ UNCHANGED <<pc, tfMeta, tfStatus>>)
<1>1. \A d, n, f, r : UpdateStatusWithRetry(d, n, f, r) => ~looked'
  BY DEF UpdateStatusWithRetry, GoOn
<1>2. CASE Users \/ Cluster \/ ResourceNotFound \/ UNCHANGED vars
  <2>1. UNCHANGED call
    BY <1>2 DEF Users, CreateResource, EditSpec, SetLabel, DeleteResource, DeletePod, Cluster,
      PodStarts, PodEnds, PodSucceeds, PodFails, SetPhase, CollectPod, InformerLists,
      CollectBundle, Resync, ResourceNotFound, vars
  <2>2. CASE SetupAndRun
    BY <2>2 DEF SetupAndRun, GoOn
  <2> QED
    BY <2>1, <2>2 DEF call
<1>3. CASE GetResource \/ UpdateFinalizer \/ RemoveOldPlan \/ NothingToDo \/ ListFails
           \/ SetupAndRun \/ SetupFails \/ RemovePod \/ Crash
  BY <1>3 DEF GetResource, UpdateFinalizer, RemoveOldPlan, NothingToDo, ListFails,
    SetupAndRun, SetupFails, RemovePod, Crash, Return, GoOn
<1>4. CASE InitializeStatus \/ AddFirstStage \/ SetNewStage \/ RestartWorkflow \/ EndWorkflow
           \/ ResetStage \/ SaveStarted
  BY <1>1, <1>4 DEF InitializeStatus, AddFirstStage, SetNewStage, RestartWorkflow,
    EndWorkflow, ResetStage, SaveStarted
<1>5. CASE (\E i \in PodId : FoundPod(i)) \/ \E p \in PluginNames : CreatePluginJob(p)
  BY <1>1, <1>5 DEF FoundPod, CreatePluginJob
<1> QED
  BY <1>2, <1>3, <1>4, <1>5 DEF Next, Reconcile

LEMMA FoundPodStaysKeeps ==
  ASSUME DeletionIsPlain, LooksAreSound, RefinementInv, [Next]_vars
  PROVE  FoundPodStays'
<1>0. OrderInv /\ TypeOK /\ CallHoldsResource /\ FoundPodStays /\ CallBacked
  BY DEF RefinementInv, OrderInv, DeletionInv, DeletionSound
<1>1. CASE ~looked'
  BY <1>1 DEF FoundPodStays
<1>2. CASE LookForPod
  <2>1. /\ Initialized /\ ~PodGone(prepared)
        /\ UNCHANGED <<pods, pc, tfMeta, tfStatus>>
        /\ LooksForPod(tfMeta, prepared, IsRetry(tfMeta, tfStatus))
    BY <1>2 DEF LookForPod, MustLook, Fault, LooksAreSound, cluster
  <2>2. /\ pc = "read" /\ tfMeta.finalizer /\ prepared.stage = status.stage
        /\ tfStatus = status
    BY <1>0, <2>1, ReadyCall
  <2>3. /\ tfStatus.stage.podName \in PodId /\ pods[tfStatus.stage.podName].there
        /\ tfStatus.stage.task \in {"apply", "apply-delete"}
        /\ tfStatus.stage.state = "failed"
    BY <2>1, <2>2 DEF PodGone, LooksForPod, IsFailedApply
  <2>4. pods[tfStatus.stage.podName].owner = tfMeta.uid
    BY <1>0, <2>3 DEF CallBacked, Backed, Recorded, IsPodOf
  <2> QED
    BY <2>1, <2>2, <2>3, <2>4 DEF FoundPodStays
<1>3. CASE looked /\ ~SetupAndRun /\ UNCHANGED <<pc, tfMeta, tfStatus>>
  <2> DEFINE i == tfStatus.stage.podName
  <2>1. /\ pc = "read" /\ tfMeta.finalizer /\ i \in PodId /\ pods[i].there
        /\ pods[i].owner = tfMeta.uid
    BY <1>0, <1>3 DEF FoundPodStays
  <2> HIDE DEF i
  <2>2. pods'[i].there /\ pods'[i].owner = pods[i].owner
    BY <1>0, <1>3, <2>1, OwnPodStays, OtherStepsKeepPods DEF SamePod
  <2> QED
    BY <1>3, <2>1, <2>2 DEF FoundPodStays, i
<1> QED
  BY <1>1, <1>2, <1>3, LookedStep

(* The invariant of the refinement: what the status of the resource, and   *)
(* the copy of it that a call works on, say of the last run of their stage *)
(* and of the end of the destroy workflow is so, if the pod of a failed    *)
(* apply that a call has found is there when the call lists the pods.      *)
THEOREM RefinementInvariant ==
  ASSUME DeletionIsPlain, PodLag = FALSE, LooksAreSound PROVE Spec => []RefinementInv
<1> DEFINE Parts == SingleInv /\ LastIsThere /\ Counted /\ CallBacked /\ FoundPodStays
<1>1. Init => Parts
  <2> SUFFICES ASSUME Init PROVE Parts
    OBVIOUS
  <2>1. /\ meta = NoMeta /\ status = EmptyStatus /\ tfMeta = NoMeta /\ tfStatus = EmptyStatus
        /\ pc = "idle" /\ \A i \in PodId : pods[i] = NoPod
        /\ uids = 0 /\ nextPod = 1
    BY DEF Init
  <2>2. SingleInv /\ LastIsThere
    BY <2>1 DEF SingleInv, PodsAreSeen, OneLivePodPerStage, Live, LastIsThere, NoPod
  <2>3. Counted
    <3>1. NoMeta.uid = 0 /\ NoPod.owner = 0 /\ NoPod.task = RunNil /\ MaxPods \in Nat
      BY BoundAssumption DEF NoMeta, NoPod
    <3> QED
      BY <2>1, <3>1 DEF Counted
  <2>4. CallBacked
    BY <2>1, EmptyBacked, EmptySound DEF CallBacked, RestartsStage, CallInTask, Held
  <2>5. FoundPodStays
    BY DEF Init, FoundPodStays
  <2> QED
    BY <2>2, <2>3, <2>4, <2>5
<1>2. OrderInv /\ Parts /\ [Next]_vars => Parts'
  <2> SUFFICES ASSUME OrderInv, Parts, [Next]_vars PROVE Parts'
    OBVIOUS
  <2> QED
    BY SingleKeeps, LastIsThereKeeps, CountedKeeps, BackedKeeps, FoundPodStaysKeeps
       DEF RefinementInv
<1> HIDE DEF Parts
<1>3. OrderInv /\ Parts => RefinementInv
  BY DEF Parts, RefinementInv
<1> QED
  BY <1>1, <1>2, <1>3, OrderInvariant, PTL DEF Spec

-----------------------------------------------------------------------------
(* The pods as a sequence of runs.                                         *)
LEMMA LastOfInterval ==
  ASSUME NEW n \in Nat, NEW m \in Nat, 1..n = 1..m
  PROVE  n = m
<1>1. CASE n < m
  <2>1. m \in 1..m /\ m \notin 1..n
    BY <1>1
  <2> QED
    BY <2>1
<1>2. CASE m < n
  <2>1. n \in 1..n /\ n \notin 1..m
    BY <1>2
  <2> QED
    BY <2>1
<1> QED
  BY <1>1, <1>2

LEMMA SeqOfFunction ==
  ASSUME NEW S, NEW n \in Nat, NEW f \in [1..n -> S]
  PROVE  f \in Seq(S) /\ Len(f) = n
<1>1. f \in Seq(S)
  BY SeqDef
<1>2. Len(f) \in Nat /\ DOMAIN f = 1..Len(f) /\ DOMAIN f = 1..n
  BY <1>1, LenProperties
<1> QED
  BY <1>1, <1>2, LastOfInterval, Zenon

LEMMA AppendOne ==
  ASSUME NEW S, NEW n \in Nat, NEW f \in [1..n -> S], NEW g \in [1..(n + 1) -> S],
         \A i \in 1..n : g[i] = f[i]
  PROVE  g = Append(f, g[n + 1])
<1> DEFINE e == g[n + 1]
           a == Append(f, e)
<1>1. e \in S /\ n + 1 \in Nat
  OBVIOUS
<1>2. f \in Seq(S) /\ Len(f) = n
  BY SeqOfFunction
<1>3. g \in Seq(S) /\ Len(g) = n + 1
  BY <1>1, SeqOfFunction
<1> HIDE DEF e
<1>4. /\ a \in Seq(S) /\ Len(a) = n + 1
      /\ \A i \in 1..n : a[i] = f[i]
      /\ a[n + 1] = e
  BY <1>1, <1>2, AppendProperties
<1> HIDE DEF a
<1>5. \A i \in 1..(n + 1) : i \in 1..n \/ i = n + 1
  OBVIOUS
<1>6. \A i \in 1..(n + 1) : a[i] = g[i]
  BY <1>4, <1>5 DEF e
<1>7. a = g
  BY <1>3, <1>4, <1>6, SeqEqual
<1> QED
  BY <1>7 DEF a, e

RunsNow == [i \in 1..(nextPod - 1) |-> RunOf(pods[i])]

LEMMA RunType == \A p \in Pod : RunOf(p) \in W!Run
BY SameTasks DEF Pod, RunOf, ResultOf, W!Run, W!Results, W!TaskName, TaskName

LEMMA PodsAsRuns ==
  ASSUME TypeOK, Counted
  PROVE  /\ nextPod - 1 \in Nat /\ 1..(nextPod - 1) \subseteq PodId
         /\ RunsNow \in [1..(nextPod - 1) -> W!Run]
         /\ Len(RunsNow) = nextPod - 1
         /\ \A i \in 1..(nextPod - 1) : RunsNow[i] = RunOf(pods[i])
<1>1. /\ nextPod \in Nat \ {0} /\ nextPod <= MaxPods + 1 /\ MaxPods \in Nat
      /\ pods \in [PodId -> Pod]
  BY BoundAssumption DEF TypeOK, Counted
<1>2. nextPod - 1 \in Nat /\ 1..(nextPod - 1) \subseteq PodId
  BY <1>1 DEF PodId
<1>3. \A i \in 1..(nextPod - 1) : RunOf(pods[i]) \in W!Run
  BY <1>1, <1>2, RunType
<1>4. RunsNow \in [1..(nextPod - 1) -> W!Run]
  BY <1>3 DEF RunsNow
<1>5. Len(RunsNow) = nextPod - 1
  BY <1>2, <1>4, SeqOfFunction
<1> QED
  BY <1>2, <1>4, <1>5 DEF RunsNow

LEMMA PodsAsRunsNext ==
  ASSUME TypeOK', Counted'
  PROVE  /\ RunsNow' \in [1..(nextPod' - 1) -> W!Run]
         /\ \A i \in 1..(nextPod' - 1) : RunsNow'[i] = RunOf(pods'[i])
<1>1. /\ nextPod' \in Nat \ {0} /\ nextPod' <= MaxPods + 1 /\ MaxPods \in Nat
      /\ pods' \in [PodId -> Pod]
  <2>1. nextPod' \in Nat \ {0} /\ pods' \in [PodId -> Pod]
    BY DEF TypeOK
  <2>2. nextPod' <= MaxPods + 1
    BY DEF Counted
  <2> QED
    BY <2>1, <2>2, BoundAssumption
<1>2. 1..(nextPod' - 1) \subseteq PodId
  <2>1. ASSUME NEW n \in Nat, n <= MaxPods + 1, MaxPods \in Nat
        PROVE  1..(n - 1) \subseteq PodId
    BY <2>1 DEF PodId
  <2>2. nextPod' \in Nat
    BY <1>1
  <2> QED
    BY <1>1, <2>1, <2>2, Zenon
<1>3. \A i \in 1..(nextPod' - 1) : RunOf(pods'[i]) \in W!Run
  BY <1>1, <1>2, RunType
<1>4. RunsNow' = [i \in 1..(nextPod' - 1) |-> RunOf(pods'[i])]
  BY DEF RunsNow, RunOf, ResultOf
<1> QED
  BY <1>3, <1>4

(* A pod of a task is one of the runs.                                     *)
LEMMA PodIsRun ==
  ASSUME TypeOK, Counted, NEW i \in PodId, pods[i].task # RunNil
  PROVE  i \in 1..(nextPod - 1)
<1>1. ~(i >= nextPod)
  BY DEF Counted
<1> QED
  BY <1>1 DEF PodId, TypeOK

LEMMA InStateOfPods ==
  ASSUME TypeOK, Counted, NEW uid, NEW gen, NEW task, NEW result
  PROVE  W!InState(uid, gen, task, result) <=>
           \E i \in 1..(nextPod - 1) : IsPodOf(i, uid, gen, task) /\ ResultOf(pods[i]) = result
<1>1. W!InState(uid, gen, task, result) <=>
        \E i \in 1..Len(RunsNow) :
          W!IsRunOf(RunsNow[i], uid, gen, task) /\ RunsNow[i].result = result
  BY DEF W!InState, RunsNow
<1>2. \A i \in 1..(nextPod - 1) :
        /\ W!IsRunOf(RunsNow[i], uid, gen, task) <=> IsPodOf(i, uid, gen, task)
        /\ RunsNow[i].result = ResultOf(pods[i])
  BY PodsAsRuns DEF W!IsRunOf, IsPodOf, RunOf
<1>3. Len(RunsNow) = nextPod - 1
  BY PodsAsRuns
<1> HIDE DEF RunsNow
<1> QED
  BY <1>1, <1>2, <1>3

LEMMA FinishedInState ==
  ASSUME TypeOK, Counted, NEW uid, NEW gen, NEW task, task # RunNil, Finished(uid, gen, task)
  PROVE  W!InState(uid, gen, task, "succeeded")
<1>1. PICK i \in PodId : IsPodOf(i, uid, gen, task) /\ pods[i].phase = "Succeeded"
  BY DEF Finished, IsPodOf
<1>2. i \in 1..(nextPod - 1) /\ ResultOf(pods[i]) = "succeeded"
  BY <1>1, PodIsRun DEF IsPodOf, ResultOf
<1> QED
  BY <1>1, <1>2, InStateOfPods

(* What the status records of its stage is how the stage's last run ended. *)
LEMMA RecordedStageIs ==
  ASSUME TypeOK, Counted, status.stage.task # RunNil,
         NEW phase, NEW result,
         \/ phase = "Succeeded" /\ result = "succeeded"
         \/ phase = "Failed" /\ result = "failed",
         Recorded(meta.uid, status, phase)
  PROVE  W!StageIs(result)
<1> DEFINE n == nextPod - 1
           uid == meta.uid
           gen == status.stage.gen
           task == status.stage.task
<1>1. PICK i \in PodId :
        /\ IsPodOf(i, uid, gen, task) /\ pods[i].phase = phase
        /\ \A j \in PodId : j > i => ~IsPodOf(j, uid, gen, task)
  BY DEF Recorded
<1>2. i \in 1..n /\ ResultOf(pods[i]) = result
  BY <1>1, PodIsRun DEF IsPodOf, ResultOf
<1>3. /\ n \in Nat /\ 1..n \subseteq PodId /\ Len(RunsNow) = n
      /\ \A k \in 1..n :
           /\ W!IsRunOf(RunsNow[k], uid, gen, task) <=> IsPodOf(k, uid, gen, task)
           /\ RunsNow[k].result = ResultOf(pods[k])
  BY PodsAsRuns DEF W!IsRunOf, IsPodOf, RunOf
<1>4. \A j \in (i + 1)..n : j \in 1..n /\ j > i
  BY <1>2, <1>3
<1>5. \A j \in (i + 1)..n : ~W!IsRunOf(RunsNow[j], uid, gen, task)
  BY <1>1, <1>3, <1>4
<1>6. W!StageIs(result) <=>
        \E k \in 1..Len(RunsNow) :
          /\ W!IsRunOf(RunsNow[k], uid, gen, task) /\ RunsNow[k].result = result
          /\ \A j \in (k + 1)..Len(RunsNow) : ~W!IsRunOf(RunsNow[j], uid, gen, task)
  BY DEF W!StageIs, RunsNow
<1> HIDE DEF RunsNow, n
<1> QED
  BY <1>1, <1>2, <1>3, <1>5, <1>6

-----------------------------------------------------------------------------
(* The steps of Workflow, in terms of the controller's state.              *)
AbstractStep == [W!Next]_W!workflowVars

LEMMA SameAbstract ==
  ASSUME RunsNow' = RunsNow,
         meta'.uid = meta.uid, meta'.gen = meta.gen, meta'.deleting = meta.deleting,
         StageKey(status') = StageKey(status),
         status'.phase = "completed" <=> status.phase = "completed"
  PROVE  AbstractStep
<1>1. (status'.phase = "completed") = (status.phase = "completed")
  OBVIOUS
<1>2. UNCHANGED W!workflowVars
  BY <1>1 DEF W!workflowVars, RunsNow, StageKey
<1> QED
  BY <1>2 DEF AbstractStep

LEMMA RunsStay ==
  ASSUME nextPod' = nextPod, \A i \in 1..(nextPod - 1) : RunOf(pods'[i]) = RunOf(pods[i])
  PROVE  RunsNow' = RunsNow
<1>1. RunsNow' = [i \in 1..(nextPod' - 1) |-> RunOf(pods'[i])]
  BY DEF RunsNow, RunOf, ResultOf
<1>2. RunsNow = [i \in 1..(nextPod - 1) |-> RunOf(pods[i])]
  BY DEF RunsNow
<1> HIDE DEF RunsNow
<1>3. RunsNow' = [i \in 1..(nextPod - 1) |-> RunOf(pods'[i])]
  BY <1>1
<1> QED
  BY <1>2, <1>3

LEMMA EnterStep ==
  ASSUME NEW g, NEW t, status'.stage.gen = g, status'.stage.task = t, meta.uid # 0,
         UNCHANGED meta, RunsNow' = RunsNow
  PROVE  W!Enter(g, t)
BY DEF W!Enter, RunsNow

LEMMA NewGenerationStep ==
  ASSUME meta.uid # 0, UNCHANGED meta, RunsNow' = RunsNow,
         status.stage.gen \in Nat, meta.gen \in Nat,
         NEW g \in Nat, NEW t, status'.stage.gen = g, status'.stage.task = t,
         status.stage.gen < g, g <= meta.gen,
         \/ t = "setup" /\ ~(meta.deleting /\ g = meta.gen)
         \/ t = "setup-delete" /\ meta.deleting,
         status'.phase # "completed"
  PROVE  AbstractStep
<1>1. W!Enter(g, t)
  BY EnterStep
<1>2. g \in status.stage.gen + 1..meta.gen
  OBVIOUS
<1>3. W!NewGeneration
  BY <1>1, <1>2 DEF W!NewGeneration
<1> QED
  BY <1>3 DEF AbstractStep, W!Next

LEMMA AdvanceStep ==
  ASSUME meta.uid # 0, UNCHANGED meta, RunsNow' = RunsNow,
         status.stage.task # RunNil, W!StageIs("succeeded"),
         status'.stage.gen = status.stage.gen,
         status'.stage.task = NextTask(status.stage.task, Configured),
         status.phase # "completed", status'.phase # "completed"
  PROVE  AbstractStep
<1>1. status'.stage.task = W!NextTask(status.stage.task, W!ConfiguredTasks)
  BY SameNextTask
<1>2. \A g, t : status'.stage.gen = g /\ status'.stage.task = t => W!Enter(g, t)
  BY EnterStep
<1>3. W!Enter(status.stage.gen, W!NextTask(status.stage.task, W!ConfiguredTasks))
  BY <1>1, <1>2
<1>4. UNCHANGED (status.phase = "completed")
  OBVIOUS
<1>5. W!Advance
  BY <1>3, <1>4, SameTasks DEF W!Advance
<1> QED
  BY <1>5 DEF AbstractStep, W!Next

LEMMA ReplanStep ==
  ASSUME meta.uid # 0, UNCHANGED meta, RunsNow' = RunsNow,
         status.stage.task \in {"apply", "apply-delete"}, W!StageIs("failed"),
         status'.stage.gen = status.stage.gen,
         status'.stage.task = NextTask(PlanStart(status.stage.task), Configured),
         status.phase # "completed", status'.phase # "completed"
  PROVE  AbstractStep
<1>1. status'.stage.task = W!NextTask(PlanStart(status.stage.task), W!ConfiguredTasks)
  BY SameNextTask
<1>2. \A g, t : status'.stage.gen = g /\ status'.stage.task = t => W!Enter(g, t)
  BY EnterStep
<1>3. W!Enter(status.stage.gen, W!NextTask(PlanStart(status.stage.task), W!ConfiguredTasks))
  BY <1>1, <1>2
<1>4. UNCHANGED (status.phase = "completed")
  OBVIOUS
<1>5. \/ /\ status.stage.task = "apply"
         /\ W!Enter(status.stage.gen, W!NextTask("postinit", W!ConfiguredTasks))
      \/ /\ status.stage.task = "apply-delete"
         /\ W!Enter(status.stage.gen, W!NextTask("postinit-delete", W!ConfiguredTasks))
  BY <1>3 DEF PlanStart
<1>6. W!Replan
  BY <1>4, <1>5 DEF W!Replan
<1> QED
  BY <1>6 DEF AbstractStep, W!Next

LEMMA CompleteStep ==
  ASSUME TypeOK, Counted, UNCHANGED meta, RunsNow' = RunsNow,
         status.stage.task = RunNil, StageKey(status') = StageKey(status),
         \A t \in Configured \cap CreateTasks : Finished(meta.uid, status.stage.gen, t),
         status'.phase = "completed"
  PROVE  AbstractStep
<1>1. \A t \in Configured \cap CreateTasks :
        W!InState(meta.uid, status.stage.gen, t, "succeeded")
  <2> SUFFICES ASSUME NEW t \in Configured \cap CreateTasks
               PROVE  W!InState(meta.uid, status.stage.gen, t, "succeeded")
    OBVIOUS
  <2>1. t # RunNil
    BY NilIsNoTask
  <2>2. \A uid, gen : Finished(uid, gen, t) => W!InState(uid, gen, t, "succeeded")
    BY <2>1, FinishedInState
  <2> QED
    BY <2>2
<1>2. (status.phase = "completed")'
  OBVIOUS
<1>3. W!Complete
  BY <1>1, <1>2, SameTasks DEF W!Complete, RunsNow, StageKey
<1> QED
  BY <1>3 DEF AbstractStep, W!Next

LEMMA GoneStep ==
  ASSUME TypeOK, Counted, RunsNow' = RunsNow, meta.deleting,
         status.stage.task = RunNil,
         \A t \in Configured \cap DeleteTasks : Finished(meta.uid, status.stage.gen, t),
         meta' = NoMeta, status' = EmptyStatus
  PROVE  AbstractStep
<1>1. \A t \in Configured \cap DeleteTasks :
        W!InState(meta.uid, status.stage.gen, t, "succeeded")
  <2> SUFFICES ASSUME NEW t \in Configured \cap DeleteTasks
               PROVE  W!InState(meta.uid, status.stage.gen, t, "succeeded")
    OBVIOUS
  <2>1. t # RunNil
    BY NilIsNoTask
  <2>2. \A uid, gen : Finished(uid, gen, t) => W!InState(uid, gen, t, "succeeded")
    BY <2>1, FinishedInState
  <2> QED
    BY <2>2
<1>2. /\ [uid |-> meta'.uid, gen |-> meta'.gen, deleting |-> meta'.deleting] = W!NoResource
      /\ [gen |-> status'.stage.gen, task |-> status'.stage.task] = W!NoStage
  BY SameTasks DEF W!NoResource, W!NoStage, NoMeta, EmptyStatus, EmptyStage
<1>3. (status'.phase = "completed") = FALSE
  BY EmptySound
<1>4. W!Gone
  BY <1>1, <1>2, <1>3, SameTasks DEF W!Gone, RunsNow
<1> QED
  BY <1>4 DEF AbstractStep, W!Next

(* Runs that end, one or several at a time.                                *)
LEMMA EndedRun ==
  ASSUME NEW n \in Nat, NEW p \in [1..n -> W!Run], NEW q \in [1..n -> W!Run], NEW i \in 1..n,
         NEW result, q[i] = [p[i] EXCEPT !.result = result],
         \A j \in 1..n : j # i => q[j] = p[j]
  PROVE  q = [p EXCEPT ![i].result = result]
OBVIOUS

LosesRuns(p, q) ==
  \E lost \in SUBSET {i \in 1..Len(p) : p[i].result = "running"} :
    q = [i \in 1..Len(p) |-> IF i \in lost THEN [p[i] EXCEPT !.result = "lost"] ELSE p[i]]

LEMMA RunFields ==
  ASSUME NEW p, NEW q, q.owner = p.owner, q.gen = p.gen, q.task = p.task
  PROVE  /\ ResultOf(q) = ResultOf(p) => RunOf(q) = RunOf(p)
         /\ RunOf(p).result = ResultOf(p)
         /\ RunOf(q) = [RunOf(p) EXCEPT !.result = ResultOf(q)]
BY DEF RunOf

SameOrLost(a, b) ==
  \/ b = a
  \/ a.result = "running" /\ b = [a EXCEPT !.result = "lost"]

LEMMA LostRun ==
  ASSUME NEW n \in Nat, NEW p \in [1..n -> W!Run], NEW q \in [1..n -> W!Run], Len(p) = n,
         \A j \in 1..n : SameOrLost(p[j], q[j])
  PROVE  LosesRuns(p, q)
<1> DEFINE lost == {j \in 1..n : q[j] # p[j]}
<1>1. lost \in SUBSET {i \in 1..n : p[i].result = "running"}
  BY DEF SameOrLost
<1>2. \A j \in 1..n : q[j] = IF j \in lost THEN [p[j] EXCEPT !.result = "lost"] ELSE p[j]
  BY DEF SameOrLost
<1>3. q = [i \in 1..n |-> IF i \in lost THEN [p[i] EXCEPT !.result = "lost"] ELSE p[i]]
  BY <1>2
<1> QED
  BY <1>1, <1>3 DEF LosesRuns

LEMMA EndStep ==
  ASSUME TypeOK, Counted, TypeOK', Counted', UNCHANGED <<meta, status, nextPod>>,
         NEW i \in 1..(nextPod - 1), ResultOf(pods[i]) = "running",
         NEW result \in W!Results \ {"running"},
         RunOf(pods'[i]) = [RunOf(pods[i]) EXCEPT !.result = result],
         \A j \in 1..(nextPod - 1) : j # i => RunOf(pods'[j]) = RunOf(pods[j])
  PROVE  AbstractStep
<1> DEFINE n == nextPod - 1
<1>1. /\ n \in Nat /\ RunsNow \in [1..n -> W!Run] /\ Len(RunsNow) = n
      /\ \A j \in 1..n : RunsNow[j] = RunOf(pods[j])
  BY PodsAsRuns
<1>2. /\ RunsNow' \in [1..n -> W!Run]
      /\ \A j \in 1..n : RunsNow'[j] = RunOf(pods'[j])
  BY PodsAsRunsNext
<1>3. RunsNow[i].result = "running"
  BY <1>1 DEF RunOf
<1>4. RunsNow' = [RunsNow EXCEPT ![i].result = result]
  <2>1. /\ RunsNow'[i] = [RunsNow[i] EXCEPT !.result = result]
        /\ \A j \in 1..n : j # i => RunsNow'[j] = RunsNow[j]
    BY <1>1, <1>2
  <2>2. \A p, q \in [1..n -> W!Run] :
          /\ q[i] = [p[i] EXCEPT !.result = result]
          /\ \A j \in 1..n : j # i => q[j] = p[j]
          => q = [p EXCEPT ![i].result = result]
    BY <1>1, EndedRun
  <2> HIDE DEF RunsNow
  <2> QED
    BY <1>1, <1>2, <2>1, <2>2
<1>5. W!End(i, result)
  BY <1>3, <1>4 DEF W!End, RunsNow
<1>6. i \in 1..Len(RunsNow)
  BY <1>1
<1> QED
  BY <1>5, <1>6 DEF AbstractStep, W!Next, RunsNow

LEMMA LoseStep ==
  ASSUME TypeOK, Counted, TypeOK', Counted', UNCHANGED <<meta, status, nextPod>>,
         \A j \in 1..(nextPod - 1) : SameOrLost(RunOf(pods[j]), RunOf(pods'[j]))
  PROVE  AbstractStep
<1> DEFINE n == nextPod - 1
<1>1. /\ n \in Nat /\ RunsNow \in [1..n -> W!Run] /\ Len(RunsNow) = n
      /\ \A j \in 1..n : RunsNow[j] = RunOf(pods[j])
  BY PodsAsRuns
<1>2. /\ RunsNow' \in [1..n -> W!Run]
      /\ \A j \in 1..n : RunsNow'[j] = RunOf(pods'[j])
  BY PodsAsRunsNext
<1>3. \A j \in 1..n : SameOrLost(RunsNow[j], RunsNow'[j])
  BY <1>1, <1>2
<1>4. LosesRuns(RunsNow, RunsNow')
  <2>1. ASSUME NEW m \in Nat, NEW p \in [1..m -> W!Run], NEW q \in [1..m -> W!Run],
               Len(p) = m,
               \A j \in 1..m : SameOrLost(p[j], q[j])
        PROVE  LosesRuns(p, q)
    BY <2>1, LostRun
  <2> HIDE DEF RunsNow, n
  <2> QED
    BY <1>1, <1>2, <1>3, <2>1
<1>5. W!Lose
  BY <1>4 DEF W!Lose, RunsNow, LosesRuns
<1> QED
  BY <1>5 DEF AbstractStep, W!Next

(* Pods that go, or are seen, while the resource stays as it is.           *)
LEMMA PodsGoStep ==
  ASSUME TypeOK, Counted, TypeOK', Counted', UNCHANGED <<meta, status, nextPod>>,
         \A i \in PodId :
           /\ pods'[i].owner = pods[i].owner /\ pods'[i].gen = pods[i].gen
           /\ pods'[i].task = pods[i].task /\ pods'[i].phase = pods[i].phase
           /\ pods'[i].there => pods[i].there
  PROVE  AbstractStep
<1>1. ASSUME NEW j \in 1..(nextPod - 1)
      PROVE  SameOrLost(RunOf(pods[j]), RunOf(pods'[j]))
  <2>1. /\ pods'[j].owner = pods[j].owner /\ pods'[j].gen = pods[j].gen
        /\ pods'[j].task = pods[j].task /\ pods'[j].phase = pods[j].phase
        /\ pods'[j].there => pods[j].there
    BY PodsAsRuns
  <2>2. \/ ResultOf(pods'[j]) = ResultOf(pods[j])
        \/ ResultOf(pods[j]) = "running" /\ ResultOf(pods'[j]) = "lost"
    BY <2>1 DEF ResultOf
  <2> QED
    BY <2>1, <2>2, RunFields DEF SameOrLost
<1> QED
  BY <1>1, LoseStep

LEMMA StartStep ==
  ASSUME DeletionIsPlain, RefinementInv, TypeOK', Counted', SetupAndRun
  PROVE  AbstractStep
<1> DEFINE n == nextPod - 1
           run == [uid |-> meta.uid, gen |-> status.stage.gen, task |-> status.stage.task,
                   result |-> "running"]
<1>0. TypeOK /\ Counted /\ OrderInv /\ SingleInv /\ DeletionInv
  BY DEF RefinementInv, OrderInv, DeletionInv
<1>1. /\ meta.uid # 0 /\ status.stage.task # RunNil /\ nextPod \in PodId
      /\ \A j \in PodId :
           pods[j].there => ~IsPodOf(j, meta.uid, status.stage.gen, status.stage.task)
      /\ pods'[nextPod].owner = meta.uid /\ pods'[nextPod].gen = status.stage.gen
      /\ pods'[nextPod].task = status.stage.task
  BY <1>0, StartFacts
<1>2. /\ UNCHANGED <<meta, status>> /\ nextPod' = nextPod + 1
      /\ pods'[nextPod].phase = "Pending" /\ pods'[nextPod].there
      /\ \A i \in PodId \ {nextPod} : pods'[i] = pods[i]
  <2>1. pods'[nextPod] = [prefix |-> prepared.prefix, owner |-> tfMeta.uid,
                          task |-> prepared.stage.task,
                          gen |-> prepared.stage.gen, ver |-> tfMeta.gen,
                          phase |-> "Pending", there |-> TRUE, listed |-> ~PodLag]
    BY <1>0, SetupAndRunPods
  <2> HIDE DEF prepared
  <2>2. pods'[nextPod].phase = "Pending" /\ pods'[nextPod].there
    BY <2>1
  <2> QED
    BY <1>0, <2>2, SetupAndRunPods DEF SetupAndRun
<1>3. /\ n \in Nat /\ nextPod = n + 1 /\ RunsNow \in [1..n -> W!Run] /\ Len(RunsNow) = n
      /\ 1..n \subseteq PodId
      /\ \A j \in 1..n : RunsNow[j] = RunOf(pods[j])
  BY <1>0, PodsAsRuns DEF TypeOK
<1>4. /\ RunsNow' \in [1..(n + 1) -> W!Run]
      /\ \A j \in 1..(n + 1) : RunsNow'[j] = RunOf(pods'[j])
  <2>1. nextPod' - 1 = n + 1
    BY <1>2, <1>3
  <2> QED
    BY <2>1, PodsAsRunsNext
<1>5. RunsNow'[n + 1] = run
  <2>1. n + 1 \in 1..(n + 1)
    BY <1>3
  <2>2. RunsNow'[n + 1] = RunOf(pods'[nextPod])
    BY <1>3, <1>4, <2>1
  <2> QED
    BY <1>1, <1>2, <2>2 DEF RunOf, ResultOf
<1>6. \A j \in 1..n : RunsNow'[j] = RunsNow[j]
  <2>1. \A j \in 1..n : j \in PodId \ {nextPod} /\ j \in 1..(n + 1)
    BY <1>3
  <2> QED
    BY <1>2, <1>3, <1>4, <2>1
<1>7. RunsNow' = Append(RunsNow, run)
  <2>1. \A f \in [1..n -> W!Run], g \in [1..(n + 1) -> W!Run] :
          (\A j \in 1..n : g[j] = f[j]) => g = Append(f, g[n + 1])
    BY <1>3, AppendOne
  <2> HIDE DEF RunsNow, run, n
  <2> QED
    BY <1>3, <1>4, <1>5, <1>6, <2>1
<1>8. ~W!InState(meta.uid, status.stage.gen, status.stage.task, "running")
  <2>1. \A i \in 1..n : ResultOf(pods[i]) = "running" => pods[i].there
    BY DEF ResultOf
  <2>2. ~\E i \in 1..n : /\ IsPodOf(i, meta.uid, status.stage.gen, status.stage.task)
                         /\ ResultOf(pods[i]) = "running"
    BY <1>1, <1>3, <2>1
  <2>3. \A uid, gen, task :
          W!InState(uid, gen, task, "running") <=>
            \E i \in 1..n : IsPodOf(i, uid, gen, task) /\ ResultOf(pods[i]) = "running"
    BY <1>0, InStateOfPods
  <2> QED
    BY <2>2, <2>3
<1>9. W!Start
  BY <1>1, <1>2, <1>7, <1>8, SameTasks DEF W!Start, RunsNow
<1> QED
  BY <1>9 DEF AbstractStep, W!Next

-----------------------------------------------------------------------------
(* What users and the cluster do.                                          *)
LEMMA SamePodsSameRuns == ASSUME UNCHANGED <<pods, nextPod>> PROVE RunsNow' = RunsNow
BY RunsStay

LEMMA CreateStep ==
  ASSUME RefinementInv, CreateResource
  PROVE  AbstractStep
<1>0. TypeOK /\ Counted /\ Held
  BY DEF RefinementInv, CallBacked, OrderInv, DeletionInv
<1>1. PICK ignore \in IgnoreDeletes, label \in RetryLabels \cup {NoLabel} :
        meta' = [uid |-> uids', gen |-> 1, deleting |-> FALSE, finalizer |-> FALSE,
                 ignoreDelete |-> ignore, label |-> label]
  BY DEF CreateResource
<1>2. /\ meta.uid = 0 /\ uids \in Nat /\ uids' = uids + 1
      /\ meta'.uid = uids + 1 /\ meta'.gen = 1 /\ meta'.deleting = FALSE
      /\ status' = status /\ RunsNow' = RunsNow
  BY <1>0, <1>1, SamePodsSameRuns DEF CreateResource, TypeOK, Held
<1>3. \A i \in 1..(nextPod - 1) : RunsNow[i].uid # meta'.uid
  <2>1. \A i \in PodId : pods[i].owner <= uids /\ pods[i].owner \in Nat
    BY <1>0 DEF Counted, TypeOK, Pod
  <2>2. \A i \in 1..(nextPod - 1) : i \in PodId /\ RunsNow[i].uid = pods[i].owner
    BY <1>0, PodsAsRuns DEF RunOf
  <2>3. \A owner \in Nat : owner <= uids => owner # uids + 1
    BY <1>2
  <2> HIDE DEF RunsNow
  <2> QED
    BY <1>2, <2>1, <2>2, <2>3
<1>4. \A i \in 1..Len(RunsNow) : RunsNow[i].uid # meta'.uid
  BY <1>0, <1>3, PodsAsRuns, Zenon
<1>5. W!Create
  <2>1. meta'.uid \in Nat \ {0} /\ meta'.gen \in {1} /\ meta'.deleting \in {FALSE}
    <3>1. uids + 1 \in Nat \ {0}
      BY <1>2
    <3>2. meta'.uid \in Nat \ {0} /\ meta'.gen \in {1}
      BY <1>2, <3>1, Zenon
    <3>3. meta'.deleting \in {FALSE}
      BY <1>2, Zenon
    <3> QED
      BY <3>2, <3>3
  <2> DEFINE r == [uid |-> meta'.uid, gen |-> meta'.gen, deleting |-> meta'.deleting]
  <2>2. r \in [uid : Nat \ {0}, gen : {1}, deleting : {FALSE}] /\ r.uid = meta'.uid
    BY <2>1
  <2>3. \A i \in 1..Len(RunsNow) : RunsNow[i].uid # r.uid
    BY <1>4, <2>2
  <2> QED
    BY <1>2, <2>2, <2>3 DEF W!Create, RunsNow
<1> QED
  BY <1>5 DEF AbstractStep, W!Next

LEMMA EditStep ==
  ASSUME meta.uid # 0, meta'.uid = meta.uid, meta'.gen = meta.gen + 1,
         meta'.deleting = meta.deleting, UNCHANGED <<status, pods, nextPod>>
  PROVE  AbstractStep
<1>1. RunsNow' = RunsNow
  BY SamePodsSameRuns
<1>2. W!Edit
  BY <1>1 DEF W!Edit, RunsNow
<1> QED
  BY <1>2 DEF AbstractStep, W!Next

LEMMA DeletedResource ==
  ASSUME NEW r \in W!Resource, NEW n \in W!Resource,
         n.uid = r.uid, n.gen = r.gen + 1, n.deleting = TRUE
  PROVE  n = [r EXCEPT !.gen = @ + 1, !.deleting = TRUE]
<1> DEFINE e == [r EXCEPT !.gen = r.gen + 1, !.deleting = TRUE]
<1>1. e \in W!Resource /\ e.uid = r.uid /\ e.gen = r.gen + 1 /\ e.deleting = TRUE
  BY DEF W!Resource
<1> HIDE DEF e
<1>2. n = e
  BY <1>1 DEF W!Resource
<1> QED
  BY <1>2 DEF e

LEMMA DeleteStep ==
  ASSUME meta \in Meta, meta' \in Meta,
         meta.uid # 0, ~meta.deleting, meta'.uid = meta.uid, meta'.gen = meta.gen + 1,
         meta'.deleting = TRUE, UNCHANGED <<status, pods, nextPod>>
  PROVE  AbstractStep
<1>1. RunsNow' = RunsNow
  BY SamePodsSameRuns
<1> DEFINE r == [uid |-> meta.uid, gen |-> meta.gen, deleting |-> meta.deleting]
<1>2. r \in W!Resource /\ r' \in W!Resource
  BY DEF Meta, W!Resource
<1>3. r' = [r EXCEPT !.gen = @ + 1, !.deleting = TRUE]
  BY <1>2, DeletedResource
<1>4. W!Delete
  BY <1>1, <1>3 DEF W!Delete, RunsNow
<1> QED
  BY <1>4 DEF AbstractStep, W!Next

LEMMA SameStatusStep ==
  ASSUME UNCHANGED <<status, pods, nextPod>>,
         meta'.uid = meta.uid, meta'.gen = meta.gen, meta'.deleting = meta.deleting
  PROVE  AbstractStep
BY SamePodsSameRuns, SameAbstract DEF StageKey

LEMMA EditedFields ==
  ASSUME NEW m \in Meta
  PROVE  /\ \A x, y : LET n == [m EXCEPT !.gen = x, !.ignoreDelete = y]
                      IN  n.uid = m.uid /\ n.gen = x /\ n.deleting = m.deleting
         /\ \A x : LET n == [m EXCEPT !.gen = x, !.deleting = TRUE]
                   IN  n.uid = m.uid /\ n.gen = x /\ n.deleting = TRUE
         /\ \A x : LET n == [m EXCEPT !.label = x]
                   IN  n.uid = m.uid /\ n.gen = m.gen /\ n.deleting = m.deleting
BY DEF Meta

(* A pod's presence, and whether the informer has seen it.                 *)
SameButPresence ==
  \A i \in PodId :
    /\ pods'[i].owner = pods[i].owner /\ pods'[i].gen = pods[i].gen
    /\ pods'[i].task = pods[i].task /\ pods'[i].phase = pods[i].phase
    /\ pods'[i].there => pods[i].there

LEMMA PresenceEdits ==
  ASSUME TypeOK
  PROVE  /\ \A j \in PodId : pods' = [pods EXCEPT ![j].there = FALSE] => SameButPresence
         /\ \A j \in PodId : pods' = [pods EXCEPT ![j].listed = TRUE] => SameButPresence
         /\ \A gone : pods' = [j \in PodId |-> [pods[j] EXCEPT !.there = @ /\ gone[j]]]
                        => SameButPresence
         /\ UNCHANGED pods => SameButPresence
<1>0. pods \in [PodId -> Pod]
  BY DEF TypeOK
<1>1. ASSUME NEW j \in PodId, \/ pods' = [pods EXCEPT ![j].there = FALSE]
                              \/ pods' = [pods EXCEPT ![j].listed = TRUE]
      PROVE  SameButPresence
  BY <1>0, <1>1 DEF SameButPresence, Pod
<1>2. ASSUME NEW gone, pods' = [j \in PodId |-> [pods[j] EXCEPT !.there = @ /\ gone[j]]]
      PROVE  SameButPresence
  BY <1>0, <1>2 DEF SameButPresence, Pod
<1>3. UNCHANGED pods => SameButPresence
  BY DEF SameButPresence
<1> QED
  BY <1>1, <1>2, <1>3

LEMMA UsersMap ==
  ASSUME DeletionIsPlain, RefinementInv, TypeOK', Counted', Users
  PROVE  AbstractStep
<1>0. /\ TypeOK /\ Counted /\ Held /\ meta \in Meta
  BY DEF RefinementInv, CallBacked, OrderInv, DeletionInv, TypeOK
<1>1. CASE EditSpec
  <2>1. PICK y \in IgnoreDeletes : meta' = [meta EXCEPT !.gen = meta.gen + 1, !.ignoreDelete = y]
    BY <1>1 DEF EditSpec
  <2>2. meta'.uid = meta.uid /\ meta'.gen = meta.gen + 1 /\ meta'.deleting = meta.deleting
    BY <1>0, <2>1, EditedFields
  <2> QED
    BY <1>1, <2>2, EditStep DEF EditSpec
<1>2. CASE SetLabel
  <2>1. PICK y \in RetryLabels \ {meta.label} : meta' = [meta EXCEPT !.label = y]
    BY <1>2 DEF SetLabel
  <2>2. meta'.uid = meta.uid /\ meta'.gen = meta.gen /\ meta'.deleting = meta.deleting
    BY <1>0, <2>1, EditedFields
  <2> QED
    BY <1>2, <2>2, SameStatusStep DEF SetLabel
<1>3. CASE DeleteResource
  <2>1. meta.finalizer
    BY <1>0, <1>3 DEF DeleteResource, DeletionIsPlain, Held
  <2>2. meta' = [meta EXCEPT !.gen = meta.gen + 1, !.deleting = TRUE]
    BY <1>3, <2>1 DEF DeleteResource
  <2>3. meta'.uid = meta.uid /\ meta'.gen = meta.gen + 1 /\ meta'.deleting = TRUE
    BY <1>0, <2>2, EditedFields
  <2> QED
    BY <1>0, <1>3, <2>1, <2>3, DeleteStep DEF DeleteResource, TypeOK
<1>4. ASSUME NEW i \in PodId, DeletePod(i) PROVE AbstractStep
  <2>1. SameButPresence
    BY <1>0, <1>4, PresenceEdits DEF DeletePod
  <2> QED
    BY <1>0, <1>4, <2>1, PodsGoStep DEF DeletePod, SameButPresence
<1> QED
  BY <1>1, <1>2, <1>3, <1>4, CreateStep DEF Users

LEMMA PhaseStep ==
  ASSUME RefinementInv, TypeOK', Counted', NEW i \in PodId, NEW from, NEW to,
         SetPhase(i, from, to),
         \/ from = "Pending" /\ to = "Running"
         \/ from \in {"Pending", "Running"} /\ to \in {"Succeeded", "Failed"}
  PROVE  AbstractStep
<1>0. TypeOK /\ Counted /\ PodsAreTraced /\ pods \in [PodId -> Pod] /\ nextPod \in Nat \ {0}
  BY DEF RefinementInv, OrderInv, DeletionInv, TypeOK, DeletionSound
<1>1. /\ pods[i].there /\ pods[i].phase = from
      /\ UNCHANGED <<meta, status, nextPod>>
      /\ pods'[i].owner = pods[i].owner /\ pods'[i].gen = pods[i].gen
      /\ pods'[i].task = pods[i].task /\ pods'[i].phase = to /\ pods'[i].there
      /\ \A j \in PodId : j # i => pods'[j] = pods[j]
  BY <1>0 DEF SetPhase, Pod
<1>2. i \in 1..(nextPod - 1)
  <2>1. ~(i >= nextPod)
    BY <1>0, <1>1 DEF PodsAreTraced
  <2> QED
    BY <1>0, <2>1 DEF PodId
<1>3. 1..(nextPod - 1) \subseteq PodId
  BY <1>0, PodsAsRuns
<1>4. ResultOf(pods[i]) = "running"
  BY <1>1 DEF ResultOf
<1>5. CASE to = "Running"
  <2>1. ResultOf(pods'[i]) = "running"
    BY <1>1, <1>5 DEF ResultOf
  <2>2. RunOf(pods'[i]) = RunOf(pods[i])
    BY <1>1, <1>4, <2>1, RunFields
  <2>3. \A j \in 1..(nextPod - 1) : RunOf(pods'[j]) = RunOf(pods[j])
    BY <1>1, <1>3, <2>2
  <2>4. RunsNow' = RunsNow
    BY <1>1, <2>3, RunsStay
  <2> QED
    BY <1>1, <2>4, SameAbstract
<1>6. ASSUME NEW result \in {"succeeded", "failed"}, ResultOf(pods'[i]) = result
      PROVE  AbstractStep
  <2>1. RunOf(pods'[i]) = [RunOf(pods[i]) EXCEPT !.result = result]
    BY <1>1, <1>6, RunFields
  <2>2. \A j \in 1..(nextPod - 1) : j # i => RunOf(pods'[j]) = RunOf(pods[j])
    BY <1>1, <1>3
  <2>3. result \in W!Results \ {"running"}
    BY DEF W!Results
  <2> QED
    BY <1>0, <1>1, <1>2, <1>4, <2>1, <2>2, <2>3, EndStep
<1>7. CASE to \in {"Succeeded", "Failed"}
  <2>1. ResultOf(pods'[i]) \in {"succeeded", "failed"}
    BY <1>1, <1>7 DEF ResultOf
  <2> QED
    BY <1>6, <2>1
<1> QED
  BY <1>5, <1>7

LEMMA ClusterMap ==
  ASSUME RefinementInv, TypeOK', Counted', Cluster
  PROVE  AbstractStep
<1>0. TypeOK /\ Counted
  BY DEF RefinementInv, OrderInv, DeletionInv
<1>1. ASSUME NEW i \in PodId, PodStarts(i) \/ PodEnds(i) PROVE AbstractStep
  <2>1. \E from, to :
          /\ SetPhase(i, from, to)
          /\ \/ from = "Pending" /\ to = "Running"
             \/ from \in {"Pending", "Running"} /\ to \in {"Succeeded", "Failed"}
    BY <1>1 DEF PodStarts, PodEnds, PodSucceeds, PodFails
  <2> QED
    BY <2>1, PhaseStep
<1>2. ASSUME NEW i \in PodId, CollectPod(i) \/ InformerLists(i) PROVE AbstractStep
  <2>1. SameButPresence
    BY <1>0, <1>2, PresenceEdits DEF CollectPod, InformerLists
  <2> QED
    BY <1>0, <1>2, <2>1, PodsGoStep DEF CollectPod, InformerLists, SameButPresence
<1>3. CASE Resync \/ \E b \in bundles : CollectBundle(b)
  BY <1>3, SameStatusStep DEF Resync, CollectBundle
<1> QED
  BY <1>1, <1>2, <1>3 DEF Cluster

-----------------------------------------------------------------------------
(* What a call of Reconcile does.                                          *)
LEMMA WriteResult ==
  ASSUME NEW d, NEW next, NEW failed, NEW requeue,
         UpdateStatusWithRetry(d, next, failed, requeue)
  PROVE  status' = status \/ (status' = d /\ meta.uid # 0)
BY DEF UpdateStatusWithRetry

LEMMA KeptStageStep ==
  ASSUME UNCHANGED <<meta, pods, nextPod>>, NEW d,
         status' = status \/ (status' = d /\ meta.uid # 0),
         StageKey(d) = StageKey(status), d.phase # "completed", status.phase # "completed"
  PROVE  AbstractStep
<1>1. StageKey(status') = StageKey(status) /\ status'.phase # "completed"
  BY DEF StageKey
<1> QED
  BY <1>1, SamePodsSameRuns, SameAbstract

(* A stage with a task is not that of a completed resource.                *)
LEMMA NotCompleted ==
  ASSUME RefinementInv
  PROVE  /\ \A uid, s : Ready(uid, s) /\ s.stage.task # RunNil => s.phase # "completed"
         /\ Ready(meta.uid, status) /\ Ready(tfMeta.uid, tfStatus)
BY DEF RefinementInv, OrderInv, OrderSound, Ready

LEMMA CallInStage ==
  ASSUME DeletionIsPlain, RefinementInv, Initialized
  PROVE  /\ pc = "read" /\ tfMeta.finalizer /\ tfMeta.uid = meta.uid /\ tfStatus = status
         /\ prepared \in Status /\ prepared.stage = status.stage
         /\ StageKey(prepared) = StageKey(status)
         /\ Ready(meta.uid, prepared) /\ Backed(meta.uid, prepared)
<1>0. OrderInv
  BY DEF RefinementInv
<1>1. /\ pc = "read" /\ tfMeta.finalizer /\ tfStatus = status
      /\ prepared \in Status /\ prepared.stage = status.stage
      /\ StageKey(prepared) = StageKey(status)
      /\ Ready(tfMeta.uid, prepared) /\ Backed(tfMeta.uid, prepared)
  BY <1>0, ReadyCall, PreparedBacked
<1>2. tfMeta.uid = meta.uid
  BY <1>0, <1>1 DEF OrderInv, DeletionInv, DeletionSound, CallHoldsResource
<1> HIDE DEF prepared
<1> QED
  BY <1>1, <1>2

LEMMA UpdateFinalizerMap ==
  ASSUME RefinementInv, UpdateFinalizer
  PROVE  AbstractStep
<1>0. DeletionInv /\ TypeOK /\ Counted /\ Backed(meta.uid, status)
  BY DEF RefinementInv, CallBacked, OrderInv, DeletionInv
<1>1. UNCHANGED <<pods, nextPod>> /\ RunsNow' = RunsNow
  BY SamePodsSameRuns DEF UpdateFinalizer
<1>2. CASE \/ UNCHANGED <<meta, status>>
           \/ /\ UNCHANGED status /\ meta'.finalizer
              /\ meta'.uid = meta.uid /\ meta'.gen = meta.gen /\ meta'.deleting = meta.deleting
  BY <1>1, <1>2, SameStatusStep
<1>3. CASE /\ meta' = NoMeta /\ status' = EmptyStatus
           /\ meta.deleting /\ status.phase = "deleted" /\ meta.uid # 0
  <2>1. status.stage.task = RunNil
    BY <1>0, <1>3 DEF Backed
  <2>2. \A t \in Configured \cap DeleteTasks : Finished(meta.uid, status.stage.gen, t)
    BY <1>0, <1>3, <2>1 DEF Backed, DestroyRan
  <2> QED
    BY <1>0, <1>1, <1>3, <2>1, <2>2, GoneStep
<1> QED
  BY <1>0, <1>2, <1>3, UpdateFinalizerResult

LEMMA InitializeStatusMap ==
  ASSUME DeletionIsPlain, RefinementInv, InitializeStatus
  PROVE  AbstractStep
<1> DEFINE d == [tfStatus EXCEPT !.prefix = tfMeta.uid, !.phase = "initializing"]
<1>0. DeletionInv
  BY DEF RefinementInv, OrderInv
<1>1. /\ pc = "read" /\ tfStatus.phase # "deleted" /\ tfStatus.prefix = 0
      /\ UpdatedFinalizer(tfMeta, tfStatus) = tfMeta.finalizer
      /\ UpdateStatusWithRetry(d, "idle", "idle", FALSE)
      /\ UNCHANGED <<meta, pods, nextPod>>
  BY DEF InitializeStatus
<1>2. tfStatus \in Status /\ tfStatus = status
  BY <1>0, <1>1, PastFinalizer DEF DeletionInv, TypeOK, DeletionSound, CallHoldsResource
<1>3. status.phase # "completed"
  BY <1>1, <1>2, NotCompleted DEF Ready
<1>4. StageKey(d) = StageKey(status) /\ d.phase = "initializing"
  BY <1>2 DEF Status, StageKey
<1>5. status' = status \/ (status' = d /\ meta.uid # 0)
  BY <1>1, WriteResult
<1> HIDE DEF d
<1> QED
  BY <1>1, <1>3, <1>4, <1>5, KeptStageStep

LEMMA AddFirstStageMap ==
  ASSUME DeletionIsPlain, RefinementInv, AddFirstStage
  PROVE  AbstractStep
<1> DEFINE d == FirstStage(tfMeta, tfStatus)
<1>0. DeletionInv /\ TypeOK
  BY DEF RefinementInv, OrderInv, DeletionInv
<1>1. /\ Initialized /\ tfStatus.stage.gen = 0 /\ UNCHANGED <<meta, pods, nextPod>>
      /\ UpdateStatusWithRetry(d, "idle", "idle", TRUE)
  BY DEF AddFirstStage
<1>2. /\ tfStatus = status /\ tfMeta.uid = meta.uid /\ tfMeta \in Meta /\ tfStatus \in Status
      /\ tfMeta.gen > 0 /\ meta.gen \in Nat /\ tfMeta.gen <= meta.gen /\ ~meta.deleting
  BY <1>0, <1>1, CallInStage, WorkingCall
     DEF DeletionInv, DeletionSound, CallHoldsResource, TypeOK, Meta
<1>3. /\ d.stage.gen = tfMeta.gen /\ d.stage.task = "setup" /\ d.phase = tfStatus.phase
  BY <1>2 DEF FirstStage, NewStage, Status
<1>4. status.phase # "completed"
  BY <1>1, <1>2, NotCompleted DEF Ready
<1>5. status' = status \/ (status' = d /\ meta.uid # 0)
  BY <1>1, WriteResult
<1> HIDE DEF d
<1>6. CASE status' = status
  BY <1>1, <1>6, SameStatusStep
<1>7. CASE status' = d /\ meta.uid # 0
  <2>1. tfMeta.gen \in Nat /\ status.stage.gen \in Nat /\ status.stage.gen < tfMeta.gen
    BY <1>1, <1>2 DEF Meta
  <2> QED
    BY <1>1, <1>2, <1>3, <1>4, <1>7, <2>1, SamePodsSameRuns, NewGenerationStep
<1> QED
  BY <1>5, <1>6, <1>7

LEMMA SetNewStageMap ==
  ASSUME DeletionIsPlain, RefinementInv, SetNewStage
  PROVE  AbstractStep
<1>0. OrderInv /\ DeletionInv /\ TypeOK /\ Counted
  BY DEF RefinementInv, OrderInv, DeletionInv
<1>1. PICK n \in newStage :
        /\ ~IsRestart(n)
        /\ UpdateStatusWithRetry(n, "idle", "idle", FALSE)
  BY DEF SetNewStage
<1>2. Initialized /\ UNCHANGED <<meta, pods, nextPod>>
  BY DEF SetNewStage
<1>3. /\ ~IsRetry(tfMeta, tfStatus) /\ tfMeta \in Meta /\ meta \in Meta
      /\ n \in CheckSetNewStage(tfMeta, prepared, FALSE, PodMissed(prepared))
  BY <1>0, <1>1, NoRetries DEF TypeOK, newStage, CheckSetNewStage
<1>4. /\ pc = "read" /\ tfMeta.finalizer /\ tfMeta.uid = meta.uid /\ tfStatus = status
      /\ prepared \in Status /\ prepared.stage = status.stage
      /\ Ready(meta.uid, prepared) /\ Backed(meta.uid, prepared)
      /\ Sound(tfMeta, prepared) /\ (tfMeta.deleting => IsDeleting(prepared))
      /\ Ready(tfMeta.uid, n)
  BY <1>0, <1>1, <1>2, CallInStage, WorkingCall, ReadyNewStage
<1> HIDE DEF prepared
<1>5. status' = status \/ (status' = n /\ meta.uid # 0)
  BY <1>1, WriteResult
<1>6. CASE status' = status
  BY <1>2, <1>6, SameStatusStep
<1>7. ASSUME status' = n, meta.uid # 0, n = GenerationStage(tfMeta, prepared),
             prepared.stage.gen # tfMeta.gen
      PROVE  AbstractStep
  <2>1. /\ n.stage.gen = tfMeta.gen /\ n.phase # "completed"
        /\ \/ n.stage.task = "setup" /\ ~IsDeleting(prepared)
           \/ n.stage.task = "setup-delete" /\ IsDeleting(prepared)
    BY <1>4, <1>7 DEF GenerationStage, NewStage, Status, IsDeleting, DeletePhases
  <2>2. /\ tfMeta.gen \in Nat /\ meta.gen \in Nat /\ status.stage.gen \in Nat
        /\ status.stage.gen < tfMeta.gen /\ tfMeta.gen <= meta.gen
    <3>1. status.stage.gen \in Nat /\ status.stage.gen <= tfMeta.gen
      BY <1>0, <1>4 DEF Sound, TypeOK, Status, Stage
    <3> QED
      BY <1>0, <1>3, <1>4, <1>7, <3>1
         DEF Meta, DeletionInv, DeletionSound, CallHoldsResource
  <2>3. /\ ~IsDeleting(prepared) => ~(meta.deleting /\ tfMeta.gen = meta.gen)
        /\ IsDeleting(prepared) => meta.deleting
    BY <1>0, <1>4 DEF DeletionInv, DeletionSound, CallHoldsResource, Sound, IsDeleting
  <2> QED
    BY <1>2, <1>7, <2>1, <2>2, <2>3, SamePodsSameRuns, NewGenerationStep
<1>8. ASSUME status' = n, meta.uid # 0, n = CompletedStage(tfMeta, prepared),
             prepared.stage.gen = tfMeta.gen,
             prepared.stage.state = "complete", prepared.stage.task # RunNil
      PROVE  AbstractStep
  <2>1. /\ n.stage.gen = status.stage.gen /\ n.phase = prepared.phase
        /\ n.stage.task = NextTask(status.stage.task, Configured)
    BY <1>4, <1>8 DEF CompletedStage, NewStage, Status
  <2>2. Recorded(meta.uid, status, "Succeeded") /\ status.stage.task # RunNil
    BY <1>4, <1>8 DEF Backed, Recorded
  <2>3. W!StageIs("succeeded")
    BY <1>0, <2>2, RecordedStageIs
  <2>4. status.phase # "completed" /\ n.phase # "completed"
    BY <1>4, <1>8, <2>1, <2>2, NotCompleted
  <2> QED
    BY <1>2, <1>8, <2>1, <2>2, <2>3, <2>4, SamePodsSameRuns, AdvanceStep
<1>9. \/ n = GenerationStage(tfMeta, prepared) /\ prepared.stage.gen # tfMeta.gen
      \/ /\ n = CompletedStage(tfMeta, prepared) /\ prepared.stage.gen = tfMeta.gen
         /\ prepared.stage.state = "complete" /\ prepared.stage.task # RunNil
      \/ n = RestartStage(tfMeta, prepared)
  BY <1>3 DEF CheckSetNewStage, IsNewGeneration, IsFailedApply
<1>10. n # RestartStage(tfMeta, prepared)
  BY <1>1, <1>4 DEF RestartStage, NewStage, Status, IsRestart
<1> QED
  BY <1>5, <1>6, <1>7, <1>8, <1>9, <1>10

LEMMA RestartWorkflowMap ==
  ASSUME RefinementInv, RestartWorkflow
  PROVE  AbstractStep
<1>0. TypeOK /\ Counted /\ Backed(meta.uid, status) /\ RestartsStage
  BY DEF RefinementInv, CallBacked, OrderInv, DeletionInv
<1>1. /\ pc = "restart" /\ UNCHANGED <<meta, pods, nextPod>>
      /\ status' = status \/ (status' = tfStatus /\ meta.uid # 0)
  BY WriteResult DEF RestartWorkflow
<1>2. CASE status' = status
  BY <1>1, <1>2, SameStatusStep
<1>3. CASE status' = tfStatus /\ meta.uid # 0
  <2>1. /\ status.stage.task \in {"apply", "apply-delete"} /\ status.stage.state = "failed"
        /\ tfStatus.stage.gen = status.stage.gen
        /\ tfStatus.stage.task = NextTask(PlanStart(status.stage.task), Configured)
    BY <1>0, <1>1 DEF RestartsStage
  <2>2. status.stage.task # RunNil /\ tfStatus.stage.task # RunNil
    BY <2>1, RestartIsEarlier, NilIsNoTask, ApplyIsATask DEF Configured, PlanStart
  <2>3. W!StageIs("failed")
    BY <1>0, <2>1, <2>2, RecordedStageIs DEF Backed
  <2>4. status.phase # "completed" /\ tfStatus.phase # "completed"
    BY <2>2, NotCompleted
  <2> QED
    BY <1>1, <1>3, <2>1, <2>3, <2>4, SamePodsSameRuns, ReplanStep
<1> QED
  BY <1>1, <1>2, <1>3

LEMMA EndWorkflowMap ==
  ASSUME DeletionIsPlain, RefinementInv, EndWorkflow
  PROVE  AbstractStep
<1> DEFINE d == [prepared EXCEPT !.phase = IF @ = "running" THEN "completed" ELSE "deleted"]
<1>0. OrderInv /\ DeletionInv /\ TypeOK /\ Counted
  BY DEF RefinementInv, OrderInv, DeletionInv
<1>1. /\ Initialized /\ tfStatus.stage.gen # 0 /\ prepared.stage.task = RunNil
      /\ prepared.phase \in {"running", "deleting"}
      /\ UNCHANGED <<meta, pods, nextPod>>
      /\ UpdateStatusWithRetry(d, "idle", "idle", TRUE)
  BY DEF EndWorkflow, InStage
<1>2. /\ tfStatus = status /\ prepared \in Status /\ prepared.stage = status.stage
      /\ StageKey(prepared) = StageKey(status)
      /\ Ready(meta.uid, prepared)
  BY <1>1, CallInStage
<1>3. status.phase # "completed"
  <2>1. prepared = MarkedDeletion(tfMeta, tfStatus)
    BY <1>0, NoRetries DEF prepared, Prepared, TypeOK
  <2> HIDE DEF prepared
  <2>2. prepared.phase \in {"initializing-delete", tfStatus.phase}
    BY <1>0, <2>1 DEF MarkedDeletion, Status, TypeOK
  <2> QED
    BY <1>1, <1>2, <2>2
<1>4. status' = status \/ (status' = d /\ meta.uid # 0)
  BY <1>1, WriteResult
<1> HIDE DEF prepared
<1>5. /\ d.stage = prepared.stage
      /\ d.phase = IF prepared.phase = "running" THEN "completed" ELSE "deleted"
  BY <1>2 DEF Status
<1> HIDE DEF d
<1>6. StageKey(d) = StageKey(status)
  BY <1>2, <1>5 DEF StageKey
<1>7. CASE prepared.phase = "running"
  <2>1. \A t \in Configured \cap CreateTasks : Finished(meta.uid, status.stage.gen, t)
    BY <1>1, <1>2, <1>7 DEF Ready, IsDeleting, DeletePhases
  <2>2. CASE status' = status
    BY <1>1, <2>2, SameStatusStep
  <2>3. CASE status' = d
    BY <1>0, <1>1, <1>2, <1>5, <1>6, <1>7, <2>1, <2>3, SamePodsSameRuns, CompleteStep
  <2> QED
    BY <1>4, <2>2, <2>3
<1>8. CASE prepared.phase = "deleting"
  BY <1>1, <1>3, <1>4, <1>5, <1>6, <1>8, KeptStageStep
<1> QED
  BY <1>1, <1>7, <1>8

LEMMA ResetStageMap ==
  ASSUME DeletionIsPlain, RefinementInv, ResetStage
  PROVE  AbstractStep
<1> DEFINE d == [prepared EXCEPT !.stage.state = "initializing"]
<1>1. /\ Initialized /\ prepared.stage.task # RunNil /\ UNCHANGED <<meta, pods, nextPod>>
      /\ UpdateStatusWithRetry(d, "idle", "idle", TRUE)
  BY DEF ResetStage, InTask, InStage
<1>2. /\ prepared \in Status /\ StageKey(prepared) = StageKey(status)
      /\ Ready(meta.uid, prepared) /\ prepared.stage = status.stage
  BY <1>1, CallInStage
<1> HIDE DEF prepared
<1>3. StageKey(d) = StageKey(prepared) /\ d.phase = prepared.phase
  BY <1>2 DEF Status, Stage, StageKey
<1>4. prepared.phase # "completed" /\ status.phase # "completed"
  BY <1>1, <1>2, NotCompleted
<1>5. status' = status \/ (status' = d /\ meta.uid # 0)
  BY <1>1, WriteResult
<1> HIDE DEF d
<1> QED
  BY <1>1, <1>2, <1>3, <1>4, <1>5, KeptStageStep

LEMMA FoundPodMap ==
  ASSUME DeletionIsPlain, RefinementInv, NEW i \in PodId, FoundPod(i)
  PROVE  AbstractStep
<1> DEFINE d == [prepared EXCEPT !.stage.state = StageStateOf(pods[i].phase),
                                 !.stage.podName = i]
           next == IF pods[i].phase = "Succeeded" /\ ~KeepPods THEN "remove" ELSE "idle"
<1>1. /\ Initialized /\ prepared.stage.task # RunNil /\ UNCHANGED <<meta, pods, nextPod>>
      /\ UpdateStatusWithRetry(d, next, "idle", TRUE)
  BY DEF FoundPod, InTask, InStage
<1>2. /\ prepared \in Status /\ StageKey(prepared) = StageKey(status)
      /\ Ready(meta.uid, prepared) /\ prepared.stage = status.stage
  BY <1>1, CallInStage
<1>3. status' = status \/ (status' = d /\ meta.uid # 0)
  BY <1>1, WriteResult
<1> HIDE DEF prepared
<1>4. StageKey(d) = StageKey(prepared) /\ d.phase = prepared.phase
  <2>1. d.stage.gen = prepared.stage.gen /\ d.stage.task = prepared.stage.task
    BY <1>2 DEF Status, Stage
  <2>2. d.phase = prepared.phase
    BY <1>2 DEF Status
  <2> QED
    BY <2>1, <2>2 DEF StageKey
<1>5. prepared.phase # "completed" /\ status.phase # "completed"
  BY <1>1, <1>2, NotCompleted
<1> HIDE DEF d
<1> QED
  BY <1>1, <1>2, <1>3, <1>4, <1>5, KeptStageStep

LEMMA SaveStartedMap ==
  ASSUME RefinementInv, SaveStarted
  PROVE  AbstractStep
<1>1. /\ pc = "started" /\ UNCHANGED <<meta, pods, nextPod>>
      /\ status' = status \/ (status' = tfStatus /\ meta.uid # 0)
  BY WriteResult DEF SaveStarted
<1>2. StageKey(tfStatus) = StageKey(status) /\ tfStatus.stage.task # RunNil
  BY <1>1 DEF RefinementInv, CallBacked, CallInTask, OrderInv, OrderSound, CallKnows
<1>3. tfStatus.phase # "completed" /\ status.phase # "completed"
  BY <1>2, NotCompleted DEF StageKey
<1> QED
  BY <1>1, <1>2, <1>3, KeptStageStep

LEMMA CreatePluginJobMap ==
  ASSUME RefinementInv, NEW p \in PluginNames, CreatePluginJob(p)
  PROVE  AbstractStep
<1> DEFINE d == [tfStatus EXCEPT !.plugins = @ \cup {p}]
<1>1. /\ pc = "plugins" /\ UNCHANGED <<meta, pods, nextPod>>
      /\ UpdateStatusWithRetry(d, AfterRun, AfterRun, FALSE)
  BY DEF CreatePluginJob
<1>2. /\ StageKey(tfStatus) = StageKey(status) /\ tfStatus.stage.task # RunNil
      /\ tfStatus \in Status
  BY <1>1 DEF RefinementInv, CallBacked, CallInTask, OrderInv, OrderSound, CallKnows,
              DeletionInv, TypeOK
<1>3. tfStatus.phase # "completed" /\ status.phase # "completed"
  BY <1>2, NotCompleted DEF StageKey
<1>4. StageKey(d) = StageKey(tfStatus) /\ d.phase = tfStatus.phase
  BY <1>2 DEF Status, StageKey
<1>5. status' = status \/ (status' = d /\ meta.uid # 0)
  BY <1>1, WriteResult
<1> HIDE DEF d
<1> QED
  BY <1>1, <1>2, <1>3, <1>4, <1>5, KeptStageStep

LEMMA PodRemovalsMap ==
  ASSUME RefinementInv, TypeOK', Counted', RemoveOldPlan \/ RemovePod
  PROVE  AbstractStep
<1>0. TypeOK /\ Counted
  BY DEF RefinementInv, OrderInv, DeletionInv
<1>1. UNCHANGED <<meta, status, nextPod>>
  BY DEF RemoveOldPlan, RemovePod
<1>2. CASE RemoveOldPlan
  <2> DEFINE gone == [j \in PodId |-> j \notin OldPlanPods(tfMeta, prepared)]
  <2>1. UNCHANGED pods
        \/ pods' = [j \in PodId |-> [pods[j] EXCEPT !.there = @ /\ gone[j]]]
    BY <1>2 DEF RemoveOldPlan
  <2> HIDE DEF gone
  <2> QED
    BY <1>0, <1>1, <2>1, PresenceEdits, PodsGoStep DEF SameButPresence
<1>3. CASE RemovePod
  <2> DEFINE gone == [j \in PodId |-> j # tfStatus.stage.podName]
  <2>1. UNCHANGED pods
        \/ pods' = [j \in PodId |-> [pods[j] EXCEPT !.there = @ /\ gone[j]]]
    BY <1>3 DEF RemovePod
  <2> HIDE DEF gone
  <2> QED
    BY <1>0, <1>1, <2>1, PresenceEdits, PodsGoStep DEF SameButPresence
<1> QED
  BY <1>2, <1>3

LEMMA ReconcileMap ==
  ASSUME DeletionIsPlain, RefinementInv, TypeOK', Counted', Reconcile
  PROVE  AbstractStep
<1>1. CASE \/ GetResource \/ ResourceNotFound \/ LookForPod \/ NothingToDo \/ ListFails
           \/ SetupFails
  <2>1. UNCHANGED <<meta, status, pods, nextPod>>
    BY <1>1 DEF GetResource, ResourceNotFound, LookForPod, NothingToDo, ListFails, SetupFails,
      cluster
  <2> QED
    BY <2>1, SameStatusStep
<1> QED
  BY <1>1, UpdateFinalizerMap, InitializeStatusMap, AddFirstStageMap, SetNewStageMap,
     PodRemovalsMap, RestartWorkflowMap, EndWorkflowMap, ResetStageMap, StartStep,
     SaveStartedMap, CreatePluginJobMap, FoundPodMap
     DEF Reconcile

LEMMA StepsAreAbstract ==
  ASSUME DeletionIsPlain, RefinementInv, RefinementInv', [Next]_vars
  PROVE  AbstractStep
<1>1. TypeOK' /\ Counted'
  BY DEF RefinementInv, OrderInv, DeletionInv
<1>2. CASE Crash \/ UNCHANGED vars
  <2>1. UNCHANGED <<meta, status, pods, nextPod>>
    BY <1>2 DEF Crash, vars, cluster
  <2> QED
    BY <2>1, SameStatusStep
<1> QED
  BY <1>1, <1>2, UsersMap, ClusterMap, ReconcileMap DEF Next

-----------------------------------------------------------------------------
LEMMA InitIsAbstract == Init => W!Init
<1> SUFFICES ASSUME Init PROVE W!Init
  OBVIOUS
<1>1. meta = NoMeta /\ status = EmptyStatus /\ nextPod = 1
  BY DEF Init
<1>2. RunsNow = <<>>
  <2>1. RunsNow \in [1..0 -> W!Run]
    BY <1>1 DEF RunsNow
  <2>2. RunsNow \in Seq(W!Run) /\ Len(RunsNow) = 0
    BY <2>1, SeqOfFunction
  <2> HIDE DEF RunsNow
  <2> QED
    BY <2>2, EmptySeq
<1>3. [uid |-> meta.uid, gen |-> meta.gen, deleting |-> meta.deleting] = W!NoResource
  BY <1>1 DEF W!NoResource, NoMeta
<1>4. [gen |-> status.stage.gen, task |-> status.stage.task] = W!NoStage
  BY <1>1, SameTasks DEF W!NoStage, EmptyStatus, EmptyStage
<1>5. (status.phase = "completed") = FALSE
  BY <1>1, EmptySound
<1> QED
  BY <1>2, <1>3, <1>4, <1>5 DEF W!Init, RunsNow

(***************************************************************************)
(* The reconciler, its crashes and lost writes included, does nothing that *)
(* Workflow does not allow: one stage after the other, one run of a stage  *)
(* at a time, a new plan after a failed apply, and no way for a deleted    *)
(* resource but through its destroy workflow.  Without LooksAreSound the   *)
(* call runs a failed apply again on the plan it used, and a call that     *)
(* reads the old status after a crash starts the workflow over beside it.  *)
(***************************************************************************)
THEOREM ControllerImplementsWorkflow ==
  ASSUME DeletionIsPlain, PodLag = FALSE, LooksAreSound PROVE Spec => ImplementsWorkflow
<1>1. RefinementInv /\ RefinementInv' /\ [Next]_vars => [W!Next]_W!workflowVars
  BY StepsAreAbstract DEF AbstractStep
<1> QED
  BY <1>1, InitIsAbstract, RefinementInvariant, PTL DEF Spec, ImplementsWorkflow, W!Spec

-----------------------------------------------------------------------------
(***************************************************************************)
(* The plan an apply acts on.  A stage before its plan has no plan left    *)
(* that was applied; one past its plan has seen it succeed, and between    *)
(* the plan and the apply the last plan is fresh.  An apply keeps a fresh  *)
(* plan until its pod starts; afterwards that pod is there, or its end is  *)
(* recorded, and either way no second one starts for the same plan.        *)
(***************************************************************************)
PlanFor(task) == IF task \in DeleteTasks THEN "plan-delete" ELSE "plan"
ApplyFor(task) == IF task \in DeleteTasks THEN "apply-delete" ELSE "apply"

FreshPlan(uid, gen, task, now) ==
  \E j \in PodId :
    /\ j < now /\ IsPodOf(j, uid, gen, PlanFor(task)) /\ pods[j].phase = "Succeeded"
    /\ \A k \in PodId : k >= j /\ k < now => ~IsPodOf(k, uid, gen, ApplyFor(task))

PlansUnused(uid, gen, task) ==
  \A i, k \in PodId :
    pods[i].there /\ IsPodOf(i, uid, gen, PlanFor(task)) /\ k > i
      => ~IsPodOf(k, uid, gen, ApplyFor(task))

PlansSucceeded(uid, gen, task) ==
  \A i \in PodId :
    pods[i].there /\ IsPodOf(i, uid, gen, PlanFor(task)) => pods[i].phase = "Succeeded"

LastIsShown(uid, s) ==
  \E i \in PodId :
    /\ IsPodOf(i, uid, s.stage.gen, s.stage.task)
    /\ \A j \in PodId : j > i => ~IsPodOf(j, uid, s.stage.gen, s.stage.task)
    /\ pods[i].there \/ s.stage.state \in {"complete", "failed"}

IsPlanned(s) ==
  \/ s.stage.task = PlanFor(s.stage.task) /\ s.stage.state = "complete"
  \/ /\ Before(PlanFor(s.stage.task), s.stage.task)
     /\ Before(s.stage.task, ApplyFor(s.stage.task))

PlanIsReady(uid, s) ==
  LET gen == s.stage.gen
      task == s.stage.task
  IN  task # RunNil =>
        /\ ~Before(PlanFor(task), task) => PlansUnused(uid, gen, task)
        /\ Before(PlanFor(task), task) => PlansSucceeded(uid, gen, task)
        /\ IsPlanned(s) => FreshPlan(uid, gen, task, nextPod)
        /\ task = ApplyFor(task) => FreshPlan(uid, gen, task, nextPod) \/ LastIsShown(uid, s)

(* No pod is of a later generation than the stage.                         *)
NoLaterPod(uid, gen) == uid # 0 => \A i \in PodId : pods[i].owner = uid => pods[i].gen <= gen

(* What a call in the middle of a stage knows of the state it writes.      *)
CallPlans ==
  /\ pc = "restart" =>
       /\ tfStatus.stage.state = "initializing"
       /\ \A i \in PodId : pods[i].there =>
            ~IsPodOf(i, meta.uid, status.stage.gen, PlanFor(status.stage.task))
  /\ pc = "remove" => status.stage.state = "complete"
  /\ pc \in {"started", "plugins"} =>
       /\ status.stage.state # "complete" /\ tfStatus.stage.state # "complete"
       /\ status.stage.task = ApplyFor(status.stage.task) /\ status.stage.state = "failed"
            => tfStatus.stage.state = "failed"

PlanInv ==
  /\ RefinementInv
  /\ PlanIsReady(meta.uid, status) /\ NoLaterPod(meta.uid, status.stage.gen)
  /\ CallPlans /\ ApplyHasFreshPlan

(***************************************************************************)
(* A failed delete of the old plan's pod would leave it to be found again. *)
(* A user may delete the pod of an apply only once its failure is recorded *)
(* and not after a call has found it: that call would start another apply  *)
(* on the plan that was used, and so would one whose look fails.           *)
(***************************************************************************)
PlansAreKept ==
  /\ EvictRecordedOnly = TRUE /\ LooksAreSound
  /\ "delete" \notin Faults /\ PodLag = FALSE

-----------------------------------------------------------------------------
(* The plan and the apply of a task's workflow.                            *)
LEMMA PlanTasks ==
  ASSUME NEW t \in TaskName
  PROVE  /\ PlanFor(t) \in Configured \cap WorkflowOf(t) /\ PlanFor(t) \in TaskName
         /\ ApplyFor(t) \in {"apply", "apply-delete"} /\ ApplyFor(t) \in TaskName
         /\ Before(PlanFor(t), ApplyFor(t)) /\ PlanFor(t) # ApplyFor(t)
<1>1. /\ "plan" \in Configured /\ "plan" \in CreateTasks /\ Before("plan", "apply")
      /\ "apply" \in CreateTasks
  BY CreateTaskIDs DEF Configured, GetConfiguredTasks, AlwaysConfigured, Before
<1>2. /\ "plan-delete" \in Configured /\ "plan-delete" \in DeleteTasks
      /\ Before("plan-delete", "apply-delete") /\ "apply-delete" \in DeleteTasks
  BY DeleteTaskIDs DEF Configured, GetConfiguredTasks, AlwaysConfigured, Before
<1>3. CASE t \in DeleteTasks
  <2>1. PlanFor(t) = "plan-delete" /\ ApplyFor(t) = "apply-delete" /\ WorkflowOf(t) = DeleteTasks
    BY <1>3, WorkflowsOfTasks DEF PlanFor, ApplyFor
  <2> QED
    BY <1>2, <2>1 DEF TaskName
<1>4. CASE t \notin DeleteTasks
  <2>1. PlanFor(t) = "plan" /\ ApplyFor(t) = "apply" /\ WorkflowOf(t) = CreateTasks
    BY <1>4, WorkflowsOfTasks DEF PlanFor, ApplyFor, TaskName
  <2> QED
    BY <1>1, <2>1 DEF TaskName
<1> QED
  BY <1>3, <1>4

LEMMA SameWorkflow ==
  ASSUME NEW t \in TaskName, NEW u \in TaskName, WorkflowOf(u) = WorkflowOf(t)
  PROVE  PlanFor(u) = PlanFor(t) /\ ApplyFor(u) = ApplyFor(t)
<1>1. t \in DeleteTasks <=> u \in DeleteTasks
  BY WorkflowsOfTasks DEF TaskName
<1> QED
  BY <1>1 DEF PlanFor, ApplyFor

LEMMA BeforeIsTransitive ==
  ASSUME NEW t \in TaskName, NEW u \in TaskName, NEW v \in TaskName, Before(t, u), Before(u, v)
  PROVE  Before(t, v)
BY TaskIDs DEF Before

(* The next task of a workflow is past the plan only if this one is at it  *)
(* or past it.                                                             *)
LEMMA NextTaskAndPlan ==
  ASSUME NEW t \in TaskName, NEW n, n = NextTask(t, Configured), n # RunNil
  PROVE  /\ n \in TaskName /\ Before(t, n)
         /\ PlanFor(n) = PlanFor(t) /\ ApplyFor(n) = ApplyFor(t)
         /\ Before(PlanFor(t), n) => t = PlanFor(t) \/ Before(PlanFor(t), t)
<1>1. n \in LaterTasks(t, Configured)
  BY NextTaskResult
<1>2. n \in TaskName /\ Before(t, n) /\ WorkflowOf(n) = WorkflowOf(t)
  BY <1>1, WorkflowOfLater
<1>3. ASSUME Before(PlanFor(t), n)
      PROVE  t = PlanFor(t) \/ Before(PlanFor(t), t)
  BY <1>3, PlanTasks, ConfiguredTasks, NothingIsSkipped
<1> QED
  BY <1>2, <1>3, SameWorkflow

LEMMA SetupBeforePlan ==
  ASSUME NEW t \in {"setup", "setup-delete"}
  PROVE  /\ t \in TaskName /\ t # RunNil
         /\ t # PlanFor(t) /\ t # ApplyFor(t) /\ ~Before(PlanFor(t), t)
<1>1. t \in TaskName
  BY CreateTaskIDs, DeleteTaskIDs DEF TaskName
<1> QED
  BY <1>1, PlanTasks, SetupIsFirst, NilIsNoTask DEF PlanFor, ApplyFor

-----------------------------------------------------------------------------
(* The decisions.                                                          *)
LEMMA GenerationIsPlanned ==
  ASSUME NEW uid, NEW n, n.stage.task \in {"setup", "setup-delete"},
         \A i \in PodId : ~(pods[i].owner = uid /\ pods[i].gen = n.stage.gen)
  PROVE  PlanIsReady(uid, n)
<1> DEFINE t == n.stage.task
<1>1. /\ t \in TaskName /\ t # PlanFor(t) /\ t # ApplyFor(t) /\ ~Before(PlanFor(t), t)
  BY SetupBeforePlan
<1>2. PlansUnused(uid, n.stage.gen, t)
  BY DEF PlansUnused, IsPodOf
<1> QED
  BY <1>1, <1>2 DEF PlanIsReady, IsPlanned

LEMMA NextTaskIsPlanned ==
  ASSUME NEW uid, NEW s, NEW n, PlanIsReady(uid, s), Backed(uid, s), LastIsThere,
         s.stage.task \in TaskName, s.stage.state = "complete",
         n.stage.gen = s.stage.gen, n.stage.task = NextTask(s.stage.task, Configured),
         n.stage.task # RunNil => n.stage.state # "complete"
  PROVE  PlanIsReady(uid, n)
<1> DEFINE gen == s.stage.gen
           t == s.stage.task
           u == n.stage.task
<1> SUFFICES ASSUME u # RunNil PROVE PlanIsReady(uid, n)
  BY DEF PlanIsReady
<1>1. /\ u \in TaskName /\ Before(t, u) /\ t \in TaskName /\ t # RunNil
      /\ PlanFor(u) = PlanFor(t) /\ ApplyFor(u) = ApplyFor(t)
      /\ Before(PlanFor(t), u) => t = PlanFor(t) \/ Before(PlanFor(t), t)
  BY NextTaskAndPlan, NilIsNoTask
<1>2. /\ PlanFor(t) \in TaskName /\ ApplyFor(t) \in TaskName
      /\ Before(PlanFor(t), ApplyFor(t))
  BY PlanTasks
<1>3. /\ ~Before(PlanFor(t), t) => PlansUnused(uid, gen, t)
      /\ Before(PlanFor(t), t) => PlansSucceeded(uid, gen, t)
      /\ IsPlanned(s) => FreshPlan(uid, gen, t, nextPod)
  BY <1>1 DEF PlanIsReady
<1>4. ASSUME ~Before(PlanFor(u), u) PROVE PlansUnused(uid, n.stage.gen, u)
  <2>1. ~Before(PlanFor(t), t)
    BY <1>1, <1>2, <1>4, BeforeIsTransitive
  <2> QED
    BY <1>1, <1>3, <2>1 DEF PlansUnused
<1>5. ASSUME Before(PlanFor(u), u) PROVE PlansSucceeded(uid, n.stage.gen, u)
  <2>1. CASE Before(PlanFor(t), t)
    BY <1>1, <1>3, <2>1 DEF PlansSucceeded
  <2>2. CASE t = PlanFor(t)
    <3>1. Recorded(uid, s, "Succeeded")
      BY <1>1 DEF Backed
    <3>2. ASSUME NEW i \in PodId, pods[i].there, IsPodOf(i, uid, gen, t)
          PROVE  i = s.stage.podName
      <4>1. /\ s.stage.podName \in PodId /\ IsPodOf(s.stage.podName, uid, gen, t)
            /\ ~(i > s.stage.podName) /\ i \in Nat /\ s.stage.podName \in Nat
        BY <3>1, <3>2, PodNumbers DEF Recorded
      <4>2. ~(s.stage.podName > i)
        BY <3>2, <4>1 DEF LastIsThere, IsPodOf
      <4> QED
        BY <4>1, <4>2
    <3> QED
      BY <1>1, <2>2, <3>1, <3>2 DEF PlansSucceeded, Recorded
  <2> QED
    BY <1>1, <1>5, <2>1, <2>2
<1>6. ASSUME IsPlanned(n) \/ u = ApplyFor(u)
      PROVE  FreshPlan(uid, n.stage.gen, u, nextPod)
  <2>1. Before(PlanFor(u), u) /\ (u = ApplyFor(u) \/ Before(u, ApplyFor(u)))
    BY <1>1, <1>2, <1>6 DEF IsPlanned
  <2>2. Before(t, ApplyFor(t))
    BY <1>1, <1>2, <2>1, BeforeIsTransitive
  <2>3. IsPlanned(s)
    BY <1>1, <2>1, <2>2 DEF IsPlanned
  <2> QED
    BY <1>1, <1>3, <2>3 DEF FreshPlan
<1> QED
  BY <1>4, <1>5, <1>6 DEF PlanIsReady

LEMMA RestartIsPlanned ==
  ASSUME NEW uid, NEW n, NEW t \in {"apply", "apply-delete"},
         n.stage.task = NextTask(PlanStart(t), Configured), n.stage.state = "initializing",
         \A i \in PodId : pods[i].there => ~IsPodOf(i, uid, n.stage.gen, PlanFor(t))
  PROVE  PlanIsReady(uid, n)
<1> DEFINE u == n.stage.task
           plan == IF t = "apply-delete" THEN "plan-delete" ELSE "plan"
<1>1. /\ u \in TaskName /\ WorkflowOf(u) = WorkflowOf(t)
      /\ u = plan \/ Before(u, plan)
      /\ Before(u, t)
  BY RestartIsEarlier DEF PlanStart, Configured
<1>2. t \in TaskName /\ ApplyFor(t) = t /\ PlanFor(t) = plan
  BY CreateTaskIDs, DeleteTaskIDs, ListsAreInjective DEF TaskName, PlanFor, ApplyFor
<1>3. PlanFor(u) = plan /\ ApplyFor(u) = t /\ plan \in TaskName
  BY <1>1, <1>2, SameWorkflow, PlanTasks
<1>4. ~Before(plan, u) /\ u # t
  BY <1>1, <1>2, <1>3, BeforeIsTotal
<1>5. PlansUnused(uid, n.stage.gen, u)
  BY <1>2, <1>3 DEF PlansUnused
<1> QED
  BY <1>3, <1>4, <1>5 DEF PlanIsReady, IsPlanned

(* What a call decides: a stage of no earlier generation, and unless it is *)
(* a restart, which takes the old plan away first, one that is ready.      *)
LEMMA NewStageIsPlanned ==
  ASSUME NEW uid, NEW m \in Meta, NEW s \in Status, NEW podGone \in BOOLEAN, uid # 0,
         PlanIsReady(uid, s), Backed(uid, s), LastIsThere, TypeOK,
         s.stage.gen <= m.gen, NoLaterPod(uid, s.stage.gen),
         NEW n \in CheckSetNewStage(m, s, FALSE, podGone)
  PROVE  /\ s.stage.gen <= n.stage.gen
         /\ IsRestart(n) => n.stage.state = "initializing" /\ n.stage.gen = m.gen
         /\ ~IsRestart(n) => PlanIsReady(uid, n)
<1>0. m.gen \in Nat /\ s.stage.gen \in Nat
  BY DEF Meta, Status, Stage
<1>1. ASSUME n = GenerationStage(m, s), s.stage.gen # m.gen
      PROVE  n.stage.gen = m.gen /\ ~IsRestart(n) /\ PlanIsReady(uid, n)
  <2>1. /\ n.stage.task \in {"setup", "setup-delete"} /\ n.stage.gen = m.gen
        /\ n.stage.reason \in {"GENERATION_CHANGE", "TF_RESOURCE_DELETED"}
    BY <1>1 DEF GenerationStage, NewStage, Status
  <2>2. \A i \in PodId : ~(pods[i].owner = uid /\ pods[i].gen = n.stage.gen)
    BY <1>0, <1>1, <2>1 DEF NoLaterPod, TypeOK, Pod
  <2> QED
    BY <2>1, <2>2, GenerationIsPlanned DEF IsRestart
<1>2. ASSUME n = CompletedStage(m, s), s.stage.gen = m.gen, s.stage.state = "complete",
             s.stage.task # RunNil
      PROVE  n.stage.gen = m.gen /\ ~IsRestart(n) /\ PlanIsReady(uid, n)
  <2>1. /\ n.stage.gen = m.gen /\ n.stage.task = NextTask(s.stage.task, Configured)
        /\ n.stage.reason = "COMPLETED"
        /\ n.stage.task # RunNil => n.stage.state = "initializing"
    BY <1>2 DEF CompletedStage, NewStage, Status
  <2>2. s.stage.task \in TaskName
    BY <1>2 DEF Status, Stage
  <2> QED
    BY <1>2, <2>1, <2>2, NextTaskIsPlanned DEF IsRestart
<1>3. ASSUME n = RestartStage(m, s)
      PROVE  n.stage.gen = m.gen /\ IsRestart(n) /\ n.stage.state = "initializing"
  BY <1>3 DEF RestartStage, NewStage, Status, IsRestart
<1>4. \/ n = GenerationStage(m, s) /\ s.stage.gen # m.gen
      \/ /\ n = CompletedStage(m, s) /\ s.stage.gen = m.gen /\ s.stage.state = "complete"
         /\ s.stage.task # RunNil
      \/ n = RestartStage(m, s)
  BY DEF CheckSetNewStage, IsNewGeneration, IsFailedApply
<1> QED
  BY <1>0, <1>1, <1>2, <1>3, <1>4

-----------------------------------------------------------------------------
(* What a step leaves of it: a pod that goes is no loss where its end is   *)
(* recorded.                                                               *)
LastIsKept(uid, s) ==
  \A i \in PodId :
    pods[i].there /\ IsPodOf(i, uid, s.stage.gen, s.stage.task)
      => pods'[i].there \/ s.stage.state \in {"complete", "failed"}

LEMMA PlanStays ==
  ASSUME TypeOK, ResourceExists, [Next]_vars, ~SetupAndRun,
         NEW uid, NEW s, PlanIsReady(uid, s),
         s.stage.task = ApplyFor(s.stage.task) => LastIsKept(uid, s)
  PROVE  PlanIsReady(uid, s)'
<1> DEFINE gen == s.stage.gen
           task == s.stage.task
<1>1. nextPod' = nextPod /\ \A i \in PodId : SamePod(i)
  BY CountsStep, OtherStepsKeepPods
<1>2. \A i \in PodId :
        /\ \A u, g, t : IsPodOf(i, u, g, t)' <=> IsPodOf(i, u, g, t)
        /\ pods'[i].there => pods[i].there
        /\ pods[i].phase = "Succeeded" => pods'[i].phase = "Succeeded"
  BY <1>1 DEF SamePod, IsPodOf
<1>3. PlansUnused(uid, gen, task) => PlansUnused(uid, gen, task)'
  BY <1>2 DEF PlansUnused
<1>4. PlansSucceeded(uid, gen, task) => PlansSucceeded(uid, gen, task)'
  BY <1>2 DEF PlansSucceeded
<1>5. FreshPlan(uid, gen, task, nextPod) => FreshPlan(uid, gen, task, nextPod)'
  BY <1>1, <1>2 DEF FreshPlan
<1>6. task = ApplyFor(task) /\ LastIsShown(uid, s) => LastIsShown(uid, s)'
  BY <1>2 DEF LastIsShown, LastIsKept
<1> QED
  BY <1>3, <1>4, <1>5, <1>6 DEF PlanIsReady, IsPlanned

(* The applies that have started keep their plan.                          *)
PlannedApply(i) ==
  \E j \in PodId :
    /\ j < i /\ IsPodOf(j, pods[i].owner, pods[i].gen, PlanFor(pods[i].task))
    /\ pods[j].phase = "Succeeded"
    /\ \A k \in PodId : k >= j /\ k < i =>
         ~IsPodOf(k, pods[i].owner, pods[i].gen, pods[i].task)

LEMMA FreshPlans ==
  ApplyHasFreshPlan <=>
    \A i \in PodId : pods[i].task \in {"apply", "apply-delete"} => PlannedApply(i)
<1>1. /\ "apply" \notin DeleteTasks /\ "apply-delete" \in DeleteTasks
  BY CreateTaskIDs, DeleteTaskIDs, ListsAreInjective
<1>2. ASSUME NEW i \in PodId, NEW j \in PodId
      PROVE  \A k : k \in j..(i - 1) <=> k \in PodId /\ k >= j /\ k < i
  BY <1>2, BoundAssumption DEF PodId
<1>3. ASSUME NEW i \in PodId, pods[i].task \in {"apply", "apply-delete"}
      PROVE  PlannedApply(i) <=>
               \E j \in PodId :
                 LET plan == IF pods[i].task = "apply" THEN "plan" ELSE "plan-delete"
                     Same(k, task) == /\ pods[k].owner = pods[i].owner
                                      /\ pods[k].gen = pods[i].gen /\ pods[k].task = task
                 IN  /\ j < i /\ Same(j, plan) /\ pods[j].phase = "Succeeded"
                     /\ ~\E k \in j..(i - 1) : Same(k, pods[i].task)
  BY <1>1, <1>2, <1>3 DEF PlannedApply, IsPodOf, PlanFor
<1> QED
  BY <1>3 DEF ApplyHasFreshPlan

-----------------------------------------------------------------------------
(* The kinds of steps.                                                     *)
StagePlanned ==
  PlanIsReady(meta.uid, status) /\ NoLaterPod(meta.uid, status.stage.gen) /\ CallPlans

LEMMA LaterPodsStay ==
  ASSUME TypeOK, [Next]_vars, ~SetupAndRun
  PROVE  \A uid, gen : NoLaterPod(uid, gen) => NoLaterPod(uid, gen)'
BY OtherStepsKeepPods DEF NoLaterPod, SamePod

LEMMA PlanWriteStep ==
  ASSUME PlanInv, [Next]_vars, ~SetupAndRun, pc # "idle", tfMeta.finalizer,
         NEW d, PlanIsReady(meta.uid, d), d.stage.gen \in Nat, status.stage.gen <= d.stage.gen,
         NEW next \in {"idle", "plugins", "remove"}, NEW failed \in {"idle", "plugins"},
         NEW requeue, next = "remove" => d.stage.state = "complete",
         next = "plugins" \/ failed = "plugins" =>
           /\ status.stage.state # "complete" /\ d.stage.state # "complete"
           /\ status.stage.task = ApplyFor(status.stage.task) /\ status.stage.state = "failed"
                => d.stage.state = "failed",
         UpdateStatusWithRetry(d, next, failed, requeue), UNCHANGED <<meta, pods>>
  PROVE  StagePlanned'
<1>0. /\ TypeOK /\ ResourceExists /\ status.stage.gen \in Nat
      /\ \A i \in PodId : pods[i].gen \in Nat
  BY DEF PlanInv, RefinementInv, OrderInv, DeletionInv, DeletionSound, TypeOK, Status, Stage, Pod
<1>1. status' \in {status, d}
  BY DEF UpdateStatusWithRetry
<1>3. PlanIsReady(meta.uid, status) /\ NoLaterPod(meta.uid, status.stage.gen)
  BY DEF PlanInv
<1>4. PlanIsReady(meta.uid, status)'
  <2>1. \A uid, s : PlanIsReady(uid, s) /\ LastIsKept(uid, s) => PlanIsReady(uid, s)'
    BY <1>0, PlanStays
  <2>2. \A s : LastIsKept(meta.uid, s)
    BY DEF LastIsKept
  <2> QED
    BY <1>1, <1>3, <2>1, <2>2
<1>5. NoLaterPod(meta.uid, status.stage.gen)'
  BY <1>0, <1>1, <1>3 DEF NoLaterPod
<1>6. CallPlans'
  <2>1. CASE status' = d /\ GoOn(next, d)
    <3>1. pc' \in {"idle", "plugins", "remove"} /\ pc' = next /\ (pc' # "idle" => tfStatus' = d)
      BY <2>1 DEF GoOn
    <3> QED
      BY <2>1, <3>1 DEF CallPlans
  <2>2. CASE GoOn(failed, d)
    <3>1. pc' \in {"idle", "plugins"} /\ pc' = failed /\ (pc' # "idle" => tfStatus' = d)
      BY <2>2 DEF GoOn
    <3> QED
      BY <1>1, <3>1 DEF CallPlans
  <2> QED
    BY <2>1, <2>2 DEF UpdateStatusWithRetry
<1> QED
  BY <1>4, <1>5, <1>6 DEF StagePlanned

LEMMA PlanGoOnStep ==
  ASSUME PlanInv, [Next]_vars, ~SetupAndRun, NEW d, NEW place,
         status.stage.task = ApplyFor(status.stage.task) => LastIsKept(meta.uid, status),
         place = "restart" =>
           /\ d.stage.state = "initializing"
           /\ \A i \in PodId : pods'[i].there =>
                ~IsPodOf(i, meta.uid, status.stage.gen, PlanFor(status.stage.task)),
         place # "remove", place # "started",
         place = "plugins" => d.stage = status.stage /\ d.stage.state # "complete",
         GoOn(place, d), UNCHANGED <<meta, status>>
  PROVE  StagePlanned'
<1>0. TypeOK /\ ResourceExists /\ \A i \in PodId : SamePod(i)
  BY OtherStepsKeepPods
     DEF PlanInv, RefinementInv, OrderInv, DeletionInv, DeletionSound
<1>1. PlanIsReady(meta.uid, status)'
  BY <1>0, PlanStays DEF PlanInv
<1>2. NoLaterPod(meta.uid, status.stage.gen)'
  BY <1>0, LaterPodsStay DEF PlanInv
<1>3. CallPlans'
  <2>1. pc' = place /\ (place # "idle" => tfStatus' = d)
    BY DEF GoOn
  <2>2. \A i \in PodId : \A u, g, t : IsPodOf(i, u, g, t)' <=> IsPodOf(i, u, g, t)
    BY <1>0 DEF SamePod, IsPodOf
  <2> QED
    BY <2>1, <2>2 DEF CallPlans
<1> QED
  BY <1>1, <1>2, <1>3 DEF StagePlanned

LEMMA PlanQuietStep ==
  ASSUME PlanInv, [Next]_vars, ~SetupAndRun, UNCHANGED <<pc, tfMeta, tfStatus>>,
         \/ /\ UNCHANGED status /\ meta'.uid = meta.uid
            /\ status.stage.task = ApplyFor(status.stage.task) => LastIsKept(meta.uid, status)
         \/ /\ status' = EmptyStatus /\ ~(pc # "idle" /\ tfMeta.finalizer)
            /\ meta'.uid # 0 => \A i \in PodId : pods[i].owner # meta'.uid
  PROVE  StagePlanned'
<1>0. /\ TypeOK /\ ResourceExists /\ CallHoldsResource /\ CallPlans
      /\ \A i \in PodId : SamePod(i)
  BY OtherStepsKeepPods
     DEF PlanInv, RefinementInv, OrderInv, DeletionInv, DeletionSound
<1>1. CASE UNCHANGED status /\ meta'.uid = meta.uid /\
           (status.stage.task = ApplyFor(status.stage.task) => LastIsKept(meta.uid, status))
  <2>1. PlanIsReady(meta.uid, status)'
    BY <1>0, <1>1, PlanStays DEF PlanInv
  <2>2. NoLaterPod(meta.uid, status.stage.gen)'
    BY <1>0, <1>1, LaterPodsStay DEF PlanInv
  <2>3. CallPlans'
    BY <1>0, <1>1 DEF CallPlans, SamePod, IsPodOf
  <2> QED
    BY <2>1, <2>2, <2>3 DEF StagePlanned
<1>2. CASE /\ status' = EmptyStatus /\ ~(pc # "idle" /\ tfMeta.finalizer)
           /\ meta'.uid # 0 => \A i \in PodId : pods[i].owner # meta'.uid
  <2>1. PlanIsReady(meta.uid, status)'
    BY <1>2, EmptySound DEF PlanIsReady
  <2>2. NoLaterPod(meta.uid, status.stage.gen)'
    BY <1>0, <1>2 DEF NoLaterPod, SamePod
  <2>3. pc' \in {"idle", "read"}
    BY <1>0, <1>2 DEF CallHoldsResource
  <2> QED
    BY <2>1, <2>2, <2>3 DEF StagePlanned, CallPlans
<1> QED
  BY <1>1, <1>2

LEMMA UsersPlanned ==
  ASSUME DeletionIsPlain, PlansAreKept, PlanInv, Users
  PROVE  StagePlanned'
<1>0. /\ [Next]_vars /\ meta \in Meta /\ ResourceExists /\ CallHoldsResource /\ Counted
      /\ uids \in Nat /\ pods \in [PodId -> Pod]
  BY DEF Next, PlanInv, RefinementInv, OrderInv, DeletionInv, TypeOK, DeletionSound
<1>1. ~SetupAndRun /\ UNCHANGED <<pc, tfMeta, tfStatus>>
  BY DEF Users, CreateResource, EditSpec, SetLabel, DeleteResource, DeletePod, call,
         SetupAndRun, GoOn, StartsPod, InTask, InStage, Initialized
<1>2. CASE CreateResource
  <2>1. status' = EmptyStatus /\ meta'.uid = uids + 1 /\ meta.uid = 0
    BY <1>2 DEF CreateResource
  <2>2. \A i \in PodId : pods[i].owner # uids + 1
    BY <1>0 DEF Counted, Pod
  <2>3. ~(pc # "idle" /\ tfMeta.finalizer)
    BY <1>0, <2>1 DEF CallHoldsResource, ResourceExists
  <2> QED
    BY <1>0, <1>1, <2>1, <2>2, <2>3, PlanQuietStep
<1>3. CASE DeleteResource /\ ~meta.finalizer
  <2>1. status' = EmptyStatus /\ meta'.uid = 0
    BY <1>3, EmptySound DEF DeleteResource
  <2>2. ~(pc # "idle" /\ tfMeta.finalizer)
    BY <1>0, <1>3 DEF CallHoldsResource
  <2> QED
    BY <1>0, <1>1, <2>1, <2>2, PlanQuietStep
<1>4. CASE EditSpec \/ SetLabel \/ (DeleteResource /\ meta.finalizer)
  <2>1. UNCHANGED <<status, pods>> /\ meta'.uid = meta.uid
    BY <1>0, <1>4 DEF EditSpec, SetLabel, DeleteResource, Meta
  <2> QED
    BY <1>0, <1>1, <2>1, PlanQuietStep DEF LastIsKept
<1>5. CASE \E i \in PodId : DeletePod(i)
  <2>1. PICK i \in PodId : DeletePod(i)
    BY <1>5
  <2>2. UNCHANGED <<meta, status>> /\ status.stage.state = "failed"
    BY <2>1 DEF DeletePod, PlansAreKept
  <2>3. LastIsKept(meta.uid, status)
    BY <2>2 DEF LastIsKept
  <2> QED
    BY <1>0, <1>1, <2>2, <2>3, PlanQuietStep
<1> QED
  BY <1>2, <1>3, <1>4, <1>5 DEF Users

LEMMA ClusterPlanned ==
  ASSUME PlanInv, Cluster
  PROVE  StagePlanned'
<1>0. /\ [Next]_vars /\ UNCHANGED <<meta, status, pc, tfMeta, tfStatus>>
      /\ pods \in [PodId -> Pod]
  BY DEF Next, Cluster, PodStarts, PodEnds, PodSucceeds, PodFails, SetPhase, CollectPod,
    InformerLists, CollectBundle, Resync, PlanInv, RefinementInv, OrderInv, DeletionInv, TypeOK,
    call
<1>1. ~SetupAndRun
  BY <1>0 DEF SetupAndRun, GoOn, StartsPod, InTask, InStage, Initialized
<1>2. ASSUME NEW i \in PodId, pods[i].there, pods[i].owner = meta.uid
      PROVE  pods'[i].there
  <2>1. CASE \E j \in PodId : PodStarts(j) \/ PodEnds(j) \/ InformerLists(j)
    BY <1>0, <1>2, <2>1 DEF PodStarts, PodEnds, PodSucceeds, PodFails, SetPhase, InformerLists,
      Pod
  <2>2. CASE \E j \in PodId : CollectPod(j)
    BY <1>0, <1>2, <2>2 DEF CollectPod, Pod
  <2>3. CASE UNCHANGED pods
    BY <1>2, <2>3
  <2> QED
    BY <2>1, <2>2, <2>3 DEF Cluster, CollectBundle, Resync
<1>3. LastIsKept(meta.uid, status)
  BY <1>2 DEF LastIsKept, IsPodOf
<1> QED
  BY <1>0, <1>1, <1>3, PlanQuietStep

-----------------------------------------------------------------------------
(* The steps of a call.                                                    *)
LEMMA EditedPlan ==
  ASSUME NEW uid, NEW s, NEW d, PlanIsReady(uid, s),
         d.stage.gen = s.stage.gen, d.stage.task = s.stage.task,
         d.stage.state = "complete" => s.stage.state = "complete",
         s.stage.task = ApplyFor(s.stage.task) /\ s.stage.state \in {"complete", "failed"}
           => d.stage.state \in {"complete", "failed"}
  PROVE  PlanIsReady(uid, d)
<1>1. IsPlanned(d) => IsPlanned(s)
  BY DEF IsPlanned
<1>2. s.stage.task = ApplyFor(s.stage.task) /\ LastIsShown(uid, s) => LastIsShown(uid, d)
  BY DEF LastIsShown
<1> QED
  BY <1>1, <1>2 DEF PlanIsReady

LEMMA PlannedCall ==
  ASSUME DeletionIsPlain, PlanInv, Initialized
  PROVE  /\ pc = "read" /\ tfMeta.finalizer /\ tfMeta.uid = meta.uid /\ meta.uid # 0
         /\ tfMeta \in Meta /\ prepared \in Status /\ prepared.stage = status.stage
         /\ PlanIsReady(meta.uid, prepared) /\ Backed(meta.uid, prepared)
         /\ prepared.stage.gen <= tfMeta.gen /\ status.stage.gen \in Nat
<1>1. /\ pc = "read" /\ tfMeta.finalizer /\ tfMeta.uid = meta.uid
      /\ prepared \in Status /\ prepared.stage = status.stage
      /\ Backed(meta.uid, prepared)
  BY CallInStage DEF PlanInv
<1>2. /\ tfMeta \in Meta /\ Sound(tfMeta, prepared) /\ meta.uid # 0 /\ status \in Status
  BY <1>1, WorkingCall
     DEF PlanInv, RefinementInv, OrderInv, DeletionInv, TypeOK, DeletionSound, ResourceExists
<1> HIDE DEF prepared
<1>3. PlanIsReady(meta.uid, prepared)
  BY <1>1 DEF PlanInv, PlanIsReady, IsPlanned, LastIsShown
<1> QED
  BY <1>1, <1>2, <1>3 DEF Sound, Status, Stage

LEMMA PlannedNewStage ==
  ASSUME DeletionIsPlain, PlanInv, Initialized, NEW n \in newStage
  PROVE  /\ n \in Status /\ n.stage.gen \in Nat /\ status.stage.gen <= n.stage.gen
         /\ IsRestart(n) => n.stage.state = "initializing" /\ n.stage.gen = tfMeta.gen
         /\ ~IsRestart(n) => PlanIsReady(meta.uid, n)
<1>1. /\ ~IsRetry(tfMeta, tfStatus) /\ PodMissed(prepared) \in BOOLEAN
      /\ n \in Status /\ TypeOK
      /\ LastIsThere /\ NoLaterPod(meta.uid, status.stage.gen)
  BY NoRetries, WorkingNewStage
     DEF PlanInv, RefinementInv, OrderInv, DeletionInv, TypeOK, PodMissed, PodGone
<1>2. /\ tfMeta \in Meta /\ prepared \in Status /\ prepared.stage = status.stage
      /\ PlanIsReady(meta.uid, prepared) /\ Backed(meta.uid, prepared)
      /\ prepared.stage.gen <= tfMeta.gen /\ meta.uid # 0
  BY PlannedCall
<1>3. n \in CheckSetNewStage(tfMeta, prepared, FALSE, PodMissed(prepared))
  BY <1>1, <1>2 DEF newStage, CheckSetNewStage
<1> HIDE DEF prepared
<1>4. n.stage.gen \in Nat
  BY <1>1 DEF Status, Stage
<1>5. NoLaterPod(meta.uid, prepared.stage.gen)
  BY <1>1, <1>2
<1>6. /\ prepared.stage.gen <= n.stage.gen
      /\ IsRestart(n) => n.stage.state = "initializing" /\ n.stage.gen = tfMeta.gen
      /\ ~IsRestart(n) => PlanIsReady(meta.uid, n)
  BY <1>1, <1>2, <1>3, <1>5, NewStageIsPlanned
<1> QED
  BY <1>1, <1>2, <1>4, <1>6

(* A call that finds its stage to go on with does not find it complete.    *)
LEMMA StageIsOpen ==
  ASSUME DeletionIsPlain, PlanInv, InTask
  PROVE  status.stage.state # "complete" /\ status.stage.task # RunNil
<1>1. /\ Initialized /\ prepared.stage.task # RunNil /\ newStage = {}
      /\ ~IsRetry(tfMeta, tfStatus)
  BY NoRetries DEF InTask, InStage, PlanInv, RefinementInv, OrderInv, DeletionInv, TypeOK
<1>2. prepared.stage = status.stage
  BY <1>1, PlannedCall
<1> HIDE DEF prepared
<1>3. CheckSetNewStage(tfMeta, prepared, FALSE, PodMissed(prepared)) = {}
  BY <1>1 DEF newStage, CheckSetNewStage
<1> QED
  BY <1>1, <1>2, <1>3 DEF CheckSetNewStage, IsLocked

LEMMA FoundPodPlanned ==
  ASSUME DeletionIsPlain, PlanInv, NEW i \in PodId, FoundPod(i)
  PROVE  StagePlanned'
<1> DEFINE state == StageStateOf(pods[i].phase)
           d == [prepared EXCEPT !.stage.state = state, !.stage.podName = i]
           next == IF pods[i].phase = "Succeeded" /\ ~KeepPods THEN "remove" ELSE "idle"
<1>0. /\ DeletionInv /\ Counted /\ LastIsThere /\ i \in Nat /\ nextPod \in Nat
      /\ [Next]_vars
  BY PodNumbers
     DEF PlanInv, RefinementInv, OrderInv, DeletionInv, TypeOK, Next, Reconcile
<1>1. /\ Initialized /\ InTask /\ prepared.stage.task # RunNil
      /\ i \in StagePods(prepared) /\ UNCHANGED <<meta, pods>>
      /\ UpdateStatusWithRetry(d, next, "idle", TRUE)
  BY DEF FoundPod, InTask, InStage
<1>2. /\ state = "complete" => pods[i].phase = "Succeeded"
      /\ next = "remove" => state = "complete"
  BY <1>0 DEF StageStateOf, DeletionInv, TypeOK, Pod, PodPhases
<1>3. next \in {"idle", "remove"}
  OBVIOUS
<1>4. /\ prepared \in Status /\ pc = "read" /\ tfMeta.finalizer
      /\ prepared.prefix = tfMeta.uid /\ tfMeta.uid = meta.uid
      /\ PlanIsReady(meta.uid, prepared) /\ prepared.stage = status.stage
      /\ status.stage.gen \in Nat
  BY <1>0, <1>1, WorkingCall, PlannedCall
<1>5. ~SetupAndRun
  BY <1>1 DEF SetupAndRun, StartsPod
<1> HIDE DEF prepared, state, next
<1>6. /\ d.stage.gen = prepared.stage.gen /\ d.stage.task = prepared.stage.task
      /\ d.stage.state = state
  BY <1>4 DEF Status, Stage
<1> HIDE DEF d
<1> DEFINE gen == prepared.stage.gen
           task == prepared.stage.task
<1>7. /\ pods[i].there /\ IsPodOf(i, meta.uid, gen, task)
      /\ \A j \in PodId : j > i => ~IsPodOf(j, meta.uid, gen, task)
  <2>1. /\ pods[i].prefix = meta.uid /\ pods[i].task = task
        /\ pods[i].gen = gen /\ pods[i].there
    BY <1>1, <1>4 DEF StagePods
  <2>2. pods[i].owner = meta.uid
    BY <1>0, <2>1 DEF DeletionInv, DeletionSound, PodsAreTraced
  <2> QED
    BY <1>0, <2>1, <2>2 DEF IsPodOf, LastIsThere
<1>8. LastIsShown(meta.uid, d)
  BY <1>6, <1>7 DEF LastIsShown
<1>9. ASSUME IsPlanned(d) PROVE FreshPlan(meta.uid, gen, task, nextPod)
  <2>1. CASE IsPlanned(prepared)
    BY <1>1, <1>4, <2>1 DEF PlanIsReady
  <2>2. CASE task = PlanFor(task) /\ state = "complete"
    <3>1. task \in TaskName
      BY <1>1, <1>4 DEF Status, Stage
    <3>2. ~Before(PlanFor(task), task) /\ PlanFor(task) # ApplyFor(task)
      BY <2>2, <3>1, PlanTasks, BeforeIsTotal
    <3>3. PlansUnused(meta.uid, gen, task)
      BY <1>1, <1>4, <3>2 DEF PlanIsReady
    <3>4. i < nextPod
      BY <1>0, <1>1, <1>7 DEF Counted, IsPodOf
    <3>5. ASSUME NEW k \in PodId, k >= i, k < nextPod
          PROVE  ~IsPodOf(k, meta.uid, gen, ApplyFor(task))
      <4>1. CASE k = i
        BY <1>7, <2>2, <3>2, <4>1 DEF IsPodOf
      <4>2. CASE k > i
        BY <1>7, <2>2, <3>3, <4>2 DEF PlansUnused
      <4> QED
        BY <1>0, <3>5, <4>1, <4>2, PodNumbers
    <3> QED
      BY <1>2, <1>7, <2>2, <3>4, <3>5 DEF FreshPlan
  <2> QED
    BY <1>6, <1>9, <2>1, <2>2 DEF IsPlanned
<1>10. PlanIsReady(meta.uid, d)
  BY <1>4, <1>6, <1>8, <1>9 DEF PlanIsReady
<1>11. status.stage.gen <= d.stage.gen /\ d.stage.gen \in Nat
  BY <1>4, <1>6
<1>12. next # "plugins"
  BY <1>3
<1> QED
  BY <1>0, <1>1, <1>2, <1>3, <1>4, <1>5, <1>6, <1>10, <1>11, <1>12, PlanWriteStep

(* The deletion of the old plan takes every plan pod of the generation,    *)
(* since past its plan none of them is at work.                            *)
LEMMA RemoveOldPlanPlanned ==
  ASSUME DeletionIsPlain, PlansAreKept, PlanInv, RemoveOldPlan
  PROVE  StagePlanned'
<1>0. /\ pods \in [PodId -> Pod] /\ [Next]_vars
  BY DEF PlanInv, RefinementInv, OrderInv, DeletionInv, TypeOK, Next, Reconcile
<1>1. PICK n \in newStage : IsRestart(n) /\ GoOn("restart", n)
  BY DEF RemoveOldPlan
<1>2. Initialized /\ UNCHANGED <<meta, status>> /\ newStage # {}
  BY <1>1 DEF RemoveOldPlan
<1>3. ~SetupAndRun
  BY <1>2 DEF SetupAndRun, StartsPod, InTask, InStage
<1>4. /\ status.stage.task \in {"apply", "apply-delete"} /\ status.stage.state = "failed"
      /\ n.stage.gen = status.stage.gen
  BY <1>1, <1>2, BackedNewStage DEF PlanInv
<1>5. n.stage.state = "initializing" /\ n.stage.gen = tfMeta.gen
  BY <1>1, <1>2, PlannedNewStage
<1>6. ASSUME NEW i \in PodId, pods'[i].there,
             IsPodOf(i, meta.uid, status.stage.gen, PlanFor(status.stage.task))
      PROVE  FALSE
  <2>1. pods' = [j \in PodId |-> [pods[j] EXCEPT !.there = @ /\ j \notin
                                                         OldPlanPods(tfMeta, prepared)]]
    BY DEF RemoveOldPlan, PlansAreKept, Fault
  <2>2. pods[i].there /\ i \notin OldPlanPods(tfMeta, prepared)
    BY <1>0, <1>6, <2>1 DEF Pod
  <2>3. status.stage.task \in TaskName /\ status.stage.task = ApplyFor(status.stage.task)
    BY <1>4, CreateTaskIDs, DeleteTaskIDs, ListsAreInjective DEF TaskName, ApplyFor
  <2>4. status.stage.task # RunNil /\ Before(PlanFor(status.stage.task), status.stage.task)
    BY <2>3, PlanTasks, NilIsNoTask
  <2>5. PlansSucceeded(meta.uid, status.stage.gen, status.stage.task)
    BY <2>4 DEF PlanInv, PlanIsReady
  <2>6. /\ pods[i].phase = "Succeeded" /\ pods[i].gen = tfMeta.gen
        /\ pods[i].task \in {"plan", "plan-delete"}
    BY <1>4, <1>5, <1>6, <2>2, <2>5 DEF PlansSucceeded, IsPodOf, PlanFor
  <2>7. \A reason : pods[i].task \notin Spared(reason)
    BY <2>6 DEF Spared
  <2> QED
    BY <2>2, <2>6, <2>7 DEF OldPlanPods
<1>7. LastIsKept(meta.uid, status)
  BY <1>4 DEF LastIsKept
<1> QED
  BY <1>0, <1>1, <1>2, <1>3, <1>5, <1>6, <1>7, PlanGoOnStep

(* The new pod is the last one of its task; if it is an apply, the fresh   *)
(* plan is what lets it start.                                             *)
LEMMA StartsOnPlan ==
  ASSUME DeletionIsPlain, PlanInv, SetupAndRun, status.stage.task = ApplyFor(status.stage.task)
  PROVE  FreshPlan(meta.uid, status.stage.gen, status.stage.task, nextPod)
<1>1. /\ status.stage.task # RunNil
      /\ \A j \in PodId :
           pods[j].there => ~IsPodOf(j, meta.uid, status.stage.gen, status.stage.task)
  BY StartFacts DEF PlanInv, RefinementInv
<1>2. status.stage.task \in {"apply", "apply-delete"}
  BY DEF ApplyFor
<1>3. ~LastIsShown(meta.uid, status)
  BY <1>1, <1>2, StartNotOver DEF LastIsShown, PlanInv
<1> QED
  BY <1>1, <1>3 DEF PlanInv, PlanIsReady

LEMMA SetupAndRunPlanned ==
  ASSUME DeletionIsPlain, PlanInv, SetupAndRun
  PROVE  StagePlanned'
<1>a. PICK uid, gen, task :
        uid = meta.uid /\ gen = status.stage.gen /\ task = status.stage.task
  OBVIOUS
<1>0. /\ OrderInv /\ DeletionInv /\ SingleInv /\ Counted /\ PlanIsReady(meta.uid, status)
      /\ NoLaterPod(meta.uid, status.stage.gen)
      /\ pods \in [PodId -> Pod] /\ status \in Status
  BY DEF PlanInv, RefinementInv, OrderInv, DeletionInv, TypeOK
<1>1. /\ nextPod \in PodId /\ nextPod \in Nat /\ PodId \subseteq Nat
      /\ nextPod' = nextPod + 1 /\ UNCHANGED <<meta, status>>
      /\ \A i \in PodId \ {nextPod} : pods'[i] = pods[i]
  BY <1>0, SetupAndRunPods, PodNumbers DEF SetupAndRun
<1>2. /\ pods'[nextPod].owner = uid /\ pods'[nextPod].gen = gen /\ pods'[nextPod].task = task
      /\ pods'[nextPod].there /\ task # RunNil
      /\ \A j \in PodId : pods[j].there => ~IsPodOf(j, uid, gen, task)
      /\ prepared \in Status /\ prepared.stage = status.stage
  <2>1. pods'[nextPod].there
    BY <1>0, SetupAndRunPods
  <2>2. /\ pods'[nextPod].owner = meta.uid /\ pods'[nextPod].gen = status.stage.gen
        /\ pods'[nextPod].task = status.stage.task
        /\ \A j \in PodId :
             pods[j].there => ~IsPodOf(j, meta.uid, status.stage.gen, status.stage.task)
        /\ prepared \in Status /\ prepared.stage = status.stage
        /\ prepared.stage.task # RunNil
    BY <1>0, StartFacts
  <2> HIDE DEF prepared
  <2> QED
    BY <1>a, <2>1, <2>2
<1>3. ASSUME NEW i \in PodId, i > nextPod
      PROVE  pods'[i] = pods[i] /\ pods[i].task = RunNil
  <2>1. i >= nextPod /\ i # nextPod
    BY <1>1, <1>3
  <2> QED
    BY <1>0, <1>1, <2>1 DEF Counted
<1>4. task \in TaskName
  BY <1>0, <1>a, <1>2 DEF Status, Stage
<1>b. /\ ~Before(PlanFor(task), task) => PlansUnused(uid, gen, task)
      /\ Before(PlanFor(task), task) => PlansSucceeded(uid, gen, task)
      /\ IsPlanned(status) => FreshPlan(uid, gen, task, nextPod)
  BY <1>0, <1>a, <1>2 DEF PlanIsReady
<1>5. /\ PlanFor(task) \in TaskName /\ ApplyFor(task) \in TaskName
      /\ PlanFor(task) # ApplyFor(task) /\ Before(PlanFor(task), ApplyFor(task))
      /\ PlanFor(task) # RunNil /\ ApplyFor(task) # RunNil
  BY <1>4, PlanTasks, NilIsNoTask
<1>6. ASSUME ~Before(PlanFor(task), task) PROVE PlansUnused(uid, gen, task)'
  <2>1. PlansUnused(uid, gen, task) /\ task # ApplyFor(task)
    BY <1>b, <1>5, <1>6
  <2>2. ASSUME NEW i \in PodId, NEW k \in PodId, k > i, pods'[i].there,
               IsPodOf(i, uid, gen, PlanFor(task))', IsPodOf(k, uid, gen, ApplyFor(task))'
        PROVE  FALSE
    <3>1. k # nextPod
      BY <1>2, <2>1, <2>2 DEF IsPodOf
    <3>2. ~(k > nextPod)
      BY <1>3, <1>5, <2>2 DEF IsPodOf
    <3>3. i # nextPod /\ pods'[i] = pods[i] /\ pods'[k] = pods[k]
      BY <1>1, <2>2, <3>1, <3>2
    <3> QED
      BY <2>1, <2>2, <3>3 DEF PlansUnused, IsPodOf
  <2> QED
    BY <1>1, <2>2 DEF PlansUnused, IsPodOf
<1>7. ASSUME Before(PlanFor(task), task) PROVE PlansSucceeded(uid, gen, task)'
  <2>1. PlansSucceeded(uid, gen, task) /\ task # PlanFor(task)
    BY <1>b, <1>4, <1>7, BeforeIsTotal
  <2>2. ASSUME NEW i \in PodId, pods'[i].there, IsPodOf(i, uid, gen, PlanFor(task))'
        PROVE  pods'[i].phase = "Succeeded"
    <3>1. i # nextPod
      BY <1>2, <2>1, <2>2 DEF IsPodOf
    <3> QED
      BY <1>1, <2>1, <2>2, <3>1 DEF PlansSucceeded, IsPodOf
  <2> QED
    BY <1>1, <2>2 DEF PlansSucceeded, IsPodOf
<1>8. ASSUME IsPlanned(status) PROVE FreshPlan(uid, gen, task, nextPod)'
  <2>1. FreshPlan(uid, gen, task, nextPod)
    BY <1>b, <1>8
  <2>2. task # ApplyFor(task)
    <3>1. status.stage.state # "complete"
      BY StartNotOver DEF PlanInv
    <3> QED
      BY <1>a, <1>4, <1>5, <1>8, <3>1, BeforeIsTotal DEF IsPlanned
  <2>3. PICK j \in PodId : /\ j < nextPod /\ IsPodOf(j, uid, gen, PlanFor(task))
                           /\ pods[j].phase = "Succeeded"
                           /\ \A k \in PodId : k >= j /\ k < nextPod =>
                                ~IsPodOf(k, uid, gen, ApplyFor(task))
    BY <2>1 DEF FreshPlan
  <2>4. ASSUME NEW k \in PodId, k >= j, k < nextPod + 1
        PROVE  ~IsPodOf(k, uid, gen, ApplyFor(task))'
    <3>1. CASE k = nextPod
      BY <1>2, <2>2, <3>1 DEF IsPodOf
    <3>2. CASE k # nextPod
      <4>1. k < nextPod
        BY <1>1, <2>4, <3>2
      <4> QED
        BY <1>1, <2>3, <2>4, <3>2, <4>1 DEF IsPodOf
    <3> QED
      BY <3>1, <3>2
  <2>5. /\ IsPodOf(j, uid, gen, PlanFor(task))' /\ pods'[j].phase = "Succeeded"
        /\ j < nextPod + 1
    BY <1>1, <2>3 DEF IsPodOf
  <2> QED
    BY <1>1, <2>4, <2>5 DEF FreshPlan
<1>9. LastIsShown(meta.uid, status)'
  <2>1. PICK i \in PodId : i = nextPod
    BY <1>1
  <2>2. IsPodOf(i, uid, gen, task)' /\ pods'[i].there
    BY <1>2, <2>1 DEF IsPodOf
  <2>3. ASSUME NEW j \in PodId, j > i PROVE ~IsPodOf(j, uid, gen, task)'
    BY <1>2, <1>3, <2>1, <2>3 DEF IsPodOf
  <2> QED
    BY <1>a, <1>1, <2>2, <2>3 DEF LastIsShown, IsPodOf
<1>10. PlanIsReady(meta.uid, status)'
  BY <1>a, <1>1, <1>6, <1>7, <1>8, <1>9 DEF PlanIsReady, IsPlanned
<1>11. NoLaterPod(meta.uid, status.stage.gen)'
  BY <1>a, <1>0, <1>1, <1>2 DEF NoLaterPod, Status, Stage
<1>12. CallPlans'
  <2>1. pc' = "started" /\ tfStatus'.stage.state = "in-progress"
    <3>1. PICK ph : /\ pc' = "started"
                    /\ tfStatus' = [prepared EXCEPT !.phase = ph, !.stage.state = "in-progress"]
      BY DEF SetupAndRun, GoOn
    <3> HIDE DEF prepared
    <3> QED
      BY <1>2, <3>1 DEF Status, Stage
  <2>2. /\ status.stage.state # "complete"
        /\ ~(/\ status.stage.task \in {"apply", "apply-delete"}
             /\ status.stage.state = "failed")
    BY StartNotOver DEF PlanInv
  <2> QED
    BY <1>1, <2>1, <2>2 DEF CallPlans, ApplyFor
<1> QED
  BY <1>10, <1>11, <1>12 DEF StagePlanned

LEMMA FirstStagesPlanned ==
  ASSUME DeletionIsPlain, PlanInv, InitializeStatus \/ AddFirstStage
  PROVE  StagePlanned'
<1> DEFINE first == [tfStatus EXCEPT !.prefix = tfMeta.uid, !.phase = "initializing"]
           d == IF tfStatus.prefix = 0 THEN first ELSE FirstStage(tfMeta, tfStatus)
<1>0. OrderInv /\ DeletionInv /\ [Next]_vars
  BY DEF PlanInv, RefinementInv, OrderInv, Next, Reconcile
<1>1. /\ pc = "read" /\ tfStatus.phase # "deleted" /\ tfStatus.stage.gen = 0
      /\ UpdatedFinalizer(tfMeta, tfStatus) = tfMeta.finalizer /\ UNCHANGED <<meta, pods>>
      /\ \E requeue : UpdateStatusWithRetry(d, "idle", "idle", requeue)
  BY <1>0 DEF InitializeStatus, AddFirstStage, Initialized, OrderInv, OrderSound, Ready
<1>2. /\ tfMeta.finalizer /\ tfStatus \in Status /\ tfMeta \in Meta
      /\ tfStatus = status /\ tfMeta.uid = meta.uid /\ meta.uid # 0 /\ tfMeta.gen > 0
      /\ pods \in [PodId -> Pod]
  BY <1>0, <1>1, PastFinalizer
     DEF DeletionInv, TypeOK, DeletionSound, CallHoldsResource, ResourceExists
<1>3. ~SetupAndRun
  BY <1>1 DEF SetupAndRun, StartsPod, InTask, InStage
<1>4. PlanIsReady(meta.uid, first) /\ first.stage.gen = 0
  <2>1. first.stage = status.stage
    BY <1>2 DEF Status
  <2> HIDE DEF first
  <2> QED
    BY <1>1, <1>2, <2>1, EditedPlan DEF PlanInv
<1>5. /\ PlanIsReady(meta.uid, FirstStage(tfMeta, tfStatus))
      /\ FirstStage(tfMeta, tfStatus).stage.gen = tfMeta.gen
  <2> DEFINE n == FirstStage(tfMeta, tfStatus)
  <2>1. n.stage.task = "setup" /\ n.stage.gen = tfMeta.gen
    BY <1>2 DEF FirstStage, NewStage, Status
  <2>2. \A i \in PodId : ~(pods[i].owner = meta.uid /\ pods[i].gen = n.stage.gen)
    BY <1>1, <1>2, <2>1 DEF PlanInv, NoLaterPod, Pod
  <2> HIDE DEF n
  <2>3. PlanIsReady(meta.uid, n)
    BY <2>1, <2>2, GenerationIsPlanned
  <2> QED
    BY <2>1, <2>3 DEF n
<1>6. /\ PlanIsReady(meta.uid, d) /\ d.stage.gen \in Nat /\ status.stage.gen <= d.stage.gen
  BY <1>1, <1>2, <1>4, <1>5 DEF Meta
<1> HIDE DEF d
<1> QED
  BY <1>0, <1>1, <1>2, <1>3, <1>6, PlanWriteStep

LEMMA StagesEndPlanned ==
  ASSUME DeletionIsPlain, PlanInv, EndWorkflow \/ ResetStage
  PROVE  StagePlanned'
<1> DEFINE ended == [prepared EXCEPT !.phase = IF @ = "running" THEN "completed" ELSE "deleted"]
           reset == [prepared EXCEPT !.stage.state = "initializing"]
<1>0. [Next]_vars
  BY DEF Next, Reconcile
<1>1. /\ Initialized /\ UNCHANGED <<meta, pods>>
      /\ \/ UpdateStatusWithRetry(ended, "idle", "idle", TRUE)
         \/ /\ UpdateStatusWithRetry(reset, "idle", "idle", TRUE)
            /\ prepared.stage.state = "in-progress"
  BY DEF EndWorkflow, ResetStage, InTask, InStage
<1>2. ~SetupAndRun
  BY DEF EndWorkflow, ResetStage, SetupAndRun, StartsPod, InTask
<1>3. /\ prepared \in Status /\ pc = "read" /\ tfMeta.finalizer
      /\ PlanIsReady(meta.uid, prepared) /\ prepared.stage = status.stage
      /\ status.stage.gen \in Nat
  BY <1>1, PlannedCall
<1> HIDE DEF prepared
<1>4. /\ ended.stage = prepared.stage
      /\ reset.stage.gen = prepared.stage.gen /\ reset.stage.task = prepared.stage.task
      /\ reset.stage.state = "initializing"
  BY <1>3 DEF Status, Stage
<1> HIDE DEF ended, reset
<1>5. PlanIsReady(meta.uid, ended)
  BY <1>3, <1>4, EditedPlan
<1>6. prepared.stage.state = "in-progress" => PlanIsReady(meta.uid, reset)
  BY <1>3, <1>4, EditedPlan
<1>7. /\ ended.stage.gen \in Nat /\ status.stage.gen <= ended.stage.gen
      /\ reset.stage.gen \in Nat /\ status.stage.gen <= reset.stage.gen
  BY <1>3, <1>4
<1> QED
  BY <1>0, <1>1, <1>2, <1>3, <1>5, <1>6, <1>7, PlanWriteStep

LEMMA ReconcilePlanned ==
  ASSUME DeletionIsPlain, PlansAreKept, PlanInv, Reconcile
  PROVE  StagePlanned'
<1>0. /\ [Next]_vars /\ DeletionInv /\ CallPlans /\ OrderInv /\ RefinementInv
      /\ status.stage.gen \in Nat
      /\ PlanIsReady(meta.uid, status)
      /\ NoLaterPod(meta.uid, status.stage.gen)
  BY DEF Next, PlanInv, RefinementInv, OrderInv, DeletionInv, TypeOK, Status, Stage
<1>1. CASE GetResource
  <2>1. ~SetupAndRun
    BY <1>1 DEF GetResource, SetupAndRun, StartsPod, InTask, InStage, Initialized
  <2>2. PlanIsReady(meta.uid, status)' /\ NoLaterPod(meta.uid, status.stage.gen)'
    BY <1>0, <1>1, <2>1, PlanStays, LaterPodsStay
       DEF GetResource, LastIsKept, DeletionInv, DeletionSound
  <2> QED
    BY <1>1, <2>2 DEF GetResource, StagePlanned, CallPlans
<1>2. CASE ResourceNotFound
  <2>1. ~SetupAndRun
    BY <1>2 DEF ResourceNotFound, SetupAndRun, StartsPod, InTask, InStage, Initialized
  <2> QED
    BY <1>0, <1>2, <2>1, PlanQuietStep DEF ResourceNotFound, LastIsKept, call
<1>3. CASE UpdateFinalizer
  <2>1. /\ pc' = "idle" /\ ~SetupAndRun /\ UNCHANGED pods
    BY <1>3 DEF UpdateFinalizer, Return, GoOn, SetupAndRun
  <2>2. \/ UNCHANGED status /\ meta'.uid = meta.uid
        \/ meta' = NoMeta /\ status' = EmptyStatus
    BY <1>0, <1>3, UpdateFinalizerResult
  <2>3. CASE UNCHANGED status /\ meta'.uid = meta.uid
    <3>1. PlanIsReady(meta.uid, status)' /\ NoLaterPod(meta.uid, status.stage.gen)'
      BY <1>0, <2>1, <2>3, PlanStays, LaterPodsStay
         DEF LastIsKept, DeletionInv, DeletionSound
    <3> QED
      BY <2>1, <3>1 DEF StagePlanned, CallPlans
  <2>4. CASE meta' = NoMeta /\ status' = EmptyStatus
    BY <2>1, <2>4, EmptySound DEF StagePlanned, CallPlans, PlanIsReady, NoLaterPod
  <2> QED
    BY <2>2, <2>3, <2>4
<1>4. CASE SetNewStage
  <2>1. PICK n \in newStage : ~IsRestart(n) /\ UpdateStatusWithRetry(n, "idle", "idle", FALSE)
    BY <1>4 DEF SetNewStage
  <2>2. Initialized /\ UNCHANGED <<meta, pods>> /\ newStage # {}
    BY <1>4, <2>1 DEF SetNewStage
  <2>3. ~SetupAndRun
    BY <2>2 DEF SetupAndRun, StartsPod, InTask, InStage
  <2>4. /\ pc = "read" /\ tfMeta.finalizer /\ PlanIsReady(meta.uid, n)
        /\ n.stage.gen \in Nat /\ status.stage.gen <= n.stage.gen
    BY <2>1, <2>2, PlannedCall, PlannedNewStage
  <2> QED
    BY <1>0, <2>1, <2>2, <2>3, <2>4, PlanWriteStep
<1>5. CASE RestartWorkflow
  <2>1. /\ pc = "restart" /\ UNCHANGED <<meta, pods>>
        /\ UpdateStatusWithRetry(tfStatus, "idle", "idle", FALSE)
    BY <1>5 DEF RestartWorkflow
  <2>2. /\ tfMeta.finalizer /\ ~SetupAndRun
        /\ status.stage.task \in {"apply", "apply-delete"}
        /\ tfStatus.stage.gen = status.stage.gen
        /\ tfStatus.stage.task = NextTask(PlanStart(status.stage.task), Configured)
    BY <1>0, <2>1 DEF RefinementInv, CallBacked, RestartsStage, DeletionInv, DeletionSound,
      CallHoldsResource, SetupAndRun, StartsPod, InTask, InStage, Initialized
  <2>3. PlanIsReady(meta.uid, tfStatus)
    BY <1>0, <2>1, <2>2, RestartIsPlanned DEF CallPlans
  <2>4. tfStatus.stage.gen \in Nat /\ status.stage.gen <= tfStatus.stage.gen
    BY <1>0, <2>2
  <2>5. pc # "idle" /\ "idle" # "remove" /\ "idle" # "plugins"
    BY <2>1
  <2> QED
    BY <1>0, <2>1, <2>2, <2>3, <2>4, <2>5, PlanWriteStep
<1>6. CASE NothingToDo \/ ListFails
  <2>1. Return /\ UNCHANGED <<meta, status, pods>>
    BY <1>6 DEF NothingToDo, ListFails, cluster
  <2>2. ~SetupAndRun
    BY <2>1 DEF SetupAndRun, Return, GoOn
  <2> QED
    BY <1>0, <2>1, <2>2, PlanGoOnStep DEF Return, LastIsKept
<1>7. CASE RemovePod
  <2>1. Return /\ UNCHANGED <<meta, status>> /\ status.stage.state = "complete"
    BY <1>0, <1>7 DEF RemovePod, CallPlans
  <2>2. ~SetupAndRun
    BY <2>1 DEF SetupAndRun, Return, GoOn
  <2> QED
    BY <1>0, <2>1, <2>2, PlanGoOnStep DEF Return, LastIsKept
<1>8. CASE SetupFails
  <2>1. /\ Initialized /\ InTask /\ GoOn(AfterRun, prepared)
        /\ UNCHANGED <<meta, status, pods>>
    BY <1>8 DEF SetupFails, StartsPod, InTask, InStage
  <2>2. AfterRun \in {"idle", "plugins"}
    BY DEF AfterRun
  <2>3. prepared.stage = status.stage /\ status.stage.state # "complete"
    BY <2>1, PlannedCall, StageIsOpen
  <2>4. ~SetupAndRun
    BY <2>1, <2>2 DEF SetupAndRun, GoOn
  <2> QED
    BY <1>0, <2>1, <2>2, <2>3, <2>4, PlanGoOnStep DEF LastIsKept
<1>9. CASE SaveStarted \/ \E p \in PluginNames : CreatePluginJob(p)
  <2>1. PICK d, requeue :
          /\ pc \in {"started", "plugins"} /\ UNCHANGED <<meta, pods>>
          /\ UpdateStatusWithRetry(d, AfterRun, AfterRun, requeue)
          /\ d.stage = tfStatus.stage
    <3>1. CASE SaveStarted
      BY <3>1 DEF SaveStarted
    <3>2. CASE \E p \in PluginNames : CreatePluginJob(p)
      <4>1. PICK p \in PluginNames : CreatePluginJob(p)
        BY <3>2
      <4>2. tfStatus \in Status
        BY <1>0 DEF DeletionInv, TypeOK
      <4>3. [tfStatus EXCEPT !.plugins = @ \cup {p}].stage = tfStatus.stage
        BY <4>2 DEF Status
      <4> QED
        BY <4>1, <4>3 DEF CreatePluginJob
    <3> QED
      BY <1>9, <3>1, <3>2
  <2>2. AfterRun \in {"idle", "plugins"}
    BY DEF AfterRun
  <2>3. /\ tfMeta.finalizer /\ ~SetupAndRun
        /\ tfStatus.stage.gen = status.stage.gen /\ tfStatus.stage.task = status.stage.task
    BY <1>0, <2>1 DEF OrderInv, OrderSound, CallKnows, StageKey, DeletionInv, DeletionSound,
      CallHoldsResource, SetupAndRun, StartsPod, InTask, InStage, Initialized
  <2>4. /\ status.stage.state # "complete" /\ tfStatus.stage.state # "complete"
        /\ status.stage.task = ApplyFor(status.stage.task) /\ status.stage.state = "failed"
             => tfStatus.stage.state = "failed"
    BY <1>0, <2>1 DEF CallPlans
  <2>5. PlanIsReady(meta.uid, d)
    BY <1>0, <2>1, <2>3, <2>4, EditedPlan
  <2>6. /\ d.stage.gen \in Nat /\ status.stage.gen <= d.stage.gen
        /\ d.stage.state = tfStatus.stage.state
    BY <1>0, <2>1, <2>3
  <2> QED
    BY <1>0, <2>1, <2>2, <2>3, <2>4, <2>5, <2>6, PlanWriteStep
<1>10. CASE LookForPod
  <2>1. UNCHANGED <<meta, status, pods, pc, tfMeta, tfStatus>> /\ pc = "read"
    BY <1>10 DEF LookForPod, Initialized, cluster
  <2>2. ~SetupAndRun
    BY <2>1 DEF SetupAndRun, GoOn
  <2> QED
    BY <1>0, <2>1, <2>2, PlanQuietStep DEF LastIsKept
<1> QED
  BY <1>1, <1>2, <1>3, <1>4, <1>5, <1>6, <1>7, <1>8, <1>9, <1>10, RemoveOldPlanPlanned,
     SetupAndRunPlanned, FoundPodPlanned, FirstStagesPlanned, StagesEndPlanned DEF Reconcile

LEMMA StageKeepsPlanned ==
  ASSUME DeletionIsPlain, PlansAreKept, PlanInv, [Next]_vars
  PROVE  StagePlanned'
<1>1. CASE UNCHANGED vars
  <2>1. UNCHANGED <<meta, status, pc, tfMeta, tfStatus, pods>> /\ ~SetupAndRun
    BY <1>1 DEF vars, cluster, call, SetupAndRun, StartsPod, InTask, InStage, Initialized, GoOn
  <2> QED
    BY <2>1, PlanQuietStep DEF LastIsKept
<1>2. CASE Crash
  <2>1. Return /\ UNCHANGED <<meta, status, pods>> /\ ~SetupAndRun
    BY <1>2 DEF Crash, SetupAndRun, Return, GoOn
  <2> QED
    BY <2>1, PlanGoOnStep DEF Return, LastIsKept
<1> QED
  BY <1>1, <1>2, UsersPlanned, ClusterPlanned, ReconcilePlanned DEF Next

(* An apply that has started keeps the plan it was started on, and the one *)
(* that starts has one.                                                    *)
LEMMA AppliesKeepPlan ==
  ASSUME DeletionIsPlain, PlanInv, [Next]_vars
  PROVE  \A i \in PodId : pods'[i].task \in {"apply", "apply-delete"} => PlannedApply(i)'
<1>0. /\ OrderInv /\ DeletionInv /\ TypeOK
      /\ \A i \in PodId : pods[i].task \in {"apply", "apply-delete"} => PlannedApply(i)
  BY FreshPlans DEF PlanInv, RefinementInv, OrderInv, DeletionInv
<1>1. CASE ~SetupAndRun
  <2>1. \A i \in PodId : SamePod(i)
    BY <1>0, <1>1, OtherStepsKeepPods
  <2> QED
    BY <1>0, <2>1 DEF PlannedApply, IsPodOf, SamePod
<1>2. CASE SetupAndRun
  <2>1. /\ nextPod \in PodId /\ nextPod \in Nat /\ PodId \subseteq Nat
        /\ \A i \in PodId \ {nextPod} : pods'[i] = pods[i]
    BY <1>0, <1>2, SetupAndRunPods, PodNumbers
  <2>2. /\ pods'[nextPod].owner = meta.uid /\ pods'[nextPod].gen = status.stage.gen
        /\ pods'[nextPod].task = status.stage.task
    BY <1>2, StartFacts DEF PlanInv, RefinementInv
  <2>3. ASSUME NEW i \in PodId, i # nextPod, pods'[i].task \in {"apply", "apply-delete"}
        PROVE  PlannedApply(i)'
    <3>1. i < nextPod
      <4>1. pods[i].task # RunNil
        BY <2>1, <2>3, ApplyIsATask
      <4> QED
        BY <2>1, <2>3, <4>1 DEF PlanInv, RefinementInv, Counted
    <3>2. PlannedApply(i) /\ pods'[i] = pods[i]
      BY <1>0, <2>1, <2>3
    <3>3. PICK j \in PodId :
            /\ j < i /\ IsPodOf(j, pods[i].owner, pods[i].gen, PlanFor(pods[i].task))
            /\ pods[j].phase = "Succeeded"
            /\ \A k \in PodId : k >= j /\ k < i =>
                 ~IsPodOf(k, pods[i].owner, pods[i].gen, pods[i].task)
      BY <3>2 DEF PlannedApply
    <3>4. \A k \in PodId : k < i => pods'[k] = pods[k]
      BY <2>1, <3>1
    <3> QED
      BY <3>2, <3>3, <3>4 DEF PlannedApply, IsPodOf
  <2>4. ASSUME NEW i \in PodId, i = nextPod, pods'[i].task \in {"apply", "apply-delete"}
        PROVE  PlannedApply(i)'
    <3>1. /\ pods'[i].owner = meta.uid /\ pods'[i].gen = status.stage.gen
          /\ pods'[i].task = status.stage.task
      BY <2>2, <2>4
    <3>2. status.stage.task = ApplyFor(status.stage.task)
      BY <2>4, <3>1, CreateTaskIDs, DeleteTaskIDs, ListsAreInjective DEF ApplyFor
    <3>3. FreshPlan(meta.uid, status.stage.gen, status.stage.task, nextPod)
      BY <1>2, <3>2, StartsOnPlan
    <3>4. PICK j \in PodId :
            /\ j < i /\ IsPodOf(j, meta.uid, status.stage.gen, PlanFor(status.stage.task))
            /\ pods[j].phase = "Succeeded"
            /\ \A k \in PodId : k >= j /\ k < i =>
                 ~IsPodOf(k, meta.uid, status.stage.gen, ApplyFor(status.stage.task))
      BY <2>4, <3>3 DEF FreshPlan
    <3>5. \A k \in PodId : k < i => pods'[k] = pods[k]
      BY <2>1, <2>4
    <3> QED
      BY <3>1, <3>2, <3>4, <3>5 DEF PlannedApply, IsPodOf
  <2> QED
    BY <2>3, <2>4
<1> QED
  BY <1>1, <1>2

LEMMA PlanInit ==
  ASSUME Init
  PROVE  StagePlanned /\ ApplyHasFreshPlan
<1>1. /\ meta = NoMeta /\ status = EmptyStatus /\ pc = "idle"
      /\ \A i \in PodId : pods[i].task = RunNil /\ pods[i].owner = 0 /\ ~pods[i].there
  BY DEF Init, NoPod
<1>2. StagePlanned
  BY <1>1, EmptySound DEF StagePlanned, CallPlans, PlanIsReady, NoLaterPod
<1>3. ApplyHasFreshPlan
  BY <1>1, FreshPlans, NilIsNoTask, CreateTaskIDs, DeleteTaskIDs DEF TaskName
<1> QED
  BY <1>2, <1>3

LEMMA PlanStep ==
  ASSUME DeletionIsPlain, PlansAreKept, PlanInv, [Next]_vars
  PROVE  StagePlanned' /\ ApplyHasFreshPlan'
<1>1. (ApplyHasFreshPlan <=>
         \A i \in PodId : pods[i].task \in {"apply", "apply-delete"} => PlannedApply(i))'
  BY FreshPlans, PTL
<1>2. ApplyHasFreshPlan'
  BY <1>1, AppliesKeepPlan
<1> QED
  BY <1>2, StageKeepsPlanned

(* The plans of a state that keeps them are there when they are needed:    *)
(* the invariant behind the next theorem, inductive together with that of  *)
(* the refinement.                                                         *)
THEOREM PlanInvariant ==
  ASSUME DeletionIsPlain, PlansAreKept
  PROVE  Spec => []PlanInv
<1>1. Init => StagePlanned /\ ApplyHasFreshPlan
  BY PlanInit
<1>2. RefinementInv /\ StagePlanned /\ ApplyHasFreshPlan /\ [Next]_vars
        => StagePlanned' /\ ApplyHasFreshPlan'
  <2> SUFFICES ASSUME RefinementInv, StagePlanned, ApplyHasFreshPlan, [Next]_vars
               PROVE  StagePlanned' /\ ApplyHasFreshPlan'
    OBVIOUS
  <2>1. PlanInv
    BY DEF PlanInv, StagePlanned
  <2> QED
    BY <2>1, PlanStep
<1>3. Spec => []RefinementInv
  BY RefinementInvariant DEF PlansAreKept
<1>4. RefinementInv /\ StagePlanned /\ ApplyHasFreshPlan => PlanInv
  BY DEF PlanInv, StagePlanned
<1> QED
  BY <1>1, <1>2, <1>3, <1>4, PTL DEF Spec

(* An apply acts on a plan of its own generation that succeeded, and no    *)
(* other apply acted on that plan before it: what startOrRestart,          *)
(* removeOldPlan and setNewStage are to ensure together, wherever a call   *)
(* stops and whichever writes, creations and lists fail.  PlansAreKept     *)
(* leaves out what does break it: a delete of the old plan's pod or a look *)
(* for the failed apply's pod that fails, and pods deleted by hand between *)
(* that look and the list, or before the failure is recorded.              *)
THEOREM AppliesHaveFreshPlans ==
  ASSUME DeletionIsPlain, PlansAreKept
  PROVE  Spec => []ApplyHasFreshPlan
<1>1. PlanInv => ApplyHasFreshPlan
  BY DEF PlanInv
<1> QED
  BY <1>1, PlanInvariant, PTL

-----------------------------------------------------------------------------
(***************************************************************************)
(* The plugins.  A job once created is remembered in the plugins of the    *)
(* status as long as its generation is the one of the stage, and no copy   *)
(* that a call writes loses a plugin of that generation.                   *)
(***************************************************************************)
JobsKnown ==
  /\ meta.uid <= uids
  /\ \A j \in jobs :
       /\ ~j.again /\ j.owner # 0 /\ j.owner <= uids
       /\ j.owner = meta.uid => j.gen <= status.stage.gen
       /\ j.owner = meta.uid /\ j.gen = status.stage.gen => j.plugin \in status.plugins

CallPlugins ==
  /\ pc \in {"restart", "started", "plugins"} =>
       tfStatus.plugins = status.plugins /\ tfStatus.stage.gen = status.stage.gen
  /\ pc \in {"started", "plugins"} =>
       tfMeta.gen = status.stage.gen /\ deferred \cap status.plugins = {}

PluginInv == OrderInv /\ JobsKnown /\ CallPlugins

(* A write of a status that is lost would let its plugins start again.     *)
WritesSucceed == "status" \notin Faults

KeepsPlugins(d) ==
  \/ d.stage.gen > status.stage.gen
  \/ d.stage.gen = status.stage.gen /\ status.plugins \subseteq d.plugins

LEMMA StatusIsWritten ==
  ASSUME WritesSucceed, DeletionInv, pc # "idle", tfMeta.finalizer,
         NEW d, NEW next, NEW failed, NEW requeue,
         UpdateStatusWithRetry(d, next, failed, requeue)
  PROVE  meta.uid # 0 /\ status' = d /\ GoOn(next, d)
<1>1. meta.uid # 0
  BY DEF DeletionInv, DeletionSound, CallHoldsResource, ResourceExists
<1>2. ~Fault("status")
  BY DEF WritesSucceed, Fault
<1> QED
  BY <1>1, <1>2 DEF UpdateStatusWithRetry

(* The jobs stay known under a step that starts at most the jobs that its  *)
(* write of the status accounts for.                                       *)
LEMMA JobsStayKnown ==
  ASSUME TypeOK, JobsKnown, status' \in Status, KeepsPlugins(status'),
         meta'.uid = meta.uid, UNCHANGED uids,
         \A j \in jobs' \ jobs :
           /\ ~j.again /\ meta.uid # 0 /\ j.owner = meta.uid
           /\ j.gen = status'.stage.gen /\ j.plugin \in status'.plugins
  PROVE  JobsKnown'
<1>1. /\ status.stage.gen \in Nat /\ status'.stage.gen \in Nat /\ status'.stage.gen \in Int
      /\ \A j \in jobs : j.gen \in Nat
  BY DEF TypeOK, Status, Stage, Job
<1>2. ASSUME NEW j \in jobs'
      PROVE  /\ ~j.again /\ j.owner # 0 /\ j.owner <= uids
             /\ j.owner = meta.uid => j.gen <= status'.stage.gen
             /\ j.owner = meta.uid /\ j.gen = status'.stage.gen => j.plugin \in status'.plugins
  <2>1. CASE j \in jobs
    BY <1>1, <2>1 DEF JobsKnown, KeepsPlugins
  <2>2. CASE j \notin jobs
    <3>1. /\ ~j.again /\ j.owner # 0 /\ j.owner <= uids
          /\ j.gen = status'.stage.gen /\ j.plugin \in status'.plugins
      BY <2>2 DEF JobsKnown
    <3> QED
      BY <1>1, <3>1
  <2> QED
    BY <2>1, <2>2
<1> QED
  BY <1>2 DEF JobsKnown

LEMMA PluginWriteStep ==
  ASSUME WritesSucceed, PluginInv, pc # "idle", tfMeta.finalizer,
         NEW d \in Status, KeepsPlugins(d),
         NEW next \in {"idle", "remove"}, NEW failed, NEW requeue,
         UpdateStatusWithRetry(d, next, failed, requeue), UNCHANGED <<meta, uids, jobs>>
  PROVE  JobsKnown' /\ CallPlugins'
<1>1. DeletionInv /\ TypeOK
  BY DEF PluginInv, OrderInv, DeletionInv
<1>2. status' = d /\ GoOn(next, d)
  BY <1>1, StatusIsWritten
<1>3. JobsKnown'
  BY <1>1, <1>2, JobsStayKnown DEF PluginInv
<1> QED
  BY <1>2, <1>3 DEF CallPlugins, GoOn

(* A step that leaves the status, the jobs and the resource alone.         *)
LEMMA PluginQuietStep ==
  ASSUME PluginInv, UNCHANGED <<status, uids, jobs>>, meta'.uid = meta.uid
  PROVE  JobsKnown'
BY DEF PluginInv, JobsKnown

(* What a call makes of the plugins.                                       *)
LEMMA PreparedPlugins ==
  ASSUME DeletionIsPlain, PluginInv, Initialized
  PROVE  /\ pc = "read" /\ tfMeta.finalizer /\ tfMeta \in Meta /\ prepared \in Status
         /\ prepared.stage = status.stage /\ prepared.plugins = status.plugins
         /\ status.stage.gen \in Nat /\ prepared.stage.gen <= tfMeta.gen
<1>1. /\ pc = "read" /\ tfMeta.finalizer /\ tfMeta \in Meta /\ prepared \in Status
      /\ prepared.stage = status.stage /\ tfStatus = status
  BY ReadyCall DEF PluginInv
<1>2. prepared = MarkedDeletion(tfMeta, tfStatus)
  BY <1>1, NoRetries DEF prepared, Prepared
<1>3. status \in Status /\ Sound(tfMeta, prepared)
  BY WorkingCall DEF PluginInv, OrderInv, DeletionInv, TypeOK
<1>4. MarkedDeletion(tfMeta, status).plugins = status.plugins
  BY <1>3 DEF MarkedDeletion, Status
<1> HIDE DEF prepared
<1> QED
  BY <1>1, <1>2, <1>3, <1>4 DEF Sound, Status, Stage

LEMMA NewStagePlugins ==
  ASSUME DeletionIsPlain, PluginInv, Initialized, NEW n \in newStage
  PROVE  /\ n \in Status /\ KeepsPlugins(n)
         /\ IsRestart(n) => n.stage.gen = status.stage.gen /\ n.plugins = status.plugins
<1>1. /\ ~IsRetry(tfMeta, tfStatus) /\ PodMissed(prepared) \in BOOLEAN /\ n \in Status
  BY NoRetries, WorkingNewStage DEF PluginInv, OrderInv, DeletionInv, TypeOK, PodMissed, PodGone
<1>2. /\ tfMeta \in Meta /\ prepared \in Status
      /\ prepared.stage = status.stage /\ prepared.plugins = status.plugins
      /\ status.stage.gen \in Nat /\ prepared.stage.gen <= tfMeta.gen
  BY PreparedPlugins
<1>3. n \in CheckSetNewStage(tfMeta, prepared, FALSE, PodMissed(prepared))
  BY <1>1 DEF newStage, CheckSetNewStage
<1> HIDE DEF prepared
<1>4. CASE IsNewGeneration(tfMeta, prepared)
  <2>1. n = GenerationStage(tfMeta, prepared)
    BY <1>3, <1>4 DEF CheckSetNewStage
  <2>2. n.stage.gen = tfMeta.gen /\ ~IsRestart(n)
    BY <1>2, <2>1 DEF GenerationStage, NewStage, IsRestart, Status
  <2>3. tfMeta.gen \in Nat /\ tfMeta.gen # prepared.stage.gen
    BY <1>2, <1>4 DEF Meta, IsNewGeneration
  <2> QED
    BY <1>1, <1>2, <2>2, <2>3 DEF KeepsPlugins
<1>5. CASE ~IsNewGeneration(tfMeta, prepared)
  <2>1. PICK task, reason, interruptible, state :
          /\ reason # "GENERATION_CHANGE"
          /\ n = NewStage(tfMeta, prepared, task, reason, interruptible, state)
    BY <1>3, <1>5 DEF CheckSetNewStage, CompletedStage, RestartStage
  <2>2. n.stage.gen = tfMeta.gen /\ n.plugins = prepared.plugins
    BY <1>2, <2>1 DEF NewStage, Status
  <2> QED
    BY <1>1, <1>2, <1>5, <2>2 DEF KeepsPlugins, IsNewGeneration
<1> QED
  BY <1>4, <1>5

LEMMA DuePlugins ==
  ASSUME DeletionIsPlain, PluginInv, StartsPod
  PROVE  /\ pc = "read" /\ prepared \in Status
         /\ prepared.stage = status.stage /\ prepared.plugins = status.plugins
         /\ tfMeta.gen = status.stage.gen /\ PluginsDue(prepared) \cap status.plugins = {}
<1>1. /\ Initialized /\ newStage = {} /\ prepared.stage.state # "in-progress"
  BY DEF StartsPod, InTask, InStage
<1>2. ~IsRetry(tfMeta, tfStatus)
  BY NoRetries DEF PluginInv, OrderInv, DeletionInv, TypeOK
<1>3. /\ pc = "read" /\ prepared \in Status
      /\ prepared.stage = status.stage /\ prepared.plugins = status.plugins
  BY <1>1, PreparedPlugins
<1>4. CheckSetNewStage(tfMeta, prepared, FALSE, PodMissed(prepared)) = {}
  BY <1>1, <1>2 DEF newStage, CheckSetNewStage
<1> HIDE DEF prepared
<1>5. prepared.stage.gen = tfMeta.gen
  BY <1>1, <1>4 DEF CheckSetNewStage, IsLocked, IsNewGeneration
<1> QED
  BY <1>3, <1>5 DEF PluginsDue

LEMMA UsersKnowJobs ==
  ASSUME DeletionIsPlain, PluginInv, Users
  PROVE  JobsKnown' /\ CallPlugins'
<1>0. /\ CallHoldsResource /\ ResourceExists /\ uids \in Nat /\ meta \in Meta
      /\ \A j \in jobs : j.owner \in Nat
  BY DEF PluginInv, OrderInv, DeletionInv, TypeOK, DeletionSound, Job
<1>1. CASE CreateResource
  <2>1. /\ meta.uid = 0 /\ meta'.uid = uids + 1 /\ uids' = uids + 1 /\ UNCHANGED <<jobs, call>>
    BY <1>1 DEF CreateResource
  <2>2. JobsKnown'
    BY <1>0, <2>1 DEF PluginInv, JobsKnown
  <2>3. pc \in {"idle", "read"}
    BY <1>0, <2>1 DEF CallHoldsResource, ResourceExists
  <2> QED
    BY <2>1, <2>2, <2>3 DEF CallPlugins, call
<1>2. CASE EditSpec \/ SetLabel \/ \E i \in PodId : DeletePod(i)
  <2>1. UNCHANGED <<status, uids, jobs, call>> /\ meta'.uid = meta.uid
    BY <1>0, <1>2 DEF EditSpec, SetLabel, DeletePod, Meta
  <2> QED
    BY <2>1, PluginQuietStep DEF PluginInv, CallPlugins, call
<1>3. CASE DeleteResource
  <2>1. UNCHANGED <<uids, jobs, call>>
    BY <1>3 DEF DeleteResource
  <2>2. CASE meta.finalizer
    <3>1. UNCHANGED status /\ meta'.uid = meta.uid
      BY <1>0, <1>3, <2>2 DEF DeleteResource, Meta
    <3> QED
      BY <2>1, <3>1, PluginQuietStep DEF PluginInv, CallPlugins, call
  <2>3. CASE ~meta.finalizer
    <3>1. meta'.uid = 0
      BY <1>3, <2>3 DEF DeleteResource, NoMeta
    <3>2. JobsKnown'
      BY <1>0, <2>1, <3>1 DEF PluginInv, JobsKnown
    <3>3. pc \in {"idle", "read"}
      BY <1>0, <2>3 DEF CallHoldsResource
    <3> QED
      BY <2>1, <3>2, <3>3 DEF CallPlugins, call
  <2> QED
    BY <2>2, <2>3
<1> QED
  BY <1>1, <1>2, <1>3 DEF Users

LEMMA ClusterKnowsJobs ==
  ASSUME PluginInv, Cluster
  PROVE  JobsKnown' /\ CallPlugins'
<1>1. UNCHANGED <<meta, status, uids, jobs, call>>
  BY DEF Cluster, PodStarts, PodEnds, PodSucceeds, PodFails, SetPhase, CollectPod, InformerLists,
    CollectBundle, Resync
<1> QED
  BY <1>1, PluginQuietStep DEF PluginInv, CallPlugins, call

(* The calls that only read or edit the stage.                             *)
LEMMA StageWritesKeepPlugins ==
  ASSUME DeletionIsPlain, WritesSucceed, PluginInv,
         \/ InitializeStatus \/ AddFirstStage \/ SetNewStage \/ RestartWorkflow
         \/ EndWorkflow \/ ResetStage \/ \E i \in PodId : FoundPod(i)
  PROVE  JobsKnown' /\ CallPlugins'
<1>0. /\ OrderInv /\ DeletionInv /\ CallHoldsResource /\ CallPlugins
      /\ status \in Status /\ tfStatus \in Status /\ tfMeta \in Meta /\ pods \in [PodId -> Pod]
  BY DEF PluginInv, OrderInv, DeletionInv, TypeOK, DeletionSound
<1>1. CASE InitializeStatus \/ AddFirstStage
  <2> DEFINE first == [tfStatus EXCEPT !.prefix = tfMeta.uid, !.phase = "initializing"]
             d == IF tfStatus.prefix = 0 THEN first ELSE FirstStage(tfMeta, tfStatus)
  <2>1. /\ pc = "read" /\ tfStatus.phase # "deleted" /\ tfStatus.stage.gen = 0
        /\ UpdatedFinalizer(tfMeta, tfStatus) = tfMeta.finalizer /\ UNCHANGED <<meta, uids, jobs>>
        /\ \E requeue : UpdateStatusWithRetry(d, "idle", "idle", requeue)
    BY <1>0, <1>1 DEF InitializeStatus, AddFirstStage, Initialized, OrderInv, OrderSound, Ready
  <2>2. /\ tfMeta.finalizer /\ tfStatus = status /\ tfMeta.gen > 0
    BY <1>0, <2>1, PastFinalizer DEF DeletionInv, DeletionSound, CallHoldsResource, ResourceExists
  <2>3. first \in Status /\ KeepsPlugins(first)
    BY <1>0, <2>2 DEF Status, Meta, Phases, KeepsPlugins
  <2>4. FirstStage(tfMeta, tfStatus) \in Status /\ KeepsPlugins(FirstStage(tfMeta, tfStatus))
    <3>1. /\ FirstStage(tfMeta, tfStatus) \in Status
          /\ FirstStage(tfMeta, tfStatus).stage.gen = tfMeta.gen
      BY <1>0, FirstStageType DEF FirstStage, NewStage, Status
    <3> QED
      BY <2>1, <2>2, <3>1 DEF KeepsPlugins
  <2> HIDE DEF first
  <2>5. d \in Status /\ KeepsPlugins(d)
    BY <2>3, <2>4
  <2> HIDE DEF d
  <2> QED
    BY <2>1, <2>2, <2>5, PluginWriteStep
<1>2. CASE SetNewStage
  <2>1. PICK n \in newStage : UpdateStatusWithRetry(n, "idle", "idle", FALSE)
    BY <1>2 DEF SetNewStage
  <2>2. Initialized /\ UNCHANGED <<meta, uids, jobs>>
    BY <1>2 DEF SetNewStage
  <2>3. pc = "read" /\ tfMeta.finalizer /\ n \in Status /\ KeepsPlugins(n)
    BY <2>2, PreparedPlugins, NewStagePlugins
  <2> QED
    BY <2>1, <2>2, <2>3, PluginWriteStep
<1>3. CASE RestartWorkflow
  <2>1. /\ pc = "restart" /\ UNCHANGED <<meta, uids, jobs>>
        /\ UpdateStatusWithRetry(tfStatus, "idle", "idle", FALSE)
    BY <1>3 DEF RestartWorkflow
  <2>2. tfMeta.finalizer /\ KeepsPlugins(tfStatus)
    BY <1>0, <2>1 DEF CallPlugins, CallHoldsResource, KeepsPlugins
  <2> QED
    BY <1>0, <2>1, <2>2, PluginWriteStep
<1>4. CASE EndWorkflow \/ ResetStage
  <2> DEFINE ended == [prepared EXCEPT !.phase = IF @ = "running" THEN "completed" ELSE "deleted"]
             reset == [prepared EXCEPT !.stage.state = "initializing"]
  <2>1. /\ Initialized /\ UNCHANGED <<meta, uids, jobs>>
        /\ \/ UpdateStatusWithRetry(ended, "idle", "idle", TRUE)
           \/ UpdateStatusWithRetry(reset, "idle", "idle", TRUE)
    BY <1>4 DEF EndWorkflow, ResetStage, InTask, InStage
  <2>2. /\ pc = "read" /\ tfMeta.finalizer /\ prepared \in Status
        /\ prepared.stage = status.stage /\ prepared.plugins = status.plugins
    BY <2>1, PreparedPlugins
  <2> HIDE DEF prepared
  <2>3. ended \in Status /\ reset \in Status
    BY <2>2 DEF Status, Stage, Phases, StageStates
  <2>4. KeepsPlugins(ended) /\ KeepsPlugins(reset)
    BY <2>2 DEF KeepsPlugins, Status, Stage
  <2> HIDE DEF ended, reset
  <2> QED
    BY <2>1, <2>2, <2>3, <2>4, PluginWriteStep
<1>5. CASE \E i \in PodId : FoundPod(i)
  <2>1. PICK i \in PodId : FoundPod(i)
    BY <1>5
  <2> DEFINE state == StageStateOf(pods[i].phase)
             d == [prepared EXCEPT !.stage.state = state, !.stage.podName = i]
             next == IF pods[i].phase = "Succeeded" /\ ~KeepPods THEN "remove" ELSE "idle"
  <2>2. /\ Initialized /\ UNCHANGED <<meta, uids, jobs>>
        /\ UpdateStatusWithRetry(d, next, "idle", TRUE)
    BY <2>1 DEF FoundPod, InTask, InStage
  <2>3. /\ pc = "read" /\ tfMeta.finalizer /\ prepared \in Status
        /\ prepared.stage = status.stage /\ prepared.plugins = status.plugins
    BY <2>2, PreparedPlugins
  <2>4. /\ state \in StageStates /\ next \in {"idle", "remove"} /\ i \in Nat
    BY <1>0, PodNumbers DEF StageStateOf, Pod, PodPhases, StageStates
  <2> HIDE DEF prepared, state, next
  <2>5. d \in Status /\ KeepsPlugins(d)
    BY <2>3, <2>4 DEF KeepsPlugins, Status, Stage
  <2> HIDE DEF d
  <2> QED
    BY <2>2, <2>3, <2>4, <2>5, PluginWriteStep
<1> QED
  BY <1>1, <1>2, <1>3, <1>4, <1>5

(* The pod of the task and the plugins that are due with it.               *)
LEMMA DeferralKeepsPlugins ==
  ASSUME DeletionIsPlain, PluginInv, SetupAndRun \/ SetupFails
  PROVE  JobsKnown' /\ CallPlugins'
<1> DEFINE d == [prepared EXCEPT
                   !.phase = IF @ = "initializing" THEN "running"
                             ELSE IF @ = "initializing-delete" THEN "deleting"
                             ELSE @,
                   !.stage.state = "in-progress"]
<1>1. /\ StartsPod /\ UNCHANGED <<meta, status, uids, jobs>> /\ deferred' = PluginsDue(prepared)
      /\ GoOn("started", d) \/ GoOn(AfterRun, prepared)
  BY DEF SetupAndRun, SetupFails
<1>2. AfterRun \in {"idle", "plugins"}
  BY DEF AfterRun
<1>3. /\ prepared \in Status
      /\ prepared.stage = status.stage /\ prepared.plugins = status.plugins
      /\ tfMeta.gen = status.stage.gen /\ deferred' \cap status.plugins = {}
  BY <1>1, DuePlugins
<1> HIDE DEF prepared
<1>4. d.stage.gen = prepared.stage.gen /\ d.plugins = prepared.plugins
  BY <1>3 DEF Status, Stage
<1> HIDE DEF d
<1>5. JobsKnown'
  BY <1>1, PluginQuietStep
<1> QED
  BY <1>1, <1>2, <1>3, <1>4, <1>5 DEF CallPlugins, GoOn

(* The writes after the pod has started, and after each plugin.            *)
LEMMA LaterWritesKeepPlugins ==
  ASSUME WritesSucceed, PluginInv,
         SaveStarted \/ \E p \in PluginNames : CreatePluginJob(p)
  PROVE  JobsKnown' /\ CallPlugins'
<1>0. /\ DeletionInv /\ TypeOK /\ JobsKnown /\ status \in Status /\ tfStatus \in Status
      /\ AfterRun \in {"idle", "plugins"}
  BY DEF PluginInv, OrderInv, DeletionInv, TypeOK, AfterRun
<1>1. /\ pc \in {"started", "plugins"} /\ tfMeta.finalizer /\ tfMeta.uid = meta.uid
      /\ tfStatus.plugins = status.plugins /\ tfStatus.stage.gen = status.stage.gen
      /\ tfMeta.gen = status.stage.gen /\ deferred \cap status.plugins = {}
      /\ meta.uid # 0
  <2>1. pc \in {"started", "plugins"}
    BY DEF SaveStarted, CreatePluginJob
  <2> QED
    BY <1>0, <2>1 DEF PluginInv, CallPlugins, DeletionInv, DeletionSound, CallHoldsResource,
      ResourceExists
<1>2. CASE SaveStarted
  <2>1. /\ UNCHANGED <<meta, uids, jobs, deferred>>
        /\ UpdateStatusWithRetry(tfStatus, AfterRun, AfterRun, TRUE)
    BY <1>2 DEF SaveStarted
  <2>2. status' = tfStatus /\ GoOn(AfterRun, tfStatus)
    BY <1>0, <1>1, <2>1, StatusIsWritten
  <2>3. KeepsPlugins(tfStatus)
    BY <1>1 DEF KeepsPlugins
  <2>4. JobsKnown'
    BY <1>0, <2>1, <2>2, <2>3, JobsStayKnown
  <2> QED
    BY <1>0, <1>1, <2>1, <2>2, <2>4 DEF CallPlugins, GoOn
<1>3. CASE \E p \in PluginNames : CreatePluginJob(p)
  <2>1. PICK p \in PluginNames : CreatePluginJob(p)
    BY <1>3
  <2> DEFINE d == [tfStatus EXCEPT !.plugins = @ \cup {p}]
             first == [plugin |-> p, owner |-> tfMeta.uid, gen |-> tfMeta.gen, again |-> FALSE]
             job == [first EXCEPT !.again = first \in jobs]
  <2>2. /\ UNCHANGED <<meta, uids>> /\ p \in deferred /\ deferred' = deferred \ {p}
        /\ jobs' = jobs \cup {job} \/ jobs' = jobs
        /\ UpdateStatusWithRetry(d, AfterRun, AfterRun, FALSE)
    BY <2>1 DEF CreatePluginJob
  <2>3. /\ d \in Status /\ d.stage = tfStatus.stage /\ d.plugins = tfStatus.plugins \cup {p}
    BY <1>0 DEF Status
  <2>4. first \notin jobs
    BY <1>0, <1>1, <2>2 DEF JobsKnown
  <2>5. job.plugin = p /\ job.owner = meta.uid /\ job.gen = status.stage.gen /\ ~job.again
    BY <1>1, <2>4
  <2> HIDE DEF d, first, job
  <2>6. status' = d /\ GoOn(AfterRun, d)
    BY <1>0, <1>1, <2>2, StatusIsWritten
  <2>7. KeepsPlugins(d)
    BY <1>1, <2>3 DEF KeepsPlugins
  <2>8. ASSUME NEW j \in jobs' \ jobs
        PROVE  /\ ~j.again /\ meta.uid # 0 /\ j.owner = meta.uid
               /\ j.gen = status'.stage.gen /\ j.plugin \in status'.plugins
    <3>1. j = job
      BY <2>2, <2>8
    <3> QED
      BY <1>1, <2>3, <2>5, <2>6, <3>1
  <2>9. JobsKnown'
    BY <1>0, <2>2, <2>3, <2>6, <2>7, <2>8, JobsStayKnown
  <2>10. deferred' \cap d.plugins = {}
    BY <1>1, <2>2, <2>3
  <2> QED
    BY <1>0, <1>1, <2>3, <2>6, <2>9, <2>10 DEF CallPlugins, GoOn
<1> QED
  BY <1>2, <1>3

LEMMA ReconcileKnowsJobs ==
  ASSUME DeletionIsPlain, WritesSucceed, PluginInv, Reconcile
  PROVE  JobsKnown' /\ CallPlugins'
<1>1. CASE GetResource \/ ResourceNotFound
  <2>1. UNCHANGED <<meta, status, uids, jobs>> /\ pc' \in {"idle", "read"}
    BY <1>1 DEF GetResource, ResourceNotFound, call
  <2> QED
    BY <2>1, PluginQuietStep DEF CallPlugins
<1>2. CASE UpdateFinalizer
  <2>1. pc' = "idle" /\ UNCHANGED <<uids, jobs>>
    BY <1>2 DEF UpdateFinalizer, Return, GoOn
  <2>2. \/ UNCHANGED status /\ meta'.uid = meta.uid
        \/ meta' = NoMeta
    BY <1>2, UpdateFinalizerResult DEF PluginInv, OrderInv
  <2>3. CASE UNCHANGED status /\ meta'.uid = meta.uid
    BY <2>1, <2>3, PluginQuietStep DEF CallPlugins
  <2>4. CASE meta' = NoMeta
    <3>1. meta'.uid = 0 /\ uids \in Nat
      BY <2>4 DEF NoMeta, PluginInv, OrderInv, DeletionInv, TypeOK
    <3> QED
      BY <2>1, <3>1 DEF PluginInv, JobsKnown, CallPlugins
  <2> QED
    BY <2>2, <2>3, <2>4
<1>3. CASE RemoveOldPlan
  <2>1. PICK n \in newStage : IsRestart(n) /\ GoOn("restart", n)
    BY <1>3 DEF RemoveOldPlan
  <2>2. Initialized /\ UNCHANGED <<meta, status, uids, jobs>>
    BY <1>3 DEF RemoveOldPlan
  <2>3. n.stage.gen = status.stage.gen /\ n.plugins = status.plugins
    BY <2>1, <2>2, NewStagePlugins
  <2> QED
    BY <2>1, <2>2, <2>3, PluginQuietStep DEF CallPlugins, GoOn
<1>4. CASE NothingToDo \/ ListFails \/ RemovePod
  <2>1. Return /\ UNCHANGED <<meta, status, uids, jobs>>
    BY <1>4 DEF NothingToDo, ListFails, RemovePod, cluster
  <2> QED
    BY <2>1, PluginQuietStep DEF Return, GoOn, CallPlugins
<1>5. CASE LookForPod
  <2>1. UNCHANGED <<meta, status, uids, jobs>> /\ pc' = "read"
    BY <1>5 DEF LookForPod, Initialized, cluster
  <2> QED
    BY <2>1, PluginQuietStep DEF CallPlugins
<1> QED
  BY <1>1, <1>2, <1>3, <1>4, <1>5, StageWritesKeepPlugins, DeferralKeepsPlugins,
     LaterWritesKeepPlugins DEF Reconcile

LEMMA PluginsKeep ==
  ASSUME DeletionIsPlain, WritesSucceed, PluginInv, [Next]_vars
  PROVE  JobsKnown' /\ CallPlugins'
<1>1. CASE UNCHANGED vars
  <2>1. UNCHANGED <<meta, status, uids, jobs, call>>
    BY <1>1 DEF vars, cluster
  <2> QED
    BY <2>1, PluginQuietStep DEF PluginInv, CallPlugins, call
<1>2. CASE Crash
  <2>1. Return /\ UNCHANGED <<meta, status, uids, jobs>>
    BY <1>2 DEF Crash
  <2> QED
    BY <2>1, PluginQuietStep DEF Return, GoOn, CallPlugins
<1> QED
  BY <1>1, <1>2, UsersKnowJobs, ClusterKnowsJobs, ReconcileKnowsJobs DEF Next

(* The plugin jobs of a state are remembered in its status, and a call     *)
(* that starts plugins knows those that were started: the invariant behind *)
(* the next theorem.                                                       *)
THEOREM PluginInvariant ==
  ASSUME DeletionIsPlain, WritesSucceed
  PROVE  Spec => []PluginInv
<1>1. Init => JobsKnown /\ CallPlugins
  BY DEF Init, NoMeta, JobsKnown, CallPlugins
<1>2. OrderInv /\ JobsKnown /\ CallPlugins /\ [Next]_vars => JobsKnown' /\ CallPlugins'
  BY PluginsKeep DEF PluginInv
<1>3. OrderInv /\ JobsKnown /\ CallPlugins => PluginInv
  BY DEF PluginInv
<1> QED
  BY <1>1, <1>2, <1>3, OrderInvariant, PTL DEF Spec

(* createPluginJob makes a plugin's job once for each generation of a      *)
(* resource: whatever creations fail, however often the task's pod is      *)
(* started again, and wherever a call stops between two of its steps.  The *)
(* step that makes the job also writes the status that remembers it.       *)
THEOREM PluginsRunOnce ==
  ASSUME DeletionIsPlain, WritesSucceed
  PROVE  Spec => []PluginsRunOncePerGeneration
<1>1. PluginInv => PluginsRunOncePerGeneration
  BY DEF PluginInv, JobsKnown, PluginsRunOncePerGeneration
<1> QED
  BY <1>1, PluginInvariant, PTL
=============================================================================
