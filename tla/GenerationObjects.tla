--------------------------- MODULE GenerationObjects -------------------------
(***************************************************************************)
(* The objects the pods of a generation mount or run under, one API call   *)
(* at a time: setupAndRun creates them with the first stage of a           *)
(* generation and looks them up with the later ones, and, when the spec    *)
(* asks to keep the latest pods only, every new stage starts a goroutine,  *)
(* backgroundReapOldGenerationPods, that removes the pods and then the     *)
(* objects of other generations.                                           *)
(*                                                                         *)
(* The decisions of Reconcile are those of TerraformController; here a     *)
(* workflow is its first task, setup, and some later ones, and a stage is  *)
(* read and written in one step.                                           *)
(***************************************************************************)
EXTENDS Integers, Sequences

CONSTANTS
  KeepLatestPodsOnly,  \* spec.keepLatestPodsOnly
  LastTask,            \* the workflow is the tasks 1..LastTask, 1 is setup
  MaxAttempts,         \* a reaper's attempts: 21 in the code
  MaxGen, MaxPods, MaxReapers, MaxFaults  \* bounds

ASSUME ObjectsAssumption ==
  /\ KeepLatestPodsOnly \in BOOLEAN
  /\ LastTask \in Nat \ {0} /\ MaxGen \in Nat \ {0}
  /\ MaxAttempts \in Nat /\ MaxPods \in Nat
  /\ MaxReapers \in Nat /\ MaxFaults \in Nat

(* The kinds in the order of run's calls that create them, of its calls    *)
(* that look them up, and of the reaper's calls that remove them.          *)
Created == <<"GlobalEnv", "PersistentVolumeClaim", "Secret", "ConfigMap",
             "RoleBinding", "Role", "ServiceAccount", "OutputsSecret">>

LookedUp == <<"PersistentVolumeClaim", "ConfigMap", "Secret", "RoleBinding", "Role",
              "ServiceAccount">>

Reaped == <<{"ConfigMap"}, {"Secret", "OutputsSecret"}, {"Role"}, {"RoleBinding"},
            {"ServiceAccount"}>>

Kinds == {Created[i] : i \in 1..8}

(* The global environment and the claim have names without a generation;   *)
(* the other objects are named after it and carry it as a label.           *)
Unversioned == {"GlobalEnv", "PersistentVolumeClaim"}
Versioned == Kinds \ Unversioned
Recreated == Versioned \ {"OutputsSecret"}

Object(kind, g) == [kind |-> kind, gen |-> IF kind \in Unversioned THEN 0 ELSE g]

VARIABLES
  gen,      \* the generation of the resource
  stage,    \* status.stage
  call,     \* the running call of setupAndRun: place, step and tf.Generation
  objects,  \* the objects in the API server
  reaped,   \* those that a reaper removed last
  pods, nextPod,
  reapers, nextReaper, \* the reaper goroutines, by order of their start
  faults    \* failed API calls so far

vars == <<gen, stage, call, objects, reaped, pods, nextPod, reapers, nextReaper, faults>>

PodId == 1..MaxPods
ReaperId == 1..MaxReapers
PodPhases == {"Pending", "Running", "Succeeded", "Failed"}

Idle == [pc |-> "idle", step |-> 0, gen |-> 0]
NoPod == [gen |-> 0, task |-> 0, phase |-> "Pending", there |-> FALSE]
NoReaper == [pc |-> "done", gen |-> 0, attempt |-> 0, step |-> 0]

TypeOK ==
  /\ gen \in 1..MaxGen
  /\ stage \in [gen: 0..MaxGen, task: 0..LastTask,
                state: {"initializing", "in-progress", "complete", "failed",
                        "Pending", "Running"}]
  /\ call \in [pc: {"idle", "delete", "create", "lookup", "pod"}, step: 0..9, gen: 0..MaxGen]
  /\ objects \subseteq {Object(k, g) : k \in Kinds, g \in 1..MaxGen}
  /\ reaped \subseteq {Object(k, g) : k \in Versioned, g \in 1..MaxGen}
  /\ pods \in [PodId -> [gen: 0..MaxGen, task: 0..LastTask, phase: PodPhases, there: BOOLEAN]]
  /\ nextPod \in 1..(MaxPods + 1)
  /\ reapers \in [ReaperId -> [pc: {"done", "get", "pods", "list", "objects"},
                               gen: 0..MaxGen, attempt: 0..MaxAttempts, step: 0..5]]
  /\ nextReaper \in 1..(MaxReapers + 1)
  /\ faults \in 0..MaxFaults

Init ==
  /\ gen = 1
  /\ stage = [gen |-> 1, task |-> 1, state |-> "initializing"]
  /\ call = Idle
  /\ objects = {} /\ reaped = {}
  /\ pods = [i \in PodId |-> NoPod] /\ nextPod = 1
  /\ reapers = [r \in ReaperId |-> NoReaper] /\ nextReaper = 1
  /\ faults = 0

Fault == faults < MaxFaults /\ faults' = faults + 1

-----------------------------------------------------------------------------
(* Users and kubelet.  A pod starts when what it mounts is there.          *)
EditSpec ==
  /\ gen < MaxGen
  /\ gen' = gen + 1
  /\ UNCHANGED <<stage, call, objects, reaped, pods, nextPod, reapers, nextReaper, faults>>

SetPhase(i, phase) ==
  /\ pods' = [pods EXCEPT ![i].phase = phase]
  /\ UNCHANGED <<gen, stage, call, objects, reaped, nextPod, reapers, nextReaper, faults>>

PodStarts(i) ==
  /\ pods[i].there /\ pods[i].phase = "Pending"
  /\ \A k \in {"PersistentVolumeClaim", "ConfigMap", "Secret"} :
       Object(k, pods[i].gen) \in objects
  /\ SetPhase(i, "Running")

PodEnds(i) ==
  /\ pods[i].there /\ pods[i].phase = "Running"
  /\ \E phase \in {"Succeeded", "Failed"} : SetPhase(i, phase)

-----------------------------------------------------------------------------
(***************************************************************************)
(* Reconcile: a new stage, the state of the stage's pod.  The stage in     *)
(* progress is held unless it is the setup of a changed spec.              *)
(***************************************************************************)
StagePods ==
  {i \in PodId : pods[i].there /\ pods[i].gen = stage.gen /\ pods[i].task = stage.task}

IsLocked == stage.state = "in-progress" /\ (stage.task > 1 \/ stage.gen = 1)

StartReaper ==
  IF KeepLatestPodsOnly
  THEN /\ nextReaper <= MaxReapers
       /\ reapers' = [reapers EXCEPT ![nextReaper] = [NoReaper EXCEPT !.pc = "get"]]
       /\ nextReaper' = nextReaper + 1
  ELSE UNCHANGED <<reapers, nextReaper>>

SetNewStage ==
  /\ call.pc = "idle"
  /\ \/ /\ stage.gen # gen /\ ~IsLocked
        /\ stage' = [gen |-> gen, task |-> 1, state |-> "initializing"]
     \/ /\ stage.gen = gen /\ stage.state = "complete" /\ stage.task < LastTask
        /\ stage' = [stage EXCEPT !.task = @ + 1, !.state = "initializing"]
  /\ StartReaper
  /\ UNCHANGED <<gen, call, objects, reaped, pods, nextPod, faults>>

InStage == call.pc = "idle" /\ (stage.gen = gen \/ IsLocked)
           /\ ~(stage.gen = gen /\ stage.state = "complete")

FoundPod(i) ==
  /\ InStage /\ i \in StagePods
  /\ stage' = [stage EXCEPT !.state = IF pods[i].phase = "Failed" THEN "failed"
                                      ELSE IF pods[i].phase = "Succeeded" THEN "complete"
                                      ELSE pods[i].phase]
  /\ pods' = [pods EXCEPT ![i].there = KeepLatestPodsOnly \/ pods[i].phase # "Succeeded"]
  /\ UNCHANGED <<gen, call, objects, reaped, nextPod, reapers, nextReaper, faults>>

ResetStage ==
  /\ InStage /\ StagePods = {} /\ stage.state = "in-progress"
  /\ stage' = [stage EXCEPT !.state = "initializing"]
  /\ UNCHANGED <<gen, call, objects, reaped, pods, nextPod, reapers, nextReaper, faults>>

-----------------------------------------------------------------------------
(***************************************************************************)
(* setupAndRun.  Any API call may fail; then the call ends with the error  *)
(* and Reconcile is run again.                                             *)
(***************************************************************************)
SetupAndRun ==
  /\ InStage /\ StagePods = {} /\ stage.state # "in-progress"
  /\ call' = [pc |-> IF stage.task = 1 THEN "create" ELSE "lookup", step |-> 1, gen |-> gen]
  /\ UNCHANGED <<gen, stage, objects, reaped, pods, nextPod, reapers, nextReaper, faults>>

Fails == Fault /\ call' = Idle /\ UNCHANGED <<objects, reaped>>

ToStep(n) ==
  [call EXCEPT !.step = n,
               !.pc = IF n > Len(Created) THEN "pod"
                      ELSE IF Created[n] \in Recreated THEN "delete"
                      ELSE "create"]

(* A bug: the call goes on after an object could not be created.           *)
ToNextAnyway == Fault /\ call' = ToStep(call.step + 1) /\ UNCHANGED <<objects, reaped>>

CreateFails == Fails

(* deleteSecretIfExists and its likes look into a cache, which may not yet *)
(* show an object that is there.                                           *)
DeleteIfExists ==
  /\ call.pc = "delete"
  /\ \/ /\ objects' = objects \ {Object(Created[call.step], call.gen)}
        /\ call' = [call EXCEPT !.pc = "create"]
        /\ UNCHANGED <<reaped, faults>>
     \/ Fault /\ call' = [call EXCEPT !.pc = "create"] /\ UNCHANGED <<objects, reaped>>
     \/ Fails
  /\ UNCHANGED <<gen, stage, pods, nextPod, reapers, nextReaper>>

(* A bug: an outputs secret that is there stands in the way.               *)
OutputsInTheWay(o) == o \in objects /\ o.kind \notin Unversioned

InTheWay(o) == o \in objects /\ o.kind \in Recreated

(* createSecret and its likes.  An object that is not recreated may exist. *)
(* createPVC reports success when it cannot look the claim up.             *)
CreateObject ==
  /\ call.pc = "create"
  /\ LET o == Object(Created[call.step], call.gen)
     IN  \/ /\ ~InTheWay(o)
            /\ objects' = objects \cup {o} /\ reaped' = reaped \ {o}
            /\ call' = ToStep(call.step + 1)
            /\ UNCHANGED faults
         \/ /\ InTheWay(o)
            /\ call' = Idle
            /\ UNCHANGED <<objects, reaped, faults>>
         \/ CreateFails
         \/ /\ o.kind = "PersistentVolumeClaim" /\ Fault
            /\ call' = ToStep(call.step + 1)
            /\ UNCHANGED <<objects, reaped>>
  /\ UNCHANGED <<gen, stage, pods, nextPod, reapers, nextReaper>>

LookUp ==
  /\ call.pc = "lookup"
  /\ \/ /\ call' = IF Object(LookedUp[call.step], call.gen) \notin objects THEN Idle
                   ELSE IF call.step = Len(LookedUp) THEN [call EXCEPT !.pc = "pod"]
                   ELSE [call EXCEPT !.step = @ + 1]
        /\ UNCHANGED <<objects, reaped, faults>>
     \/ Fails
  /\ UNCHANGED <<gen, stage, pods, nextPod, reapers, nextReaper>>

CreatePod ==
  /\ call.pc = "pod"
  /\ \/ /\ nextPod <= MaxPods
        /\ pods' = [pods EXCEPT ![nextPod] = [gen |-> stage.gen, task |-> stage.task,
                                              phase |-> "Pending", there |-> TRUE]]
        /\ nextPod' = nextPod + 1
        /\ stage' = [stage EXCEPT !.state = "in-progress"]
        /\ call' = Idle
        /\ UNCHANGED <<objects, reaped, faults>>
     \/ Fails /\ UNCHANGED <<pods, nextPod, stage>>
  /\ UNCHANGED <<gen, reapers, nextReaper>>

-----------------------------------------------------------------------------
(***************************************************************************)
(* backgroundReapOldGenerationPods: it reads the resource, removes the     *)
(* pods of every other generation that are not running, and, when no pod   *)
(* of another generation is left, their objects kind by kind.  Otherwise   *)
(* it sleeps and tries again; an error ends it.                            *)
(***************************************************************************)
Others(r) == {i \in PodId : pods[i].there /\ pods[i].gen # reapers[r].gen}

(* A bug: one attempt too many.                                            *)
GivesUpLate(r) == reapers[r].attempt > MaxAttempts

GivesUp(r) == reapers[r].attempt >= MaxAttempts

ReaperGet(r) ==
  /\ reapers[r].pc = "get"
  /\ reapers' = [reapers EXCEPT ![r] =
                   IF GivesUp(r) THEN NoReaper ELSE [@ EXCEPT !.pc = "pods", !.gen = gen]]
  /\ UNCHANGED <<gen, stage, call, objects, reaped, pods, nextPod, nextReaper, faults>>

ReaperFails(r) ==
  /\ reapers[r].pc \in {"get", "pods", "list", "objects"}
  /\ Fault
  /\ reapers' = [reapers EXCEPT ![r] = NoReaper]
  /\ UNCHANGED <<gen, stage, call, objects, reaped, pods, nextPod, nextReaper>>

ReapPods(r) ==
  /\ reapers[r].pc = "pods"
  /\ pods' = [i \in PodId |->
                [pods[i] EXCEPT !.there = @ /\ (i \in Others(r) => pods[i].phase = "Running")]]
  /\ reapers' = [reapers EXCEPT ![r].pc = "list"]
  /\ UNCHANGED <<gen, stage, call, objects, reaped, nextPod, nextReaper, faults>>

ListPods(r) ==
  /\ reapers[r].pc = "list"
  /\ reapers' = [reapers EXCEPT ![r] =
                   IF Others(r) # {} THEN [reapers[r] EXCEPT !.pc = "get", !.attempt = @ + 1]
                   ELSE [@ EXCEPT !.pc = "objects", !.step = 1]]
  /\ UNCHANGED <<gen, stage, call, objects, reaped, pods, nextPod, nextReaper, faults>>

ReapObjects(r) ==
  /\ reapers[r].pc = "objects"
  /\ LET old == {o \in objects : /\ o.kind \in Reaped[reapers[r].step]
                                 /\ o.gen # reapers[r].gen}
     IN  objects' = objects \ old /\ reaped' = reaped \cup old
  /\ reapers' = [reapers EXCEPT ![r] = IF @.step = Len(Reaped) THEN NoReaper
                                       ELSE [reapers[r] EXCEPT !.step = @ + 1]]
  /\ UNCHANGED <<gen, stage, call, pods, nextPod, nextReaper, faults>>

-----------------------------------------------------------------------------
Reconcile ==
  \/ SetNewStage \/ ResetStage \/ (\E i \in PodId : FoundPod(i))
  \/ SetupAndRun \/ DeleteIfExists \/ CreateObject \/ LookUp \/ CreatePod

Reaper(r) == ReaperGet(r) \/ ReapPods(r) \/ ListPods(r) \/ ReapObjects(r) \/ ReaperFails(r)

Next ==
  \/ EditSpec
  \/ \E i \in PodId : PodStarts(i) \/ PodEnds(i)
  \/ Reconcile
  \/ \E r \in ReaperId : Reaper(r)

Spec == Init /\ [][Next]_vars

(* A call that returned an error is run again.                             *)
FairSpec == Spec /\ WF_vars(Reconcile)

-----------------------------------------------------------------------------
(* A pod is created only with every object of its generation in place,     *)
(* whatever failed on the way; only a reaper may have removed one.         *)
PodFindsItsObjects ==
  [][nextPod' # nextPod =>
       \A k \in Versioned :
         Object(k, pods'[nextPod].gen) \in objects \cup reaped]_vars

(* A setup that failed half-way is completed by a later call: no object    *)
(* that an earlier one left behind stands in its way.                      *)
SetupIsRetriable == stage.gen = gen ~> \E i \in PodId : pods[i].gen = gen

(* "Only after the pods are cleaned up, clean up other associated          *)
(* resources" (backgroundReapOldGenerationPods).                           *)
OldObjectsOutliveTheirPods ==
  [][\A o \in reaped' \ reaped :
       o.gen < gen => ~\E i \in PodId : pods[i].there /\ pods[i].gen = o.gen]_vars
=============================================================================
