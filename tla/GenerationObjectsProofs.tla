------------------------ MODULE GenerationObjectsProofs -----------------------
(***************************************************************************)
(* No pod is created before the objects of its generation, for any number  *)
(* of tasks, generations, pods, reapers and failed calls.                  *)
(***************************************************************************)
EXTENDS GenerationObjects, TLAPS

-----------------------------------------------------------------------------
(* The type invariant needs to know how far a place of the code can be.    *)
CallInRange ==
  /\ call.pc \in {"create", "delete"} => call.step \in 1..8
  /\ call.pc = "lookup" => call.step \in 1..6
  /\ call.pc # "idle" => call.gen \in 1..MaxGen

ReapersInRange ==
  \A r \in ReaperId :
    /\ reapers[r].pc \in {"pods", "list"} => reapers[r].attempt < MaxAttempts
    /\ reapers[r].pc = "objects" => reapers[r].step \in 1..5

StageInRange == stage.gen \in 1..MaxGen /\ stage.task \in 1..LastTask

RangeInv == TypeOK /\ CallInRange /\ ReapersInRange /\ StageInRange

(* Every object of generation g was created, and only a reaper may have    *)
(* removed it since.                                                       *)
Kept(k, g) == Object(k, g) \in objects \cup reaped

Complete(g) == \A k \in Versioned : Kept(k, g)

(* A call works on the stage, which is held meanwhile and has no pod; a    *)
(* call that creates is at setup, and has created what it has passed.      *)
CallIsOfStage ==
  call.pc # "idle" =>
    /\ call.gen = stage.gen /\ StagePods = {} /\ stage.state # "complete"
    /\ call.pc \in {"create", "delete"} =>
         /\ stage.task = 1
         /\ \A n \in 1..8 :
              n < call.step /\ Created[n] \in Versioned => Kept(Created[n], call.gen)
    /\ call.pc = "lookup" => stage.task # 1
    /\ call.pc = "pod" => Complete(call.gen)

(* What says that the set up of the stage's generation is over.            *)
SetupIsOver ==
  stage.task # 1 \/ stage.state = "complete" \/ StagePods # {} => Complete(stage.gen)

(* Generations only grow.                                                  *)
GenerationsGrow ==
  /\ stage.gen <= gen
  /\ \A i \in PodId : pods[i].gen <= stage.gen

ObjectsInv == RangeInv /\ CallIsOfStage /\ SetupIsOver /\ GenerationsGrow

-----------------------------------------------------------------------------
(* The tables of kinds.                                                    *)
LEMMA Tables ==
  /\ Len(Created) = 8 /\ Len(LookedUp) = 6 /\ Len(Reaped) = 5
  /\ \A n \in 1..8 : Created[n] \in Kinds
  /\ \A k \in Kinds : \E n \in 1..8 : Created[n] = k
  /\ \A m, n \in 1..8 : Created[m] = Created[n] => m = n
  /\ \A n \in 1..5 : Reaped[n] \subseteq Versioned
  /\ Versioned \subseteq Kinds
<1>1. Len(Created) = 8 /\ Len(LookedUp) = 6 /\ Len(Reaped) = 5
  BY DEF Created, LookedUp, Reaped
<1>2. \A n \in 1..8 : Created[n] \in Kinds
  BY DEF Kinds
<1>3. \A k \in Kinds : \E n \in 1..8 : Created[n] = k
  BY DEF Kinds
<1>4. /\ Created[1] = "GlobalEnv" /\ Created[2] = "PersistentVolumeClaim"
      /\ Created[3] = "Secret" /\ Created[4] = "ConfigMap" /\ Created[5] = "RoleBinding"
      /\ Created[6] = "Role" /\ Created[7] = "ServiceAccount" /\ Created[8] = "OutputsSecret"
  BY DEF Created
<1>5. \A n \in 1..8 : n = 1 \/ n = 2 \/ n = 3 \/ n = 4 \/ n = 5 \/ n = 6 \/ n = 7 \/ n = 8
  OBVIOUS
<1>6. \A m, n \in 1..8 : Created[m] = Created[n] => m = n
  BY <1>4, <1>5
<1>7. /\ {"ConfigMap", "Secret", "OutputsSecret", "Role", "RoleBinding", "ServiceAccount"}
           \subseteq Versioned
  BY <1>2, <1>4 DEF Versioned, Unversioned
<1>8. /\ Reaped[1] = {"ConfigMap"} /\ Reaped[2] = {"Secret", "OutputsSecret"}
      /\ Reaped[3] = {"Role"} /\ Reaped[4] = {"RoleBinding"} /\ Reaped[5] = {"ServiceAccount"}
  BY DEF Reaped
<1>9. \A n \in 1..5 : n = 1 \/ n = 2 \/ n = 3 \/ n = 4 \/ n = 5
  OBVIOUS
<1>10. \A n \in 1..5 : Reaped[n] \subseteq Versioned
  BY <1>7, <1>8, <1>9
<1> QED
  BY <1>1, <1>2, <1>3, <1>6, <1>10 DEF Versioned

LEMMA Objects ==
  /\ \A k, g : Object(k, g).kind = k
  /\ \A k \in Versioned : \A g : Object(k, g).gen = g
BY DEF Object, Versioned

LEMMA StepReached ==
  ASSUME TypeOK, CallInRange, call.pc \in {"create", "delete"}, call' = ToStep(call.step + 1)
  PROVE  /\ call'.step = call.step + 1 /\ call'.gen = call.gen
         /\ call'.pc \in {"create", "delete", "pod"}
         /\ call'.pc = "pod" <=> call.step = 8
BY Tables DEF ToStep, TypeOK, CallInRange

-----------------------------------------------------------------------------
(* Types and ranges.                                                       *)
CallType == [pc: {"idle", "delete", "create", "lookup", "pod"}, step: 0..9, gen: 0..MaxGen]

LEMMA CallSteps ==
  ASSUME RangeInv
  PROVE  /\ SetupAndRun => call' \in CallType /\ CallInRange'
         /\ DeleteIfExists => call' \in CallType /\ CallInRange'
         /\ CreateObject => call' \in CallType /\ CallInRange'
         /\ LookUp => call' \in CallType /\ CallInRange'
         /\ CreatePod => call' \in CallType /\ CallInRange'
<1> USE DEF RangeInv
<1>0. call \in CallType /\ gen \in 1..MaxGen /\ MaxGen \in Nat
  BY ObjectsAssumption DEF TypeOK, CallType
<1>1. call' = Idle => call' \in CallType /\ CallInRange'
  BY <1>0 DEF Idle, CallType, CallInRange
<1>2. call.pc \in {"create", "delete"} /\ call' = ToStep(call.step + 1)
        => call' \in CallType /\ CallInRange'
  <2> SUFFICES ASSUME call.pc \in {"create", "delete"}, call' = ToStep(call.step + 1)
               PROVE  call' \in CallType /\ CallInRange'
    OBVIOUS
  <2>1. /\ call'.step = call.step + 1 /\ call'.gen = call.gen
        /\ call'.pc \in {"create", "delete", "pod"}
        /\ call'.pc = "pod" <=> call.step = 8
    BY StepReached
  <2>2. call.step \in 1..8 /\ call.gen \in 1..MaxGen
    BY DEF CallInRange
  <2>3. \E p \in {"create", "delete", "pod"} :
          call' = [call EXCEPT !.step = call.step + 1, !.pc = p]
    BY DEF ToStep
  <2>4. call' \in CallType
    <3>1. PICK p \in {"create", "delete", "pod"} :
            call' = [call EXCEPT !.step = call.step + 1, !.pc = p]
      BY <2>3
    <3>2. call.step + 1 \in 0..9
      BY <2>2
    <3> QED
      BY <1>0, <3>1, <3>2 DEF CallType
  <2> QED
    BY <2>1, <2>2, <2>4 DEF CallInRange
<1>3. SetupAndRun => call' \in CallType /\ CallInRange'
  BY <1>0 DEF SetupAndRun, CallType, CallInRange
<1>4. DeleteIfExists => call' \in CallType /\ CallInRange'
  <2>1. call.pc = "delete" /\ call' = [call EXCEPT !.pc = "create"]
          => call' \in CallType /\ CallInRange'
    BY <1>0 DEF CallType, CallInRange
  <2> QED
    BY <1>1, <2>1 DEF DeleteIfExists, Fails
<1>5. CreateObject => call' \in CallType /\ CallInRange'
  BY <1>1, <1>2 DEF CreateObject, CreateFails, Fails
<1>6. LookUp => call' \in CallType /\ CallInRange'
  <2>1. call.pc = "lookup" /\ call' = [call EXCEPT !.pc = "pod"]
          => call' \in CallType /\ CallInRange'
    BY <1>0 DEF CallType, CallInRange
  <2>2. call.pc = "lookup" /\ call.step # Len(LookedUp) /\ call' = [call EXCEPT !.step = @ + 1]
          => call' \in CallType /\ CallInRange'
    BY <1>0, Tables DEF CallType, CallInRange
  <2> QED
    BY <1>1, <2>1, <2>2 DEF LookUp, Fails
<1>7. CreatePod => call' \in CallType /\ CallInRange'
  BY <1>1 DEF CreatePod, Fails
<1> QED
  BY <1>3, <1>4, <1>5, <1>6, <1>7

ObjectsType ==
  /\ objects \subseteq {Object(k, g) : k \in Kinds, g \in 1..MaxGen}
  /\ reaped \subseteq {Object(k, g) : k \in Versioned, g \in 1..MaxGen}

LEMMA ObjectSteps ==
  ASSUME RangeInv
  PROVE  /\ DeleteIfExists => ObjectsType'
         /\ CreateObject => ObjectsType'
         /\ \A r \in ReaperId : ReapObjects(r) => ObjectsType'
<1> USE DEF RangeInv
<1>0. ObjectsType
  BY DEF TypeOK, ObjectsType
<1>1. DeleteIfExists => ObjectsType'
  BY <1>0 DEF DeleteIfExists, Fails, ObjectsType
<1>2. CreateObject => ObjectsType'
  <2> SUFFICES ASSUME CreateObject PROVE ObjectsType'
    OBVIOUS
  <2> DEFINE o == Object(Created[call.step], call.gen)
  <2>1. o \in {Object(k, g) : k \in Kinds, g \in 1..MaxGen}
    BY Tables DEF CreateObject, CallInRange
  <2> HIDE DEF o
  <2>2. \/ UNCHANGED <<objects, reaped>>
        \/ objects' = objects \cup {o} /\ reaped' = reaped \ {o}
    BY DEF CreateObject, CreateFails, Fails, o
  <2> QED
    BY <1>0, <2>1, <2>2 DEF ObjectsType
<1>3. ASSUME NEW r \in ReaperId, ReapObjects(r) PROVE ObjectsType'
  <2> DEFINE old == {o \in objects : /\ o.kind \in Reaped[reapers[r].step]
                                     /\ o.gen # reapers[r].gen}
  <2>1. objects' = objects \ old /\ reaped' = reaped \cup old
    BY <1>3 DEF ReapObjects
  <2>2. Reaped[reapers[r].step] \subseteq Versioned
    BY <1>3, Tables DEF ReapObjects, ReapersInRange
  <2>3. old \subseteq {Object(k, g) : k \in Versioned, g \in 1..MaxGen}
    BY <1>0, <2>2, Objects DEF ObjectsType
  <2> QED
    BY <1>0, <2>1, <2>3 DEF ObjectsType
<1> QED
  BY <1>1, <1>2, <1>3

ReaperType == [pc: {"done", "get", "pods", "list", "objects"},
               gen: 0..MaxGen, attempt: 0..MaxAttempts, step: 0..5]

ReapersType == reapers \in [ReaperId -> ReaperType]

(* What a reaper may become.                                               *)
ReaperInRange(q) ==
  /\ q \in ReaperType
  /\ q.pc \in {"pods", "list"} => q.attempt < MaxAttempts
  /\ q.pc = "objects" => q.step \in 1..5

LEMMA ReaperChanges ==
  ASSUME RangeInv, NEW r \in ReaperId, NEW q, ReaperInRange(q),
         reapers' = [reapers EXCEPT ![r] = q]
  PROVE  ReapersType' /\ ReapersInRange'
<1>1. reapers \in [ReaperId -> ReaperType]
  BY DEF RangeInv, TypeOK, ReaperType
<1>2. \A j \in ReaperId : reapers'[j] = IF j = r THEN q ELSE reapers[j]
  BY <1>1
<1>3. ReapersType'
  BY <1>1 DEF ReapersType, ReaperInRange
<1> QED
  BY <1>2, <1>3 DEF ReapersInRange, ReaperInRange, RangeInv

LEMMA ReaperSteps ==
  ASSUME RangeInv, NEW r \in ReaperId, Reaper(r)
  PROVE  ReapersType' /\ ReapersInRange'
<1> DEFINE q == reapers[r]
<1>0. /\ q \in ReaperType /\ gen \in 0..MaxGen /\ MaxAttempts \in Nat /\ ReaperInRange(q)
  BY ObjectsAssumption DEF RangeInv, TypeOK, ReaperType, ReaperInRange, ReapersInRange
<1>00. q.attempt \in 0..MaxAttempts /\ q.step \in 0..5
  BY <1>0 DEF ReaperType
<1>1. ReaperInRange(NoReaper)
  BY ObjectsAssumption DEF NoReaper, ReaperInRange, ReaperType
<1>2. CASE ReaperGet(r)
  <2> DEFINE next == [q EXCEPT !.pc = "pods", !.gen = gen]
  <2>1. reapers' = [reapers EXCEPT ![r] = IF GivesUp(r) THEN NoReaper ELSE next]
    BY <1>2 DEF ReaperGet
  <2>2. ~GivesUp(r) => q.attempt < MaxAttempts
    BY <1>0, <1>00 DEF GivesUp
  <2>3. next \in ReaperType /\ next.pc = "pods" /\ next.attempt = q.attempt
    BY <1>0 DEF ReaperType
  <2>4. ~GivesUp(r) => ReaperInRange(next)
    BY <2>2, <2>3 DEF ReaperInRange
  <2> HIDE DEF next
  <2> QED
    BY <1>1, <2>1, <2>4, ReaperChanges
<1>3. CASE ReaperFails(r)
  BY <1>1, <1>3, ReaperChanges DEF ReaperFails
<1>4. CASE ReapPods(r)
  <2> DEFINE next == [q EXCEPT !.pc = "list"]
  <2>1. reapers' = [reapers EXCEPT ![r] = next]
    BY <1>4 DEF ReapPods
  <2>2. ReaperInRange(next)
    BY <1>0, <1>4 DEF ReapPods, ReaperInRange, ReaperType
  <2> HIDE DEF next
  <2> QED
    BY <2>1, <2>2, ReaperChanges
<1>5. CASE ListPods(r)
  <2> DEFINE again == [q EXCEPT !.pc = "get", !.attempt = q.attempt + 1]
             next == [q EXCEPT !.pc = "objects", !.step = 1]
  <2>1. reapers' = [reapers EXCEPT ![r] = again] \/ reapers' = [reapers EXCEPT ![r] = next]
    BY <1>5 DEF ListPods
  <2>2. q.attempt + 1 \in 0..MaxAttempts
    BY <1>0, <1>00, <1>5 DEF ListPods, ReaperInRange
  <2>3. again \in ReaperType /\ again.pc = "get"
    BY <1>0, <2>2 DEF ReaperType
  <2>4. next \in ReaperType
    <3>1. q \in ReaperType /\ 1 \in 0..5
      BY <1>0
    <3> HIDE DEF q
    <3> QED
      BY <3>1 DEF ReaperType
  <2>5. next.pc = "objects" /\ next.step = 1
    BY <1>0 DEF ReaperType
  <2> HIDE DEF again, next
  <2> QED
    BY <2>1, <2>3, <2>4, <2>5, ReaperChanges DEF ReaperInRange
<1>6. CASE ReapObjects(r)
  <2> DEFINE next == [q EXCEPT !.step = q.step + 1]
  <2>1. \/ reapers' = [reapers EXCEPT ![r] = NoReaper]
        \/ reapers' = [reapers EXCEPT ![r] = next] /\ q.step # 5
    BY <1>6, Tables DEF ReapObjects
  <2>2. q.step # 5 => q.step + 1 \in 1..5
    BY <1>00
  <2>3. q.step # 5 => ReaperInRange(next)
    BY <1>0, <1>6, <2>2 DEF ReapObjects, ReaperInRange, ReaperType
  <2> HIDE DEF next
  <2> QED
    BY <1>1, <2>1, <2>3, ReaperChanges
<1> QED
  BY <1>2, <1>3, <1>4, <1>5, <1>6 DEF Reaper

StageType == [gen: 0..MaxGen, task: 0..LastTask,
              state: {"initializing", "in-progress", "complete", "failed",
                      "Pending", "Running"}]

LEMMA StageSteps ==
  ASSUME RangeInv, [Next]_vars
  PROVE  stage' \in StageType /\ StageInRange'
<1>0. /\ stage \in StageType /\ StageInRange /\ gen \in 1..MaxGen
      /\ MaxGen \in Nat \ {0} /\ LastTask \in Nat \ {0}
      /\ \A i \in PodId : pods[i].phase \in PodPhases
  BY ObjectsAssumption DEF RangeInv, TypeOK, StageType
<1>1. CASE UNCHANGED stage
  BY <1>0, <1>1 DEF StageInRange
<1>2. ASSUME NEW state \in {"initializing", "in-progress", "complete", "failed",
                            "Pending", "Running"},
             stage' = [stage EXCEPT !.state = state]
      PROVE  stage' \in StageType /\ StageInRange'
  BY <1>0, <1>2 DEF StageType, StageInRange
<1>3. CASE SetNewStage
  <2>1. CASE stage' = [gen |-> gen, task |-> 1, state |-> "initializing"]
    <3>1. gen \in 0..MaxGen /\ 1 \in 1..LastTask /\ 1 \in 0..LastTask
      BY <1>0
    <3> QED
      BY <1>0, <2>1, <3>1 DEF StageType, StageInRange
  <2>2. CASE /\ stage.task < LastTask
             /\ stage' = [stage EXCEPT !.task = stage.task + 1, !.state = "initializing"]
    <3>1. stage.task + 1 \in 1..LastTask /\ stage.task + 1 \in 0..LastTask
      BY <1>0, <2>2 DEF StageInRange
    <3> QED
      BY <1>0, <2>2, <3>1 DEF StageType, StageInRange
  <2> QED
    BY <1>3, <2>1, <2>2 DEF SetNewStage
<1>4. CASE ResetStage \/ CreatePod
  BY <1>1, <1>2, <1>4 DEF ResetStage, CreatePod
<1>5. CASE \E i \in PodId : FoundPod(i)
  <2>1. PICK i \in PodId :
          stage' = [stage EXCEPT !.state = IF pods[i].phase = "Failed" THEN "failed"
                                           ELSE IF pods[i].phase = "Succeeded" THEN "complete"
                                           ELSE pods[i].phase]
    BY <1>5 DEF FoundPod
  <2>2. pods[i].phase \in {"Pending", "Running", "Succeeded", "Failed"}
    BY <1>0 DEF PodPhases
  <2> QED
    BY <1>2, <2>1, <2>2
<1>6. CASE UNCHANGED vars
  BY <1>1, <1>6 DEF vars
<1> QED
  BY <1>1, <1>3, <1>4, <1>5, <1>6 DEF Next, EditSpec, PodStarts, PodEnds, SetPhase, Reconcile,
     SetupAndRun, DeleteIfExists, CreateObject, LookUp, Reaper, ReaperGet, ReaperFails,
     ReapPods, ListPods, ReapObjects

PodType == [gen: 0..MaxGen, task: 0..LastTask, phase: PodPhases, there: BOOLEAN]

(* Pods keep what they are for and do not come back; a new one is that of  *)
(* the stage.                                                              *)
NewPod == [gen |-> stage.gen, task |-> stage.task, phase |-> "Pending", there |-> TRUE]

CreatesPod ==
  /\ CreatePod /\ nextPod <= MaxPods /\ nextPod' = nextPod + 1
  /\ pods' = [pods EXCEPT ![nextPod] = NewPod]

KeepsPods ==
  /\ pods' \in [PodId -> PodType] /\ UNCHANGED nextPod
  /\ \A i \in PodId : /\ pods'[i].gen = pods[i].gen /\ pods'[i].task = pods[i].task
                      /\ pods'[i].there => pods[i].there

LEMMA PodSteps ==
  ASSUME RangeInv, [Next]_vars
  PROVE  KeepsPods \/ CreatesPod
<1>0. pods \in [PodId -> PodType] /\ \A i \in PodId : pods[i] \in PodType
  BY DEF RangeInv, TypeOK, PodType
<1>1. UNCHANGED <<pods, nextPod>> => KeepsPods
  BY <1>0 DEF KeepsPods
<1>2. ASSUME NEW i \in PodId, NEW phase \in PodPhases,
             pods' = [pods EXCEPT ![i].phase = phase], UNCHANGED nextPod
      PROVE  KeepsPods
  BY <1>0, <1>2 DEF KeepsPods, PodType
<1>3. ASSUME NEW i \in PodId, PodStarts(i) \/ PodEnds(i) PROVE KeepsPods
  <2>1. \E phase \in PodPhases : SetPhase(i, phase)
    BY <1>3 DEF PodStarts, PodEnds, PodPhases
  <2> QED
    BY <1>2, <2>1 DEF SetPhase
<1>4. ASSUME NEW i \in PodId, FoundPod(i) PROVE KeepsPods
  <2> DEFINE there == KeepLatestPodsOnly \/ pods[i].phase # "Succeeded"
  <2>1. /\ pods' = [pods EXCEPT ![i].there = there] /\ pods[i].there /\ UNCHANGED nextPod
    BY <1>4 DEF FoundPod, StagePods
  <2>2. there \in BOOLEAN
    OBVIOUS
  <2> HIDE DEF there
  <2> QED
    BY <1>0, <2>1, <2>2 DEF KeepsPods, PodType
<1>5. ASSUME NEW r \in ReaperId, ReapPods(r) PROVE KeepsPods
  <2> DEFINE stays == [i \in PodId |-> i \in Others(r) => pods[i].phase = "Running"]
  <2>1. /\ pods' = [i \in PodId |-> [pods[i] EXCEPT !.there = @ /\ stays[i]]]
        /\ UNCHANGED nextPod
    BY <1>5 DEF ReapPods
  <2>2. stays \in [PodId -> BOOLEAN]
    OBVIOUS
  <2> HIDE DEF stays
  <2> QED
    BY <1>0, <2>1, <2>2 DEF KeepsPods, PodType
<1>6. CreatePod => CreatesPod \/ UNCHANGED <<pods, nextPod>>
  BY DEF CreatePod, CreatesPod, NewPod
<1>7. CASE UNCHANGED vars
  BY <1>1, <1>7 DEF vars
<1> QED
  BY <1>1, <1>3, <1>4, <1>5, <1>6, <1>7 DEF Next, EditSpec, Reconcile, SetNewStage, ResetStage,
     SetupAndRun, DeleteIfExists, CreateObject, LookUp, Reaper, ReaperGet, ReaperFails,
     ListPods, ReapObjects

LEMMA NewPodIs ==
  ASSUME RangeInv, CreatesPod
  PROVE  /\ nextPod \in PodId /\ pods' \in [PodId -> PodType] /\ nextPod' \in 1..(MaxPods + 1)
         /\ \A i \in PodId : pods'[i] = IF i = nextPod THEN NewPod ELSE pods[i]
<1>1. /\ pods \in [PodId -> PodType] /\ nextPod \in 1..(MaxPods + 1) /\ MaxPods \in Nat
      /\ stage.gen \in 0..MaxGen /\ stage.task \in 0..LastTask
  BY ObjectsAssumption DEF RangeInv, TypeOK, PodType
<1>2. NewPod \in PodType
  BY <1>1 DEF NewPod, PodType, PodPhases
<1>3. nextPod \in PodId /\ nextPod' \in 1..(MaxPods + 1)
  BY <1>1 DEF CreatesPod, PodId
<1> QED
  BY <1>1, <1>2, <1>3 DEF CreatesPod

LEMMA RangeInit == Init => RangeInv
<1> SUFFICES ASSUME Init PROVE RangeInv
  OBVIOUS
<1>0. /\ MaxGen \in Nat \ {0} /\ LastTask \in Nat \ {0} /\ MaxPods \in Nat
      /\ MaxReapers \in Nat /\ MaxAttempts \in Nat /\ MaxFaults \in Nat
  BY ObjectsAssumption
<1>1. call \in CallType /\ CallInRange
  BY <1>0 DEF Init, Idle, CallType, CallInRange
<1>2. stage \in StageType /\ StageInRange
  BY <1>0 DEF Init, StageType, StageInRange
<1>3. pods \in [PodId -> PodType]
  BY <1>0 DEF Init, NoPod, PodType, PodPhases
<1>4. reapers \in [ReaperId -> ReaperType] /\ ReapersInRange
  BY <1>0 DEF Init, NoReaper, ReaperType, ReapersInRange
<1>5. /\ gen \in 1..MaxGen /\ nextPod \in 1..(MaxPods + 1)
      /\ nextReaper \in 1..(MaxReapers + 1) /\ faults \in 0..MaxFaults
      /\ objects = {} /\ reaped = {}
  BY <1>0 DEF Init
<1> QED
  BY <1>1, <1>2, <1>3, <1>4, <1>5
     DEF RangeInv, TypeOK, CallType, StageType, PodType, ReaperType

LEMMA CounterSteps ==
  ASSUME RangeInv, [Next]_vars
  PROVE  /\ gen' \in 1..MaxGen /\ nextReaper' \in 1..(MaxReapers + 1)
         /\ faults' \in 0..MaxFaults /\ ReapersType' /\ ReapersInRange'
<1>0. /\ gen \in 1..MaxGen /\ nextReaper \in 1..(MaxReapers + 1) /\ faults \in 0..MaxFaults
      /\ MaxGen \in Nat /\ MaxReapers \in Nat /\ MaxFaults \in Nat
      /\ reapers \in [ReaperId -> ReaperType] /\ ReapersInRange
  BY ObjectsAssumption DEF RangeInv, TypeOK, ReaperType
<1>1. gen' \in 1..MaxGen
  <2>1. UNCHANGED gen \/ EditSpec
    BY DEF Next, PodStarts, PodEnds, SetPhase, Reconcile, SetNewStage, ResetStage, FoundPod,
       SetupAndRun, DeleteIfExists, CreateObject, LookUp, CreatePod, Reaper, ReaperGet,
       ReaperFails, ReapPods, ListPods, ReapObjects, vars
  <2> QED
    BY <1>0, <2>1 DEF EditSpec
<1>2. Fault => faults' \in 0..MaxFaults
  BY <1>0 DEF Fault
<1>3. faults' \in 0..MaxFaults
  BY <1>0, <1>2 DEF Next, EditSpec, PodStarts, PodEnds, SetPhase, Reconcile, SetNewStage,
     ResetStage, FoundPod, SetupAndRun, DeleteIfExists, CreateObject, CreateFails, Fails,
     LookUp, CreatePod, Reaper, ReaperGet, ReaperFails, ReapPods, ListPods, ReapObjects, vars
<1>4. UNCHANGED reapers => ReapersType' /\ ReapersInRange'
  BY <1>0 DEF ReapersType, ReapersInRange
<1>5. CASE SetNewStage
  <2> DEFINE started == [NoReaper EXCEPT !.pc = "get"]
  <2>1. \/ UNCHANGED <<reapers, nextReaper>>
        \/ /\ nextReaper <= MaxReapers /\ nextReaper' = nextReaper + 1
           /\ reapers' = [reapers EXCEPT ![nextReaper] = started]
    BY <1>5 DEF SetNewStage, StartReaper
  <2>2. ReaperInRange(started)
    BY ObjectsAssumption DEF NoReaper, ReaperInRange, ReaperType
  <2>3. nextReaper <= MaxReapers => nextReaper \in ReaperId
    BY <1>0 DEF ReaperId
  <2> HIDE DEF started
  <2> QED
    BY <1>0, <1>1, <1>3, <1>4, <2>1, <2>2, <2>3, ReaperChanges
<1>6. CASE \E r \in ReaperId : Reaper(r)
  <2>1. UNCHANGED nextReaper
    BY <1>6 DEF Reaper, ReaperGet, ReaperFails, ReapPods, ListPods, ReapObjects
  <2> QED
    BY <1>0, <1>1, <1>3, <1>6, <2>1, ReaperSteps
<1>7. CASE ~SetNewStage /\ ~\E r \in ReaperId : Reaper(r)
  <2>1. UNCHANGED <<reapers, nextReaper>>
    BY <1>7 DEF Next, EditSpec, PodStarts, PodEnds, SetPhase, Reconcile, ResetStage, FoundPod,
       SetupAndRun, DeleteIfExists, CreateObject, LookUp, CreatePod, vars
  <2> QED
    BY <1>0, <1>1, <1>3, <1>4, <2>1
<1> QED
  BY <1>5, <1>6, <1>7

LEMMA RangeKeeps ==
  ASSUME RangeInv, [Next]_vars
  PROVE  RangeInv'
<1>1. call' \in CallType /\ CallInRange'
  <2>1. CASE UNCHANGED call
    BY <2>1 DEF RangeInv, TypeOK, CallType, CallInRange
  <2>2. CASE ~UNCHANGED call
    <3>1. SetupAndRun \/ DeleteIfExists \/ CreateObject \/ LookUp \/ CreatePod
      BY <2>2 DEF Next, EditSpec, PodStarts, PodEnds, SetPhase, Reconcile, SetNewStage,
         ResetStage, FoundPod, Reaper, ReaperGet, ReaperFails, ReapPods, ListPods, ReapObjects,
         vars
    <3> QED
      BY <3>1, CallSteps
  <2> QED
    BY <2>1, <2>2
<1>2. ObjectsType'
  <2>1. CASE UNCHANGED <<objects, reaped>>
    BY <2>1 DEF RangeInv, TypeOK, ObjectsType
  <2>2. CASE ~UNCHANGED <<objects, reaped>>
    <3>1. DeleteIfExists \/ CreateObject \/ \E r \in ReaperId : ReapObjects(r)
      BY <2>2 DEF Next, EditSpec, PodStarts, PodEnds, SetPhase, Reconcile, SetNewStage,
         ResetStage, FoundPod, SetupAndRun, LookUp, CreatePod, Fails, Reaper, ReaperGet,
         ReaperFails, ReapPods, ListPods, vars
    <3> QED
      BY <3>1, ObjectSteps
  <2> QED
    BY <2>1, <2>2
<1>3. pods' \in [PodId -> PodType] /\ nextPod' \in 1..(MaxPods + 1)
  BY PodSteps, NewPodIs DEF KeepsPods, RangeInv, TypeOK
<1> QED
  BY <1>1, <1>2, <1>3, CounterSteps, StageSteps
     DEF RangeInv, TypeOK, CallType, ObjectsType, StageType, PodType, ReapersType, ReaperType

(* TypeOK: every variable keeps its type, whatever the bounds.             *)
THEOREM ObjectsTypeCorrect == Spec => []TypeOK
<1>1. RangeInv => TypeOK
  BY DEF RangeInv
<1> QED
  BY <1>1, RangeInit, RangeKeeps, PTL DEF Spec

-----------------------------------------------------------------------------
(* Objects are taken away by a call that is about to create them anew, and *)
(* by reapers.                                                             *)
LEMMA KeptStays ==
  ASSUME RangeInv, [Next]_vars, NEW k \in Versioned, NEW g, Kept(k, g),
         ~(DeleteIfExists /\ k = Created[call.step])
  PROVE  Kept(k, g)'
<1> DEFINE o == Object(k, g)
<1>1. CASE UNCHANGED <<objects, reaped>>
  BY <1>1 DEF Kept
<1>2. CASE DeleteIfExists
  <2>1. o # Object(Created[call.step], call.gen)
    BY <1>2, Objects
  <2>2. CASE objects' = objects \ {Object(Created[call.step], call.gen)} /\ UNCHANGED reaped
    BY <2>1, <2>2 DEF Kept
  <2> QED
    BY <1>1, <1>2, <2>2 DEF DeleteIfExists, Fails
<1>3. CASE CreateObject
  <2>1. \/ UNCHANGED <<objects, reaped>>
        \/ \E new : objects' = objects \cup {new} /\ reaped' = reaped \ {new}
    BY <1>3 DEF CreateObject, CreateFails, Fails
  <2> QED
    BY <1>1, <2>1 DEF Kept
<1>4. CASE \E r \in ReaperId : ReapObjects(r)
  <2>1. \E old : objects' = objects \ old /\ reaped' = reaped \cup old
    BY <1>4 DEF ReapObjects
  <2> QED
    BY <2>1 DEF Kept
<1>5. CASE ~(DeleteIfExists \/ CreateObject \/ \E r \in ReaperId : ReapObjects(r))
  <2>1. UNCHANGED <<objects, reaped>>
    BY <1>5 DEF Next, EditSpec, PodStarts, PodEnds, SetPhase, Reconcile, SetNewStage,
       ResetStage, FoundPod, SetupAndRun, LookUp, CreatePod, Fails, Reaper, ReaperGet,
       ReaperFails, ReapPods, ListPods, vars
  <2> QED
    BY <1>1, <2>1
<1> QED
  BY <1>2, <1>3, <1>4, <1>5

LEMMA CompleteStays ==
  ASSUME RangeInv, [Next]_vars, ~DeleteIfExists, NEW g, Complete(g)
  PROVE  Complete(g)'
BY KeptStays DEF Complete

(* A step that is none of these leaves the call, the stage and the         *)
(* generation of the resource, but for an edit, as they are.               *)
LEMMA OtherSteps ==
  ASSUME [Next]_vars
  PROVE  \/ SetNewStage \/ ResetStage \/ (\E i \in PodId : FoundPod(i)) \/ SetupAndRun
         \/ DeleteIfExists \/ CreateObject \/ LookUp \/ CreatePod
         \/ UNCHANGED <<call, stage>> /\ gen' \in {gen, gen + 1}
BY DEF Next, EditSpec, PodStarts, PodEnds, SetPhase, Reconcile, Reaper, ReaperGet,
       ReaperFails, ReapPods, ListPods, ReapObjects, vars

LEMMA StagePodsShrink ==
  ASSUME KeepsPods, stage'.gen = stage.gen, stage'.task = stage.task
  PROVE  StagePods' \subseteq StagePods
BY DEF KeepsPods, StagePods

-----------------------------------------------------------------------------
(* A call of setupAndRun and the stage it is for.                          *)
LEMMA CallKeeps ==
  ASSUME ObjectsInv, [Next]_vars
  PROVE  CallIsOfStage'
<1> USE DEF ObjectsInv
<1>0. RangeInv /\ CallInRange
  BY DEF RangeInv
<1>1. CASE SetNewStage \/ ResetStage \/ (\E i \in PodId : FoundPod(i))
  <2>1. call.pc = "idle" /\ UNCHANGED call
    BY <1>1 DEF SetNewStage, ResetStage, FoundPod, InStage
  <2> QED
    BY <2>1 DEF CallIsOfStage
<1>2. CASE call' = Idle
  BY <1>2 DEF CallIsOfStage, Idle
<1>3. CASE SetupAndRun
  <2>1. /\ stage.gen = gen /\ stage.state # "complete" /\ StagePods = {}
        /\ call'.step = 1 /\ call'.gen = gen /\ UNCHANGED <<stage, objects, reaped, pods>>
        /\ call'.pc = IF stage.task = 1 THEN "create" ELSE "lookup"
    BY <1>3 DEF SetupAndRun, InStage, IsLocked
  <2>2. StagePods' = {}
    BY <2>1 DEF StagePods
  <2>3. \A n \in 1..8 : ~(n < 1)
    OBVIOUS
  <2> QED
    BY <2>1, <2>2, <2>3 DEF CallIsOfStage
<1>4. ASSUME call.pc # "idle", UNCHANGED stage, UNCHANGED pods
      PROVE  /\ stage'.gen = call.gen /\ StagePods' = {} /\ stage'.state # "complete"
             /\ stage.task = stage'.task
  BY <1>4 DEF CallIsOfStage, StagePods
<1>5. CASE DeleteIfExists /\ call' # Idle
  <2>1. /\ call.pc = "delete" /\ call' = [call EXCEPT !.pc = "create"]
        /\ UNCHANGED <<stage, pods>>
    BY <1>5 DEF DeleteIfExists, Fails
  <2>2. call'.pc = "create" /\ call'.step = call.step /\ call'.gen = call.gen
    BY <1>0, <2>1 DEF RangeInv, TypeOK
  <2>3. call.step \in 1..8 /\ stage.task = 1
    BY <1>0, <2>1 DEF CallInRange, CallIsOfStage
  <2>4. ASSUME NEW n \in 1..8, n < call.step, Created[n] \in Versioned
        PROVE  Kept(Created[n], call.gen)'
    <3>1. Kept(Created[n], call.gen) /\ Created[n] # Created[call.step]
      BY <2>1, <2>3, <2>4, Tables DEF CallIsOfStage
    <3>2. ASSUME NEW g, g = call.gen, NEW k \in Versioned, k = Created[n]
          PROVE  Kept(k, g)'
      BY <1>0, <3>1, <3>2, KeptStays
    <3> QED
      BY <2>2, <2>4, <3>2
  <2> QED
    BY <1>4, <2>1, <2>2, <2>3, <2>4 DEF CallIsOfStage, Kept
<1>6. CASE CreateObject /\ call' # Idle
  <2> DEFINE o == Object(Created[call.step], call.gen)
  <2>1. /\ call.pc = "create" /\ call' = ToStep(call.step + 1) /\ UNCHANGED <<stage, pods>>
        /\ o \in objects' \/ Created[call.step] \notin Versioned
    <3>1. \/ o \in objects' /\ call' = ToStep(call.step + 1)
          \/ o.kind = "PersistentVolumeClaim" /\ call' = ToStep(call.step + 1)
      BY <1>6 DEF CreateObject, CreateFails, Fails
    <3>2. o.kind = Created[call.step]
      BY Objects
    <3> QED
      BY <1>6, <3>1, <3>2 DEF CreateObject, Versioned, Unversioned
  <2>2. /\ call'.step = call.step + 1 /\ call'.gen = call.gen
        /\ call'.pc \in {"create", "delete", "pod"}
        /\ call'.pc = "pod" <=> call.step = 8
    BY <1>0, <2>1, StepReached DEF RangeInv
  <2>3. call.step \in 1..8 /\ stage.task = 1
    BY <1>0, <2>1 DEF CallInRange, CallIsOfStage
  <2>4. ASSUME NEW n \in 1..8, n < call'.step, NEW k \in Versioned, k = Created[n], NEW g,
               g = call.gen
        PROVE  Kept(k, g)'
    <3>1. CASE n = call.step
      BY <2>1, <2>4, <3>1 DEF Kept
    <3>2. CASE n # call.step
      <4>1. n < call.step
        BY <2>2, <2>3, <2>4, <3>2
      <4>2. Kept(k, g) /\ k # Created[call.step]
        BY <2>1, <2>3, <2>4, <3>2, <4>1, Tables DEF CallIsOfStage
      <4> QED
        BY <1>0, <4>2, KeptStays
    <3> QED
      BY <3>1, <3>2
  <2>5. \A n \in 1..8 : n < call'.step /\ Created[n] \in Versioned => Kept(Created[n], call.gen)'
    BY <2>2, <2>4 DEF Kept
  <2>6. ASSUME call'.pc = "pod", NEW k \in Versioned PROVE Kept(k, call.gen)'
    <3>1. PICK n \in 1..8 : Created[n] = k
      BY Tables
    <3>2. n < call'.step
      BY <2>2, <2>6
    <3> QED
      BY <2>5, <3>1, <3>2
  <2> QED
    BY <1>4, <2>1, <2>2, <2>3, <2>5, <2>6 DEF CallIsOfStage, Complete, Kept
<1>7. CASE LookUp /\ call' # Idle
  <2>1. /\ call.pc = "lookup" /\ UNCHANGED <<stage, pods, objects, reaped>>
        /\ \/ call' = [call EXCEPT !.pc = "pod"]
           \/ call' = [call EXCEPT !.step = call.step + 1]
    BY <1>7 DEF LookUp, Fails
  <2>2. call'.gen = call.gen /\ call'.pc \in {"lookup", "pod"}
    BY <1>0, <2>1 DEF RangeInv, TypeOK
  <2>3. stage.task # 1 /\ Complete(stage.gen) /\ call.gen = stage.gen
    BY <2>1 DEF CallIsOfStage, SetupIsOver
  <2>4. Complete(call.gen)'
    BY <2>1, <2>2, <2>3 DEF Complete, Kept
  <2> QED
    BY <1>4, <2>1, <2>2, <2>3, <2>4 DEF CallIsOfStage
<1>8. CASE UNCHANGED <<call, stage>> /\ ~DeleteIfExists /\ ~CreatePod
  <2>1. CASE call.pc = "idle"
    BY <1>8, <2>1 DEF CallIsOfStage
  <2>2. CASE call.pc # "idle"
    <3>1. KeepsPods
      BY <1>0, <1>8, PodSteps DEF CreatesPod
    <3>2. StagePods' = {}
      BY <1>8, <2>2, <3>1, StagePodsShrink DEF CallIsOfStage
    <3>3. \A n \in 1..8 : Created[n] \in Versioned /\ Kept(Created[n], call.gen)
            => Kept(Created[n], call.gen)'
      <4>1. \A k \in Versioned : Kept(k, call.gen) => Kept(k, call.gen)'
        <5>1. ASSUME NEW g, g = call.gen, NEW k \in Versioned, Kept(k, g) PROVE Kept(k, g)'
          BY <1>0, <1>8, <5>1, KeptStays
        <5> QED
          BY <1>8, <5>1 DEF Kept
      <4> QED
        BY <1>8, <4>1 DEF Kept
    <3>4. Complete(call.gen) => Complete(call.gen)'
      <4>1. ASSUME NEW g, g = call.gen, Complete(g) PROVE Complete(g)'
        BY <1>0, <1>8, <4>1, CompleteStays
      <4> QED
        BY <1>8, <4>1 DEF Complete, Kept
    <3> QED
      BY <1>8, <2>2, <3>2, <3>3, <3>4 DEF CallIsOfStage
  <2> QED
    BY <2>1, <2>2
<1>9. CASE CreatePod
  BY <1>2, <1>9 DEF CreatePod, Fails
<1> QED
  BY <1>1, <1>2, <1>3, <1>5, <1>6, <1>7, <1>8, <1>9, OtherSteps

LEMMA SetupKeeps ==
  ASSUME ObjectsInv, [Next]_vars
  PROVE  SetupIsOver' /\ GenerationsGrow'
<1> USE DEF ObjectsInv
<1>0. /\ RangeInv /\ gen \in Nat /\ stage.gen \in Nat
      /\ stage.gen <= gen /\ \A i \in PodId : pods[i].gen \in Nat /\ pods[i].gen <= stage.gen
  BY ObjectsAssumption DEF RangeInv, TypeOK, StageInRange, GenerationsGrow
<1>1. ASSUME NEW g, g = stage.gen, g = stage'.gen, ~DeleteIfExists, Complete(g)
      PROVE  SetupIsOver'
  BY <1>0, <1>1, CompleteStays DEF SetupIsOver, Complete, Kept
<1>2. ASSUME KeepsPods, stage'.gen = stage.gen, gen' \in {gen, gen + 1}
      PROVE  GenerationsGrow'
  BY <1>0, <1>2 DEF GenerationsGrow, KeepsPods
<1>3. CASE SetNewStage
  <2>1. UNCHANGED <<gen, objects, reaped, pods>> /\ ~DeleteIfExists
    BY <1>3 DEF SetNewStage, DeleteIfExists
  <2>2. CASE stage.gen # gen /\ stage' = [gen |-> gen, task |-> 1, state |-> "initializing"]
    <3>1. \A i \in PodId : pods'[i].gen <= stage'.gen /\ pods'[i].gen # stage'.gen
      BY <1>0, <2>1, <2>2
    <3>2. StagePods' = {}
      BY <3>1 DEF StagePods
    <3> QED
      BY <2>1, <2>2, <3>1, <3>2, <1>0 DEF SetupIsOver, GenerationsGrow
  <2>3. CASE /\ stage.state = "complete"
             /\ stage' = [stage EXCEPT !.task = @ + 1, !.state = "initializing"]
    <3>1. stage'.gen = stage.gen /\ Complete(stage.gen)
      BY <2>3 DEF SetupIsOver, RangeInv, TypeOK
    <3>2. \E g : g = stage.gen
      OBVIOUS
    <3> QED
      BY <1>1, <2>1, <3>1, <3>2, <1>0 DEF GenerationsGrow
  <2> QED
    BY <1>3, <2>2, <2>3 DEF SetNewStage
<1>4. CASE ResetStage
  <2>1. /\ stage'.gen = stage.gen /\ stage'.task = stage.task /\ stage'.state = "initializing"
        /\ UNCHANGED <<gen, objects, reaped, pods>>
    BY <1>4 DEF ResetStage, RangeInv, TypeOK
  <2>2. StagePods' = StagePods
    BY <2>1 DEF StagePods
  <2> QED
    BY <1>0, <2>1, <2>2 DEF SetupIsOver, GenerationsGrow, Complete, Kept
<1>5. CASE \E i \in PodId : FoundPod(i)
  <2>1. /\ stage'.gen = stage.gen /\ StagePods # {} /\ UNCHANGED <<gen, objects, reaped>>
        /\ ~CreatePod /\ ~DeleteIfExists
    BY <1>5 DEF FoundPod, InStage, CreatePod, DeleteIfExists, RangeInv, TypeOK
  <2>2. KeepsPods
    BY <1>0, <2>1, PodSteps DEF CreatesPod
  <2>3. Complete(stage.gen)
    BY <2>1 DEF SetupIsOver
  <2> QED
    BY <1>1, <1>2, <2>1, <2>2, <2>3
<1>6. CASE CreatePod
  <2>1. /\ Complete(stage.gen) /\ stage'.gen = stage.gen /\ UNCHANGED <<gen, objects, reaped>>
        /\ ~DeleteIfExists
    BY <1>6 DEF CreatePod, Fails, CallIsOfStage, DeleteIfExists, RangeInv, TypeOK
  <2>2. CASE CreatesPod
    BY <1>0, <1>1, <2>1, <2>2, NewPodIs DEF GenerationsGrow, NewPod
  <2>3. CASE KeepsPods
    BY <1>1, <1>2, <2>1, <2>3
  <2> QED
    BY <1>0, <2>2, <2>3, PodSteps
<1>7. CASE UNCHANGED stage /\ gen' \in {gen, gen + 1} /\ ~CreatePod
  <2>1. KeepsPods
    BY <1>0, <1>7, PodSteps DEF CreatesPod
  <2>2. StagePods' \subseteq StagePods
    BY <1>7, <2>1, StagePodsShrink
  <2>3. CASE DeleteIfExists
    <3>1. stage.task = 1 /\ StagePods = {} /\ stage.state # "complete"
      BY <2>3 DEF DeleteIfExists, CallIsOfStage
    <3> QED
      BY <1>2, <1>7, <2>1, <2>2, <3>1 DEF SetupIsOver
  <2>4. CASE ~DeleteIfExists
    <3>1. Complete(stage.gen) => SetupIsOver'
      BY <1>1, <1>7, <2>4
    <3>2. ~Complete(stage.gen) => SetupIsOver'
      BY <1>7, <2>2 DEF SetupIsOver
    <3> QED
      BY <1>2, <1>7, <2>1, <3>1, <3>2
  <2> QED
    BY <2>3, <2>4
<1>8. SetupAndRun \/ DeleteIfExists \/ CreateObject \/ LookUp => UNCHANGED <<gen, stage>>
  BY DEF SetupAndRun, DeleteIfExists, CreateObject, LookUp
<1> QED
  BY <1>3, <1>4, <1>5, <1>6, <1>7, <1>8, OtherSteps

(* The invariant is inductive.                                             *)
THEOREM ObjectsInvariant == Spec => []ObjectsInv
<1>1. Init => ObjectsInv
  <2> SUFFICES ASSUME Init PROVE ObjectsInv
    OBVIOUS
  <2>1. StagePods = {} /\ CallIsOfStage
    BY DEF Init, StagePods, NoPod, CallIsOfStage, Idle
  <2>2. SetupIsOver
    BY <2>1 DEF Init, SetupIsOver
  <2>3. GenerationsGrow
    BY DEF Init, GenerationsGrow, NoPod
  <2> QED
    BY <2>1, <2>2, <2>3, RangeInit DEF ObjectsInv
<1>2. ObjectsInv /\ [Next]_vars => ObjectsInv'
  <2> SUFFICES ASSUME ObjectsInv, [Next]_vars PROVE ObjectsInv'
    OBVIOUS
  <2> QED
    BY RangeKeeps, CallKeeps, SetupKeeps DEF ObjectsInv
<1> QED
  BY <1>1, <1>2, PTL DEF Spec

(* PodFindsItsObjects: a pod is created only when every object of its      *)
(* generation was, and only a reaper has removed one since.                *)
THEOREM EveryPodFindsItsObjects == Spec => PodFindsItsObjects
<1>1. ObjectsInv /\ [Next]_vars
        => [nextPod' # nextPod =>
              \A k \in Versioned : Object(k, pods'[nextPod].gen) \in objects \cup reaped]_vars
  <2> SUFFICES ASSUME ObjectsInv, Next, nextPod' # nextPod, NEW k \in Versioned
               PROVE  Object(k, pods'[nextPod].gen) \in objects \cup reaped
    OBVIOUS
  <2>1. CreatesPod /\ RangeInv
    BY PodSteps DEF KeepsPods, ObjectsInv
  <2>2. pods'[nextPod].gen = stage.gen
    BY <2>1, NewPodIs DEF NewPod
  <2>3. Complete(stage.gen)
    BY <2>1 DEF CreatesPod, CreatePod, ObjectsInv, CallIsOfStage
  <2> QED
    BY <2>2, <2>3 DEF Complete, Kept
<1> QED
  BY <1>1, ObjectsInvariant, PTL DEF Spec, PodFindsItsObjects
=============================================================================
