-------------------------------- MODULE Stages -------------------------------
(***************************************************************************)
(* The decision part of Reconcile: from a copy of the resource (its        *)
(* metadata m and its status s) to the next stage of the workflow.  It is  *)
(* pure; the one read it makes, whether the pod of a failed apply is not   *)
(* found, is the argument podGone.                                         *)
(*                                                                         *)
(* A stage's reason is COMPLETED for the code's COMPLETED_<TASK>: nothing  *)
(* reads the suffix.  The label value of a retry is a reason as well.      *)
(***************************************************************************)
EXTENDS Tasks

CONSTANTS
  Affected,     \* the tasks named by spec.taskOptions
  RetryLabels,  \* values of the label kubernetes.io/change-cause
  SetupLabels,  \* those that end in ".setup"
  PluginNames   \* keys of spec.plugins

ASSUME AffectedAssumption == Affected \subseteq TaskName \cup {"*"}
ASSUME LabelAssumption == SetupLabels \subseteq RetryLabels

NoLabel == "none"

Phases == {"", "initializing", "running", "completed",
           "initializing-delete", "deleting", "deleted"}
DeletePhases == {"initializing-delete", "deleting", "deleted"}

StageStates == {"", "initializing", "in-progress", "complete", "failed",
                "Pending", "Running"}

StageReasons == {"", "TF_RESOURCE_CREATED", "GENERATION_CHANGE", "TF_RESOURCE_DELETED",
            "COMPLETED", "RESTARTED_WORKFLOW", "RESTARTED_DELETE_WORKFLOW"}

Stage == [gen: Nat, task: TaskName \cup {RunNil}, state: StageStates,
          interruptible: BOOLEAN, reason: StageReasons \cup RetryLabels, podName: Nat]

Status == [prefix: Nat, phase: Phases, stage: Stage,
           retryReason: RetryLabels \cup {NoLabel}, retryAt: Nat,
           plugins: SUBSET PluginNames]

Meta == [uid: Nat, gen: Nat, deleting: BOOLEAN, finalizer: BOOLEAN,
         ignoreDelete: BOOLEAN, label: RetryLabels \cup {NoLabel}]

EmptyStage == [gen |-> 0, task |-> RunNil, state |-> "", interruptible |-> FALSE,
               reason |-> "", podName |-> 0]

EmptyStatus == [prefix |-> 0, phase |-> "", stage |-> EmptyStage,
                retryReason |-> NoLabel, retryAt |-> 0, plugins |-> {}]

Configured == GetConfiguredTasks(Affected)

(* Bugs the runs must tell apart from the next definition: the finalizer   *)
(* taken too early, never taken, given to the wrong resources.             *)
ReleaseWhileDeleting(m, s) ==
  IF s.phase \in {"deleting", "deleted"} /\ m.finalizer THEN FALSE ELSE ~m.ignoreDelete
NeverRelease(m, s) == ~m.ignoreDelete
FinalizerInverted(m, s) ==
  IF s.phase = "deleted" /\ m.finalizer THEN FALSE ELSE m.ignoreDelete

(***************************************************************************)
(* updateFinalizer: whether the finalizer is on the resource afterwards.   *)
(* The code's result, "something changed", is that this differs from       *)
(* m.finalizer.                                                            *)
(***************************************************************************)
UpdatedFinalizer(m, s) ==
  IF s.phase = "deleted" /\ m.finalizer THEN FALSE ELSE ~m.ignoreDelete

(* The in-memory edits Reconcile makes before it looks for a new stage:    *)
(* the deletion mark, then the retry mark, which overwrites the phase.     *)
MarkedDeletion(m, s) ==
  IF m.deleting /\ s.phase \notin DeletePhases
  THEN [s EXCEPT !.phase = "initializing-delete"]
  ELSE s

IsRetry(m, s) == m.label # NoLabel /\ s.retryReason # m.label

Prepared(m, s, now) ==
  IF IsRetry(m, s)
  THEN [s EXCEPT !.retryReason = m.label, !.retryAt = now, !.phase = "initializing"]
  ELSE MarkedDeletion(m, s)

(***************************************************************************)
(* newStage, with the assignment of its result to status.stage: a change   *)
(* of generation also resets the started plugins and the phase.            *)
(***************************************************************************)
NewStage(m, s, task, reason, interruptible, state) ==
  LET stage == [gen |-> m.gen, task |-> task, state |-> state,
                interruptible |-> interruptible, reason |-> reason, podName |-> 0]
  IN  IF reason = "GENERATION_CHANGE"
      THEN [s EXCEPT !.stage = stage, !.plugins = {}, !.phase = "initializing"]
      ELSE [s EXCEPT !.stage = stage]

FirstStage(m, s) ==
  [NewStage(m, s, "setup", "TF_RESOURCE_CREATED", FALSE, "initializing")
     EXCEPT !.plugins = {}]

(***************************************************************************)
(* The rules of checkSetNewStage, one operator per branch.  Each returns   *)
(* the status with the new stage in it.                                    *)
(***************************************************************************)
IsNewGeneration(m, s) == s.stage.gen # m.gen
IsDeleting(s) == s.phase \in DeletePhases
(* A bug: the lock looks at the state the pod's phase leaves.              *)
LockedWhileRunning(s) == ~s.stage.interruptible /\ s.stage.state = "Running"

IsLocked(s) == ~s.stage.interruptible /\ s.stage.state = "in-progress"

RetryTask(s, label) ==
  LET restart == IF label \in SetupLabels THEN "setup" ELSE "init"
      destroy == IF label \in SetupLabels THEN "setup-delete" ELSE "init-delete"
  IN  IF IsDeleting(s) THEN destroy ELSE restart

RetryStage(m, s) ==
  LET task == RetryTask(s, s.retryReason)
  IN  NewStage(m, s, task, s.retryReason, IsTaskInterruptable(task), "initializing")

(* Bugs: a new generation skips setup, or forgets that it is a deletion.   *)
GenerationFromInit(m, s) ==
  IF ~IsDeleting(s)
  THEN NewStage(m, s, "init", "GENERATION_CHANGE", TRUE, "initializing")
  ELSE NewStage(m, s, "setup-delete", "TF_RESOURCE_DELETED", FALSE, "initializing")
GenerationWithoutDelete(m, s) ==
  NewStage(m, s, "setup", "GENERATION_CHANGE", TRUE, "initializing")

GenerationStage(m, s) ==
  IF ~IsDeleting(s)
  THEN NewStage(m, s, "setup", "GENERATION_CHANGE", TRUE, "initializing")
  ELSE NewStage(m, s, "setup-delete", "TF_RESOURCE_DELETED",
                s.phase # "initializing-delete", "initializing")

CompletedStage(m, s) ==
  LET task == NextTask(s.stage.task, Configured)
  IN  NewStage(m, s, task, "COMPLETED", IsTaskInterruptable(task),
               IF task = RunNil THEN "complete" ELSE "initializing")

RestartStage(m, s) ==
  LET delete == s.stage.task = "apply-delete"
      task == NextTask(IF delete THEN "postinit-delete" ELSE "postinit", Configured)
  IN  NewStage(m, s, task,
               IF delete THEN "RESTARTED_DELETE_WORKFLOW" ELSE "RESTARTED_WORKFLOW",
               IsTaskInterruptable(task), "initializing")

IsFailedApply(s) == s.stage.state = "failed" /\ s.stage.task \in {"apply", "apply-delete"}

(* The branch of checkSetNewStage that reads the pod of the failed apply.  *)
LooksForPod(m, s, retry) == ~retry /\ ~IsNewGeneration(m, s) /\ IsFailedApply(s)

(* checkSetNewStage: the set of its results, empty for the code's nil.     *)
(* s is already Prepared, retry tells that this reconcile marked a retry.  *)
CheckSetNewStage(m, s, retry, podGone) ==
  IF retry /\ ~IsNewGeneration(m, s) THEN {RetryStage(m, s)}
  ELSE IF IsLocked(s) THEN {}
  ELSE IF IsNewGeneration(m, s) THEN {GenerationStage(m, s)}
  ELSE IF s.stage.state = "complete" /\ s.stage.task # RunNil THEN {CompletedStage(m, s)}
  ELSE IF IsFailedApply(s) /\ podGone THEN {RestartStage(m, s)}
  ELSE {}
=============================================================================
