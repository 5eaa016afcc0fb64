# Terraform operator: specification and proofs

Terraform operator is a Kubernetes controller.  A user creates a `Terraform`
resource; for every generation of it the controller runs a workflow of pods,
one per task (`setup`, `init`, `plan`, `apply`, optionally the script tasks
around them), and when the resource is deleted a destroy workflow
(`setup-delete` ... `apply-delete`) before a finalizer lets the resource go.
This directory holds TLA+ modules of that controller, the TLC configurations
that check them and TLAPS proofs about them.  All paths below are those of the
repository; `controller` is `pkg/controllers/terraform_controller.go` and
`types` is `pkg/apis/tf/v1beta1/terraform_types.go`.

Run a check with `tlc -workers 2 -config <run>.cfg <module>.tla` and a proof
with `tlapm <module>.tla`; `PROJECT.json` says which module a run belongs to,
which source lines every definition stands for, the hazards, the findings and,
for every property, a bug that the property detects.

## 1. Inventory

| Part | State | Operations | Talks to | Modelled in |
|---|---|---|---|---|
| Task vocabulary and order (`types` 274-345, `nextTask`, `getConfiguredTasks`, `isTaskInterruptable`) | none | order, next, interruptible | stage decisions | `Tasks` |
| Stage decisions (`updateFinalizer`, `newStage`, `checkSetNewStage`, the edits of the phase before it) | none: pure functions of a copy of the resource | next stage, finalizer | Reconcile | `Stages` |
| Reconcile loop (`controller` 566-995, `removeOldPlan`, `createPluginJob`) | the resource's metadata and status, pods, plugin jobs, a call's local copy | one call per item of the work queue | API server, pods, informers, garbage collector | `TerraformController` |
| Objects of a generation (`setupAndRun`, `run`, `create*`, `check*Exists`, `backgroundReapOldGenerationPods`) | ConfigMap, Secret, Role, RoleBinding, ServiceAccount, outputs Secret, claim; reaper goroutines | create, look up, reap | API server, the calls of Reconcile | `GenerationObjects` |
| Status update (`updateStatusWithRetry`, `getTerraformResource`, `Stage.IsEqual`) | the status subresource, the client's cache | write, confirm, retry | API server, informer | `StatusUpdate` |
| Plugins (`createPluginJob`, `createJob`, `reapPlugins`) | jobs, `status.pluginsStarted` | start, reap | Reconcile, goroutines | when one is due in `TerraformController`; sidecars, goroutines and jobs in `TaskPods` |
| Pod and object generation (`newTaskOptions`, `generatePod`, the ConfigMap) | none | build objects | creations | `PodGeneration`, without environment, annotations, rules and affinity |
| Volume validation (`validateVolume`) | none | pure check | pod generation | `PodGeneration`, `TaskPods` |
| Git secret finalizers (`getGitSecrets`, `updateSecretFinalizer`, lock, unlock) | finalizers on secrets that several resources may share | lock, unlock | final delete, setup | `GitSecrets` |
| SSH configuration, git askpass | none | read credentials, format them | setup | which secrets are read, in `GitSecrets` |
| Task scripts (`pkg/controllers/scripts/*.sh`) | directories on the claim, the terraform state, the plan | set up, init, plan, apply | the pod's exit | `TaskScripts`, without credentials and the ways to fetch the main module |
| Outputs (`tf.sh` 75-101, `controller` 738-784) | the outputs secret, `status.outputs` | filter, patch, copy | apply task, end of the workflow | `TaskScripts` |
| Reconcile lock (`controller` 573-581) | an entry of a process-wide cache | take, release, requeue | work queue | no: the queue hands a resource to one worker at a time, so it never decides |
| Node selectors cache (`cacheNodeSelectors`) | cached affinity, selector, tolerations | fill, read | every pod | no: data no other part reads |
| Address parsing, names (`getParsedAddress`, `pkg/utils`) | none | string functions | creations | no; the truncated finalizer key is a constant of `GitSecrets` |
| Manager, generated client, deep copies, openapi, bundles, examples, docs | - | - | - | no: start-up, generated code or data |

**How the parts interact.**  Everything is shared through the API server.  A
call of Reconcile reads the resource, decides on one of a dozen branches, and
writes: the status (one write per branch, several for the branch that starts a
pod), the resource (finalizer), pods, objects, jobs.  Any write wakes the
controller again through an informer and the work queue, so the workflow is a
chain of calls that communicate by the status they leave.  Goroutines started
by a call (both reapers, the plugin's job) go on after it and read the
resource for themselves.

**What is hard here.**

* *Interleaving.*  Users edit, label and delete the resource, and delete pods,
  between any two steps of a call and between the calls.
* *Partial failure.*  A call makes up to a dozen API calls; each may fail, some
  errors are returned, some logged, some dropped.
* *Crash.*  The pod is created before the status that records it, the plugin's
  job before `pluginsStarted`, the old pods are removed before the restarted
  stage is written.
* *Stale reads.*  The list of pods comes from an informer, the copy of the
  resource from a cache; a status write that conflicts is repeated over
  whatever is there.
* *Ordering.*  The generation, the phase, the stage's state and the retry label
  are changed by different hands and one decision reads them all.

**What makes each part correct.**

* Tasks and stages: a generation runs its tasks in order; an uninterruptible
  task is left alone; the destroy workflow runs to its end before the finalizer
  goes.
* Reconcile loop: one live pod per task and generation; `completed` means that
  the whole workflow ran; an apply acts on a plan nobody has used; a deletion
  ends; a plugin runs once per generation; a status belongs to the incarnation
  that carries it.
* Objects: a pod finds what it mounts; a half-made setup can be repeated; old
  objects outlive the pods that use them.
* Status update: no error means it is stored; what a write confirms, the next
  call reads.
* Pods and plugins: a pod is one the kubelet can start, with the script its
  options ask for; an approver holds every plan that needs one; a plugin that is
  due is started, after its task, and no job of an old generation stays.
* Git secrets: a locked secret has a resource that needs it, a resource that
  needs one has it locked, and a deletion ends.
* Scripts: `completed` means that the module of this generation is what is
  applied, whatever older pods do on the same volume; only approved plans are
  applied; nothing is left when the resource goes; the outputs shown are those
  of the module in force.

## 2. Modules

    Tasks  <-  Stages  <-  TerraformController  <-  TerraformRefinement  <-  MCTerraformController
      ^                            ^                 (INSTANCE Workflow)
      |                  TerraformControllerProofs  <-  RefinementProofs
      |                            v
      |  <------------------  TasksProofs     <-------------     TaskScriptsProofs
      |                                                                   v
      |  <-----------------------------------    Workflow     <-     TaskScripts
      |  <-  PodGeneration  <-  TaskPods  -----------^
    GenerationObjects  <-  GenerationObjectsProofs     StatusUpdate  <-  StatusUpdateProofs
    TaskPods  <-  MCTaskPods, TaskPodsProofs     TaskScripts  <-  MCTaskScripts
    GitSecrets  <-  MCGitSecrets, GitSecretsProofs

An arrow points to the module that is extended.

### Tasks
Task names, `ID`, `GetConfiguredTasks`, `NextTask`, `IsTaskInterruptable`.
`nextTask`'s loop over a list is the least later configured task of the same
workflow.

### Stages
The pure decisions.  Its operators take `m`, the metadata and spec, and `s`,
the status, of one copy of the resource, and return a status: `NewStage`,
`FirstStage`, `UpdatedFinalizer`, and one operator per branch of
`checkSetNewStage` (`RetryStage`, `GenerationStage`, `CompletedStage`,
`RestartStage`) tied together by `CheckSetNewStage`, whose result is a set that
is empty for the code's `nil`.  `LooksForPod` is the condition under which
`checkSetNewStage` reads the pod of a failed apply; what it finds is a parameter.

### TerraformController
One resource name, all pods ever created for it, and the controller.

| Variable | Code |
|---|---|
| `meta` | uid, generation, deletion timestamp, finalizer, `spec.ignoreDelete`, the label `kubernetes.io/change-cause` |
| `status` | `podNamePrefix`, phase, stage, retry reason and time, `pluginsStarted` |
| `pods`, `nextPod` | pods in the order of their creation; a pod's index is also its creation time |
| `bundles` | the objects of a prefix and generation, as one; `GenerationObjects` opens them up |
| `jobs` | plugin jobs |
| `queued` | the work queue |
| `pc`, `tfMeta`, `tfStatus`, `looked`, `deferred` | the running call: where it is, its copy `tf`, whether it has looked for the pod of a failed apply, the plugins it has deferred |
| `spent` | counters of the bounded events |

A call is `GetResource` (a copy is taken), one of the branches, and the writes
of that branch as actions of their own: `SetupAndRun` / `SaveStarted` /
`CreatePluginJob`, `RemoveOldPlan` / `RestartWorkflow`, `FoundPod` /
`RemovePod`.  Between them anything may happen.  `checkSetNewStage` looks for
the pod of a failed apply (`controller` 1161, 1171) before Reconcile lists the
stage's pods (798), and a pod may go between the two: `LookForPod` is the look
that finds the pod or fails, and the call then goes on with what the list shows.
A pod that is not found has gone for good, so that look is taken with the
restart it leads to.  `ListFails` is the list that fails, after which the call
ends without a requeue.  `UpdateStatusWithRetry`
summarises the retry loop: it overwrites the status of whatever resource has
the name, or ends with an error, with the write done or not.  `Update`
(finalizer) is refused when the copy is not the latest.

Environment: `CreateResource`, `EditSpec`, `SetLabel`, `DeleteResource`,
`DeletePod` (users); `PodStarts`, `PodSucceeds`, `PodFails` (kubelet);
`CollectPod`, `CollectBundle` (garbage collector); `InformerLists`, `Resync`
(the manager's cache); `Fault` in the branches and `Crash`.

Abstractions: a stage reason `COMPLETED_<TASK>` is `COMPLETED`; time is the
order of pod creations; the random part of the pod prefix is the uid; messages,
events, outputs and everything of a pod but its name, label and phase are left
out; sidecar plugins are part of their pod; the goroutine that creates a
plugin's job is one step with the recording of it; the reads of the resource
are fresh (the lagging cache is in `StatusUpdate`).

### GenerationObjects
`setupAndRun` one API call at a time.  `call.step` walks `Created` (delete if
it exists, create) for the first task of a generation, `LookedUp` for the
others; every call may fail.  `reapers` are the goroutines of
`backgroundReapOldGenerationPods`: get the resource, delete pods, list pods,
delete objects kind by kind.  Reconcile itself is reduced to what matters to
them, a setup task and later ones, each stage decision in one step.

### StatusUpdate
`updateStatusWithRetry`: `versions` is the resource's history in the API
server, `seen` the version the cache shows.  A status has two halves,
`compared` (what the confirmation compares) and `ignored` (what it does not:
the stage's state, the retry, the outputs).  `ReadsConfirmedPart` speaks of the
first half; `ReadsConfirmedStatus`, of both, does not hold (section 5).

### Workflow and TerraformRefinement
`Workflow` is what the controller promises: the resource, the stage, the runs
of tasks (a run is a pod seen from far away) and whether it is complete.
`TerraformRefinement` maps the controller's variables to it; `ImplementsWorkflow`
is checked by the run `faults` and proved in `RefinementProofs`.  The same module is the controller of the two
modules below, which conjoin its actions with what they add: what is checked of
pods and scripts is checked under every order of stages the controller is shown
to keep to.

### PodGeneration and TaskPods
`PodGeneration` has the pure part: `newTaskOptions` (`OptionsNaming`,
`OptionsFor`, `ScriptFile`), the image, the ConfigMap, `generatePod`
with volumes, mounts, labels and the merge of sidecars, `validateVolume`.
`TaskPods` runs it: the call goes through the plugins in any order (a Go map),
makes sidecars and the approver, creates the pod, spawns the deferred
`createPluginJob` calls, records `pluginsStarted`; the goroutines (`creators`)
create jobs later, and `reapers` delete the jobs of other generations.  `Crash`
is a restart, `Panic` that of a goroutine whose pod could not be generated.

### GitSecrets
`tf` (one resource each), `secrets` with uid and finalizers, `call` (the secret
it has loaded, which method it is at).  `SetNewStage` and `Release` frame the
loop of `updateSecretFinalizer`: `GetSecret`, `UpdateSecret` (refused on
another version), `GiveUp` on an error, with the reads of the credentials
(`CredentialsMissing`) in between.  Users edit the spec, delete and create
secrets.

### TaskScripts
`disk` is the volume, one directory per generation; `infra` the terraform state
(serial and the module it is applied from); `planned`, `approved`, `applied`
are sets of runs; `secrets` and `shown` the outputs.  `SetUp` and `SetUpStops`
are `setup.sh`, which fetches the main module before its downloads: it stops
with neither, or with the module and part of the var files.  `TerraformInit`,
`TerraformPlan`, `TerraformApply`,
`ReadOutputs`, `PatchSecret` are the branches of `tf.sh` in its order, `Noop` is
`noop.sh`.  Terraform is external: a plan belongs to one serial of the state and
is refused afterwards; an apply may stop half-way.  A script may stop anywhere
(`ScriptStops`).

## 3. Runs

Every passing run ends within its bounds; `CHECK_DEADLOCK FALSE` is set
because a resource may be gone, a workflow done or a bound spent, and then the
system rightly has nothing left to do.

| Run | Asks | Bounds, and why they are enough |
|---|---|---|
| `workflow` | Type, order of tasks, `completed` means the whole workflow, finalizer only after destroy, no create task once deleting, a stage in progress is held | 1 resource, an edit that may switch `ignoreDelete`, a deletion, 1 failing pod, 1 pod deleted at any time, 9 pods: two workflows of four and a repeated pod |
| `faults` | Order, one live pod, finalizer only after destroy, refinement of `Workflow`; a deletion ends and a workflow settles (liveness) | 2 faults of any of seven kinds at any step (a failing write of the status or the resource, creation, delete, look or list, a crash), 1 failing pod, 9 pods; no pod is deleted by users |
| `restart` | An apply acts on a plan made since the last apply | `postplan` configured, 2 failures, 2 evictions of a pod recorded as failed, though not between a call's look for it and its list (`EvictAfterLook = FALSE`), 1 crash, 10 pods: a workflow of five and two restarts, the second up to before its apply |
| `retry` | `completed` after a retry means the tasks ran again after it | 2 labels, one with `.setup`, changed twice at any time, pods kept so that old ones can be mistaken for new ones, 7 pods: one workflow of four and a retry from `init`, or a retry from `setup` before the first one is over |
| `plugins` | A plugin runs once, a status is of its own incarnation | 1 After plugin, a lagging pod informer, 1 eviction, 2 incarnations of the name, 4 pods: the plugin's task, the one after it and a repetition |
| `objects` | A pod finds its objects, setup can be repeated (liveness) | 2 generations, 2 tasks, 2 reapers, 1 failing call or stale look-up, 3 pods; one attempt per reaper, since another attempt differs from another reaper in its counter only |
| `status_update` | No error means written, what a confirmation compared is what is read next | 3 writes, 2 reads, 5 versions, 1 fault, 2 by 2 statuses; rounds beyond these repeat the same steps |
| `git_secrets` | A lock holds while a workflow runs, none is left when the resource is gone, a deletion ends (liveness) | 2 resources that share a key, one edited from locking the key to locking the token, 1 secret deleted and created again, 1 failing or interrupted call; a third resource would only repeat the second |
| `task_pods` | Pods are valid, scripts are mounted, plans are held, plugins start when due and after their task, old jobs are reaped | 5 specs that reach every branch of the generation, 2 plugins (sidecars of one task, At and After, one that cannot be generated), 2 generations, 2 reapers, 1 restart, panic or lost pod |
| `task_scripts` | The promises of the scripts above, the order of the runs | 2 generations and so at most one that is old, 9 runs: a create and a destroy workflow with a script task, or with an older apply still at work; 2 specs (approval, outputs and six var files; a clean-up of the disk), a set up that stops after 4 files, 1 trouble |

Two runs show that the code does not do what a comment of it says; each has a
finding in `PROJECT.json` that quotes the comment:

| Run | What happens |
|---|---|
| `running_stage_replaced` | The lock on an uninterruptible stage looks for `in-progress`; the first look at the pod replaces that by `Pending` or `Running`, and an edit then replaces an `init`, `plan` or `apply` whose pod runs |
| `retry_skips_destroy` | A retry label on a resource that is being deleted overwrites the phase; the create workflow runs and the resource goes away undestroyed |

### Fairness
`TerraformController!Fairness`: weak fairness of Reconcile (the work queue
hands out what it holds and a worker runs a call to its end; there is one
worker per key), of every pod's start and end (kubelet), of the garbage
collector, the informers and the periodic resync.  Resync matters: the
errors of the writes at `controller` 637 and 718 are logged and not returned,
so after a lost write only the resync wakes the controller.  Users owe
nothing, and no fairness says that a fault does not happen: their number is
bounded.  `GenerationObjects!FairSpec` has weak fairness of Reconcile alone: a
call that returned an error is run again by the work queue; so has
`GitSecrets!FairSpec`, for each resource.  The modules of pods and scripts have
no liveness property: an approval may never come.

## 4. Proofs

TLAPS checks these for every value of the constants: any number of
incarnations, generations, pods, faults, evictions, plugins, script tasks.

| Theorem | States |
|---|---|
| `TerraformControllerProofs!TypeCorrect` | `Spec => []TypeOK` |
| `TerraformControllerProofs!DeletionInvariant` | `Spec => []DeletionInv` |
| `TerraformControllerProofs!ReleasedAfterDestroy` | `Spec => ReleasedOnlyAfterDestroy` |
| `TerraformControllerProofs!OnlyDeleteTasksOnceDeleting` | `Spec => NoCreateTaskOnceDeleting` |
| `TerraformControllerProofs!OrderInvariant` | `Spec => []OrderInv` |
| `TerraformControllerProofs!ControllerRunsTasksInOrder` | `Spec => []TasksRunInOrder` |
| `TerraformControllerProofs!CompletedHasRunAll` | `Spec => []CompletedRanWholeWorkflow` |
| `TerraformControllerProofs!StageInProgressIsKept` | `Spec => InProgressStageKept` |
| `TerraformControllerProofs!OnlyOneLivePod` | `Spec => []OneLivePodPerStage`, if informers do not lag |
| `TerraformControllerProofs!RetryInvariant` | `Spec => []RetryInv`, with retries |
| `TerraformControllerProofs!CompletedRanSinceRetry` | `Spec => []CompletedAfterRetry`, with retries |
| `TerraformControllerProofs!StatusIsOfIncarnation` | `Spec => []StatusOfIncarnation`, with retries |
| `RefinementProofs!RefinementInvariant` | `Spec => []RefinementInv`, if informers do not lag and looks are sound |
| `RefinementProofs!ControllerImplementsWorkflow` | `Spec => ImplementsWorkflow`, if informers do not lag and looks are sound |
| `RefinementProofs!PlanInvariant` | `Spec => []PlanInv`, if plans are kept |
| `RefinementProofs!AppliesHaveFreshPlans` | `Spec => []ApplyHasFreshPlan`, if plans are kept |
| `RefinementProofs!PluginInvariant` | `Spec => []PluginInv`, if status writes succeed |
| `RefinementProofs!PluginsRunOnce` | `Spec => []PluginsRunOncePerGeneration`, if status writes succeed |
| `GenerationObjectsProofs!ObjectsTypeCorrect` | `Spec => []TypeOK` of `GenerationObjects` |
| `GenerationObjectsProofs!ObjectsInvariant` | `Spec => []ObjectsInv` |
| `GenerationObjectsProofs!EveryPodFindsItsObjects` | `Spec => PodFindsItsObjects` |
| `StatusUpdateProofs!UpdateTypeCorrect` | `Spec => []TypeOK` of `StatusUpdate` |
| `StatusUpdateProofs!NoErrorIsWritten` | `Spec => []NoErrorMeansWritten` |
| `StatusUpdateProofs!ConfirmedPartIsRead` | `Spec => []ReadsConfirmedPart` |
| `TaskScriptsProofs!WorkflowRunsInOrder` | `Spec => []RunsInOrder` of `Workflow` |
| `TaskScriptsProofs!ScriptsImplementWorkflow` | `ScriptsSpec => Spec` of `Workflow` |
| `TaskScriptsProofs!ScriptsRunInOrder` | `ScriptsSpec => []RunsInOrder` |
| `TaskScriptsProofs!AppliesOnlyApproved` | `ScriptsSpec => []AppliedWasApproved` |
| `TaskScriptsProofs!ScriptsTypes` | `ScriptsSpec => []TypeOK` of `TaskScripts` |
| `TaskScriptsProofs!CompletedWasApplied` | `ScriptsSpec => []CompletedIsApplied` |
| `TaskScriptsProofs!GoneWasDestroyed` | `ScriptsSpec => GoneIsDestroyed` |
| `TaskScriptsProofs!OutputsWereSaved` | `ScriptsSpec => []OutputsAreSaved`, if secrets are apart |
| `TaskScriptsProofs!OutputsWereShown` | `ScriptsSpec => []OutputsAreShown`, if secrets are apart |
| `TaskScriptsProofs!PlanGetsVarFilesInOrder` | `ScriptsSpec => []VarFilesInOrder` |
| `TaskPodsProofs!PodsInvariant` | `PodsSpec => []PodsInv` |
| `TaskPodsProofs!PodsTypeCorrect` | `PodsSpec => []TypeOK` of `TaskPods` |
| `TaskPodsProofs!ScriptsAreInConfigMaps` | `PodsSpec => []ScriptsAreMounted` |
| `TaskPodsProofs!PlansHaveApprovers` | `PodsSpec => []PlansAreHeld` |
| `TaskPodsProofs!JobsAreReaped` | `PodsSpec => []OldJobsWereLate` |
| `TaskPodsProofs!AfterPluginsComeAfter` | `PodsSpec => []AfterItsTask` |
| `TaskPodsProofs!DuePluginsWereStarted` | `PodsSpec => []DuePluginsStarted` |
| `TaskPodsProofs!GeneratedPodsAreValid` | `PodsSpec => []PodsAreValid`, if volumes are apart |
| `GitSecretsProofs!SecretsTypeCorrect` | `Spec => []TypeOK` of `GitSecrets` |
| `GitSecretsProofs!LocksHold` | `Spec => []LockHolds` |
| `GitSecretsProofs!GoneIsUnlocked` | `Spec => []UnlockedWhenGone` |

`TasksProofs` holds the lemmas about the order of tasks (every task has an ID of
its own, `NextTask` returns the earliest later one and skips none, a restart
goes back), the first part of `TerraformControllerProofs` those about the
decisions: what each operator returns keeps the type, which workflow the next
stage belongs to, when the finalizer goes.

`TypeCorrect` assumes nothing beyond the constants' types.  The other theorems
of `TerraformControllerProofs` and those of
`RefinementProofs` assume `DeletionIsPlain`: no user lets a deletion be ignored
(`IgnoreDeletes \subseteq {FALSE}`), no retry labels, and no deletion before the
first stage is written.  The assumption is needed: dropping any of the three
gives a counterexample (`retry_skips_destroy` above; the other two are in
section 5).  The refinement and the plans assume besides that looks are sound
(`LooksAreSound`): no pod of a failed apply is deleted between a call's look for
it and its list, and the look does not fail.  Each part is needed (section 5).
The three theorems with retries assume the first part of `DeletionIsPlain` alone
(`FinalizersAreKept`), and that much is needed (section 5 again).

*The argument.*  `ReleasedOnlyAfterDestroy` is not inductive: whether the
finalizer goes is decided by a phase in a copy of the resource, the phase was
written when the stage had no task left, that stage was reached from
`apply-delete` completed, and `complete` was written when a pod was seen to
succeed.  `DeletionInv` says all of this at once, for the resource and for the
copy a call holds, which may be older: the generation of a stage never exceeds
the resource's; before the deletion the phase is one of the create workflow; a
phase of the destroy workflow with a stage of the current generation has a task
of the destroy workflow; a stage past `apply-delete`, or `apply-delete`
complete, has a succeeded `apply-delete` pod of this incarnation; a status
never mentions an incarnation other than the resource's; a call whose copy is
of a former incarnation cannot write, since with a finalizer in place the
resource goes only by the controller's own update.  Every action is one case of
the proof; pods only gain phases and lose existence, so a succeeded pod stays a
witness.

*The order of the controller's pods.*  `TasksRunInOrder` speaks of pods; what
starts a pod is a status, so `OrderInv` adds to `DeletionInv` what a status may
claim (`Ready`): every configured task before the stage's has a pod of this
incarnation and generation that succeeded, a complete stage has one for its own
task, and a stage without a task means that the whole create workflow has run
or that the resource is being deleted.  It holds of the resource and of the
copy of a call, because a decision on a ready copy gives a ready one: the next
task skips none, a restart goes back to a task whose predecessors are done, a
new generation starts where nothing has to be done.  A success is final even
when its pod is deleted, so evictions and faults change nothing.  The same
invariant shows which stage a write may replace: a call that has started a pod
or saved a stage still finds the stage it decided on (`CallKnows`), and any
other write is made on a copy that was not locked.  `CompletedRanWholeWorkflow`
and `InProgressStageKept` follow.  Without retries a call sees every pod of its
stage that is there and listed; when informers do not lag that is every live
pod (`PodsAreSeen`), so `SetupAndRun` starts the only one.  `PodLag = FALSE` is
needed: section 5 says what happens otherwise.

*Retries.*  With retries the stage may start anywhere, so `OrderInv` does not
hold; what is left of the order is that a resource that shows `completed` has
run its workflow since it was last retried.  `RetryInv` says so of every status,
the resource's and the one a call holds: the tasks that the stage has behind it,
and its own when it is complete, either come before the one the retry starts at
or have succeeded in a pod created since (`RetryCovered`).  Marking a retry
makes this true at once, since nothing from the start of the retry lies behind
the stage it sets, and no later decision skips a task.  One case escapes: a
retry that meets an edit and a stage that may not be replaced only resets that
stage, so pods of before the retry lie behind it.  The stage is then of an older
generation and not in progress (`Outdated`), so the next call starts the new
generation from its setup, before anything can be completed.  All of this
speaks of one incarnation; that a call never writes its status onto the next
one is `CallKeepsResource`: the finalizer that a call has read stays until the
controller itself takes it off, because no deletion is ignored.  From the same
invariant follows `StatusOfIncarnation`, with any retries and any deletion.

*The refinement.*  `Workflow` lets a stage advance only when its last run has
succeeded, restart only when its apply has failed, and a resource go only when
the runs of the destroy workflow are there; the controller decides all of this
by a status.  `RefinementInv` adds to `OrderInv` that the status is right
(`Backed`): a complete stage, or a failed apply, names a pod that is the last
one of its task and generation and has ended that way, and a phase that says the
destroy workflow is over has a run of each of its tasks; of the resource and of
the copy of a call.  A call that found no pod may start one, so a recorded pod
stays the last only because a call that reads `complete` or `failed` never gets
to `SetupAndRun` (`StartNotOver`, `NotCompleted`), and because the pod a call
finds is the last one (`LastIsThere`): this is where `PodLag = FALSE` and one
live pod per stage are used.  A call that reads a failed apply gets past its
decision only when it has found the pod; that the pod is still there for the
list is `FoundPodStays`, and this is where `LooksAreSound` is used.
`RestartsStage` keeps the decision of a call
between `RemoveOldPlan` and `RestartWorkflow`; `Counted` and `Held` give a new
incarnation no runs and no stage.  `StepsAreAbstract` then takes the actions one
by one.  Removing pods is `Workflow`'s `Lose`, of one pod or of several at once
(`RemoveOldPlan`); the decisions, the end of a pod and its creation each are
the action of that name; everything else, the writes that are lost and the
crashes, leaves the abstract state alone.

*The plan.*  `ApplyHasFreshPlan` speaks of an apply that starts; what starts it
is a stage that three different decisions lead to: the task after the plan, a
restart, a reset stage whose pod is gone.  `PlanInv` adds to `RefinementInv`
what the stage of the status may rely on (`PlanIsReady`): before and at the plan,
no plan pod that is still there has been applied (`PlansUnused`), so that the
one a call finds is a new one; past it, the plan pods that are there have
succeeded; once the plan is complete, and until the apply, the last
plan is fresh (`FreshPlan`); and at the apply either it still is, or the
apply's pod is there to be found, or its end is recorded and no call starts
another (`LastIsShown`).  A restart needs its old plan pods gone, which the
call remembers from `RemoveOldPlan` to `RestartWorkflow` (`CallPlans`); a new
generation needs that no pod is of a later generation than the stage
(`NoLaterPod`).  `PlansAreKept` are the conditions: the delete of the old plan's
pod does not fail, users delete no apply pod before its failure is recorded,
looks are sound, and the informer does not lag behind a creation.  Without any
one of them TLC finds an apply on a used plan (section 5); crashes and failing
writes, creations and lists may come anywhere.

*The plugins.*  `PluginInv` says that every job of the stage's generation is in
`pluginsStarted` (`JobsKnown`), and that a call that starts plugins works on the
generation of the stage, with a copy that has them all and none of them
deferred (`CallPlugins`).  It holds because no write loses a plugin: a decision
either goes to a greater generation or keeps the plugins (`KeepsPlugins`).  It
needs that status writes succeed (`WritesSucceed`; section 5 says what happens
otherwise), and that the resource is held while a call is under way, which
is part of `OrderInv`; informers may lag and pods be evicted at any time.

*The objects.*  A later stage looks five kinds of objects up and creates none,
so that its pod finds all six versioned ones rests on the history of its
generation.  `ObjectsInv` says that whatever shows that a set up is over, a later task,
a complete stage, a pod of the stage, implies that every object was created and
that only a reaper took one away since; while a call recreates them, none of these
is the case, since the stage is held, is at setup, and has no pod
(`CallIsOfStage`).  Two more facts make it inductive: generations only grow, so
that a new generation has no pod yet, and a call cannot skip a step.

For `StatusUpdate` the invariant is `UpdateInv`: a confirmation reads a cache
that may lag, so that it says anything at all rests on the cache never showing
less than the copy the call wrote (`tf <= seen`) and on a stored write having
been made over the latest version, so that every version after the copy is this
call's (`Written`).

*The order of runs.*  `RunsInOrder` speaks of runs that have started; to be
inductive it needs the same of the stage, whose run is next (`StageIsReady`):
an advance keeps it because `NextTask` skips no configured task, a replan
because a plan is always configured and comes before the apply.  Each step of
`TaskScripts` is a step of `Workflow` or leaves its variables alone, so the
theorem carries over.

*The approval.*  An apply reads whatever plan is in its directory; that this is
an approved one rests on three things (`RunsInv`, `PlanInv`).  At most one pod
of a generation is at work, and it does the task of the stage, or the stage is
of a later generation: so nobody writes a plan while an apply of the same
generation runs.  The plan in a directory is that of the last run that made one
there, and a stage moves past the planning only on its last run: so from then on
the plan in the directory is of a run that has succeeded, or was cleaned away.
And a run that is held succeeds only by its approval.  The proof needs nothing
of `misread`, outputs, or the state's serial.

*What was applied.*  That a completed resource is the one its spec describes is
a matter of serials: an older apply pod, lost sight of, may still be at work on
the same state.  `AppliedInv` says that a plan is of the serial and the module
it was made from (`MadePlans`), that a plan of an older generation is never
newer than the stage's (`OlderPlans`: it was made while its own generation was
the stage's, and its directory belongs to nobody else), and so that once the
stage's apply has moved the serial no older apply finds its plan fresh
(`AppliedStage`, `Settled`).  A stage before its apply comes after an apply that
failed, if any (`NotYetApplied`); what is on the disk of a generation is its own
(`Dirs`).  `GoneIsDestroyed` is the same statement for the destroy workflow.
The outputs need one thing more, that no run of another generation writes the
secret: `SecretsApart` asks of what users write that two generations that save
outputs never share one, which the default names, ending in the generation,
give.  With one `outputsSecret` kept over two generations TLC finds a
counterexample (section 5).

*The var files.*  A set up that stops among its downloads leaves the module with
part of the files, so a directory with a module need not have them all.  What
makes `VarFilesInOrder` true is that only a set up that succeeded lets the stage
pass (`SetUpIsOver`): where a pod after the set up is at work, or the stage is
past it, the directory has the files or an older generation's module has been
removed, and `terraform init` is such a pod.  `EndsWith` keeps of the files only
that those of the spec came last; that up to ten names sort as numbers is then
enough for terraform to take them in the order of the spec.

*The pods.*  Three things of a pod are lists that grow in a loop: its
containers, its volumes, and what the loop over the plugins has found.  They are
folds in the model; that a fold has a value at every prefix of its list is
proved once (`FoldRecursion`, by the least prefix without one), and what is true
of a prefix then carries over to the next.  So every sidecar has a container of
its own, named like its plugin (`NamesApart`), whose volumes are among the
pod's; the approver is in the pod of a plan whatever comes before it; and a
script file that a container is told to run is one of those the ConfigMap is
made of (`FilesAreMade`: the options that give the file are options the
ConfigMap reads).  `PodsInv` says what a history adds to this.  The ConfigMap is
made by the first pod of a generation and must still fit the last: a generation
that runs has one, made of its spec, and any pod but the first comes after a
run of the set up (`NotTheFirst`).  A plugin is due at a task, and its start is
recorded later, possibly never: for every run of the stage's generation what its
task makes due is in `started` or deferred by the call (`DueByRuns`), and a
workflow completes only when no call is under way.  A job may be created late,
but what it waits for had succeeded when its call deferred it (`JobsAreAfter`),
which needs that a call keeps its stage and that a stage is only entered when
its predecessors have succeeded.  A generation that runs has a reaper that is
still to delete, at this generation or a later one, or has no old jobs but late
ones (`ReapersAreDue`).  The types of the specs and of the bounds are assumed
(`SpecsAssumption`, `BoundsAssumption`), and of the plugins' names that there
are finitely many and that none is the name of a task, of the approver or of
the main container (`PluginNamesAssumption`).  `GeneratedPodsAreValid` alone
needs more, `VolumesApart`: no two of the volumes that options give to one pod
have the same name.  The controller does not see to it; without it TLC finds a
pod with two volumes of one name (section 5).

*The locks.*  A secret is changed by whichever resource names it, so `LockHolds`
needs to know which key each of them would take off.  `LockInv` keeps, for every
resource, that its call works for the stage the resource is still in, and that
what is secured is wanted locked by the spec of that stage: a call that unlocks
works on another secret, or the resource's workflow is over and nothing is
secured.  The other resources' updates are made over the version they have read,
so they leave the key alone unless it is theirs too.  `UnlockInv` adds for
`UnlockedWhenGone` that a resource that is worked on has its finalizer, that its
final call has no key left on the methods it has passed (`UnlockedBefore`), and
that a key is on a secret only if some spec wanted it there.  What users write
decides whether the two hold, and the theorems say so: `KeysApart` (no two
resources with one truncated key of which one locks a secret the other names),
for the first `LocksAgree` (no spec names a secret with and without the lock),
for the second `NoneIgnored` (no `ignoreDelete`) and `TunnelsApart` (no locked
key of a method becomes the key of the tunnel only).  Without any one of the
four TLC finds a counterexample; section 5 tells them.

*Only model-checked:* every safety property of a passing run is stated by a
theorem, some under the assumptions named above.  Liveness
(`DeletionEnds`, `WorkflowSettles`, `SetupIsRetriable`) stays with TLC, since
the prover does not treat fairness and ENABLED.

## 5. What is known to go wrong, and what is left

The properties of the runs hold because they except the following, which the
models show when a bound or a constant is changed or which the definitions state
as they are.  Stages, pods and status (`TerraformController`):

* a failed apply pod that is deleted before its failure is recorded is repeated
  on the plan already used (`EvictRecordedOnly = FALSE`, `ApplyHasFreshPlan`);
* so is an apply after a restart whose delete of the old plan pod failed: the
  error is dropped, and the pod is found again as if it were the new plan's
  (`Faults = {"delete"}` in the run `restart`, `ApplyHasFreshPlan`);
* so is one whose failed pod goes between the look of `checkSetNewStage` (1161)
  and the list (798) (`EvictAfterLook = TRUE` in the run `restart`,
  `ApplyHasFreshPlan`), or has gone when that look fails with an error other than
  NotFound (`Faults = {"get"}`, there too), although the comment at `controller`
  1076-1078 says that "in the case of the apply task, the workflow will be
  restarted".  If the controller then stops before it has written in-progress
  (913), the status still names the old pod, and the next call restarts the
  workflow beside the new apply, which `Workflow` does not allow (`restart` with
  `EvictAfterLook = TRUE`, `ImplementsWorkflow`);
* a resource deleted before its first stage is written runs the create
  workflow under a deletion's phases and goes away undestroyed
  (`DeleteBeforeFirstStage = TRUE`, `ReleasedOnlyAfterDestroy`);
* without a finalizer, a call for a deleted resource writes its status onto the
  one created again (`IgnoreDeletes = {TRUE}`, `MaxUid = 2`,
  `StatusOfIncarnation`), which may then show a retry completed that its own
  pods never ran (with `RetryLabels = {"again"}`, `CompletedAfterRetry`);
* a status write lost after a plugin's job was created starts it twice
  (`Faults = {"status"}`, `PluginsRunOncePerGeneration`);
* the generation a deletion starts keeps `pluginsStarted` (`controller` 1018
  resets it for GENERATION_CHANGE only);
* a retry that overtakes `setup` starts at `init` without the objects its pod
  needs and never runs a pod; a retry while a task runs moves on although its
  pod has not completed (`RetryLabels = {"again"}`, `TasksRunInOrder`);
* a confirmed status write may still be followed by a read of an older state:
  `Stage.IsEqual` does not compare it, so the confirmation at `controller`
  1729 passes on a cache that has not seen a write of the state alone, those at
  819 and, after the first stage, 913 (`StatusUpdate!ReadsConfirmedStatus` in the
  run `status_update`); the other states come with a message that is compared;
* with a lagging informer two pods of one task may run
  (`PodLag = TRUE`, `OneLivePodPerStage`), two applies of one plan among them
  (`ApplyHasFreshPlan`, with a crash between the pod and its status);

Objects, plugins and pods:

* a reaper sees no old pods, a call still working on the old generation then
  creates one, and the reaper removes the objects it mounts
  (`GenerationObjects!OldObjectsOutliveTheirPods`);
* a reaper that read an older generation removes pods and objects of the
  current one (`GenerationObjects`, edit between `ReaperGet` and `ReapPods`);
  a slow `reapPlugins` does the same to plugin jobs, which `pluginsStarted` then
  keeps from starting again (`TaskPods`);
* a crash between `createPod` and the deferred `createPluginJob` loses the
  plugins of that stage: the call that finds the pod starts none; an `After`
  plugin is started by a later stage, an `At` plugin never is;
* an `After` plugin whose task never ran in its generation starts in the destroy
  workflow, one after the last configured task never starts;
* `validateVolume` lets two options give one pod volumes of one name, or one
  volume twice; the API server then refuses the pod (`TaskPods`, with an option
  for `*` and one for `plan` that both have the volume, `PodsAreValid`);
* a plugin whose volumes and mounts do not match makes its goroutine panic, and
  with it the controller, again and again until `pluginsStarted` is written;
* a sidecar with a `configMapSelector` of its own reads the ConfigMap the pod
  mounts for the task; the script source of a task is overwritten by a later
  option that names it, even by an empty one;
* the tag of an image is cut at the last colon, which a registry with a port and
  no tag loses its path to;
* `policyRules` count only in the options of the setup task (`types` 385 does
  not say so).

Git secrets (`GitSecrets`, with other `SpecsOf`, `FinalizerKey`, `Recreated`):

* an edit that takes a secret out of `scmAuthMethods` leaves it locked for ever;
  so does `ignoreDelete` switched on by an edit that is followed by a deletion
  before it was set up;
* two resources with one truncated key unlock each other's secret; a secret
  listed twice, with and without the lock, is unlocked by the second;
* the key of `sshTunnel` has the `lockSecretDeletion` field, which nothing reads;
  a locked key that an edit moves from a method into the tunnel stays locked
  when the resource is gone;
* a locked secret that is gone blocks the deletion of the resource;
* `types` 543 and 557 say the lock "Works only with ignoreDelete = true", the
  code locks only without it;
* a token without a namespace is locked in the resource's namespace and read
  from `default` (`types` 552): a workflow elsewhere never starts
  (`SetUpWhenSecretsThere`).

Scripts and outputs (`TaskScripts`):

* more than ten var files are sorted by name, `10_` before `1_`; a set up that
  is repeated adds its files once more, so six files may become twelve;
* an outputs secret that cannot be read at the end of a workflow empties
  `status.outputs` until the next one;
* with an outputs secret named by the spec, an apply of an older generation that
  has read its outputs may still patch the secret after a newer one did;
* `status.outputs` stays when `writeOutputsToStatus` is switched off.

Left for later: the destroy workflow under retries, a lagging cache of the
resource in `TerraformController`, two controllers during a rollout, and the
clock of one second that the retry filter compares with.

## 6. What is left out, and why

* Concurrency between two calls for one resource: the work queue hands a key
  to one worker at a time, so a call is alone, and the reconcile lock never
  decides.  Without leader election two controllers may overlap in a rollout;
  the models have one.
* Data of pods and objects that no other part reads: environment, annotations,
  rules, affinity, security contexts; the node selectors and their cache.
* Formatting and parsing of addresses, SSH configuration and credentials: no
  state; the errors they raise are the failures of a setup call.  The ways
  `setup.sh` fetches the main module are one step.
* Plugins named like a task, like `require-approval` or like the main container
  (`task`): nothing in the code rejects them and their pods would have two
  containers of one name;
  `PluginNamesAssumption` excludes them.
* `spec.serviceAccount` and `spec.outputsSecret` chosen by the user: the
  objects they name are the user's; `GenerationObjects` has the defaults.
* The claim in `PodFindsItsObjects`: `createPVC` reports success when it cannot
  look the claim up, so the property would not hold of it.
* Terraform, kubectl and the approver: external, modelled by what the scripts
  rely on.
* Start-up, generated code, manifests and examples: no behaviour of their own.
