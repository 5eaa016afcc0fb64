------------------------------ MODULE TaskScripts ----------------------------
(***************************************************************************)
(* What the pods of a workflow do to the disk they share, to the           *)
(* infrastructure and to the outputs: the scripts setup.sh, tf.sh and      *)
(* noop.sh, run in the order Workflow allows, the pods of an older         *)
(* generation among them.  Terraform itself is external: a plan is of one  *)
(* serial of the state and is refused once the state has moved on.         *)
(***************************************************************************)
EXTENDS Workflow, PodGeneration

CONSTANTS Specs,               \* the specs users write
          OutputsOf,           \* the outputs each generation's module declares
          PartialDownloads,    \* how many var files a set up that stops has got
          MaxGen, MaxRuns, MaxTroubles   \* bounds

Gens == 1..MaxGen

ASSUME BoundsAssumption ==
  MaxGen \in Nat \ {0} /\ MaxTroubles \in Nat /\ PartialDownloads \subseteq Nat
ASSUME SpecsAssumption == \A s \in Specs : s.varFiles \in Nat
ASSUME OutputsAssumption == OutputsOf \in [Gens -> SUBSET STRING]

VARIABLES
  specs,     \* the spec of each generation
  disk,      \* the directory of each generation on the volume
  infra,     \* the terraform state: its serial and the module it was applied from
  planned,   \* the plan runs that have written their plan
  approved,  \* the plan runs that were approved
  applied,   \* the plan runs whose plan was applied
  saving,    \* the apply runs that are to save outputs and those they have read
  secrets,   \* the data of the secrets with the outputs
  shown,     \* status.outputs
  misread,   \* the controller could not load the secret, or saw an old one
  troubles   \* failures so far

scriptVars == <<specs, disk, infra, planned, approved, applied, saving, secrets, shown,
                misread, troubles>>
vars == <<workflowVars, scriptVars>>

Destroyed == 0
Mixed == -1

(* main: the generation whose module is in it, 0 when it is not there;     *)
(* vars: the var files in the order they came, as the spec numbers them.   *)
NoPlan == [serial |-> -1, config |-> Destroyed, run |-> 0]
EmptyDir == [main |-> 0, initialized |-> FALSE, plan |-> NoPlan, vars |-> <<>>]

SecretNames == {OutputsSecretName(s, g) : s \in Specs, g \in Gens}

TypeOK ==
  /\ TypeInv
  /\ specs \in [Gens -> Specs \cup {EmptySpec}]
  /\ \A g \in Gens : disk[g].main \in {0, g} /\ disk[g].plan.run \in 0..Len(runs)
  /\ infra.serial \in Nat /\ infra.config \in Gens \cup {Destroyed, Mixed}
  /\ planned \cup approved \cup applied \cup DOMAIN saving \subseteq DOMAIN runs
  /\ DOMAIN secrets = SecretNames
  /\ misread \in BOOLEAN /\ troubles \in 0..MaxTroubles

ScriptsInit ==
  /\ Init
  /\ specs = [g \in Gens |-> EmptySpec] /\ disk = [g \in Gens |-> EmptyDir]
  /\ infra = [serial |-> 0, config |-> Destroyed]
  /\ planned = {} /\ approved = {} /\ applied = {} /\ saving = <<>>
  /\ secrets = [n \in SecretNames |-> <<>>] /\ shown = <<>>
  /\ misread = FALSE /\ troubles = 0

-----------------------------------------------------------------------------
Trouble == troubles < MaxTroubles /\ troubles' = troubles + 1

(* The users and the controller, as far as Workflow tells.                 *)
NoScript == UNCHANGED <<disk, infra, planned, approved, applied, saving, secrets, troubles>>

CreateResource ==
  /\ resource' = [uid |-> 1, gen |-> 1, deleting |-> FALSE] /\ Create
  /\ \E s \in Specs : specs' = [specs EXCEPT ![1] = s]
  /\ NoScript /\ UNCHANGED <<shown, misread>>

EditSpec ==
  /\ resource.gen < MaxGen /\ Edit
  /\ \E s \in Specs : specs' = [specs EXCEPT ![resource.gen + 1] = s]
  /\ NoScript /\ UNCHANGED <<shown, misread>>

DeleteResource ==
  /\ resource.gen < MaxGen /\ Delete
  /\ specs' = [specs EXCEPT ![resource.gen + 1] = specs[resource.gen]]
  /\ NoScript /\ UNCHANGED <<shown, misread>>

NewStage == NewGeneration /\ NoScript /\ UNCHANGED <<specs, shown, misread>>

NextStage == (Advance \/ Replan) /\ NoScript /\ UNCHANGED <<specs, shown, misread>>

StartRun == Len(runs) < MaxRuns /\ Start /\ NoScript /\ UNCHANGED <<specs, shown, misread>>

ResourceGone == Gone /\ NoScript /\ UNCHANGED <<specs, shown, misread>>

(* A bug: the outputs that are no more are not removed.                    *)
OnlyAdd(old, data) == data @@ old

(* The status loses the keys that are not in the secret and gets its data. *)
Show(old, data) ==
  LET kept == DOMAIN old \cap DOMAIN data
  IN  [k \in kept \cup DOMAIN data |-> IF k \in DOMAIN data THEN data[k] ELSE old[k]]

(* A secret that cannot be loaded, or that the cache shows as it was       *)
(* before the apply filled it, is taken for an empty one.                  *)
CompleteWorkflow ==
  /\ ~completed /\ Complete
  /\ LET s == specs[stage.gen]
         data == secrets[OutputsSecretName(s, stage.gen)]
     IN  \/ ~s.writeOutputsToStatus /\ UNCHANGED <<shown, misread, troubles>>
         \/ /\ s.writeOutputsToStatus
            /\ \/ shown' = Show(shown, data) /\ misread' = FALSE /\ UNCHANGED troubles
               \/ shown' = Show(shown, <<>>) /\ misread' = TRUE /\ Trouble
  /\ UNCHANGED <<specs, disk, infra, planned, approved, applied, saving, secrets>>

-----------------------------------------------------------------------------
(***************************************************************************)
(* The scripts.  Each works in the directory of its generation.            *)
(***************************************************************************)
Runs(tasks) == {i \in DOMAIN runs : runs[i].result = "running" /\ runs[i].task \in tasks}

(* A bug: the generations share a directory.                               *)
SharedDir(i) == 1

GenerationPath(i) == runs[i].gen

Dir(i) == disk[GenerationPath(i)]
SpecOf(i) == specs[runs[i].gen]

Numbers(n) == [k \in 1..n |-> k]

CleanedDisk(i) == IF SpecOf(i).cleanupDisk THEN [g \in Gens |-> EmptyDir] ELSE disk

(* setup.sh: the main module, what init and plan left in it included, is   *)
(* removed and fetched again, and then the downloads come.  Those that are *)
(* var files are numbered and added to those there.                        *)
SetUpDisk(i, main, downloads) ==
  LET disk0 == CleanedDisk(i)
      path == GenerationPath(i)
  IN  [disk0 EXCEPT ![path] = [main |-> main, initialized |-> FALSE, plan |-> NoPlan,
                               vars |-> disk0[path].vars \o Numbers(downloads)]]

SetUp(i) ==
  /\ i \in Runs(SetupTasks)
  /\ disk' = SetUpDisk(i, runs[i].gen, SpecOf(i).varFiles)
  /\ End(i, "succeeded")
  /\ UNCHANGED <<specs, infra, planned, approved, applied, saving, secrets, shown, misread,
                 troubles>>

(* It stops before the main module is complete or among the downloads.     *)
SetUpStops(i) ==
  /\ i \in Runs(SetupTasks) /\ Trouble
  /\ \/ disk' = SetUpDisk(i, 0, 0)
     \/ \E downloads \in PartialDownloads :
          /\ downloads <= SpecOf(i).varFiles
          /\ disk' = SetUpDisk(i, runs[i].gen, downloads)
  /\ End(i, "failed")
  /\ UNCHANGED <<specs, infra, planned, approved, applied, saving, secrets, shown, misread>>

(* tf.sh: terraform init.                                                  *)
TerraformInit(i) ==
  /\ i \in Runs({"init", "init-delete"}) /\ Dir(i).main # 0
  /\ disk' = [disk EXCEPT ![GenerationPath(i)].initialized = TRUE]
  /\ End(i, "succeeded")
  /\ UNCHANGED <<specs, infra, planned, approved, applied, saving, secrets, shown, misread,
                 troubles>>

(* The order terraform plan gets the var files in, the later ones winning. *)
(* File names begin with the index of the file and an underscore, which    *)
(* sorts after the digits: 10_ comes before 1_.                            *)

(* A bug: the index of the first file is 1.                                *)
FromOne(k) == k

FileIndex(k) == k - 1

NameOf(k) ==
  LET n == FileIndex(k)
      underscore == 10
  IN  IF n < 10 THEN <<n, underscore>> ELSE <<n \div 10, n % 10>>

SortedBefore(a, b) == a[1] < b[1] \/ (a[1] = b[1] /\ a[2] < b[2])

Earlier(files, k) == {j \in files : SortedBefore(NameOf(j), NameOf(k))}

VarFiles(dir) ==
  LET files == DOMAIN dir.vars
      NthFile(n) == CHOOSE k \in files : Cardinality(Earlier(files, k)) = n - 1
  IN  [n \in files |-> dir.vars[NthFile(n)]]

(* noop.sh, the default script of the tasks around them.                   *)
Noop(i) ==
  /\ i \in Runs(TaskName \ (SetupTasks \cup TerraformTasks))
  /\ End(i, "succeeded")
  /\ UNCHANGED scriptVars

(* A bug: the plan of the destroy workflow is made without -destroy.       *)
NeverDestroy(task, main) == main

Planned(task, main) == IF task = "plan-delete" THEN Destroyed ELSE main

(* A bug: only the create workflow waits for the approval.                 *)
IsHeldToCreate(i) == SpecOf(i).requireApproval /\ runs[i].task = "plan"

IsHeld(i) == SpecOf(i).requireApproval /\ runs[i].task \in {"plan", "plan-delete"}

(* terraform plan -out tfplan.  The pod ends when its approver does.       *)
TerraformPlan(i) ==
  /\ i \in Runs({"plan", "plan-delete"}) \ planned /\ Dir(i).initialized
  /\ disk' = [disk EXCEPT ![GenerationPath(i)].plan =
                [serial |-> infra.serial, config |-> Planned(runs[i].task, Dir(i).main), run |-> i]]
  /\ planned' = planned \cup {i}
  /\ IF IsHeld(i) THEN UNCHANGED workflowVars ELSE End(i, "succeeded")
  /\ UNCHANGED <<specs, infra, approved, applied, saving, secrets, shown, misread, troubles>>

Approve(i) ==
  /\ i \in planned /\ End(i, "succeeded")
  /\ approved' = approved \cup {i}
  /\ UNCHANGED <<specs, disk, infra, planned, applied, saving, secrets, shown, misread, troubles>>

(* terraform apply tfplan: in full, in part or, of a plan of an older      *)
(* state or without one, not at all.                                       *)
ApplyTasks == {"apply", "apply-delete"}

ApplyRuns == Runs(ApplyTasks) \ DOMAIN saving

IsFresh(plan) == plan # NoPlan /\ plan.serial = infra.serial

TerraformApply(i) ==
  /\ i \in ApplyRuns /\ IsFresh(Dir(i).plan)
  /\ infra' = [serial |-> infra.serial + 1, config |-> Dir(i).plan.config]
  /\ applied' = applied \cup {Dir(i).plan.run}
  /\ IF SaveOutputs(SpecOf(i)) /\ runs[i].task = "apply"
     THEN /\ saving' = [k \in DOMAIN saving \cup {i} |-> IF k = i THEN <<>> ELSE saving[k]]
          /\ UNCHANGED workflowVars
     ELSE End(i, "succeeded") /\ UNCHANGED saving
  /\ UNCHANGED <<specs, disk, planned, approved, secrets, shown, misread, troubles>>

TerraformAppliesInPart(i) ==
  /\ i \in ApplyRuns /\ IsFresh(Dir(i).plan) /\ Trouble
  /\ infra' = [serial |-> infra.serial + 1, config |-> Mixed]
  /\ applied' = applied \cup {Dir(i).plan.run}
  /\ End(i, "failed")
  /\ UNCHANGED <<specs, disk, planned, approved, saving, secrets, shown, misread>>

TerraformRefuses(i) ==
  /\ i \in ApplyRuns /\ ~IsFresh(Dir(i).plan)
  /\ End(i, "failed")
  /\ UNCHANGED scriptVars

(* The outputs that outputsToInclude and outputsToOmit let through are     *)
(* read once the apply is done, and replace the data of the secret in one  *)
(* patch.                                                                  *)
Outputs == IF infra.config \in Gens THEN OutputsOf[infra.config] ELSE {}

(* A bug: one of the two lists is enough.                                  *)
KeptByEither(s, key) == key \in s.outputsToInclude \/ key \notin s.outputsToOmit

Kept(s, key) ==
  /\ s.outputsToInclude = {} \/ key \in s.outputsToInclude
  /\ key \notin s.outputsToOmit

ReadOutputs(i) ==
  /\ i \in Runs({"apply"}) \cap DOMAIN saving /\ saving[i] = <<>>
  /\ saving' = [saving EXCEPT ![i] =
                  <<[key \in {k \in Outputs : Kept(SpecOf(i), k)} |-> infra.config]>>]
  /\ UNCHANGED <<workflowVars, specs, disk, infra, planned, approved, applied, secrets, shown,
                 misread, troubles>>

PatchSecret(i) ==
  /\ i \in Runs({"apply"}) \cap DOMAIN saving /\ saving[i] # <<>>
  /\ secrets' = [secrets EXCEPT ![OutputsSecretName(SpecOf(i), runs[i].gen)] = saving[i][1]]
  /\ End(i, "succeeded")
  /\ UNCHANGED <<specs, disk, infra, planned, approved, applied, saving, shown, misread, troubles>>

(* Any script may fail and any pod may be lost, which makes a difference   *)
(* to the stage of an apply alone: it is planned again after a failure and *)
(* started again after a loss.  A task that finds no module, or none that  *)
(* is initialized, fails for certain.                                      *)
StopsAs(i) == IF runs[i].task \in ApplyTasks THEN {"failed", "lost"} ELSE {"failed"}

ScriptStops(i) ==
  /\ Trouble
  /\ \E result \in StopsAs(i) : End(i, result)
  /\ UNCHANGED <<specs, disk, infra, planned, approved, applied, saving, secrets, shown, misread>>

NothingToDo(i) ==
  /\ \/ i \in Runs({"init", "init-delete"}) /\ Dir(i).main = 0
     \/ i \in Runs({"plan", "plan-delete"}) \ planned /\ ~Dir(i).initialized
  /\ End(i, "failed")
  /\ UNCHANGED scriptVars

ScriptsNext ==
  \/ CreateResource \/ EditSpec \/ DeleteResource
  \/ NewStage \/ NextStage \/ StartRun \/ CompleteWorkflow \/ ResourceGone
  \/ \E i \in Runs(TaskName) :
       \/ SetUp(i) \/ SetUpStops(i) \/ TerraformInit(i) \/ Noop(i)
       \/ TerraformPlan(i) \/ Approve(i)
       \/ TerraformApply(i) \/ TerraformAppliesInPart(i) \/ TerraformRefuses(i)
       \/ ReadOutputs(i) \/ PatchSecret(i) \/ ScriptStops(i) \/ NothingToDo(i)

ScriptsSpec == ScriptsInit /\ [][ScriptsNext]_vars

-----------------------------------------------------------------------------
(* A resource reported as completed has the infrastructure of the          *)
(* generation it was completed for, whatever failed on the way and         *)
(* whichever pods of an older generation were still at work.               *)
CompletedIsApplied == completed => infra.config = stage.gen

(* A module that is initialized, ready to be planned, has all var files of *)
(* the spec, and a plan gets them last and in the order of the spec,       *)
(* whatever a set up that stopped half-way left before them, as long as    *)
(* there are no more than ten files.                                       *)
VarFilesInOrder ==
  \A g \in Gens :
    disk[g].initialized /\ Len(disk[g].vars) <= 10
      => IsSuffix(Numbers(specs[g].varFiles), VarFiles(disk[g]))

(* The infrastructure is destroyed before the resource goes.               *)
GoneIsDestroyed ==
  [][resource.uid # 0 /\ resource'.uid = 0 => infra.config = Destroyed]_vars

(* A plan that changed the infrastructure was approved, if its generation  *)
(* requires that: one whose pod was lost while it was held is never        *)
(* applied.                                                                *)
AppliedWasApproved ==
  \A i \in applied : SpecOf(i).requireApproval => i \in approved

(* Once completed, the secret holds the outputs of the module in force     *)
(* that the spec lets through, and no others; the status holds the same    *)
(* unless the secret was misread.                                          *)
WantedOutputs(s, gen) ==
  LET declared == OutputsOf[gen]
      included == IF s.outputsToInclude = {} THEN declared ELSE declared \cap s.outputsToInclude
  IN  [key \in included \ s.outputsToOmit |-> gen]

OutputsAreSaved ==
  LET s == specs[stage.gen]
  IN  completed /\ SaveOutputs(s)
        => secrets[OutputsSecretName(s, stage.gen)] = WantedOutputs(s, stage.gen)

OutputsAreShown ==
  LET s == specs[stage.gen]
  IN  completed /\ s.writeOutputsToStatus /\ ~misread => shown = WantedOutputs(s, stage.gen)
=============================================================================
