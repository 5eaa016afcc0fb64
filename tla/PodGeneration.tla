---------------------------- MODULE PodGeneration ----------------------------
(***************************************************************************)
(* What the controller puts into the pod of a task: newTaskOptions reads   *)
(* the spec for one task or plugin, setupAndRun fills the ConfigMap of a   *)
(* generation, generatePod makes the pod.  The functions are pure; names   *)
(* are strings, and only the parts of an object that another component     *)
(* reads are kept.                                                         *)
(***************************************************************************)
EXTENDS Tasks, SequencesExt

CONSTANT PluginNames     \* the keys of spec.plugins

Unset == ""              \* the zero value of the spec's strings
NoFile == <<>>
NoPod == [volumes |-> {}, containers |-> <<>>]

Approver == "require-approval"

MainContainer == "task"

(* Nothing checks the keys: one that is a task's name, the approver's or   *)
(* that of the main container makes a container of the name of another.    *)
ASSUME PluginNamesAssumption ==
  /\ IsFiniteSet(PluginNames)
  /\ PluginNames \cap (TaskName \cup {RunNil, "*", Approver, MainContainer}) = {}

Reserved == {"tfohome", "config-map-source", "main-module-addons", "gitaskpass", "ssh"}

(* The task classes, each with an image and a default script of its own.   *)
TerraformTasks == {"init", "init-delete", "plan", "plan-delete", "apply", "apply-delete"}
SetupTasks == {"setup", "setup-delete"}

ClassOf(task) ==
  IF task \in TerraformTasks THEN "terraform"
  ELSE IF task \in SetupTasks THEN "setup"
  ELSE IF ID(task) # -2 THEN "noop"
  ELSE "plugin"

(***************************************************************************)
(* The spec of a resource.  An image is the list of its parts between      *)
(* colons, <<>> when it is not set.                                        *)
(***************************************************************************)
TaskOption == [for: SUBSET STRING, inline: STRING, configMap: STRING, source: STRING,
               volumes: SUBSET [name: STRING, source: STRING], mounts: SUBSET STRING,
               labels: SUBSET STRING]
Plugin == [when: {"At", "After", "Sidecar"}, task: TaskName, must: BOOLEAN]

EmptySpec == [taskOptions |-> <<>>, plugins |-> [p \in {} |-> "none"],
              requireApproval |-> FALSE, cleanupDisk |-> FALSE, varFiles |-> 0,
              image |-> <<>>, terraformVersion |-> "latest",
              outputsSecret |-> Unset, writeOutputsToStatus |-> FALSE,
              outputsToInclude |-> {}, outputsToOmit |-> {}]

EmptyOption == [for |-> {}, inline |-> Unset, configMap |-> Unset, source |-> Unset,
                volumes |-> {}, mounts |-> {}, labels |-> {}]

TasksOf(spec) == UNION {o.for : o \in ToSet(spec.taskOptions)}

-----------------------------------------------------------------------------
(***************************************************************************)
(* newTaskOptions.  Options for "*" configure every pod, but a script is   *)
(* only taken from the options that name the task; of those, the last that *)
(* sets an inline script or a ConfigMap wins, while each one, the empty    *)
(* one too, replaces the source.                                           *)
(***************************************************************************)
OptionsFor(spec, task) ==
  {i \in DOMAIN spec.taskOptions : {task, "*"} \cap spec.taskOptions[i].for # {}}

OptionsNaming(spec, task) ==
  {i \in DOMAIN spec.taskOptions : task \in spec.taskOptions[i].for}

LastSet(spec, options, field) ==
  LET set == {i \in options : spec.taskOptions[i][field] # Unset}
  IN  IF set = {} THEN Unset ELSE spec.taskOptions[Max(set)][field]

InlineScript(spec, task) == LastSet(spec, OptionsNaming(spec, task), "inline")

InlineFile(task) == <<"inline", task>>
DefaultFile(task) == IF ClassOf(task) = "plugin" THEN NoFile ELSE <<"default", ClassOf(task)>>

ScriptFile(spec, task, source, configMap) ==
  IF InlineScript(spec, task) # Unset THEN InlineFile(task)
  ELSE IF source = Unset /\ configMap = Unset THEN DefaultFile(task)
  ELSE NoFile

(* The version is the tag of the terraform image whatever tag the spec     *)
(* gives: what follows the last colon goes.                                *)
TerraformImage(image, version) ==
  IF image = <<>> THEN <<"terraform", version>>
  ELSE IF Len(image) = 1 THEN Append(image, version)
  ELSE Append(Front(image), version)

ImageOf(spec, task) ==
  IF ClassOf(task) = "terraform" THEN TerraformImage(spec.image, spec.terraformVersion)
  ELSE <<ClassOf(task), "default">>

(* The labels by which the controller and its reapers find what is theirs. *)
ResourceLabels(task, gen) ==
  [key \in {"generation"} \cup IF ID(task) = -2 THEN {"isPlugin"} ELSE {} |->
     IF key = "generation" THEN gen ELSE 1]

(* Two options that give one volume give the pod two.                      *)
UserVolumes(spec, task) ==
  UNION {{[name |-> v.name, source |-> v.source, option |-> i] :
            v \in spec.taskOptions[i].volumes} : i \in OptionsFor(spec, task)}

UserLabels(spec, task) ==
  [key \in UNION {spec.taskOptions[i].labels : i \in OptionsFor(spec, task)} |-> 0]

OutputsSecretName(spec, gen) ==
  IF spec.outputsSecret # Unset THEN <<spec.outputsSecret>> ELSE <<"outputs", gen>>

SaveOutputs(spec) == spec.outputsSecret # Unset \/ spec.writeOutputsToStatus

NewTaskOptions(spec, task, gen) ==
  LET all == OptionsFor(spec, task)
      naming == OptionsNaming(spec, task)
      source == IF naming = {} THEN Unset ELSE spec.taskOptions[Max(naming)].source
      configMap == LastSet(spec, naming, "configMap")
  IN  [task |-> task, gen |-> gen,
       labels |-> UserLabels(spec, task),
       volumes |-> UserVolumes(spec, task),
       mounts |-> UNION {spec.taskOptions[i].mounts : i \in all},
       source |-> source, configMap |-> configMap,
       file |-> ScriptFile(spec, task, source, configMap),
       image |-> ImageOf(spec, task)]

-----------------------------------------------------------------------------
(***************************************************************************)
(* The ConfigMap of a generation: the default scripts and the inline       *)
(* scripts of all task options, the last one of a task written over the    *)
(* others.                                                                 *)
(***************************************************************************)
InlineTasks(spec) ==
  (UNION {o.for : o \in {o \in ToSet(spec.taskOptions) : o.inline # Unset}}) \ {"*"}

DefaultFiles == {<<"default", class>> : class \in {"terraform", "setup", "noop"}}

ConfigMapData(spec) ==
  [file \in DefaultFiles \cup {InlineFile(t) : t \in InlineTasks(spec)} |->
     IF file \in DefaultFiles THEN file[2] ELSE InlineScript(spec, file[2])]

-----------------------------------------------------------------------------
Names(volumes) == {v.name : v \in volumes}

ValidateVolume(opts) ==
  /\ Names(opts.volumes) \cap Reserved = {}
  /\ Names(opts.volumes) = opts.mounts

SystemVolumes(opts) ==
  {[name |-> "tfohome", source |-> "claim"],
   [name |-> "main-module-addons", source |-> "ConfigMap"],
   [name |-> "gitaskpass", source |-> "Secret"],
   [name |-> "ssh", source |-> "Secret"]}
  \cup IF opts.configMap = Unset THEN {}
       ELSE {[name |-> "config-map-source", source |-> opts.configMap]}

ContainerName(task) == IF ID(task) = -2 THEN task ELSE MainContainer

Container(opts) ==
  [name |-> ContainerName(opts.task), image |-> opts.image, file |-> opts.file,
   configMap |-> opts.configMap, mounts |-> Names(SystemVolumes(opts)) \cup opts.mounts]

(* A bug: a sidecar joins without its volumes.                             *)
NoVolumesOfSidecar(volumes, sidecar) == volumes

(* A sidecar's volumes join those of the pod unless their name is taken.   *)
AddVolumes(volumes, sidecar) ==
  volumes \cup {v \in sidecar.volumes : v.name \notin Names(volumes)}

(* The resource's labels are written over the user's.                      *)
AllLabels(opts) ==
  LET own == ResourceLabels(opts.task, opts.gen)
  IN  [key \in DOMAIN own \cup DOMAIN opts.labels |->
         IF key \in DOMAIN own THEN own[key] ELSE opts.labels[key]]

AllVolumes(volumes, sidecars) == FoldLeft(AddVolumes, volumes, sidecars)

AllContainers(own, sidecars) ==
  FoldLeft(LAMBDA containers, s : containers \o s.containers, own, sidecars)

(* generatePod: NoPod when the volumes of the options do not fit.          *)
GeneratePod(opts, sidecars) ==
  IF ~ValidateVolume(opts) THEN NoPod
  ELSE [task |-> opts.task, gen |-> opts.gen,
        labels |-> AllLabels(opts),
        containers |-> AllContainers(<<Container(opts)>>, sidecars),
        volumes |-> AllVolumes(SystemVolumes(opts) \cup opts.volumes, sidecars)]

ContainerNames(pod) == {pod.containers[i].name : i \in DOMAIN pod.containers}

PluginOptions(spec, p, gen) == [NewTaskOptions(spec, p, gen) EXCEPT !.image = <<p>>]

GetPluginSidecarPod(spec, p, gen) == GeneratePod(PluginOptions(spec, p, gen), <<>>)

ApproverPod(spec, gen) == GetPluginSidecarPod(spec, Approver, gen)
=============================================================================
