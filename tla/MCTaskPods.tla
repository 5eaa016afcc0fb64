----------------------------- MODULE MCTaskPods ------------------------------
(* The specs of the users of TaskPods.                                     *)
EXTENDS TaskPods

PluginOf(when, task, must) == [when |-> when, task |-> task, must |-> must]

SidecarAndMaybe == [p \in {"p", "q"} |-> PluginOf("Sidecar", "plan", p = "p")]
TwoSidecars == [p \in {"p", "q"} |-> PluginOf("Sidecar", "plan", p = "q")]
AtAndAfter == [p \in {"p", "q"} |->
                IF p = "p" THEN PluginOf("At", "init", FALSE) ELSE PluginOf("After", "setup", FALSE)]

Volume(name) == [name |-> name, source |-> "users"]

ForAll == [EmptyOption EXCEPT !.for = {"*"}, !.inline = "all.sh",
             !.volumes = {Volume("cache")}, !.mounts = {"cache"}, !.labels = {"generation", "team"}]
ForPlan == [EmptyOption EXCEPT !.for = {"plan", "plan-delete"}, !.inline = "plan.sh"]
ForPlanAgain == [EmptyOption EXCEPT !.for = {"plan"}, !.configMap = "scripts"]
ForPlugin == [EmptyOption EXCEPT !.for = {"p"}, !.inline = "p.sh",
                !.volumes = {Volume("own")}, !.mounts = {"own"}]
NoSuchVolume == [EmptyOption EXCEPT !.for = {"plan"}, !.mounts = {"none"}]
Unmounted == [EmptyOption EXCEPT !.for = {"q"}, !.volumes = {Volume("own")}]

UserSpecs ==
  {[EmptySpec EXCEPT !.plugins = TwoSidecars, !.requireApproval = TRUE,
                     !.taskOptions = <<ForAll, ForPlan, ForPlugin>>],
   [EmptySpec EXCEPT !.plugins = SidecarAndMaybe, !.requireApproval = TRUE,
                     !.taskOptions = <<ForPlan, ForPlanAgain, Unmounted>>],
   [EmptySpec EXCEPT !.plugins = AtAndAfter, !.taskOptions = <<ForAll, ForPlugin>>],
   [EmptySpec EXCEPT !.plugins = AtAndAfter, !.taskOptions = <<NoSuchVolume, Unmounted>>],
   [EmptySpec EXCEPT !.plugins = TwoSidecars, !.taskOptions = <<Unmounted>>]}
=============================================================================
