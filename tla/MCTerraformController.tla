------------------------ MODULE MCTerraformController ------------------------
(* Values for the constants of TerraformController that a .cfg cannot      *)
(* write: what the users of a run configure.                               *)
EXTENDS TerraformRefinement

NoPluginWhen == [p \in {} |-> "At"]
NoPluginTask == [p \in {} |-> "setup"]

OnePluginWhen == [p \in PluginNames |-> "After"]
OnePluginTask == [p \in PluginNames |-> "init"]
=============================================================================
