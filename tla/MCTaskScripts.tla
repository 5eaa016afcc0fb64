---------------------------- MODULE MCTaskScripts ----------------------------
(* The specs and the modules of the users of TaskScripts.                  *)
EXTENDS TaskScripts

Declared == [g \in 1..MaxGen |-> IF g = 1 THEN {"a", "b"} ELSE {"b", "c"}]

UserSpecs ==
  {[EmptySpec EXCEPT !.requireApproval = TRUE, !.writeOutputsToStatus = TRUE,
                     !.outputsToInclude = {"a", "b"}, !.outputsToOmit = {"b"},
                     !.varFiles = 6],
   [EmptySpec EXCEPT !.cleanupDisk = TRUE]}
=============================================================================
