-------------------------- MODULE TerraformRefinement ------------------------
(* The controller as an implementation of Workflow: the resource without   *)
(* its finalizer, the stage without its progress, the pods as runs.        *)
EXTENDS TerraformController, Sequences

ResultOf(pod) ==
  IF pod.phase = "Succeeded" THEN "succeeded"
  ELSE IF pod.phase = "Failed" THEN "failed"
  ELSE IF pod.there THEN "running"
  ELSE "lost"

RunOf(pod) == [uid |-> pod.owner, gen |-> pod.gen, task |-> pod.task, result |-> ResultOf(pod)]

W == INSTANCE Workflow
       WITH resource <- [uid |-> meta.uid, gen |-> meta.gen, deleting |-> meta.deleting],
            stage <- [gen |-> status.stage.gen, task |-> status.stage.task],
            completed <- status.phase = "completed",
            runs <- [i \in 1..(nextPod - 1) |-> RunOf(pods[i])]

(***************************************************************************)
(* The reconciler, its crashes and lost writes included, does nothing that *)
(* Workflow does not allow: one stage after the other, one run of a stage  *)
(* at a time, a new plan after a failed apply, and no way for a deleted    *)
(* resource but through its destroy workflow.                              *)
(***************************************************************************)
ImplementsWorkflow == W!Spec
=============================================================================
