----------------------------- MODULE StatusUpdate ----------------------------
(***************************************************************************)
(* updateStatusWithRetry against an API server with optimistic concurrency *)
(* and a client that reads from an informer cache: the cache may lag, the  *)
(* users change the resource at any time, a write may fail with or without *)
(* taking effect.  The controller alone writes the status.                 *)
(*                                                                         *)
(* A status is abstracted to what the confirmation compares (the stage's   *)
(* generation, task, interruptible, reason, message and pod name, the      *)
(* phase, the prefix, the started plugins) and what it does not (the       *)
(* stage's state, the retry, the outputs).                                 *)
(***************************************************************************)
EXTENDS Integers, Sequences

CONSTANTS
  Compared, Ignored,  \* values of the two halves of a status
  MaxWrites,          \* attempts to write: 10 in the code
  MaxReads,           \* reads to confirm a write: 10 in the code
  MaxVersions, MaxFaults  \* bounds

ASSUME StatusUpdateAssumption ==
  /\ MaxWrites \in Nat \ {0} /\ MaxReads \in Nat \ {0}
  /\ MaxVersions \in Nat /\ MaxFaults \in Nat

VARIABLES
  versions,  \* the status in every version of the resource the server has had
  seen,      \* the version the client's cache shows
  pc, tf,    \* the place of the call and the version of its copy
  desired,   \* desiredStatus
  i, j,      \* its loop counters
  result,    \* what the last call returned, and whether it was confirmed
  faults

vars == <<versions, seen, pc, tf, desired, i, j, result, faults>>

TerraformStatus == [compared: Compared, ignored: Ignored]

Latest == Len(versions)

TypeOK ==
  /\ versions \in Seq(TerraformStatus) /\ versions # <<>>
  /\ seen \in 1..Latest
  /\ pc \in {"idle", "get", "write", "confirm"}
  /\ tf \in 1..Latest
  /\ desired \in TerraformStatus
  /\ i \in 0..(MaxWrites - 1) /\ j \in 0..(MaxReads - 1)
  /\ result \in {"none", "confirmed", "unconfirmed", "error"}
  /\ faults \in 0..MaxFaults

Init ==
  /\ versions \in {<<s>> : s \in TerraformStatus}
  /\ seen = 1 /\ tf = 1
  /\ pc = "idle" /\ desired = versions[1]
  /\ i = 0 /\ j = 0 /\ result = "none" /\ faults = 0

-----------------------------------------------------------------------------
(* A user changes the resource: the same status in a new version.          *)
UserEdits ==
  /\ Latest < MaxVersions
  /\ versions' = Append(versions, versions[Latest])
  /\ UNCHANGED <<seen, pc, tf, desired, i, j, result, faults>>

CacheCatchesUp ==
  /\ seen' \in (seen + 1)..Latest
  /\ UNCHANGED <<versions, pc, tf, desired, i, j, result, faults>>

-----------------------------------------------------------------------------
Return(r) ==
  /\ pc' = "idle" /\ result' = r /\ i' = 0 /\ j' = 0

(* A call of Reconcile reads the resource and wants a status on it.        *)
UpdateStatusWithRetry ==
  /\ pc = "idle"
  /\ tf' = seen
  /\ desired' \in TerraformStatus
  /\ pc' = "write" /\ result' = "none"
  /\ UNCHANGED <<versions, seen, i, j, faults>>

(* getTerraformResource, which only a fault of every retry makes fail.     *)
GetTerraformResource ==
  /\ pc = "get"
  /\ \/ /\ tf' = seen /\ pc' = "write"
        /\ UNCHANGED <<i, j, result, faults>>
     \/ /\ faults < MaxFaults /\ faults' = faults + 1
        /\ Return("error") /\ UNCHANGED tf
  /\ UNCHANGED <<versions, seen, desired>>

(* The outer loop goes on, or ends after its last round with the error of  *)
(* the last write, err.  A bug: the error is forgotten.                    *)
ForgetsError(err) == "unconfirmed"

Verdict(err) == IF err THEN "error" ELSE "unconfirmed"

(* A bug: one round too many.                                              *)
OneRoundMore(n) == n < MaxWrites

HasNextRound(n) == n + 1 < MaxWrites

NextWrite(err) ==
  \/ /\ HasNextRound(i)
     /\ i' = i + 1 /\ j' = 0 /\ pc' = "get" /\ UNCHANGED result
  \/ ~HasNextRound(i) /\ Return(Verdict(err))

(* The server makes no new version of what it already has.                 *)
Stored ==
  /\ tf = Latest
  /\ versions' = IF desired = versions[Latest] THEN versions ELSE Append(versions, desired)
  /\ Len(versions') <= MaxVersions

Write ==
  /\ pc = "write"
  /\ \/ /\ Stored
        /\ pc' = "confirm" /\ j' = 0
        /\ UNCHANGED <<i, result, faults>>
     \/ /\ \/ tf # Latest /\ UNCHANGED <<versions, faults>>
           \/ /\ faults < MaxFaults /\ faults' = faults + 1
              /\ Stored \/ UNCHANGED versions
        /\ NextWrite(TRUE)
  /\ UNCHANGED <<seen, tf, desired>>

(* Stage.IsEqual and what surrounds it.                                    *)
AlwaysEqual(s, d) == s.compared = d.compared \/ s.ignored = d.ignored

IsEqual(s, d) == s.compared = d.compared

Confirm ==
  /\ pc = "confirm"
  /\ \/ /\ IsEqual(versions[seen], desired)
        /\ Return("confirmed") /\ UNCHANGED faults
     \/ /\ ~IsEqual(versions[seen], desired) /\ UNCHANGED faults
        /\ \/ j + 1 < MaxReads /\ j' = j + 1 /\ UNCHANGED <<pc, i, result>>
           \/ j + 1 = MaxReads /\ NextWrite(FALSE)
     \/ /\ faults < MaxFaults /\ faults' = faults + 1
        /\ Return("error")
  /\ UNCHANGED <<versions, seen, tf, desired>>

Next ==
  \/ UserEdits \/ CacheCatchesUp
  \/ UpdateStatusWithRetry \/ GetTerraformResource \/ Write \/ Confirm

Spec == Init /\ [][Next]_vars

-----------------------------------------------------------------------------
(* A call that returned no error has written its status, and it is still   *)
(* the resource's.                                                         *)
NoErrorMeansWritten ==
  pc = "idle" /\ result \in {"confirmed", "unconfirmed"} => versions[Latest] = desired

(***************************************************************************)
(* After a confirmed write no read of the cache shows an older value of    *)
(* what the confirmation compared: the next call of Reconcile works on the *)
(* generation, the task, the pod name, the phase, the prefix and the       *)
(* plugins that this one wrote.  It says nothing of the stage's state.     *)
(***************************************************************************)
ReadsConfirmedPart ==
  pc = "idle" /\ result = "confirmed" =>
    \A v \in seen..Latest : versions[v].compared = desired.compared

(***************************************************************************)
(* "Confirm the status is up to date" (updateStatusWithRetry) would be     *)
(* that after a confirmed write the cache shows the whole status, the      *)
(* stage's state that checkSetNewStage decides on included.  It does not   *)
(* hold: a cache that has not seen a write of the state confirms it.       *)
(***************************************************************************)
ReadsConfirmedStatus ==
  pc = "idle" /\ result = "confirmed" => \A v \in seen..Latest : versions[v] = desired
=============================================================================
