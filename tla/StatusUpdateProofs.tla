-------------------------- MODULE StatusUpdateProofs -------------------------
(***************************************************************************)
(* Proofs about StatusUpdate, for every number of rounds, reads, versions  *)
(* and faults.                                                             *)
(*                                                                         *)
(* What a call promises rests on two facts about the copy tf it writes:    *)
(* the cache only moves forward, so it never shows less than tf; and a     *)
(* write is stored only when tf is the latest version, so every version    *)
(* after tf is then this call's.                                           *)
(***************************************************************************)
EXTENDS StatusUpdate, TLAPS

Written ==
  /\ versions[Latest] = desired
  /\ \A v \in (tf + 1)..Latest : versions[v] = desired

UpdateInv ==
  /\ TypeOK
  /\ tf <= seen
  /\ pc = "confirm" => Written
  /\ NoErrorMeansWritten
  /\ ReadsConfirmedPart

(* The counters of a call that goes to another round stay in their range.  *)
LEMMA NextWriteType ==
  ASSUME TypeOK, NEW err \in BOOLEAN, NextWrite(err)
  PROVE  /\ pc' \in {"idle", "get"}
         /\ i' \in 0..(MaxWrites - 1) /\ j' \in 0..(MaxReads - 1)
         /\ result' \in {"none", "confirmed", "unconfirmed", "error"}
         /\ pc' = "idle" => result' = Verdict(err)
<1>1. CASE HasNextRound(i)
  BY <1>1, StatusUpdateAssumption DEF TypeOK, NextWrite, HasNextRound
<1>2. CASE ~HasNextRound(i)
  BY <1>2, StatusUpdateAssumption DEF TypeOK, NextWrite, Return, Verdict
<1> QED
  BY <1>1, <1>2

(* A user's edit repeats the last status in a new version.                 *)
LEMMA Appended ==
  ASSUME TypeOK, NEW s \in TerraformStatus, versions' = Append(versions, s)
  PROVE  /\ versions' \in Seq(TerraformStatus) /\ versions' # <<>>
         /\ Latest' = Latest + 1 /\ versions'[Latest'] = s
         /\ \A v \in 1..Latest : versions'[v] = versions[v]
         /\ Latest \in Nat \ {0} /\ versions[Latest] \in TerraformStatus
BY DEF TypeOK, Latest

(* What a stored write leaves behind.                                      *)
LEMMA StoredWrites ==
  ASSUME TypeOK, Stored, UNCHANGED <<desired, tf>>
  PROVE  /\ versions' \in Seq(TerraformStatus) /\ versions' # <<>>
         /\ Latest' >= Latest
         /\ Written'
<1>1. CASE desired = versions[Latest]
  <2>1. versions' = versions /\ tf = Latest
    BY <1>1 DEF Stored
  <2> QED
    BY <1>1, <2>1 DEF TypeOK, Written, Latest
<1>2. CASE desired # versions[Latest]
  <2>1. versions' = Append(versions, desired) /\ tf = Latest
    BY <1>2 DEF Stored
  <2>2. desired \in TerraformStatus
    BY DEF TypeOK
  <2>3. /\ versions' \in Seq(TerraformStatus) /\ versions' # <<>>
        /\ Latest' = Latest + 1 /\ versions'[Latest'] = desired
        /\ Latest \in Nat
    BY <2>1, <2>2, Appended
  <2>4. Latest' >= Latest /\ versions'[Latest'] = desired'
    BY <2>3
  <2>5. \A v \in (tf' + 1)..Latest' : v = Latest'
    BY <2>1, <2>3
  <2>6. Written'
    BY <2>4, <2>5 DEF Written
  <2> QED
    BY <2>3, <2>4, <2>6
<1> QED
  BY <1>1, <1>2

LEMMA InitHolds == Init => UpdateInv
<1> SUFFICES ASSUME Init
             PROVE  UpdateInv
  OBVIOUS
<1>1. PICK s \in TerraformStatus : versions = <<s>>
  BY DEF Init
<1>2. Latest = 1 /\ versions \in Seq(TerraformStatus) /\ versions # <<>>
  BY <1>1 DEF Latest
<1>3. TypeOK
  BY <1>1, <1>2, StatusUpdateAssumption DEF Init, TypeOK
<1> QED
  BY <1>3 DEF Init, UpdateInv, NoErrorMeansWritten, ReadsConfirmedPart, TypeOK

(* One step per action.                                                    *)
LEMMA StepHolds == UpdateInv /\ [Next]_vars => UpdateInv'
<1> SUFFICES ASSUME UpdateInv, [Next]_vars
             PROVE  UpdateInv'
  OBVIOUS
<1>0. TypeOK /\ tf <= seen
  BY DEF UpdateInv
<1>1. CASE UserEdits
  <2>1. versions' = Append(versions, versions[Latest])
    BY <1>1 DEF UserEdits
  <2>2. versions[Latest] \in TerraformStatus
    BY <1>0 DEF TypeOK, Latest
  <2>3. /\ versions' \in Seq(TerraformStatus) /\ versions' # <<>>
        /\ Latest' = Latest + 1 /\ versions'[Latest'] = versions[Latest]
        /\ \A v \in 1..Latest : versions'[v] = versions[v]
        /\ Latest \in Nat \ {0}
    BY <1>0, <2>1, <2>2, Appended
  <2>4. TypeOK'
    BY <1>0, <1>1, <2>3 DEF TypeOK, UserEdits
  <2>5. (pc = "confirm" => Written)'
    <3> SUFFICES ASSUME pc = "confirm"
                 PROVE  Written'
      BY <1>1 DEF UserEdits
    <3>1. Written /\ UNCHANGED <<tf, desired>>
      BY <1>1 DEF UpdateInv, UserEdits
    <3>2. ASSUME NEW v \in (tf + 1)..Latest'
          PROVE  versions'[v] = desired
      <4>1. CASE v \in 1..Latest
        BY <2>3, <3>1, <4>1 DEF Written
      <4>2. CASE v = Latest'
        BY <2>3, <3>1, <4>2 DEF Written
      <4>3. v \in 1..Latest \/ v = Latest'
        BY <1>0, <2>3 DEF TypeOK
      <4> QED
        BY <4>1, <4>2, <4>3
    <3> QED
      BY <2>3, <3>1, <3>2 DEF Written
  <2>6. NoErrorMeansWritten'
    BY <1>1, <2>3 DEF UpdateInv, NoErrorMeansWritten, UserEdits
  <2>7. ReadsConfirmedPart'
    <3> SUFFICES ASSUME pc = "idle", result = "confirmed", NEW v \in seen..Latest'
                 PROVE  versions'[v].compared = desired.compared
      BY <1>1 DEF ReadsConfirmedPart, UserEdits
    <3>1. \A w \in seen..Latest : versions[w].compared = desired.compared
      BY DEF UpdateInv, ReadsConfirmedPart
    <3>2. seen \in 1..Latest
      BY <1>0 DEF TypeOK
    <3>3. CASE v \in seen..Latest
      BY <2>3, <3>1, <3>2, <3>3
    <3>4. CASE v = Latest'
      BY <2>3, <3>1, <3>2, <3>4
    <3> QED
      BY <2>3, <3>2, <3>3, <3>4
  <2> QED
    BY <1>0, <1>1, <2>4, <2>5, <2>6, <2>7 DEF UpdateInv, UserEdits
<1>2. CASE CacheCatchesUp
  <2>1. seen' \in (seen + 1)..Latest
        /\ UNCHANGED <<versions, pc, tf, desired, i, j, result, faults>>
    BY <1>2 DEF CacheCatchesUp
  <2>2. TypeOK' /\ tf' <= seen'
    BY <1>0, <2>1 DEF TypeOK, Latest
  <2>3. Written' <=> Written
    BY <2>1 DEF Written, Latest
  <2>4. NoErrorMeansWritten'
    BY <2>1 DEF UpdateInv, NoErrorMeansWritten, Latest
  <2>5. ReadsConfirmedPart'
    BY <1>0, <2>1 DEF UpdateInv, ReadsConfirmedPart, Latest, TypeOK
  <2> QED
    BY <2>1, <2>2, <2>3, <2>4, <2>5 DEF UpdateInv
<1>3. CASE UpdateStatusWithRetry
  <2>1. TypeOK' /\ tf' <= seen'
    BY <1>0, <1>3 DEF TypeOK, UpdateStatusWithRetry, Latest
  <2> QED
    BY <1>3, <2>1 DEF UpdateInv, UpdateStatusWithRetry, NoErrorMeansWritten,
                      ReadsConfirmedPart
<1>4. CASE GetTerraformResource
  <2>1. TypeOK' /\ tf' <= seen'
    BY <1>0, <1>4, StatusUpdateAssumption DEF TypeOK, GetTerraformResource, Return, Latest
  <2> QED
    BY <1>4, <2>1 DEF UpdateInv, GetTerraformResource, Return, NoErrorMeansWritten,
                      ReadsConfirmedPart
<1>5. CASE Write
  <2>1. UNCHANGED <<seen, tf, desired>>
    BY <1>5 DEF Write
  <2>2. CASE Stored /\ pc' = "confirm" /\ j' = 0 /\ UNCHANGED <<i, result, faults>>
    <3>1. /\ versions' \in Seq(TerraformStatus) /\ versions' # <<>>
          /\ Latest' >= Latest /\ Written'
      BY <1>0, <2>1, <2>2, StoredWrites
    <3>2. TypeOK'
      BY <1>0, <2>1, <2>2, <3>1, StatusUpdateAssumption DEF TypeOK, Latest
    <3> QED
      BY <1>0, <2>1, <2>2, <3>1, <3>2
      DEF UpdateInv, NoErrorMeansWritten, ReadsConfirmedPart
  <2>3. CASE /\ \/ tf # Latest /\ UNCHANGED <<versions, faults>>
                \/ /\ faults < MaxFaults /\ faults' = faults + 1
                   /\ Stored \/ UNCHANGED versions
             /\ NextWrite(TRUE)
    <3>1. /\ versions' \in Seq(TerraformStatus) /\ versions' # <<>>
          /\ Latest' >= Latest
      <4>1. CASE UNCHANGED versions
        BY <1>0, <4>1 DEF TypeOK, Latest
      <4>2. CASE Stored
        BY <1>0, <2>1, <4>2, StoredWrites
      <4> QED
        BY <2>3, <4>1, <4>2
    <3>2. /\ pc' \in {"idle", "get"}
          /\ i' \in 0..(MaxWrites - 1) /\ j' \in 0..(MaxReads - 1)
          /\ result' \in {"none", "confirmed", "unconfirmed", "error"}
          /\ pc' = "idle" => result' = "error"
      BY <1>0, <2>3, NextWriteType DEF Verdict
    <3>3. faults' \in 0..MaxFaults
      BY <1>0, <2>3, StatusUpdateAssumption DEF TypeOK
    <3>4. TypeOK'
      BY <1>0, <2>1, <3>1, <3>2, <3>3 DEF TypeOK, Latest
    <3> QED
      BY <1>0, <2>1, <3>2, <3>4 DEF UpdateInv, NoErrorMeansWritten, ReadsConfirmedPart
  <2> QED
    BY <1>5, <2>2, <2>3 DEF Write
<1>6. CASE Confirm
  <2>1. Written /\ UNCHANGED <<versions, seen, tf, desired>>
    BY <1>6 DEF UpdateInv, Confirm
  <2>2. CASE IsEqual(versions[seen], desired) /\ Return("confirmed") /\ UNCHANGED faults
    <3>1. TypeOK'
      BY <1>0, <2>1, <2>2, StatusUpdateAssumption DEF TypeOK, Return, Latest
    <3>2. \A v \in seen..Latest : versions[v].compared = desired.compared
      <4> SUFFICES ASSUME NEW v \in seen..Latest
                   PROVE  versions[v].compared = desired.compared
        OBVIOUS
      <4>1. CASE v = seen
        BY <2>2, <4>1 DEF IsEqual
      <4>2. CASE v # seen
        BY <1>0, <2>1, <4>2 DEF Written, TypeOK, Latest
      <4> QED
        BY <4>1, <4>2
    <3> QED
      BY <1>0, <2>1, <2>2, <3>1, <3>2
      DEF UpdateInv, Written, NoErrorMeansWritten, ReadsConfirmedPart, Return, Latest
  <2>3. CASE /\ ~IsEqual(versions[seen], desired) /\ UNCHANGED faults
             /\ j + 1 < MaxReads /\ j' = j + 1 /\ UNCHANGED <<pc, i, result>>
    <3>1. TypeOK'
      BY <1>0, <2>1, <2>3, StatusUpdateAssumption DEF TypeOK, Latest
    <3> QED
      BY <1>0, <1>6, <2>1, <2>3, <3>1
      DEF UpdateInv, Confirm, Written, NoErrorMeansWritten, ReadsConfirmedPart, Latest
  <2>4. CASE /\ ~IsEqual(versions[seen], desired) /\ UNCHANGED faults
             /\ j + 1 = MaxReads /\ NextWrite(FALSE)
    <3>1. /\ pc' \in {"idle", "get"}
          /\ i' \in 0..(MaxWrites - 1) /\ j' \in 0..(MaxReads - 1)
          /\ result' \in {"none", "confirmed", "unconfirmed", "error"}
          /\ pc' = "idle" => result' = "unconfirmed"
      BY <1>0, <2>4, NextWriteType DEF Verdict
    <3>2. TypeOK'
      BY <1>0, <2>1, <2>4, <3>1 DEF TypeOK, Latest
    <3> QED
      BY <1>0, <2>1, <3>1, <3>2
      DEF UpdateInv, Written, NoErrorMeansWritten, ReadsConfirmedPart, Latest
  <2>5. CASE faults < MaxFaults /\ faults' = faults + 1 /\ Return("error")
    <3>1. TypeOK'
      BY <1>0, <2>1, <2>5, StatusUpdateAssumption DEF TypeOK, Return, Latest
    <3> QED
      BY <1>0, <2>1, <2>5, <3>1
      DEF UpdateInv, NoErrorMeansWritten, ReadsConfirmedPart, Return
  <2> QED
    BY <1>6, <2>2, <2>3, <2>4, <2>5 DEF Confirm
<1>7. CASE UNCHANGED vars
  BY <1>7 DEF UpdateInv, TypeOK, Written, NoErrorMeansWritten, ReadsConfirmedPart, vars, Latest
<1> QED
  BY <1>1, <1>2, <1>3, <1>4, <1>5, <1>6, <1>7 DEF Next

-----------------------------------------------------------------------------
(* The variables of a status update keep their types.                      *)
THEOREM UpdateTypeCorrect == Spec => []TypeOK
<1>1. UpdateInv => TypeOK
  BY DEF UpdateInv
<1> QED
  BY InitHolds, StepHolds, <1>1, PTL DEF Spec

(* updateStatusWithRetry returns no error only when the status it wanted   *)
(* is the resource's, and stays so until the controller writes again.      *)
THEOREM NoErrorIsWritten == Spec => []NoErrorMeansWritten
<1>1. UpdateInv => NoErrorMeansWritten
  BY DEF UpdateInv
<1> QED
  BY InitHolds, StepHolds, <1>1, PTL DEF Spec

(* The confirmation is worth its reads for what it compares: although it   *)
(* looks at a cache that may lag, no later read of the cache shows an      *)
(* older generation, task, pod name, phase, prefix or plugins of the       *)
(* status.  What it does not compare, the stage's state above all, may be  *)
(* older: ReadsConfirmedStatus does not hold.                              *)
THEOREM ConfirmedPartIsRead == Spec => []ReadsConfirmedPart
<1>1. UpdateInv => ReadsConfirmedPart
  BY DEF UpdateInv
<1> QED
  BY InitHolds, StepHolds, <1>1, PTL DEF Spec
=============================================================================
