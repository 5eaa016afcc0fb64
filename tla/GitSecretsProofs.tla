--------------------------- MODULE GitSecretsProofs --------------------------
(***************************************************************************)
(* No lock is lost and none is left behind, for any number of resources,   *)
(* secrets, edits and failed calls.  What users write decides whether that *)
(* is so: the assumptions on their specs are stated with the theorems that *)
(* need them.                                                              *)
(***************************************************************************)
EXTENDS GitSecrets, TLAPS

-----------------------------------------------------------------------------
(* What users may not write.                                               *)

(* Two resources with one key of a finalizer, which is their cut name,     *)
(* where one locks a secret the other names.                               *)
KeysApart ==
  \A q, r \in Resources : \A a \in SpecsOf[q], b \in SpecsOf[r] :
    q # r /\ FinalizerKey[q] = FinalizerKey[r] => Wanted(q, a) \cap Named(r, b) = {}

(* One secret with and without the lock in one spec.                       *)
LocksAgree ==
  \A r \in Resources : \A spec \in SpecsOf[r] : \A x, y \in ToSet(GetGitSecrets(spec)) :
    SecretNamed(r, x) = SecretNamed(r, y) => x.lock = y.lock

(* A key that is the tunnel's, after it was a method's with the lock.      *)
TunnelsApart ==
  \A r \in Resources : \A a, b \in SpecsOf[r] : \A key \in b.tunnel :
    SecretNamed(r, key) \in Wanted(r, a) =>
      \E ref \in ToSet(GetGitSecrets(b)) : SecretNamed(r, ref) = SecretNamed(r, key)

(* Deletions without a workflow.                                           *)
NoneIgnored == \A r \in Resources : \A spec \in SpecsOf[r] : ~spec.ignoreDelete

-----------------------------------------------------------------------------
Written(r) == SpecsOf[r] \cup {NoSpec}

(* What a call has read is the stage the resource is still in; only a new  *)
(* generation may have come since.                                         *)
CallIsOfStage(r) ==
  call[r].pc # "idle" =>
    /\ tf[r].gen # 0 /\ call[r].copy.spec \in Written(r)
    /\ call[r].copy.phase = tf[r].phase /\ call[r].copy.stageGen = tf[r].stageGen
    /\ call[r].copy.gen <= tf[r].gen
    /\ call[r].copy.gen = tf[r].gen => call[r].copy.spec = tf[r].spec
    /\ ~IsFinal(r) => call[r].copy.gen = call[r].copy.stageGen
    /\ call[r].pc = "credentials" => ~IsFinal(r)
    /\ call[r].pc = "release" => IsFinal(r)
    /\ call[r].pc = "update" => ToCome(r) /\ call[r].loaded.there
    /\ call[r].at # 0

(* The secrets that stay locked are those the stage's spec wants locked.   *)
SecuredAreWanted(r) ==
  /\ secured[r] # {} => tf[r].phase # "deleted"
  /\ tf[r].stageGen <= tf[r].gen
  /\ tf[r].stageGen = tf[r].gen => secured[r] \subseteq Wanted(r, tf[r].spec)
  /\ call[r].pc # "idle" => secured[r] \subseteq Wanted(r, call[r].copy.spec)
  /\ \A s \in secured[r] : \E spec \in SpecsOf[r] : s \in Wanted(r, spec)

StageInv(r) ==
  /\ tf[r].spec \in Written(r) /\ (tf[r].there => tf[r].gen # 0)
  /\ CallIsOfStage(r) /\ SecuredAreWanted(r)

HasKey(r, s) == FinalizerKey[r] \in secrets[s].finalizers

SecuredAreLocked ==
  \A r \in Resources : \A s \in secured[r] : secrets[s].there /\ HasKey(r, s)

LockInv == TypeOK /\ (\A r \in Resources : StageInv(r)) /\ SecuredAreLocked

-----------------------------------------------------------------------------
(* Without ignoreDelete only a resource with its finalizer is worked on,   *)
(* and it is there until its last call has taken every lock off.           *)
UnlockedBefore(r, spec, n) ==
  \A i \in DOMAIN GetGitSecrets(spec) :
    i < n => ~HasKey(r, SecretNamed(r, GetGitSecrets(spec)[i]))

Held(r) ==
  /\ tf[r].gen = 0 => tf[r].phase = "" /\ ~tf[r].there /\ ~tf[r].finalizer
  /\ tf[r].gen # 0 => tf[r].spec \in SpecsOf[r]
  /\ tf[r].phase # "" => tf[r].finalizer
  /\ call[r].pc # "idle" => tf[r].finalizer /\ tf[r].there
  /\ call[r].pc # "idle" /\ IsFinal(r) => UnlockedBefore(r, call[r].copy.spec, call[r].at)
  /\ call[r].pc = "release" => ~ToCome(r)

(* A key is on a secret only if some spec wants it there.                  *)
KeysWereWanted ==
  \A r \in Resources : \A s \in SecretId :
    HasKey(r, s) =>
      \E q \in Resources : \E spec \in SpecsOf[q] :
        FinalizerKey[q] = FinalizerKey[r] /\ s \in Wanted(q, spec)

NoneBeforeFinalizer ==
  \A r \in Resources :
    ~tf[r].finalizer => \A spec \in SpecsOf[r] : \A s \in Named(r, spec) : ~HasKey(r, s)

UnlockInv ==
  /\ TypeOK /\ \A r \in Resources : StageInv(r) /\ Held(r)
  /\ KeysWereWanted /\ NoneBeforeFinalizer /\ UnlockedWhenGone

-----------------------------------------------------------------------------
(* Specs, the secrets they name, and the steps of a record of a function.  *)
LEMMA SpecsAreTyped == \A spec \in AllSpecs : SpecType(spec)
<1>1. SpecType(NoSpec)
  BY DEF NoSpec, SpecType
<1> QED
  BY <1>1, ResourceAssumption DEF AllSpecs

LEMMA NamesAreSecrets ==
  ASSUME NEW r \in Resources, NEW spec \in AllSpecs
  PROVE  /\ \A ref \in ToSet(GetGitSecrets(spec)) : ref \in Ref /\ SecretNamed(r, ref) \in SecretId
         /\ Wanted(r, spec) \subseteq SecretId
         /\ Wanted(r, spec) \subseteq Named(r, spec)
         /\ Named(r, spec) \subseteq SecretId
<1>1. \A ref \in Ref : SecretNamed(r, ref) \in SecretId
  BY ResourceAssumption DEF SecretNamed, SecretId, Ref
<1>2. ToSet(GetGitSecrets(spec)) \subseteq Ref /\ spec.tunnel \subseteq Ref
  BY SpecsAreTyped DEF GetGitSecrets, SpecType, ToSet
<1> QED
  BY <1>1, <1>2 DEF Wanted, Named, GetGitSecrets

LEMMA MethodIsListed ==
  ASSUME TypeOK, NEW r \in Resources, ToCome(r), call[r].at # 0
  PROVE  /\ call[r].at \in DOMAIN GetGitSecrets(call[r].copy.spec)
         /\ Method(r) \in ToSet(GetGitSecrets(call[r].copy.spec))
         /\ Target(r) \in SecretId
         /\ Locks(r) => Target(r) \in Wanted(r, call[r].copy.spec)
<1> DEFINE spec == call[r].copy.spec
<1>1. spec \in AllSpecs /\ call[r].at \in Nat
  BY DEF TypeOK, Call, Tf
<1>2. spec.methods \in Seq(Ref)
  BY <1>1, SpecsAreTyped DEF SpecType
<1>3. call[r].at \in DOMAIN GetGitSecrets(spec)
  BY <1>1, <1>2 DEF ToCome, GetGitSecrets
<1>4. Method(r) \in ToSet(GetGitSecrets(spec))
  BY <1>3 DEF Method, ToSet
<1>5. Target(r) \in SecretId
  BY <1>1, <1>4, NamesAreSecrets DEF Target
<1>6. Locks(r) => Target(r) \in Wanted(r, spec)
  BY <1>4 DEF Locks, Wanted, Target
<1> QED
  BY <1>3, <1>4, <1>5, <1>6

-----------------------------------------------------------------------------
(* Types.                                                                  *)
LEMMA SettledIsTyped ==
  ASSUME NEW secret \in Secret
  PROVE  /\ Settled(secret) \in Secret
         /\ Settled(secret).finalizers = secret.finalizers
         /\ secret.finalizers # {} \/ ~secret.terminating => Settled(secret) = secret
BY DEF Settled, Secret, NoSecret

(* What the API server gives a new resource.                               *)
LEMMA ResourceIsNew ==
  ASSUME TypeOK, NEW r \in Resources, CreateResource(r)
  PROVE  /\ tf'[r].gen # 0 /\ tf'[r].stageGen <= tf'[r].gen
         /\ tf'[r].stageGen # tf'[r].gen /\ tf'[r].phase = ""
         /\ tf'[r].spec \in SpecsOf[r] /\ ~tf'[r].finalizer /\ tf'[r].there
<1>1. PICK spec \in SpecsOf[r] :
        tf' = [tf EXCEPT ![r] = [NoTf EXCEPT !.there = TRUE, !.gen = 1, !.spec = spec]]
  BY DEF CreateResource
<1>2. tf'[r] = [NoTf EXCEPT !.there = TRUE, !.gen = 1, !.spec = spec]
  BY <1>1 DEF TypeOK
<1>3. ASSUME NEW t \in Tf, NEW new, new = [t EXCEPT !.there = TRUE, !.gen = 1, !.spec = spec]
      PROVE  /\ new.gen = 1 /\ new.stageGen = t.stageGen /\ new.phase = t.phase
             /\ new.spec = spec /\ new.finalizer = t.finalizer /\ new.there
  BY <1>3 DEF Tf
<1>4. NoTf \in Tf /\ NoTf.stageGen = 0 /\ NoTf.phase = "" /\ NoTf.finalizer = FALSE
  BY DEF NoTf, Tf, Phases, AllSpecs
<1>5. ASSUME NEW gen, NEW stageGen, gen = 1, stageGen = 0
      PROVE  gen # 0 /\ stageGen <= gen /\ stageGen # gen
  BY <1>5
<1>6. PICK new : new = [NoTf EXCEPT !.there = TRUE, !.gen = 1, !.spec = spec]
  OBVIOUS
<1>7. /\ new.gen = 1 /\ new.stageGen = 0 /\ new.phase = ""
      /\ new.spec = spec /\ ~new.finalizer /\ new.there
  BY <1>3, <1>4, <1>6
<1>8. new.gen # 0 /\ new.stageGen <= new.gen /\ new.stageGen # new.gen
  BY <1>5, <1>7
<1> QED
  BY <1>2, <1>6, <1>7, <1>8

LEMMA UsersKeepTypes ==
  ASSUME TypeOK, Users
  PROVE  TypeOK'
<1> USE DEF TypeOK
<1>1. ASSUME NEW r \in Resources, CreateResource(r)
      PROVE  tf' \in [Resources -> Tf]
  <2>1. PICK spec \in SpecsOf[r] :
          tf' = [tf EXCEPT ![r] = [NoTf EXCEPT !.there = TRUE, !.gen = 1, !.spec = spec]]
    BY <1>1 DEF CreateResource
  <2>2. spec \in AllSpecs
    BY DEF AllSpecs
  <2>3. [NoTf EXCEPT !.there = TRUE, !.gen = 1, !.spec = spec] \in Tf
    BY <2>2 DEF NoTf, Tf, Phases
  <2> QED
    BY <2>1, <2>3
<1>2. ASSUME NEW r \in Resources, EditSpec(r)
      PROVE  tf' \in [Resources -> Tf]
  <2>1. PICK spec \in SpecsOf[r] : tf' = [tf EXCEPT ![r].spec = spec, ![r].gen = @ + 1]
    BY <1>2 DEF EditSpec
  <2>2. spec \in AllSpecs
    BY DEF AllSpecs
  <2> QED
    BY <2>1, <2>2 DEF Tf
<1>3. ASSUME NEW r \in Resources, DeleteResource(r)
      PROVE  tf' \in [Resources -> Tf]
  <2>1. CASE tf[r].finalizer
    <3>1. tf' = [tf EXCEPT ![r].deleting = TRUE, ![r].gen = @ + 1]
      BY <1>3, <2>1 DEF DeleteResource
    <3> QED
      BY <3>1 DEF Tf
  <2>2. CASE ~tf[r].finalizer
    <3>1. tf' = [tf EXCEPT ![r].there = FALSE]
      BY <1>3, <2>2 DEF DeleteResource
    <3> QED
      BY <3>1 DEF Tf
  <2> QED
    BY <2>1, <2>2
<1>4. ASSUME NEW s \in SecretId, CreateSecret(s)
      PROVE  secrets' \in [SecretId -> Secret]
  BY <1>4 DEF CreateSecret, Secret
<1>5. ASSUME NEW s \in SecretId, DeleteSecret(s)
      PROVE  secrets' \in [SecretId -> Secret]
  <2>1. [secrets[s] EXCEPT !.terminating = TRUE] \in Secret
    BY DEF Secret
  <2> QED
    BY <1>5, <2>1, SettledIsTyped DEF DeleteSecret
<1>6. CASE \E r \in Resources : CreateResource(r) \/ EditSpec(r) \/ DeleteResource(r)
  BY <1>1, <1>2, <1>3, <1>6 DEF CreateResource, EditSpec, DeleteResource
<1>7. CASE \E s \in SecretId : CreateSecret(s) \/ DeleteSecret(s)
  BY <1>4, <1>5, <1>7 DEF CreateSecret, DeleteSecret
<1> QED
  BY <1>6, <1>7 DEF Users

LEMMA CallSteps ==
  ASSUME TypeOK, NEW r \in Resources
  PROVE  /\ Return(r) => call' = [call EXCEPT ![r] = Idle] /\ call' \in [Resources -> Call]
         /\ NextMethod(r) => call' \in [Resources -> Call]
         /\ GiveUp(r) => call' \in [Resources -> Call]
<1> USE DEF TypeOK
<1>1. NoSecret \in Secret
  BY DEF NoSecret, Secret
<1>2. NoTf \in Tf
  BY DEF NoTf, Tf, Phases, AllSpecs
<1>3. Idle \in Call
  BY <1>1, <1>2 DEF Idle, Call
<1>4. Return(r) => call' = [call EXCEPT ![r] = Idle] /\ call' \in [Resources -> Call]
  BY <1>3 DEF Return
<1>5. NextMethod(r) => call' \in [Resources -> Call]
  BY <1>1 DEF NextMethod, Call
<1>6. call' = [call EXCEPT ![r].pc = "credentials"] => call' \in [Resources -> Call]
  BY DEF Call
<1> QED
  BY <1>4, <1>5, <1>6 DEF GiveUp

(* What the two assignments to a resource's stage change.                  *)
LEMMA StageIsSet ==
  ASSUME TypeOK, NEW r \in Resources, SetNewStage(r)
  PROVE  /\ tf' \in [Resources -> Tf]
         /\ \A q \in Resources \ {r} : tf'[q] = tf[q]
         /\ tf'[r].stageGen = tf[r].gen
         /\ tf'[r].phase \in {"initializing-delete", "initializing"}
         /\ tf'[r].gen = tf[r].gen /\ tf'[r].spec = tf[r].spec
         /\ tf'[r].finalizer = tf[r].finalizer /\ tf'[r].there = tf[r].there
<1>1. PICK gen \in Nat, phase \in {"initializing-delete", "initializing"} :
        /\ gen = tf[r].gen
        /\ tf' = [tf EXCEPT ![r].stageGen = gen, ![r].started = FALSE, ![r].phase = phase]
  BY DEF SetNewStage, TypeOK, Tf
<1>2. phase \in Phases /\ tf \in [Resources -> Tf]
  BY DEF Phases, TypeOK
<1>3. tf' = [tf EXCEPT ![r].stageGen = gen, ![r].started = FALSE, ![r].phase = phase]
  BY <1>1
<1>4. /\ tf' \in [Resources -> Tf]
      /\ \A q \in Resources \ {r} : tf'[q] = tf[q]
      /\ tf'[r].stageGen = gen /\ tf'[r].phase = phase
      /\ tf'[r].gen = tf[r].gen /\ tf'[r].spec = tf[r].spec
      /\ tf'[r].finalizer = tf[r].finalizer /\ tf'[r].there = tf[r].there
  <2> DEFINE copy == tf[r]
             staged == [copy EXCEPT !.stageGen = gen, !.started = FALSE, !.phase = phase]
  <2>1. copy \in Tf
    BY <1>2
  <2>2. /\ staged \in Tf /\ staged.stageGen = gen /\ staged.phase = phase
        /\ staged.gen = copy.gen /\ staged.spec = copy.spec
        /\ staged.finalizer = copy.finalizer /\ staged.there = copy.there
    <3> HIDE DEF copy
    <3> QED
      BY <1>2, <2>1 DEF Tf
  <2>3. tf' = [tf EXCEPT ![r] = staged]
    BY <1>2, <1>3
  <2> HIDE DEF staged
  <2> QED
    BY <1>2, <2>2, <2>3
<1> QED
  BY <1>1, <1>4

LEMMA StageIsStarted ==
  ASSUME TypeOK, NEW r \in Resources, NEW phase \in Phases,
         tf' = [tf EXCEPT ![r].started = TRUE, ![r].phase = phase]
  PROVE  /\ tf' \in [Resources -> Tf]
         /\ \A q \in Resources \ {r} : tf'[q] = tf[q]
         /\ tf'[r].stageGen = tf[r].stageGen /\ tf'[r].phase = phase
         /\ tf'[r].gen = tf[r].gen /\ tf'[r].spec = tf[r].spec
         /\ tf'[r].finalizer = tf[r].finalizer /\ tf'[r].there = tf[r].there
<1> DEFINE copy == tf[r]
           begun == [copy EXCEPT !.started = TRUE, !.phase = phase]
<1>1. tf \in [Resources -> Tf] /\ copy \in Tf
  BY DEF TypeOK
<1>2. tf' = [tf EXCEPT ![r] = begun]
  BY <1>1
<1>3. /\ begun \in Tf /\ begun.stageGen = copy.stageGen /\ begun.phase = phase
      /\ begun.gen = copy.gen /\ begun.spec = copy.spec
      /\ begun.finalizer = copy.finalizer /\ begun.there = copy.there
  <2> HIDE DEF copy
  <2> QED
    BY <1>1 DEF Tf
<1> HIDE DEF begun
<1> QED
  BY <1>1, <1>2, <1>3

LEMMA ReconcileKeepsTypes ==
  ASSUME TypeOK, NEW r \in Resources, CallIsOfStage(r), Reconcile(r) \/ Crash(r)
  PROVE  TypeOK'
<1> USE DEF TypeOK
<1> DEFINE ResourceTypes == tf' \in [Resources -> Tf]
           CallTypes == call' \in [Resources -> Call]
           SecretTypes == secrets' \in [SecretId -> Secret]
           SecuredTypes == secured' \in [Resources -> SUBSET SecretId]
<1>1. CASE UpdateFinalizer(r)
  BY <1>1 DEF UpdateFinalizer, Tf
<1>2. CASE SetNewStage(r)
  <2>1. ResourceTypes
    BY <1>2, StageIsSet
  <2>2. SecuredTypes
    BY <1>2 DEF SetNewStage
  <2> QED
    BY <1>2, <2>1, <2>2 DEF SetNewStage
<1>3. CASE UpdateSecretFinalizer(r)
  <2>1. NoSecret \in Secret
    BY DEF NoSecret, Secret
  <2>2. [pc |-> "get", copy |-> tf[r], at |-> 1, loaded |-> NoSecret] \in Call
    BY <2>1 DEF Call
  <2> QED
    BY <1>3, <2>2 DEF UpdateSecretFinalizer
<1>4. CASE EndWorkflow(r)
  BY <1>4 DEF EndWorkflow, Tf, Phases
<1>5. CASE GetSecret(r)
  <2>1. call[r].at # 0
    BY <1>5 DEF GetSecret, CallIsOfStage
  <2>2. Target(r) \in SecretId
    BY <1>5, <2>1, MethodIsListed DEF GetSecret
  <2>3. CallTypes
    <3>1. ASSUME NEW loaded \in Secret
          PROVE  [call EXCEPT ![r].pc = "update", ![r].loaded = loaded] \in [Resources -> Call]
      BY DEF Call
    <3>2. secrets[Target(r)] \in Secret
      BY <2>2
    <3>3. call' = [call EXCEPT ![r].pc = "update", ![r].loaded = secrets[Target(r)]] => CallTypes
      BY <3>1, <3>2
    <3> QED
      BY <1>5, <3>3, CallSteps DEF GetSecret
  <2>4. SecuredTypes
    <3>1. [secured EXCEPT ![r] = @ \cup {Target(r)}] \in [Resources -> SUBSET SecretId]
      BY <2>2
    <3> QED
      BY <1>5, <3>1 DEF GetSecret
  <2>5. tf' = tf /\ secrets' = secrets /\ faults' \in Nat
    BY <1>5 DEF GetSecret, Fault
  <2> QED
    BY <2>3, <2>4, <2>5
<1>6. CASE UpdateSecret(r)
  <2>1. Target(r) \in SecretId
    BY <1>6, MethodIsListed DEF UpdateSecret, CallIsOfStage
  <2>2. SecretTypes
    <3>1. call[r].loaded \in Secret /\ FinalizerKey[r] \in Keys
      BY DEF Call, Keys
    <3>2. [call[r].loaded EXCEPT !.finalizers =
             IF Locks(r) THEN @ \cup {FinalizerKey[r]} ELSE @ \ {FinalizerKey[r]}] \in Secret
      BY <3>1 DEF Secret
    <3> QED
      BY <1>6, <3>2, SettledIsTyped DEF UpdateSecret
  <2>3. SecuredTypes
    <3>1. [secured EXCEPT ![r] = @ \cup {Target(r)}] \in [Resources -> SUBSET SecretId]
      BY <2>1
    <3> QED
      BY <1>6, <3>1 DEF UpdateSecret
  <2>4. tf' = tf /\ CallTypes /\ faults' \in Nat
    BY <1>6, CallSteps DEF UpdateSecret, Fault
  <2> QED
    BY <2>2, <2>3, <2>4
<1>7. CASE AllMethodsDone(r)
  BY <1>7 DEF AllMethodsDone, Call
<1>8. CASE RunStage(r)
  <2>1. ASSUME tf[r].there
        PROVE  ResourceTypes
    <3>1. PICK phase \in Phases : tf' = [tf EXCEPT ![r].started = TRUE, ![r].phase = phase]
      BY <1>8, <2>1 DEF RunStage, Phases
    <3> QED
      BY <3>1, StageIsStarted
  <2>2. ResourceTypes
    BY <1>8, <2>1 DEF RunStage
  <2> QED
    BY <1>8, <2>2, CallSteps DEF RunStage
<1>9. CASE CredentialsMissing(r)
  BY <1>9, CallSteps DEF CredentialsMissing
<1>10. CASE Release(r)
  <2>1. ResourceTypes
    <3>1. [tf EXCEPT ![r].there = FALSE] \in [Resources -> Tf]
      BY DEF Tf
    <3>2. tf' = tf \/ tf' = [tf EXCEPT ![r].there = FALSE]
      BY <1>10 DEF Release
    <3> QED
      BY <3>1, <3>2
  <2>2. faults' \in Nat
    BY <1>10 DEF Release, Fault
  <2> QED
    BY <1>10, <2>1, <2>2, CallSteps DEF Release
<1>11. CASE Crash(r)
  BY <1>11, CallSteps DEF Crash, Fault
<1> QED
  BY <1>1, <1>2, <1>3, <1>4, <1>5, <1>6, <1>7, <1>8, <1>9, <1>10, <1>11 DEF Reconcile

-----------------------------------------------------------------------------
(* What a call has read, and which secrets its resource wants locked.      *)
LEMMA UsersKeepStages ==
  ASSUME TypeOK, NEW r \in Resources, StageInv(r),
         CreateResource(r) \/ EditSpec(r) \/ DeleteResource(r)
  PROVE  StageInv(r)'
<1> USE DEF StageInv, CallIsOfStage, SecuredAreWanted, IsFinal, ToCome, Written, TypeOK
<1>1. CASE CreateResource(r)
  <2>1. /\ tf'[r].gen # 0 /\ tf'[r].stageGen <= tf'[r].gen
        /\ tf'[r].stageGen # tf'[r].gen /\ tf'[r].phase = ""
        /\ tf'[r].spec \in SpecsOf[r]
    BY <1>1, ResourceIsNew
  <2>2. call[r].pc = "idle"
    BY <1>1 DEF CreateResource
  <2>3. call' = call /\ secured' = secured
    BY <1>1 DEF CreateResource
  <2>4. CallIsOfStage(r)'
    BY <2>2, <2>3
  <2>5. SecuredAreWanted(r)'
    BY <2>1, <2>2, <2>3
  <2> QED
    BY <2>1, <2>4, <2>5
<1>2. CASE EditSpec(r)
  <2>1. PICK spec \in SpecsOf[r] : tf' = [tf EXCEPT ![r].spec = spec, ![r].gen = @ + 1]
    BY <1>2 DEF EditSpec
  <2>2. /\ tf'[r].gen = tf[r].gen + 1 /\ tf'[r].stageGen = tf[r].stageGen
        /\ tf'[r].phase = tf[r].phase /\ tf'[r].spec = spec
        /\ tf[r].gen \in Nat /\ tf[r].stageGen \in Nat /\ call[r].copy.gen \in Nat
    BY <2>1 DEF Tf, Call
  <2>3. call' = call /\ secured' = secured
    BY <1>2 DEF EditSpec
  <2> QED
    BY <2>2, <2>3
<1>3. CASE DeleteResource(r)
  <2>1. /\ tf'[r].stageGen = tf[r].stageGen /\ tf'[r].phase = tf[r].phase
        /\ tf'[r].spec = tf[r].spec
        /\ tf'[r].gen \in {tf[r].gen, tf[r].gen + 1}
        /\ tf'[r].there => tf[r].there
        /\ tf[r].gen \in Nat /\ tf[r].stageGen \in Nat /\ call[r].copy.gen \in Nat
    BY <1>3 DEF DeleteResource, Tf, Call
  <2>2. call' = call /\ secured' = secured
    BY <1>3 DEF DeleteResource
  <2> QED
    BY <2>1, <2>2
<1> QED
  BY <1>1, <1>2, <1>3

(* The steps of a resource's own calls.                                    *)
LEMMA ReconcileKeepsStages ==
  ASSUME TypeOK, NEW r \in Resources, StageInv(r), Reconcile(r) \/ Crash(r)
  PROVE  StageInv(r)'
<1> USE DEF StageInv, CallIsOfStage, SecuredAreWanted, IsFinal, TypeOK
<1>1. CASE UpdateFinalizer(r)
  <2>1. /\ tf'[r].gen = tf[r].gen /\ tf'[r].stageGen = tf[r].stageGen
        /\ tf'[r].phase = tf[r].phase /\ tf'[r].spec = tf[r].spec
        /\ tf'[r].there => tf[r].there
        /\ call' = call /\ secured' = secured /\ call[r].pc = "idle"
    BY <1>1 DEF UpdateFinalizer, Tf
  <2> QED
    BY <2>1 DEF Written
<1>2. CASE SetNewStage(r)
  <2>1. call' = call /\ call[r].pc = "idle"
    BY <1>2 DEF SetNewStage, IsRead
  <2>2. secured'[r] = secured[r] \cap Wanted(r, tf[r].spec)
    BY <1>2 DEF SetNewStage
  <2>3. tf[r].gen \in Nat
    BY DEF Tf
  <2> QED
    BY <1>2, <2>1, <2>2, <2>3, StageIsSet DEF Written
<1>3. CASE UpdateSecretFinalizer(r)
  <2>1. /\ tf' = tf /\ secured' = secured /\ tf[r].there
        /\ call'[r].pc = "get" /\ call'[r].copy = tf[r] /\ call'[r].at = 1
    BY <1>3 DEF UpdateSecretFinalizer, IsRead
  <2>2. tf[r].phase # "deleted" => tf[r].stageGen = tf[r].gen
    BY <1>3 DEF UpdateSecretFinalizer, IsRead
  <2>3. secured[r] \subseteq Wanted(r, tf[r].spec)
    BY <1>3, <2>2
  <2>4. tf[r].gen \in Nat
    BY DEF Tf
  <2> QED
    BY <2>1, <2>2, <2>3, <2>4 DEF Written
<1>4. CASE EndWorkflow(r)
  <2>1. /\ tf'[r].gen = tf[r].gen /\ tf'[r].stageGen = tf[r].stageGen
        /\ tf'[r].spec = tf[r].spec /\ tf'[r].there = tf[r].there
        /\ call' = call /\ call[r].pc = "idle" /\ secured'[r] = {}
    BY <1>4 DEF EndWorkflow, IsRead, Tf
  <2> QED
    BY <2>1 DEF Written
<1>5. CASE AllMethodsDone(r)
  <2>1. /\ tf' = tf /\ secured' = secured /\ call'[r].copy = call[r].copy
        /\ call'[r].at = call[r].at
        /\ call'[r].pc = IF IsFinal(r) THEN "release" ELSE "credentials"
        /\ call[r].pc # "idle"
    BY <1>5 DEF AllMethodsDone
  <2> QED
    BY <2>1 DEF Written
<1>6. CASE RunStage(r)
  <2>1. call'[r].pc = "idle" /\ secured' = secured
    BY <1>6 DEF RunStage, Return, Idle
  <2>2. ~IsFinal(r)
    BY <1>6 DEF RunStage
  <2>3. /\ tf'[r].stageGen = tf[r].stageGen /\ tf'[r].gen = tf[r].gen
        /\ tf'[r].spec = tf[r].spec /\ tf'[r].there = tf[r].there
        /\ tf'[r].phase # "deleted"
    <3>1. CASE tf[r].there
      <4>1. PICK phase \in Phases : /\ tf' = [tf EXCEPT ![r].started = TRUE, ![r].phase = phase]
                                    /\ phase # "deleted"
        BY <1>6, <3>1 DEF RunStage, Phases
      <4> QED
        BY <4>1, StageIsStarted
    <3>2. CASE ~tf[r].there
      BY <1>6, <2>2, <3>2 DEF RunStage
    <3> QED
      BY <3>1, <3>2
  <2> QED
    BY <2>1, <2>3 DEF Written
<1>7. CASE CredentialsMissing(r) \/ Crash(r)
  <2>1. tf' = tf /\ secured' = secured /\ call'[r].pc = "idle"
    BY <1>7 DEF CredentialsMissing, Crash, Return, Idle
  <2> QED
    BY <2>1 DEF Written
<1>8. CASE Release(r)
  <2>1. /\ tf'[r].gen = tf[r].gen /\ tf'[r].stageGen = tf[r].stageGen
        /\ tf'[r].spec = tf[r].spec /\ tf'[r].phase = tf[r].phase
        /\ tf'[r].there => tf[r].there
        /\ secured' = secured /\ call'[r].pc = "idle"
    BY <1>8 DEF Release, Return, Idle, Tf
  <2> QED
    BY <2>1 DEF Written
<1>9. ASSUME tf' = tf, call[r].pc # "idle",
             \/ call'[r].pc = "idle"
             \/ /\ call'[r].copy = call[r].copy /\ call'[r].at # 0
                /\ call'[r].pc # "release"
                /\ call'[r].pc = "credentials" => ~IsFinal(r)
                /\ call'[r].pc = "update" => ToCome(r)' /\ call'[r].loaded.there,
             \/ secured'[r] = secured[r]
             \/ /\ secured'[r] = secured[r] \cup {Target(r)} /\ Locks(r)
                /\ Target(r) \in Wanted(r, call[r].copy.spec)
      PROVE  StageInv(r)'
  <2>1. secured'[r] \subseteq Wanted(r, call[r].copy.spec)
    BY <1>9
  <2>2. Wanted(r, NoSpec) = {}
    BY DEF Wanted, NoSpec, GetGitSecrets, ToSet
  <2>3. \A s \in secured'[r] : \E spec \in SpecsOf[r] : s \in Wanted(r, spec)
    BY <1>9, <2>2 DEF Written
  <2>4. secured'[r] # {} => tf[r].phase # "deleted"
    BY <1>9 DEF Locks
  <2>5. tf[r].stageGen = tf[r].gen => secured'[r] \subseteq Wanted(r, tf[r].spec)
    <3>1. CASE secured'[r] = secured[r]
      BY <3>1
    <3>2. CASE Locks(r)
      <4>1. call[r].copy.gen = tf[r].stageGen
        BY <1>9, <3>2 DEF Locks
      <4> QED
        BY <1>9, <2>1, <4>1
    <3> QED
      BY <1>9, <3>1, <3>2
  <2> QED
    BY <1>9, <2>1, <2>3, <2>4, <2>5 DEF Written
<1>10. CASE GetSecret(r)
  <2>1. Locks(r) => Target(r) \in Wanted(r, call[r].copy.spec)
    BY <1>10, MethodIsListed DEF GetSecret
  <2>2. \/ secured'[r] = secured[r]
        \/ secured'[r] = secured[r] \cup {Target(r)} /\ Locks(r)
    BY <1>10 DEF GetSecret
  <2>3. \/ call'[r].pc = "idle"
        \/ /\ call'[r].copy = call[r].copy /\ call'[r].at # 0
           /\ call'[r].pc # "release"
           /\ call'[r].pc = "credentials" => ~IsFinal(r)
           /\ call'[r].pc = "update" => ToCome(r)' /\ call'[r].loaded.there
    <3>1. call[r].at \in Nat /\ call[r].at # 0
      BY <1>10 DEF GetSecret, Call
    <3>2. CASE NextMethod(r)
      BY <3>1, <3>2 DEF NextMethod
    <3>3. CASE /\ call' = [call EXCEPT ![r].pc = "update", ![r].loaded = secrets[Target(r)]]
               /\ secrets[Target(r)].there
      <4>1. /\ call'[r].pc = "update" /\ call'[r].copy = call[r].copy
            /\ call'[r].at = call[r].at /\ call'[r].loaded.there
        BY <3>3
      <4> QED
        BY <1>10, <3>1, <4>1 DEF GetSecret, ToCome
    <3>4. CASE GiveUp(r)
      BY <3>1, <3>4 DEF GiveUp, Return, Idle, Call
    <3> QED
      BY <1>10, <3>2, <3>3, <3>4 DEF GetSecret
  <2>4. tf' = tf /\ call[r].pc # "idle"
    BY <1>10 DEF GetSecret
  <2> QED
    BY <1>9, <2>1, <2>2, <2>3, <2>4
<1>11. CASE UpdateSecret(r)
  <2>1. Locks(r) => Target(r) \in Wanted(r, call[r].copy.spec)
    BY <1>11, MethodIsListed DEF UpdateSecret
  <2>2. \/ secured'[r] = secured[r]
        \/ secured'[r] = secured[r] \cup {Target(r)} /\ Locks(r)
    BY <1>11 DEF UpdateSecret
  <2>3. \/ call'[r].pc = "idle"
        \/ /\ call'[r].copy = call[r].copy /\ call'[r].at # 0
           /\ call'[r].pc # "release"
           /\ call'[r].pc = "credentials" => ~IsFinal(r)
           /\ call'[r].pc = "update" => ToCome(r)' /\ call'[r].loaded.there
    <3>1. call[r].at \in Nat /\ call[r].at # 0
      BY <1>11 DEF UpdateSecret, Call
    <3>2. CASE NextMethod(r)
      BY <3>1, <3>2 DEF NextMethod
    <3>3. CASE GiveUp(r)
      BY <3>1, <3>3 DEF GiveUp, Return, Idle, Call
    <3> QED
      BY <1>11, <3>2, <3>3 DEF UpdateSecret
  <2>4. tf' = tf /\ call[r].pc # "idle"
    BY <1>11 DEF UpdateSecret
  <2> QED
    BY <1>9, <2>1, <2>2, <2>3, <2>4
<1> QED
  BY <1>1, <1>2, <1>3, <1>4, <1>5, <1>6, <1>7, <1>8, <1>10, <1>11 DEF Reconcile

-----------------------------------------------------------------------------
(* A resource's calls leave the others' alone.                             *)
LEMMA OthersStay ==
  ASSUME TypeOK, NEW r \in Resources, Reconcile(r) \/ Crash(r), NEW q \in Resources \ {r}
  PROVE  tf'[q] = tf[q] /\ call'[q] = call[q] /\ secured'[q] = secured[q]
<1> USE DEF TypeOK
<1>1. call'[q] = call[q]
  <2>1. \/ call' = call \/ Return(r) \/ NextMethod(r) \/ GiveUp(r)
        \/ \E c : call' = [call EXCEPT ![r] = c]
        \/ call' = [call EXCEPT ![r].pc = "update", ![r].loaded = secrets[Target(r)]]
        \/ \E pc : call' = [call EXCEPT ![r].pc = pc]
    BY DEF Reconcile, UpdateFinalizer, SetNewStage, UpdateSecretFinalizer, EndWorkflow,
           GetSecret, UpdateSecret, AllMethodsDone, RunStage, CredentialsMissing, Release, Crash
  <2> QED
    BY <2>1 DEF Return, NextMethod, GiveUp
<1>2. secured'[q] = secured[q]
  BY DEF Reconcile, UpdateFinalizer, SetNewStage, UpdateSecretFinalizer, EndWorkflow,
         GetSecret, UpdateSecret, AllMethodsDone, RunStage, CredentialsMissing, Release, Crash
<1>3. tf'[q] = tf[q]
  <2>1. CASE SetNewStage(r)
    BY <2>1, StageIsSet
  <2>2. CASE RunStage(r)
    <3>1. CASE tf[r].there
      <4>1. PICK phase \in Phases : tf' = [tf EXCEPT ![r].started = TRUE, ![r].phase = phase]
        BY <2>2, <3>1 DEF RunStage, Phases
      <4> QED
        BY <4>1, StageIsStarted
    <3>2. CASE ~tf[r].there
      BY <2>2, <3>2 DEF RunStage
    <3> QED
      BY <3>1, <3>2
  <2>3. CASE UpdateFinalizer(r) \/ EndWorkflow(r) \/ Release(r)
    BY <2>3 DEF UpdateFinalizer, EndWorkflow, Release
  <2>4. CASE \/ UpdateSecretFinalizer(r) \/ GetSecret(r) \/ UpdateSecret(r)
             \/ AllMethodsDone(r) \/ CredentialsMissing(r) \/ Crash(r)
    BY <2>4 DEF UpdateSecretFinalizer, GetSecret, UpdateSecret, AllMethodsDone,
                CredentialsMissing, Crash
  <2> QED
    BY <2>1, <2>2, <2>3, <2>4 DEF Reconcile
<1> QED
  BY <1>1, <1>2, <1>3

LEMMA StagesStay ==
  ASSUME TypeOK, NEW r \in Resources, StageInv(r),
         tf'[r] = tf[r], call'[r] = call[r], secured'[r] = secured[r]
  PROVE  StageInv(r)'
BY DEF StageInv, CallIsOfStage, SecuredAreWanted, IsFinal, ToCome, Written

LEMMA NextKeepsStages ==
  ASSUME TypeOK, \A r \in Resources : StageInv(r), [Next]_vars
  PROVE  TypeOK' /\ \A r \in Resources : StageInv(r)'
<1>1. CASE UNCHANGED vars
  <2>1. TypeOK'
    BY <1>1 DEF TypeOK, vars
  <2>2. ASSUME NEW r \in Resources
        PROVE  StageInv(r)'
    BY <1>1, StagesStay DEF vars
  <2> QED
    BY <2>1, <2>2
<1>2. CASE Users
  <2>1. TypeOK'
    BY <1>2, UsersKeepTypes
  <2>2. ASSUME NEW r \in Resources
        PROVE  StageInv(r)'
    <3>1. CASE CreateResource(r) \/ EditSpec(r) \/ DeleteResource(r)
      BY <3>1, UsersKeepStages
    <3>2. CASE ~(CreateResource(r) \/ EditSpec(r) \/ DeleteResource(r))
      <4>1. \/ \E q \in Resources \ {r} : CreateResource(q) \/ EditSpec(q) \/ DeleteResource(q)
            \/ \E s \in SecretId : CreateSecret(s) \/ DeleteSecret(s)
        BY <1>2, <3>2 DEF Users
      <4>2. tf'[r] = tf[r] /\ call'[r] = call[r] /\ secured'[r] = secured[r]
        BY <4>1 DEF TypeOK, CreateResource, EditSpec, DeleteResource, CreateSecret, DeleteSecret
      <4> QED
        BY <4>2, StagesStay
    <3> QED
      BY <3>1, <3>2
  <2> QED
    BY <2>1, <2>2
<1>3. ASSUME NEW q \in Resources, Reconcile(q) \/ Crash(q)
      PROVE  TypeOK' /\ \A r \in Resources : StageInv(r)'
  <2>1. TypeOK'
    BY <1>3, ReconcileKeepsTypes DEF StageInv
  <2>2. ASSUME NEW r \in Resources
        PROVE  StageInv(r)'
    <3>1. CASE r = q
      BY <1>3, <3>1, ReconcileKeepsStages
    <3>2. CASE r # q
      BY <1>3, <3>2, OthersStay, StagesStay
    <3> QED
      BY <3>1, <3>2
  <2> QED
    BY <2>1, <2>2
<1> QED
  BY <1>1, <1>2, <1>3 DEF Next

-----------------------------------------------------------------------------
(* The keys on the secrets.                                                *)
LEMMA KeysOfUpdate ==
  ASSUME TypeOK, NEW q \in Resources, CallIsOfStage(q), UpdateSecret(q)
  PROVE  /\ secrets' # secrets => Accepted(q)
         /\ \A s \in SecretId \ {Target(q)} : secrets'[s] = secrets[s]
         /\ Accepted(q) /\ secrets' # secrets =>
              /\ secrets'[Target(q)].finalizers =
                   IF Locks(q) THEN secrets[Target(q)].finalizers \cup {FinalizerKey[q]}
                   ELSE secrets[Target(q)].finalizers \ {FinalizerKey[q]}
              /\ secrets'[Target(q)].finalizers # {} => secrets'[Target(q)].there
<1>1. Target(q) \in SecretId
  BY MethodIsListed DEF UpdateSecret, CallIsOfStage
<1>2. call[q].loaded \in Secret /\ FinalizerKey[q] \in Keys /\ call[q].loaded.there
  BY DEF TypeOK, Call, Keys, UpdateSecret, CallIsOfStage
<1>3. CASE secrets' = secrets
  BY <1>3
<1>4. CASE secrets' # secrets
  <2> DEFINE fs == IF Locks(q) THEN call[q].loaded.finalizers \cup {FinalizerKey[q]}
                   ELSE call[q].loaded.finalizers \ {FinalizerKey[q]}
             updated == [call[q].loaded EXCEPT !.finalizers = fs]
  <2>1. Accepted(q) /\ secrets' = [secrets EXCEPT ![Target(q)] = Settled(updated)]
    BY <1>4 DEF UpdateSecret
  <2>2. updated \in Secret /\ updated.finalizers = fs /\ updated.there
    BY <1>2 DEF Secret
  <2> HIDE DEF updated
  <2>3. secrets'[Target(q)] = Settled(updated)
    BY <1>1, <2>1 DEF TypeOK
  <2>4. /\ secrets'[Target(q)].finalizers = fs
        /\ fs # {} => secrets'[Target(q)].there
    BY <2>2, <2>3, SettledIsTyped
  <2>5. call[q].loaded = secrets[Target(q)]
    BY <2>1 DEF Accepted
  <2>6. \A s \in SecretId \ {Target(q)} : secrets'[s] = secrets[s]
    BY <2>1 DEF TypeOK
  <2> QED
    BY <2>1, <2>4, <2>5, <2>6
<1> QED
  BY <1>3, <1>4

Changes(q, r, s) ==
  UpdateSecret(q) /\ Target(q) = s /\ FinalizerKey[q] = FinalizerKey[r]

LEMMA KeysChange ==
  ASSUME TypeOK, \A q \in Resources : StageInv(q), [Next]_vars,
         NEW r \in Resources, NEW s \in SecretId
  PROVE  /\ HasKey(r, s) /\ ~HasKey(r, s)' => \E q \in Resources : Changes(q, r, s) /\ ~Locks(q)
         /\ ~HasKey(r, s) /\ HasKey(r, s)' => \E q \in Resources : Changes(q, r, s) /\ Locks(q)
         /\ secrets[s].there /\ HasKey(r, s) /\ HasKey(r, s)' => secrets'[s].there
<1>1. CASE UNCHANGED secrets
  BY <1>1 DEF HasKey
<1>2. ASSUME NEW x \in SecretId, CreateSecret(x)
      PROVE  /\ secrets'[s].finalizers = secrets[s].finalizers
             /\ secrets[s].there => secrets'[s].there
  BY <1>2 DEF CreateSecret, TypeOK, Secret
<1>3. ASSUME NEW x \in SecretId, DeleteSecret(x)
      PROVE  /\ secrets'[s].finalizers = secrets[s].finalizers
             /\ secrets[s].there /\ secrets[s].finalizers # {} => secrets'[s].there
  <2>1. CASE s = x
    <3> DEFINE marked == [secrets[s] EXCEPT !.terminating = TRUE]
    <3>1. /\ marked \in Secret /\ marked.finalizers = secrets[s].finalizers
          /\ marked.there = secrets[s].there
      BY DEF TypeOK, Secret
    <3>2. secrets'[s] = Settled(marked)
      BY <1>3, <2>1 DEF DeleteSecret, TypeOK
    <3> HIDE DEF marked
    <3> QED
      BY <3>1, <3>2, SettledIsTyped
  <2>2. CASE s # x
    BY <1>3, <2>2 DEF DeleteSecret, TypeOK
  <2> QED
    BY <2>1, <2>2
<1>4. ASSUME NEW q \in Resources, UpdateSecret(q), secrets' # secrets
      PROVE  /\ HasKey(r, s) /\ ~HasKey(r, s)' => Changes(q, r, s) /\ ~Locks(q)
             /\ ~HasKey(r, s) /\ HasKey(r, s)' => Changes(q, r, s) /\ Locks(q)
             /\ secrets[s].there /\ HasKey(r, s) /\ HasKey(r, s)' => secrets'[s].there
  <2>1. CASE s = Target(q)
    <3>1. /\ secrets'[s].finalizers = IF Locks(q) THEN secrets[s].finalizers \cup {FinalizerKey[q]}
                                      ELSE secrets[s].finalizers \ {FinalizerKey[q]}
          /\ secrets'[s].finalizers # {} => secrets'[s].there
      BY <1>4, <2>1, KeysOfUpdate DEF StageInv
    <3> QED
      BY <1>4, <2>1, <3>1 DEF HasKey, Changes
  <2>2. CASE s # Target(q)
    <3>1. secrets'[s] = secrets[s]
      BY <1>4, <2>2, KeysOfUpdate DEF StageInv
    <3> QED
      BY <3>1 DEF HasKey
  <2> QED
    BY <2>1, <2>2
<1>5. \/ UNCHANGED secrets
      \/ \E x \in SecretId : CreateSecret(x) \/ DeleteSecret(x)
      \/ \E q \in Resources : UpdateSecret(q)
  BY DEF vars, Next, Users, CreateResource, EditSpec, DeleteResource, Reconcile,
         UpdateFinalizer, SetNewStage, UpdateSecretFinalizer, EndWorkflow, GetSecret,
         AllMethodsDone, RunStage, CredentialsMissing, Release, Crash
<1>6. ASSUME NEW x \in SecretId, CreateSecret(x) \/ DeleteSecret(x)
      PROVE  /\ HasKey(r, s) <=> HasKey(r, s)'
             /\ secrets[s].there /\ HasKey(r, s) => secrets'[s].there
  BY <1>2, <1>3, <1>6 DEF HasKey
<1> QED
  BY <1>1, <1>4, <1>5, <1>6

LEMMA StagesAtInit ==
  ASSUME Init
  PROVE  TypeOK /\ \A r \in Resources : StageInv(r)
<1>1. NoSecret \in Secret /\ NoTf \in Tf
  BY DEF NoSecret, Secret, NoTf, Tf, Phases, AllSpecs
<1>2. Idle \in Call /\ Idle.pc = "idle"
  BY <1>1 DEF Idle, Call
<1>3. [NoSecret EXCEPT !.there = TRUE, !.uid = 1] \in Secret
  <2>1. ASSUME NEW x \in Secret
        PROVE  [x EXCEPT !.there = TRUE, !.uid = 1] \in Secret
    BY DEF Secret
  <2> QED
    BY <1>1, <2>1
<1>4. TypeOK
  BY <1>1, <1>2, <1>3 DEF Init, TypeOK
<1>5. /\ NoTf.gen = 0 /\ NoTf.stageGen = 0 /\ NoTf.spec = NoSpec /\ ~NoTf.there
  BY DEF NoTf
<1>6. ASSUME NEW r \in Resources
      PROVE  StageInv(r)
  <2>1. tf[r] = NoTf /\ call[r].pc = "idle" /\ secured[r] = {}
    BY <1>2 DEF Init
  <2>2. CallIsOfStage(r)
    BY <2>1 DEF CallIsOfStage
  <2>3. SecuredAreWanted(r)
    BY <1>5, <2>1 DEF SecuredAreWanted
  <2> QED
    BY <1>5, <2>1, <2>2, <2>3 DEF StageInv, Written
<1> QED
  BY <1>4, <1>6

-----------------------------------------------------------------------------
(* The secrets a call changes are those its own spec names.                *)
LEMMA TargetIsNamed ==
  ASSUME TypeOK, NEW q \in Resources, StageInv(q), UpdateSecret(q)
  PROVE  /\ call[q].copy.spec \in SpecsOf[q] /\ call[q].copy.spec \in AllSpecs
         /\ call[q].at \in DOMAIN GetGitSecrets(call[q].copy.spec)
         /\ Method(q) \in ToSet(GetGitSecrets(call[q].copy.spec))
         /\ Target(q) \in SecretId
         /\ Target(q) = SecretNamed(q, Method(q))
         /\ Target(q) \in Named(q, call[q].copy.spec)
         /\ Locks(q) => Target(q) \in Wanted(q, call[q].copy.spec)
<1>1. ToCome(q) /\ call[q].at # 0 /\ call[q].copy.spec \in Written(q)
  BY DEF StageInv, CallIsOfStage, UpdateSecret
<1>2. /\ call[q].at \in DOMAIN GetGitSecrets(call[q].copy.spec)
      /\ Method(q) \in ToSet(GetGitSecrets(call[q].copy.spec))
      /\ Target(q) \in SecretId
      /\ Locks(q) => Target(q) \in Wanted(q, call[q].copy.spec)
  BY <1>1, MethodIsListed
<1>3. call[q].copy.spec # NoSpec
  BY <1>2 DEF NoSpec, GetGitSecrets, ToSet
<1>4. Target(q) \in Named(q, call[q].copy.spec)
  BY <1>2 DEF Named, Target, GetGitSecrets
<1>5. call[q].copy.spec \in AllSpecs
  BY DEF TypeOK, Call, Tf
<1> QED
  BY <1>1, <1>2, <1>3, <1>4, <1>5 DEF Written, Target

(* What is secured is not unlocked by its own resource's call.             *)
LEMMA OwnCallKeepsLock ==
  ASSUME LocksAgree, TypeOK, NEW r \in Resources, StageInv(r), UpdateSecret(r), ~Locks(r)
  PROVE  Target(r) \notin secured[r]
<1> SUFFICES ASSUME Target(r) \in secured[r]
             PROVE  FALSE
  OBVIOUS
<1> DEFINE spec == call[r].copy.spec
<1>1. ~IsFinal(r)
  BY DEF StageInv, SecuredAreWanted, CallIsOfStage, UpdateSecret, IsFinal
<1>2. ~ShouldBeLocked(spec, Method(r))
  BY <1>1 DEF Locks
<1>3. Target(r) \in Wanted(r, spec)
  BY DEF StageInv, SecuredAreWanted, UpdateSecret
<1>4. PICK x \in ToSet(GetGitSecrets(spec)) :
        ShouldBeLocked(spec, x) /\ Target(r) = SecretNamed(r, x)
  BY <1>3 DEF Wanted
<1>5. x.lock = Method(r).lock
  BY <1>4, TargetIsNamed DEF LocksAgree
<1> QED
  BY <1>2, <1>4, <1>5 DEF ShouldBeLocked

(* Only a lock that is on is secured.                                      *)
LEMMA NewlySecured ==
  ASSUME TypeOK, \A q \in Resources : StageInv(q), [Next]_vars,
         NEW r \in Resources, NEW s \in secured'[r], s \notin secured[r]
  PROVE  secrets'[s].there /\ HasKey(r, s)'
<1>1. ASSUME NEW q \in Resources, Reconcile(q) \/ Crash(q)
      PROVE  (GetSecret(r) \/ UpdateSecret(r)) /\ s = Target(r) /\ Locks(r)
  <2>1. q = r
    BY <1>1, OthersStay
  <2>2. CASE GetSecret(r) \/ UpdateSecret(r)
    BY <2>2 DEF GetSecret, UpdateSecret, TypeOK
  <2>3. CASE ~(GetSecret(r) \/ UpdateSecret(r))
    BY <1>1, <2>1, <2>3
       DEF TypeOK, Reconcile, UpdateFinalizer, SetNewStage, UpdateSecretFinalizer, EndWorkflow,
           AllMethodsDone, RunStage, CredentialsMissing, Release, Crash
  <2> QED
    BY <2>2, <2>3
<1>2. (GetSecret(r) \/ UpdateSecret(r)) /\ s = Target(r) /\ Locks(r)
  BY <1>1 DEF Next, vars, Users, CreateResource, EditSpec, DeleteResource, CreateSecret,
              DeleteSecret
<1>3. CASE GetSecret(r)
  BY <1>2, <1>3 DEF GetSecret, HasKey
<1>4. CASE UpdateSecret(r)
  <2>1. Accepted(r) /\ Target(r) \in SecretId /\ call[r].loaded.there
    BY <1>2, <1>4, TargetIsNamed DEF UpdateSecret, StageInv, CallIsOfStage
  <2>2. CASE secrets' # secrets
    <3>1. /\ secrets'[s].finalizers = secrets[s].finalizers \cup {FinalizerKey[r]}
          /\ secrets'[s].finalizers # {} => secrets'[s].there
      BY <1>2, <1>4, <2>1, <2>2, KeysOfUpdate DEF StageInv
    <3> QED
      BY <3>1 DEF HasKey
  <2>3. CASE secrets' = secrets
    <3> DEFINE updated == [call[r].loaded EXCEPT !.finalizers = @ \cup {FinalizerKey[r]}]
    <3>1. secrets' = [secrets EXCEPT ![Target(r)] = Settled(updated)]
      BY <1>2, <1>4, <2>1 DEF UpdateSecret
    <3>2. updated \in Secret /\ FinalizerKey[r] \in updated.finalizers /\ updated.there
      BY <2>1 DEF TypeOK, Call, Secret, Keys
    <3> HIDE DEF updated
    <3>3. secrets'[s] = updated
      BY <1>2, <2>1, <3>1, <3>2, SettledIsTyped DEF TypeOK
    <3> QED
      BY <3>2, <3>3 DEF HasKey
  <2> QED
    BY <2>2, <2>3
<1> QED
  BY <1>2, <1>3, <1>4

LEMMA LocksAreKept ==
  ASSUME KeysApart, LocksAgree, LockInv, [Next]_vars
  PROVE  SecuredAreLocked'
<1> SUFFICES ASSUME NEW r \in Resources, NEW s \in secured'[r]
             PROVE  secrets'[s].there /\ HasKey(r, s)'
  BY DEF SecuredAreLocked, HasKey
<1> USE DEF LockInv
<1>1. CASE s \notin secured[r]
  BY <1>1, NewlySecured
<1>2. CASE s \in secured[r]
  <2>1. s \in SecretId /\ secrets[s].there /\ HasKey(r, s)
    BY <1>2 DEF SecuredAreLocked, TypeOK
  <2>2. ASSUME NEW q \in Resources, Changes(q, r, s), ~Locks(q)
        PROVE  FALSE
    <3>1. CASE q = r
      BY <1>2, <2>2, <3>1, OwnCallKeepsLock DEF Changes
    <3>2. CASE q # r
      <4>1. PICK spec \in SpecsOf[r] : s \in Wanted(r, spec)
        BY <1>2 DEF StageInv, SecuredAreWanted
      <4>2. s \in Named(q, call[q].copy.spec) /\ call[q].copy.spec \in SpecsOf[q]
        BY <2>2, TargetIsNamed DEF Changes
      <4> QED
        BY <2>2, <3>2, <4>1, <4>2 DEF KeysApart, Changes
    <3> QED
      BY <3>1, <3>2
  <2>3. HasKey(r, s)'
    BY <2>1, <2>2, KeysChange
  <2> QED
    BY <2>1, <2>3, KeysChange
<1> QED
  BY <1>1, <1>2

-----------------------------------------------------------------------------
(* The state of the secrets and of the calls stays within its types, and   *)
(* what the calls and the locks know of their stages stays true            *)
(* (updateSecretFinalizer).                                                *)
THEOREM SecretsTypeCorrect == Spec => []TypeOK
<1> DEFINE StagesInv == TypeOK /\ \A r \in Resources : StageInv(r)
<1>1. Init => StagesInv
  BY StagesAtInit
<1>2. StagesInv /\ [Next]_vars => StagesInv'
  BY NextKeepsStages
<1>3. StagesInv => TypeOK
  OBVIOUS
<1> QED
  BY <1>1, <1>2, <1>3, PTL DEF Spec

(* A lock that was put on a secret stays on until the destroy workflow is  *)
(* over or an edit no longer asks for it, whoever else locks and unlocks   *)
(* the secret, wherever calls are cut short and secrets deleted            *)
(* (lockGitSecretDeletion, unlockGitSecretDeletion).                       *)
THEOREM LocksHold ==
  ASSUME KeysApart, LocksAgree
  PROVE  Spec => []LockHolds
<1>1. Init => LockInv
  <2>1. Init => SecuredAreLocked
    BY DEF Init, SecuredAreLocked
  <2> QED
    BY <2>1, StagesAtInit DEF LockInv
<1>2. LockInv /\ [Next]_vars => LockInv'
  <2> SUFFICES ASSUME LockInv, [Next]_vars
               PROVE  LockInv'
    OBVIOUS
  <2>1. SecuredAreLocked'
    BY LocksAreKept
  <2>2. TypeOK' /\ \A r \in Resources : StageInv(r)'
    BY NextKeepsStages DEF LockInv
  <2> QED
    BY <2>1, <2>2 DEF LockInv
<1>3. LockInv => LockHolds
  BY DEF LockInv, SecuredAreLocked, HasKey, LockHolds
<1> QED
  BY <1>1, <1>2, <1>3, PTL DEF Spec

-----------------------------------------------------------------------------
(* A key on a secret that a resource names is put there by its own call.   *)
LEMMA OnlyOwnKeys ==
  ASSUME KeysApart, TypeOK, \A q \in Resources : StageInv(q), [Next]_vars,
         NEW r \in Resources, NEW spec \in SpecsOf[r], NEW s \in Named(r, spec),
         ~HasKey(r, s), HasKey(r, s)'
  PROVE  UpdateSecret(r) /\ Locks(r)
<1>1. s \in SecretId
  BY NamesAreSecrets DEF AllSpecs
<1>2. PICK q \in Resources : Changes(q, r, s) /\ Locks(q)
  BY <1>1, KeysChange
<1>3. CASE q = r
  BY <1>2, <1>3 DEF Changes
<1>4. CASE q # r
  <2>1. call[q].copy.spec \in SpecsOf[q] /\ s \in Wanted(q, call[q].copy.spec)
    BY <1>2, TargetIsNamed DEF Changes
  <2> QED
    BY <1>2, <1>4, <2>1 DEF KeysApart, Changes
<1> QED
  BY <1>3, <1>4

LEMMA UnlockedStays ==
  ASSUME KeysApart, TypeOK, \A q \in Resources : StageInv(q), [Next]_vars,
         NEW r \in Resources, NEW spec \in SpecsOf[r], NEW n, UnlockedBefore(r, spec, n),
         ~(UpdateSecret(r) /\ Locks(r))
  PROVE  \A i \in DOMAIN GetGitSecrets(spec) :
           i < n => ~HasKey(r, SecretNamed(r, GetGitSecrets(spec)[i]))'
<1> SUFFICES ASSUME NEW i \in DOMAIN GetGitSecrets(spec), i < n
             PROVE  ~HasKey(r, SecretNamed(r, GetGitSecrets(spec)[i]))'
  OBVIOUS
<1> DEFINE s == SecretNamed(r, GetGitSecrets(spec)[i])
<1>1. s \in Named(r, spec)
  BY DEF Named, ToSet, GetGitSecrets
<1>2. ~HasKey(r, s)
  BY DEF UnlockedBefore
<1> HIDE DEF s
<1>3. ~HasKey(r, s)'
  BY <1>1, <1>2, OnlyOwnKeys
<1> QED
  BY <1>3 DEF s, HasKey

(* An unlock that the API server has accepted takes the key off.           *)
LEMMA UnlockTakesKey ==
  ASSUME TypeOK, NEW r \in Resources, StageInv(r), UpdateSecret(r), IsFinal(r),
         call'[r].pc # "idle"
  PROVE  NextMethod(r) /\ FinalizerKey[r] \notin secrets'[Target(r)].finalizers
<1> DEFINE updated == [call[r].loaded EXCEPT !.finalizers = @ \ {FinalizerKey[r]}]
<1>1. ~Locks(r) /\ ~GiveUp(r)
  BY DEF Locks, GiveUp, Return, Idle, TypeOK
<1>2. /\ secrets' = [secrets EXCEPT ![Target(r)] = Settled(updated)]
      /\ NextMethod(r)
  BY <1>1 DEF UpdateSecret
<1>3. updated \in Secret /\ FinalizerKey[r] \notin updated.finalizers
  BY DEF TypeOK, Call, Secret
<1> HIDE DEF updated
<1>4. Target(r) \in SecretId
  BY TargetIsNamed
<1>5. secrets'[Target(r)].finalizers = updated.finalizers
  BY <1>2, <1>3, <1>4, SettledIsTyped DEF TypeOK
<1> QED
  BY <1>2, <1>3, <1>5

-----------------------------------------------------------------------------
(* A resource that is worked on has its finalizer, and its last call has   *)
(* unlocked what it has passed.                                            *)
LEMMA HeldAtUsers ==
  ASSUME TypeOK, NEW r \in Resources, StageInv(r), Held(r),
         CreateResource(r) \/ EditSpec(r) \/ DeleteResource(r)
  PROVE  Held(r)'
<1>1. call' = call /\ secrets' = secrets
  BY DEF CreateResource, EditSpec, DeleteResource
<1>2. /\ IsFinal(r)' <=> IsFinal(r)
      /\ ToCome(r)' <=> ToCome(r)
      /\ UnlockedBefore(r, call[r].copy.spec, call[r].at)' <=>
           UnlockedBefore(r, call[r].copy.spec, call[r].at)
  BY <1>1 DEF IsFinal, ToCome, UnlockedBefore, HasKey
<1>3. CASE CreateResource(r)
  <2>1. call[r].pc = "idle"
    BY <1>3 DEF CreateResource, StageInv, CallIsOfStage
  <2> QED
    BY <1>1, <1>3, <2>1, ResourceIsNew DEF Held
<1>4. CASE EditSpec(r)
  <2>1. PICK spec \in SpecsOf[r] : tf' = [tf EXCEPT ![r].spec = spec, ![r].gen = @ + 1]
    BY <1>4 DEF EditSpec
  <2>2. /\ tf'[r].gen = tf[r].gen + 1 /\ tf'[r].spec = spec /\ tf'[r].phase = tf[r].phase
        /\ tf'[r].finalizer = tf[r].finalizer /\ tf'[r].there = tf[r].there
        /\ tf[r].gen \in Nat
    BY <2>1 DEF TypeOK, Tf
  <2>3. \A n \in Nat : n + 1 # 0
    OBVIOUS
  <2>4. tf'[r].gen # 0
    BY <2>2, <2>3, Zenon
  <2> QED
    BY <1>1, <1>2, <2>2, <2>4 DEF Held
<1>5. CASE DeleteResource(r)
  <2>1. /\ tf'[r].spec = tf[r].spec /\ tf'[r].phase = tf[r].phase
        /\ tf'[r].finalizer = tf[r].finalizer
        /\ tf'[r].there => tf[r].there
        /\ tf[r].finalizer => tf'[r].there
        /\ tf'[r].gen \in {tf[r].gen, tf[r].gen + 1} /\ tf[r].gen \in Nat
        /\ tf[r].there
    BY <1>5 DEF DeleteResource, TypeOK, Tf
  <2>2. tf[r].gen # 0
    BY <2>1 DEF Held
  <2>3. \A n \in Nat : n + 1 # 0
    OBVIOUS
  <2>4. tf'[r].gen # 0
    BY <2>1, <2>2, <2>3, Zenon
  <2> QED
    BY <1>1, <1>2, <2>1, <2>2, <2>4 DEF Held
<1> QED
  BY <1>3, <1>4, <1>5

LEMMA FinalizerIsOn ==
  ASSUME NoneIgnored, TypeOK, NEW r \in Resources, Held(r), tf[r].there
  PROVE  /\ tf[r].gen # 0 /\ tf[r].spec.ignoreDelete = FALSE
         /\ IsRead(r) => tf[r].finalizer
<1>1. tf[r].gen # 0 /\ tf[r].spec \in SpecsOf[r]
  BY DEF Held
<1>2. SpecType(tf[r].spec) /\ ~tf[r].spec.ignoreDelete
  BY <1>1, ResourceAssumption DEF NoneIgnored
<1>3. tf[r].spec.ignoreDelete = FALSE
  BY <1>2 DEF SpecType
<1>4. tf[r].finalizer \in BOOLEAN
  BY DEF TypeOK, Tf
<1> QED
  BY <1>1, <1>3, <1>4 DEF IsRead

(* With the finalizer of every resource wanted, it is only ever added.     *)
LEMMA FinalizerIsAdded ==
  ASSUME NoneIgnored, TypeOK, NEW r \in Resources, Held(r), UpdateFinalizer(r)
  PROVE  /\ tf[r].finalizer = FALSE /\ tf[r].there /\ tf[r].gen # 0
         /\ tf' = [tf EXCEPT ![r].finalizer = ~@]
<1>1. tf[r].there /\ tf[r].finalizer = tf[r].spec.ignoreDelete
  BY DEF UpdateFinalizer
<1>2. tf[r].finalizer = FALSE /\ tf[r].gen # 0
  BY <1>1, FinalizerIsOn
<1> QED
  BY <1>1, <1>2 DEF UpdateFinalizer

LEMMA HeldAtReconcile ==
  ASSUME NoneIgnored, KeysApart, TypeOK, \A q \in Resources : StageInv(q), [Next]_vars,
         NEW r \in Resources, Held(r), Reconcile(r) \/ Crash(r)
  PROVE  Held(r)'
<1>1. StageInv(r)
  OBVIOUS
<1>2. ASSUME call'[r].pc = "idle", tf'[r].gen = tf[r].gen, tf'[r].spec = tf[r].spec,
             tf'[r].finalizer = tf[r].finalizer,
             tf'[r].phase # "" => tf[r].finalizer,
             tf'[r].there => tf[r].there, tf'[r].phase = tf[r].phase \/ tf[r].gen # 0
      PROVE  Held(r)'
  BY <1>2 DEF Held
<1>3. CASE UpdateFinalizer(r)
  <2>1. call' = call /\ call[r].pc = "idle"
    BY <1>3 DEF UpdateFinalizer
  <2>2. /\ tf[r].finalizer = FALSE /\ tf[r].there /\ tf[r].gen # 0
        /\ tf' = [tf EXCEPT ![r].finalizer = ~@]
    BY <1>3, FinalizerIsAdded
  <2>3. /\ tf'[r].gen = tf[r].gen /\ tf'[r].spec = tf[r].spec /\ tf'[r].phase = tf[r].phase
        /\ tf'[r].there = tf[r].there /\ tf'[r].finalizer
    BY <2>1, <2>2 DEF TypeOK, Tf
  <2> QED
    BY <2>1, <2>2, <2>3 DEF Held
<1>4. CASE SetNewStage(r)
  <2>1. tf[r].there /\ IsRead(r) /\ call' = call /\ call[r].pc = "idle"
    BY <1>4 DEF SetNewStage, IsRead
  <2> QED
    BY <1>2, <1>4, <2>1, FinalizerIsOn, StageIsSet
<1>5. CASE UpdateSecretFinalizer(r)
  <2>1. /\ tf' = tf /\ tf[r].there /\ secrets' = secrets
        /\ call'[r].pc = "get" /\ call'[r].copy = tf[r] /\ call'[r].at = 1
    BY <1>5 DEF UpdateSecretFinalizer, IsRead, TypeOK
  <2>2. tf[r].finalizer
    BY <1>5, <2>1, FinalizerIsOn DEF UpdateSecretFinalizer, Held
  <2>3. SpecType(tf[r].spec)
    BY SpecsAreTyped DEF TypeOK, Tf
  <2>4. \A i \in DOMAIN GetGitSecrets(tf[r].spec) : ~(i < 1)
    BY <2>3 DEF SpecType, GetGitSecrets
  <2>5. UnlockedBefore(r, call[r].copy.spec, call[r].at)'
    BY <2>1, <2>4 DEF UnlockedBefore
  <2> QED
    BY <2>1, <2>2, <2>5 DEF Held
<1>6. CASE EndWorkflow(r)
  <2>1. /\ tf[r].there /\ IsRead(r) /\ call' = call /\ call[r].pc = "idle"
        /\ tf' = [tf EXCEPT ![r].phase = "deleted"]
    BY <1>6 DEF EndWorkflow, IsRead
  <2>2. /\ tf'[r].gen = tf[r].gen /\ tf'[r].spec = tf[r].spec
        /\ tf'[r].there = tf[r].there /\ tf'[r].finalizer = tf[r].finalizer
    BY <2>1 DEF TypeOK, Tf
  <2> QED
    BY <1>2, <2>1, <2>2, FinalizerIsOn
<1>7. CASE GetSecret(r) \/ UpdateSecret(r)
  <2>1. /\ tf' = tf /\ tf[r].there /\ tf[r].finalizer /\ call[r].pc # "idle"
        /\ call[r].pc # "release"
    BY <1>7 DEF GetSecret, UpdateSecret, Held
  <2>2. CASE call'[r].pc = "idle"
    BY <1>2, <2>1, <2>2
  <2>3. CASE call'[r].pc # "idle"
    <3>1. /\ call'[r].copy = call[r].copy /\ call'[r].pc # "release"
          /\ call'[r].at \in {call[r].at, call[r].at + 1}
      <4>1. \/ call' = [call EXCEPT ![r].pc = "update", ![r].loaded = secrets[Target(r)]]
            \/ NextMethod(r) \/ GiveUp(r)
        BY <1>7 DEF GetSecret, UpdateSecret
      <4>2. CASE call' = [call EXCEPT ![r].pc = "update", ![r].loaded = secrets[Target(r)]]
        BY <4>2 DEF TypeOK, Call
      <4>3. CASE NextMethod(r)
        BY <4>3 DEF NextMethod, TypeOK, Call
      <4>4. CASE GiveUp(r)
        BY <2>3, <4>4 DEF GiveUp, Return, Idle, TypeOK, Call
      <4> QED
        BY <4>1, <4>2, <4>3, <4>4
    <3>2. ASSUME IsFinal(r)
          PROVE  UnlockedBefore(r, call[r].copy.spec, call[r].at)'
      <4>1. ~Locks(r)
        BY <3>2 DEF Locks
      <4>2. /\ ToCome(r) /\ call[r].at # 0 /\ call[r].at \in Nat
            /\ call[r].copy.spec \in Written(r)
        BY <1>1, <1>7 DEF GetSecret, UpdateSecret, StageInv, CallIsOfStage, TypeOK, Call
      <4>3. /\ call[r].at \in DOMAIN GetGitSecrets(call[r].copy.spec)
            /\ Target(r) = SecretNamed(r, GetGitSecrets(call[r].copy.spec)[call[r].at])
        BY <4>2, MethodIsListed DEF Target, Method
      <4>4. call[r].copy.spec \in SpecsOf[r]
        BY <4>2, <4>3 DEF Written, NoSpec, GetGitSecrets
      <4>5. PICK spec \in SpecsOf[r], n \in Nat : spec = call[r].copy.spec /\ n = call[r].at
        BY <4>2, <4>4
      <4>6. UnlockedBefore(r, spec, n)
        BY <2>1, <3>2, <4>5 DEF Held
      <4>7. \A i \in DOMAIN GetGitSecrets(spec) :
              i < n => ~HasKey(r, SecretNamed(r, GetGitSecrets(spec)[i]))'
        BY <4>1, <4>6, UnlockedStays
      <4>8. call'[r].at = n + 1 =>
              FinalizerKey[r] \notin secrets'[SecretNamed(r, GetGitSecrets(spec)[n])].finalizers
        <5>1. CASE GetSecret(r)
          <6>1. call'[r].at = n + 1 => NextMethod(r)
            <7>1. call' = [call EXCEPT ![r].pc = "update", ![r].loaded = secrets[Target(r)]] =>
                    call'[r].at = n
              BY <4>5 DEF TypeOK, Call
            <7>2. ~GiveUp(r)
              BY <2>3, <3>2 DEF GiveUp, Return, Idle, TypeOK
            <7> QED
              BY <5>1, <7>1, <7>2 DEF GetSecret
          <6>2. call'[r].at = n + 1 => FinalizerKey[r] \notin secrets[Target(r)].finalizers
            <7>1. call' = [call EXCEPT ![r].pc = "update", ![r].loaded = secrets[Target(r)]] =>
                    call'[r].at = n
              BY <4>5 DEF TypeOK, Call
            <7>2. ~GiveUp(r)
              BY <2>3, <3>2 DEF GiveUp, Return, Idle, TypeOK
            <7> QED
              BY <4>1, <5>1, <7>1, <7>2 DEF GetSecret, Locks
          <6> QED
            BY <4>3, <4>5, <5>1, <6>2 DEF GetSecret
        <5>2. CASE UpdateSecret(r)
          BY <1>1, <2>3, <3>2, <4>3, <4>5, <5>2, UnlockTakesKey
        <5> QED
          BY <1>7, <5>1, <5>2
      <4>9. ASSUME NEW i \in DOMAIN GetGitSecrets(spec), i < call'[r].at
            PROVE  ~HasKey(r, SecretNamed(r, GetGitSecrets(spec)[i]))'
        <5>1. i \in Nat
          BY <4>5, SpecsAreTyped DEF GetGitSecrets, SpecType, AllSpecs
        <5>2. CASE i < n
          BY <4>7, <5>2
        <5>3. CASE ~(i < n)
          <6>1. i = n /\ call'[r].at = n + 1
            BY <3>1, <4>5, <4>9, <5>1, <5>3
          <6> QED
            BY <4>8, <6>1 DEF HasKey
        <5> QED
          BY <5>2, <5>3
      <4> QED
        BY <3>1, <4>5, <4>9 DEF UnlockedBefore
    <3>3. IsFinal(r)' <=> IsFinal(r)
      BY <3>1 DEF IsFinal
    <3> QED
      BY <2>1, <2>3, <3>1, <3>2, <3>3 DEF Held
  <2> QED
    BY <2>2, <2>3
<1>8. CASE AllMethodsDone(r)
  <2>1. /\ tf' = tf /\ secrets' = secrets /\ call'[r].copy = call[r].copy
        /\ call'[r].at = call[r].at /\ call[r].pc # "idle" /\ ~ToCome(r)
    BY <1>8 DEF AllMethodsDone, TypeOK, Call
  <2>2. /\ IsFinal(r)' <=> IsFinal(r)
        /\ ToCome(r)' <=> ToCome(r)
        /\ UnlockedBefore(r, call[r].copy.spec, call[r].at)' <=>
             UnlockedBefore(r, call[r].copy.spec, call[r].at)
    BY <2>1 DEF IsFinal, ToCome, UnlockedBefore, HasKey
  <2> QED
    BY <2>1, <2>2 DEF Held
<1>9. CASE RunStage(r)
  <2>1. call'[r].pc = "idle" /\ call[r].pc # "idle"
    BY <1>9 DEF RunStage, Return, Idle, TypeOK
  <2>2. tf[r].there /\ tf[r].finalizer /\ tf[r].gen # 0
    BY <2>1 DEF Held
  <2>3. PICK phase \in Phases : tf' = [tf EXCEPT ![r].started = TRUE, ![r].phase = phase]
    BY <1>9, <2>2 DEF RunStage, Phases
  <2> QED
    BY <1>2, <2>1, <2>2, <2>3, StageIsStarted
<1>10. CASE CredentialsMissing(r) \/ Crash(r)
  <2>1. tf' = tf /\ call'[r].pc = "idle"
    BY <1>10 DEF CredentialsMissing, Crash, Return, Idle, TypeOK
  <2> QED
    BY <1>2, <2>1 DEF Held
<1>11. CASE Release(r)
  <2>1. call'[r].pc = "idle" /\ call[r].pc # "idle"
    BY <1>11 DEF Release, Return, Idle, TypeOK
  <2>2. /\ tf'[r].gen = tf[r].gen /\ tf'[r].spec = tf[r].spec /\ tf'[r].phase = tf[r].phase
        /\ tf'[r].finalizer = tf[r].finalizer
        /\ tf'[r].there => tf[r].there
    BY <1>11 DEF Release, TypeOK, Tf
  <2> QED
    BY <1>2, <2>1, <2>2 DEF Held
<1> QED
  BY <1>3, <1>4, <1>5, <1>6, <1>7, <1>8, <1>9, <1>10, <1>11 DEF Reconcile

LEMMA NextKeepsHeld ==
  ASSUME NoneIgnored, KeysApart, TypeOK, \A q \in Resources : StageInv(q) /\ Held(q),
         [Next]_vars, NEW r \in Resources
  PROVE  Held(r)'
<1>1. ASSUME tf'[r] = tf[r], call'[r] = call[r], ~UpdateSecret(r)
      PROVE  Held(r)'
  <2>1. ASSUME call[r].pc # "idle", IsFinal(r)
        PROVE  UnlockedBefore(r, call[r].copy.spec, call[r].at)'
    <3>1. UnlockedBefore(r, call[r].copy.spec, call[r].at)
      BY <2>1 DEF Held
    <3>2. CASE call[r].copy.spec = NoSpec
      BY <1>1, <3>2 DEF UnlockedBefore, NoSpec, GetGitSecrets
    <3>3. CASE call[r].copy.spec # NoSpec
      <4>1. call[r].copy.spec \in SpecsOf[r]
        BY <2>1, <3>3 DEF StageInv, CallIsOfStage, Written
      <4>2. PICK spec \in SpecsOf[r], n \in Nat : spec = call[r].copy.spec /\ n = call[r].at
        BY <4>1 DEF TypeOK, Call
      <4>3. \A i \in DOMAIN GetGitSecrets(spec) :
              i < n => ~HasKey(r, SecretNamed(r, GetGitSecrets(spec)[i]))'
        BY <1>1, <3>1, <4>2, UnlockedStays
      <4> QED
        BY <1>1, <4>2, <4>3 DEF UnlockedBefore, HasKey
    <3> QED
      BY <3>2, <3>3
  <2>2. (IsFinal(r)' <=> IsFinal(r)) /\ (ToCome(r)' <=> ToCome(r))
    BY <1>1 DEF IsFinal, ToCome
  <2> QED
    BY <1>1, <2>1, <2>2 DEF Held
<1>2. CASE CreateResource(r) \/ EditSpec(r) \/ DeleteResource(r)
  BY <1>2, HeldAtUsers
<1>3. CASE Reconcile(r) \/ Crash(r)
  BY <1>3, HeldAtReconcile
<1>4. CASE /\ ~(CreateResource(r) \/ EditSpec(r) \/ DeleteResource(r))
           /\ ~(Reconcile(r) \/ Crash(r))
  <2>1. ~UpdateSecret(r)
    BY <1>4 DEF Reconcile
  <2>2. tf'[r] = tf[r] /\ call'[r] = call[r]
    <3>1. CASE UNCHANGED vars
      BY <3>1 DEF vars
    <3>2. CASE Users
      <4>1. \/ \E q \in Resources \ {r} : CreateResource(q) \/ EditSpec(q) \/ DeleteResource(q)
            \/ \E s \in SecretId : CreateSecret(s) \/ DeleteSecret(s)
        BY <1>4, <3>2 DEF Users
      <4> QED
        BY <4>1 DEF TypeOK, CreateResource, EditSpec, DeleteResource, CreateSecret, DeleteSecret
    <3>3. ASSUME NEW q \in Resources, Reconcile(q) \/ Crash(q)
          PROVE  tf'[r] = tf[r] /\ call'[r] = call[r]
      BY <1>4, <3>3, OthersStay
    <3> QED
      BY <3>1, <3>2, <3>3 DEF Next
  <2> QED
    BY <1>1, <2>1, <2>2
<1> QED
  BY <1>2, <1>3, <1>4

-----------------------------------------------------------------------------
LEMMA NextKeepsWanted ==
  ASSUME TypeOK, \A q \in Resources : StageInv(q), KeysWereWanted, [Next]_vars
  PROVE  KeysWereWanted'
<1> SUFFICES ASSUME NEW r \in Resources, NEW s \in SecretId, HasKey(r, s)'
             PROVE  \E q \in Resources : \E spec \in SpecsOf[q] :
                      FinalizerKey[q] = FinalizerKey[r] /\ s \in Wanted(q, spec)
  BY DEF KeysWereWanted, HasKey
<1>1. CASE HasKey(r, s)
  BY <1>1 DEF KeysWereWanted
<1>2. CASE ~HasKey(r, s)
  <2>1. PICK q \in Resources : Changes(q, r, s) /\ Locks(q)
    BY <1>2, KeysChange
  <2>2. call[q].copy.spec \in SpecsOf[q] /\ s \in Wanted(q, call[q].copy.spec)
    BY <2>1, TargetIsNamed DEF Changes
  <2> QED
    BY <2>1, <2>2 DEF Changes
<1> QED
  BY <1>1, <1>2

(* Which steps of a resource set its finalizer and let it go.              *)
LEMMA FinalizerStays ==
  ASSUME NoneIgnored, TypeOK, NEW r \in Resources, Held(r), tf[r].finalizer, [Next]_vars
  PROVE  tf'[r].finalizer
<1>1. CASE tf'[r] = tf[r]
  BY <1>1
<1>2. ASSUME CreateResource(r) \/ EditSpec(r) \/ DeleteResource(r)
      PROVE  tf'[r].finalizer
  <2>1. ~CreateResource(r)
    BY DEF CreateResource, Held
  <2> QED
    BY <1>2, <2>1 DEF EditSpec, DeleteResource, TypeOK, Tf
<1>3. ASSUME Reconcile(r) \/ Crash(r)
      PROVE  tf'[r].finalizer
  <2>1. ~UpdateFinalizer(r)
    BY FinalizerIsAdded
  <2>2. CASE SetNewStage(r)
    BY <2>2, StageIsSet
  <2>3. CASE RunStage(r)
    <3>1. CASE tf[r].there
      <4>1. PICK phase \in Phases : tf' = [tf EXCEPT ![r].started = TRUE, ![r].phase = phase]
        BY <2>3, <3>1 DEF RunStage, Phases
      <4> QED
        BY <4>1, StageIsStarted
    <3>2. CASE ~tf[r].there
      BY <2>3, <3>2 DEF RunStage
    <3> QED
      BY <3>1, <3>2
  <2>4. CASE EndWorkflow(r) \/ Release(r)
    BY <2>4 DEF EndWorkflow, Release, TypeOK, Tf
  <2>5. CASE \/ UpdateSecretFinalizer(r) \/ GetSecret(r) \/ UpdateSecret(r)
             \/ AllMethodsDone(r) \/ CredentialsMissing(r) \/ Crash(r)
    BY <2>5 DEF UpdateSecretFinalizer, GetSecret, UpdateSecret, AllMethodsDone,
                CredentialsMissing, Crash
  <2> QED
    BY <1>3, <2>1, <2>2, <2>3, <2>4, <2>5 DEF Reconcile
<1>4. ASSUME NEW q \in Resources \ {r}, Reconcile(q) \/ Crash(q)
      PROVE  tf'[r].finalizer
  BY <1>4, OthersStay
<1>5. ASSUME NEW q \in Resources \ {r}, CreateResource(q) \/ EditSpec(q) \/ DeleteResource(q)
      PROVE  tf'[r].finalizer
  BY <1>5 DEF CreateResource, EditSpec, DeleteResource, TypeOK
<1>6. ASSUME UNCHANGED vars \/ \E s \in SecretId : CreateSecret(s) \/ DeleteSecret(s)
      PROVE  tf'[r].finalizer
  BY <1>6 DEF vars, CreateSecret, DeleteSecret
<1> QED
  BY <1>2, <1>3, <1>4, <1>5, <1>6 DEF Next, Users

LEMMA NextKeepsNone ==
  ASSUME NoneIgnored, KeysApart, UnlockInv, [Next]_vars
  PROVE  NoneBeforeFinalizer'
<1> USE DEF UnlockInv
<1> SUFFICES ASSUME NEW r \in Resources, ~tf'[r].finalizer, NEW spec \in SpecsOf[r],
                    NEW s \in Named(r, spec)
             PROVE  ~HasKey(r, s)'
  BY DEF NoneBeforeFinalizer, HasKey
<1>1. ~tf[r].finalizer
  BY FinalizerStays
<1>2. ~HasKey(r, s)
  BY <1>1 DEF NoneBeforeFinalizer
<1>3. ~UpdateSecret(r)
  BY <1>1 DEF UpdateSecret, Held
<1> QED
  BY <1>2, <1>3, OnlyOwnKeys

(* The last call has unlocked every secret of its spec before it ends.     *)
LEMMA ReleasedUnlocked ==
  ASSUME KeysApart, TunnelsApart, UnlockInv, NEW r \in Resources,
         call[r].pc = "release", NEW s \in Named(r, call[r].copy.spec)
  PROVE  ~HasKey(r, s)
<1> USE DEF UnlockInv
<1> DEFINE spec == call[r].copy.spec
<1>1. /\ spec \in Written(r) /\ spec \in AllSpecs /\ IsFinal(r) /\ ~ToCome(r)
      /\ call[r].at \in Nat /\ UnlockedBefore(r, spec, call[r].at)
  BY DEF StageInv, CallIsOfStage, Held, TypeOK, Call, Tf
<1>2. spec \in SpecsOf[r]
  BY <1>1 DEF Written, NoSpec, Named, ToSet
<1>3. ASSUME NEW ref \in ToSet(GetGitSecrets(spec))
      PROVE  ~HasKey(r, SecretNamed(r, ref))
  <2>1. PICK i \in DOMAIN GetGitSecrets(spec) : ref = GetGitSecrets(spec)[i]
    BY DEF ToSet
  <2>2. GetGitSecrets(spec) \in Seq(Ref)
    BY <1>1, SpecsAreTyped DEF SpecType, GetGitSecrets
  <2>3. i < call[r].at
    BY <1>1, <2>2 DEF ToCome
  <2> QED
    BY <1>1, <2>1, <2>3 DEF UnlockedBefore
<1>4. ASSUME NEW key \in spec.tunnel, s = SecretNamed(r, key), HasKey(r, s)
      PROVE  FALSE
  <2>1. s \in SecretId
    BY <1>1, NamesAreSecrets
  <2>2. PICK q \in Resources : \E b \in SpecsOf[q] :
          FinalizerKey[q] = FinalizerKey[r] /\ s \in Wanted(q, b)
    BY <1>4, <2>1 DEF KeysWereWanted
  <2>3. q = r
    BY <1>2, <2>2 DEF KeysApart
  <2>4. PICK b \in SpecsOf[r] : SecretNamed(r, key) \in Wanted(r, b)
    BY <1>4, <2>2, <2>3
  <2>5. \E ref \in ToSet(GetGitSecrets(spec)) : SecretNamed(r, ref) = SecretNamed(r, key)
    BY <1>2, <2>4 DEF TunnelsApart
  <2> QED
    BY <1>3, <1>4, <2>5
<1> QED
  BY <1>3, <1>4 DEF Named, GetGitSecrets

(* How a resource goes: without a finalizer, or by its last call.          *)
LEMMA WhoLetsGo ==
  ASSUME NoneIgnored, TypeOK, NEW r \in Resources, StageInv(r), Held(r), [Next]_vars,
         tf'[r].gen # 0, ~tf'[r].there, tf'[r] # tf[r]
  PROVE  /\ UNCHANGED secrets /\ tf'[r].spec = tf[r].spec
         /\ \/ ~tf[r].finalizer /\ tf[r].gen # 0
            \/ call[r].pc = "release" /\ tf[r] = call[r].copy
<1>1. CASE CreateResource(r)
  BY <1>1, ResourceIsNew
<1>2. CASE EditSpec(r)
  BY <1>2 DEF EditSpec, TypeOK, Tf
<1>3. CASE DeleteResource(r)
  BY <1>3 DEF DeleteResource, TypeOK, Tf, Held
<1>4. CASE UpdateFinalizer(r) \/ EndWorkflow(r)
  <2>1. CASE UpdateFinalizer(r)
    <3>1. tf[r].there /\ tf' = [tf EXCEPT ![r].finalizer = ~@]
      BY <2>1, FinalizerIsAdded
    <3>2. tf \in [Resources -> Tf]
      BY DEF TypeOK
    <3>3. tf'[r].there
      BY <3>1, <3>2 DEF Tf
    <3> QED
      BY <3>3
  <2>2. CASE EndWorkflow(r)
    BY <2>2 DEF EndWorkflow, IsRead, TypeOK, Tf
  <2> QED
    BY <1>4, <2>1, <2>2
<1>5. CASE SetNewStage(r)
  BY <1>5, StageIsSet DEF SetNewStage, IsRead
<1>6. CASE RunStage(r)
  <2>1. tf[r].there
    BY <1>6 DEF RunStage, Held
  <2>2. PICK phase \in Phases : tf' = [tf EXCEPT ![r].started = TRUE, ![r].phase = phase]
    BY <1>6, <2>1 DEF RunStage, Phases
  <2> QED
    BY <2>1, <2>2, StageIsStarted
<1>7. CASE Release(r)
  BY <1>7 DEF Release, TypeOK, Tf
<1>8. CASE \/ UpdateSecretFinalizer(r) \/ GetSecret(r) \/ UpdateSecret(r)
           \/ AllMethodsDone(r) \/ CredentialsMissing(r) \/ Crash(r)
  BY <1>8 DEF UpdateSecretFinalizer, GetSecret, UpdateSecret, AllMethodsDone,
              CredentialsMissing, Crash
<1>9. ASSUME NEW q \in Resources \ {r}, Reconcile(q) \/ Crash(q)
      PROVE  FALSE
  BY <1>9, OthersStay
<1>10. ASSUME NEW q \in Resources \ {r}, CreateResource(q) \/ EditSpec(q) \/ DeleteResource(q)
       PROVE  FALSE
  BY <1>10 DEF CreateResource, EditSpec, DeleteResource, TypeOK
<1>11. ASSUME UNCHANGED vars \/ \E s \in SecretId : CreateSecret(s) \/ DeleteSecret(s)
       PROVE  FALSE
  BY <1>11 DEF vars, CreateSecret, DeleteSecret
<1> QED
  BY <1>1, <1>2, <1>3, <1>4, <1>5, <1>6, <1>7, <1>8, <1>9, <1>10, <1>11
     DEF Next, Users, Reconcile

LEMMA NextKeepsGoneUnlocked ==
  ASSUME NoneIgnored, KeysApart, TunnelsApart, UnlockInv, [Next]_vars
  PROVE  UnlockedWhenGone'
<1> USE DEF UnlockInv
<1> SUFFICES ASSUME NEW r \in Resources, tf'[r].gen # 0, ~tf'[r].there,
                    NEW s \in Named(r, tf'[r].spec)
             PROVE  FinalizerKey[r] \notin secrets'[s].finalizers
  BY DEF UnlockedWhenGone
<1>1. CASE tf'[r] = tf[r]
  <2>1. tf[r].spec \in SpecsOf[r] /\ ~HasKey(r, s)
    BY <1>1 DEF Held, UnlockedWhenGone, HasKey
  <2>2. ~UpdateSecret(r)
    BY <1>1 DEF UpdateSecret, Held
  <2>3. ~HasKey(r, s)'
    BY <1>1, <2>1, <2>2, OnlyOwnKeys
  <2> QED
    BY <2>3 DEF HasKey
<1>2. CASE tf'[r] # tf[r]
  <2>1. /\ secrets' = secrets /\ tf'[r].spec = tf[r].spec
        /\ \/ ~tf[r].finalizer /\ tf[r].gen # 0
           \/ call[r].pc = "release" /\ tf[r] = call[r].copy
    BY <1>2, WhoLetsGo
  <2>2. CASE ~tf[r].finalizer /\ tf[r].gen # 0
    <3>1. tf[r].spec \in SpecsOf[r]
      BY <2>2 DEF Held
    <3> QED
      BY <2>1, <2>2, <3>1 DEF NoneBeforeFinalizer, HasKey
  <2>3. CASE call[r].pc = "release" /\ tf[r] = call[r].copy
    BY <2>1, <2>3, ReleasedUnlocked DEF HasKey
  <2> QED
    BY <2>1, <2>2, <2>3
<1> QED
  BY <1>1, <1>2

(* A resource that is gone, with or without a destroy workflow, and however*)
(* often its last call was cut short, holds no secret that its last spec   *)
(* names (Reconcile, updateSecretFinalizer).                               *)
THEOREM GoneIsUnlocked ==
  ASSUME KeysApart, TunnelsApart, NoneIgnored
  PROVE  Spec => []UnlockedWhenGone
<1>1. Init => UnlockInv
  <2> SUFFICES ASSUME Init
               PROVE  UnlockInv
    OBVIOUS
  <2>1. /\ NoTf.gen = 0 /\ NoTf.phase = "" /\ ~NoTf.there /\ ~NoTf.finalizer
        /\ Idle.pc = "idle"
    BY DEF NoTf, Idle
  <2>2. \A r \in Resources : Held(r)
    BY <2>1 DEF Init, Held
  <2>3. \A s \in SecretId : secrets[s].finalizers = {}
    BY DEF Init, NoSecret
  <2>4. ASSUME NEW r \in Resources, NEW s \in SecretId
        PROVE  ~HasKey(r, s)
    BY <2>3 DEF HasKey
  <2>5. \A r \in Resources : \A spec \in SpecsOf[r] : Named(r, spec) \subseteq SecretId
    BY NamesAreSecrets DEF AllSpecs
  <2>6. KeysWereWanted /\ NoneBeforeFinalizer
    BY <2>4, <2>5 DEF KeysWereWanted, NoneBeforeFinalizer
  <2>7. UnlockedWhenGone
    BY <2>1 DEF Init, UnlockedWhenGone
  <2> QED
    BY <2>2, <2>6, <2>7, StagesAtInit DEF UnlockInv
<1>2. UnlockInv /\ [Next]_vars => UnlockInv'
  <2> SUFFICES ASSUME UnlockInv, [Next]_vars
               PROVE  UnlockInv'
    OBVIOUS
  <2>1. TypeOK' /\ \A r \in Resources : StageInv(r)'
    BY NextKeepsStages DEF UnlockInv
  <2>2. \A r \in Resources : Held(r)'
    BY NextKeepsHeld DEF UnlockInv
  <2>3. KeysWereWanted' /\ NoneBeforeFinalizer' /\ UnlockedWhenGone'
    BY NextKeepsWanted, NextKeepsNone, NextKeepsGoneUnlocked DEF UnlockInv
  <2> QED
    BY <2>1, <2>2, <2>3 DEF UnlockInv
<1>3. UnlockInv => UnlockedWhenGone
  BY DEF UnlockInv
<1> QED
  BY <1>1, <1>2, <1>3, PTL DEF Spec
=============================================================================
