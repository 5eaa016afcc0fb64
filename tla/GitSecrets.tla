------------------------------ MODULE GitSecrets -----------------------------
(***************************************************************************)
(* The secrets that spec.scmAuthMethods names.  With lockSecretDeletion    *)
(* the controller puts a finalizer of the resource on such a secret when   *)
(* it sets a generation up and takes it off when the resource goes, and it *)
(* reads the credentials themselves into the pods' own secret.             *)
(*                                                                         *)
(* Several resources share secrets and are reconciled by different         *)
(* workers; a change of one secret is a read and a conditional update.     *)
(* The workflow around it is reduced to what the handling of secrets sees: *)
(* a new generation is set up, its pods end, the deletion is final.        *)
(***************************************************************************)
EXTENDS Naturals, Sequences, SequencesExt

CONSTANTS
  Resources, Namespaces, Names,
  NamespaceOf,    \* [Resources -> Namespaces]
  FinalizerKey,   \* [Resources -> keys]: the resource's name, cut to 53 characters
  SpecsOf,        \* [Resources -> sets of Spec]: what users write
  Recreated,      \* the names users create again once they are gone
  MaxEdits, MaxFaults \* bounds

(* A reference to a secret: the token or the key of a method.  An empty    *)
(* namespace asks for the default one.                                     *)
Ref == [kind: {"https", "ssh"}, name: Names, namespace: Namespaces \cup {""},
        lock: BOOLEAN]

(* The methods of scmAuthMethods in their order, and the key of sshTunnel, *)
(* if there is one.                                                        *)
SpecType(spec) ==
  spec \in [methods: Seq(Ref), tunnel: SUBSET {ref \in Ref : ref.kind = "ssh"},
            ignoreDelete: BOOLEAN]

ASSUME ResourceAssumption ==
  /\ NamespaceOf \in [Resources -> Namespaces]
  /\ "default" \in Namespaces /\ "" \notin Namespaces
  /\ \A r \in Resources : \A spec \in SpecsOf[r] : SpecType(spec)
ASSUME SecretBounds == Recreated \subseteq Names /\ MaxEdits \in Nat /\ MaxFaults \in Nat

Keys == {FinalizerKey[r] : r \in Resources}
SecretId == [namespace: Namespaces, name: Names]
NoSpec == [methods |-> <<>>, tunnel |-> {}, ignoreDelete |-> FALSE]
AllSpecs == {NoSpec} \cup UNION {SpecsOf[r] : r \in Resources}

Phases == {"", "initializing", "running", "initializing-delete", "deleting", "deleted"}

VARIABLES
  tf,       \* the resources
  secrets,  \* the secrets; uid tells incarnations of one name apart
  call,     \* per resource, the running call of Reconcile
  secured,  \* the secrets locked for a resource since it wants them locked
  faults

vars == <<tf, secrets, call, secured, faults>>

Tf == [there: BOOLEAN, gen: Nat, spec: AllSpecs, deleting: BOOLEAN, finalizer: BOOLEAN,
       phase: Phases, stageGen: Nat, started: BOOLEAN]

Secret == [there: BOOLEAN, uid: Nat, terminating: BOOLEAN, finalizers: SUBSET Keys]

(* copy: the call's tf; at: the method updateSecretFinalizer has come to;  *)
(* loaded: the secret as it was read for it.                               *)
Call == [pc: {"idle", "get", "update", "credentials", "release"}, copy: Tf, at: Nat,
         loaded: Secret]

NoTf == [there |-> FALSE, gen |-> 0, spec |-> NoSpec, deleting |-> FALSE,
         finalizer |-> FALSE, phase |-> "", stageGen |-> 0, started |-> FALSE]
NoSecret == [there |-> FALSE, uid |-> 0, terminating |-> FALSE, finalizers |-> {}]
Idle == [pc |-> "idle", copy |-> NoTf, at |-> 0, loaded |-> NoSecret]

TypeOK ==
  /\ tf \in [Resources -> Tf]
  /\ secrets \in [SecretId -> Secret]
  /\ call \in [Resources -> Call]
  /\ secured \in [Resources -> SUBSET SecretId]
  /\ faults \in Nat

Init ==
  /\ tf = [r \in Resources |-> NoTf]
  /\ secrets = [s \in SecretId |-> [NoSecret EXCEPT !.there = TRUE, !.uid = 1]]
  /\ call = [r \in Resources |-> Idle]
  /\ secured = [r \in Resources |-> {}]
  /\ faults = 0

-----------------------------------------------------------------------------
(* Which secret a method stands for, and what becomes of it.               *)
SecretNamed(r, ref) ==
  [namespace |-> IF ref.namespace = "" THEN NamespaceOf[r] ELSE ref.namespace,
   name |-> ref.name]

(* The token goes through loadSecret as it is written, which has a default *)
(* of its own; a key's namespace is filled in as for the lock.             *)
CredentialRead(r, ref) ==
  IF ref.kind = "https"
  THEN [namespace |-> IF ref.namespace = "" THEN "default" ELSE ref.namespace,
        name |-> ref.name]
  ELSE SecretNamed(r, ref)

(* Only the first token is put into GIT_ASKPASS; every key is read, that   *)
(* of the tunnel too.                                                      *)
CredentialsRead(r, spec) ==
  LET First(i) == ~\E j \in 1..(i - 1) : spec.methods[j].kind = "https"
  IN  {CredentialRead(r, spec.methods[i]) :
         i \in {k \in DOMAIN spec.methods : spec.methods[k].kind = "ssh" \/ First(k)}}
      \cup {CredentialRead(r, key) : key \in spec.tunnel}

(* The tunnel's key is not among the secrets that are locked and unlocked. *)
GetGitSecrets(spec) == spec.methods

ShouldBeLocked(spec, ref) == ref.lock /\ ~spec.ignoreDelete

Wanted(r, spec) ==
  {SecretNamed(r, ref) : ref \in {x \in ToSet(GetGitSecrets(spec)) : ShouldBeLocked(spec, x)}}

Named(r, spec) == {SecretNamed(r, ref) : ref \in ToSet(spec.methods) \cup spec.tunnel}

-----------------------------------------------------------------------------
(* Users of the resources and of the secrets.                              *)
CreateResource(r) ==
  /\ tf[r].gen = 0
  /\ \E spec \in SpecsOf[r] :
       tf' = [tf EXCEPT ![r] = [NoTf EXCEPT !.there = TRUE, !.gen = 1, !.spec = spec]]
  /\ UNCHANGED <<secrets, call, secured, faults>>

(* Every edit starts a generation, and so does the deletion.               *)
Edits(r) == tf[r].gen - IF tf[r].deleting THEN 2 ELSE 1

EditSpec(r) ==
  /\ tf[r].there /\ Edits(r) < MaxEdits
  /\ \E spec \in SpecsOf[r] \ {tf[r].spec} :
       tf' = [tf EXCEPT ![r].spec = spec, ![r].gen = @ + 1]
  /\ UNCHANGED <<secrets, call, secured, faults>>

DeleteResource(r) ==
  /\ tf[r].there /\ ~tf[r].deleting
  /\ tf' = IF tf[r].finalizer
           THEN [tf EXCEPT ![r].deleting = TRUE, ![r].gen = @ + 1]
           ELSE [tf EXCEPT ![r].there = FALSE]
  /\ UNCHANGED <<secrets, call, secured, faults>>

CreateSecret(s) ==
  /\ ~secrets[s].there /\ s.name \in Recreated /\ secrets[s].uid = 1
  /\ secrets' = [secrets EXCEPT ![s].there = TRUE, ![s].uid = @ + 1]
  /\ UNCHANGED <<tf, call, secured, faults>>

(* A finalizer holds the deletion of what carries it.                      *)
Settled(secret) ==
  IF secret.terminating /\ secret.finalizers = {} THEN [NoSecret EXCEPT !.uid = secret.uid]
  ELSE secret

DeleteSecret(s) ==
  /\ secrets[s].there /\ ~secrets[s].terminating
  /\ secrets' = [secrets EXCEPT ![s] = Settled([secrets[s] EXCEPT !.terminating = TRUE])]
  /\ UNCHANGED <<tf, call, secured, faults>>

-----------------------------------------------------------------------------
(* Reconcile, up to updateSecretFinalizer and after it.                    *)
Fault == faults < MaxFaults /\ faults' = faults + 1

Return(r) == call' = [call EXCEPT ![r] = Idle]

(* A resource that is being deleted goes with its last finalizer.          *)
UpdateFinalizer(r) ==
  /\ call[r].pc = "idle" /\ tf[r].there /\ tf[r].phase # "deleted"
  /\ tf[r].finalizer = tf[r].spec.ignoreDelete
  /\ tf' = IF tf[r].finalizer /\ tf[r].deleting THEN [tf EXCEPT ![r].there = FALSE]
           ELSE [tf EXCEPT ![r].finalizer = ~@]
  /\ UNCHANGED <<secrets, call, secured, faults>>

IsRead(r) ==
  /\ call[r].pc = "idle" /\ tf[r].there /\ tf[r].phase # "deleted"
  /\ tf[r].finalizer # tf[r].spec.ignoreDelete

SetNewStage(r) ==
  /\ IsRead(r) /\ tf[r].stageGen # tf[r].gen
  /\ tf' = [tf EXCEPT ![r].stageGen = tf[r].gen, ![r].started = FALSE,
                      ![r].phase = IF tf[r].deleting THEN "initializing-delete"
                                   ELSE "initializing"]
  /\ secured' = [secured EXCEPT ![r] = @ \cap Wanted(r, tf[r].spec)]
  /\ UNCHANGED <<secrets, call, faults>>

(* updateSecretFinalizer starts, in setupAndRun and in the final delete.   *)
UpdateSecretFinalizer(r) ==
  /\ \/ IsRead(r) /\ tf[r].stageGen = tf[r].gen /\ ~tf[r].started
     \/ call[r].pc = "idle" /\ tf[r].there /\ tf[r].phase = "deleted"
  /\ call' = [call EXCEPT ![r] = [pc |-> "get", copy |-> tf[r], at |-> 1,
                                  loaded |-> NoSecret]]
  /\ UNCHANGED <<tf, secrets, secured, faults>>

EndWorkflow(r) ==
  /\ IsRead(r) /\ tf[r].stageGen = tf[r].gen /\ tf[r].started
  /\ tf[r].phase = "deleting"
  /\ tf' = [tf EXCEPT ![r].phase = "deleted"]
  /\ secured' = [secured EXCEPT ![r] = {}]
  /\ UNCHANGED <<secrets, call, faults>>

-----------------------------------------------------------------------------
(* One method of updateSecretFinalizer after the other.                    *)
IsFinal(r) == call[r].copy.phase = "deleted"

ToCome(r) == call[r].at <= Len(GetGitSecrets(call[r].copy.spec))

Method(r) == GetGitSecrets(call[r].copy.spec)[call[r].at]
Target(r) == SecretNamed(r, Method(r))

(* A bug: a resource that goes still locks what its spec asks for.         *)
LocksAlways(r) == ShouldBeLocked(call[r].copy.spec, Method(r))

Locks(r) == ShouldBeLocked(call[r].copy.spec, Method(r)) /\ ~IsFinal(r)

NextMethod(r) == call' = [call EXCEPT ![r].pc = "get", ![r].at = @ + 1, ![r].loaded = NoSecret]

(* A bug: an update that was refused is tried again as it is.              *)
TryAgain(r) == UNCHANGED call

(* An error ends the loop.  setupAndRun logs it and goes on, the final     *)
(* delete returns it and is called again.                                  *)
GiveUp(r) ==
  IF IsFinal(r) THEN Return(r) ELSE call' = [call EXCEPT ![r].pc = "credentials"]

GetSecret(r) ==
  /\ call[r].pc = "get" /\ ToCome(r)
  /\ \/ /\ secrets[Target(r)].there
        /\ UNCHANGED faults
        /\ IF Locks(r) = (FinalizerKey[r] \in secrets[Target(r)].finalizers)
           THEN NextMethod(r)
           ELSE call' = [call EXCEPT ![r].pc = "update", ![r].loaded = secrets[Target(r)]]
        /\ secured' = IF Locks(r) /\ FinalizerKey[r] \in secrets[Target(r)].finalizers
                      THEN [secured EXCEPT ![r] = @ \cup {Target(r)}]
                      ELSE secured
     \/ /\ \/ ~secrets[Target(r)].there /\ UNCHANGED faults
           \/ Fault
        /\ GiveUp(r) /\ UNCHANGED secured
  /\ UNCHANGED <<tf, secrets>>

(* A bug: the update is not conditional on the version that was read.      *)
AnyVersion(r) == secrets[Target(r)].there

(* The API server refuses a copy that is not the latest, and a finalizer   *)
(* on what is being deleted already.                                       *)
Accepted(r) ==
  /\ secrets[Target(r)] = call[r].loaded
  /\ ~(Locks(r) /\ call[r].loaded.terminating)

UpdateSecret(r) ==
  /\ call[r].pc = "update"
  /\ \/ /\ Accepted(r)
        /\ secrets' = [secrets EXCEPT ![Target(r)] =
             Settled([call[r].loaded EXCEPT !.finalizers =
                        IF Locks(r) THEN @ \cup {FinalizerKey[r]} ELSE @ \ {FinalizerKey[r]}])]
        /\ secured' = IF Locks(r) THEN [secured EXCEPT ![r] = @ \cup {Target(r)}] ELSE secured
        /\ NextMethod(r)
        /\ UNCHANGED faults
     \/ /\ \/ ~Accepted(r) /\ UNCHANGED faults
           \/ Fault
        /\ GiveUp(r)
        /\ UNCHANGED <<secrets, secured>>
  /\ UNCHANGED tf

AllMethodsDone(r) ==
  /\ call[r].pc = "get" /\ ~ToCome(r)
  /\ call' = [call EXCEPT ![r].pc = IF IsFinal(r) THEN "release" ELSE "credentials"]
  /\ UNCHANGED <<tf, secrets, secured, faults>>

(* The credentials are read and the pod of the stage is created, and the   *)
(* status says so on whatever the resource has become; without them        *)
(* setupAndRun fails and is tried again.                                   *)
RunStage(r) ==
  /\ call[r].pc = "credentials"
  /\ \A s \in CredentialsRead(r, call[r].copy.spec) : secrets[s].there
  /\ tf' = IF ~tf[r].there THEN tf
           ELSE [tf EXCEPT ![r].started = TRUE,
                           ![r].phase = IF call[r].copy.phase = "initializing" THEN "running"
                                        ELSE "deleting"]
  /\ Return(r)
  /\ UNCHANGED <<secrets, secured, faults>>

CredentialsMissing(r) ==
  /\ call[r].pc = "credentials"
  /\ \E s \in CredentialsRead(r, call[r].copy.spec) : ~secrets[s].there
  /\ Return(r)
  /\ UNCHANGED <<tf, secrets, secured, faults>>

(* The resource's own finalizer goes, unless the copy is an old one.       *)
Release(r) ==
  /\ call[r].pc = "release"
  /\ \/ tf[r] = call[r].copy /\ UNCHANGED faults
        /\ tf' = [tf EXCEPT ![r].there = FALSE]
     \/ tf[r] # call[r].copy /\ UNCHANGED <<tf, faults>>
     \/ Fault /\ UNCHANGED tf
  /\ Return(r)
  /\ UNCHANGED <<secrets, secured>>

Crash(r) ==
  /\ call[r].pc # "idle" /\ Fault
  /\ Return(r)
  /\ UNCHANGED <<tf, secrets, secured>>

-----------------------------------------------------------------------------
Users ==
  \/ \E r \in Resources : CreateResource(r) \/ EditSpec(r) \/ DeleteResource(r)
  \/ \E s \in SecretId : CreateSecret(s) \/ DeleteSecret(s)

Reconcile(r) ==
  \/ UpdateFinalizer(r) \/ SetNewStage(r) \/ UpdateSecretFinalizer(r) \/ EndWorkflow(r)
  \/ GetSecret(r) \/ UpdateSecret(r) \/ AllMethodsDone(r)
  \/ RunStage(r) \/ CredentialsMissing(r) \/ Release(r)

Next == Users \/ \E r \in Resources : Reconcile(r) \/ Crash(r)

Spec == Init /\ [][Next]_vars

(* A failed call is put back into the work queue.                          *)
FairSpec == Spec /\ \A r \in Resources : WF_vars(Reconcile(r))

-----------------------------------------------------------------------------
(***************************************************************************)
(* A secret that was locked for a resource stays locked, and so exists,    *)
(* until the resource's destroy workflow is over or an edit no longer asks *)
(* for the lock: "to ensure terraform workflow will work properly"         *)
(* (updateSecretFinalizer).  Others who lock and unlock the same secret at *)
(* the same time take nothing away.                                        *)
(***************************************************************************)
LockHolds ==
  \A r \in Resources : \A s \in secured[r] :
    tf[r].there => secrets[s].there /\ FinalizerKey[r] \in secrets[s].finalizers

(* A resource that is gone holds no secret that its last spec names.       *)
UnlockedWhenGone ==
  \A r \in Resources :
    tf[r].gen # 0 /\ ~tf[r].there =>
      \A s \in Named(r, tf[r].spec) : FinalizerKey[r] \notin secrets[s].finalizers

(* A deleted resource goes away as long as the secrets it names exist:     *)
(* neither conflicts over a shared secret nor errors keep it for ever.     *)
DeletionEnds ==
  \A r \in Resources :
    <>[](\A s \in Named(r, tf[r].spec) : secrets[s].there)
      => (tf[r].deleting ~> ~tf[r].there)

(* A resource is set up for its generation as long as the secrets it names *)
(* exist: "Namespace of the secret; Default is the namespace of the        *)
(* terraform resource" (TokenSecretRef, SSHKeySecretRef).                  *)
SetUpWhenSecretsThere ==
  \A r \in Resources :
    <>[](\A s \in Named(r, tf[r].spec) : secrets[s].there)
      => (tf[r].there ~> ~tf[r].there \/ (tf[r].started /\ tf[r].stageGen = tf[r].gen))
=============================================================================
