--------------------------- MODULE GobackupSecret ---------------------------
(***************************************************************************)
(* The builder of the config Secret (pkg/k8sutil/secret.go, crd.go), split *)
(* at every API call: CreateSecret reads each Database and Storage the     *)
(* Backup refers to and each Secret those refer to, and then gets, creates *)
(* or updates the Secret that has the Backup's name.  The reconciler is    *)
(* reduced to when it calls CreateSecret, and with which spec.             *)
(*                                                                         *)
(* Users change the Backup and every source meanwhile; the Backup may be   *)
(* deleted and created again; others may write to the Secret.              *)
(***************************************************************************)
EXTENDS ConfigSources

CONSTANTS
    Faults,     \* The mishaps a run includes, a subset of FaultKinds
    MaxFaults   \* Bound on how many of them happen

\* crash: the operator restarts.  request: an API call of CreateSecret fails.
\* handler: a later step of the handler fails.  rebuild: the CronJob is gone,
\* or the cache lags behind the recorded generation.  touch, occupy: someone
\* updates the Secret, or creates one of that name.
FaultKinds == {"crash", "request", "handler", "rebuild", "touch", "occupy"}

ASSUME FaultsAssumption == Faults \subseteq FaultKinds /\ MaxFaults \in Nat

VARIABLES
    secret,         \* The Secret that has the Backup's name
    cached,         \* The spec in the informer cache, 0 if it has no Backup
    acknowledged,   \* The spec that the last complete build was made from
    queued,         \* The work queue holds the Backup
    pc,             \* The API call CreateSecret makes next, or "idle"
    build,          \* The local variables of CreateSecret
    found,          \* Its copy of the existing Secret
    faults          \* How many faults have happened

workerVars == <<cached, acknowledged, queued, pc, build, found>>

vars == <<sourceVars, secret, workerVars, faults>>

Value == [source: Sources \cup {"backup"}, version: Nat]

\* A map with keys in S and values in T.
IsMap(m, S, T) == DOMAIN m \subseteq S /\ m \in [DOMAIN m -> T]

\* The model of gobackup.yml: objects, with the value of each of their fields.
IsModel(m) == DOMAIN m \subseteq Objects /\ \A o \in DOMAIN m : IsMap(m[o], Fields, Value)

NoSecret == [there |-> FALSE, revision |-> 0, owners |-> {},
             config |-> [spec |-> 0, model |-> Nothing]]

\* spec: the copy of the Backup.  since: the versions of all sources at the
\* start, for the properties only.  at: the reference in hand.  version: the
\* version of its object that was read.  resolved: the versions of the
\* credentials read for it.  model: the finished objects.
NoBuild == [spec |-> 0, since |-> [s \in Sources |-> 0], at |-> 1, version |-> 0,
            resolved |-> Nothing, model |-> Nothing]

SecretOK(s) ==
    /\ s \in [there: BOOLEAN, revision: Nat, owners: SUBSET Nat, config: {s.config}]
    /\ s.config \in [spec: Nat, model: {s.config.model}]
    /\ IsModel(s.config.model)

BuildOK(b) ==
    /\ b \in [spec: Nat, since: [Sources -> Nat], at: Nat, version: Nat,
              resolved: {b.resolved}, model: {b.model}]
    /\ IsMap(b.resolved, Fields, Nat)
    /\ IsModel(b.model)

\* The references of the copy of the Backup, and the object CreateSecret is at.
Refs(b) == manifest[b.spec].refs

InHand(b) == Refs(b)[b.at].name

TypeOK ==
    /\ SourcesTypeOK
    /\ SecretOK(secret)
    /\ cached \in 0 .. Len(manifest) /\ acknowledged \in Nat
    /\ queued \in BOOLEAN
    /\ pc \in {"idle", "object", "reference", "get", "create", "update"}
    /\ BuildOK(build)
    /\ pc # "idle" => build.spec \in DOMAIN manifest
    /\ pc \in {"object", "reference"} => build.at \in DOMAIN Refs(build)
    /\ pc = "reference" => build.version \in DOMAIN world[InHand(build)]
    /\ SecretOK(found)
    /\ faults \in Nat

Init ==
    /\ SourcesInit
    /\ secret = NoSecret
    /\ cached = 0 /\ acknowledged = 0
    /\ queued = FALSE
    /\ pc = "idle" /\ build = NoBuild /\ found = NoSecret
    /\ faults = 0

Fault(kind) ==
    /\ kind \in Faults
    /\ faults < MaxFaults
    /\ faults' = faults + 1

Finish(again) ==
    /\ pc' = "idle" /\ build' = NoBuild /\ found' = NoSecret
    /\ queued' = again

\* Mutant: the request ends as if it had succeeded.
GiveUp == Finish(queued) /\ UNCHANGED <<cached, acknowledged>>

\* CreateSecret returns an error, and so does Reconcile: a rate-limited retry.
Retry == Finish(TRUE) /\ UNCHANGED <<cached, acknowledged>>
-----------------------------------------------------------------------------
(* The reconciler around CreateSecret.                                     *)

Current == IF live THEN Len(manifest) ELSE 0

WatchBackup ==
    /\ cached # Current
    /\ cached' = Current
    /\ queued' = TRUE
    /\ UNCHANGED <<sourceVars, secret, acknowledged, pc, build, found, faults>>

\* The Backup is gone, or its spec was built and its CronJob is there.
NothingToBuild ==
    /\ pc = "idle" /\ queued
    /\ cached \in {0, acknowledged}
    /\ Finish(FALSE)
    /\ UNCHANGED <<sourceVars, secret, cached, acknowledged, faults>>

Begin ==
    /\ pc = "idle" /\ queued
    /\ cached \notin {0, acknowledged}
    /\ pc' = "object"
    /\ build' = [NoBuild EXCEPT !.spec = cached, !.since = Now]
    /\ queued' = FALSE
    /\ UNCHANGED <<sourceVars, secret, cached, acknowledged, found, faults>>

\* After CreateSecret the handler goes on to the CronJob, and may fail there.
RestOfHandler ==
    \/ /\ acknowledged' = build.spec
       /\ Finish(queued)
       /\ UNCHANGED <<cached, faults>>
    \/ Fault("handler") /\ Retry

\* The same spec is built once more.
BuildAgain ==
    /\ pc = "idle" /\ acknowledged # 0
    /\ Fault("rebuild")
    /\ acknowledged' = 0
    /\ queued' = TRUE
    /\ UNCHANGED <<sourceVars, secret, cached, pc, build, found>>
-----------------------------------------------------------------------------
(* The loops of CreateSecret over the references, and                      *)
(* resolveSecretReferences.                                                *)

\* The configuration that was read for the reference in hand.
Read(b) == world[InHand(b)][b.version]

\* The references of it that are still to be fetched.
Pending(b) == Read(b).refs \ DOMAIN b.resolved

FromBackup(b) == [source |-> "backup", version |-> b.spec]

FromObject(b) == [source |-> InHand(b), version |-> b.version]

FromCredential(b, f) == [source |-> CredentialOf[f], version |-> b.resolved[f]]

\* What may end up in field f: the reference's override, or else the value of
\* "<f>" or of "<f>_ref", whichever the map iteration visits last.
Outcomes(b, f) ==
    IF f \in Refs(b)[b.at].overrides
    THEN {FromBackup(b)}
    ELSE (IF f \in Read(b).direct THEN {FromObject(b)} ELSE {})
         \cup (IF f \in Read(b).refs THEN {FromCredential(b, f)} ELSE {})

Keys(b) == Read(b).direct \cup Read(b).refs \cup Refs(b)[b.at].overrides

Entries(b) ==
    {e \in [Keys(b) -> UNION {Outcomes(b, f) : f \in Keys(b)}] :
        \A f \in Keys(b) : e[f] \in Outcomes(b, f)}

\* Mutant: the loop runs one reference too far.
ProceedPastEnd(b) ==
    IF Pending(b) # {}
    THEN pc' = "reference" /\ build' = b
    ELSE /\ \E e \in Entries(b) :
               build' = [b EXCEPT !.at = @ + 1, !.version = 0, !.resolved = Nothing,
                                  !.model = With(@, InHand(b), e)]
         /\ pc' = IF b.at <= Len(Refs(b)) THEN "object" ELSE "get"

\* With all its references fetched the object joins the model, in place of an
\* earlier one of the same name, and the loop goes on.
Proceed(b) ==
    IF Pending(b) # {}
    THEN pc' = "reference" /\ build' = b
    ELSE /\ \E e \in Entries(b) :
               build' = [b EXCEPT !.at = @ + 1, !.version = 0, !.resolved = Nothing,
                                  !.model = With(@, InHand(b), e)]
         /\ pc' = IF b.at < Len(Refs(b)) THEN "object" ELSE "get"

GetCRD ==
    /\ pc = "object"
    /\ Found(InHand(build))
    /\ Proceed([build EXCEPT !.version = Len(world[InHand(build)])])
    /\ UNCHANGED <<sourceVars, secret, cached, acknowledged, queued, found, faults>>

CRDNotFound ==
    /\ pc = "object"
    /\ ~Found(InHand(build))
    /\ Retry
    /\ UNCHANGED <<sourceVars, secret, faults>>

\* The references of one object are fetched one by one, in any order.
resolveSecretReferences ==
    /\ pc = "reference"
    /\ \E f \in Pending(build) :
          /\ Found(CredentialOf[f])
          /\ Proceed([build EXCEPT !.resolved = With(@, f, Len(world[CredentialOf[f]]))])
    /\ UNCHANGED <<sourceVars, secret, cached, acknowledged, queued, found, faults>>

\* Mutant: a reference that cannot be resolved is left out.
SkipReference ==
    /\ pc = "reference"
    /\ \E f \in Pending(build) : ~Found(CredentialOf[f])
    /\ pc' = IF build.at < Len(Refs(build)) THEN "object" ELSE "get"
    /\ build' = [build EXCEPT !.at = @ + 1, !.version = 0, !.resolved = Nothing]
    /\ UNCHANGED <<sourceVars, secret, cached, acknowledged, queued, found, faults>>

\* The Secret is missing, or the key in it.
ReferenceNotFound ==
    /\ pc = "reference"
    /\ \E f \in Pending(build) : ~Found(CredentialOf[f])
    /\ Retry
    /\ UNCHANGED <<sourceVars, secret, faults>>
-----------------------------------------------------------------------------
(* The end of CreateSecret: get, then create or update.                    *)

GetSecret ==
    /\ pc = "get"
    /\ found' = secret
    /\ pc' = IF secret.there THEN "update" ELSE "create"
    /\ UNCHANGED <<sourceVars, secret, cached, acknowledged, queued, build, faults>>

OwnerUid == manifest[build.spec].uid

ensureOwnerReference(refs, owner) == refs \cup {owner}

\* Every owner reference here is a controller reference: the API server allows
\* at most one.
Write(owners) ==
    /\ secret' = [secret EXCEPT !.there = TRUE, !.owners = owners,
                                !.config = [spec |-> build.spec, model |-> build.model]]
    /\ RestOfHandler
    /\ UNCHANGED sourceVars

\* Mutant: the new Secret has no owner.
CreateUnowned ==
    /\ pc = "create"
    /\ ~secret.there
    /\ Write({})

Create ==
    /\ pc = "create"
    /\ ~secret.there
    /\ Write({OwnerUid})

AlreadyExists ==
    /\ pc = "create"
    /\ secret.there
    /\ Retry
    /\ UNCHANGED <<sourceVars, secret, faults>>

Update ==
    /\ pc = "update"
    /\ secret = found
    /\ LET owners == ensureOwnerReference(found.owners, OwnerUid)
       IN  Cardinality(owners) <= 1 /\ Write(owners)

\* Not found, a conflict, or a second controller.
UpdateRefused ==
    /\ pc = "update"
    /\ \/ secret # found
       \/ Cardinality(ensureOwnerReference(found.owners, OwnerUid)) > 1
    /\ Retry
    /\ UNCHANGED <<sourceVars, secret, faults>>
-----------------------------------------------------------------------------
(* Mishaps.                                                                *)

RequestFails ==
    /\ pc # "idle"
    /\ Fault("request")
    /\ Retry
    /\ UNCHANGED <<sourceVars, secret>>

OperatorRestart ==
    /\ Fault("crash")
    /\ Finish(TRUE)
    /\ cached' = Current
    /\ UNCHANGED <<sourceVars, secret, acknowledged>>

\* Someone else annotates the Secret, or creates one of that name first.
OthersWrite ==
    /\ \/ Fault("touch") /\ secret.there
       \/ Fault("occupy") /\ ~secret.there
    /\ secret' = [secret EXCEPT !.there = TRUE, !.revision = @ + 1]
    /\ UNCHANGED <<sourceVars, workerVars>>

\* The garbage collector deletes a Secret whose owners are all gone.
GcSecret ==
    /\ secret.there /\ secret.owners # {}
    /\ ~(live /\ Uid \in secret.owners)
    /\ secret' = [NoSecret EXCEPT !.revision = secret.revision]
    /\ UNCHANGED <<sourceVars, workerVars, faults>>
-----------------------------------------------------------------------------
Environment == SourcesNext /\ UNCHANGED <<secret, workerVars, faults>>

CreateSecret ==
    \/ GetCRD \/ CRDNotFound
    \/ resolveSecretReferences \/ ReferenceNotFound
    \/ GetSecret \/ Create \/ AlreadyExists \/ Update \/ UpdateRefused

Reconcile == NothingToBuild \/ Begin \/ CreateSecret

Next ==
    \/ Environment
    \/ WatchBackup \/ Reconcile \/ BuildAgain
    \/ RequestFails \/ OperatorRestart
    \/ OthersWrite \/ GcSecret

Spec == Init /\ [][Next]_vars

\* The worker runs, the watch delivers, the garbage collector collects.
\* Nothing is assumed of users and mishaps.
Fairness == WF_vars(Reconcile) /\ WF_vars(WatchBackup) /\ WF_vars(GcSecret)

FairSpec == Spec /\ Fairness
-----------------------------------------------------------------------------
(* What CreateSecret promises.                                             *)

Contract == INSTANCE ConfigContract WITH
    building <- [spec |-> build.spec, since |-> build.since],
    config   <- secret.config

\* The Secret is only ever written whole, from one build: every object in it is
\* one version of that object, and every value was its source's during that
\* build; no older spec replaces a newer one, and no failed build leaves a trace.
ImplementsConfigContract == Contract!Spec

\* Everything the newest spec refers to is there.
Complete ==
    \A i \in DOMAIN Newest(manifest).refs :
        LET o == Newest(manifest).refs[i].name
        IN  Found(o) /\ \A f \in Newest(world[o]).refs : Found(CredentialOf[f])

Delivered ==
    /\ secret.there
    /\ secret.config.spec = Len(manifest)
    /\ secret.owners = {Uid}

\* A Backup that stays, with sources that are there, gets its Secret and keeps
\* it, although an earlier Backup of that name left one, somebody else created
\* it, or a source came late (the error returns, ensureOwnerReference).
EventuallyDelivered == <>[](live /\ Complete) => <>[]Delivered

\* No configuration outlives its Backup, even one written after the Backup was
\* deleted (the owner reference set on both paths).
EventuallyCollected == <>[]~live => <>[](secret.config.spec = 0)
=============================================================================
