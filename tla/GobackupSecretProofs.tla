------------------------ MODULE GobackupSecretProofs ------------------------
(***************************************************************************)
(* What holds of the config Secret builder for every value of the          *)
(* constants: any databases, storages, credentials and configurations, any *)
(* number of edits, versions, lives of the Backup and faults.              *)
(***************************************************************************)
EXTENDS GobackupSecret, TLAPS, FiniteSetTheorems
-----------------------------------------------------------------------------
(* Maps.                                                                   *)

LEMMA NothingIsMap ==
    ASSUME NEW S, NEW T
    PROVE  IsMap(Nothing, S, T)
BY DEF IsMap, Nothing

LEMMA WithIsMap ==
    ASSUME NEW S, NEW T, NEW m, IsMap(m, S, T), NEW k \in S, NEW x \in T
    PROVE  IsMap(With(m, k, x), S, T)
BY DEF IsMap, With

LEMMA NothingIsModel == IsModel(Nothing)
BY DEF IsModel, Nothing

LEMMA WithIsModel ==
    ASSUME NEW m, IsModel(m), NEW o \in Objects, NEW e, IsMap(e, Fields, Value)
    PROVE  IsModel(With(m, o, e))
BY DEF IsModel, With
-----------------------------------------------------------------------------
(* The sources.                                                            *)

LEMMA ConfigTypes ==
    /\ Absent \in Config
    /\ Opaque \in Config
    /\ \A s \in Sources : Contents(s) \subseteq Config
<1>1. Absent \in Config /\ Opaque \in Config
  BY DEF Absent, Opaque, Config
<1>2. \A o \in Objects : Configs[o] \subseteq Config
  BY SourcesAssumption
<1> QED
  BY <1>1, <1>2 DEF Contents

LEMMA RefTypes ==
    ASSUME NEW r \in Ref
    PROVE  r.name \in Objects /\ r.overrides \subseteq Fields
BY DEF Ref, DatabaseRef, StorageRef, Objects

\* A Backup that gets as far as CreateSecret has references.
LEMMA SpecTypes ==
    ASSUME NEW refs \in Specs
    PROVE  refs \in Seq(Ref) /\ Len(refs) \in Nat /\ Len(refs) >= 1
<1>1. refs \in Seq(Ref) /\ Valid(refs)
  BY SourcesAssumption
<1>2. PICK k \in 1 .. (Len(refs) - 1) : TRUE
  BY <1>1 DEF Valid
<1> QED
  BY <1>1, <1>2

LEMMA ElementType ==
    ASSUME NEW T, NEW s \in Seq(T), NEW n \in DOMAIN s
    PROVE  s[n] \in T
OBVIOUS

LEMMA NewestType ==
    ASSUME NEW T, NEW s \in Seq(T), s # <<>>
    PROVE  Len(s) \in DOMAIN s /\ Newest(s) \in T
<1>1. Len(s) \in Nat /\ Len(s) # 0 /\ DOMAIN s = 1 .. Len(s)
  OBVIOUS
<1> QED
  BY <1>1 DEF Newest

\* Specs and versions are only ever added.
Grows ==
    /\ Len(manifest') >= Len(manifest)
    /\ \A n \in DOMAIN manifest : n \in DOMAIN manifest' /\ manifest'[n] = manifest[n]
    /\ \A s \in Sources :
          /\ Len(world'[s]) >= Len(world[s])
          /\ \A v \in DOMAIN world[s] : v \in DOMAIN world'[s] /\ world'[s][v] = world[s][v]

LEMMA SourcesKept ==
    ASSUME SourcesTypeOK, SourcesNext
    PROVE  SourcesTypeOK' /\ Grows
<1> USE DEF SourcesTypeOK
<1>1. CASE ApplyBackup
  <2>1. PICK refs \in Specs :
            manifest' = Append(manifest, [uid |-> IF live THEN Uid ELSE Uid + 1, refs |-> refs])
    BY <1>1 DEF ApplyBackup
  <2>2. Uid \in Nat
    <3>1. Newest(manifest) \in [uid: Nat, refs: Specs]
      BY NewestType
    <3> QED
      BY <3>1 DEF Uid
  <2>3. world' = world /\ live' = TRUE
    BY <1>1 DEF ApplyBackup
  <2> QED
    BY <2>1, <2>2, <2>3 DEF Grows
<1>2. CASE DeleteBackup
  <2>1. manifest' = manifest /\ world' = world /\ live' = FALSE
    BY <1>2 DEF DeleteBackup
  <2>2. Grows
    BY <2>1 DEF Grows
  <2> QED
    BY <2>1, <2>2
<1>3. CASE \E s \in Sources : ChangeSource(s)
  <2>1. PICK s \in Sources, c \in Config : world' = [world EXCEPT ![s] = Append(@, c)]
    BY <1>3, ConfigTypes DEF ChangeSource
  <2>2. manifest' = manifest /\ live' = live
    BY <1>3 DEF ChangeSource
  <2>3. world[s] \in Seq(Config) \ {<<>>} /\ Append(world[s], c) \in Seq(Config) \ {<<>>}
    BY <2>1
  <2>4. world' \in [Sources -> Seq(Config) \ {<<>>}]
    BY <2>1, <2>3
  <2>5. \A t \in Sources : world'[t] = IF t = s THEN Append(world[s], c) ELSE world[t]
    BY <2>1
  <2> QED
    BY <2>1, <2>2, <2>3, <2>4, <2>5 DEF Grows
<1> QED
  BY <1>1, <1>2, <1>3 DEF SourcesNext
-----------------------------------------------------------------------------
(* Type correctness.                                                       *)

LEMMA NoTypes == SecretOK(NoSecret) /\ BuildOK(NoBuild)
<1>1. NoBuild.since \in [Sources -> Nat]
  BY DEF NoBuild
<1> QED
  BY <1>1, NothingIsModel, NothingIsMap DEF SecretOK, BuildOK, NoSecret, NoBuild

LEMMA RefsType ==
    ASSUME SourcesTypeOK, NEW b, b.spec \in DOMAIN manifest
    PROVE  /\ Refs(b) \in Seq(Ref)
           /\ Len(Refs(b)) \in Nat /\ Len(Refs(b)) >= 1
<1>1. manifest[b.spec] \in [uid: Nat, refs: Specs]
  BY ElementType DEF SourcesTypeOK
<1> QED
  BY <1>1, SpecTypes DEF Refs

\* The entry of a finished object holds values for fields.
LEMMA EntryTypes ==
    ASSUME NEW b, BuildOK(b), SourcesTypeOK, b.spec \in DOMAIN manifest,
           b.at \in DOMAIN Refs(b), b.version \in DOMAIN world[InHand(b)],
           Pending(b) = {}, NEW e \in Entries(b)
    PROVE  InHand(b) \in Objects /\ IsMap(e, Fields, Value)
<1>1. Refs(b) \in Seq(Ref) /\ Refs(b)[b.at] \in Ref
  BY RefsType
<1>2. InHand(b) \in Objects /\ Refs(b)[b.at].overrides \subseteq Fields
  BY <1>1, RefTypes DEF InHand
<1>3. Read(b) \in Config
  BY <1>2 DEF Read, SourcesTypeOK, Sources
<1>4. Keys(b) \subseteq Fields
  BY <1>2, <1>3 DEF Keys, Config
<1>5. \A f \in Keys(b) : Outcomes(b, f) \subseteq Value
  <2> SUFFICES ASSUME NEW f \in Keys(b) PROVE Outcomes(b, f) \subseteq Value
    OBVIOUS
  <2>1. FromBackup(b) \in Value
    BY DEF FromBackup, Value, BuildOK
  <2>2. FromObject(b) \in Value
    BY <1>2 DEF FromObject, Value, BuildOK, Sources
  <2>3. f \in Read(b).refs => FromCredential(b, f) \in Value
    <3> SUFFICES ASSUME f \in Read(b).refs PROVE FromCredential(b, f) \in Value
      OBVIOUS
    <3>1. f \in DOMAIN b.resolved /\ b.resolved[f] \in Nat
      BY DEF Pending, BuildOK, IsMap
    <3>2. CredentialOf[f] \in Credentials
      BY <1>4, SourcesAssumption
    <3> QED
      BY <3>1, <3>2 DEF FromCredential, Value, Sources
  <2> QED
    BY <2>1, <2>2, <2>3 DEF Outcomes, Keys
<1> QED
  BY <1>2, <1>4, <1>5 DEF Entries, IsMap

\* The part of TypeOK that a step of the loops can break.
LoopOK ==
    /\ BuildOK(build)
    /\ pc # "idle" => build.spec \in DOMAIN manifest
    /\ pc \in {"object", "reference"} => build.at \in DOMAIN Refs(build)
    /\ pc = "reference" => build.version \in DOMAIN world[InHand(build)]

LEMMA ProceedTypes ==
    ASSUME NEW b, BuildOK(b), SourcesTypeOK, b.spec \in DOMAIN manifest,
           b.at \in DOMAIN Refs(b), b.version \in DOMAIN world[InHand(b)],
           Proceed(b), UNCHANGED sourceVars
    PROVE  LoopOK' /\ pc' \in {"object", "reference", "get"}
<1>1. Refs(b) \in Seq(Ref)
  BY RefsType
<1>2. CASE Pending(b) # {}
  <2>1. pc' = "reference" /\ build' = b
    BY <1>2 DEF Proceed
  <2> QED
    BY <2>1 DEF LoopOK, sourceVars, Refs, InHand
<1>3. CASE Pending(b) = {}
  <2>1. PICK e \in Entries(b) :
            build' = [b EXCEPT !.at = @ + 1, !.version = 0, !.resolved = Nothing,
                               !.model = With(@, InHand(b), e)]
    BY <1>3 DEF Proceed
  <2>2. pc' = IF b.at < Len(Refs(b)) THEN "object" ELSE "get"
    BY <1>3 DEF Proceed
  <2>3. IsModel(With(b.model, InHand(b), e))
    BY <1>3, EntryTypes, WithIsModel DEF BuildOK
  <2>. DEFINE next == [spec |-> b.spec, since |-> b.since, at |-> b.at + 1, version |-> 0,
                      resolved |-> Nothing, model |-> With(b.model, InHand(b), e)]
  <2>5. build' = next
    BY <2>1 DEF BuildOK
  <2>4. BuildOK(build')
    BY <2>3, <2>5, NothingIsMap DEF BuildOK
  <2>6. pc' = "object" => build'.at \in DOMAIN Refs(b)
    BY <1>1, <2>2, <2>5 DEF BuildOK
  <2> QED
    BY <2>2, <2>4, <2>5, <2>6 DEF LoopOK, sourceVars, Refs
<1> QED
  BY <1>2, <1>3

\* Once CreateSecret is over only the reconciler's own variables have changed.
LEMMA FinishTypes ==
    ASSUME TypeOK, NEW again \in BOOLEAN, Finish(again),
           acknowledged' \in Nat, cached' \in 0 .. Len(manifest), faults' \in Nat,
           SecretOK(secret'), UNCHANGED sourceVars
    PROVE  TypeOK'
BY NoTypes DEF TypeOK, Finish, sourceVars, SourcesTypeOK

LEMMA FaultType ==
    ASSUME TypeOK, NEW kind, Fault(kind)
    PROVE  faults' \in Nat
BY DEF TypeOK, Fault

LEMMA WriteTypes ==
    ASSUME TypeOK, pc # "idle", NEW owners \in SUBSET Nat, Write(owners)
    PROVE  TypeOK'
<1>1. SecretOK(secret')
  <2>. DEFINE config == [spec |-> build.spec, model |-> build.model]
  <2>1. secret' = [there |-> TRUE, revision |-> secret.revision, owners |-> owners,
                   config |-> config]
    BY DEF Write, TypeOK, SecretOK
  <2>2. config.spec \in Nat /\ IsModel(config.model)
    BY DEF TypeOK, BuildOK
  <2>3. secret.revision \in Nat
    BY DEF TypeOK, SecretOK
  <2> QED
    BY <2>1, <2>2, <2>3 DEF SecretOK
<1>2. UNCHANGED sourceVars /\ RestOfHandler
  BY DEF Write
<1>3. CASE acknowledged' = build.spec /\ Finish(queued) /\ UNCHANGED <<cached, faults>>
  BY <1>1, <1>2, <1>3, FinishTypes DEF TypeOK, BuildOK
<1>4. CASE Fault("handler") /\ Retry
  <2>1. faults' \in Nat
    BY <1>4, FaultType
  <2> QED
    BY <1>1, <1>2, <1>4, <2>1, FinishTypes DEF TypeOK, Retry
<1> QED
  BY <1>2, <1>3, <1>4 DEF RestOfHandler

LEMMA OwnerUidType ==
    ASSUME TypeOK, pc # "idle"
    PROVE  OwnerUid \in Nat
<1>1. manifest[build.spec] \in [uid: Nat, refs: Specs]
  BY ElementType DEF TypeOK, SourcesTypeOK
<1> QED
  BY <1>1 DEF OwnerUid

\* A step of the loops changes nothing but the locals and where it is.
LEMMA LoopTypes ==
    ASSUME TypeOK, LoopOK', pc' \in {"object", "reference", "get"},
           UNCHANGED <<sourceVars, secret, cached, acknowledged, queued, found, faults>>
    PROVE  TypeOK'
BY DEF TypeOK, LoopOK, sourceVars, SourcesTypeOK, SecretOK

LEMMA FoundInDomain ==
    ASSUME SourcesTypeOK, NEW s \in Sources
    PROVE  Len(world[s]) \in DOMAIN world[s] /\ Len(world[s]) \in Nat
<1>1. world[s] \in Seq(Config) /\ world[s] # <<>>
  BY DEF SourcesTypeOK
<1> QED
  BY <1>1, NewestType

LEMMA InitTypes == Init => TypeOK
<1> SUFFICES ASSUME Init PROVE TypeOK
  OBVIOUS
<1>1. SourcesTypeOK
  <2>1. PICK refs \in Specs : manifest = <<[uid |-> 1, refs |-> refs]>>
    BY DEF Init, SourcesInit
  <2>2. \A s \in Sources : world[s] \in Seq(Config) \ {<<>>}
    <3> SUFFICES ASSUME NEW s \in Sources PROVE world[s] \in Seq(Config) \ {<<>>}
      OBVIOUS
    <3>1. PICK c : world[s] = <<c>>
      BY DEF Init, SourcesInit
    <3>2. world[s][1] \in Contents(s)
      BY DEF Init, SourcesInit
    <3>3. c \in Config
      BY <3>1, <3>2, ConfigTypes
    <3> QED
      BY <3>1, <3>3
  <2> QED
    BY <2>1, <2>2 DEF Init, SourcesInit, SourcesTypeOK
<1>2. Len(manifest) \in Nat
  BY <1>1 DEF SourcesTypeOK
<1>3. pc = "idle" /\ secret = NoSecret /\ build = NoBuild /\ found = NoSecret
  BY DEF Init
<1>4. cached = 0 /\ acknowledged = 0 /\ queued = FALSE /\ faults = 0
  BY DEF Init
<1>5. SecretOK(secret) /\ BuildOK(build) /\ SecretOK(found)
  BY <1>3, NoTypes
<1>6. pc \in {"idle"} /\ cached \in 0 .. Len(manifest) /\ acknowledged \in Nat
  BY <1>2, <1>3, <1>4
<1> QED
  BY <1>1, <1>4, <1>5, <1>6 DEF TypeOK

LEMMA NextTypes == TypeOK /\ [Next]_vars => TypeOK'
<1> SUFFICES ASSUME TypeOK, [Next]_vars PROVE TypeOK'
  OBVIOUS
<1>0. SourcesTypeOK /\ BuildOK(build) /\ SecretOK(secret) /\ SecretOK(found) /\ Len(manifest) \in Nat
  BY DEF TypeOK, SourcesTypeOK
<1>1. CASE Environment
  <2>1. SourcesTypeOK' /\ Grows
    BY <1>0, <1>1, SourcesKept DEF Environment
  <2>2. UNCHANGED <<secret, workerVars, faults>>
    BY <1>1 DEF Environment
  <2>3. pc # "idle" => Refs(build)' = Refs(build)
    BY <2>1, <2>2 DEF Grows, TypeOK, Refs, workerVars
  <2>4. pc = "reference" => build.version \in DOMAIN world'[InHand(build)]
    <3> SUFFICES ASSUME pc = "reference" PROVE build.version \in DOMAIN world'[InHand(build)]
      OBVIOUS
    <3>1. Refs(build) \in Seq(Ref) /\ build.at \in DOMAIN Refs(build)
      BY <1>0, RefsType DEF TypeOK
    <3>2. Refs(build)[build.at] \in Ref
      BY <3>1, ElementType
    <3>3. InHand(build) \in Sources
      BY <3>2, RefTypes DEF InHand, Sources
    <3> QED
      BY <2>1, <3>3 DEF Grows, TypeOK
  <2>5. pc = "reference" => InHand(build)' = InHand(build)
    BY <2>2, <2>3 DEF InHand, workerVars
  <2>6. Len(manifest') \in Nat
    BY <2>1 DEF SourcesTypeOK
  <2>7. cached \in 0 .. Len(manifest') /\ (pc # "idle" => build.spec \in DOMAIN manifest')
    BY <1>0, <2>1, <2>6 DEF TypeOK, Grows
  <2>8. UNCHANGED <<cached, acknowledged, queued, pc, build, found>>
    BY <2>2 DEF workerVars
  <2>9. SecretOK(secret') /\ SecretOK(found') /\ BuildOK(build')
    BY <1>0, <2>2, <2>8
  <2> QED
    BY <2>1, <2>2, <2>3, <2>4, <2>5, <2>7, <2>8, <2>9 DEF TypeOK
<1>2. CASE WatchBackup
  <2>1. Current \in 0 .. Len(manifest)
    BY <1>0 DEF Current
  <2> QED
    BY <1>2, <2>1 DEF WatchBackup, TypeOK, sourceVars, SourcesTypeOK, Refs, InHand
<1>3. CASE NothingToBuild
  BY <1>0, <1>3, FinishTypes DEF NothingToBuild, TypeOK
<1>4. CASE Begin
  <2>1. Now \in [Sources -> Nat]
    BY <1>0, FoundInDomain DEF Now
  <2>2. cached \in DOMAIN manifest /\ cached \in Nat
    BY <1>0, <1>4 DEF Begin, TypeOK, SourcesTypeOK
  <2>3. build' = [spec |-> cached, since |-> Now, at |-> 1, version |-> 0,
                  resolved |-> Nothing, model |-> Nothing]
    BY <1>4 DEF Begin, NoBuild
  <2>4. BuildOK(build')
    BY <2>1, <2>2, <2>3, NothingIsMap, NothingIsModel DEF BuildOK
  <2>5. manifest' = manifest /\ world' = world /\ live' = live /\ pc' = "object"
        /\ UNCHANGED <<secret, cached, acknowledged, found, faults>> /\ queued' = FALSE
    BY <1>4 DEF Begin, sourceVars
  <2>6. build'.spec \in DOMAIN manifest
    BY <2>2, <2>3
  <2>7. build'.at \in DOMAIN Refs(build')
    BY <1>0, <2>3, <2>6, RefsType
  <2>8. Refs(build)' = Refs(build')
    BY <2>5 DEF Refs
  <2> QED
    BY <2>4, <2>5, <2>6, <2>7, <2>8 DEF TypeOK, SourcesTypeOK
<1>5. CASE GetCRD
  <2>1. InHand(build) \in Sources
    <3>1. Refs(build) \in Seq(Ref) /\ build.at \in DOMAIN Refs(build)
      BY <1>0, <1>5, RefsType DEF TypeOK, GetCRD
    <3>2. Refs(build)[build.at] \in Ref
      BY <3>1, ElementType
    <3> QED
      BY <3>2, RefTypes DEF InHand, Sources
  <2>. DEFINE v == Len(world[InHand(build)])
  <2>. DEFINE b == [build EXCEPT !.version = v]
  <2>2. v \in Nat /\ v \in DOMAIN world[InHand(build)]
    BY <1>0, <2>1, FoundInDomain
  <2>3. BuildOK(b) /\ b.spec = build.spec /\ b.at = build.at /\ b.version = v
    BY <1>0, <2>2 DEF BuildOK
  <2>4. Proceed(b) /\ UNCHANGED sourceVars
    BY <1>5 DEF GetCRD
  <2>5. LoopOK' /\ pc' \in {"object", "reference", "get"}
    BY <1>0, <1>5, <2>2, <2>3, <2>4, ProceedTypes DEF TypeOK, GetCRD, Refs, InHand
  <2> QED
    BY <1>5, <2>5, LoopTypes DEF GetCRD
<1>6. CASE CRDNotFound
  BY <1>0, <1>6, FinishTypes DEF CRDNotFound, Retry, TypeOK
<1>7. CASE resolveSecretReferences
  <2>1. PICK f \in Pending(build) :
            Proceed([build EXCEPT !.resolved = With(@, f, Len(world[CredentialOf[f]]))])
    BY <1>7 DEF resolveSecretReferences
  <2>. DEFINE v == Len(world[CredentialOf[f]])
  <2>. DEFINE b == [build EXCEPT !.resolved = With(@, f, v)]
  <2>2. f \in Fields
    <3>1. Refs(build) \in Seq(Ref) /\ build.at \in DOMAIN Refs(build)
      BY <1>0, <1>7, RefsType DEF TypeOK, resolveSecretReferences
    <3>2. Refs(build)[build.at] \in Ref
      BY <3>1, ElementType
    <3>3. InHand(build) \in Sources
      BY <3>2, RefTypes DEF InHand, Sources
    <3>4. Read(build) \in Config
      BY <1>7, <3>3 DEF Read, TypeOK, SourcesTypeOK, resolveSecretReferences
    <3> QED
      BY <3>4 DEF Pending, Config
  <2>3. v \in Nat
    BY <1>0, <2>2, SourcesAssumption, FoundInDomain DEF Sources
  <2>4. BuildOK(b) /\ b.spec = build.spec /\ b.at = build.at /\ b.version = build.version
    BY <1>0, <2>2, <2>3, WithIsMap DEF BuildOK
  <2>5. LoopOK' /\ pc' \in {"object", "reference", "get"}
    BY <1>0, <1>7, <2>1, <2>4, ProceedTypes DEF TypeOK, resolveSecretReferences, Refs, InHand, sourceVars
  <2> QED
    BY <1>7, <2>5, LoopTypes DEF resolveSecretReferences
<1>8. CASE ReferenceNotFound
  BY <1>0, <1>8, FinishTypes DEF ReferenceNotFound, Retry, TypeOK
<1>9. CASE GetSecret
  BY <1>0, <1>9 DEF GetSecret, TypeOK, sourceVars, SourcesTypeOK, Refs, InHand
<1>10. CASE Create
  BY <1>10, WriteTypes, OwnerUidType DEF Create
<1>11. CASE AlreadyExists
  BY <1>0, <1>11, FinishTypes DEF AlreadyExists, Retry, TypeOK
<1>12. CASE Update
  <2>1. pc # "idle"
    BY <1>12 DEF Update
  <2>2. found.owners \cup {OwnerUid} \in SUBSET Nat
    BY <1>0, <2>1, OwnerUidType DEF SecretOK
  <2> QED
    BY <1>12, <2>1, <2>2, WriteTypes DEF Update, ensureOwnerReference
<1>13. CASE UpdateRefused
  BY <1>0, <1>13, FinishTypes DEF UpdateRefused, Retry, TypeOK
<1>14. CASE BuildAgain
  <2>1. faults' \in Nat
    BY <1>14, FaultType DEF BuildAgain
  <2> QED
    BY <1>0, <1>14, <2>1 DEF BuildAgain, TypeOK, sourceVars, SourcesTypeOK, Refs, InHand
<1>15. CASE RequestFails
  <2>1. faults' \in Nat
    BY <1>15, FaultType DEF RequestFails
  <2> QED
    BY <1>0, <1>15, <2>1, FinishTypes DEF RequestFails, Retry, TypeOK
<1>16. CASE OperatorRestart
  <2>1. faults' \in Nat /\ Current \in 0 .. Len(manifest)
    BY <1>0, <1>16, FaultType DEF OperatorRestart, Current
  <2> QED
    BY <1>0, <1>16, <2>1, FinishTypes DEF OperatorRestart, TypeOK
<1>17. CASE OthersWrite
  <2>1. faults' \in Nat
    BY <1>17, FaultType DEF OthersWrite
  <2>2. secret' = [there |-> TRUE, revision |-> secret.revision + 1,
                   owners |-> secret.owners, config |-> secret.config]
    BY <1>0, <1>17 DEF OthersWrite, SecretOK
  <2>3. SecretOK(secret')
    BY <1>0, <2>2 DEF SecretOK
  <2> QED
    BY <1>0, <1>17, <2>1, <2>3
    DEF OthersWrite, TypeOK, sourceVars, workerVars, SourcesTypeOK, Refs, InHand
<1>18. CASE GcSecret
  <2>1. secret' = [there |-> FALSE, revision |-> secret.revision,
                   owners |-> {}, config |-> [spec |-> 0, model |-> Nothing]]
    BY <1>18 DEF GcSecret, NoSecret
  <2>2. SecretOK(secret')
    BY <1>0, <2>1, NothingIsModel DEF SecretOK
  <2> QED
    BY <1>0, <1>18, <2>2
    DEF GcSecret, TypeOK, sourceVars, workerVars, SourcesTypeOK, Refs, InHand
<1>19. CASE UNCHANGED vars
  BY <1>0, <1>19 DEF vars, TypeOK, sourceVars, workerVars, SourcesTypeOK, Refs, InHand
<1> QED
  BY <1>1, <1>2, <1>3, <1>4, <1>5, <1>6, <1>7, <1>8, <1>9, <1>10, <1>11, <1>12, <1>13,
     <1>14, <1>15, <1>16, <1>17, <1>18, <1>19 DEF Next, Reconcile, CreateSecret

\* Type correctness: the references, versions and fields that CreateSecret has
\* in hand are there, whatever users change under it (the loops of CreateSecret).
THEOREM SecretTypeCorrect == Spec => []TypeOK
BY InitTypes, NextTypes, PTL DEF Spec
-----------------------------------------------------------------------------
(* The contract: the inductive invariant.                                  *)

\* The locals of CreateSecret are set up exactly while it runs.
SinceInv ==
    /\ pc = "idle" => build = NoBuild
    /\ pc # "idle" => \A s \in Sources : build.since[s] \in 1 .. Len(world[s])

\* What has been read for the object in hand existed during the build.
ReadInv ==
    /\ pc = "object" => build.resolved = Nothing
    /\ pc = "reference" =>
          /\ build.version \in Contract!Seen(InHand(build))
          /\ \A f \in DOMAIN build.resolved :
                build.resolved[f] \in Contract!Seen(CredentialOf[f])

\* The entry of o comes from its last reference among the first n.
EntryInv(o, n) ==
    \E i \in 1 .. n :
        /\ Refs(build)[i].name = o
        /\ \A k \in (i + 1) .. n : Refs(build)[k].name # o
        /\ \E v \in Contract!Seen(o) :
              Contract!Explains(build.model[o], o, v, Refs(build)[i].overrides)

\* The model holds the objects of the references done so far.
ModelInv ==
    pc # "idle" =>
        /\ build.at \in 1 .. (Len(Refs(build)) + 1)
        /\ pc \in {"get", "create", "update"} => build.at = Len(Refs(build)) + 1
        /\ DOMAIN build.model = {Refs(build)[i].name : i \in 1 .. (build.at - 1)}
        /\ \A o \in DOMAIN build.model : EntryInv(o, build.at - 1)

\* The Secret, the build and the cache see the specs in this order.
OrderInv ==
    /\ secret.config.spec <= Len(manifest)
    /\ cached # 0 => secret.config.spec <= cached
    /\ pc # "idle" =>
          /\ secret.config.spec <= build.spec
          /\ cached # 0 => build.spec <= cached

\* A configuration belongs to the Backup it was built from, and to no other.
OwnerInv ==
    /\ secret.config.spec = 0 => secret.owners = {} /\ secret.config.model = Nothing
    /\ secret.config.spec # 0 => secret.owners = {manifest[secret.config.spec].uid}

\* The inductive invariant behind the contract.
SecretInv == SinceInv /\ ReadInv /\ ModelInv /\ OrderInv /\ OwnerInv

-----------------------------------------------------------------------------
(* What was seen during a build stays seen, and explains what it did.      *)

\* The build goes on, with the spec and the start it had.
Continues ==
    /\ Grows
    /\ build'.spec = build.spec /\ build'.since = build.since
    /\ build.spec \in DOMAIN manifest
    /\ \A s \in Sources : build.since[s] \in 1 .. Len(world[s])

LEMMA SourcesSame ==
    ASSUME SourcesTypeOK, UNCHANGED sourceVars
    PROVE  Grows
<1>1. manifest' = manifest /\ world' = world
  BY DEF sourceVars
<1>2. Len(manifest) \in Nat
  BY DEF SourcesTypeOK
<1>3. \A s \in Sources : Len(world[s]) \in Nat
  BY FoundInDomain
<1> QED
  BY <1>1, <1>2, <1>3 DEF Grows

LEMMA SeenStays ==
    ASSUME SourcesTypeOK, SourcesTypeOK', Continues, NEW s \in Sources, NEW v \in Contract!Seen(s)
    PROVE  /\ v \in Contract!Seen(s)'
           /\ v \in Nat /\ v \in DOMAIN world[s]
           /\ world[s][v] \in Config /\ world'[s][v] = world[s][v]
<1>1. v \in build.since[s] .. Len(world[s]) /\ world[s][v].there
  BY DEF Contract!Seen
<1>2. world[s] \in Seq(Config) /\ Len(world[s]) \in Nat /\ Len(world'[s]) \in Nat
  BY DEF SourcesTypeOK
<1>3. build.since[s] \in 1 .. Len(world[s])
  BY DEF Continues
<1>4. v \in Nat /\ v \in DOMAIN world[s]
  BY <1>1, <1>2, <1>3
<1>5. world[s][v] \in Config
  BY <1>2, <1>4, ElementType
<1>6. Len(world'[s]) >= Len(world[s]) /\ world'[s][v] = world[s][v]
  BY <1>4 DEF Continues, Grows
<1>7. v \in build'.since[s] .. Len(world'[s]) /\ world'[s][v].there
  BY <1>1, <1>2, <1>3, <1>4, <1>6 DEF Continues
<1> QED
  BY <1>4, <1>5, <1>6, <1>7 DEF Contract!Seen

LEMMA ExplainsStays ==
    ASSUME SourcesTypeOK, SourcesTypeOK', Continues,
           NEW o \in Objects, NEW v \in Contract!Seen(o), NEW entry, NEW overrides,
           Contract!Explains(entry, o, v, overrides)
    PROVE  v \in Contract!Seen(o)' /\ Contract!Explains(entry, o, v, overrides)'
<1>1. /\ v \in Contract!Seen(o)'
      /\ world[o][v] \in Config /\ world'[o][v] = world[o][v]
  BY SeenStays DEF Sources
<1>2. ASSUME NEW f \in DOMAIN entry, Contract!Given(entry[f], o, v, f)
      PROVE  Contract!Given(entry[f], o, v, f)'
  <2>1. CASE f \in world[o][v].direct /\ entry[f] = [source |-> o, version |-> v]
    BY <1>1, <2>1 DEF Contract!Given
  <2>2. CASE /\ f \in world[o][v].refs
             /\ entry[f].source = CredentialOf[f]
             /\ entry[f].version \in Contract!Seen(CredentialOf[f])
    <3>1. CredentialOf[f] \in Sources
      BY <1>1, <2>2, SourcesAssumption DEF Config, Sources
    <3>2. entry[f].version \in Contract!Seen(CredentialOf[f])'
      BY <2>2, <3>1, SeenStays
    <3> QED
      BY <1>1, <2>2, <3>2 DEF Contract!Given
  <2> QED
    BY <1>2, <2>1, <2>2 DEF Contract!Given
<1>3. DOMAIN entry = world'[o][v].direct \cup world'[o][v].refs \cup overrides
  BY <1>1 DEF Contract!Explains
<1>4. ASSUME NEW f \in DOMAIN entry
      PROVE  IF f \in overrides
             THEN entry[f] = [source |-> "backup", version |-> build'.spec]
             ELSE Contract!Given(entry[f], o, v, f)'
  BY <1>2 DEF Contract!Explains, Continues
<1> QED
  BY <1>1, <1>3, <1>4 DEF Contract!Explains

\* The copy of the Backup is the same at the next step.
LEMMA RefsStay ==
    ASSUME SourcesTypeOK, SourcesTypeOK', Continues
    PROVE  /\ Refs(build)' = Refs(build)
           /\ Refs(build) \in Seq(Ref) /\ Len(Refs(build)) \in Nat /\ Len(Refs(build)) >= 1
           /\ \A i \in DOMAIN Refs(build) :
                 Refs(build)[i] \in Ref /\ Refs(build)[i].name \in Objects
<1>1. manifest'[build'.spec] = manifest[build.spec]
  BY DEF Continues, Grows
<1>2. Refs(build)' = Refs(build)
  BY <1>1 DEF Refs
<1>3. /\ Refs(build) \in Seq(Ref)
      /\ Len(Refs(build)) \in Nat /\ Len(Refs(build)) >= 1
  BY RefsType DEF Continues
<1>4. \A i \in DOMAIN Refs(build) : Refs(build)[i] \in Ref
  BY <1>3, ElementType
<1> QED
  BY <1>2, <1>3, <1>4, RefTypes

\* An entry stays explained, and also by a longer list that does not name it.
LEMMA EntryStays ==
    ASSUME SourcesTypeOK, SourcesTypeOK', Continues,
           NEW n \in Nat, n <= Len(Refs(build)), NEW m \in {n, n + 1}, NEW o, EntryInv(o, n),
           m = n + 1 => Refs(build)[m].name # o,
           build'.model[o] = build.model[o]
    PROVE  EntryInv(o, m)'
<1>1. PICK i \in 1 .. n :
          /\ Refs(build)[i].name = o
          /\ \A k \in (i + 1) .. n : Refs(build)[k].name # o
          /\ \E v \in Contract!Seen(o) :
                Contract!Explains(build.model[o], o, v, Refs(build)[i].overrides)
  BY DEF EntryInv
<1>2. PICK v \in Contract!Seen(o) :
          Contract!Explains(build.model[o], o, v, Refs(build)[i].overrides)
  BY <1>1
<1>3. /\ Refs(build)' = Refs(build) /\ Refs(build) \in Seq(Ref) /\ Len(Refs(build)) \in Nat
      /\ \A j \in DOMAIN Refs(build) : Refs(build)[j].name \in Objects
  BY RefsStay
<1>4. i \in DOMAIN Refs(build)
  BY <1>3
<1>5. o \in Objects
  BY <1>1, <1>3, <1>4
<1>6. /\ v \in Contract!Seen(o)'
      /\ Contract!Explains(build.model[o], o, v, Refs(build)[i].overrides)'
  <2>. DEFINE entry == build.model[o]
  <2>. DEFINE overrides == Refs(build)[i].overrides
  <2>1. Contract!Explains(entry, o, v, overrides)
    BY <1>2
  <2>2. entry' = entry /\ overrides' = overrides
    BY <1>3
  <2>. HIDE DEF entry, overrides
  <2>3. \A e, w : Contract!Explains(e, o, v, w)
            => v \in Contract!Seen(o)' /\ (e = entry' /\ w = overrides' => Contract!Explains(entry, o, v, overrides)')
    <3> SUFFICES ASSUME NEW e, NEW w, Contract!Explains(e, o, v, w)
                 PROVE  v \in Contract!Seen(o)' /\ (e = entry' /\ w = overrides' => Contract!Explains(entry, o, v, overrides)')
      OBVIOUS
    <3>1. v \in Contract!Seen(o)' /\ Contract!Explains(e, o, v, w)'
      BY <1>5, <1>2, ExplainsStays
    <3> QED
      BY <3>1 DEF Contract!Explains
  <2> QED
    BY <2>1, <2>2, <2>3 DEF entry, overrides
<1>7. i \in 1 .. m /\ \A k \in (i + 1) .. m : Refs(build)[k].name # o
  BY <1>1
<1> QED
  BY <1>1, <1>3, <1>6, <1>7 DEF EntryInv

\* What the loop makes of an object is one version of it, with each reference
\* resolved to a version of its credential.
LEMMA EntryExplained ==
    ASSUME SourcesTypeOK, NEW b, b.spec = build.spec,
           Pending(b) = {}, NEW e \in Entries(b),
           \A f \in DOMAIN b.resolved : b.resolved[f] \in Contract!Seen(CredentialOf[f])
    PROVE  Contract!Explains(e, InHand(b), b.version, Refs(b)[b.at].overrides)
<1>1. /\ DOMAIN e = Keys(b)
      /\ \A f \in Keys(b) : e[f] \in Outcomes(b, f)
  BY DEF Entries
<1>2. ASSUME NEW f \in Keys(b), f \in Refs(b)[b.at].overrides
      PROVE  e[f] = [source |-> "backup", version |-> build.spec]
  BY <1>1, <1>2 DEF Outcomes, FromBackup
<1>3. ASSUME NEW f \in Keys(b), f \notin Refs(b)[b.at].overrides
      PROVE  Contract!Given(e[f], InHand(b), b.version, f)
  <2>1. f \in Read(b).direct \cup Read(b).refs
    BY <1>3 DEF Keys
  <2>2. \/ f \in Read(b).direct /\ e[f] = FromObject(b)
        \/ f \in Read(b).refs /\ e[f] = FromCredential(b, f)
    BY <1>1, <1>3, <2>1 DEF Outcomes
  <2>3. f \in Read(b).refs => b.resolved[f] \in Contract!Seen(CredentialOf[f])
    BY DEF Pending
  <2> QED
    BY <2>2, <2>3 DEF Contract!Given, FromObject, FromCredential, Read
<1> QED
  BY <1>1, <1>2, <1>3 DEF Contract!Explains, Keys, Read
-----------------------------------------------------------------------------
(* The steps keep the inductive invariant.                                 *)

\* Whatever the sources do, what a running build has done stays as good.
LEMMA ModelStays ==
    ASSUME SourcesTypeOK, SourcesTypeOK', Continues, ModelInv, pc # "idle", UNCHANGED build.at,
           UNCHANGED build.model, pc' \in {"get", "create", "update"} => build.at = Len(Refs(build)) + 1
    PROVE  ModelInv'
<1>1. /\ Refs(build)' = Refs(build) /\ Refs(build) \in Seq(Ref) /\ Len(Refs(build)) \in Nat
  BY RefsStay
<1>2. build.at \in 1 .. (Len(Refs(build)) + 1)
  BY DEF ModelInv
<1>3. ASSUME NEW o \in DOMAIN build.model
      PROVE  EntryInv(o, build.at - 1)'
  <2>. DEFINE n == build.at - 1
  <2>1. n \in Nat /\ n <= Len(Refs(build)) /\ n' = n
    BY <1>1, <1>2
  <2>2. EntryInv(o, n)
    BY DEF ModelInv
  <2>. HIDE DEF n
  <2>3. \A k : k = n => EntryInv(o, k)'
    BY <2>1, <2>2, EntryStays
  <2> QED
    BY <2>1, <2>3 DEF n
<1> QED
  BY <1>1, <1>2, <1>3 DEF ModelInv

LEMMA ProceedKeeps ==
    ASSUME SourcesTypeOK, UNCHANGED sourceVars, ModelInv, BuildOK(build),
           pc \in {"object", "reference"}, build.spec \in DOMAIN manifest,
           build.at \in DOMAIN Refs(build),
           \A s \in Sources : build.since[s] \in 1 .. Len(world[s]),
           NEW b, BuildOK(b), b.spec = build.spec, b.since = build.since, b.at = build.at,
           b.model = build.model,
           b.version \in Contract!Seen(InHand(b)), b.version \in DOMAIN world[InHand(b)],
           \A f \in DOMAIN b.resolved : b.resolved[f] \in Contract!Seen(CredentialOf[f]),
           Proceed(b)
    PROVE  /\ ReadInv' /\ ModelInv'
           /\ build'.spec = build.spec /\ build'.since = build.since
<1>1. SourcesTypeOK' /\ Grows
  BY SourcesSame DEF SourcesTypeOK, sourceVars
<1>2. Refs(b) = Refs(build) /\ InHand(b) = InHand(build)
  BY DEF Refs, InHand
<1>3. \A s \in Sources : Contract!Seen(s) =
          {v \in build.since[s] .. Len(world[s]) : world[s][v].there}
  BY DEF Contract!Seen
<1>4. CASE Pending(b) # {}
  <2>1. pc' = "reference" /\ build' = b
    BY <1>4 DEF Proceed
  <2>2. Continues
    BY <1>1, <2>1 DEF Continues
  <2>3. InHand(build)' = InHand(build)
    BY <2>1, <1>2 DEF sourceVars, InHand, Refs
  <2>4. \A s : Contract!Seen(s)' = Contract!Seen(s)
    BY <2>1 DEF Contract!Seen, sourceVars
  <2>5. ReadInv'
    BY <1>2, <2>1, <2>3, <2>4 DEF ReadInv
  <2>6. ModelInv'
    BY <1>1, <2>1, <2>2, ModelStays
  <2> QED
    BY <2>1, <2>5, <2>6
<1>5. CASE Pending(b) = {}
  <2>1. PICK e \in Entries(b) :
            build' = [b EXCEPT !.at = @ + 1, !.version = 0, !.resolved = Nothing,
                               !.model = With(@, InHand(b), e)]
    BY <1>5 DEF Proceed
  <2>2. pc' = IF b.at < Len(Refs(b)) THEN "object" ELSE "get"
    BY <1>5 DEF Proceed
  <2>3. build' = [spec |-> build.spec, since |-> build.since, at |-> build.at + 1, version |-> 0,
                  resolved |-> Nothing, model |-> With(build.model, InHand(build), e)]
    BY <2>1, <1>2 DEF BuildOK
  <2>4. Continues
    BY <1>1, <2>3 DEF Continues
  <2>5. /\ Refs(build)' = Refs(build) /\ Refs(build) \in Seq(Ref)
        /\ Len(Refs(build)) \in Nat
        /\ \A i \in DOMAIN Refs(build) : Refs(build)[i].name \in Objects
    BY <1>1, <2>4, RefsStay
  <2>6. ReadInv'
    BY <2>2, <2>3 DEF ReadInv
  <2>7. build.at \in 1 .. Len(Refs(build)) /\ InHand(build) = Refs(build)[build.at].name
    BY <2>5 DEF InHand
  <2>8. DOMAIN build'.model = {Refs(build)[i].name : i \in 1 .. build.at}
    <3>1. DOMAIN build'.model = DOMAIN build.model \cup {InHand(build)}
      BY <2>3 DEF With
    <3>2. DOMAIN build.model = {Refs(build)[i].name : i \in 1 .. (build.at - 1)}
      BY DEF ModelInv
    <3>3. 1 .. build.at = (1 .. (build.at - 1)) \cup {build.at}
      BY <2>5, <2>7
    <3> QED
      BY <2>7, <3>1, <3>2, <3>3
  <2>9. ASSUME NEW m, m = build.at, NEW o \in DOMAIN build'.model
        PROVE  EntryInv(o, m)'
    <3>1. m \in 1 .. Len(Refs(build)) /\ m \in Nat
      BY <2>7, <2>9
    <3>2. CASE o # InHand(build)
      <4>1. o \in DOMAIN build.model /\ build'.model[o] = build.model[o]
        BY <2>3, <2>9, <3>2 DEF With
      <4>2. EntryInv(o, build.at - 1)
        BY <4>1 DEF ModelInv
      <4>3. \A n : n = build.at - 1 => EntryInv(o, m)'
        <5> SUFFICES ASSUME NEW n, n = build.at - 1 PROVE EntryInv(o, m)'
          OBVIOUS
        <5>1. n \in Nat /\ n <= Len(Refs(build)) /\ m = n + 1
          BY <2>5, <2>7, <2>9
        <5>2. Refs(build)[m].name # o
          BY <2>7, <2>9, <3>2
        <5> QED
          BY <1>1, <2>4, <4>1, <4>2, <5>1, <5>2, EntryStays
      <4> QED
        BY <4>3
    <3>3. CASE o = InHand(build)
      <4>1. o \in Objects /\ Refs(build)[m].name = o
        BY <2>5, <2>7, <2>9, <3>1, <3>3
      <4>2. Contract!Explains(e, o, b.version, Refs(build)[m].overrides)
        BY <1>2, <1>5, <2>9, <3>3, EntryExplained
      <4>3. \A v, w : v \in Contract!Seen(o) /\ Contract!Explains(e, o, v, w)
                => v \in Contract!Seen(o)' /\ Contract!Explains(e, o, v, w)'
        BY <1>1, <2>4, <4>1, ExplainsStays
      <4>4. PICK w : w = Refs(build)[m].overrides /\ Contract!Explains(e, o, b.version, w)
        BY <4>2
      <4>5. PICK v \in Contract!Seen(o) : v = b.version /\ Contract!Explains(e, o, v, w)
        BY <1>2, <3>3, <4>4
      <4>6. /\ v \in Contract!Seen(o)' /\ Contract!Explains(e, o, v, w)'
            /\ build'.model[o] = e /\ Refs(build)'[m].overrides = w
        <5>1. v \in Contract!Seen(o)' /\ Contract!Explains(e, o, v, w)'
          BY <4>3, <4>5
        <5>2. build'.model[o] = e /\ Refs(build)'[m].overrides = w
          BY <2>3, <2>5, <3>3, <4>4 DEF With
        <5> QED
          BY <5>1, <5>2
      <4>7. Contract!Explains(build.model[o], o, v, Refs(build)[m].overrides)'
        BY <4>6 DEF Contract!Explains
      <4>8. /\ m \in 1 .. m /\ Refs(build)'[m].name = o
            /\ \A k \in (m + 1) .. m : Refs(build)'[k].name # o
        BY <2>5, <3>1, <4>1
      <4> QED
        BY <4>6, <4>7, <4>8 DEF EntryInv
    <3> QED
      BY <3>2, <3>3
  <2>10. ModelInv'
    <3>1. build'.at = build.at + 1 /\ build'.at - 1 = build.at
      BY <2>3, <2>7
    <3>2. build'.at \in 1 .. (Len(Refs(build)) + 1)
      BY <2>5, <2>7, <3>1
    <3>3. pc' \in {"get", "create", "update"} => build'.at = Len(Refs(build)) + 1
      BY <1>2, <2>2, <2>5, <2>7, <3>1
    <3>4. DOMAIN build'.model = {Refs(build)'[i].name : i \in 1 .. (build'.at - 1)}
      BY <2>5, <2>8, <3>1
    <3>5. \A o \in DOMAIN build'.model : EntryInv(o, build.at - 1)'
      <4> SUFFICES ASSUME NEW o \in DOMAIN build'.model PROVE EntryInv(o, build.at - 1)'
        OBVIOUS
      <4>1. \A m : m = build.at => EntryInv(o, m)'
        BY <2>9
      <4>2. \A m : m = build'.at - 1 => EntryInv(o, m)'
        BY <3>1, <4>1
      <4> QED
        BY <4>2
    <3> QED
      BY <2>5, <3>2, <3>3, <3>4, <3>5 DEF ModelInv
  <2> QED
    BY <2>3, <2>6, <2>10
<1> QED
  BY <1>4, <1>5

LEMMA FinishKeeps ==
    ASSUME NEW again, Finish(again)
    PROVE  SinceInv' /\ ReadInv' /\ ModelInv'
BY DEF Finish, SinceInv, ReadInv, ModelInv

LEMMA BuildKeeps ==
    ASSUME TypeOK, SourcesTypeOK', Grows, SinceInv, ReadInv, ModelInv, build' = build,
           \/ pc' = pc
           \/ pc = "get" /\ pc' \in {"create", "update"}
    PROVE  SinceInv' /\ ReadInv' /\ ModelInv'
<1>0. SourcesTypeOK
  BY DEF TypeOK
<1>1. CASE pc = "idle"
  BY <1>1 DEF SinceInv, ReadInv, ModelInv
<1>2. CASE pc # "idle"
  <2>1. Continues
    BY <1>2 DEF Continues, SinceInv, TypeOK
  <2>2. SinceInv'
    <3> SUFFICES ASSUME NEW s \in Sources PROVE build.since[s] \in 1 .. Len(world'[s])
      BY <1>2 DEF SinceInv
    <3>1. build.since[s] \in 1 .. Len(world[s]) /\ Len(world'[s]) >= Len(world[s])
      BY <2>1 DEF Continues, Grows
    <3>2. Len(world[s]) \in Nat /\ Len(world'[s]) \in Nat
      BY <1>0 DEF SourcesTypeOK
    <3> QED
      BY <3>1, <3>2
  <2>3. ReadInv'
    <3>1. pc' = "object" => build'.resolved = Nothing
      BY DEF ReadInv
    <3>2. ASSUME pc = "reference"
          PROVE  /\ build'.version \in Contract!Seen(InHand(build))'
                 /\ \A f \in DOMAIN build'.resolved :
                        build'.resolved[f] \in Contract!Seen(CredentialOf[f])'
      <4>1. /\ Refs(build)' = Refs(build)
            /\ \A i \in DOMAIN Refs(build) : Refs(build)[i].name \in Objects
        BY <1>0, <2>1, RefsStay
      <4>2. InHand(build)' = InHand(build) /\ InHand(build) \in Sources
        BY <3>2, <4>1 DEF InHand, TypeOK, Sources
      <4>3. \A s \in Sources : \A v : v \in Contract!Seen(s) => v \in Contract!Seen(s)'
        BY <1>0, <2>1, SeenStays
      <4>4. Contract!Seen(InHand(build))'
                = {v \in build'.since[InHand(build)] .. Len(world'[InHand(build)]) :
                      world'[InHand(build)][v].there}
        BY <4>2 DEF Contract!Seen
      <4>5. build.version \in Contract!Seen(InHand(build))'
        <5>1. \A s : s = InHand(build) => Contract!Seen(s)'
                  = {v \in build'.since[s] .. Len(world'[s]) : world'[s][v].there}
          BY DEF Contract!Seen
        <5>2. \A s : s = InHand(build) => build.version \in Contract!Seen(s)'
          BY <3>2, <4>2, <4>3 DEF ReadInv
        <5> QED
          BY <4>4, <5>1, <5>2
      <4>6. \A f \in DOMAIN build.resolved : CredentialOf[f] \in Sources
        BY SourcesAssumption DEF TypeOK, BuildOK, IsMap, Sources
      <4> QED
        BY <3>2, <4>3, <4>5, <4>6 DEF ReadInv
    <3> QED
      BY <3>1, <3>2 DEF ReadInv
  <2>4. ModelInv'
    BY <1>0, <1>2, <2>1, ModelStays DEF ModelInv
  <2> QED
    BY <2>2, <2>3, <2>4
<1> QED
  BY <1>1, <1>2

LEMMA InitInv == Init => SecretInv
BY DEF Init, NoSecret, NoBuild, SecretInv, SinceInv, ReadInv, ModelInv, OrderInv, OwnerInv,
       SourcesInit

\* A second owner is one too many.
LEMMA OneOwner ==
    ASSUME NEW x, NEW y, Cardinality({x} \cup {y}) <= 1
    PROVE  x = y
<1> SUFFICES ASSUME x # y PROVE FALSE
  OBVIOUS
<1>1. IsFiniteSet({x}) /\ Cardinality({x}) = 1
  BY FS_Singleton
<1>2. Cardinality({x} \cup {y}) = 2
  BY <1>1, FS_AddElement
<1> QED
  BY <1>2

\* Writing the Secret: the configuration goes to the Backup it was built from.
LEMMA WriteKeeps ==
    ASSUME TypeOK, SecretInv, pc # "idle", Write({OwnerUid})
    PROVE  SecretInv'
<1>1. /\ secret'.owners = {OwnerUid}
      /\ secret'.config = [spec |-> build.spec, model |-> build.model]
  BY DEF Write, TypeOK, SecretOK
<1>2. manifest' = manifest /\ cached' = cached /\ pc' = "idle"
  BY DEF Write, RestOfHandler, Retry, Finish, sourceVars
<1>3. build.spec \in 1 .. Len(manifest) /\ Len(manifest) \in Nat
  BY DEF TypeOK, SourcesTypeOK
<1>4. SinceInv' /\ ReadInv' /\ ModelInv'
  BY FinishKeeps DEF Write, RestOfHandler, Retry
<1>5. OrderInv'
  BY <1>1, <1>2, <1>3 DEF SecretInv, OrderInv
<1>6. OwnerInv'
  BY <1>1, <1>2, <1>3 DEF OwnerInv, OwnerUid
<1> QED
  BY <1>4, <1>5, <1>6 DEF SecretInv

\* Everything else leaves the order and the owner as they are.
LEMMA SecretKeeps ==
    ASSUME TypeOK, SecretInv, Grows, SourcesTypeOK',
           secret'.owners = secret.owners, secret'.config = secret.config,
           cached' = cached \/ (manifest' = manifest /\ cached' \in {0, Len(manifest)}),
           pc' = "idle" \/ (pc # "idle" /\ build'.spec = build.spec)
    PROVE  OrderInv' /\ OwnerInv'
<1>1. /\ Len(manifest) \in Nat /\ Len(manifest') \in Nat
      /\ Len(manifest') >= Len(manifest)
  BY DEF TypeOK, SourcesTypeOK, Grows
<1>2. /\ secret.config.spec \in Nat /\ secret.config.spec <= Len(manifest)
      /\ cached \in 0 .. Len(manifest)
      /\ pc # "idle" => build.spec \in 1 .. Len(manifest)
  <2>1. secret.config.spec \in Nat
    BY DEF TypeOK, SecretOK
  <2>2. secret.config.spec <= Len(manifest)
    BY DEF SecretInv, OrderInv
  <2>3. cached \in 0 .. Len(manifest) /\ (pc # "idle" => build.spec \in DOMAIN manifest)
    BY DEF TypeOK
  <2>4. DOMAIN manifest = 1 .. Len(manifest)
    BY DEF TypeOK, SourcesTypeOK
  <2> QED
    BY <2>1, <2>2, <2>3, <2>4
<1>3. OrderInv'
  BY <1>1, <1>2 DEF SecretInv, OrderInv
<1>4. OwnerInv'
  <2>1. secret.config.spec # 0 => secret.config.spec \in DOMAIN manifest
    BY <1>1, <1>2 DEF TypeOK, SourcesTypeOK
  <2> QED
    BY <2>1 DEF SecretInv, OwnerInv, Grows
<1> QED
  BY <1>3, <1>4

LEMMA NextInv == TypeOK /\ TypeOK' /\ SecretInv /\ [Next]_vars => SecretInv'
<1> SUFFICES ASSUME TypeOK, TypeOK', SecretInv, [Next]_vars PROVE SecretInv'
  OBVIOUS
<1>0. /\ SourcesTypeOK /\ SourcesTypeOK' /\ Len(manifest) \in Nat
      /\ BuildOK(build) /\ BuildOK(build') /\ SecretOK(secret)
      /\ SinceInv /\ ReadInv /\ ModelInv /\ OrderInv /\ OwnerInv
  BY DEF TypeOK, SourcesTypeOK, SecretInv
<1>1. CASE Environment
  <2>1. Grows
    BY <1>0, <1>1, SourcesKept DEF Environment
  <2>2. UNCHANGED <<secret, cached, pc, build>>
    BY <1>1 DEF Environment, workerVars
  <2>3. SinceInv' /\ ReadInv' /\ ModelInv'
    BY <1>0, <2>1, <2>2, BuildKeeps
  <2>4. OrderInv' /\ OwnerInv'
    BY <1>0, <2>1, <2>2, SecretKeeps
  <2> QED
    BY <2>3, <2>4 DEF SecretInv
<1>2. CASE UNCHANGED sourceVars /\ Next
  <2>1. Grows
    BY <1>0, <1>2, SourcesSame
  <2>2. manifest' = manifest /\ world' = world /\ live' = live
    BY <1>2 DEF sourceVars
  <2>3. ASSUME NEW again, Finish(again), secret' = secret, cached' \in {cached, 0, Len(manifest)}
        PROVE  SecretInv'
    <3>1. OrderInv' /\ OwnerInv'
      BY <1>0, <2>1, <2>2, <2>3, SecretKeeps DEF Finish
    <3> QED
      BY <2>3, <3>1, FinishKeeps DEF SecretInv
  <2>4. ASSUME build' = build, pc' = pc \/ (pc = "get" /\ pc' \in {"create", "update"}),
               secret'.owners = secret.owners, secret'.config = secret.config,
               cached' \in {cached, 0, Len(manifest)}
        PROVE  SecretInv'
    <3>1. OrderInv' /\ OwnerInv'
      BY <1>0, <2>1, <2>2, <2>4, SecretKeeps
    <3> QED
      BY <1>0, <2>1, <2>4, <3>1, BuildKeeps DEF SecretInv
  <2>5. CASE WatchBackup
    BY <2>4, <2>5 DEF WatchBackup, Current
  <2>6. CASE NothingToBuild
    BY <2>3, <2>6 DEF NothingToBuild
  <2>7. CASE Begin
    <3>1. build' = [spec |-> cached, since |-> Now, at |-> 1, version |-> 0,
                    resolved |-> Nothing, model |-> Nothing]
      BY <2>7 DEF Begin, NoBuild
    <3>2. pc' = "object" /\ secret' = secret /\ cached' = cached /\ cached # 0
      BY <2>7 DEF Begin
    <3>3. SinceInv'
      BY <1>0, <2>2, <3>1, <3>2, FoundInDomain DEF SinceInv, Now
    <3>4. ReadInv'
      BY <3>1, <3>2 DEF ReadInv
    <3>5. ModelInv'
      <4>1. Refs(build)' = manifest[cached].refs /\ Len(Refs(build)') \in Nat /\ Len(Refs(build)') >= 1
        <5>1. build'.spec \in DOMAIN manifest
          BY <2>2, <3>2 DEF TypeOK
        <5>2. Refs(build') \in Seq(Ref) /\ Len(Refs(build')) \in Nat /\ Len(Refs(build')) >= 1
          BY <1>0, <5>1, RefsType
        <5> QED
          BY <2>2, <3>1, <5>2 DEF Refs
      <4>2. build'.at = 1 /\ DOMAIN build'.model = {}
        BY <3>1 DEF Nothing
      <4>3. 1 .. (build'.at - 1) = {}
        BY <4>2
      <4> QED
        BY <3>2, <4>1, <4>2, <4>3 DEF ModelInv
    <3>6. OrderInv'
      <4>1. cached \in Nat
        BY <1>0 DEF TypeOK
      <4> QED
        BY <1>0, <2>2, <3>1, <3>2, <4>1 DEF OrderInv
    <3>7. OwnerInv'
      BY <1>0, <2>2, <3>2 DEF OwnerInv
    <3> QED
      BY <3>3, <3>4, <3>5, <3>6, <3>7 DEF SecretInv
  <2>8. CASE GetCRD
    <3>. DEFINE v == Len(world[InHand(build)])
    <3>. DEFINE b == [build EXCEPT !.version = v]
    <3>1. pc = "object" /\ Found(InHand(build)) /\ Proceed(b)
          /\ secret' = secret /\ cached' = cached
      BY <2>8 DEF GetCRD
    <3>2. build.spec \in DOMAIN manifest /\ build.at \in DOMAIN Refs(build)
      BY <3>1 DEF TypeOK
    <3>3. InHand(build) \in Sources
      <4>1. Refs(build) \in Seq(Ref)
        BY <1>0, <3>2, RefsType
      <4>2. Refs(build)[build.at] \in Ref
        BY <3>2, <4>1, ElementType
      <4> QED
        BY <4>2, RefTypes DEF InHand, Sources
    <3>4. v \in Nat /\ v \in DOMAIN world[InHand(build)]
      BY <1>0, <3>3, FoundInDomain
    <3>5. \A s \in Sources : build.since[s] \in 1 .. Len(world[s])
      BY <1>0, <3>1 DEF SinceInv
    <3>6. /\ BuildOK(b) /\ b.spec = build.spec /\ b.since = build.since /\ b.at = build.at
          /\ b.model = build.model /\ b.version = v /\ b.resolved = Nothing
      BY <1>0, <3>1, <3>4 DEF BuildOK, ReadInv
    <3>7. InHand(b) = InHand(build)
      BY <3>6 DEF InHand, Refs
    <3>8. b.version \in Contract!Seen(InHand(b)) /\ b.version \in DOMAIN world[InHand(b)]
      BY <3>1, <3>3, <3>4, <3>5, <3>6, <3>7 DEF Contract!Seen, Found, Newest
    <3>9. \A f \in DOMAIN b.resolved : b.resolved[f] \in Contract!Seen(CredentialOf[f])
      BY <3>6 DEF Nothing
    <3>10. /\ ReadInv' /\ ModelInv'
           /\ build'.spec = build.spec /\ build'.since = build.since
      <4>. HIDE DEF b
      <4> QED
        BY <1>0, <1>2, <3>1, <3>2, <3>5, <3>6, <3>8, <3>9, ProceedKeeps
    <3>11. pc' # "idle"
      BY <3>1 DEF Proceed
    <3>12. SinceInv'
      BY <2>2, <3>5, <3>10, <3>11 DEF SinceInv
    <3>13. OrderInv' /\ OwnerInv'
      BY <1>0, <2>1, <3>1, <3>10, SecretKeeps
    <3> QED
      BY <3>10, <3>12, <3>13 DEF SecretInv
  <2>9. CASE resolveSecretReferences
    <3>1. PICK f \in Pending(build) :
              /\ Found(CredentialOf[f])
              /\ Proceed([build EXCEPT !.resolved = With(@, f, Len(world[CredentialOf[f]]))])
      BY <2>9 DEF resolveSecretReferences
    <3>2. pc = "reference" /\ secret' = secret /\ cached' = cached
      BY <2>9 DEF resolveSecretReferences
    <3>. DEFINE v == Len(world[CredentialOf[f]])
    <3>. DEFINE b == [build EXCEPT !.resolved = With(@, f, v)]
    <3>3. build.spec \in DOMAIN manifest /\ build.at \in DOMAIN Refs(build)
      BY <3>2 DEF TypeOK
    <3>4. f \in Fields /\ CredentialOf[f] \in Sources
      <4>1. Refs(build) \in Seq(Ref)
        BY <1>0, <3>3, RefsType
      <4>2. Refs(build)[build.at] \in Ref
        BY <3>3, <4>1, ElementType
      <4>3. InHand(build) \in Sources
        BY <4>2, RefTypes DEF InHand, Sources
      <4>4. Read(build) \in Config
        BY <3>2, <4>3 DEF Read, TypeOK, SourcesTypeOK
      <4> QED
        BY <4>4, SourcesAssumption DEF Pending, Config, Sources
    <3>5. v \in Nat /\ v \in DOMAIN world[CredentialOf[f]]
      BY <1>0, <3>4, FoundInDomain
    <3>6. \A s \in Sources : build.since[s] \in 1 .. Len(world[s])
      BY <1>0, <3>2 DEF SinceInv
    <3>7. /\ BuildOK(b) /\ b.spec = build.spec /\ b.since = build.since /\ b.at = build.at
          /\ b.model = build.model /\ b.version = build.version
          /\ b.resolved = With(build.resolved, f, v)
      BY <1>0, <3>4, <3>5, WithIsMap DEF BuildOK
    <3>8. InHand(b) = InHand(build)
      BY <3>7 DEF InHand, Refs
    <3>9. b.version \in Contract!Seen(InHand(b)) /\ b.version \in DOMAIN world[InHand(b)]
      BY <1>0, <3>2, <3>7, <3>8 DEF ReadInv, TypeOK
    <3>10. v \in Contract!Seen(CredentialOf[f])
      BY <3>1, <3>4, <3>5, <3>6 DEF Contract!Seen, Found, Newest
    <3>11. \A g \in DOMAIN b.resolved : b.resolved[g] \in Contract!Seen(CredentialOf[g])
      <4>1. \A g \in DOMAIN build.resolved :
                build.resolved[g] \in Contract!Seen(CredentialOf[g])
        BY <1>0, <3>2 DEF ReadInv
      <4>. HIDE DEF v
      <4> QED
        BY <3>7, <3>10, <4>1 DEF With
    <3>12. /\ ReadInv' /\ ModelInv'
           /\ build'.spec = build.spec /\ build'.since = build.since
      <4>. HIDE DEF b
      <4>1. Proceed(b)
        BY <3>1 DEF b
      <4> QED
        BY <1>0, <1>2, <3>2, <3>3, <3>6, <3>7, <3>9, <3>11, <4>1, ProceedKeeps
    <3>13. pc' # "idle"
      BY <3>1 DEF Proceed
    <3>14. SinceInv'
      BY <2>2, <3>6, <3>12, <3>13 DEF SinceInv
    <3>15. OrderInv' /\ OwnerInv'
      BY <1>0, <2>1, <3>2, <3>12, SecretKeeps
    <3> QED
      BY <3>12, <3>14, <3>15 DEF SecretInv
  <2>10. CASE CRDNotFound \/ ReferenceNotFound \/ AlreadyExists \/ UpdateRefused \/ RequestFails
    BY <2>3, <2>10 DEF CRDNotFound, ReferenceNotFound, AlreadyExists, UpdateRefused, RequestFails, Retry
  <2>11. CASE GetSecret
    BY <2>4, <2>11 DEF GetSecret
  <2>12. CASE Create
    BY <2>12, WriteKeeps DEF Create
  <2>13. CASE Update
    <3>1. found.owners \cup {OwnerUid} = {OwnerUid}
      <4>1. found.owners = secret.owners /\ Cardinality(found.owners \cup {OwnerUid}) <= 1
        BY <2>13 DEF Update, ensureOwnerReference
      <4>2. secret.owners = {} \/ \E x : secret.owners = {x}
        BY <1>0 DEF OwnerInv
      <4> QED
        BY <4>1, <4>2, OneOwner
    <3> QED
      BY <2>13, <3>1, WriteKeeps DEF Update, ensureOwnerReference
  <2>14. CASE BuildAgain
    BY <2>4, <2>14 DEF BuildAgain
  <2>15. CASE OperatorRestart
    BY <2>3, <2>15 DEF OperatorRestart, Current
  <2>16. CASE OthersWrite
    <3>1. secret'.owners = secret.owners /\ secret'.config = secret.config
      BY <1>0, <2>16 DEF OthersWrite, SecretOK
    <3> QED
      BY <2>4, <2>16, <3>1 DEF OthersWrite, workerVars
  <2>17. CASE GcSecret
    <3>1. secret'.owners = {} /\ secret'.config = [spec |-> 0, model |-> Nothing]
      BY <2>17 DEF GcSecret, NoSecret
    <3>2. UNCHANGED <<cached, pc, build>>
      BY <2>17 DEF GcSecret, workerVars
    <3>3. SinceInv' /\ ReadInv' /\ ModelInv'
      BY <1>0, <2>1, <3>2, BuildKeeps
    <3>4. OrderInv'
      BY <1>0, <2>2, <3>1, <3>2 DEF OrderInv, TypeOK
    <3>5. OwnerInv'
      BY <3>1 DEF OwnerInv
    <3> QED
      BY <3>3, <3>4, <3>5 DEF SecretInv
  <2>18. CASE Environment
    BY <1>1, <2>18
  <2> QED
    BY <1>2, <2>5, <2>6, <2>7, <2>8, <2>9, <2>10, <2>11, <2>12, <2>13, <2>14, <2>15, <2>16,
       <2>17, <2>18 DEF Next, Reconcile, CreateSecret
<1>3. CASE UNCHANGED vars
  <2>1. Grows
    BY <1>0, <1>3, SourcesSame DEF vars
  <2>2. UNCHANGED <<secret, cached, pc, build>>
    BY <1>3 DEF vars, workerVars
  <2>3. SinceInv' /\ ReadInv' /\ ModelInv'
    BY <1>0, <2>1, <2>2, BuildKeeps
  <2>4. OrderInv' /\ OwnerInv'
    BY <1>0, <2>1, <2>2, SecretKeeps
  <2> QED
    BY <2>3, <2>4 DEF SecretInv
<1>4. Next => Environment \/ UNCHANGED sourceVars
  BY DEF Next, WatchBackup, Reconcile, NothingToBuild, Begin, CreateSecret, GetCRD, CRDNotFound,
         resolveSecretReferences, ReferenceNotFound, GetSecret, Create, AlreadyExists, Update,
         UpdateRefused, Write, BuildAgain, RequestFails, OperatorRestart, OthersWrite, GcSecret
<1> QED
  BY <1>1, <1>2, <1>3, <1>4
-----------------------------------------------------------------------------
(* The contract: every step of CreateSecret is a step of the contract, or  *)
(* none.                                                                   *)

LEMMA InitRefines == Init => Contract!Init
BY DEF Init, NoBuild, NoSecret, SourcesInit, Contents, Nothing, Objects, Sources, Absent, Opaque,
       Contract!Init, Contract!SourcesInit, Contract!NotBuilding, Contract!NoConfig,
       Contract!Contents, Contract!Nothing, Contract!Objects, Contract!Sources, Contract!Absent,
       Contract!Opaque

LEMMA SourcesRefine == SourcesNext => Contract!SourcesNext
BY DEF SourcesNext, ApplyBackup, DeleteBackup, ChangeSource, Uid, Newest, Contents, Objects,
       Sources, Absent, Opaque,
       Contract!SourcesNext, Contract!ApplyBackup, Contract!DeleteBackup, Contract!ChangeSource,
       Contract!Uid, Contract!Newest, Contract!Contents, Contract!Objects, Contract!Sources,
       Contract!Absent, Contract!Opaque

\* The end of a build that wrote nothing.
LEMMA FinishRefines ==
    ASSUME TypeOK, SecretInv, NEW again, Finish(again), UNCHANGED <<sourceVars, secret>>
    PROVE  Contract!Abandon \/ UNCHANGED Contract!vars
<1>1. build' = NoBuild
  BY DEF Finish
<1>2. CASE pc = "idle"
  BY <1>1, <1>2 DEF SecretInv, SinceInv, Contract!vars, Contract!sourceVars, sourceVars
<1>3. CASE pc # "idle"
  <2>1. build.spec # 0
    BY <1>3 DEF TypeOK, SourcesTypeOK
  <2> QED
    BY <1>1, <2>1 DEF NoBuild, Contract!Abandon, Contract!NotBuilding, Contract!sourceVars,
                      Contract!Sources, Contract!Objects, Sources, Objects, sourceVars
<1> QED
  BY <1>2, <1>3

\* A finished model is explained, by the last reference to each object.
LEMMA ModelExplained ==
    ASSUME TypeOK, SecretInv, pc \in {"create", "update"}
    PROVE  Contract!Explained(build.model)
<1>1. /\ Contract!Refs = Refs(build)
      /\ Refs(build) \in Seq(Ref) /\ Len(Refs(build)) \in Nat
      /\ DOMAIN Refs(build) = 1 .. Len(Refs(build))
  <2>1. Refs(build) \in Seq(Ref) /\ Len(Refs(build)) \in Nat
    BY RefsType DEF TypeOK
  <2> QED
    BY <2>1 DEF Contract!Refs, Refs
<1>2. build.at - 1 = Len(Refs(build))
  BY <1>1 DEF SecretInv, ModelInv
<1>3. DOMAIN build.model = {Contract!Refs[i].name : i \in DOMAIN Contract!Refs}
  BY <1>1, <1>2 DEF SecretInv, ModelInv
<1>4. ASSUME NEW o \in DOMAIN build.model
      PROVE  \E v \in Contract!Seen(o) :
                 Contract!Explains(build.model[o], o, v,
                                   Contract!Refs[Contract!LastRefTo(o)].overrides)
  <2>1. EntryInv(o, Len(Refs(build)))
    BY <1>2 DEF SecretInv, ModelInv
  <2>2. PICK i \in 1 .. Len(Refs(build)) :
            /\ Refs(build)[i].name = o
            /\ \A k \in (i + 1) .. Len(Refs(build)) : Refs(build)[k].name # o
            /\ \E v \in Contract!Seen(o) :
                  Contract!Explains(build.model[o], o, v, Refs(build)[i].overrides)
    BY <2>1 DEF EntryInv
  <2>. DEFINE Last(j) == /\ Contract!Refs[j].name = o
                         /\ \A k \in DOMAIN Contract!Refs : Contract!Refs[k].name = o => k <= j
  <2>3. i \in DOMAIN Contract!Refs /\ Last(i)
    BY <1>1, <2>2
  <2>4. \A j \in DOMAIN Contract!Refs : Last(j) => j = i
    <3> SUFFICES ASSUME NEW j \in DOMAIN Contract!Refs, Last(j) PROVE j = i
      OBVIOUS
    <3>1. j <= i /\ i <= j
      BY <2>3
    <3>2. j \in Nat /\ i \in Nat
      BY <1>1, <2>3
    <3> QED
      BY <3>1, <3>2
  <2>5. Contract!LastRefTo(o) = i
    <3>1. Contract!LastRefTo(o) = CHOOSE j \in DOMAIN Contract!Refs : Last(j)
      BY DEF Contract!LastRefTo
    <3>. HIDE DEF Last
    <3> QED
      BY <2>3, <2>4, <3>1
  <2> QED
    BY <1>1, <2>2, <2>5
<1> QED
  BY <1>3, <1>4 DEF Contract!Explained

LEMMA WriteRefines ==
    ASSUME TypeOK, SecretInv, pc \in {"create", "update"}, NEW owners, Write(owners)
    PROVE  Contract!Deliver
<1>1. secret'.config = [spec |-> build.spec, model |-> build.model]
  BY DEF Write, TypeOK, SecretOK
<1>2. build' = NoBuild /\ UNCHANGED sourceVars
  BY DEF Write, RestOfHandler, Retry, Finish
<1>3. build.spec # 0
  BY DEF TypeOK, SourcesTypeOK
<1>4. build.spec >= secret.config.spec
  BY DEF SecretInv, OrderInv, TypeOK, SecretOK, BuildOK
<1>5. Contract!Explained(build.model)
  BY ModelExplained
<1>6. secret'.config.spec = build.spec /\ secret'.config.model = build.model
  BY <1>1
<1>7. [spec |-> build.spec, since |-> build.since]' = Contract!NotBuilding
  BY <1>2 DEF NoBuild, Contract!NotBuilding, Contract!Sources, Contract!Objects, Sources, Objects
<1> QED
  BY <1>2, <1>3, <1>4, <1>5, <1>6, <1>7 DEF Contract!Deliver, Contract!sourceVars, sourceVars

\* Steps that neither end a build nor write a configuration.
LEMMA Stutters ==
    ASSUME UNCHANGED sourceVars, secret'.config = secret.config,
           build'.spec = build.spec, build'.since = build.since
    PROVE  UNCHANGED Contract!vars
BY DEF sourceVars, Contract!vars, Contract!sourceVars

LEMMA ProceedStutters ==
    ASSUME NEW b, BuildOK(b), b.spec = build.spec, b.since = build.since, Proceed(b),
           UNCHANGED <<sourceVars, secret>>
    PROVE  UNCHANGED Contract!vars
<1>1. build'.spec = b.spec /\ build'.since = b.since
  BY DEF Proceed, BuildOK
<1> QED
  BY <1>1, Stutters

LEMMA NextRefines == TypeOK /\ SecretInv /\ [Next]_vars => [Contract!Next]_(Contract!vars)
<1> SUFFICES ASSUME TypeOK, SecretInv, [Next]_vars
             PROVE  Contract!Next \/ UNCHANGED Contract!vars
  OBVIOUS
<1>0. BuildOK(build) /\ SecretOK(secret) /\ SourcesTypeOK
  BY DEF TypeOK
<1>1. CASE Environment
  <2>1. Contract!Change
    BY <1>1, SourcesRefine DEF Environment, workerVars, Contract!Change
  <2> QED
    BY <2>1 DEF Contract!Next
<1>2. CASE WatchBackup \/ GetSecret \/ BuildAgain
  BY <1>2, Stutters DEF WatchBackup, GetSecret, BuildAgain
<1>3. CASE NothingToBuild
  BY <1>3, FinishRefines DEF NothingToBuild, Contract!Next
<1>4. CASE Begin
  <2>1. build.spec = 0
    BY <1>4 DEF Begin, SecretInv, SinceInv, NoBuild
  <2>2. build'.spec = cached /\ build'.since = Now
    BY <1>4 DEF Begin, NoBuild
  <2>3. cached \in DOMAIN manifest
    BY <1>0, <1>4 DEF Begin, TypeOK, SourcesTypeOK
  <2>4. Contract!Start
    BY <1>4, <2>1, <2>2, <2>3
    DEF Begin, sourceVars, Now, Sources, Objects,
        Contract!Start, Contract!sourceVars, Contract!Now, Contract!Sources, Contract!Objects
  <2> QED
    BY <2>4 DEF Contract!Next
<1>5. CASE GetCRD
  <2>. DEFINE v == Len(world[InHand(build)])
  <2>. DEFINE b == [build EXCEPT !.version = v]
  <2>1. Proceed(b) /\ UNCHANGED <<sourceVars, secret>>
    BY <1>5 DEF GetCRD
  <2>2. v \in Nat
    <3>1. pc = "object"
      BY <1>5 DEF GetCRD
    <3>2. Refs(build) \in Seq(Ref)
      BY <1>0, <3>1, RefsType DEF TypeOK
    <3>3. Refs(build)[build.at] \in Ref
      BY <3>1, <3>2, ElementType DEF TypeOK
    <3> QED
      BY <1>0, <3>3, RefTypes, FoundInDomain DEF InHand, Sources
  <2>3. BuildOK(b) /\ b.spec = build.spec /\ b.since = build.since
    BY <1>0, <2>2 DEF BuildOK
  <2>. HIDE DEF b
  <2> QED
    BY <2>1, <2>3, ProceedStutters
<1>6. CASE resolveSecretReferences
  <2>1. PICK f \in Pending(build) :
            Proceed([build EXCEPT !.resolved = With(@, f, Len(world[CredentialOf[f]]))])
    BY <1>6 DEF resolveSecretReferences
  <2>. DEFINE v == Len(world[CredentialOf[f]])
  <2>. DEFINE b == [build EXCEPT !.resolved = With(@, f, v)]
  <2>2. pc = "reference" /\ UNCHANGED <<sourceVars, secret>>
    BY <1>6 DEF resolveSecretReferences
  <2>3. f \in Fields /\ CredentialOf[f] \in Sources
    <3>1. Refs(build) \in Seq(Ref)
      BY <1>0, <2>2, RefsType DEF TypeOK
    <3>2. Refs(build)[build.at] \in Ref
      BY <2>2, <3>1, ElementType DEF TypeOK
    <3>3. InHand(build) \in Sources
      BY <3>2, RefTypes DEF InHand, Sources
    <3>4. Read(build) \in Config
      BY <2>2, <3>3 DEF Read, TypeOK, SourcesTypeOK
    <3> QED
      BY <3>4, SourcesAssumption DEF Pending, Config, Sources
  <2>4. v \in Nat
    BY <1>0, <2>3, FoundInDomain
  <2>5. BuildOK(b) /\ b.spec = build.spec /\ b.since = build.since
    BY <1>0, <2>3, <2>4, WithIsMap DEF BuildOK
  <2>6. Proceed(b)
    BY <2>1
  <2>. HIDE DEF b
  <2> QED
    BY <2>2, <2>5, <2>6, ProceedStutters
<1>7. CASE CRDNotFound \/ ReferenceNotFound \/ AlreadyExists \/ UpdateRefused \/ RequestFails
  BY <1>7, FinishRefines
  DEF CRDNotFound, ReferenceNotFound, AlreadyExists, UpdateRefused, RequestFails, Retry,
      Contract!Next
<1>8. CASE Create
  BY <1>8, WriteRefines DEF Create, Contract!Next
<1>9. CASE Update
  BY <1>9, WriteRefines DEF Update, Contract!Next
<1>10. CASE OperatorRestart
  BY <1>10, FinishRefines DEF OperatorRestart, Contract!Next
<1>11. CASE OthersWrite
  <2>1. secret'.config = secret.config
    BY <1>0, <1>11 DEF OthersWrite, SecretOK
  <2> QED
    BY <1>11, <2>1, Stutters DEF OthersWrite, workerVars
<1>12. CASE GcSecret
  <2>1. secret'.config = [spec |-> 0, model |-> Nothing]
    BY <1>12 DEF GcSecret, NoSecret
  <2>2. UNCHANGED sourceVars /\ build' = build
    BY <1>12 DEF GcSecret, workerVars
  <2>3. CASE secret.config.spec = 0
    <3>1. secret.config = [spec |-> 0, model |-> Nothing]
      BY <1>0, <2>3 DEF SecretOK, SecretInv, OwnerInv
    <3> QED
      BY <2>1, <2>2, <3>1, Stutters
  <2>4. CASE secret.config.spec # 0
    <3>1. ~(live /\ manifest[secret.config.spec].uid = Uid)
      BY <1>12, <2>4 DEF GcSecret, SecretInv, OwnerInv
    <3>2. Contract!Withdraw
      BY <2>1, <2>2, <2>4, <3>1
      DEF Contract!Withdraw, Contract!NoConfig, Contract!Nothing, Nothing, Contract!sourceVars,
          sourceVars, Contract!Uid, Contract!Newest, Uid, Newest
    <3> QED
      BY <3>2 DEF Contract!Next
  <2> QED
    BY <2>3, <2>4
<1>13. CASE UNCHANGED vars
  BY <1>13, Stutters DEF vars, workerVars
<1> QED
  BY <1>1, <1>2, <1>3, <1>4, <1>5, <1>6, <1>7, <1>8, <1>9, <1>10, <1>11, <1>12, <1>13
  DEF Next, Reconcile, CreateSecret

\* The Secret is only ever written whole, from one build of one spec, and each
\* of its values was its source's own during that build (CreateSecret).
THEOREM ConfigContractKept == Spec => ImplementsConfigContract
<1>1. Spec => [](TypeOK /\ SecretInv)
  BY InitTypes, NextTypes, InitInv, NextInv, PTL DEF Spec
<1>2. Init => Contract!Init
  BY InitRefines
<1> QED
  BY <1>1, <1>2, NextRefines, PTL DEF Spec, ImplementsConfigContract, Contract!Spec
=============================================================================
