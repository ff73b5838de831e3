---------------------------- MODULE ConfigSources ----------------------------
(***************************************************************************)
(* What the gobackup.yml of one Backup is made of, as the API server holds *)
(* it: the Backup's spec, the Database and Storage objects it refers to,   *)
(* and the Secrets their *_ref fields name.  Users change all of these at  *)
(* any time.                                                               *)
(***************************************************************************)
EXTENDS Naturals, Sequences, FiniteSets

CONSTANTS
    Databases,      \* The Database objects
    Storages,       \* The Storage objects
    Credentials,    \* The Secrets that *_ref fields name
    Fields,         \* The fields of a configuration; "type" is spec.type
    CredentialOf,   \* The Secret that a field's reference names
    Configs,        \* The configurations each object may be given
    Specs,          \* The lists of references a Backup may be given
    MaxSpecs,       \* Bound on specs applied, over all lives of the Backup
    MaxVersions     \* Bound on the versions of each object and credential

Objects == Databases \cup Storages

Sources == Objects \cup Credentials

\* direct: fields given as values.  refs: fields given through "<field>_ref".
Config == [there: BOOLEAN, direct: SUBSET Fields, refs: SUBSET Fields]

Absent == [there |-> FALSE, direct |-> {}, refs |-> {}]

\* A credential Secret, with the keys the references name.
Opaque == [Absent EXCEPT !.there = TRUE]

\* The type of a Database is its own.
DatabaseConfig == {c \in Config : "type" \in c.direct \ c.refs}

\* The type of a Storage is not read.
StorageConfig == {c \in Config : "type" \notin c.direct \cup c.refs}

\* overrides: the fields the reference itself sets.
DatabaseRef == [name: Databases, overrides: {{}}]

\* The type always, keep and timeout when they are positive.
StorageRef == {r \in [name: Storages, overrides: SUBSET Fields] : "type" \in r.overrides}

Ref == DatabaseRef \cup StorageRef

\* At least one Database, then at least one Storage (validateBackupSpec).
Valid(refs) ==
    \E k \in 1 .. (Len(refs) - 1) : \A i \in DOMAIN refs :
        refs[i] \in IF i <= k THEN DatabaseRef ELSE StorageRef

ASSUME SourcesAssumption ==
    /\ Databases \cap Storages = {} /\ Objects \cap Credentials = {}
    /\ CredentialOf \in [Fields -> Credentials]
    /\ Configs \in [Objects -> SUBSET Config]
    /\ \A d \in Databases : Configs[d] \subseteq DatabaseConfig
    /\ \A s \in Storages : Configs[s] \subseteq StorageConfig
    /\ Specs \subseteq Seq(Ref)
    /\ \A refs \in Specs : Valid(refs)
    /\ MaxSpecs \in Nat
    /\ MaxVersions \in [Sources -> Nat]

VARIABLES
    manifest,   \* The specs applied so far, each with the uid of its Backup
    live,       \* The Backup exists
    world       \* The versions of each source, the newest last

sourceVars == <<manifest, live, world>>

SourcesTypeOK ==
    /\ manifest \in Seq([uid: Nat, refs: Specs])
    /\ manifest # <<>>
    /\ live \in BOOLEAN
    /\ world \in [Sources -> Seq(Config) \ {<<>>}]

Newest(s) == s[Len(s)]

\* Maps: without a key, and with a key set.
Nothing == [k \in {} |-> k]

With(map, key, value) ==
    [k \in DOMAIN map \cup {key} |-> IF k = key THEN value ELSE map[k]]

\* The uid of the Backup that was applied last.
Uid == Newest(manifest).uid

Now == [s \in Sources |-> Len(world[s])]

Found(s) == Newest(world[s]).there

Contents(s) ==
    {Absent} \cup (IF s \in Objects THEN Configs[s] ELSE {Opaque})

SourcesInit ==
    /\ \E refs \in Specs : manifest = <<[uid |-> 1, refs |-> refs]>>
    /\ live = TRUE
    /\ world \in [Sources -> {<<c>> : c \in UNION {Contents(s) : s \in Sources}}]
    /\ \A s \in Sources : world[s][1] \in Contents(s)

\* kubectl apply: an edit, or a new Backup under the name of the deleted one.
ApplyBackup ==
    /\ Len(manifest) < MaxSpecs
    /\ \E refs \in Specs :
          manifest' = Append(manifest, [uid |-> IF live THEN Uid ELSE Uid + 1, refs |-> refs])
    /\ live' = TRUE
    /\ UNCHANGED world

DeleteBackup ==
    /\ live
    /\ live' = FALSE
    /\ UNCHANGED <<manifest, world>>

\* A source is edited, rotated, deleted or created.
ChangeSource(s) ==
    /\ Len(world[s]) < MaxVersions[s]
    /\ \E c \in Contents(s) :
          /\ s \in Objects => c # Newest(world[s])
          /\ world' = [world EXCEPT ![s] = Append(@, c)]
    /\ UNCHANGED <<manifest, live>>

SourcesNext ==
    \/ ApplyBackup \/ DeleteBackup
    \/ \E s \in Sources : ChangeSource(s)
=============================================================================
