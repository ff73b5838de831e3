--------------------------- MODULE ConfigContract ---------------------------
(***************************************************************************)
(* What the Secret of a Backup may hold, whatever its sources, the         *)
(* operator or the API server go through: a configuration is written whole *)
(* or not at all; it is built from one spec of the Backup, never an older  *)
(* one than before; each Database and Storage in it is one version of that *)
(* object, and each value is the object's, the credential's or the         *)
(* reference's own, as it was at some moment of the build that wrote it;   *)
(* and it stays until it is replaced or its Backup is gone.                *)
(***************************************************************************)
EXTENDS ConfigSources

VARIABLES
    building,   \* The spec being built, 0 if none, and the versions at its start
    config      \* The configuration in the Secret, of spec 0 if there is none

vars == <<sourceVars, building, config>>

NotBuilding == [spec |-> 0, since |-> [s \in Sources |-> 0]]

NoConfig == [spec |-> 0, model |-> Nothing]

Refs == manifest[building.spec].refs

\* The reference that counts when an object is named twice: the last one.
LastRefTo(o) ==
    CHOOSE i \in DOMAIN Refs :
        Refs[i].name = o /\ \A k \in DOMAIN Refs : Refs[k].name = o => k <= i

\* Versions of a source that existed at some moment since the build started.
Seen(s) == {v \in building.since[s] .. Len(world[s]) : world[s][v].there}

\* A value that field f of version v of o gives, directly or by reference.
Given(value, o, v, f) ==
    \/ /\ f \in world[o][v].direct
       /\ value = [source |-> o, version |-> v]
    \/ /\ f \in world[o][v].refs
       /\ value.source = CredentialOf[f]
       /\ value.version \in Seen(CredentialOf[f])

\* The entry of o is one version of it, but for what the reference overrides.
Explains(entry, o, v, overrides) ==
    /\ DOMAIN entry = world[o][v].direct \cup world[o][v].refs \cup overrides
    /\ \A f \in DOMAIN entry :
          IF f \in overrides
          THEN entry[f] = [source |-> "backup", version |-> building.spec]
          ELSE Given(entry[f], o, v, f)

Explained(model) ==
    /\ DOMAIN model = {Refs[i].name : i \in DOMAIN Refs}
    /\ \A o \in DOMAIN model : \E v \in Seen(o) :
          Explains(model[o], o, v, Refs[LastRefTo(o)].overrides)

Init ==
    /\ SourcesInit
    /\ building = NotBuilding
    /\ config = NoConfig

Change == SourcesNext /\ UNCHANGED <<building, config>>

Start ==
    /\ building.spec = 0
    /\ \E n \in DOMAIN manifest : building' = [spec |-> n, since |-> Now]
    /\ UNCHANGED <<sourceVars, config>>

Abandon ==
    /\ building.spec # 0
    /\ building' = NotBuilding
    /\ UNCHANGED <<sourceVars, config>>

Deliver ==
    /\ building.spec # 0
    /\ building.spec >= config.spec
    /\ config'.spec = building.spec /\ Explained(config'.model)
    /\ building' = NotBuilding
    /\ UNCHANGED sourceVars

Withdraw ==
    /\ config.spec # 0
    /\ ~(live /\ manifest[config.spec].uid = Uid)
    /\ config' = NoConfig
    /\ UNCHANGED <<sourceVars, building>>

Next == Change \/ Start \/ Abandon \/ Deliver \/ Withdraw

Spec == Init /\ [][Next]_vars
=============================================================================
