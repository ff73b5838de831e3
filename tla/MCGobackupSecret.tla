-------------------------- MODULE MCGobackupSecret --------------------------
(***************************************************************************)
(* A Backup of one database to one FTP storage.  The database takes its    *)
(* user and its password from one credential Secret, or gives the password *)
(* itself.                                                                 *)
(***************************************************************************)
EXTENDS GobackupSecret

Given(direct, refs) == [there |-> TRUE, direct |-> direct, refs |-> refs]

\* Both from one Secret, which may change between the two reads.
ByReference == Given({"type"}, {"user", "password"})

\* An FTP storage that gives its password both ways.
BothWays == Given({"password"}, {"password"})

\* The password only, as a value.
ByValue == Given({"type", "password"}, {})

Plain == Given({"keep"}, {})

MCConfigs == [o \in Objects |-> IF o = "db" THEN {ByReference, ByValue} ELSE {Plain}]

MCBothWays == [o \in Objects |-> IF o = "db" THEN {ByValue} ELSE {BothWays}]

MCCredentialOf == [f \in Fields |-> "login"]

MCMaxVersions == [s \in Sources |-> IF s = "ftp" THEN 1 ELSE 2]

\* The storage is listed twice: the last reference to it counts.
MCSpecs ==
    {<<[name |-> "db", overrides |-> {}], [name |-> "ftp", overrides |-> {"type"}],
       [name |-> "ftp", overrides |-> {"type", "keep"}]>>}
=============================================================================
