---------------------------- MODULE SecretClaims ----------------------------
(***************************************************************************)
(* A sentence of the samples' documentation, as a property of the config   *)
(* Secret builder, and the behaviour of the code that breaks it.           *)
(***************************************************************************)
EXTENDS MCGobackupSecret

\* "When both direct value and SecretRef are provided, SecretRef takes
\* precedence": no value of the Secret was copied from a version of an object
\* that also gives it by reference.
RefTakesPrecedence ==
    \A o \in DOMAIN secret.config.model : \A f \in DOMAIN secret.config.model[o] :
        LET value == secret.config.model[o][f]
        IN  value.source \in Objects => f \notin world[value.source][value.version].refs
=============================================================================
