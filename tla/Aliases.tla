------------------------------- MODULE Aliases -------------------------------
(* How an alias names a connection manager or a registry (utils.py). *)
EXTENDS FiniteSets

CONSTANT NoAlias  \* no alias was given: using=None, --using omitted

\* resolve_alias(): the alias meant, NoAlias when it raises ImproperlyConfigured.
\* known holds the configured aliases, none before ready().
Resolve(known, using) ==
    IF using \in known THEN using
    ELSE IF using = NoAlias /\ Cardinality(known) = 1 THEN CHOOSE a \in known : TRUE
    ELSE NoAlias

\* Faulty: --using as it is, also when it is omitted
AsksAsGiven(known, using) == {using}

\* The aliases a command works on
Asked(known, using) == IF using = NoAlias THEN known ELSE {using}

=============================================================================
