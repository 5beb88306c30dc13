-------------------------- MODULE MCCredentialBroker --------------------------
(***************************************************************************)
(* Small instances of CredentialBroker for TLC.                            *)
(***************************************************************************)
EXTENDS CredentialBroker, TLC

\* Every driver under its own name; any other target falls back to generic.
OwnNames == [t \in Target |-> IF t \in Driver THEN t ELSE None]

AllTargets == Driver \cup {"prod_db"}

GenericAndRedis == {"generic_token", "redis"}

NoRegistration == {}
AliasOfGeneric == {<<"prod_db", "generic_token">>}
NoFailures == {}
RedisFails == {"redis"}
BackendsFail == {"postgres", "redis"}
DefaultOnly == {0}

ASSUME NamesAreStable == StableNames

CallerSymmetry == Permutations(Caller)

===============================================================================
