---------------------------- MODULE SecretsCache ----------------------------
(***************************************************************************)
(* services/secrets_service.py: the credentials for Betfair, fetched one   *)
(* secret at a time and cached for the life of the process.                *)
(*                                                                         *)
(* The callers are threads.  The lock covers the look into the cache and   *)
(* the store into it, each on its own: between the two another thread may  *)
(* fetch the same secret, and somebody may rotate it.  The bundle is then  *)
(* read from the cache part by part without the lock.                      *)
(***************************************************************************)
EXTENDS Naturals

CONSTANTS
    Callers,       \* the jobs that may ask for credentials
    NumSecrets     \* the length of _BETFAIR_SECRETS

ASSUME NumSecretsAssumption == NumSecrets \in Nat \ {0}

VARIABLES
    latest,         \* Secret Manager: the latest version of each secret
    bornWith,       \* history: the latest versions when the process started
    secretCache,    \* SecretsService._cache, 0 for a secret not cached
    fetch           \* where get_betfair_credentials stands for a caller

secretsVars == <<latest, bornWith, secretCache, fetch>>

Secrets == 1 .. NumSecrets

\* Nobody asks; `bundle` holds the parts of the credentials read so far.
NoFetch == [doing |-> "nothing", at |-> 1, value |-> 0,
            bundle |-> [s \in Secrets |-> 0]]
Fetch == [doing : {"nothing", "check", "access", "store", "build", "ready"},
          at : Secrets, value : Nat, bundle : [Secrets -> Nat]]

SecretsTypeOK ==
    /\ latest \in [Secrets -> Nat \ {0}]
    /\ bornWith \in [Secrets -> Nat \ {0}]
    /\ secretCache \in [Secrets -> Nat]
    /\ fetch \in [Callers -> Fetch]

SecretsInit ==
    /\ latest = [s \in Secrets |-> 1]
    /\ bornWith = latest
    /\ secretCache = [s \in Secrets |-> 0]
    /\ fetch = [c \in Callers |-> NoFetch]

\* A new process starts with an empty cache.
SecretsRestart ==
    /\ bornWith' = latest
    /\ secretCache' = [s \in Secrets |-> 0]
    /\ fetch' = [c \in Callers |-> NoFetch]
    /\ UNCHANGED latest

\* Somebody adds a version to a secret.
Rotate(s) ==
    /\ latest' = [latest EXCEPT ![s] = @ + 1]
    /\ UNCHANGED <<bornWith, secretCache, fetch>>

-----------------------------------------------------------------------------
StartFetch(c) == fetch' = [fetch EXCEPT ![c] = [NoFetch EXCEPT !.doing = "check"]]
EndFetch(c) == fetch' = [fetch EXCEPT ![c] = NoFetch]
Ready(c) == fetch[c].doing = "ready"

\* get_secret() returned: on to the next secret, or to the bundle.
NextSecret(f) ==
    IF f.at < NumSecrets THEN [f EXCEPT !.doing = "check", !.at = @ + 1]
                         ELSE [f EXCEPT !.doing = "build", !.at = 1]

\* Mutant: every call goes to Secret Manager.
NeverCached(s) == FALSE

\* self._cache.get(secret_id) is not None
Cached(s) == secretCache[s] # 0

\* The first locked section of get_secret().
CheckCache(c) ==
    /\ fetch[c].doing = "check"
    /\ LET f == fetch[c]
       IN  fetch' = [fetch EXCEPT ![c] = IF Cached(f.at) THEN NextSecret(f)
                                         ELSE [f EXCEPT !.doing = "access"]]
    /\ UNCHANGED <<latest, bornWith, secretCache>>

\* Mutant: a pinned version instead of the alias.
FirstVersion(s) == 1

\* access_secret_version of .../versions/latest
LatestVersion(s) == latest[s]

AccessSecret(c) ==
    /\ fetch[c].doing = "access"
    /\ fetch' = [fetch EXCEPT ![c].doing = "store",
                              ![c].value = LatestVersion(fetch[c].at)]
    /\ UNCHANGED <<latest, bornWith, secretCache>>

\* The second locked section.
StoreSecret(c) ==
    /\ fetch[c].doing = "store"
    /\ secretCache' = [secretCache EXCEPT ![fetch[c].at] = fetch[c].value]
    /\ fetch' = [fetch EXCEPT ![c] = NextSecret([fetch[c] EXCEPT !.value = 0])]
    /\ UNCHANGED <<latest, bornWith>>

\* One argument of BetfairCredentials(...); the last one makes the bundle.
BuildBundle(c) ==
    /\ fetch[c].doing = "build"
    /\ LET f == fetch[c]
           b == [f EXCEPT !.bundle[f.at] = secretCache[f.at]]
       IN  fetch' = [fetch EXCEPT ![c] =
                        IF f.at < NumSecrets THEN [b EXCEPT !.at = @ + 1]
                                             ELSE [b EXCEPT !.doing = "ready"]]
    /\ UNCHANGED <<latest, bornWith, secretCache>>

FetchStep(c) == CheckCache(c) \/ AccessSecret(c) \/ StoreSecret(c) \/ BuildBundle(c)

-----------------------------------------------------------------------------
(* Properties.                                                             *)

\* secrets_service.py:5: cached "for the lifetime of the container", and
\* "short-lived enough to respect rotation".  Whatever the threads do, the
\* bundle somebody logs in with is complete, and each part of it was the
\* latest version at some moment of this process's life.
BundleOfThisProcess ==
    \A c \in Callers : Ready(c) =>
        \A s \in Secrets : fetch[c].bundle[s] \in bornWith[s] .. latest[s]

\* A thread that looked before the cache was filled may still store its own
\* value, older or newer, over what is there.
MayStore(c) == fetch[c].doing \in {"access", "store"}
Settled == (\A s \in Secrets : secretCache[s] # 0) /\ \A c \in Callers : ~MayStore(c)

\* Once every secret is cached and no such thread is left, the credentials
\* do not change any more until the process ends: every later job logs in
\* with the same bundle.
SettledCacheStays ==
    [][Settled => (secretCache' = secretCache /\ Settled') \/ SecretsRestart]_secretsVars

=============================================================================
