----------------------------- MODULE GitHubApp -----------------------------
(***************************************************************************)
(* The GitHub App client (src/internal/integrations/github/app.go): users  *)
(* of an installation ask for a client, which sends the installation token *)
(* of a shared cache or mints one.  Load, the request to GitHub and Store  *)
(* are three steps, and nothing keeps two users from minting at once.      *)
(*                                                                         *)
(* A token is named by the time it expires at; 0 is no token.              *)
(***************************************************************************)
EXTENDS Naturals

CONSTANTS
    Apps,     \* installations of the GitHub App
    Users,    \* callers of InstallationClient
    AppOf,    \* the installation each asks for
    Life,     \* how long GitHub lets a token live (an hour)
    Margin,   \* how long before its end the cache stops serving it (5 minutes)
    JWTLife,  \* how long the App's own JWT lives (8 minutes)
    MaxNow    \* bound: the clock stops here

ASSUME AppAssumption ==
    /\ AppOf \in [Users -> Apps]
    /\ Life \in Nat /\ Margin \in Nat /\ JWTLife \in Nat /\ MaxNow \in Nat
    /\ Margin < Life /\ 1 \leq MaxNow

VARIABLES
    now,     \* the clock, from 1
    cache,   \* tokenCache, a token for each installation
    removed, \* when GitHub removed or suspended each installation, 0 if not
    user     \* where each user is

appVars == <<now, cache, removed, user>>

Times == 0 .. MaxNow + Life + JWTLife

UserState ==
    [pc : {"idle", "ready", "failed"}]
    \cup [pc : {"mint"}, jwt : Times]
    \cup [pc : {"store", "served"}, at : Times, exp : Times]

AppInit(active) ==
    /\ now = 1
    /\ cache = [i \in Apps |-> 0]
    /\ removed = [i \in Apps |-> 0]
    /\ user = [u \in Users |-> [pc |-> IF u \in active THEN "ready" ELSE "idle"]]

IsValid_NoMargin(exp) == now < exp

\* isValid, of no token too.
IsValid(exp) == now + Margin < exp

\* The cache is asked first; without a valid token the App signs its JWT.
LoadToken(u) ==
    /\ user[u].pc = "ready"
    /\ LET exp == cache[AppOf[u]]
       IN  user' = [user EXCEPT ![u] =
                       IF IsValid(exp) THEN [pc |-> "served", at |-> now, exp |-> exp]
                       ELSE [pc |-> "mint", jwt |-> now + JWTLife]]
    /\ UNCHANGED <<now, cache, removed>>

\* CreateInstallationToken, while GitHub still knows the installation.
MintToken(u) ==
    /\ user[u].pc = "mint"
    /\ now < user[u].jwt
    /\ removed[AppOf[u]] = 0
    /\ user' = [user EXCEPT ![u] = [pc |-> "store", at |-> now, exp |-> now + Life]]
    /\ UNCHANGED <<now, cache, removed>>

\* The installation is gone, the JWT too old, or the request fails.
MintFails(u) ==
    /\ user[u].pc = "mint"
    /\ user' = [user EXCEPT ![u] = [pc |-> "failed"]]
    /\ UNCHANGED <<now, cache, removed>>

StoreToken(u) ==
    /\ user[u].pc = "store"
    /\ cache' = [cache EXCEPT ![AppOf[u]] = user[u].exp]
    /\ user' = [user EXCEPT ![u].pc = "served"]
    /\ UNCHANGED <<now, removed>>

\* The user comes back for another client.
AskAgain(u) ==
    /\ user[u].pc \in {"served", "failed"}
    /\ user' = [user EXCEPT ![u] = [pc |-> "ready"]]
    /\ UNCHANGED <<now, cache, removed>>

\* Bound: time and removals count only where a user is there to notice them.
Noticed == \E u \in Users : user[u].pc # "idle"

Tick ==
    /\ now < MaxNow /\ Noticed
    /\ now' = now + 1
    /\ UNCHANGED <<cache, removed, user>>

\* GitHub's side of an uninstallation or a suspension.
Remove(i) ==
    /\ removed[i] = 0 /\ Noticed
    /\ removed' = [removed EXCEPT ![i] = now]
    /\ UNCHANGED <<now, cache, user>>

\* The process dies, with its cache.
AppCrash ==
    /\ cache' = [i \in Apps |-> 0]
    /\ user' = [u \in Users |-> IF user[u].pc = "idle" THEN user[u] ELSE [pc |-> "ready"]]
    /\ UNCHANGED <<now, removed>>

AppStep(u) ==
    \/ LoadToken(u) \/ MintToken(u) \/ MintFails(u) \/ StoreToken(u) \/ AskAgain(u)

AppNext ==
    \/ \E u \in Users : AppStep(u)
    \/ \E i \in Apps : Remove(i)
    \/ Tick
    \/ AppCrash

AppSpec == (\E active \in SUBSET Users : AppInit(active)) /\ [][AppNext]_appVars

AppTypeOK ==
    /\ now \in 1 .. MaxNow
    /\ cache \in [Apps -> Times]
    /\ removed \in [Apps -> Times]
    /\ user \in [Users -> UserState]

-----------------------------------------------------------------------------
(* Properties.                                                             *)

\* The webhook that reports a removal does not clear the cache.  Even so no
\* client is given a token of a removed installation once the last token
\* minted before the removal is within the margin of its end.
RevocationTakesEffect ==
    \A u \in Users :
        user[u].pc = "served" /\ removed[AppOf[u]] # 0
        => user[u].at + Margin < removed[AppOf[u]] + Life
=============================================================================
