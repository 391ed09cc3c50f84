---------------------------- MODULE Connections ----------------------------
(***************************************************************************)
(* The OAuth connections of organisations to Jira, Linear, Slack and       *)
(* GitLab (oauth.go and client.go of each integration): the callback that  *)
(* exchanges the code, stores tokens and then an installation, the         *)
(* disconnect, and the clients, of which Jira's spends the stored refresh  *)
(* token when its access token is about to expire.                         *)
(*                                                                         *)
(* A refresh token that was spent is refused from then on, its successor   *)
(* comes with the answer.  An access token is named by the refresh token   *)
(* it was issued with, and tokens by the order they were issued in.  The   *)
(* token stores and installation tables are interfaces with stub bodies in *)
(* the repository; they are modelled as what their callers use them for,   *)
(* one row per connection each, any call of which may fail.                *)
(***************************************************************************)
EXTENDS Naturals, FiniteSets

CONSTANTS
    Calls,      \* HTTP requests and users of a client, each a goroutine
    Op,         \* what each call is: see OpsOK
    Clients,    \* Client objects
    ClientConn, \* the connection each was made for
    Conns,      \* pairs of an organisation and a provider
    Provider,   \* the provider of each
    Sites,      \* Atlassian Cloud sites, Linear workspaces
    Tokens,     \* refresh tokens the providers may issue
    NoValue

Providers == {"jira", "linear", "slack", "gitlab"}

ASSUME OpsOK ==
    /\ Tokens \subseteq Nat
    /\ NoValue \notin Tokens \cup Sites \cup Conns \cup Clients \cup Calls
    /\ Provider \in [Conns -> Providers]
    /\ ClientConn \in [Clients -> Conns]
    /\ \A c \in Calls :
        /\ Op[c] \in [kind : {"callback"}, conn : Conns, stateOk : BOOLEAN,
                      code : BOOLEAN, sites : SUBSET Sites]
                \cup [kind : {"disconnect"}, conn : Conns]
                \cup [kind : {"do"}, client : Clients]
        /\ Op[c].kind = "callback" /\ Provider[Op[c].conn] = "linear" => Op[c].sites # {}

VARIABLES
    issued,   \* refresh tokens issued so far
    alive,    \* those their provider still accepts
    store,    \* the token store
    installs, \* the installation tables
    client,   \* the Client objects: site, cached access token, its holder
    call,     \* where each call is
    shown,    \* which clients have shown each refresh token to its provider
    lost      \* spent tokens whose successor no save has stored

connVars == <<issued, alive, store, installs, client, call, shown, lost>>

\* OAuthTokens, CloudID and the refresh token.
Stored == [refresh : Tokens, site : Sites]

Installation == [site : Sites, access : Tokens \cup {NoValue}, revoked : BOOLEAN]

\* A Client: mu is the call that holds its mutex, fresh says that the access
\* token expires in more than five minutes.
ClientState == [site : Sites, access : Tokens \cup {NoValue}, fresh : BOOLEAN,
                mu : Calls \cup {NoValue}]

CallState ==
    [pc : {"none", "start", "exchange", "mark", "get"}]
    \cup [pc : {"sites", "served"}, token : Tokens]
    \cup [pc : {"save", "install", "refresh"}, got : Stored]
    \cup [pc : {"persist"}, got : Stored, new : Tokens]
    \cup [pc : {"answered"}, with : {"connected", "declined", "gone", "error"}]

\* No record is taken for NoValue.
ASSUME NoValueOK == NoValue \notin Stored \cup Installation \cup ClientState

At(c, pc) == call[c].pc = pc

Answer(c, with) == call' = [call EXCEPT ![c] = [pc |-> "answered", with |-> with]]

\* The request a client sends carries this access token.
Serve(c, token) == call' = [call EXCEPT ![c] = [pc |-> "served", token |-> token]]

Go(c, state) == call' = [call EXCEPT ![c] = state]

ConnOf(c) == IF Op[c].kind = "do" THEN ClientConn[Op[c].client] ELSE Op[c].conn

Via(c) == Provider[ConnOf(c)]

ConnInit(active) ==
    /\ issued = {} /\ alive = {} /\ lost = {}
    /\ store = [n \in Conns |-> NoValue]
    /\ installs = [n \in Conns |-> NoValue]
    /\ client = [k \in Clients |-> NoValue]
    /\ call = [c \in Calls |-> [pc |-> IF c \in active THEN "start" ELSE "none"]]
    /\ shown = [t \in Tokens |-> {}]

-----------------------------------------------------------------------------
\* HandleCallback.

\* The state cookie and the code; no code means that the user declined.
CallbackStart(c) ==
    /\ At(c, "start") /\ Op[c].kind = "callback"
    /\ IF ~Op[c].stateOk THEN Answer(c, "error")
       ELSE IF ~Op[c].code THEN Answer(c, "declined")
       ELSE Go(c, [pc |-> "exchange"])
    /\ UNCHANGED <<issued, alive, store, installs, client, shown, lost>>

\* The next token a provider issues.
NewToken == {t \in Tokens \ issued : \A u \in Tokens \ issued : t <= u}

\* What each callback does with the token of its exchangeCode.
JiraExchanged(c, t) == Via(c) = "jira" /\ Go(c, [pc |-> "sites", token |-> t])

LinearExchanged(c, t) == Via(c) = "linear" /\ Go(c, [pc |-> "sites", token |-> t])

\* saveInstallation does nothing.
SlackExchanged(c) == Via(c) = "slack" /\ Answer(c, "connected")

GitLabExchanged(c) == Via(c) = "gitlab" /\ Answer(c, "connected")

\* The provider issues the first token of a new grant.
ExchangeCode(c) ==
    /\ At(c, "exchange")
    /\ \E t \in NewToken :
        /\ issued' = issued \cup {t}
        /\ alive' = alive \cup {t}
        /\ \/ JiraExchanged(c, t) \/ LinearExchanged(c, t)
           \/ SlackExchanged(c) \/ GitLabExchanged(c)
    /\ UNCHANGED <<store, installs, client, shown, lost>>

\* fetchWorkspace: the token's workspace.
WorkspaceFound(c) == Op[c].sites

\* fetchAccessibleResources; a user may have access to no site.
SitesFound_EmptyAccepted(c) == IF Op[c].sites = {} THEN {NoValue} ELSE Op[c].sites

SitesFound(c) == IF Via(c) = "linear" THEN WorkspaceFound(c) ELSE Op[c].sites

\* The first site of the answer is the one connected.
FetchSites(c) ==
    /\ At(c, "sites")
    /\ IF SitesFound(c) = {} THEN Answer(c, "error")
       ELSE \E first \in SitesFound(c) :
                Go(c, [pc |-> "save", got |-> [refresh |-> call[c].token,
                                              site |-> first]])
    /\ UNCHANGED <<issued, alive, store, installs, client, shown, lost>>

Keep(n, tokens) == store' = [store EXCEPT ![n] = tokens]

CallbackSave(c) ==
    /\ At(c, "save")
    /\ Keep(ConnOf(c), call[c].got)
    /\ Go(c, [pc |-> "install", got |-> call[c].got])
    /\ UNCHANGED <<issued, alive, installs, client, shown, lost>>

\* The unique index on org_id, which a revoked installation still occupies.  Only
\* the migration and the tag have it: the Create of Jira's repository stores nothing.
OrgIsTaken_RevokedIsFree(n) == installs[n] # NoValue /\ ~installs[n].revoked

OrgIsTaken(n) == installs[n] # NoValue

NewInstallation(c) == [site |-> call[c].got.site, revoked |-> FALSE, access |-> NoValue]

\* Linear's carries a copy of the access token.
LinearInstallation(c) == [NewInstallation(c) EXCEPT !.access = call[c].got.refresh]

CreateInstallation(c) ==
    /\ At(c, "install")
    /\ LET n == ConnOf(c)
       IN  IF OrgIsTaken(n)
           THEN Answer(c, "error") /\ UNCHANGED installs
           ELSE /\ installs' = [installs EXCEPT ![n] = IF Via(c) = "linear"
                                   THEN LinearInstallation(c) ELSE NewInstallation(c)]
                /\ Answer(c, "connected")
    /\ UNCHANGED <<issued, alive, store, client, shown, lost>>

-----------------------------------------------------------------------------
\* HandleDisconnect.  revokeToken is a stub: Atlassian goes on accepting the
\* tokens, and they stay in the store.  Slack's disconnect does nothing.

DisconnectStart(c) ==
    /\ At(c, "start") /\ Op[c].kind = "disconnect"
    /\ \/ Via(c) = "slack" /\ Answer(c, "gone")
       \/ Via(c) = "jira" /\ Answer(c, "error")
       \/ Via(c) = "jira" /\ store[Op[c].conn] # NoValue /\ Go(c, [pc |-> "mark"])
    /\ UNCHANGED <<issued, alive, store, installs, client, shown, lost>>

MarkRevoked(c) ==
    /\ At(c, "mark")
    /\ installs' = [installs EXCEPT ![Op[c].conn] =
                       IF @ = NoValue THEN @ ELSE [@ EXCEPT !.revoked = TRUE]]
    /\ Answer(c, "gone")
    /\ UNCHANGED <<issued, alive, store, client, shown, lost>>

-----------------------------------------------------------------------------
\* The clients.

\* ForOrg: every call of it makes a Client of its own, with its own mutex.
JiraClient(n) == [site |-> store[n].site, access |-> NoValue, fresh |-> FALSE, mu |-> NoValue]

\* A Linear client takes its access token from the installation.
LinearClient(n) ==
    [site |-> installs[n].site, access |-> installs[n].access, fresh |-> TRUE, mu |-> NoValue]

ForOrg(k) ==
    LET n == ClientConn[k]
    IN  /\ client[k] = NoValue
        /\ \/ /\ Provider[n] = "jira" /\ store[n] # NoValue
              /\ client' = [client EXCEPT ![k] = JiraClient(n)]
           \/ /\ Provider[n] = "linear" /\ installs[n] # NoValue
              /\ client' = [client EXCEPT ![k] = LinearClient(n)]
        /\ UNCHANGED <<issued, alive, store, installs, call, shown, lost>>

MuFree_NoMutex(k) == TRUE

MuFree(k) == client[k].mu = NoValue

\* validAccessToken: the mutex, and the cached token if it will do.  (Linear's
\* Do has neither: it sends the token it was made with.)
ValidAccessToken(c) ==
    /\ At(c, "start") /\ Op[c].kind = "do"
    /\ LET k == Op[c].client
       IN  /\ client[k] # NoValue
           /\ MuFree(k)
           /\ IF client[k].fresh
              THEN Serve(c, client[k].access) /\ UNCHANGED client
              ELSE /\ client' = [client EXCEPT ![k].mu = c]
                   /\ Go(c, [pc |-> "get"])
    /\ UNCHANGED <<issued, alive, store, installs, shown, lost>>

GetTokens(c) ==
    /\ At(c, "get")
    /\ Go(c, [pc |-> "refresh", got |-> store[ConnOf(c)]])
    /\ UNCHANGED <<issued, alive, store, installs, client, shown, lost>>

\* refreshAccessToken, as Atlassian carries it out: the token is spent, and
\* the call has the answer (heard) or the answer is lost on the way.
RefreshAccessToken(c, heard) ==
    /\ At(c, "refresh")
    /\ LET t == call[c].got.refresh
           k == Op[c].client
       IN  /\ t \in alive
           /\ shown' = [shown EXCEPT ![t] = @ \cup {k}]
           /\ \E new \in NewToken :
                /\ issued' = issued \cup {new}
                /\ alive' = (alive \ {t}) \cup {new}
                /\ IF heard
                   THEN /\ Go(c, [pc |-> "persist", got |-> call[c].got,
                                  new |-> new])
                        /\ UNCHANGED <<client, lost>>
                   ELSE /\ Answer(c, "error")
                        /\ client' = [client EXCEPT ![k].mu = NoValue]
                        /\ lost' = lost \cup {t}
    /\ UNCHANGED <<store, installs>>

\* Atlassian refuses a token that was spent before.
RefreshRefused(c) ==
    /\ At(c, "refresh")
    /\ LET t == call[c].got.refresh
           k == Op[c].client
       IN  /\ t \notin alive
           /\ shown' = [shown EXCEPT ![t] = @ \cup {k}]
           /\ client' = [client EXCEPT ![k].mu = NoValue]
    /\ Answer(c, "error")
    /\ UNCHANGED <<issued, alive, store, installs, lost>>

\* What SaveTokens is given: the new pair under the site it was read with.
Refreshed_OldRefreshToken(got, new) == got

Refreshed(got, new) == [got EXCEPT !.refresh = new]

\* A save that fails is only logged; the client keeps the token either way.
\* expires_in may be short enough for the token not to be fresh at all.
PersistTokens(c, saved) ==
    /\ At(c, "persist")
    /\ IF saved
       THEN Keep(ConnOf(c), Refreshed(call[c].got, call[c].new)) /\ UNCHANGED lost
       ELSE lost' = lost \cup {call[c].got.refresh} /\ UNCHANGED store
    /\ \E fresh \in BOOLEAN :
        client' = [client EXCEPT ![Op[c].client] =
                      [@ EXCEPT !.access = call[c].new, !.fresh = fresh,
                                !.mu = NoValue]]
    /\ Serve(c, call[c].new)
    /\ UNCHANGED <<issued, alive, installs, shown>>

Expire(k) ==
    /\ client[k] # NoValue
    /\ client[k].fresh /\ Provider[ClientConn[k]] = "jira"
    /\ client' = [client EXCEPT ![k].fresh = FALSE]
    /\ UNCHANGED <<issued, alive, store, installs, call, shown, lost>>

\* A request or a statement fails: the handler answers with an error, the
\* client releases its mutex.
CallFails(c) ==
    /\ call[c].pc \in {"exchange", "sites", "save", "install", "mark", "get",
                       "refresh"}
    /\ Answer(c, "error")
    /\ client' = IF Op[c].kind = "do"
                 THEN [client EXCEPT ![Op[c].client].mu = NoValue]
                 ELSE client
    /\ UNCHANGED <<issued, alive, store, installs, shown, lost>>

\* The process dies, with its clients and its calls.
ConnCrash ==
    /\ client' = [k \in Clients |-> NoValue]
    /\ call' = [c \in Calls |-> IF call[c].pc \in {"none", "start", "answered", "served"}
                               THEN call[c] ELSE [pc |-> "none"]]
    /\ lost' = lost \cup {call[c].got.refresh : c \in {d \in Calls : At(d, "persist")}}
    /\ UNCHANGED <<issued, alive, store, installs, shown>>

ConnStep(c) ==
    \/ CallbackStart(c) \/ ExchangeCode(c) \/ FetchSites(c) \/ CallbackSave(c)
    \/ CreateInstallation(c)
    \/ DisconnectStart(c) \/ MarkRevoked(c)
    \/ ValidAccessToken(c) \/ GetTokens(c)
    \/ \E heard \in BOOLEAN : RefreshAccessToken(c, heard)
    \/ RefreshRefused(c)
    \/ \E saved \in BOOLEAN : PersistTokens(c, saved)
    \/ CallFails(c)

ConnNext ==
    \/ \E c \in Calls : ConnStep(c)
    \/ \E k \in Clients : ForOrg(k) \/ Expire(k)
    \/ ConnCrash

ConnSpec == (\E active \in SUBSET Calls : ConnInit(active)) /\ [][ConnNext]_connVars

ConnTypeOK ==
    /\ issued \subseteq Tokens /\ alive \subseteq issued /\ lost \subseteq Tokens
    /\ store \in [Conns -> Stored \cup {NoValue}]
    /\ installs \in [Conns -> Installation \cup {NoValue}]
    /\ client \in [Clients -> ClientState \cup {NoValue}]
    /\ call \in [Calls -> CallState]
    /\ shown \in [Tokens -> SUBSET Clients]

-----------------------------------------------------------------------------
(* Properties.                                                             *)

\* The refresh token in the store can still be spent, unless the call that
\* spent it is about to save its successor, or that successor was lost: its
\* answer, its save, or the process between the two.
StoredTokenUsable ==
    \A n \in Conns :
        store[n] # NoValue =>
            \/ store[n].refresh \in alive \cup lost
            \/ \E c \in Calls : /\ At(c, "persist")
                                /\ ConnOf(c) = n
                                /\ call[c].got.refresh = store[n].refresh

\* The mutex of validAccessToken: a refresh token that only one client has
\* shown to Atlassian is not shown by it again, unless the first answer was
\* lost or could not be saved.  (Two clients of one organisation may both show
\* it: ForOrg gives each its own mutex.)
ShownOncePerClient ==
    \A c \in Calls :
        /\ At(c, "refresh")
        /\ shown[call[c].got.refresh] = {Op[c].client}
        => call[c].got.refresh \in lost

\* An organisation is told "connected" to Jira or Linear once: a second
\* callback, also one after a disconnect, saves its tokens and then fails on
\* the installation's key (nothing is said of the tokens it leaves behind).
ConnectedOnce ==
    \A c1, c2 \in Calls :
        /\ call[c1] = [pc |-> "answered", with |-> "connected"]
        /\ call[c2] = [pc |-> "answered", with |-> "connected"]
        /\ ConnOf(c1) = ConnOf(c2)
        /\ Via(c1) \in {"jira", "linear"}
        => c1 = c2
=============================================================================
