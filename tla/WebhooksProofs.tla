--------------------------- MODULE WebhooksProofs ---------------------------
(***************************************************************************)
(* Proofs about the connections, the GitHub App and the webhook receivers, *)
(* for any calls, clients, users and deliveries.                           *)
(*                                                                         *)
(* That the stored refresh token can be spent rests on who holds a token.  *)
(* A token is fresh from its issue until it is stored: one call has it,    *)
(* and nobody can spend it.  Once stored it belongs to one connection, and *)
(* once it left the store it never comes back.  With the mutex of each     *)
(* client this also shows which token a client may show twice.             *)
(***************************************************************************)
EXTENDS Webhooks, TLAPS

-----------------------------------------------------------------------------
\* The GitHub App.

\* A token that lives no longer than one minted now, nor than one minted when
\* its installation was removed.
Lives(i, exp) == exp <= now + Life /\ (removed[i] # 0 => exp <= removed[i] + Life)

AppIInv ==
    /\ AppTypeOK
    /\ \A i \in Apps : removed[i] <= now /\ Lives(i, cache[i])
    /\ \A u \in Users : user[u].pc \in {"store", "served"} =>
           user[u].at + Margin < user[u].exp /\ Lives(AppOf[u], user[u].exp)

LEMMA AppInitEstablishes ==
    ASSUME NEW active \in SUBSET Users, AppInit(active)
    PROVE  AppIInv
  BY AppAssumption DEF AppInit, AppIInv, AppTypeOK, Lives, Times, UserState

LEMMA AppStepKeeps ==
    ASSUME AppIInv, NEW u \in Users, AppStep(u)
    PROVE  AppIInv'
  <1> USE AppAssumption DEF AppIInv, AppTypeOK, Times, Lives
  <1> AppOf[u] \in Apps
    OBVIOUS
  <1>1. CASE LoadToken(u)
    BY <1>1 DEF LoadToken, IsValid, UserState
  <1>2. CASE MintToken(u)
    BY <1>2 DEF MintToken, UserState
  <1>3. CASE MintFails(u)
    BY <1>3 DEF MintFails, UserState
  <1>4. CASE StoreToken(u)
    BY <1>4 DEF StoreToken, UserState
  <1>5. CASE AskAgain(u)
    BY <1>5 DEF AskAgain, UserState
  <1> QED BY <1>1, <1>2, <1>3, <1>4, <1>5 DEF AppStep

LEMMA AppEnvironmentKeeps ==
    ASSUME AppIInv, Tick \/ AppCrash \/ \E i \in Apps : Remove(i)
    PROVE  AppIInv'
  <1> USE AppAssumption DEF AppIInv, AppTypeOK, Times, Lives
  <1>1. CASE Tick
    BY <1>1 DEF Tick, UserState
  <1>2. CASE AppCrash
    BY <1>2 DEF AppCrash, UserState
  <1>3. ASSUME NEW i \in Apps, Remove(i)
        PROVE  AppIInv'
    BY <1>3 DEF Remove, UserState
  <1> QED BY <1>1, <1>2, <1>3

LEMMA AppUnchanged ==
    ASSUME AppIInv, UNCHANGED appVars
    PROVE  AppIInv'
  BY DEF AppIInv, AppTypeOK, Lives, appVars, Times, UserState

LEMMA AppRevocation == AppIInv => RevocationTakesEffect
  BY AppAssumption DEF AppIInv, AppTypeOK, Lives, RevocationTakesEffect, Times, UserState

-----------------------------------------------------------------------------
\* The connections: their shape.

\* A client's user that is between the mutex and its release.
Using(c) == call[c].pc \in {"get", "refresh", "persist"}

KindsOK ==
    \A c \in Calls :
        /\ call[c].pc \in {"exchange", "sites", "save", "install"} => Op[c].kind = "callback"
        /\ call[c].pc \in {"sites", "save", "install"} => Via(c) \in {"jira", "linear"}
        /\ At(c, "mark") => Op[c].kind = "disconnect"
        /\ Using(c) => /\ Op[c].kind = "do" /\ Via(c) = "jira"
                       /\ store[ConnOf(c)] # NoValue

ClientsOK ==
    \A k \in Clients : client[k] # NoValue =>
        /\ \/ Provider[ClientConn[k]] = "jira" /\ store[ClientConn[k]] # NoValue
           \/ Provider[ClientConn[k]] = "linear" /\ client[k].fresh
        /\ client[k].fresh => client[k].access \in Tokens

InstallsOK ==
    \A n \in Conns : installs[n] # NoValue /\ Provider[n] = "linear"
                     => installs[n].access \in Tokens

\* One user at a time of each client.
MutexOK ==
    \A c \in Calls : Using(c) =>
        client[Op[c].client] # NoValue /\ client[Op[c].client].mu = c

Shape == ConnTypeOK /\ KindsOK /\ ClientsOK /\ InstallsOK /\ MutexOK

\* What a call carries, by its place.
LEMMA CallCarries ==
    ASSUME ConnTypeOK, NEW c \in Calls
    PROVE  /\ At(c, "sites") => call[c].token \in Tokens
           /\ call[c].pc \in {"save", "install", "refresh", "persist"} =>
                 /\ call[c].got \in Stored
                 /\ call[c].got.refresh \in Tokens
                 /\ call[c].got.site \in Sites
           /\ At(c, "persist") => call[c].new \in Tokens
  BY DEF ConnTypeOK, CallState, At, Stored

\* Who a call is for, by its kind.
LEMMA CallIsFor ==
    ASSUME NEW c \in Calls
    PROVE  /\ ConnOf(c) \in Conns /\ Via(c) \in Providers
           /\ Op[c].kind = "do" => Op[c].client \in Clients /\ ConnOf(c) = ClientConn[Op[c].client]
           /\ Op[c].kind # "do" => Op[c].conn = ConnOf(c)
           /\ Op[c].kind = "callback" => Op[c].sites \subseteq Sites
           /\ Op[c].kind \in {"callback", "disconnect", "do"}
  BY OpsOK DEF ConnOf, Via

LEMMA ConnInitShape ==
    ASSUME NEW active \in SUBSET Calls, ConnInit(active)
    PROVE  Shape
  BY OpsOK DEF ConnInit, Shape, ConnTypeOK, CallState, KindsOK, ClientsOK, InstallsOK, MutexOK,
               Using, At

\* A call moves on to a place where it holds no mutex, and nothing else changes
\* that the shape is about.
LEMMA CallbackMoves ==
    ASSUME Shape, NEW c \in Calls, NEW state \in CallState, Go(c, state), Op[c].kind # "do",
           state.pc \notin {"get", "refresh", "persist"},
           state.pc \in {"exchange", "sites", "save", "install"} => Op[c].kind = "callback",
           state.pc \in {"sites", "save", "install"} => Via(c) \in {"jira", "linear"},
           state.pc = "mark" => Op[c].kind = "disconnect",
           UNCHANGED client,
           \A n \in Conns : store[n] # NoValue => store'[n] # NoValue
    PROVE  /\ call' \in [Calls -> CallState]
           /\ client' \in [Clients -> ClientState \cup {NoValue}]
           /\ (KindsOK /\ ClientsOK /\ MutexOK)'
  <1> USE CallIsFor
  <1>1. call \in [Calls -> CallState]
    BY DEF Shape, ConnTypeOK
  <1>2. /\ call' \in [Calls -> CallState]
        /\ call'[c] = state /\ \A d \in Calls \ {c} : call'[d] = call[d]
    BY <1>1 DEF Go
  <1>3. client' \in [Clients -> ClientState \cup {NoValue}]
    BY DEF Shape, ConnTypeOK
  <1>4. KindsOK'
    BY <1>2 DEF Shape, KindsOK, Using, At
  <1>5. ClientsOK'
    BY OpsOK DEF Shape, ClientsOK
  <1>6. MutexOK'
    BY <1>2 DEF Shape, MutexOK, Using
  <1> QED BY <1>2, <1>3, <1>4, <1>5, <1>6

LEMMA StatesOfCalls ==
    /\ \A with \in {"connected", "declined", "gone", "error"} :
          [pc |-> "answered", with |-> with] \in CallState
    /\ \A pc \in {"none", "exchange", "mark", "get"} : [pc |-> pc] \in CallState
    /\ \A pc \in {"sites", "served"}, t \in Tokens : [pc |-> pc, token |-> t] \in CallState
    /\ \A pc \in {"save", "install", "refresh"}, got \in Stored :
          [pc |-> pc, got |-> got] \in CallState
    /\ \A got \in Stored, new \in Tokens :
          [pc |-> "persist", got |-> got, new |-> new] \in CallState
  BY DEF CallState

LEMMA CallbackAnswers ==
    ASSUME Shape, NEW c \in Calls, NEW with \in {"connected", "declined", "gone", "error"},
           Answer(c, with), Op[c].kind # "do", UNCHANGED <<client, store>>
    PROVE  /\ call' \in [Calls -> CallState]
           /\ client' \in [Clients -> ClientState \cup {NoValue}]
           /\ (KindsOK /\ ClientsOK /\ MutexOK)'
  <1> DEFINE state == [pc |-> "answered", with |-> with]
  <1>1. state \in CallState /\ state.pc = "answered"
    BY StatesOfCalls
  <1>2. Go(c, state)
    BY DEF Answer, Go
  <1> HIDE DEF state
  <1> QED BY <1>1, <1>2, CallbackMoves

LEMMA CallbackKeepsShape ==
    ASSUME Shape, NEW c \in Calls,
           CallbackStart(c) \/ ExchangeCode(c) \/ FetchSites(c) \/ CallbackSave(c)
           \/ CreateInstallation(c)
    PROVE  Shape'
  <1>0. KindsOK /\ ConnTypeOK /\ InstallsOK
    BY DEF Shape
  <1>1. CASE CallbackStart(c)
    <2>1. Op[c].kind = "callback"
      BY <1>1 DEF CallbackStart
    <2>2. /\ call' \in [Calls -> CallState]
          /\ client' \in [Clients -> ClientState \cup {NoValue}]
          /\ (KindsOK /\ ClientsOK /\ MutexOK)'
      <3> DEFINE state == [pc |-> "exchange"]
      <3>1. state \in CallState /\ state.pc = "exchange"
        BY StatesOfCalls
      <3>2. Go(c, state) \/ Answer(c, "error") \/ Answer(c, "declined")
        BY <1>1 DEF CallbackStart
      <3> HIDE DEF state
      <3>3. UNCHANGED <<client, store>>
        BY <1>1 DEF CallbackStart
      <3> QED BY <2>1, <3>1, <3>2, <3>3, CallbackMoves, CallbackAnswers
    <2> QED BY <1>0, <1>1, <2>2 DEF CallbackStart, ConnTypeOK, InstallsOK, Shape
  <1>2. CASE ExchangeCode(c)
    <2>1. PICK t \in NewToken :
             /\ issued' = issued \cup {t} /\ alive' = alive \cup {t}
             /\ \/ JiraExchanged(c, t) \/ LinearExchanged(c, t)
                \/ SlackExchanged(c) \/ GitLabExchanged(c)
      BY <1>2 DEF ExchangeCode
    <2>2. t \in Tokens
      BY DEF NewToken
    <2>3. Op[c].kind = "callback"
      BY <1>0, <1>2 DEF ExchangeCode, KindsOK, At
    <2>4. /\ call' \in [Calls -> CallState]
          /\ client' \in [Clients -> ClientState \cup {NoValue}]
          /\ (KindsOK /\ ClientsOK /\ MutexOK)'
      <3> DEFINE state == [pc |-> "sites", token |-> t]
      <3>1. state \in CallState /\ state.pc = "sites"
        BY <2>2, StatesOfCalls
      <3>2. (Go(c, state) /\ Via(c) \in {"jira", "linear"}) \/ Answer(c, "connected")
        BY <2>1 DEF JiraExchanged, LinearExchanged, SlackExchanged, GitLabExchanged
      <3> HIDE DEF state
      <3>3. UNCHANGED <<client, store>>
        BY <1>2 DEF ExchangeCode
      <3> QED BY <2>3, <3>1, <3>2, <3>3, CallbackMoves, CallbackAnswers
    <2> QED BY <1>0, <1>2, <2>1, <2>2, <2>4 DEF ExchangeCode, ConnTypeOK, InstallsOK, Shape
  <1>3. CASE FetchSites(c)
    <2>1. Op[c].kind = "callback" /\ Via(c) \in {"jira", "linear"} /\ call[c].token \in Tokens
      BY <1>0, <1>3, CallCarries DEF FetchSites, KindsOK, At
    <2>2. SitesFound(c) \subseteq Sites
      BY <2>1, CallIsFor DEF SitesFound, WorkspaceFound
    <2>3. /\ call' \in [Calls -> CallState]
          /\ client' \in [Clients -> ClientState \cup {NoValue}]
          /\ (KindsOK /\ ClientsOK /\ MutexOK)'
      <3>1. UNCHANGED <<client, store>>
        BY <1>3 DEF FetchSites
      <3>2. CASE Answer(c, "error")
        BY <2>1, <3>1, <3>2, CallbackAnswers
      <3>3. ASSUME NEW first \in SitesFound(c),
                   Go(c, [pc |-> "save", got |-> [refresh |-> call[c].token, site |-> first]])
            PROVE  /\ call' \in [Calls -> CallState]
                   /\ client' \in [Clients -> ClientState \cup {NoValue}]
                   /\ (KindsOK /\ ClientsOK /\ MutexOK)'
        <4> DEFINE got == [refresh |-> call[c].token, site |-> first]
                   state == [pc |-> "save", got |-> got]
        <4>1. got \in Stored
          BY <2>1, <2>2 DEF Stored
        <4>2. state \in CallState /\ state.pc = "save"
          BY <4>1, StatesOfCalls
        <4>3. Go(c, state)
          BY <3>3
        <4> HIDE DEF state
        <4> QED BY <2>1, <3>1, <4>2, <4>3, CallbackMoves
      <3> QED BY <1>3, <3>2, <3>3 DEF FetchSites
    <2> QED BY <1>0, <1>3, <2>3 DEF FetchSites, ConnTypeOK, InstallsOK, Shape
  <1>4. CASE CallbackSave(c)
    <2>1. Op[c].kind = "callback" /\ Via(c) \in {"jira", "linear"} /\ call[c].got \in Stored
      BY <1>0, <1>4, CallCarries DEF CallbackSave, KindsOK, At
    <2>2. /\ store' \in [Conns -> Stored \cup {NoValue}]
          /\ \A n \in Conns : store[n] # NoValue => store'[n] # NoValue
      BY <1>0, <1>4, <2>1, NoValueOK DEF CallbackSave, Keep, ConnTypeOK
    <2>3. /\ call' \in [Calls -> CallState]
          /\ client' \in [Clients -> ClientState \cup {NoValue}]
          /\ (KindsOK /\ ClientsOK /\ MutexOK)'
      <3> DEFINE state == [pc |-> "install", got |-> call[c].got]
      <3>1. state \in CallState /\ state.pc = "install"
        BY <2>1, StatesOfCalls
      <3>2. Go(c, state) /\ UNCHANGED client
        BY <1>4 DEF CallbackSave
      <3> HIDE DEF state
      <3> QED BY <2>1, <2>2, <3>1, <3>2, CallbackMoves
    <2> QED BY <1>0, <1>4, <2>2, <2>3 DEF CallbackSave, ConnTypeOK, InstallsOK, Shape
  <1>5. CASE CreateInstallation(c)
    <2>1. Op[c].kind = "callback"
      BY <1>0, <1>5 DEF CreateInstallation, KindsOK, At
    <2>2. call[c].got.site \in Sites /\ call[c].got.refresh \in Tokens
      BY <1>0, <1>5, CallCarries DEF CreateInstallation, At
    <2>3. NewInstallation(c) \in Installation /\ LinearInstallation(c) \in Installation
          /\ LinearInstallation(c).access = call[c].got.refresh
      BY <2>2 DEF NewInstallation, LinearInstallation, Installation
    <2>4. Answer(c, "error") \/ Answer(c, "connected")
      BY <1>5 DEF CreateInstallation
    <2>5. /\ call' \in [Calls -> CallState]
          /\ client' \in [Clients -> ClientState \cup {NoValue}]
          /\ (KindsOK /\ ClientsOK /\ MutexOK)'
      BY <1>5, <2>1, <2>4, CallbackAnswers DEF CreateInstallation
    <2>6. /\ installs' \in [Conns -> Installation \cup {NoValue}]
          /\ InstallsOK'
      BY <1>0, <1>5, <2>2, <2>3, CallIsFor DEF CreateInstallation, ConnTypeOK, InstallsOK, Via
    <2> QED BY <1>0, <1>5, <2>5, <2>6 DEF CreateInstallation, ConnTypeOK, Shape
  <1> QED BY <1>1, <1>2, <1>3, <1>4, <1>5

LEMMA DisconnectKeepsShape ==
    ASSUME Shape, NEW c \in Calls, DisconnectStart(c) \/ MarkRevoked(c)
    PROVE  Shape'
  <1>0. KindsOK /\ ConnTypeOK /\ InstallsOK
    BY DEF Shape
  <1>1. CASE DisconnectStart(c)
    <2>1. Op[c].kind = "disconnect" /\ UNCHANGED <<client, store>>
      BY <1>1 DEF DisconnectStart
    <2>2. /\ call' \in [Calls -> CallState]
          /\ client' \in [Clients -> ClientState \cup {NoValue}]
          /\ (KindsOK /\ ClientsOK /\ MutexOK)'
      <3> DEFINE state == [pc |-> "mark"]
      <3>1. state \in CallState /\ state.pc = "mark"
        BY StatesOfCalls
      <3>2. Go(c, state) \/ Answer(c, "error") \/ Answer(c, "gone")
        BY <1>1 DEF DisconnectStart
      <3> HIDE DEF state
      <3> QED BY <2>1, <3>1, <3>2, CallbackMoves, CallbackAnswers
    <2> QED BY <1>0, <1>1, <2>2 DEF DisconnectStart, ConnTypeOK, InstallsOK, Shape
  <1>2. CASE MarkRevoked(c)
    <2>1. Op[c].kind = "disconnect"
      BY <1>0, <1>2 DEF MarkRevoked, KindsOK, At
    <2>2. /\ call' \in [Calls -> CallState]
          /\ client' \in [Clients -> ClientState \cup {NoValue}]
          /\ (KindsOK /\ ClientsOK /\ MutexOK)'
      BY <1>2, <2>1, CallbackAnswers DEF MarkRevoked
    <2>3. /\ installs' \in [Conns -> Installation \cup {NoValue}]
          /\ InstallsOK'
      <3> DEFINE n == Op[c].conn
                 new == IF installs[n] = NoValue THEN NoValue
                        ELSE [installs[n] EXCEPT !.revoked = TRUE]
      <3>1. n \in Conns /\ installs \in [Conns -> Installation \cup {NoValue}]
        BY <1>0, <2>1, CallIsFor DEF ConnTypeOK
      <3>2. /\ new \in Installation \cup {NoValue}
            /\ new # NoValue => installs[n] # NoValue /\ new.access = installs[n].access
        BY <3>1 DEF Installation
      <3>3. installs' = [installs EXCEPT ![n] = new]
        BY <1>2 DEF MarkRevoked
      <3> HIDE DEF n, new
      <3> QED BY <1>0, <3>1, <3>2, <3>3 DEF InstallsOK
    <2> QED BY <1>0, <1>2, <2>2, <2>3 DEF MarkRevoked, ConnTypeOK, Shape
  <1> QED BY <1>1, <1>2

\* A step of a client's user: it goes to a place inside the mutex, or leaves it.
LEMMA UserMoves ==
    ASSUME Shape, NEW c \in Calls, NEW state \in CallState, Go(c, state), Op[c].kind = "do",
           state.pc \in {"get", "refresh", "persist", "answered", "served"},
           NEW k, k = Op[c].client, client[k] # NoValue, Via(c) = "jira",
           client' \in [Clients -> ClientState \cup {NoValue}],
           \A kk \in Clients \ {k} : client'[kk] = client[kk],
           client'[k] # NoValue,
           client'[k].fresh => client'[k].access \in Tokens,
           state.pc \in {"get", "refresh", "persist"} => client'[k].mu = c,
           client[k].mu = NoValue \/ client[k].mu = c,
           \A n \in Conns : store[n] # NoValue => store'[n] # NoValue
    PROVE  /\ call' \in [Calls -> CallState]
           /\ (KindsOK /\ ClientsOK /\ MutexOK)'
  <1>1. call \in [Calls -> CallState]
    BY DEF Shape, ConnTypeOK
  <1>2. /\ call' \in [Calls -> CallState]
        /\ call'[c] = state /\ \A d \in Calls \ {c} : call'[d] = call[d]
    BY <1>1 DEF Go
  <1>3. k \in Clients /\ ConnOf(c) = ClientConn[k] /\ ConnOf(c) \in Conns
    BY CallIsFor
  <1>4. Provider[ClientConn[k]] = "jira" /\ store[ClientConn[k]] # NoValue
    BY <1>3 DEF Shape, ClientsOK, Via
  <1>5. KindsOK'
    BY <1>2, <1>3, <1>4, CallIsFor DEF Shape, KindsOK, Using, At
  <1>6. ClientsOK'
    <2> SUFFICES ASSUME NEW kk \in Clients, client'[kk] # NoValue
                 PROVE  /\ \/ Provider[ClientConn[kk]] = "jira" /\ store'[ClientConn[kk]] # NoValue
                           \/ Provider[ClientConn[kk]] = "linear" /\ client'[kk].fresh
                        /\ client'[kk].fresh => client'[kk].access \in Tokens
      BY DEF ClientsOK
    <2>1. ClientConn[kk] \in Conns
      BY OpsOK
    <2> QED BY <1>3, <1>4, <2>1 DEF Shape, ClientsOK
  <1>7. MutexOK'
    <2> SUFFICES ASSUME NEW d \in Calls, Using(d)'
                 PROVE  client'[Op[d].client] # NoValue /\ client'[Op[d].client].mu = d
      BY DEF MutexOK
    <2>1. CASE d = c
      BY <1>2, <2>1 DEF Using
    <2>2. CASE d # c
      <3>1. /\ Using(d) /\ client[Op[d].client] # NoValue
            /\ client[Op[d].client].mu = d /\ Op[d].client \in Clients
        BY <1>2, <2>2, CallIsFor DEF Shape, MutexOK, Using, KindsOK
      <3>2. Op[d].client # k
        BY <2>2, <3>1, OpsOK
      <3> QED BY <3>1, <3>2
    <2> QED BY <2>1, <2>2
  <1> QED BY <1>2, <1>5, <1>6, <1>7

\* What Using says of a call.
LEMMA UserHolds ==
    ASSUME Shape, NEW c \in Calls, Using(c)
    PROVE  /\ Op[c].kind = "do" /\ Op[c].client \in Clients /\ ConnOf(c) = ClientConn[Op[c].client]
           /\ Via(c) = "jira" /\ store[ConnOf(c)] # NoValue /\ ConnOf(c) \in Conns
           /\ client[Op[c].client] \in ClientState /\ client[Op[c].client] # NoValue
           /\ client[Op[c].client].mu = c
  BY CallIsFor DEF Shape, KindsOK, MutexOK, ConnTypeOK

LEMMA MutexSet ==
    ASSUME NEW k \in Clients, client \in [Clients -> ClientState \cup {NoValue}],
           client[k] # NoValue, NEW m \in Calls \cup {NoValue},
           client' = [client EXCEPT ![k].mu = m]
    PROVE  /\ client' \in [Clients -> ClientState \cup {NoValue}]
           /\ client'[k] # NoValue /\ client'[k].mu = m
           /\ client'[k].fresh = client[k].fresh /\ client'[k].access = client[k].access
           /\ \A kk \in Clients \ {k} : client'[kk] = client[kk]
  BY NoValueOK DEF ClientState

LEMMA TokenCached ==
    ASSUME NEW k \in Clients, client \in [Clients -> ClientState \cup {NoValue}],
           client[k] # NoValue, NEW t \in Tokens, NEW fresh \in BOOLEAN,
           client' = [client EXCEPT ![k] =
                         [@ EXCEPT !.access = t, !.fresh = fresh, !.mu = NoValue]]
    PROVE  /\ client' \in [Clients -> ClientState \cup {NoValue}]
           /\ client'[k] # NoValue /\ client'[k].access = t
           /\ \A kk \in Clients \ {k} : client'[kk] = client[kk]
  BY NoValueOK DEF ClientState

LEMMA UserKeepsShape ==
    ASSUME Shape, NEW c \in Calls,
           ValidAccessToken(c) \/ GetTokens(c) \/ RefreshRefused(c)
           \/ \E heard \in BOOLEAN : RefreshAccessToken(c, heard)
           \/ \E saved \in BOOLEAN : PersistTokens(c, saved)
    PROVE  Shape'
  <1>0. /\ KindsOK /\ ConnTypeOK /\ InstallsOK /\ ClientsOK
        /\ client \in [Clients -> ClientState \cup {NoValue}]
        /\ store \in [Conns -> Stored \cup {NoValue}]
    BY DEF Shape, ConnTypeOK
  <1> DEFINE k == Op[c].client
  <1>1. CASE ValidAccessToken(c)
    <2>1. Op[c].kind = "do" /\ k \in Clients /\ client[k] # NoValue /\ client[k].mu = NoValue
      BY <1>1, CallIsFor DEF ValidAccessToken, MuFree
    <2>2. CASE client[k].fresh
      <3> DEFINE state == [pc |-> "served", token |-> client[k].access]
      <3>1. state \in CallState /\ state.pc = "served"
        BY <1>0, <2>1, <2>2, StatesOfCalls DEF ClientsOK
      <3>2. Go(c, state) /\ UNCHANGED <<issued, alive, store, installs, shown, lost, client>>
        BY <1>1, <2>2 DEF ValidAccessToken, Serve, Go
      <3> HIDE DEF state
      <3>3. /\ call' \in [Calls -> CallState]
            /\ (KindsOK /\ ClientsOK /\ MutexOK)'
        <4>0. call \in [Calls -> CallState]
          BY <1>0 DEF ConnTypeOK
        <4>1. /\ call' \in [Calls -> CallState]
              /\ call'[c] = state /\ \A d \in Calls \ {c} : call'[d] = call[d]
          BY <3>1, <3>2, <4>0 DEF Go
        <4>2. ClientsOK'
          BY <1>0, <3>2, OpsOK DEF ClientsOK
        <4>3. KindsOK' /\ MutexOK'
          BY <3>1, <3>2, <4>1, CallIsFor DEF Shape, KindsOK, MutexOK, Using, At
        <4> QED BY <4>1, <4>2, <4>3
      <3> QED BY <1>0, <3>2, <3>3 DEF Shape, ConnTypeOK, InstallsOK
    <2>3. CASE ~client[k].fresh
      <3> DEFINE state == [pc |-> "get"]
      <3>1. state \in CallState /\ state.pc = "get"
        BY StatesOfCalls
      <3>2. /\ Go(c, state) /\ UNCHANGED <<issued, alive, store, installs, shown, lost>>
            /\ client' = [client EXCEPT ![k].mu = c]
        BY <1>1, <2>3 DEF ValidAccessToken
      <3> HIDE DEF state
      <3>3. Via(c) = "jira"
        BY <1>0, <2>1, <2>3, CallIsFor DEF ClientsOK, Via
      <3>4. /\ client' \in [Clients -> ClientState \cup {NoValue}]
            /\ client'[k] # NoValue /\ client'[k].mu = c
            /\ client'[k].fresh => client'[k].access \in Tokens
            /\ \A kk \in Clients \ {k} : client'[kk] = client[kk]
        BY <1>0, <2>1, <2>3, <3>2, MutexSet DEF ClientsOK
      <3>5. /\ call' \in [Calls -> CallState]
            /\ (KindsOK /\ ClientsOK /\ MutexOK)'
        <4> HIDE DEF k
        <4> QED BY <2>1, <3>1, <3>2, <3>3, <3>4, UserMoves DEF k
      <3> QED BY <1>0, <3>2, <3>4, <3>5 DEF Shape, ConnTypeOK, InstallsOK
    <2> QED BY <2>2, <2>3
  <1>2. CASE GetTokens(c)
    <2>1. At(c, "get") /\ Using(c) /\ UNCHANGED <<issued, alive, store, installs, client, shown, lost>>
      BY <1>2 DEF GetTokens, At, Using
    <2> DEFINE state == [pc |-> "refresh", got |-> store[ConnOf(c)]]
    <2>2. state \in CallState /\ state.pc = "refresh"
      BY <1>0, <2>1, UserHolds, StatesOfCalls
    <2>3. Go(c, state)
      BY <1>2 DEF GetTokens
    <2> HIDE DEF state
    <2>4. /\ call' \in [Calls -> CallState]
          /\ (KindsOK /\ ClientsOK /\ MutexOK)'
      BY <1>0, <2>1, <2>2, <2>3, UserHolds, UserMoves DEF ClientsOK
    <2> QED BY <1>0, <2>1, <2>4 DEF Shape, ConnTypeOK, InstallsOK
  <1>3. CASE RefreshRefused(c)
    <2>1. /\ Using(c) /\ UNCHANGED <<issued, alive, store, installs, lost>>
          /\ client' = [client EXCEPT ![k].mu = NoValue] /\ call[c].got.refresh \in Tokens
          /\ shown' = [shown EXCEPT ![call[c].got.refresh] = @ \cup {k}]
      BY <1>0, <1>3, CallCarries DEF RefreshRefused, Using, At
    <2> DEFINE state == [pc |-> "answered", with |-> "error"]
    <2>2. state \in CallState /\ state.pc = "answered"
      BY StatesOfCalls
    <2>3. Go(c, state)
      BY <1>3 DEF RefreshRefused, Answer, Go
    <2> HIDE DEF state
    <2>4. /\ client' \in [Clients -> ClientState \cup {NoValue}]
          /\ client'[k] # NoValue
          /\ client'[k].fresh => client'[k].access \in Tokens
          /\ \A kk \in Clients \ {k} : client'[kk] = client[kk]
      BY <1>0, <2>1, UserHolds, MutexSet DEF ClientsOK
    <2>5. /\ call' \in [Calls -> CallState]
          /\ (KindsOK /\ ClientsOK /\ MutexOK)'
      BY <1>0, <2>1, <2>2, <2>3, <2>4, UserHolds, UserMoves
    <2>6. shown' \in [Tokens -> SUBSET Clients]
      BY <1>0, <2>1, UserHolds DEF ConnTypeOK
    <2> QED BY <1>0, <2>1, <2>4, <2>5, <2>6 DEF Shape, ConnTypeOK, InstallsOK
  <1>4. ASSUME NEW heard \in BOOLEAN, RefreshAccessToken(c, heard)
        PROVE  Shape'
    <2> DEFINE t == call[c].got.refresh
    <2>1. /\ Using(c) /\ UNCHANGED <<store, installs>>
          /\ t \in Tokens /\ call[c].got \in Stored
          /\ shown' = [shown EXCEPT ![t] = @ \cup {k}]
      BY <1>0, <1>4, CallCarries DEF RefreshAccessToken, Using, At
    <2>2. PICK new \in NewToken :
             /\ issued' = issued \cup {new}
             /\ alive' = (alive \ {t}) \cup {new}
             /\ IF heard
                THEN /\ Go(c, [pc |-> "persist", got |-> call[c].got, new |-> new])
                     /\ UNCHANGED <<client, lost>>
                ELSE /\ Answer(c, "error")
                     /\ client' = [client EXCEPT ![k].mu = NoValue]
                     /\ lost' = lost \cup {t}
      BY <1>4 DEF RefreshAccessToken
    <2>3. new \in Tokens
      BY DEF NewToken
    <2>4. /\ shown' \in [Tokens -> SUBSET Clients]
          /\ issued' \subseteq Tokens /\ alive' \subseteq issued' /\ lost' \subseteq Tokens
      BY <1>0, <2>1, <2>2, <2>3, UserHolds DEF ConnTypeOK
    <2> DEFINE state == IF heard THEN [pc |-> "persist", got |-> call[c].got, new |-> new]
                        ELSE [pc |-> "answered", with |-> "error"]
    <2>5. state \in CallState /\ state.pc \in {"persist", "answered"}
          /\ (state.pc = "persist" => heard)
      BY <2>1, <2>3, StatesOfCalls
    <2>6. Go(c, state)
      BY <2>2 DEF Answer, Go
    <2> HIDE DEF t, state
    <2>7. /\ client' \in [Clients -> ClientState \cup {NoValue}]
          /\ client'[k] # NoValue
          /\ client'[k].fresh => client'[k].access \in Tokens
          /\ heard => client'[k].mu = c
          /\ \A kk \in Clients \ {k} : client'[kk] = client[kk]
      <3>1. CASE heard
        <4>1. client' = client
          BY <2>2, <3>1
        <4> QED BY <1>0, <2>1, <4>1, UserHolds DEF ClientsOK
      <3>2. CASE ~heard
        <4>1. client' = [client EXCEPT ![k].mu = NoValue]
          BY <2>2, <3>2
        <4> QED BY <1>0, <2>1, <3>2, <4>1, UserHolds, MutexSet DEF ClientsOK
      <3> QED BY <3>1, <3>2
    <2>8. /\ call' \in [Calls -> CallState]
          /\ (KindsOK /\ ClientsOK /\ MutexOK)'
      BY <1>0, <2>1, <2>5, <2>6, <2>7, UserHolds, UserMoves
    <2> QED BY <1>0, <2>1, <2>4, <2>7, <2>8 DEF Shape, ConnTypeOK, InstallsOK
  <1>5. ASSUME NEW saved \in BOOLEAN, PersistTokens(c, saved)
        PROVE  Shape'
    <2>1. /\ Using(c) /\ UNCHANGED <<issued, alive, installs, shown>>
          /\ call[c].new \in Tokens /\ call[c].got \in Stored /\ call[c].got.refresh \in Tokens
          /\ call[c].got.site \in Sites
      BY <1>0, <1>5, CallCarries DEF PersistTokens, Using, At
    <2>2. Refreshed(call[c].got, call[c].new) \in Stored
      BY <2>1 DEF Refreshed, Stored
    <2>3. /\ store' \in [Conns -> Stored \cup {NoValue}]
          /\ \A n \in Conns : store[n] # NoValue => store'[n] # NoValue
          /\ lost' \subseteq Tokens
      <3>1. CASE saved
        <4>1. store' = [store EXCEPT ![ConnOf(c)] = Refreshed(call[c].got, call[c].new)]
              /\ lost' = lost
          BY <1>5, <3>1 DEF PersistTokens, Keep
        <4> QED BY <1>0, <2>2, <4>1, NoValueOK DEF ConnTypeOK
      <3>2. CASE ~saved
        <4>1. store' = store /\ lost' = lost \cup {call[c].got.refresh}
          BY <1>5, <3>2 DEF PersistTokens
        <4> QED BY <1>0, <2>1, <4>1 DEF ConnTypeOK
      <3> QED BY <3>1, <3>2
    <2>4. /\ client' \in [Clients -> ClientState \cup {NoValue}]
          /\ client'[k] # NoValue /\ client'[k].access \in Tokens
          /\ \A kk \in Clients \ {k} : client'[kk] = client[kk]
      <3>1. PICK fresh \in BOOLEAN :
               client' = [client EXCEPT ![Op[c].client] =
                             [@ EXCEPT !.access = call[c].new, !.fresh = fresh, !.mu = NoValue]]
        BY <1>5 DEF PersistTokens
      <3> QED BY <1>0, <2>1, <3>1, UserHolds, TokenCached
    <2> DEFINE state == [pc |-> "served", token |-> call[c].new]
    <2>5. state \in CallState /\ state.pc = "served"
      BY <2>1, StatesOfCalls
    <2>6. Go(c, state)
      BY <1>5 DEF PersistTokens, Serve, Go
    <2> HIDE DEF state
    <2>7. /\ call' \in [Calls -> CallState]
          /\ (KindsOK /\ ClientsOK /\ MutexOK)'
      BY <1>0, <2>1, <2>3, <2>4, <2>5, <2>6, UserHolds, UserMoves
    <2> QED BY <1>0, <2>1, <2>3, <2>4, <2>7 DEF Shape, ConnTypeOK, InstallsOK
  <1> QED BY <1>1, <1>2, <1>3, <1>4, <1>5

LEMMA ClientKeepsShape ==
    ASSUME Shape, NEW k \in Clients, ForOrg(k) \/ Expire(k)
    PROVE  Shape'
  <1>0. /\ KindsOK /\ ConnTypeOK /\ InstallsOK /\ ClientsOK
        /\ client \in [Clients -> ClientState \cup {NoValue}]
    BY DEF Shape, ConnTypeOK
  <1>1. /\ UNCHANGED <<issued, alive, store, installs, call, shown, lost>>
        /\ ClientConn[k] \in Conns
    BY OpsOK DEF ForOrg, Expire
  <1>2. CASE ForOrg(k)
    <2>1. /\ store[ClientConn[k]] # NoValue => JiraClient(ClientConn[k]) \in ClientState
          /\ installs[ClientConn[k]] # NoValue => LinearClient(ClientConn[k]) \in ClientState
      BY <1>0, <1>1 DEF ConnTypeOK, JiraClient, LinearClient, Stored, Installation, ClientState
    <2>2. /\ client' \in [Clients -> ClientState \cup {NoValue}]
          /\ \A kk \in Clients \ {k} : client'[kk] = client[kk]
          /\ client[k] = NoValue
      BY <1>0, <1>2, <2>1 DEF ForOrg
    <2>3. ClientsOK'
      BY <1>0, <1>1, <1>2, <2>2
      DEF ClientsOK, ForOrg, JiraClient, LinearClient, InstallsOK
    <2>4. MutexOK'
      BY <1>0, <1>1, <2>2, UserHolds DEF Shape, MutexOK, Using
    <2>5. KindsOK'
      BY <1>0, <1>1 DEF KindsOK, Using, At
    <2> QED BY <1>0, <1>1, <2>2, <2>3, <2>4, <2>5 DEF Shape, ConnTypeOK, InstallsOK
  <1>3. CASE Expire(k)
    <2>1. /\ client' \in [Clients -> ClientState \cup {NoValue}]
          /\ \A kk \in Clients \ {k} : client'[kk] = client[kk]
          /\ client[k] # NoValue /\ client'[k] # NoValue /\ client'[k].mu = client[k].mu
          /\ ~client'[k].fresh /\ Provider[ClientConn[k]] = "jira"
      BY <1>0, <1>3, NoValueOK DEF Expire, ClientState
    <2>2. ClientsOK'
      BY <1>0, <1>1, <2>1, OpsOK DEF ClientsOK
    <2>3. MutexOK'
      BY <1>0, <1>1, <2>1, UserHolds DEF Shape, MutexOK, Using
    <2>4. KindsOK'
      BY <1>0, <1>1 DEF KindsOK, Using, At
    <2> QED BY <1>0, <1>1, <2>1, <2>2, <2>3, <2>4 DEF Shape, ConnTypeOK, InstallsOK
  <1> QED BY <1>2, <1>3

LEMMA FailureKeepsShape ==
    ASSUME Shape, NEW c \in Calls, CallFails(c)
    PROVE  Shape'
  <1>0. /\ KindsOK /\ ConnTypeOK /\ InstallsOK /\ ClientsOK
        /\ client \in [Clients -> ClientState \cup {NoValue}]
    BY DEF Shape, ConnTypeOK
  <1>1. /\ UNCHANGED <<issued, alive, store, installs, shown, lost>> /\ Answer(c, "error")
        /\ ~At(c, "persist")
    BY <1>0 DEF CallFails, At
  <1>2. CASE Op[c].kind = "do"
    <2>1. Using(c) /\ client' = [client EXCEPT ![Op[c].client].mu = NoValue]
      BY <1>0, <1>2 DEF CallFails, Using, KindsOK, At
    <2> DEFINE state == [pc |-> "answered", with |-> "error"]
    <2>2. state \in CallState /\ state.pc = "answered"
      BY StatesOfCalls
    <2>3. Go(c, state)
      BY <1>1 DEF Answer, Go
    <2> HIDE DEF state
    <2>4. /\ client' \in [Clients -> ClientState \cup {NoValue}]
          /\ client'[Op[c].client] # NoValue
          /\ client'[Op[c].client].fresh => client'[Op[c].client].access \in Tokens
          /\ \A kk \in Clients \ {Op[c].client} : client'[kk] = client[kk]
      BY <1>0, <2>1, UserHolds, MutexSet DEF ClientsOK
    <2>5. /\ call' \in [Calls -> CallState]
          /\ (KindsOK /\ ClientsOK /\ MutexOK)'
      BY <1>0, <1>1, <2>1, <2>2, <2>3, <2>4, UserHolds, UserMoves
    <2> QED BY <1>0, <1>1, <2>4, <2>5 DEF Shape, ConnTypeOK, InstallsOK
  <1>3. CASE Op[c].kind # "do"
    <2>1. UNCHANGED client
      BY <1>3 DEF CallFails
    <2>2. /\ call' \in [Calls -> CallState]
          /\ client' \in [Clients -> ClientState \cup {NoValue}]
          /\ (KindsOK /\ ClientsOK /\ MutexOK)'
      BY <1>1, <1>3, <2>1, CallbackAnswers
    <2> QED BY <1>0, <1>1, <2>2 DEF Shape, ConnTypeOK, InstallsOK
  <1> QED BY <1>2, <1>3

LEMMA CrashKeepsShape ==
    ASSUME Shape, ConnCrash
    PROVE  Shape'
  <1>0. KindsOK /\ ConnTypeOK /\ InstallsOK /\ call \in [Calls -> CallState]
    BY DEF Shape, ConnTypeOK
  <1>1. UNCHANGED <<issued, alive, store, installs, shown>>
    BY DEF ConnCrash
  <1>2. /\ client' \in [Clients -> ClientState \cup {NoValue}]
        /\ ClientsOK'
    BY DEF ConnCrash, ClientsOK
  <1>3. \A c \in Calls : call'[c].pc \in {"none", "start", "answered", "served"}
                         /\ call'[c] \in CallState
    BY <1>0, StatesOfCalls DEF ConnCrash
  <1>4. call' \in [Calls -> CallState]
    BY <1>3 DEF ConnCrash
  <1>5. lost' \subseteq Tokens
    <2>1. \A c \in {d \in Calls : At(d, "persist")} : call[c].got.refresh \in Tokens
      BY CallCarries DEF Shape, At
    <2>2. lost' = lost \cup {call[c].got.refresh : c \in {d \in Calls : At(d, "persist")}}
      BY DEF ConnCrash
    <2>3. lost \subseteq Tokens
      BY DEF Shape, ConnTypeOK
    <2> QED BY <2>1, <2>2, <2>3
  <1>6. KindsOK' /\ MutexOK'
    BY <1>3 DEF KindsOK, MutexOK, Using, At
  <1> QED BY <1>0, <1>1, <1>2, <1>4, <1>5, <1>6 DEF Shape, ConnTypeOK, InstallsOK

LEMMA StepKeepsShape ==
    ASSUME Shape, NEW c \in Calls, ConnStep(c)
    PROVE  Shape'
  BY CallbackKeepsShape, DisconnectKeepsShape, UserKeepsShape, FailureKeepsShape DEF ConnStep

-----------------------------------------------------------------------------
\* The connections: who holds which token.

\* A call has a fresh token from its issue until it is stored.
Fresh(c) == CASE At(c, "sites") -> call[c].token
              [] At(c, "save") -> call[c].got.refresh
              [] At(c, "persist") -> call[c].new

Holding(c) == call[c].pc \in {"sites", "save", "persist"}

\* A call spends the token it read from the store.
Spending(c) == call[c].pc \in {"refresh", "persist"}

Spent(c) == call[c].got.refresh

FreshOK ==
    \A c \in Calls : Holding(c) =>
        /\ Fresh(c) \in alive
        /\ shown[Fresh(c)] = {}
        /\ \A d \in Calls : Holding(d) /\ Fresh(d) = Fresh(c) => d = c
        /\ \A n \in Conns : store[n] # NoValue => store[n].refresh # Fresh(c)
        /\ \A d \in Calls : Spending(d) => Spent(d) # Fresh(c)

StoredOK ==
    \A n \in Conns : store[n] # NoValue =>
        /\ store[n].refresh \in issued
        /\ \A m \in Conns : store[m] # NoValue /\ store[m].refresh = store[n].refresh => m = n

SpentOK ==
    \A c \in Calls : Spending(c) =>
        /\ Spent(c) \in issued
        /\ \A n \in Conns : store[n] # NoValue /\ store[n].refresh = Spent(c) => n = ConnOf(c)

\* A token is not accepted any more only because some client showed it.
ShownOK ==
    \A t \in Tokens :
        /\ t \in issued \ alive => shown[t] # {}
        /\ t \notin issued => shown[t] = {}

\* A token that one client showed is gone from the store, or that client is
\* about to store its successor, or the successor was lost.
SuccessorOK ==
    \A t \in Tokens, k \in Clients :
        shown[t] = {k} /\ t \notin lost =>
            \/ \E c \in Calls : At(c, "persist") /\ Op[c].client = k /\ Spent(c) = t
            \/ \A n \in Conns : store[n] # NoValue => store[n].refresh # t

TokensIInv ==
    /\ FreshOK /\ StoredOK /\ SpentOK /\ ShownOK /\ SuccessorOK
    /\ StoredTokenUsable /\ ShownOncePerClient

ConnIInv == Shape /\ TokensIInv

LEMMA ConnInitTokens ==
    ASSUME NEW active \in SUBSET Calls, ConnInit(active)
    PROVE  TokensIInv
  BY OpsOK
  DEF ConnInit, TokensIInv, FreshOK, StoredOK, SpentOK, ShownOK, SuccessorOK,
      StoredTokenUsable, ShownOncePerClient, Holding, Spending, At

\* Tokens keep their places when a call takes a step that holds and spends none.
LEMMA TokensKept ==
    ASSUME ConnIInv, Shape', NEW c \in Calls, \A d \in Calls \ {c} : call'[d] = call[d],
           UNCHANGED <<issued, alive, store, shown, lost>>,
           ~At(c, "persist"), ~Holding(c)', ~Spending(c)'
    PROVE  TokensIInv'
  <1>1. \A d \in Calls : /\ Holding(d)' => d # c /\ Holding(d) /\ Fresh(d)' = Fresh(d)
                         /\ Spending(d)' => d # c /\ Spending(d) /\ Spent(d)' = Spent(d)
    BY DEF Holding, Spending, Fresh, Spent, At
  <1>2. \A d \in Calls : At(d, "persist")' <=> At(d, "persist")
    BY DEF Holding, At
  <1>3. (FreshOK /\ StoredOK /\ SpentOK /\ ShownOK)'
    BY <1>1 DEF ConnIInv, TokensIInv, FreshOK, StoredOK, SpentOK, ShownOK
  <1>4. SuccessorOK'
    BY <1>2 DEF ConnIInv, TokensIInv, SuccessorOK, Spent, At
  <1>5. StoredTokenUsable'
    BY <1>2 DEF ConnIInv, TokensIInv, StoredTokenUsable, At
  <1>6. ShownOncePerClient'
    BY <1>1 DEF ConnIInv, TokensIInv, ShownOncePerClient, Spending, At
  <1> QED BY <1>3, <1>4, <1>5, <1>6 DEF TokensIInv

\* What a step of one call does to the places of the others.
LEMMA OnlyOneMoves ==
    ASSUME ConnTypeOK, NEW c \in Calls, NEW state, Go(c, state)
    PROVE  call'[c] = state /\ \A d \in Calls \ {c} : call'[d] = call[d]
  BY DEF Go, ConnTypeOK

LEMMA OnlyOneAnswers ==
    ASSUME ConnTypeOK, NEW c \in Calls, NEW with, Answer(c, with)
    PROVE  call'[c].pc = "answered" /\ \A d \in Calls \ {c} : call'[d] = call[d]
  BY DEF Answer, ConnTypeOK

LEMMA LeavingStepsKeepTokens ==
    ASSUME ConnIInv, Shape', NEW c \in Calls,
           CallbackStart(c) \/ CreateInstallation(c) \/ DisconnectStart(c) \/ MarkRevoked(c)
           \/ ValidAccessToken(c) \/ CallFails(c)
    PROVE  TokensIInv'
  <1>0. ConnTypeOK
    BY DEF ConnIInv, Shape
  <1>1. UNCHANGED <<issued, alive, store, shown, lost>>
    BY DEF CallbackStart, CreateInstallation, DisconnectStart, MarkRevoked, ValidAccessToken,
           CallFails
  <1>2. ~At(c, "persist")
    BY DEF CallbackStart, CreateInstallation, DisconnectStart, MarkRevoked, ValidAccessToken,
           CallFails, At
  <1>3. \E state : /\ Go(c, state)
                   /\ state.pc \notin {"sites", "save", "refresh", "persist"}
    <2>1. ASSUME NEW with, Answer(c, with)
          PROVE  \E state : /\ Go(c, state)
                            /\ state.pc \notin {"sites", "save", "refresh", "persist"}
      <3> WITNESS [pc |-> "answered", with |-> with]
      <3> QED BY <2>1 DEF Answer, Go
    <2>2. ASSUME NEW token, Serve(c, token)
          PROVE  \E state : /\ Go(c, state)
                            /\ state.pc \notin {"sites", "save", "refresh", "persist"}
      <3> WITNESS [pc |-> "served", token |-> token]
      <3> QED BY <2>2 DEF Serve, Go
    <2>3. ASSUME NEW pc \in {"exchange", "mark", "get"}, Go(c, [pc |-> pc])
          PROVE  \E state : /\ Go(c, state)
                            /\ state.pc \notin {"sites", "save", "refresh", "persist"}
      <3> WITNESS [pc |-> pc]
      <3> QED BY <2>3
    <2> QED BY <2>1, <2>2, <2>3
            DEF CallbackStart, CreateInstallation, DisconnectStart, MarkRevoked,
                ValidAccessToken, CallFails
  <1>4. ~Holding(c)' /\ ~Spending(c)' /\ \A d \in Calls \ {c} : call'[d] = call[d]
    BY <1>0, <1>3, OnlyOneMoves DEF Holding, Spending
  <1> QED BY <1>1, <1>2, <1>4, TokensKept

LEMMA NewTokenIsNew ==
    ASSUME NEW t \in NewToken
    PROVE  t \in Tokens /\ t \notin issued
  BY DEF NewToken

LEMMA ExchangeKeepsTokens ==
    ASSUME ConnIInv, Shape', NEW c \in Calls, ExchangeCode(c)
    PROVE  TokensIInv'
  <1>0. ConnTypeOK /\ FreshOK /\ StoredOK /\ SpentOK /\ ShownOK /\ SuccessorOK
        /\ StoredTokenUsable /\ ShownOncePerClient /\ alive \subseteq issued
    BY DEF ConnIInv, Shape, TokensIInv, ConnTypeOK
  <1>1. PICK t \in NewToken :
           /\ issued' = issued \cup {t} /\ alive' = alive \cup {t}
           /\ \/ JiraExchanged(c, t) \/ LinearExchanged(c, t)
              \/ SlackExchanged(c) \/ GitLabExchanged(c)
    BY DEF ExchangeCode
  <1>2. t \in Tokens /\ t \notin issued
    BY NewTokenIsNew
  <1>3. UNCHANGED <<store, shown, lost>> /\ At(c, "exchange")
    BY DEF ExchangeCode
  <1>4. Go(c, [pc |-> "sites", token |-> t]) \/ Answer(c, "connected")
    BY <1>1 DEF JiraExchanged, LinearExchanged, SlackExchanged, GitLabExchanged
  <1>5. /\ \A d \in Calls \ {c} : call'[d] = call[d]
        /\ Holding(c)' => Fresh(c)' = t
        /\ ~Spending(c)'
    BY <1>0, <1>4, OnlyOneMoves, OnlyOneAnswers DEF Holding, Fresh, Spending, At
  <1>6. \A d \in Calls : d # c => /\ Holding(d)' <=> Holding(d)
                                  /\ Fresh(d)' = Fresh(d)
                                  /\ Spending(d)' <=> Spending(d)
                                  /\ Spent(d)' = Spent(d)
                                  /\ call'[d] = call[d]
    BY <1>5 DEF Holding, Spending, Fresh, Spent, At
  <1>7. FreshOK'
    <2> SUFFICES ASSUME NEW h \in Calls, Holding(h)'
                 PROVE  /\ Fresh(h)' \in alive'
                        /\ shown'[Fresh(h)'] = {}
                        /\ \A d \in Calls : Holding(d)' /\ Fresh(d)' = Fresh(h)' => d = h
                        /\ \A n \in Conns : store'[n] # NoValue => store'[n].refresh # Fresh(h)'
                        /\ \A d \in Calls : Spending(d)' => Spent(d)' # Fresh(h)'
      BY DEF FreshOK
    <2>1. CASE h = c
      BY <1>0, <1>1, <1>2, <1>3, <1>5, <1>6, <2>1 DEF FreshOK, StoredOK, SpentOK, ShownOK
    <2>2. CASE h # c
      BY <1>0, <1>1, <1>2, <1>3, <1>5, <1>6, <2>2 DEF FreshOK
    <2> QED BY <2>1, <2>2
  <1>8. (StoredOK /\ SpentOK /\ ShownOK)'
    BY <1>0, <1>1, <1>2, <1>3, <1>5, <1>6 DEF StoredOK, SpentOK, ShownOK
  <1>9. \A d \in Calls : At(d, "persist")' <=> At(d, "persist")
    BY <1>3, <1>5, <1>6 DEF At, Spending
  <1>10. (SuccessorOK /\ StoredTokenUsable)'
    BY <1>0, <1>1, <1>3, <1>6, <1>9, <1>5 DEF SuccessorOK, StoredTokenUsable, Spent, At, Spending
  <1>11. ShownOncePerClient'
    BY <1>0, <1>3, <1>5, <1>6 DEF ShownOncePerClient, At, Spending
  <1> QED BY <1>7, <1>8, <1>10, <1>11 DEF TokensIInv

LEMMA SitesKeepTokens ==
    ASSUME ConnIInv, Shape', NEW c \in Calls, FetchSites(c)
    PROVE  TokensIInv'
  <1>0. ConnTypeOK /\ FreshOK /\ StoredOK /\ SpentOK /\ ShownOK /\ SuccessorOK
        /\ StoredTokenUsable /\ ShownOncePerClient /\ alive \subseteq issued
    BY DEF ConnIInv, Shape, TokensIInv, ConnTypeOK
  <1>1. UNCHANGED <<issued, alive, store, shown, lost>> /\ At(c, "sites")
    BY DEF FetchSites
  <1>2. CASE Answer(c, "error")
    <2>1. /\ \A d \in Calls \ {c} : call'[d] = call[d]
          /\ ~Holding(c)' /\ ~Spending(c)' /\ ~At(c, "persist")
      BY <1>0, <1>1, <1>2, OnlyOneAnswers DEF Holding, Spending, At
    <2> QED BY <1>1, <2>1, TokensKept
  <1>3. ASSUME NEW first,
               Go(c, [pc |-> "save", got |-> [refresh |-> call[c].token, site |-> first]])
        PROVE  TokensIInv'
    <2>1. /\ \A d \in Calls \ {c} : call'[d] = call[d]
          /\ Holding(c) /\ Holding(c)' /\ Fresh(c)' = Fresh(c)
          /\ ~Spending(c)' /\ ~Spending(c)
      BY <1>0, <1>1, <1>3, OnlyOneMoves DEF Holding, Fresh, Spending, At
    <2>2. \A d \in Calls : /\ Holding(d)' <=> Holding(d)
                           /\ Fresh(d)' = Fresh(d)
                           /\ Spending(d)' <=> Spending(d)
                           /\ Spending(d) => Spent(d)' = Spent(d) /\ call'[d] = call[d]
                           /\ At(d, "persist")' <=> At(d, "persist")
      BY <2>1, <1>1 DEF Holding, Spending, Fresh, Spent, At
    <2>3. (FreshOK /\ StoredOK /\ SpentOK /\ ShownOK)'
      BY <1>0, <1>1, <2>2 DEF FreshOK, StoredOK, SpentOK, ShownOK
    <2>4. (SuccessorOK /\ StoredTokenUsable)'
      BY <1>0, <1>1, <2>2 DEF SuccessorOK, StoredTokenUsable, Spent, At, Spending
    <2>5. ShownOncePerClient'
      BY <1>0, <1>1, <2>2 DEF ShownOncePerClient, At, Spending
    <2> QED BY <2>3, <2>4, <2>5 DEF TokensIInv
  <1> QED BY <1>2, <1>3 DEF FetchSites

\* A fresh token comes into the store, in place of what was there.
LEMMA CallbackSaveKeepsTokens ==
    ASSUME ConnIInv, Shape', NEW c \in Calls, CallbackSave(c)
    PROVE  TokensIInv'
  <1>0. ConnTypeOK /\ FreshOK /\ StoredOK /\ SpentOK /\ ShownOK /\ SuccessorOK
        /\ StoredTokenUsable /\ ShownOncePerClient /\ alive \subseteq issued
    BY DEF ConnIInv, Shape, TokensIInv, ConnTypeOK
  <1> DEFINE t == call[c].got.refresh
             n == ConnOf(c)
  <1>1. /\ UNCHANGED <<issued, alive, shown, lost>> /\ At(c, "save")
        /\ store' = [store EXCEPT ![n] = call[c].got]
    BY DEF CallbackSave, Keep
  <1>2. /\ n \in Conns /\ store'[n].refresh = t /\ t \in Tokens
        /\ \A m \in Conns \ {n} : store'[m] = store[m]
    BY <1>0, <1>1, CallIsFor, CallCarries DEF ConnTypeOK, At
  <1>3. /\ \A d \in Calls \ {c} : call'[d] = call[d]
        /\ Holding(c) /\ Fresh(c) = t /\ ~Holding(c)' /\ ~Spending(c)'
        /\ ~At(c, "persist") /\ ~At(c, "persist")'
    BY <1>0, <1>1, OnlyOneMoves DEF CallbackSave, Holding, Fresh, Spending, At
  <1>4. \A d \in Calls : d # c => /\ Holding(d)' <=> Holding(d)
                                  /\ Fresh(d)' = Fresh(d)
                                  /\ Spending(d)' <=> Spending(d)
                                  /\ Spent(d)' = Spent(d)
                                  /\ call'[d] = call[d]
    BY <1>3 DEF Holding, Spending, Fresh, Spent, At
  <1>5. /\ t \in alive /\ shown[t] = {}
        /\ \A d \in Calls : Holding(d) /\ Fresh(d) = t => d = c
        /\ \A m \in Conns : store[m] # NoValue => store[m].refresh # t
        /\ \A d \in Calls : Spending(d) => Spent(d) # t
    BY <1>0, <1>3 DEF FreshOK
  <1> HIDE DEF t, n
  <1>6. FreshOK'
    BY <1>0, <1>1, <1>2, <1>3, <1>4, <1>5 DEF FreshOK
  <1>7. (StoredOK /\ SpentOK /\ ShownOK)'
    BY <1>0, <1>1, <1>2, <1>3, <1>4, <1>5 DEF StoredOK, SpentOK, ShownOK
  <1>8. SuccessorOK'
    BY <1>0, <1>1, <1>2, <1>3, <1>4, <1>5 DEF SuccessorOK, At
  <1>9. StoredTokenUsable'
    BY <1>0, <1>1, <1>2, <1>3, <1>4, <1>5 DEF StoredTokenUsable, At
  <1>10. ShownOncePerClient'
    BY <1>0, <1>1, <1>3, <1>4 DEF ShownOncePerClient, At, Spending
  <1> QED BY <1>6, <1>7, <1>8, <1>9, <1>10 DEF TokensIInv

\* A call reads the stored token: only its own client can have shown it alone,
\* and that client is the call's.
LEMMA GetKeepsTokens ==
    ASSUME ConnIInv, Shape', NEW c \in Calls, GetTokens(c)
    PROVE  TokensIInv'
  <1>0. ConnTypeOK /\ FreshOK /\ StoredOK /\ SpentOK /\ ShownOK /\ SuccessorOK
        /\ StoredTokenUsable /\ ShownOncePerClient /\ alive \subseteq issued
    BY DEF ConnIInv, Shape, TokensIInv, ConnTypeOK
  <1> DEFINE n == ConnOf(c)
             t == store[n].refresh
  <1>1. UNCHANGED <<issued, alive, store, shown, lost>> /\ At(c, "get") /\ Shape
    BY DEF GetTokens, ConnIInv
  <1>2. n \in Conns /\ store[n] # NoValue /\ t \in issued /\ t \in Tokens
    BY <1>0, <1>1, UserHolds DEF Using, At, StoredOK, ConnTypeOK
  <1>3. /\ \A d \in Calls \ {c} : call'[d] = call[d]
        /\ ~Holding(c) /\ ~Holding(c)' /\ At(c, "refresh")' /\ Spent(c)' = t
        /\ ~At(c, "persist") /\ ~At(c, "persist")'
    BY <1>0, <1>1, OnlyOneMoves DEF GetTokens, Holding, Spending, Spent, At
  <1>4. \A d \in Calls : d # c => /\ Holding(d)' <=> Holding(d)
                                  /\ Fresh(d)' = Fresh(d)
                                  /\ Spending(d)' <=> Spending(d)
                                  /\ Spent(d)' = Spent(d)
                                  /\ call'[d] = call[d]
    BY <1>3 DEF Holding, Spending, Fresh, Spent, At
  <1>5. \A m \in Conns : store[m] # NoValue /\ store[m].refresh = t => m = n
    BY <1>0, <1>2 DEF StoredOK
  <1>6. FreshOK'
    BY <1>0, <1>1, <1>2, <1>3, <1>4 DEF FreshOK, Spending, At
  <1>7. (StoredOK /\ SpentOK /\ ShownOK)'
    BY <1>0, <1>1, <1>2, <1>3, <1>4, <1>5 DEF StoredOK, SpentOK, ShownOK
  <1>8. (SuccessorOK /\ StoredTokenUsable)'
    BY <1>0, <1>1, <1>3, <1>4 DEF SuccessorOK, StoredTokenUsable, At, Spent
  <1>9. ShownOncePerClient'
    <2>1. ASSUME shown[t] = {Op[c].client}, t \notin lost
          PROVE  FALSE
      <3>1. PICK d \in Calls : At(d, "persist") /\ Op[d].client = Op[c].client
        BY <1>0, <1>1, <1>2, <2>1, UserHolds DEF SuccessorOK, Using, At
      <3>2. client[Op[c].client].mu = c /\ client[Op[d].client].mu = d
        BY <1>1, <3>1, UserHolds DEF Using, At
      <3> QED BY <1>1, <3>1, <3>2 DEF At
    <2> QED BY <1>0, <1>1, <1>3, <1>4, <2>1 DEF ShownOncePerClient, At, Spent
  <1> QED BY <1>6, <1>7, <1>8, <1>9 DEF TokensIInv

\* Of the users of one client only one is inside the mutex.
LEMMA OneUserPerClient ==
    ASSUME Shape, NEW c \in Calls, NEW d \in Calls, Using(c), Using(d),
           Op[c].client = Op[d].client
    PROVE  c = d
  BY UserHolds

\* A refused token had been shown by another client, or was lost.
LEMMA RefusalKeepsTokens ==
    ASSUME ConnIInv, Shape', NEW c \in Calls, RefreshRefused(c)
    PROVE  TokensIInv'
  <1>0. ConnTypeOK /\ FreshOK /\ StoredOK /\ SpentOK /\ ShownOK /\ SuccessorOK
        /\ StoredTokenUsable /\ ShownOncePerClient /\ alive \subseteq issued
    BY DEF ConnIInv, Shape, TokensIInv, ConnTypeOK
  <1> DEFINE t == Spent(c)
             k == Op[c].client
  <1>1. /\ UNCHANGED <<issued, alive, store, lost>> /\ At(c, "refresh") /\ Shape
        /\ t \notin alive /\ shown' = [shown EXCEPT ![t] = @ \cup {k}]
    BY DEF RefreshRefused, ConnIInv, Spent
  <1>2. /\ Using(c) /\ Spending(c) /\ t \in Tokens /\ t \in issued /\ k \in Clients
        /\ shown[t] \subseteq Clients
    BY <1>0, <1>1, CallCarries, UserHolds DEF Using, At, Spending, SpentOK, Spent, ConnTypeOK
  <1>3. /\ \A d \in Calls \ {c} : call'[d] = call[d]
        /\ ~Holding(c)' /\ ~Spending(c)' /\ ~At(c, "persist") /\ ~At(c, "persist")'
    BY <1>0, <1>1, OnlyOneAnswers DEF RefreshRefused, Holding, Spending, At
  <1>4. \A d \in Calls : d # c => /\ Holding(d)' <=> Holding(d)
                                  /\ Fresh(d)' = Fresh(d)
                                  /\ Spending(d)' <=> Spending(d)
                                  /\ Spent(d)' = Spent(d)
                                  /\ call'[d] = call[d]
    BY <1>3 DEF Holding, Spending, Fresh, Spent, At
  <1>5. /\ k \in shown'[t] /\ shown'[t] = shown[t] \cup {k}
        /\ \A u \in Tokens \ {t} : shown'[u] = shown[u]
    BY <1>0, <1>1, <1>2 DEF ConnTypeOK
  <1>6. shown[t] = {k} => t \in lost
    BY <1>0, <1>1 DEF ShownOncePerClient, Spent
  <1>7. shown[t] # {}
    BY <1>0, <1>1, <1>2 DEF ShownOK
  <1> HIDE DEF t, k
  <1>8. FreshOK'
    <2>1. \A d \in Calls : Holding(d) => Fresh(d) \in Tokens
      BY <1>0 DEF FreshOK, ConnTypeOK
    <2> QED BY <1>0, <1>1, <1>3, <1>4, <1>5, <2>1 DEF FreshOK
  <1>9. (StoredOK /\ SpentOK /\ ShownOK)'
    BY <1>0, <1>1, <1>2, <1>3, <1>4, <1>5 DEF StoredOK, SpentOK, ShownOK
  <1>10. SuccessorOK'
    BY <1>0, <1>1, <1>3, <1>4, <1>5, <1>6, <1>7 DEF SuccessorOK, At
  <1>11. StoredTokenUsable'
    BY <1>0, <1>1, <1>3, <1>4 DEF StoredTokenUsable, At
  <1>12. ShownOncePerClient'
    <2> SUFFICES ASSUME NEW d \in Calls, At(d, "refresh")', shown'[Spent(d)'] = {Op[d].client}
                 PROVE  Spent(d)' \in lost'
      BY DEF ShownOncePerClient, Spent, At
    <2>1. /\ d # c /\ At(d, "refresh") /\ Spent(d)' = Spent(d) /\ Using(d)
          /\ Spent(d) \in Tokens
      BY <1>0, <1>1, <1>3, <1>4, CallCarries DEF At, Spending, Using, Spent
    <2>2. CASE Spent(d) = t
      BY <1>1, <1>2, <1>5, <2>1, <2>2, OneUserPerClient DEF k
    <2>3. CASE Spent(d) # t
      BY <1>0, <1>1, <1>5, <2>1, <2>3 DEF ShownOncePerClient, Spent
    <2> QED BY <2>2, <2>3
  <1> QED BY <1>8, <1>9, <1>10, <1>11, <1>12 DEF TokensIInv

\* A token is spent: its successor is in the hands of the call, or lost.
LEMMA RefreshKeepsTokens ==
    ASSUME ConnIInv, Shape', NEW c \in Calls, NEW heard \in BOOLEAN,
           RefreshAccessToken(c, heard)
    PROVE  TokensIInv'
  <1>0. ConnTypeOK /\ FreshOK /\ StoredOK /\ SpentOK /\ ShownOK /\ SuccessorOK
        /\ StoredTokenUsable /\ ShownOncePerClient /\ alive \subseteq issued
    BY DEF ConnIInv, Shape, TokensIInv, ConnTypeOK
  <1> DEFINE t == Spent(c)
             k == Op[c].client
  <1>1. PICK new \in NewToken :
           /\ issued' = issued \cup {new}
           /\ alive' = (alive \ {t}) \cup {new}
           /\ IF heard
              THEN /\ Go(c, [pc |-> "persist", got |-> call[c].got, new |-> new])
                   /\ UNCHANGED <<client, lost>>
              ELSE /\ Answer(c, "error")
                   /\ client' = [client EXCEPT ![k].mu = NoValue]
                   /\ lost' = lost \cup {t}
    BY DEF RefreshAccessToken, Spent
  <1>2. /\ UNCHANGED store /\ At(c, "refresh") /\ Shape
        /\ t \in alive /\ shown' = [shown EXCEPT ![t] = @ \cup {k}]
    BY DEF RefreshAccessToken, ConnIInv, Spent
  <1>3. /\ Using(c) /\ Spending(c) /\ ~Holding(c) /\ t \in Tokens /\ t \in issued /\ k \in Clients
        /\ shown[t] \subseteq Clients /\ ~At(c, "persist")
    BY <1>0, <1>2, CallCarries, UserHolds
       DEF Using, At, Spending, Holding, SpentOK, Spent, ConnTypeOK
  <1>4. new \in Tokens /\ new \notin issued /\ new # t
    BY <1>3, NewTokenIsNew
  <1>5. /\ \A d \in Calls \ {c} : call'[d] = call[d]
        /\ heard => /\ Holding(c)' /\ Fresh(c)' = new /\ Spent(c)' = t
                    /\ At(c, "persist")' /\ lost' = lost
        /\ ~heard => ~Holding(c)' /\ ~Spending(c)' /\ ~At(c, "persist")' /\ lost' = lost \cup {t}
        /\ ~At(c, "refresh")'
    <2>1. CASE heard
      <3>1. Go(c, [pc |-> "persist", got |-> call[c].got, new |-> new]) /\ lost' = lost
        BY <1>1, <2>1
      <3> QED BY <1>0, <2>1, <3>1, OnlyOneMoves DEF Holding, Fresh, Spending, Spent, At
    <2>2. CASE ~heard
      <3>1. Answer(c, "error") /\ lost' = lost \cup {t}
        BY <1>1, <2>2
      <3> QED BY <1>0, <2>2, <3>1, OnlyOneAnswers DEF Holding, Fresh, Spending, At
    <2> QED BY <2>1, <2>2
  <1>6. \A d \in Calls : d # c => /\ Holding(d)' <=> Holding(d)
                                  /\ Fresh(d)' = Fresh(d)
                                  /\ Spending(d)' <=> Spending(d)
                                  /\ Spent(d)' = Spent(d)
                                  /\ call'[d] = call[d]
    BY <1>5 DEF Holding, Spending, Fresh, Spent, At
  <1>7. /\ k \in shown'[t] /\ shown'[t] = shown[t] \cup {k}
        /\ \A u \in Tokens \ {t} : shown'[u] = shown[u]
    BY <1>0, <1>2, <1>3 DEF ConnTypeOK
  <1>8. \A n \in Conns : store[n] # NoValue /\ store[n].refresh = t => n = ConnOf(c)
    BY <1>0, <1>3 DEF SpentOK
  <1>9. \A d \in Calls : Holding(d) => Fresh(d) # t /\ Fresh(d) \in alive
    BY <1>0, <1>3 DEF FreshOK
  <1>10. shown[new] = {} /\ lost \subseteq lost' /\ (~heard => t \in lost')
    BY <1>0, <1>4, <1>5 DEF ShownOK
  <1> HIDE DEF t, k
  <1>11. FreshOK'
    <2> SUFFICES ASSUME NEW h \in Calls, Holding(h)'
                 PROVE  /\ Fresh(h)' \in alive'
                        /\ shown'[Fresh(h)'] = {}
                        /\ \A d \in Calls : Holding(d)' /\ Fresh(d)' = Fresh(h)' => d = h
                        /\ \A n \in Conns : store'[n] # NoValue => store'[n].refresh # Fresh(h)'
                        /\ \A d \in Calls : Spending(d)' => Spent(d)' # Fresh(h)'
      BY DEF FreshOK
    <2>1. CASE h = c
      <3>1. heard /\ Fresh(h)' = new /\ Spent(c)' = t
        BY <1>5, <2>1
      <3>2. \A d \in Calls : Spending(d)' => Spent(d)' # new
        BY <1>0, <1>4, <1>6, <3>1, <2>1 DEF SpentOK
      <3>3. \A d \in Calls : Holding(d)' /\ Fresh(d)' = new => d = c
        BY <1>0, <1>4, <1>6, <1>9
      <3>4. \A n \in Conns : store'[n] # NoValue => store'[n].refresh # new
        BY <1>0, <1>2, <1>4 DEF StoredOK
      <3> QED BY <1>1, <1>4, <1>7, <1>10, <2>1, <3>1, <3>2, <3>3, <3>4
    <2>2. CASE h # c
      <3>1. Holding(h) /\ Fresh(h)' = Fresh(h) /\ Fresh(h) \in Tokens
        BY <1>0, <1>6, <1>9, <2>2 DEF ConnTypeOK
      <3>2. \A d \in Calls : Spending(d)' => Spent(d)' # Fresh(h)
        BY <1>0, <1>5, <1>6, <1>9, <2>2, <3>1 DEF FreshOK
      <3>3. \A d \in Calls : Holding(d)' /\ Fresh(d)' = Fresh(h) => d = h
        BY <1>0, <1>4, <1>5, <1>6, <1>9, <2>2, <3>1 DEF FreshOK
      <3> QED BY <1>0, <1>1, <1>2, <1>7, <1>9, <3>1, <3>2, <3>3 DEF FreshOK
    <2> QED BY <2>1, <2>2
  <1>12. SpentOK'
    BY <1>0, <1>1, <1>2, <1>3, <1>5, <1>6, <1>8 DEF SpentOK
  <1>13. (StoredOK /\ ShownOK)'
    BY <1>0, <1>1, <1>2, <1>3, <1>4, <1>7 DEF StoredOK, ShownOK
  <1>14. SuccessorOK'
    BY <1>0, <1>2, <1>3, <1>5, <1>6, <1>7, <1>10 DEF SuccessorOK, At, k
  <1>15. StoredTokenUsable'
    <2> SUFFICES ASSUME NEW n \in Conns, store[n] # NoValue
                 PROVE  \/ store[n].refresh \in alive' \cup lost'
                        \/ \E d \in Calls : /\ At(d, "persist")' /\ ConnOf(d) = n
                                            /\ Spent(d)' = store[n].refresh
      BY <1>2 DEF StoredTokenUsable, Spent, At
    <2>1. CASE store[n].refresh = t
      BY <1>5, <1>8, <1>10, <2>1
    <2>2. CASE store[n].refresh # t
      BY <1>0, <1>1, <1>3, <1>6, <1>10, <2>2 DEF StoredTokenUsable, Spent, At
    <2> QED BY <2>1, <2>2
  <1>16. ShownOncePerClient'
    <2> SUFFICES ASSUME NEW d \in Calls, At(d, "refresh")', shown'[Spent(d)'] = {Op[d].client}
                 PROVE  Spent(d)' \in lost'
      BY DEF ShownOncePerClient, Spent, At
    <2>1. /\ d # c /\ At(d, "refresh") /\ Spent(d)' = Spent(d) /\ Using(d)
          /\ Spent(d) \in Tokens
      BY <1>0, <1>5, <1>6, CallCarries DEF At, Spending, Using, Spent
    <2>2. CASE Spent(d) = t
      BY <1>2, <1>3, <1>7, <2>1, <2>2, OneUserPerClient DEF k
    <2>3. CASE Spent(d) # t
      BY <1>0, <1>7, <1>10, <2>1, <2>3 DEF ShownOncePerClient, Spent
    <2> QED BY <2>2, <2>3
  <1> QED BY <1>11, <1>12, <1>13, <1>14, <1>15, <1>16 DEF TokensIInv

\* The successor comes into the store, or is lost to it.
LEMMA PersistKeepsTokens ==
    ASSUME ConnIInv, Shape', NEW c \in Calls, NEW saved \in BOOLEAN, PersistTokens(c, saved)
    PROVE  TokensIInv'
  <1>0. ConnTypeOK /\ FreshOK /\ StoredOK /\ SpentOK /\ ShownOK /\ SuccessorOK
        /\ StoredTokenUsable /\ ShownOncePerClient /\ alive \subseteq issued
    BY DEF ConnIInv, Shape, TokensIInv, ConnTypeOK
  <1> DEFINE t == Spent(c)
             new == Fresh(c)
             n == ConnOf(c)
  <1>1. UNCHANGED <<issued, alive, shown>> /\ At(c, "persist") /\ Shape
    BY DEF PersistTokens, ConnIInv
  <1>2. /\ Using(c) /\ Spending(c) /\ Holding(c) /\ n \in Conns /\ store[n] # NoValue
        /\ t \in Tokens /\ new = call[c].new /\ call[c].got \in Stored /\ new \in Tokens
    BY <1>0, <1>1, CallCarries, UserHolds DEF Using, At, Spending, Holding, Spent, Fresh
  <1>3. /\ \A d \in Calls \ {c} : call'[d] = call[d]
        /\ ~Holding(c)' /\ ~Spending(c)' /\ ~At(c, "persist")'
    <2>1. Go(c, [pc |-> "served", token |-> call[c].new])
      BY DEF PersistTokens, Serve, Go
    <2> QED BY <1>0, <2>1, OnlyOneMoves DEF Holding, Spending, At
  <1>4. \A d \in Calls : d # c => /\ Holding(d)' <=> Holding(d)
                                  /\ Fresh(d)' = Fresh(d)
                                  /\ Spending(d)' <=> Spending(d)
                                  /\ Spent(d)' = Spent(d)
                                  /\ call'[d] = call[d]
    BY <1>3 DEF Holding, Spending, Fresh, Spent, At
  <1>5. /\ new \in alive /\ shown[new] = {} /\ t # new
        /\ \A d \in Calls : Holding(d) /\ Fresh(d) = new => d = c
        /\ \A m \in Conns : store[m] # NoValue => store[m].refresh # new
        /\ \A d \in Calls : Spending(d) => Spent(d) # new
    BY <1>0, <1>2 DEF FreshOK
  <1>6. \A m \in Conns : store[m] # NoValue /\ store[m].refresh = t => m = n
    BY <1>0, <1>2 DEF SpentOK
  <1>7. CASE saved
    <2>1. /\ store' = [store EXCEPT ![n] = Refreshed(call[c].got, call[c].new)]
          /\ lost' = lost
      BY <1>7 DEF PersistTokens, Keep
    <2>2. /\ store'[n] # NoValue /\ store'[n].refresh = new
          /\ \A m \in Conns \ {n} : store'[m] = store[m]
      BY <1>0, <1>2, <2>1, NoValueOK DEF ConnTypeOK, Refreshed, Stored
    <2> HIDE DEF t, new, n
    <2>3. FreshOK'
      BY <1>0, <1>1, <1>3, <1>4, <1>5, <2>2 DEF FreshOK
    <2>4. (StoredOK /\ SpentOK /\ ShownOK)'
      BY <1>0, <1>1, <1>2, <1>3, <1>4, <1>5, <2>2 DEF StoredOK, SpentOK, ShownOK
    <2>5. SuccessorOK'
      <3> SUFFICES ASSUME NEW u \in Tokens, NEW k \in Clients, shown[u] = {k}, u \notin lost
                   PROVE  \/ \E d \in Calls : /\ At(d, "persist")' /\ Op[d].client = k
                                              /\ Spent(d)' = u
                          \/ \A m \in Conns : store'[m] # NoValue => store'[m].refresh # u
        BY <1>1, <2>1 DEF SuccessorOK, At, Spent
      <3>1. CASE u = t
        BY <1>2, <1>5, <1>6, <2>2, <3>1
      <3>2. CASE u # t
        <4>1. \/ \E d \in Calls : At(d, "persist") /\ Op[d].client = k /\ Spent(d) = u
              \/ \A m \in Conns : store[m] # NoValue => store[m].refresh # u
          BY <1>0 DEF SuccessorOK
        <4>2. u # new
          BY <1>5
        <4> QED BY <1>4, <2>2, <3>2, <4>1, <4>2 DEF At, t
      <3> QED BY <3>1, <3>2
    <2>6. StoredTokenUsable'
      <3> SUFFICES ASSUME NEW m \in Conns, store'[m] # NoValue
                   PROVE  \/ store'[m].refresh \in alive' \cup lost'
                          \/ \E d \in Calls : /\ At(d, "persist")' /\ ConnOf(d) = m
                                              /\ Spent(d)' = store'[m].refresh
        BY DEF StoredTokenUsable, Spent, At
      <3>1. CASE m = n
        BY <1>1, <1>5, <2>2, <3>1
      <3>2. CASE m # n
        BY <1>0, <1>1, <1>4, <2>1, <2>2, <3>2 DEF StoredTokenUsable, Spent, At, n
      <3> QED BY <3>1, <3>2
    <2>7. ShownOncePerClient'
      BY <1>0, <1>1, <1>3, <1>4, <2>1 DEF ShownOncePerClient, At, Spending
    <2> QED BY <2>3, <2>4, <2>5, <2>6, <2>7 DEF TokensIInv
  <1>8. CASE ~saved
    <2>1. store' = store /\ lost' = lost \cup {t}
      BY <1>8 DEF PersistTokens, Spent
    <2> HIDE DEF t, new, n
    <2>2. FreshOK'
      BY <1>0, <1>1, <1>3, <1>4, <2>1 DEF FreshOK
    <2>3. (StoredOK /\ SpentOK /\ ShownOK)'
      BY <1>0, <1>1, <1>3, <1>4, <2>1 DEF StoredOK, SpentOK, ShownOK
    <2>4. SuccessorOK'
      BY <1>0, <1>1, <1>3, <1>4, <2>1 DEF SuccessorOK, At, t
    <2>5. StoredTokenUsable'
      <3> SUFFICES ASSUME NEW m \in Conns, store[m] # NoValue, store[m].refresh # t
                   PROVE  \/ store[m].refresh \in alive \cup lost
                          \/ \E d \in Calls : /\ At(d, "persist")' /\ ConnOf(d) = m
                                              /\ Spent(d)' = store[m].refresh
        BY <1>1, <2>1 DEF StoredTokenUsable, Spent, At
      <3> QED BY <1>0, <1>4 DEF StoredTokenUsable, Spent, At, t
    <2>6. ShownOncePerClient'
      BY <1>0, <1>1, <1>3, <1>4, <2>1 DEF ShownOncePerClient, At, Spending
    <2> QED BY <2>2, <2>3, <2>4, <2>5, <2>6 DEF TokensIInv
  <1> QED BY <1>7, <1>8

LEMMA ClientKeepsTokens ==
    ASSUME ConnIInv, UNCHANGED <<issued, alive, store, call, shown, lost>>
    PROVE  TokensIInv'
  BY DEF ConnIInv, TokensIInv, FreshOK, StoredOK, SpentOK, ShownOK, SuccessorOK,
         StoredTokenUsable, ShownOncePerClient, Holding, Spending, Fresh, Spent, At

\* The calls that were to store a successor die: it is lost.
LEMMA CrashKeepsTokens ==
    ASSUME ConnIInv, ConnCrash
    PROVE  TokensIInv'
  <1>0. ConnTypeOK /\ FreshOK /\ StoredOK /\ SpentOK /\ ShownOK /\ SuccessorOK
        /\ StoredTokenUsable /\ ShownOncePerClient /\ alive \subseteq issued
    BY DEF ConnIInv, Shape, TokensIInv, ConnTypeOK
  <1>1. UNCHANGED <<issued, alive, store, shown>>
    BY DEF ConnCrash
  <1>2. /\ lost \subseteq lost'
        /\ \A d \in Calls : At(d, "persist") => Spent(d) \in lost'
    BY DEF ConnCrash, Spent
  <1>3. \A d \in Calls : ~Holding(d)' /\ ~Spending(d)' /\ ~At(d, "persist")' /\ ~At(d, "refresh")'
    BY DEF ConnCrash, Holding, Spending, At
  <1>4. (FreshOK /\ StoredOK /\ SpentOK /\ ShownOK /\ ShownOncePerClient)'
    BY <1>0, <1>1, <1>3 DEF FreshOK, StoredOK, SpentOK, ShownOK, ShownOncePerClient, At
  <1>5. SuccessorOK'
    BY <1>0, <1>1, <1>2 DEF SuccessorOK
  <1>6. StoredTokenUsable'
    BY <1>0, <1>1, <1>2 DEF StoredTokenUsable, Spent
  <1> QED BY <1>4, <1>5, <1>6 DEF TokensIInv

LEMMA StepKeepsTokens ==
    ASSUME ConnIInv, Shape', NEW c \in Calls, ConnStep(c)
    PROVE  TokensIInv'
  BY LeavingStepsKeepTokens, ExchangeKeepsTokens, SitesKeepTokens, CallbackSaveKeepsTokens,
     GetKeepsTokens, RefreshKeepsTokens, RefusalKeepsTokens, PersistKeepsTokens, SMTT(30)
  DEF ConnStep

-----------------------------------------------------------------------------
\* The connections: installations.

Connected(c) == call[c] = [pc |-> "answered", with |-> "connected"]

ConnectedIInv ==
    /\ \A c \in Calls : Connected(c) /\ Via(c) \in {"jira", "linear"}
                        => installs[ConnOf(c)] # NoValue
    /\ ConnectedOnce

\* Rows are never taken away, nor given to another site.
RowsStay ==
    \A n \in Conns : installs[n] # NoValue =>
        installs'[n] # NoValue /\ installs'[n].site = installs[n].site

LEMMA StepsKeepRows ==
    ASSUME Shape, NEW c \in Calls, ConnStep(c)
    PROVE  RowsStay
  <1>0. installs \in [Conns -> Installation \cup {NoValue}]
    BY DEF Shape, ConnTypeOK
  <1>1. CASE CreateInstallation(c)
    BY <1>0, <1>1 DEF CreateInstallation, OrgIsTaken, RowsStay
  <1>2. CASE MarkRevoked(c)
    <2>1. Op[c].conn \in Conns
      BY <1>2, CallIsFor DEF MarkRevoked, Shape, KindsOK
    <2> DEFINE n == Op[c].conn
               new == IF installs[n] = NoValue THEN NoValue
                      ELSE [installs[n] EXCEPT !.revoked = TRUE]
    <2>2. installs[n] # NoValue => new # NoValue /\ new.site = installs[n].site
      <3>1. \A i \in Installation :
               /\ [i EXCEPT !.revoked = TRUE] \in Installation
               /\ [i EXCEPT !.revoked = TRUE].site = i.site
        BY DEF Installation
      <3>2. installs[n] \in Installation \cup {NoValue}
        BY <1>0, <2>1
      <3> QED BY <3>1, <3>2, NoValueOK
    <2>3. installs' = [installs EXCEPT ![n] = new]
      BY <1>2 DEF MarkRevoked
    <2> HIDE DEF n, new
    <2> QED BY <1>0, <2>2, <2>3 DEF RowsStay
  <1>3. CASE installs' = installs
    BY <1>3 DEF RowsStay
  <1> QED
    BY <1>1, <1>2, <1>3
    DEF ConnStep, CallbackStart, ExchangeCode, FetchSites, CallbackSave, DisconnectStart,
        ValidAccessToken, GetTokens, RefreshAccessToken, RefreshRefused, PersistTokens, CallFails

\* Jira and Linear are connected by the first installation only.
LEMMA StepsConnectOnce ==
    ASSUME Shape, NEW c \in Calls, ConnStep(c), NEW d \in Calls,
           Connected(d)', Via(d) \in {"jira", "linear"}
    PROVE  \/ Connected(d)
           \/ /\ d = c /\ installs[ConnOf(c)] = NoValue
              /\ installs'[ConnOf(c)] # NoValue
  <1>0. ConnTypeOK /\ installs \in [Conns -> Installation \cup {NoValue}]
    BY DEF Shape, ConnTypeOK
  <1>1. CASE CreateInstallation(c)
    <2>1. CASE OrgIsTaken(ConnOf(c))
      <3>1. call' = [call EXCEPT ![c] = [pc |-> "answered", with |-> "error"]]
        BY <1>1, <2>1 DEF CreateInstallation, Answer
      <3> QED BY <1>0, <3>1 DEF ConnTypeOK, Connected
    <2>2. CASE ~OrgIsTaken(ConnOf(c))
      <3>1. /\ Answer(c, "connected") /\ ConnOf(c) \in Conns
            /\ installs' = [installs EXCEPT ![ConnOf(c)] =
                   IF Via(c) = "linear" THEN LinearInstallation(c) ELSE NewInstallation(c)]
        BY <1>1, <2>2, CallIsFor DEF CreateInstallation
      <3>2. call[c].got.site \in Sites /\ call[c].got.refresh \in Tokens
        BY <1>0, <1>1, CallCarries DEF CreateInstallation, At
      <3>3. NewInstallation(c) \in Installation /\ LinearInstallation(c) \in Installation
        BY <3>2 DEF NewInstallation, LinearInstallation, Installation
      <3>4. d # c => call'[d] = call[d]
        BY <1>0, <3>1 DEF ConnTypeOK, Answer
      <3> QED BY <1>0, <2>2, <3>1, <3>3, <3>4, NoValueOK DEF OrgIsTaken, Connected
    <2> QED BY <2>1, <2>2
  <1>2. ASSUME NEW with \in {"declined", "gone", "error"}, Answer(c, with)
        PROVE  Connected(d)
    BY <1>0, <1>2 DEF Answer, Connected, ConnTypeOK
  <1>3. ASSUME NEW token, Serve(c, token)
        PROVE  Connected(d)
    <2>1. d # c
      BY <1>0, <1>3 DEF Serve, Connected, ConnTypeOK
    <2> QED BY <1>0, <1>3, <2>1 DEF Serve, Connected, ConnTypeOK
  <1>4. ASSUME NEW state, Go(c, state), state.pc # "answered"
        PROVE  Connected(d)
    <2>1. d # c
      BY <1>0, <1>4 DEF Go, Connected, ConnTypeOK
    <2> QED BY <1>0, <1>4, <2>1 DEF Go, Connected, ConnTypeOK
  <1>5. CASE ExchangeCode(c)
    <2>1. PICK t \in NewToken : \/ JiraExchanged(c, t) \/ LinearExchanged(c, t)
                                \/ SlackExchanged(c) \/ GitLabExchanged(c)
      BY <1>5 DEF ExchangeCode
    <2>2. CASE JiraExchanged(c, t) \/ LinearExchanged(c, t)
      BY <1>4, <2>2 DEF JiraExchanged, LinearExchanged
    <2>3. CASE SlackExchanged(c) \/ GitLabExchanged(c)
      <3>1. d # c
        BY <2>3 DEF SlackExchanged, GitLabExchanged
      <3> QED BY <1>0, <2>3, <3>1
              DEF SlackExchanged, GitLabExchanged, Answer, Connected, ConnTypeOK
    <2> QED BY <2>1, <2>2, <2>3
  <1>6. CASE CallbackStart(c) \/ FetchSites(c) \/ CallbackSave(c) \/ DisconnectStart(c)
             \/ MarkRevoked(c) \/ CallFails(c)
    BY <1>2, <1>4, <1>6 DEF CallbackStart, FetchSites, CallbackSave, DisconnectStart,
                            MarkRevoked, CallFails
  <1>7. CASE ValidAccessToken(c) \/ GetTokens(c) \/ RefreshRefused(c)
    BY <1>2, <1>3, <1>4, <1>7 DEF ValidAccessToken, GetTokens, RefreshRefused
  <1>8. ASSUME NEW heard \in BOOLEAN, RefreshAccessToken(c, heard)
        PROVE  Connected(d)
    <2>1. Answer(c, "error")
          \/ \E new \in NewToken :
                Go(c, [pc |-> "persist", got |-> call[c].got, new |-> new])
      BY <1>8 DEF RefreshAccessToken
    <2> QED BY <1>2, <1>4, <2>1
  <1>9. ASSUME NEW saved \in BOOLEAN, PersistTokens(c, saved)
        PROVE  Connected(d)
    BY <1>3, <1>9 DEF PersistTokens
  <1> QED BY <1>1, <1>5, <1>6, <1>7, <1>8, <1>9 DEF ConnStep

LEMMA StepKeepsConnected ==
    ASSUME Shape, ConnectedIInv, NEW c \in Calls, ConnStep(c)
    PROVE  ConnectedIInv'
  <1>1. RowsStay
    BY StepsKeepRows
  <1>2. \A d \in Calls : ConnOf(d) \in Conns /\ Via(d) = Provider[ConnOf(d)]
    BY CallIsFor DEF Via
  <1>3. \A d \in Calls : Connected(d)' /\ Via(d) \in {"jira", "linear"}
                         => \/ Connected(d)
                            \/ /\ d = c /\ installs[ConnOf(c)] = NoValue
                               /\ installs'[ConnOf(c)] # NoValue
    BY StepsConnectOnce
  <1>4. \A d \in Calls : Connected(d)' /\ Via(d) \in {"jira", "linear"}
                         => installs'[ConnOf(d)] # NoValue
    BY <1>1, <1>2, <1>3 DEF ConnectedIInv, RowsStay
  <1>5. ConnectedOnce'
    BY <1>2, <1>3 DEF ConnectedIInv, ConnectedOnce, Connected
  <1> QED BY <1>4, <1>5 DEF ConnectedIInv

LEMMA OthersKeepConnected ==
    ASSUME ConnectedIInv, UNCHANGED <<installs, call>> \/ ConnCrash
    PROVE  ConnectedIInv'
  <1>1. UNCHANGED installs
    BY DEF ConnCrash
  <1>2. \A c \in Calls : Connected(c)' => Connected(c)
    BY DEF ConnCrash, Connected
  <1> QED BY <1>1, <1>2 DEF ConnectedIInv, ConnectedOnce, Connected

-----------------------------------------------------------------------------
\* The webhook receivers.

HooksIInv ==
    /\ delivery \in [Deliveries -> DeliveryState]
    /\ marked \subseteq Apps

\* What a handler's checks come to.
LEMMA ChecksAre ==
    ASSUME NEW r \in DeliveryRecord, NEW readable \in BOOLEAN, NEW found \in Answers
    PROVE  \A i \in DOMAIN Checks(r, readable, found) :
               Checks(r, readable, found)[i].status \in Statuses
  <1> USE DEF Check, Statuses
  <1>1. CASE r.to = "github"
    <2>1. Checks(r, readable, found) = GitHubChecks(r, readable)
      BY <1>1 DEF Checks
    <2> QED BY <1>1, <2>1 DEF GitHubChecks
  <1>2. CASE r.to = "jira"
    <2>1. Checks(r, readable, found) = JiraChecks(r, readable, found)
      BY <1>2 DEF Checks
    <2> QED BY <1>2, <2>1 DEF JiraChecks
  <1>3. CASE r.to = "linear"
    <2>1. Checks(r, readable, found) = LinearChecks(r, readable)
      BY <1>3 DEF Checks
    <2> QED BY <1>3, <2>1 DEF LinearChecks
  <1>4. CASE r.to = "slack"
    <2>1. Checks(r, readable, found) = SlackChecks(r, readable)
      BY <1>4 DEF Checks
    <2> QED BY <1>4, <2>1 DEF SlackChecks
  <1>5. CASE r.to = "gitlab"
    <2>1. Checks(r, readable, found) = GitLabChecks(r, readable)
      BY <1>5 DEF Checks
    <2> QED BY <1>5, <2>1 DEF GitLabChecks
  <1>6. CASE r.to = "pagerduty"
    <2>1. Checks(r, readable, found) = PagerDutyChecks(r, readable)
      BY <1>6 DEF Checks
    <2> QED BY <1>6, <2>1 DEF PagerDutyChecks
  <1>7. CASE r.to = "trello"
    <2>1. Checks(r, readable, found) = TrelloChecks(r, readable)
      BY <1>7 DEF Checks
    <2> QED BY <1>7, <2>1 DEF TrelloChecks
  <1> QED BY <1>1, <1>2, <1>3, <1>4, <1>5, <1>6, <1>7 DEF DeliveryRecord

LEMMA OthersKeepHooks ==
    ASSUME HooksIInv, UNCHANGED hookVars
    PROVE  HooksIInv'
  BY DEF HooksIInv, hookVars

LEMMA HandleKeepsHooks ==
    ASSUME HooksIInv, NEW d \in Deliveries, Handle(d)
    PROVE  HooksIInv'
  <1>1. PICK readable \in BOOLEAN, found \in FindByCloudID(Delivery[d].site) :
           LET checks == Checks(Delivery[d], readable, found)
               refusals == {i \in DOMAIN checks : ~checks[i].ok}
           IN  \/ /\ refusals = {}
                  /\ delivery' = [delivery EXCEPT ![d] =
                         [pc |-> "spawned", status |-> Accepted(Delivery[d]), open |-> TRUE,
                          found |-> IF Delivery[d].to = "jira" THEN found ELSE "nil"]]
               \/ \E first \in refusals :
                     /\ \A i \in refusals : first <= i
                     /\ delivery' = [delivery EXCEPT ![d] =
                            [@ EXCEPT !.pc = "answered", !.status = checks[first].status,
                                      !.open = TRUE]]
    BY DEF Handle
  <1> DEFINE checks == Checks(Delivery[d], readable, found)
  <1>2. found \in Answers /\ \A i \in DOMAIN checks : checks[i].status \in Statuses
    <2>1. Delivery[d] \in DeliveryRecord /\ found \in Answers
      BY DeliveriesOK DEF FindByCloudID
    <2> QED BY <2>1, ChecksAre
  <1> HIDE DEF checks
  <1>3. delivery \in [Deliveries -> DeliveryState] /\ marked' \subseteq Apps
    BY DEF HooksIInv, Handle
  <1>4. CASE delivery' = [delivery EXCEPT ![d] =
                 [pc |-> "spawned", status |-> Accepted(Delivery[d]), open |-> TRUE,
                  found |-> IF Delivery[d].to = "jira" THEN found ELSE "nil"]]
    BY <1>2, <1>3, <1>4 DEF HooksIInv, DeliveryState, Places, Statuses, Accepted, Answers
  <1>5. ASSUME NEW first \in DOMAIN checks,
               delivery' = [delivery EXCEPT ![d] =
                   [@ EXCEPT !.pc = "answered", !.status = checks[first].status, !.open = TRUE]]
        PROVE  HooksIInv'
    <2>1. \A s \in Statuses : [delivery[d] EXCEPT !.pc = "answered", !.status = s, !.open = TRUE]
                              \in DeliveryState
      BY <1>3 DEF DeliveryState, Places
    <2> QED BY <1>2, <1>3, <1>5, <2>1 DEF HooksIInv
  <1> QED BY <1>1, <1>4, <1>5 DEF checks

LEMMA HookStepsKeepHooks ==
    ASSUME HooksIInv, NEW d \in Deliveries, HookStep(d)
    PROVE  HooksIInv'
  <1>1. delivery \in [Deliveries -> DeliveryState] /\ marked \subseteq Apps
    BY DEF HooksIInv
  <1>2. Delivery[d].app \in Apps
    BY DeliveriesOK DEF DeliveryRecord
  <1>3. CASE HandlerReturns(d) \/ DeliverAgain(d) \/ RouteRemoval(d) \/ RouteOther(d)
    <2>1. marked' \subseteq Apps
      BY <1>1, <1>2, <1>3 DEF HandlerReturns, DeliverAgain, RouteRemoval, RouteOther
    <2>2. delivery' \in [Deliveries -> DeliveryState]
      <3>1. ASSUME NEW p \in Places, delivery' = [delivery EXCEPT ![d].pc = p]
            PROVE  delivery' \in [Deliveries -> DeliveryState]
        <4>1. [delivery[d] EXCEPT !.pc = p] \in DeliveryState
          BY <1>1 DEF DeliveryState
        <4> QED BY <1>1, <3>1, <4>1
      <3>2. CASE RouteRemoval(d) \/ RouteOther(d)
        BY <3>1, <3>2 DEF RouteRemoval, RouteOther, Places
      <3>3. CASE HandlerReturns(d)
        <4>1. \A r \in DeliveryState : [r EXCEPT !.open = FALSE] \in DeliveryState
          BY DEF DeliveryState
        <4>2. delivery' = [delivery EXCEPT ![d] = [delivery[d] EXCEPT !.open = FALSE]]
          BY <3>3 DEF HandlerReturns
        <4> QED BY <1>1, <4>1, <4>2
      <3>4. CASE DeliverAgain(d)
        <4>1. \A r \in DeliveryState : [r EXCEPT !.pc = "sent", !.status = 0] \in DeliveryState
          <5>1. "sent" \in Places /\ 0 \in Statuses
            BY DEF Places, Statuses
          <5> QED BY <5>1 DEF DeliveryState
        <4>2. delivery' = [delivery EXCEPT ![d] = [delivery[d] EXCEPT !.pc = "sent", !.status = 0]]
          BY <3>4 DEF DeliverAgain
        <4> QED BY <1>1, <4>1, <4>2
      <3> QED BY <1>3, <3>2, <3>3, <3>4
    <2> QED BY <2>1, <2>2 DEF HooksIInv
  <1> QED BY <1>3, HandleKeepsHooks DEF HookStep

LEMMA CrashKeepsHooks ==
    ASSUME HooksIInv, HooksCrash
    PROVE  HooksIInv'
  <1>1. ASSUME NEW r \in DeliveryState, NEW p \in {r.pc, "lost"}
        PROVE  [r EXCEPT !.pc = p, !.open = FALSE] \in DeliveryState
    BY DEF DeliveryState, Places
  <1>2. ASSUME NEW d \in Deliveries
        PROVE  delivery'[d] \in DeliveryState
    <2>1. PICK p : p = IF delivery[d].pc = "spawned" THEN "lost" ELSE delivery[d].pc
      OBVIOUS
    <2>2. delivery'[d] = [delivery[d] EXCEPT !.pc = p, !.open = FALSE]
      BY <2>1 DEF HooksCrash
    <2>3. delivery[d] \in DeliveryState /\ p \in {delivery[d].pc, "lost"}
      BY <2>1 DEF HooksIInv
    <2> QED BY <1>1, <2>2, <2>3
  <1> QED BY <1>2 DEF HooksIInv, HooksCrash

-----------------------------------------------------------------------------
\* The whole.

IInv == Shape /\ TokensIInv /\ ConnectedIInv /\ AppIInv /\ HooksIInv

LEMMA InitEstablishes ==
    ASSUME NEW calls \in SUBSET Calls, NEW us \in SUBSET Users, NEW ds \in SUBSET Deliveries,
           InitWith([calls |-> calls, users |-> us, deliveries |-> ds])
    PROVE  IInv
  <1>1. ConnInit(calls) /\ AppInit(us) /\ HooksInit(ds)
    BY DEF InitWith
  <1>2. ConnectedIInv
    <2>1. \A c \in Calls : call[c].pc # "answered"
      BY <1>1 DEF ConnInit
    <2> QED BY <2>1 DEF ConnectedIInv, ConnectedOnce, Connected
  <1>3. HooksIInv
    BY <1>1 DEF HooksInit, HooksIInv, DeliveryState, Places, Statuses, Answers
  <1> QED BY <1>1, <1>2, <1>3, ConnInitShape, ConnInitTokens, AppInitEstablishes DEF IInv

LEMMA CrashKeeps ==
    ASSUME IInv, Crash
    PROVE  IInv'
  <1>1. ConnCrash /\ AppCrash /\ HooksCrash /\ UNCHANGED installs
    BY DEF Crash, ConnCrash
  <1> QED BY <1>1, CrashKeepsShape, CrashKeepsTokens, OthersKeepConnected, AppEnvironmentKeeps,
             CrashKeepsHooks DEF IInv, ConnIInv

LEMMA NextKeeps ==
    ASSUME IInv, [Next]_vars
    PROVE  IInv'
  <1>0. Shape /\ ConnIInv /\ ConnectedIInv /\ AppIInv /\ HooksIInv
    BY DEF IInv, ConnIInv
  <1>1. ASSUME NEW c \in Calls, ConnStep(c), UNCHANGED <<appVars, hookVars>>
        PROVE  IInv'
    <2>1. Shape'
      BY <1>0, <1>1, StepKeepsShape
    <2>2. TokensIInv' /\ ConnectedIInv'
      BY <1>0, <1>1, <2>1, StepKeepsTokens, StepKeepsConnected
    <2>3. AppIInv' /\ HooksIInv'
      BY <1>0, <1>1, <2>2, AppUnchanged, OthersKeepHooks
    <2> QED BY <2>1, <2>2, <2>3 DEF IInv
  <1>2. ASSUME NEW k \in Clients, ForOrg(k) \/ Expire(k), UNCHANGED <<appVars, hookVars>>
        PROVE  IInv'
    <2>1. UNCHANGED <<issued, alive, store, installs, call, shown, lost>>
      BY <1>2 DEF ForOrg, Expire
    <2>2. Shape' /\ TokensIInv' /\ ConnectedIInv'
      BY <1>0, <1>2, <2>1, ClientKeepsShape, ClientKeepsTokens, OthersKeepConnected
    <2>3. AppIInv' /\ HooksIInv'
      BY <1>0, <1>2, <2>2, AppUnchanged, OthersKeepHooks
    <2> QED BY <2>2, <2>3 DEF IInv
  <1>3. ASSUME UNCHANGED connVars
        PROVE  Shape' /\ TokensIInv' /\ ConnectedIInv'
    <2>1. UNCHANGED <<issued, alive, store, installs, client, call, shown, lost>>
      BY <1>3 DEF connVars
    <2>2. Shape'
      BY <1>0, <2>1 DEF Shape, ConnTypeOK, KindsOK, ClientsOK, InstallsOK, MutexOK, Using, At
    <2> QED BY <1>0, <2>1, <2>2, ClientKeepsTokens, OthersKeepConnected
  <1>4. ASSUME UNCHANGED <<connVars, hookVars>>,
               \/ \E u \in Users : AppStep(u)
               \/ Tick \/ AppCrash \/ \E i \in Apps : Remove(i)
        PROVE  IInv'
    <2>1. AppIInv'
      BY <1>0, <1>4, AppStepKeeps, AppEnvironmentKeeps
    <2> QED BY <1>0, <1>3, <1>4, <2>1, OthersKeepHooks DEF IInv
  <1>5. ASSUME NEW d \in Deliveries, HookStep(d), UNCHANGED <<connVars, appVars>>
        PROVE  IInv'
    BY <1>0, <1>3, <1>5, HookStepsKeepHooks, AppUnchanged DEF IInv
  <1>6. CASE UNCHANGED vars
    <2>1. UNCHANGED connVars /\ UNCHANGED appVars /\ UNCHANGED hookVars
      BY <1>6 DEF vars
    <2> QED BY <1>0, <1>3, <2>1, AppUnchanged, OthersKeepHooks DEF IInv
  <1> QED BY <1>1, <1>2, <1>4, <1>5, <1>6, CrashKeeps DEF Next, RoutePanics

LEMMA Invariance == WebhooksSpec => []IInv
  <1>1. ASSUME \E cs \in SUBSET Calls, us \in SUBSET Users, ds \in SUBSET Deliveries :
                  InitWith([calls |-> cs, users |-> us, deliveries |-> ds])
        PROVE  IInv
    BY <1>1, InitEstablishes
  <1> QED BY <1>1, NextKeeps, PTL DEF WebhooksSpec

\* The state of connections, GitHub App and deliveries keeps its shape: in
\* particular a client that serves a cached token has one.
THEOREM TypeCorrect == WebhooksSpec => []TypeOK
  <1>1. IInv => TypeOK
    BY DEF IInv, Shape, AppIInv, HooksIInv, TypeOK
  <1> QED BY <1>1, Invariance, PTL

\* For any calls of any number of clients: the refresh token in the store of a
\* connection can be spent, or a call has its successor, or that one was lost.
THEOREM StoredTokenCorrect == WebhooksSpec => []StoredTokenUsable
  <1>1. IInv => StoredTokenUsable
    BY DEF IInv, TokensIInv
  <1> QED BY <1>1, Invariance, PTL

\* A client shows a refresh token again that it alone has shown only if the
\* successor was lost: what its mutex is worth.
THEOREM ShownOnceCorrect == WebhooksSpec => []ShownOncePerClient
  <1>1. IInv => ShownOncePerClient
    BY DEF IInv, TokensIInv
  <1> QED BY <1>1, Invariance, PTL

\* No organisation is told "connected" to Jira or Linear twice.
THEOREM ConnectedOnceCorrect == WebhooksSpec => []ConnectedOnce
  <1>1. IInv => ConnectedOnce
    BY DEF IInv, ConnectedIInv
  <1> QED BY <1>1, Invariance, PTL

\* A removed installation is served no token once the last one minted before
\* the removal is within the margin of its end, for any lifetimes.
THEOREM RevocationCorrect == WebhooksSpec => []RevocationTakesEffect
  <1>1. IInv => RevocationTakesEffect
    BY AppRevocation DEF IInv
  <1> QED BY <1>1, Invariance, PTL
=============================================================================
