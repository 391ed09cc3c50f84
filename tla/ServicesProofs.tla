--------------------------- MODULE ServicesProofs ---------------------------
(***************************************************************************)
(* Proofs about Accounts and GitEvents, and about the services together,   *)
(* for any calls that overlap in any way and any payloads.                 *)
(*                                                                         *)
(* What keeps a second membership out is the table's unique keys, also of  *)
(* rows that are soft-deleted, and not the check before the insert; the    *)
(* removal needs to know that keys are unique before it.                   *)
(*                                                                         *)
(* Of git events, the enrichment preserves that the event adds to what the *)
(* payload said (AddsTo); the other two properties are about the text of   *)
(* any payload, and follow from lemmas on prefixes and suffixes.           *)
(***************************************************************************)
EXTENDS Services, StorageProofs, TicketLinksProofs

Places == {"none", "validate", "find", "login", "create", "create_org", "add", "insert",
           "remove", "ok", "refused"}

UserRows == [id : {PlaceholderId}, key : {Asks[c].sub : c \in AccountCalls}]

AccountShape ==
    /\ users \subseteq UserRows
    /\ account \in [AccountCalls -> [pc : Places, answer : UserRows \cup {Nobody}]]

Pairs == {Pair(c) : c \in AccountCalls}

MembersShape == members \subseteq [id : {PlaceholderId}, key : Pairs, live : BOOLEAN]

MemberKeysUnique == \A m, n \in members : m.key = n.key => m = n

AccountsInv == AccountShape /\ MembersShape /\ MemberKeysUnique /\ AnsweredUserIsStored

-----------------------------------------------------------------------------
LEMMA AccountsInvInit ==
    ASSUME NEW active \in SUBSET AccountCalls, AccountsInit(active)
    PROVE  AccountsInv
  <1>1. \A c \in AccountCalls : Asks[c].kind \in Places
    BY AccountsOK DEF AsksOK, Places
  <1>2. AccountShape /\ AnsweredUserIsStored
    BY <1>1 DEF AccountsInit, Places, AccountShape, AnsweredUserIsStored
  <1> QED BY <1>2 DEF AccountsInit, AccountsInv, MembersShape, MemberKeysUnique

\* A step of a call that answers nobody, and takes no user away.
LEMMA NoAnswer ==
    ASSUME AccountsInv, NEW c \in AccountCalls, NEW pc \in Places, AccountGoes(c, pc),
           users \subseteq users', users' \subseteq UserRows
    PROVE  (AccountShape /\ AnsweredUserIsStored)'
  BY DEF AccountsInv, AccountShape, AnsweredUserIsStored, AccountGoes

\* A call is answered with a row of its own subject.
LEMMA AnsweredWithRow ==
    ASSUME AccountsInv, NEW c \in AccountCalls, NEW u \in users', u.key = Asks[c].sub,
           AnswersUser(c, u), users \subseteq users', users' \subseteq UserRows
    PROVE  (AccountShape /\ AnsweredUserIsStored)'
  BY DEF AccountsInv, AccountShape, AnsweredUserIsStored, AnswersUser, Places

\* The membership rows as they are.
LEMMA MembersKept ==
    ASSUME AccountsInv, members' = members
    PROVE  (MembersShape /\ MemberKeysUnique)'
  BY DEF AccountsInv, MembersShape, MemberKeysUnique

LEMMA Inserted ==
    ASSUME AccountsInv, NEW c \in AccountCalls, InsertMember(c)
    PROVE  /\ (MembersShape /\ MemberKeysUnique)'
           /\ \A m \in members' \ members : \A n \in members' \ {m} : n.key # m.key
  <1>1. CASE members' = members
    BY <1>1, MembersKept
  <1>2. CASE /\ ~MemberTaken(Pair(c))
             /\ members' = members \cup {[id |-> PlaceholderId, key |-> Pair(c), live |-> TRUE]}
    <2> DEFINE new == [id |-> PlaceholderId, key |-> Pair(c), live |-> TRUE]
    <2>1. \A m \in members : m.key # new.key
      BY <1>2 DEF MemberTaken, KeysTaken
    <2>2. new \in [id : {PlaceholderId}, key : Pairs, live : BOOLEAN]
      BY DEF Pairs
    <2>3. members' = members \cup {new}
      BY <1>2
    <2> HIDE DEF new
    <2> QED BY <2>1, <2>2, <2>3 DEF AccountsInv, MembersShape, MemberKeysUnique
  <1> QED BY <1>1, <1>2 DEF InsertMember

LEMMA Removed ==
    ASSUME AccountsInv, NEW c \in AccountCalls, RemoveMember(c)
    PROVE  /\ (MembersShape /\ MemberKeysUnique)'
           /\ \A m \in members' \ members :
                 ~m.live /\ \A n \in members' \ {m} : n.key # m.key
  <1>1. CASE members' = members
    BY <1>1, MembersKept
  <1>2. CASE members' = {IF m.key = Pair(c) THEN [m EXCEPT !.live = FALSE] ELSE m : m \in members}
    <2> DEFINE Struck(m) == IF m.key = Pair(c) THEN [m EXCEPT !.live = FALSE] ELSE m
    <2>1. \A m \in members :
              /\ Struck(m) \in [id : {PlaceholderId}, key : Pairs, live : BOOLEAN]
              /\ Struck(m).key = m.key
              /\ Struck(m) # m => ~Struck(m).live
      BY DEF AccountsInv, MembersShape
    <2>2. members' = {Struck(m) : m \in members}
      BY <1>2
    <2> HIDE DEF Struck
    <2>3. (MembersShape /\ MemberKeysUnique)'
      BY <2>1, <2>2 DEF AccountsInv, MembersShape, MemberKeysUnique
    <2>4. \A m \in members' \ members : ~m.live
      BY <2>1, <2>2
    <2> QED BY <2>3, <2>4 DEF MemberKeysUnique
  <1> QED BY <1>1, <1>2 DEF RemoveMember

-----------------------------------------------------------------------------
LEMMA AccountsInvNext ==
    ASSUME AccountsInv, [AccountsNext]_accountVars
    PROVE  AccountsInv'
  <1>1. CASE UNCHANGED accountVars
    BY <1>1 DEF accountVars, AccountsInv, AccountShape, MembersShape, MemberKeysUnique,
                AnsweredUserIsStored
  <1>2. ASSUME NEW c \in AccountCalls, FindByExternalID(c) \/ FindAgain(c)
        PROVE  AccountsInv'
    BY <1>2, NoAnswer, MembersKept DEF FindByExternalID, FindAgain, AccountsInv, Places, AccountShape
  <1>3. ASSUME NEW c \in AccountCalls, UpdateLastLogin(c)
        PROVE  AccountsInv'
    <2>1. users' = users /\ members' = members /\ users \subseteq UserRows
      BY <1>3 DEF UpdateLastLogin, AccountsInv, AccountShape
    <2>2. (AccountShape /\ AnsweredUserIsStored)'
      BY <1>3, <2>1, NoAnswer, AnsweredWithRow DEF UpdateLastLogin, UsersOf, Places
    <2> QED BY <2>1, <2>2, MembersKept DEF AccountsInv
  <1>4. ASSUME NEW c \in AccountCalls, CreateUser(c)
        PROVE  AccountsInv'
    <2> DEFINE u == [id |-> PlaceholderId, key |-> Asks[c].sub]
    <2>1. members' = members
      BY <1>4 DEF CreateUser
    <2>2. CASE users' = users \cup {u} /\ AnswersUser(c, u)
      <3>1. /\ u \in users' /\ users \subseteq users' /\ u.key = Asks[c].sub
            /\ users' \subseteq UserRows
        BY <2>2 DEF AccountsInv, AccountShape, UserRows
      <3> QED BY <2>2, <3>1, <2>1, AnsweredWithRow, MembersKept DEF AccountsInv
    <2>3. CASE CreateFails(c) /\ UNCHANGED users
      BY <2>1, <2>3, NoAnswer, MembersKept DEF CreateFails, AccountsInv, Places, AccountShape
    <2> QED BY <1>4, <2>2, <2>3 DEF CreateUser
  <1>5. ASSUME NEW c \in AccountCalls, CreateOrg(c) \/ FindMember(c)
        PROVE  AccountsInv'
    BY <1>5, NoAnswer, MembersKept DEF CreateOrg, FindMember, AccountsInv, Places, AccountShape
  <1>6. ASSUME NEW c \in AccountCalls, InsertMember(c)
        PROVE  AccountsInv'
    BY <1>6, NoAnswer, Inserted DEF InsertMember, AccountsInv, Places, AccountShape
  <1>7. ASSUME NEW c \in AccountCalls, RemoveMember(c)
        PROVE  AccountsInv'
    BY <1>7, NoAnswer, Removed DEF RemoveMember, AccountsInv, Places, AccountShape
  <1> QED BY <1>1, <1>2, <1>3, <1>4, <1>5, <1>6, <1>7 DEF AccountsNext

LEMMA AccountsInvariance == AccountsSpec => []AccountsInv
  <1>1. (\E active \in SUBSET AccountCalls : AccountsInit(active)) => AccountsInv
    BY AccountsInvInit
  <1>2. AccountsInv /\ [AccountsNext]_accountVars => AccountsInv'
    BY AccountsInvNext
  <1> QED BY <1>1, <1>2, PTL DEF AccountsSpec

\* Whatever first requests of one subject overlap, nobody is told to be a user
\* that was never stored, or one of another subject.
THEOREM AnsweredUserCorrect == AccountsSpec => []AnsweredUserIsStored
  <1>1. AccountsInv => AnsweredUserIsStored
    BY DEF AccountsInv
  <1> QED BY <1>1, AccountsInvariance, PTL

\* No interleaving of additions and removals makes anybody a member twice, nor
\* a member again.
THEOREM MembershipCorrect == AccountsSpec => NoSecondMembership
  <1> DEFINE Once ==
          \A m \in members' \ members :
              /\ \A n \in members' \ {m} : n.key # m.key
              /\ m.live => \A n \in members : n.key # m.key
  <1>1. AccountsInv /\ [AccountsNext]_accountVars => [Once]_accountVars
    <2> SUFFICES ASSUME AccountsInv, AccountsNext
                 PROVE  Once
      OBVIOUS
    <2>1. ASSUME members' = members
          PROVE  Once
      BY <2>1
    <2>2. ASSUME NEW c \in AccountCalls, InsertMember(c)
          PROVE  Once
      <3>1. members \subseteq members'
        BY <2>2 DEF InsertMember
      <3> QED BY <2>2, <3>1, Inserted
    <2>3. ASSUME NEW c \in AccountCalls, RemoveMember(c)
          PROVE  Once
      BY <2>3, Removed
    <2> QED BY <2>1, <2>2, <2>3 DEF AccountsNext, FindByExternalID, FindAgain,
                UpdateLastLogin, CreateUser, CreateOrg, FindMember
  <1> QED BY <1>1, AccountsInvariance, PTL DEF AccountsSpec, NoSecondMembership

-----------------------------------------------------------------------------
\* Git events.  What enrichment may do to what a payload said: fill in what the
\* payload left out.  A deployment says nothing of a workflow, so that the one
\* of the jobs takes nothing away.
Copied == {"type", "key", "commit", "message", "branch", "env", "author"}
Filled == {"committedAt", "workflow", "log"}

AddsTo(e, said) ==
    /\ DOMAIN e = DOMAIN NoEvent
    /\ \A f \in Copied : e[f] = said[f]
    /\ \A f \in Filled : said[f] # Nothing => e[f] = said[f]
    /\ said["type"] = "deployment" => said["workflow"] = Nothing /\ said["log"] = Nothing

Working == {"client", "diff", "prs", "ci", "jobs", "committed"}

GitInv ==
    /\ payload \in Payloads
    /\ IsDeploy \/ stage \in Working => AddsTo(event, Parsed(payload))

LEMMA EventFields ==
    DOMAIN NoEvent = Copied \cup Filled \cup {"services", "files", "prs"}
  BY DEF NoEvent, Copied, Filled

\* Of the parsers' results, those of a deploy have all the fields of one.
LEMMA ParsedAddsToItself ==
    ASSUME NEW p \in Payloads, Parsed(p) # Nothing, "type" \in DOMAIN Parsed(p)
    PROVE  AddsTo(Parsed(p), Parsed(p))
  <1>1. p.kind \in Kinds /\ p.readable \in BOOLEAN
    BY GitEventsOK DEF PayloadOK
  <1>2. p.readable
    BY <1>1 DEF Parsed
  <1>3. CASE p.kind = "push"
    <2>1. Parsed(p) = IF p.host = "github" THEN ParsePushEvent(p) ELSE ParseGitLabPushEvent(p)
      BY <1>2, <1>3 DEF Parsed
    <2>2. /\ DOMAIN Parsed(p) = DOMAIN NoEvent /\ Parsed(p)["type"] = "push"
      BY <2>1 DEF ParsePushEvent, ParseGitLabPushEvent, NoEvent
    <2> QED BY <2>2 DEF AddsTo
  <1>4. CASE p.kind = "deployment"
    <2>1. Parsed(p) = ParseDeploymentEvent(p)
      BY <1>2, <1>4 DEF Parsed
    <2>2. /\ DOMAIN Parsed(p) = DOMAIN NoEvent
          /\ Parsed(p)["workflow"] = Nothing /\ Parsed(p)["log"] = Nothing
      BY <2>1 DEF ParseDeploymentEvent, NoEvent
    <2> QED BY <2>2 DEF AddsTo
  <1>5. CASE p.kind = "workflow_run"
    <2>1. Parsed(p) = ParseWorkflowRunEvent(p)
      BY <1>2, <1>5 DEF Parsed
    <2>2. DOMAIN Parsed(p) = DOMAIN NoEvent /\ Parsed(p)["type"] = "workflow_run"
      BY <2>1 DEF ParseWorkflowRunEvent, NoEvent
    <2> QED BY <2>2 DEF AddsTo
  <1>6. CASE p.kind = "deployment_status"
    <2>1. Parsed(p) = ParseDeploymentStatusEvent(p)
      BY <1>2, <1>6 DEF Parsed
    <2> QED BY <2>1 DEF ParseDeploymentStatusEvent
  <1>7. CASE p.kind = "pull_request"
    <2>1. Parsed(p) = ParsePREvent(p)
      BY <1>2, <1>7 DEF Parsed
    <2> QED BY <2>1 DEF ParsePREvent
  <1>8. CASE p.kind = "check_suite"
    <2>1. Parsed(p) = ParseCheckSuiteEvent(p)
      BY <1>2, <1>8 DEF Parsed
    <2> QED BY <2>1 DEF ParseCheckSuiteEvent
  <1> QED BY <1>1, <1>3, <1>4, <1>5, <1>6, <1>7, <1>8 DEF Kinds

\* An event whose fields change only where the payload said nothing.
LEMMA EventMoves ==
    ASSUME NEW e, NEW d, NEW said, AddsTo(e, said), DOMAIN d = DOMAIN e,
           \A f \in Copied : d[f] = e[f],
           \A f \in Filled : d[f] = e[f] \/ said[f] = Nothing
    PROVE  AddsTo(d, said)
  BY DEF AddsTo

LEMMA GitInvNext ==
    ASSUME GitInv, [GitNext]_gitVars
    PROVE  GitInv'
  <1> DEFINE said == Parsed(payload)
  <1>1. CASE Parse
    <2>1. event' = Parsed(payload) /\ payload' = payload /\ payload \in Payloads
      BY <1>1 DEF Parse, GitInv
    <2>2. stage' \in Working => event' # Nothing /\ "type" \in DOMAIN event'
      BY <1>1 DEF Parse, Working
    <2> QED BY <2>1, <2>2, ParsedAddsToItself DEF GitInv, IsDeploy
  <1>2. ASSUME stage \in Working, payload' = payload,
               DOMAIN event' = DOMAIN event,
               \A f \in Copied : event'[f] = event[f],
               \A f \in Filled : event'[f] = event[f] \/ said[f] = Nothing
        PROVE  GitInv'
    <2>1. AddsTo(event, said) /\ payload \in Payloads
      BY <1>2 DEF GitInv
    <2>2. AddsTo(event', said)
      BY <1>2, <2>1, EventMoves
    <2> QED BY <1>2, <2>1, <2>2 DEF GitInv
  <1>3. CASE InstallationClient \/ RequestFails \/ EnrichCIStatus
    BY <1>2, <1>3 DEF InstallationClient, RequestFails, EnrichCIStatus, Working
  <1>4. ASSUME stage \in Working PROVE DOMAIN event = Copied \cup Filled \cup {"services", "files", "prs"}
    BY <1>4, EventFields DEF GitInv, AddsTo
  <1>5. CASE EnrichDiffStats
    <2>1. PICK paths \in Compares :
            event' = [event EXCEPT !.files = Len(paths),
                                   !.services = DetectAffectedServices(paths)]
      BY <1>5 DEF EnrichDiffStats
    <2>2. stage \in Working /\ payload' = payload
      BY <1>5 DEF EnrichDiffStats, Working
    <2> QED BY <1>2, <1>4, <2>1, <2>2 DEF Copied, Filled
  <1>6. CASE EnrichPRLinkage
    <2>1. PICK prs \in PullLists : event' = [event EXCEPT !.prs = prs]
      BY <1>6 DEF EnrichPRLinkage
    <2>2. stage \in Working /\ payload' = payload
      BY <1>6 DEF EnrichPRLinkage, Working
    <2> QED BY <1>2, <1>4, <2>1, <2>2 DEF Copied, Filled
  <1>7. CASE EnrichWorkflowJobs
    <2>1. stage \in Working /\ payload' = payload
      BY <1>7 DEF EnrichWorkflowJobs, Working
    <2>2. CASE event' = event
      BY <1>2, <2>1, <2>2
    <2>3. ASSUME NEW r, WantsJobs, event' = [event EXCEPT !.workflow = r, !.log = r]
          PROVE  GitInv'
      <3>1. AddsTo(event, said)
        BY <2>1 DEF GitInv
      <3>2. said["workflow"] = Nothing /\ said["log"] = Nothing
        <4>1. event["type"] = "deployment" /\ "type" \in Copied
          BY <2>3 DEF WantsJobs, Copied
        <4> QED BY <3>1, <4>1 DEF AddsTo
      <3> HIDE DEF said
      <3>3. /\ DOMAIN event' = DOMAIN event
            /\ \A f \in Copied : event'[f] = event[f]
            /\ event'["committedAt"] = event["committedAt"]
        BY <1>4, <2>1, <2>3 DEF Copied, Filled
      <3> QED BY <1>2, <2>1, <3>2, <3>3 DEF Filled
    <2> QED BY <1>7, <2>2, <2>3 DEF EnrichWorkflowJobs
  <1>8. CASE EnrichCommittedAt
    <2>1. stage \in Working /\ payload' = payload
      BY <1>8 DEF EnrichCommittedAt, Working
    <2>2. CASE event' = event
      BY <1>2, <2>1, <2>2
    <2>3. CASE event.committedAt = Nothing /\ event' = [event EXCEPT !.committedAt = "fetched"]
      <3>1. AddsTo(event, said) /\ "committedAt" \in Filled
        BY <2>1 DEF GitInv, Filled
      <3>2. said["committedAt"] = Nothing
        BY <2>3, <3>1 DEF AddsTo
      <3> HIDE DEF said
      <3>3. /\ DOMAIN event' = DOMAIN event
            /\ \A f \in Copied : event'[f] = event[f]
            /\ \A f \in {"workflow", "log"} : event'[f] = event[f]
        BY <1>4, <2>1, <2>3 DEF Copied, Filled
      <3> QED BY <1>2, <2>1, <3>2, <3>3 DEF Filled
    <2> QED BY <1>8, <2>2, <2>3 DEF EnrichCommittedAt
  <1>9. CASE UNCHANGED gitVars
    BY <1>9 DEF gitVars, GitInv, IsDeploy
  <1> QED BY <1>1, <1>3, <1>5, <1>6, <1>7, <1>8, <1>9 DEF GitNext

LEMMA GitInvariance == GitSpec => []GitInv
  <1>1. ASSUME \E p \in Payloads, s \in {"received", "idle"} : GitInit(p, s)
        PROVE  GitInv
    BY <1>1 DEF GitInit, GitInv, IsDeploy, Working
  <1> QED BY <1>1, GitInvNext, PTL DEF GitSpec

\* Whatever the API answers and whichever of its requests fail, enrichment takes
\* back nothing that the payload said (EnrichDeployEvent).
THEOREM EnrichmentCorrect == GitSpec => []EnrichmentKeepsPayload
  <1>1. GitInv => EnrichmentKeepsPayload
    BY DEF GitInv, AddsTo, EnrichmentKeepsPayload, Copied, Filled
  <1> QED BY <1>1, GitInvariance, PTL

-----------------------------------------------------------------------------
\* Texts.  A prefix that is there is the text's beginning, element by element.
LEMMA PrefixIs ==
    ASSUME NEW S, NEW s \in Seq(S), NEW t \in Seq(S)
    PROVE  IsPrefix(s, t) <=> Len(s) <= Len(t) /\ \A i \in 1 .. Len(s) : s[i] = t[i]
  BY SMT DEF IsPrefix

LEMMA ShortTexts ==
    ASSUME NEW S, NEW a \in S, NEW b \in S
    PROVE  /\ <<a>> \in Seq(S) /\ Len(<<a>>) = 1 /\ <<a>>[1] = a
           /\ <<a, b>> \in Seq(S) /\ Len(<<a, b>>) = 2
           /\ <<a, b>>[1] = a /\ <<a, b>>[2] = b
  OBVIOUS

LEMMA TextsJoined ==
    ASSUME NEW S, NEW s \in Seq(S), NEW t \in Seq(S)
    PROVE  /\ s \o t \in Seq(S) /\ Len(s \o t) = Len(s) + Len(t)
           /\ \A i \in 1 .. Len(s) : (s \o t)[i] = s[i]
           /\ \A i \in 1 .. Len(t) : (s \o t)[Len(s) + i] = t[i]
  OBVIOUS

\* A text that ends with another has it as a suffix.
LEMMA EndIsSuffix ==
    ASSUME NEW S, NEW s \in Seq(S), NEW e \in Seq(S), Len(e) <= Len(s),
           \A i \in 1 .. Len(e) : s[Len(s) - Len(e) + i] = e[i]
    PROVE  IsSuffix(e, s)
  <1>1. /\ Reverse(s) \in Seq(S) /\ Len(Reverse(s)) = Len(s)
        /\ \A i \in 1 .. Len(s) : Reverse(s)[i] = s[Len(s) - i + 1]
    BY DEF Reverse
  <1>2. /\ Reverse(e) \in Seq(S) /\ Len(Reverse(e)) = Len(e)
        /\ \A i \in 1 .. Len(e) : Reverse(e)[i] = e[Len(e) - i + 1]
    BY DEF Reverse
  <1>3. \A i \in 1 .. Len(e) : e[Len(e) - i + 1] = s[Len(s) - i + 1]
    <2> SUFFICES ASSUME NEW i \in 1 .. Len(e)
                 PROVE  e[Len(e) - i + 1] = s[Len(s) - i + 1]
      OBVIOUS
    <2> DEFINE j == Len(e) - i + 1
    <2>1. j \in 1 .. Len(e) /\ Len(s) - Len(e) + j = Len(s) - i + 1
      OBVIOUS
    <2> QED BY <2>1
  <1>4. \A i \in 1 .. Len(e) : i \in 1 .. Len(s)
    OBVIOUS
  <1>5. \A i \in 1 .. Len(e) : Reverse(e)[i] = Reverse(s)[i]
    BY <1>1, <1>2, <1>3, <1>4
  <1>6. IsPrefix(Reverse(e), Reverse(s))
    <2>1. /\ Reverse(e) \in Seq(S) /\ Reverse(s) \in Seq(S)
          /\ Len(Reverse(e)) <= Len(Reverse(s))
          /\ \A i \in 1 .. Len(Reverse(e)) : Reverse(e)[i] = Reverse(s)[i]
      BY <1>1, <1>2, <1>5
    <2> QED BY <2>1, PrefixIs
  <1> QED BY <1>6 DEF IsSuffix

LEMMA ThreeTextsJoined ==
    ASSUME NEW S, NEW s \in Seq(S), NEW t \in Seq(S), NEW u \in Seq(S),
           NEW line, line = s \o t \o u
    PROVE  /\ line \in Seq(S) /\ Len(line) = Len(s) + Len(t) + Len(u)
           /\ \A i \in 1 .. Len(s) : line[i] = s[i]
           /\ \A i \in 1 .. Len(t) : line[Len(s) + i] = t[i]
           /\ \A i \in 1 .. Len(u) : line[Len(s) + Len(t) + i] = u[i]
  <1> DEFINE begin == s \o t
  <1>1. /\ begin \in Seq(S) /\ Len(begin) = Len(s) + Len(t)
        /\ \A i \in 1 .. Len(s) : begin[i] = s[i]
        /\ \A i \in 1 .. Len(t) : begin[Len(s) + i] = t[i]
    BY TextsJoined
  <1>2. line = begin \o u
    OBVIOUS
  <1> HIDE DEF begin
  <1>3. begin \in Seq(S)
    BY <1>1
  <1>4. /\ line \in Seq(S) /\ Len(line) = Len(begin) + Len(u)
        /\ \A i \in 1 .. Len(begin) : line[i] = begin[i]
        /\ \A i \in 1 .. Len(u) : line[Len(begin) + i] = u[i]
    BY <1>2, <1>3, TextsJoined
  <1>5. Len(s) \in Nat /\ Len(t) \in Nat /\ Len(u) \in Nat
    OBVIOUS
  <1>6. /\ \A i \in 1 .. Len(s) : i \in 1 .. Len(begin)
        /\ \A i \in 1 .. Len(t) : Len(s) + i \in 1 .. Len(begin)
    BY <1>1, <1>5
  <1> QED BY <1>1, <1>4, <1>5, <1>6

\* What opens and closes a text can be taken off it again, whatever words the
\* text between them has, its own quotation marks included.
LEMMA TakenApart ==
    ASSUME NEW S, NEW open \in Seq(S), NEW title \in Seq(S), NEW quote \in Seq(S),
           NEW line, line = open \o title \o quote
    PROVE  /\ IsPrefix(open, line) /\ IsSuffix(quote, line)
           /\ TrimSuffix(TrimPrefix(line, open), quote) = title
  <1> DEFINE rest == SubSeq(line, Len(open) + 1, Len(line))
  <1>1. /\ line \in Seq(S) /\ Len(line) = Len(open) + Len(title) + Len(quote)
        /\ \A i \in 1 .. Len(open) : line[i] = open[i]
        /\ \A i \in 1 .. Len(title) : line[Len(open) + i] = title[i]
        /\ \A i \in 1 .. Len(quote) : line[Len(open) + Len(title) + i] = quote[i]
    BY ThreeTextsJoined
  <1>2. Len(open) \in Nat /\ Len(title) \in Nat /\ Len(quote) \in Nat
    OBVIOUS
  <1>3. /\ Len(open) <= Len(line)
        /\ \A i \in 1 .. Len(open) : open[i] = line[i]
    BY <1>1, <1>2
  <1>4. IsPrefix(open, line)
    <2>1. line \in Seq(S)
      BY <1>1
    <2> QED BY <1>3, <2>1, PrefixIs
  <1>5. /\ rest \in Seq(S) /\ Len(rest) = Len(title) + Len(quote)
        /\ \A i \in 1 .. Len(title) : rest[i] = title[i]
        /\ \A i \in 1 .. Len(quote) : rest[Len(title) + i] = quote[i]
    <2>1. /\ rest \in Seq(S) /\ Len(rest) = Len(title) + Len(quote)
          /\ \A i \in 1 .. Len(rest) : rest[i] = line[Len(open) + i]
      BY <1>1, <1>2
    <2> HIDE DEF rest
    <2>2. /\ \A i \in 1 .. Len(title) : i \in 1 .. Len(rest)
          /\ \A i \in 1 .. Len(quote) : /\ Len(title) + i \in 1 .. Len(rest)
                                        /\ Len(open) + (Len(title) + i) = Len(open) + Len(title) + i
      BY <1>2, <2>1
    <2> QED BY <1>1, <2>1, <2>2
  <1>6. TrimPrefix(line, open) = rest
    BY <1>4 DEF TrimPrefix
  <1> HIDE DEF rest
  <1>7. IsSuffix(quote, line) /\ IsSuffix(quote, rest)
    <2>1. /\ Len(line) - Len(quote) = Len(open) + Len(title) /\ Len(quote) <= Len(line)
          /\ Len(rest) - Len(quote) = Len(title) /\ Len(quote) <= Len(rest)
      BY <1>1, <1>2, <1>5
    <2>2. line \in Seq(S) /\ rest \in Seq(S)
      BY <1>1, <1>5
    <2>3. /\ \A i \in 1 .. Len(quote) : line[Len(line) - Len(quote) + i] = quote[i]
          /\ \A i \in 1 .. Len(quote) : rest[Len(rest) - Len(quote) + i] = quote[i]
      BY <1>1, <1>5, <2>1
    <2> QED BY <2>1, <2>2, <2>3, EndIsSuffix
  <1>8. TrimSuffix(rest, quote) = SubSeq(rest, 1, Len(title))
    BY <1>2, <1>5, <1>7 DEF TrimSuffix
  <1>9. SubSeq(rest, 1, Len(title)) = title
    BY <1>2, <1>5
  <1> QED BY <1>4, <1>6, <1>7, <1>8, <1>9

\* Git's quoting is undone exactly, for every title a payload may carry.
THEOREM RevertTitleCorrect == GitSpec => []RevertNamesItsTitle
  <1>1. GitInv => RevertNamesItsTitle
    <2> SUFFICES ASSUME payload \in Payloads PROVE RevertNamesItsTitle
      BY DEF GitInv
    <2>1. FirstLine(payload.message) \in Seq(STRING)
      <3>1. payload.message \in Seq(Seq(STRING)) /\ payload.message # <<>>
        BY GitEventsOK DEF PayloadOK
      <3> QED BY <3>1 DEF FirstLine
    <2> DEFINE Words == STRING \cup {"Revert", "q"}
               title == FirstLine(payload.message)
               quote == <<"q">>
               line == RevertOpening \o title \o quote
    <2>2. title \in Seq(Words) /\ "Revert" \in Words /\ "q" \in Words
      BY <2>1, SMT
    <2> HIDE DEF Words, title
    <2>3. RevertOpening \in Seq(Words) /\ quote \in Seq(Words)
      BY <2>2, ShortTexts DEF RevertOpening
    <2>4. line = RevertOpening \o title \o quote
      OBVIOUS
    <2> HIDE DEF line, quote
    <2>5. /\ IsPrefix(RevertOpening, line) /\ IsSuffix(quote, line)
          /\ TrimSuffix(TrimPrefix(line, RevertOpening), quote) = title
      BY <2>2, <2>3, <2>4, TakenApart
    <2>6. DetectRevert(line) = [is |-> TRUE, of |-> title]
      BY <2>5 DEF DetectRevert, Unquoted, quote
    <2> QED BY <2>6 DEF RevertNamesItsTitle, line, quote, title
  <1> QED BY <1>1, GitInvariance, PTL

-----------------------------------------------------------------------------
\* Environments.  A ref, and the branch or tag that is left of it.
LEMMA StartsWithTwo ==
    ASSUME NEW S, NEW a \in S, NEW b \in S, NEW ref \in Seq(S)
    PROVE  IsStrictPrefix(<<a, b>>, ref) <=> Len(ref) > 2 /\ ref[1] = a /\ ref[2] = b
  <1> DEFINE two == <<a, b>>
  <1>1. two \in Seq(S) /\ Len(two) = 2 /\ two[1] = a /\ two[2] = b
    BY ShortTexts
  <1> HIDE DEF two
  <1>2. IsPrefix(two, ref) <=> 2 <= Len(ref) /\ ref[1] = a /\ ref[2] = b
    <2>1. two \in Seq(S)
      BY <1>1
    <2>2. IsPrefix(two, ref) <=> Len(two) <= Len(ref) /\ \A i \in 1 .. Len(two) : two[i] = ref[i]
      BY <2>1, PrefixIs
    <2> QED BY <1>1, <2>2
  <1>3. ASSUME Len(ref) = 2, ref[1] = a, ref[2] = b PROVE two = ref
    BY <1>1, <1>3
  <1>4. two = ref => Len(ref) = 2
    BY <1>1
  <1>5. IsStrictPrefix(two, ref) <=> Len(ref) > 2 /\ ref[1] = a /\ ref[2] = b
    <2>1. IsStrictPrefix(two, ref) <=> IsPrefix(two, ref) /\ two # ref
      BY DEF IsStrictPrefix
    <2>2. \A n \in Nat : n > 2 <=> 2 <= n /\ n # 2
      OBVIOUS
    <2>3. Len(ref) > 2 <=> 2 <= Len(ref) /\ Len(ref) # 2
      <3>1. Len(ref) \in Nat
        OBVIOUS
      <3> QED BY <2>2, <3>1, Zenon
    <2> QED BY <1>2, <1>3, <1>4, <2>1, <2>3, Zenon
  <1> QED BY <1>5 DEF two

LEMMA StartsWithFour ==
    ASSUME NEW S, NEW a \in S, NEW b \in S, NEW c \in S, NEW d \in S, NEW ref \in Seq(S),
           Len(ref) > 4, ref[1] = a, ref[2] = b, ref[3] = c, ref[4] = d
    PROVE  IsStrictPrefix(<<a, b>> \o <<c, d>>, ref)
  <1> DEFINE four == <<a, b>> \o <<c, d>>
  <1>1. /\ four \in Seq(S) /\ Len(four) = 4 /\ four[1] = a /\ four[2] = b
        /\ four[3] = c /\ four[4] = d
    OBVIOUS
  <1> HIDE DEF four
  <1>2. IsPrefix(four, ref)
    <2>1. four \in Seq(S) /\ Len(four) <= Len(ref) /\ \A i \in 1 .. Len(four) : four[i] = ref[i]
      BY <1>1
    <2> QED BY <2>1, PrefixIs
  <1>3. four # ref
    <2>1. \A n \in Nat : n > 4 => n # 4
      OBVIOUS
    <2>2. Len(ref) \in Nat /\ Len(four) = 4
      BY <1>1
    <2> QED BY <2>1, <2>2, Zenon
  <1>4. IsStrictPrefix(four, ref)
    BY <1>2, <1>3 DEF IsStrictPrefix
  <1> QED BY <1>4 DEF four

\* A branch in lower case.
LEMMA LowerText ==
    ASSUME NEW b \in Seq(DOMAIN LowerOf)
    PROVE  /\ Lower(b) \in Seq(STRING) /\ Len(Lower(b)) = Len(b)
           /\ \A i \in 1 .. Len(b) : Lower(b)[i] = LowerOf[b[i]]
  <1>1. DOMAIN b = 1 .. Len(b) /\ Len(b) \in Nat /\ \A i \in 1 .. Len(b) : b[i] \in DOMAIN LowerOf
    OBVIOUS
  <1>2. \A s \in DOMAIN LowerOf : LowerOf[s] \in STRING
    BY GitEventsOK
  <1>3. Lower(b) = [i \in 1 .. Len(b) |-> LowerOf[b[i]]]
    BY <1>1 DEF Lower
  <1>4. Lower(b) \in [1 .. Len(b) -> STRING]
    BY <1>1, <1>2, <1>3
  <1> QED BY <1>1, <1>3, <1>4

\* On GitHub a version tag is one by what follows refs/tags.
LEMMA VersionTag ==
    ASSUME NEW b \in Seq(STRING), Len(b) > 0, b[1] \in VSegments
    PROVE  OtherEnvironment(b) = "production"
  <1>1. b[1] \notin {"staging", "stage", "develop", "development", "dev"}
    BY GitEventsOK
  <1>2. /\ b \notin {<<"staging">>, <<"stage">>}
        /\ b \notin {<<"develop">>, <<"development">>, <<"dev">>}
    BY <1>1
  <1> QED BY <1>1, <1>2 DEF OtherEnvironment

\* On GitLab by the whole ref.
LEMMA VersionTagRef ==
    ASSUME NEW b \in Seq(STRING), Len(b) > 2, b[1] = "refs", b[2] = "tags", b[3] \in VSegments
    PROVE  OtherEnvironment(b) = "production"
  <1>1. /\ b \notin {<<"staging">>, <<"stage">>}
        /\ b \notin {<<"develop">>, <<"development">>, <<"dev">>}
    OBVIOUS
  <1> QED BY <1>1 DEF OtherEnvironment

\* What the hosts make of a ref of a branch that is not named like a tag's.
LEMMA OneBranch ==
    ASSUME NEW p \in Payloads, IsStrictPrefix(Heads, p.ref), ~IsStrictPrefix(Heads \o Tags, p.ref)
    PROVE  TrimRef(TrimRef(p.ref, Heads), Tags) = TrimRef(p.ref, Heads)
  <1> DEFINE S == DOMAIN LowerOf \cup {"refs", "heads", "tags"}
             rest == TrimRef(p.ref, Heads)
             ref == p.ref
  <1>1. ref \in Seq(S) /\ "refs" \in S /\ "heads" \in S /\ "tags" \in S
    <2>1. ref \in Seq(DOMAIN LowerOf)
      BY GitEventsOK DEF PayloadOK
    <2> QED BY <2>1
  <1>2. IsStrictPrefix(Heads, ref) /\ ~IsStrictPrefix(Heads \o Tags, ref)
    OBVIOUS
  <1>3. rest = SubSeq(ref, 3, Len(ref))
    BY <1>2 DEF TrimRef, Heads
  <1> HIDE DEF S, ref, rest
  <1>4. Len(ref) > 2 /\ ref[1] = "refs" /\ ref[2] = "heads"
    BY <1>1, <1>2, StartsWithTwo DEF Heads
  <1>5. /\ rest \in Seq(S) /\ Len(rest) = Len(ref) - 2
        /\ \A i \in 1 .. Len(rest) : rest[i] = ref[i + 2]
    BY <1>1, <1>3, <1>4
  <1>6. ASSUME IsStrictPrefix(Tags, rest) PROVE FALSE
    <2>1. Len(rest) > 2 /\ rest[1] = "refs" /\ rest[2] = "tags"
      BY <1>1, <1>5, <1>6, StartsWithTwo DEF Tags
    <2>2. Len(ref) > 4 /\ ref[3] = "refs" /\ ref[4] = "tags"
      BY <1>1, <1>5, <2>1
    <2> QED BY <1>1, <1>2, <1>4, <2>2, StartsWithFour DEF Heads, Tags
  <1> QED BY <1>6 DEF TrimRef, rest

\* A repository mirrored on both hosts has one environment for a branch and for
\* a version tag (inferEnvironment of both integrations), but where the property
\* excepts it.
THEOREM SameEnvironmentCorrect == GitSpec => []SameEnvironmentOnBothHosts
  <1>1. GitInv => SameEnvironmentOnBothHosts
    <2> DEFINE p == payload
               ref == p.ref
    <2> SUFFICES ASSUME p \in Payloads, p.commit # Nothing,
                        \/ /\ IsStrictPrefix(Heads, p.ref) /\ ~IsStrictPrefix(Heads \o Tags, p.ref)
                           /\ Lower(TrimRef(p.ref, Heads)) # p.default
                        \/ IsStrictPrefix(Tags, p.ref) /\ Lower(p.ref)[3] \in VSegments
                 PROVE  ParsePushEvent(p).env = ParseGitLabPushEvent(p).env
      BY DEF GitInv, SameEnvironmentOnBothHosts
    <2> HIDE DEF p
    <2> DEFINE github == GitHubEnvironment(TrimRef(TrimRef(ref, Heads), Tags), p.default)
               gitlab == GitLabEnvironment(TrimRef(ref, Heads))
    <2>1. ParsePushEvent(p).env = github /\ ParseGitLabPushEvent(p).env = gitlab
      BY DEF ParsePushEvent, ParseGitLabPushEvent, NoEvent
    <2>2. CASE /\ IsStrictPrefix(Heads, ref) /\ ~IsStrictPrefix(Heads \o Tags, ref)
               /\ Lower(TrimRef(ref, Heads)) # p.default
      <3> DEFINE b == TrimRef(ref, Heads)
      <3>1. TrimRef(b, Tags) = b /\ Lower(b) # p.default
        BY <2>2, OneBranch
      <3> HIDE DEF b
      <3>2. GitHubEnvironment(b, p.default) = GitLabEnvironment(b)
        BY <3>1 DEF GitHubEnvironment, GitLabEnvironment
      <3> QED BY <2>1, <3>1, <3>2 DEF b
    <2>3. CASE IsStrictPrefix(Tags, ref) /\ Lower(ref)[3] \in VSegments
      <3> DEFINE S == DOMAIN LowerOf \cup {"refs", "heads", "tags"}
                 tag == SubSeq(ref, 3, Len(ref))
      <3>1. ref \in Seq(DOMAIN LowerOf)
        BY GitEventsOK DEF PayloadOK
      <3>2. ref \in Seq(S) /\ "refs" \in S /\ "heads" \in S /\ "tags" \in S
        BY <3>1
      <3> HIDE DEF ref, S
      <3>3. Len(ref) > 2 /\ ref[1] = "refs" /\ ref[2] = "tags" /\ "tags" # "heads"
        BY <2>3, <3>2, StartsWithTwo DEF Tags
      <3>4. ~IsStrictPrefix(Heads, ref)
        BY <3>2, <3>3, StartsWithTwo DEF Heads
      <3>5. TrimRef(ref, Heads) = ref /\ TrimRef(ref, Tags) = tag
        BY <2>3, <3>4 DEF TrimRef, Tags
      <3>6. /\ tag \in Seq(DOMAIN LowerOf) /\ Len(tag) = Len(ref) - 2 /\ tag[1] = ref[3]
        BY <3>1, <3>3
      <3> HIDE DEF tag
      <3>7. /\ Lower(tag) \in Seq(STRING) /\ Len(Lower(tag)) > 0
            /\ Lower(tag)[1] = LowerOf[ref[3]]
        BY <3>3, <3>6, LowerText
      <3>8. /\ Lower(ref) \in Seq(STRING) /\ Len(Lower(ref)) > 2
            /\ Lower(ref)[1] = LowerOf["refs"] /\ Lower(ref)[2] = LowerOf["tags"]
            /\ Lower(ref)[3] = LowerOf[ref[3]]
        BY <3>1, <3>3, LowerText
      <3>9. LowerOf["refs"] = "refs" /\ LowerOf["tags"] = "tags"
        <4>1. "refs" \in DOMAIN LowerOf /\ "tags" \in DOMAIN LowerOf
          BY <3>1, <3>3
        <4> QED BY <4>1, GitEventsOK
      <3>10. OtherEnvironment(Lower(tag)) = "production"
        BY <2>3, <3>7, <3>8, VersionTag
      <3>11. OtherEnvironment(Lower(ref)) = "production"
        BY <2>3, <3>8, <3>9, VersionTagRef
      <3> QED BY <2>1, <3>5, <3>10, <3>11 DEF GitHubEnvironment, GitLabEnvironment
    <2> QED BY <2>2, <2>3 DEF ref
  <1> QED BY <1>1, GitInvariance, PTL

-----------------------------------------------------------------------------
\* The parts together.  A step of one part leaves the others' variables alone,
\* so that it is a step or a stutter of each.
LEMMA PartsSteps ==
    ASSUME [Next]_vars
    PROVE  /\ [GitNext]_gitVars /\ [TicketsNext]_ticketVars
           /\ [StorageNext]_storageVars /\ [AccountsNext]_accountVars
  BY Zenon DEF Next, vars

\* Running next to each other over one database, the parts behave as each does
\* alone, the fairness of the task queue included.
THEOREM PartsCompose ==
    ServicesSpec => GitSpec /\ TicketsSpec /\ StorageSpec /\ AccountsSpec
  <1>1. ServicesInit => /\ \E p \in Payloads, s \in {"received", "idle"} : GitInit(p, s)
                        /\ \E ts \in SUBSET Tasks, rs \in SUBSET Requests : TicketsInit(ts, rs)
                        /\ \E active \in SUBSET Sessions : StorageInit(active)
                        /\ \E active \in SUBSET AccountCalls : AccountsInit(active)
    BY DEF ServicesInit
  <1>2. [Next]_vars => /\ [GitNext]_gitVars /\ [TicketsNext]_ticketVars
                       /\ [StorageNext]_storageVars /\ [AccountsNext]_accountVars
    BY PartsSteps
  <1> QED BY <1>1, <1>2, PTL DEF ServicesSpec, GitSpec, TicketsSpec, StorageSpec, AccountsSpec

\* So everything that is proved of one part holds of the server that runs all.
THEOREM ServicesCorrect ==
    ServicesSpec =>
        /\ [](EnrichmentKeepsPayload /\ RevertNamesItsTitle /\ SameEnvironmentOnBothHosts)
        /\ [](LinksMatchAttempts /\ SecondRecordByOverlap /\ JiraLinkIsLive)
        /\ [](TrailTellsTheRow /\ AnsweredUserIsStored)
        /\ SecretKept /\ NoSecondMembership
  BY PartsCompose, EnrichmentCorrect, RevertTitleCorrect, SameEnvironmentCorrect,
     LinksCorrect, SecondRecordCorrect, JiraLinkCorrect, TrailCorrect, AnsweredUserCorrect,
     SecretCorrect, MembershipCorrect, PTL
=============================================================================
