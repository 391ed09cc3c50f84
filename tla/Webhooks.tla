------------------------------ MODULE Webhooks ------------------------------
(***************************************************************************)
(* The webhook receivers of the seven integrations (webhook.go of each),   *)
(* together with the connections and the GitHub App they act on.           *)
(*                                                                         *)
(* A handler checks the request, answers and leaves the routing to a       *)
(* goroutine, which runs before or after the request's context is          *)
(* cancelled, or never when the process dies.  Nothing is persisted in     *)
(* between: the provider has had its answer and does not deliver again.    *)
(***************************************************************************)
EXTENDS Connections, GitHubApp

CONSTANTS
    Deliveries,
    Delivery,     \* what each delivery says: see DeliveriesOK
    GitLabSecret  \* whether a secret is configured for GitLab

DeliveryRecord ==
    [to : {"github", "jira", "linear", "slack", "gitlab", "pagerduty", "trello"},
     method : {"POST", "GET", "HEAD"},
     signed : BOOLEAN,     \* signature or secret are right
     wellFormed : BOOLEAN, \* headers, parameters and JSON as the handler needs them
     event : {"removal", "issue_deleted", "challenge", "other"},
     issue : BOOLEAN,      \* the payload has an issue
     app : Apps, site : Sites]

ASSUME DeliveriesOK ==
    /\ Delivery \in [Deliveries -> DeliveryRecord]
    /\ GitLabSecret \in BOOLEAN

VARIABLES
    delivery, \* where each delivery is
    marked    \* GitHub installations whose row says revoked (MarkRevoked is a stub today)

hookVars == <<delivery, marked>>

Places == {"none", "sent", "answered", "spawned", "routed", "failed", "cancelled", "lost"}

Statuses == {0, 200, 202, 400, 401, 405, 500}

\* What FindByCloudID may answer: an installation, nil without an error, an error.
Answers == {"installation", "nil", "error"}

\* status is the HTTP answer, open says that the handler has not returned, found
\* what the handler keeps of a Jira installation.
DeliveryState == [pc : Places, status : Statuses, open : BOOLEAN, found : Answers]

HooksInit(active) ==
    /\ delivery = [d \in Deliveries |->
                      [pc |-> IF d \in active THEN "sent" ELSE "none",
                       status |-> 0, open |-> FALSE, found |-> "nil"]]
    /\ marked = {}

-----------------------------------------------------------------------------
\* What each handler checks, in its order, with the answer when a check fails.

Check(ok, status) == [ok |-> ok, status |-> status]

GitHubChecks(r, readable) ==
    <<Check(readable, 500), Check(r.signed, 401), Check(r.wellFormed, 400)>>

\* FindByCloudID also finds an installation that is revoked.  The one
\* implementation there is finds none and says so without an error.
FindByCloudID(site) ==
    {a \in Answers : a = "installation" =>
         \E n \in Conns : installs[n] # NoValue /\ installs[n].site = site}

\* An error of the lookup is answered with 200, so that Jira does not try again.
JiraChecks(r, readable, found) ==
    <<Check(r.signed, 401), Check(r.wellFormed, 400), Check(found # "error", 200),
      Check(readable, 500)>>

LinearChecks(r, readable) == <<Check(readable, 500), Check(r.signed, 401)>>

\* A GET with a challenge is Slack's verification of the URL; the signature is not
\* looked at.
SlackChecks(r, readable) ==
    <<Check(r.method # "GET" \/ r.event # "challenge", IF r.wellFormed THEN 200 ELSE 400),
      Check(readable, 500)>>

GitLabChecks(r, readable) ==
    <<Check(readable, 500), Check(~GitLabSecret \/ r.signed, 401)>>

PagerDutyChecks(r, readable) ==
    <<Check(readable, 500), Check(r.signed, 401), Check(r.wellFormed, 400)>>

TrelloChecks(r, readable) ==
    <<Check(r.method # "HEAD", 200), Check(r.method = "POST", 405),
      Check(readable, 500), Check(r.wellFormed, 200)>>

Checks(r, readable, found) ==
    CASE r.to = "github"    -> GitHubChecks(r, readable)
      [] r.to = "jira"      -> JiraChecks(r, readable, found)
      [] r.to = "linear"    -> LinearChecks(r, readable)
      [] r.to = "slack"     -> SlackChecks(r, readable)
      [] r.to = "gitlab"    -> GitLabChecks(r, readable)
      [] r.to = "pagerduty" -> PagerDutyChecks(r, readable)
      [] r.to = "trello"    -> TrelloChecks(r, readable)

Accepted(r) == IF r.to \in {"github", "gitlab"} THEN 202 ELSE 200

Handle(d) ==
    /\ delivery[d].pc = "sent"
    /\ \E readable \in BOOLEAN, found \in FindByCloudID(Delivery[d].site) :
        LET checks == Checks(Delivery[d], readable, found)
            refusals == {i \in DOMAIN checks : ~checks[i].ok}
        IN  \/ /\ refusals = {}
               /\ delivery' = [delivery EXCEPT ![d] =
                      [pc |-> "spawned", status |-> Accepted(Delivery[d]), open |-> TRUE,
                       found |-> IF Delivery[d].to = "jira" THEN found ELSE "nil"]]
            \/ \E first \in refusals :
                  /\ \A i \in refusals : first <= i
                  /\ delivery' = [delivery EXCEPT ![d] =
                         [@ EXCEPT !.pc = "answered", !.status = checks[first].status,
                                   !.open = TRUE]]
    /\ UNCHANGED marked

\* The server cancels the request's context when the handler has returned.
HandlerReturns(d) ==
    /\ delivery[d].open
    /\ delivery' = [delivery EXCEPT ![d].open = FALSE]
    /\ UNCHANGED marked

\* A provider that was answered with a server error delivers again.
DeliverAgain(d) ==
    /\ delivery[d].pc = "answered" /\ delivery[d].status = 500 /\ ~delivery[d].open
    /\ delivery' = [delivery EXCEPT ![d] = [@ EXCEPT !.pc = "sent", !.status = 0]]
    /\ UNCHANGED marked

-----------------------------------------------------------------------------
\* Route.  Only GitHub's removals change anything: every other event is logged
\* or returns at a TODO.

Removals == {d \in Deliveries : Delivery[d].to = "github" /\ Delivery[d].event = "removal"}

\* Jira's goroutine takes the organisation from an installation that may be nil, and
\* issue_deleted is logged with the key of an issue that may be nil: a panic in a
\* goroutine nobody recovers.
NilDereference(d) ==
    /\ Delivery[d].to = "jira"
    /\ \/ delivery[d].found = "nil"
       \/ Delivery[d].event = "issue_deleted" /\ ~Delivery[d].issue

RouteContextLive_Request(d) == delivery[d].open

\* Linear's and PagerDuty's goroutines keep the request's context.
RouteContextLive(d) ==
    Delivery[d].to \in {"linear", "pagerduty"} => delivery[d].open

RouteRemoval(d) ==
    /\ delivery[d].pc = "spawned" /\ d \in Removals
    /\ \/ /\ RouteContextLive(d)
          /\ marked' = marked \cup {Delivery[d].app}
          /\ delivery' = [delivery EXCEPT ![d].pc = "routed"]
       \/ /\ delivery' = [delivery EXCEPT ![d].pc =
                             IF RouteContextLive(d) THEN "failed" ELSE "cancelled"]
          /\ UNCHANGED marked

RouteOther(d) ==
    /\ delivery[d].pc = "spawned" /\ d \notin Removals /\ ~NilDereference(d)
    /\ delivery' = [delivery EXCEPT ![d].pc = "routed"]
    /\ UNCHANGED marked

\* Every goroutine that has not routed yet dies with the process; a request
\* that was not answered is delivered again.
HooksCrash ==
    /\ delivery' = [d \in Deliveries |->
           [delivery[d] EXCEPT !.pc = IF @ = "spawned" THEN "lost" ELSE @, !.open = FALSE]]
    /\ UNCHANGED marked

HookStep(d) ==
    Handle(d) \/ HandlerReturns(d) \/ DeliverAgain(d) \/ RouteRemoval(d) \/ RouteOther(d)

Crash == ConnCrash /\ AppCrash /\ HooksCrash

RoutePanics(d) == delivery[d].pc = "spawned" /\ NilDereference(d) /\ Crash

-----------------------------------------------------------------------------
vars == <<connVars, appVars, hookVars>>

\* A workload says which calls, users and deliveries there are.
InitWith(w) == ConnInit(w.calls) /\ AppInit(w.users) /\ HooksInit(w.deliveries)

Next ==
    \/ \E c \in Calls : ConnStep(c) /\ UNCHANGED <<appVars, hookVars>>
    \/ \E k \in Clients : (ForOrg(k) \/ Expire(k)) /\ UNCHANGED <<appVars, hookVars>>
    \/ \E u \in Users : AppStep(u) /\ UNCHANGED <<connVars, hookVars>>
    \/ \E i \in Apps : Remove(i) /\ UNCHANGED <<connVars, hookVars>>
    \/ Tick /\ UNCHANGED <<connVars, hookVars>>
    \/ \E d \in Deliveries : HookStep(d) /\ UNCHANGED <<connVars, appVars>>
    \/ \E d \in Deliveries : RoutePanics(d)
    \/ Crash

TypeOK ==
    /\ ConnTypeOK /\ AppTypeOK
    /\ delivery \in [Deliveries -> DeliveryState]
    /\ marked \subseteq Apps

WebhooksSpec ==
    /\ \E cs \in SUBSET Calls, us \in SUBSET Users, ds \in SUBSET Deliveries :
          InitWith([calls |-> cs, users |-> us, deliveries |-> ds])
    /\ [][Next]_vars

\* The scheduler runs every goroutine that can run.
Fairness == \A d \in Removals : WF_vars(RouteRemoval(d) /\ UNCHANGED <<connVars, appVars>>)

-----------------------------------------------------------------------------
(* Properties.                                                             *)

\* A removal GitHub was answered 202 for is recorded, whether its handler has
\* returned or not, unless the update fails or the process dies first (and
\* then nothing records it: GitHub does not deliver again).
RemovalIsRecorded ==
    \A d \in Removals :
        delivery[d].pc = "spawned"
        ~> delivery[d].pc \in {"failed", "lost"} \/ Delivery[d].app \in marked
=============================================================================
