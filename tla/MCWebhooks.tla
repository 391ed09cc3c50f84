----------------------------- MODULE MCWebhooks -----------------------------
\* Small instances of the integrations: three workloads that share one model.
EXTENDS Webhooks, TLC

CONSTANTS acmeJira, acmeLinear, acmeSlack, acmeGitLab, siteA, siteB, k1, k2, kl,
          connect, reconnect, disconnect, work1, work2, work3,
          connectNowhere, connectLinear, workLinear, connectSlack, leaveSlack, connectGitLab,
          u1, u2, app1, app2

MCConns == {acmeJira, acmeLinear, acmeSlack, acmeGitLab}
MCProvider == (acmeJira :> "jira") @@ (acmeLinear :> "linear")
              @@ (acmeSlack :> "slack") @@ (acmeGitLab :> "gitlab")
MCClients == {k1, k2, kl}
MCClientConn == (k1 :> acmeJira) @@ (k2 :> acmeJira) @@ (kl :> acmeLinear)

Callback(conn, sites) ==
    [kind |-> "callback", conn |-> conn, stateOk |-> TRUE, code |-> TRUE, sites |-> sites]
Do(k) == [kind |-> "do", client |-> k]
Disconnect(conn) == [kind |-> "disconnect", conn |-> conn]

MCOp ==
    (connect :> Callback(acmeJira, {siteA})) @@ (reconnect :> Callback(acmeJira, {siteB}))
    @@ (disconnect :> Disconnect(acmeJira))
    @@ (work1 :> Do(k1)) @@ (work2 :> Do(k1)) @@ (work3 :> Do(k2))
    @@ (connectNowhere :> Callback(acmeJira, {}))
    @@ (connectLinear :> Callback(acmeLinear, {siteA})) @@ (workLinear :> Do(kl))
    @@ (connectSlack :> [Callback(acmeSlack, {}) EXCEPT !.stateOk = FALSE])
    @@ (leaveSlack :> Disconnect(acmeSlack))
    @@ (connectGitLab :> Callback(acmeGitLab, {}))
MCCalls == DOMAIN MCOp

MCAppOf == (u1 :> app1) @@ (u2 :> app1)

\* A delivery in good order, and what may be wrong with it.
Good(to) == [to |-> to, method |-> "POST", signed |-> TRUE, wellFormed |-> TRUE,
             event |-> "other", issue |-> TRUE, app |-> app1, site |-> siteA]
MCDelivery == <<
    [Good("github") EXCEPT !.event = "removal"],
    [Good("github") EXCEPT !.event = "removal", !.app = app2],
    [Good("github") EXCEPT !.wellFormed = FALSE],
    Good("jira"),
    [Good("jira") EXCEPT !.event = "issue_deleted", !.issue = FALSE],
    [Good("jira") EXCEPT !.signed = FALSE],
    Good("linear"),
    Good("slack"),
    [Good("slack") EXCEPT !.method = "GET"],
    [Good("slack") EXCEPT !.method = "GET", !.event = "challenge", !.wellFormed = FALSE],
    [Good("gitlab") EXCEPT !.signed = FALSE],
    Good("pagerduty"),
    [Good("trello") EXCEPT !.wellFormed = FALSE],
    [Good("trello") EXCEPT !.method = "HEAD"] >>
MCDeliveries == DOMAIN MCDelivery

\* What happens together: calls, users of the GitHub App, deliveries.
Workload(calls, users, deliveries) ==
    [calls |-> calls, users |-> users, deliveries |-> deliveries]

ConnectedFor(ds) ==
    IF \A d \in ds : MCDelivery[d].to # "jira" THEN {}
    ELSE IF \A d \in ds : MCDelivery[d].to = "jira" THEN {connect, disconnect} ELSE {connect}

Workloads ==
    {Workload(calls, {}, {}) : calls \in
        {{connect, work1, work2, work3}, {connect, reconnect, disconnect, connectNowhere},
         {connect, reconnect, work1},
         {connectLinear, workLinear, connectSlack, leaveSlack, connectGitLab}}}
    \cup {Workload({}, {u1, u2}, {})}
    \cup {Workload(ConnectedFor({d, e}), {}, {d, e}) :
          d \in MCDeliveries, e \in MCDeliveries}

Init == \E w \in Workloads : InitWith(w)

Spec == Init /\ [][Next]_vars /\ Fairness
=============================================================================
