----------------------------- MODULE MCServices -----------------------------
\* Small instances of the services, and which of them works in a behaviour.
EXTENDS Services, TLC

CONSTANTS
    given, t1, t2, t3, board1, board2, card1, card2, card3,
    url, pasted, query, hidden, moved, lost, linear, wild,
    s1, s2, row1, org1, org2, x, y, key, encKey,
    first, second, other, garbage, noEmail, newOrg, sameOrg, join, joinToo, leave

-----------------------------------------------------------------------------
\* GitHub and GitLab.

MCLowerOf ==
    [s \in {"refs", "heads", "tags", "main", "master", "staging", "stage", "dev", "develop",
            "release", "hotfix", "trunk", "v2", "feature"} |-> s]
    @@ ("Main" :> "main") @@ ("Trunk" :> "trunk") @@ ("V2" :> "v2")

MCBranches == {<<"main">>, <<"Main">>, <<"Trunk">>, <<"trunk">>, <<"stage">>, <<"dev">>,
               <<"release", "v2">>, <<"staging", "main">>, <<"V2">>, <<"feature", "main">>,
               <<"tags", "v2">>, <<"refs", "tags">>, <<"refs", "tags", "main">>}
MCRefs == {Heads \o branch : branch \in MCBranches}
          \cup {Tags \o <<tag>> : tag \in {"v2", "V2", "trunk"}}

MCTitles == {<<"fix">>, <<"Revert", "q", "fix", "q">>, <<"quote", "q", "fix", "q">>,
             <<"q">>, <<"Revert", "q">>, <<>>}

\* A push of one's own commit; what differs from it in the others.
Push == [host |-> "github", kind |-> "push", readable |-> TRUE, commit |-> 1,
         ref |-> Heads \o <<"main">>, default |-> <<"main">>, env |-> "",
         message |-> << <<"fix">>, <<"body">> >>, at |-> given, author |-> "",
         pusher |-> "bot", id |-> 7, conclusion |-> "success", workflow |-> 5]
Run == [Push EXCEPT !.kind = "workflow_run", !.ref = <<"dev">>, !.author = "human"]

MCPayloads ==
    {[Push EXCEPT !.ref = r, !.host = h, !.default = <<d>>] :
        r \in MCRefs, h \in {"github", "gitlab"}, d \in {"main", "Trunk"}}
    \cup {[Push EXCEPT !.message = <<title>>, !.author = "human"] : title \in MCTitles}
    \cup {[Push EXCEPT !.readable = FALSE], [Push EXCEPT !.commit = Nothing],
          [Push EXCEPT !.commit = Nothing, !.host = "gitlab"], [Push EXCEPT !.at = Nothing]}
    \cup {[Run EXCEPT !.kind = k] : k \in {"workflow_run", "deployment", "deployment_status",
                                          "pull_request", "check_suite"}}
    \cup {[Run EXCEPT !.conclusion = "failure"], [Run EXCEPT !.at = Nothing]}

MCCompares == {<<>>, << <<"services", "api", "go">>, <<"README">>, <<"cmd", "api">>,
                       <<"web", "page">> >>}
MCPullLists == {<<>>, <<3, 4>>}
MCRunLists == {<<>>, <<5, 6>>, <<6>>}

-----------------------------------------------------------------------------
\* Tickets.

MCBoardOf == (card1 :> board1) @@ (card2 :> board1) @@ (card3 :> board2)
MCCardOf == (t1 :> card1) @@ (t2 :> card2) @@ (t3 :> NoCard)

MCUpperKey == ("OPS-1" :> "OPS-1") @@ ("ops-1" :> "OPS-1") @@ ("OPS-2" :> "OPS-2")
              @@ ("OPS-9" :> "OPS-9")
\* OPS-2 was moved and has the key NEW-2 today; there is no OPS-9.
MCKeys == DOMAIN MCUpperKey \cup {"NEW-2"}
MCUpper == MCUpperKey @@ ("NEW-2" :> "NEW-2")
MCIssues == [k \in MCKeys |-> IF k = "OPS-1" THEN k
                              ELSE IF k \in {"OPS-2", "NEW-2"} THEN "NEW-2" ELSE NoIssue]

To(tracker, segment) == [to |-> tracker, segments |-> << <<"browse">>, segment >>]
MCReference ==
    (url :> To("jira", <<"OPS-1">>)) @@ (query :> To("jira", <<"OPS-1", "?", "OPS-2">>))
    @@ (hidden :> To("jira", <<"ops-1", "?", "OPS-2">>))
    @@ (moved :> To("jira", <<"OPS-2">>)) @@ (lost :> To("jira", <<"OPS-9">>))
    @@ (pasted :> To("jira", <<"no", "key">>))
    @@ (linear :> To("linear", <<"ops-1">>)) @@ (wild :> To("linear", <<"OPS-9">>))

-----------------------------------------------------------------------------
\* Rows.

MCOrgOf == row1 :> org1

-----------------------------------------------------------------------------
\* Users and members.

Validate(parsed, sub, email) ==
    [kind |-> "validate", parsed |-> parsed, sub |-> sub, email |-> email]
Membership(kind, user) == [kind |-> kind, org |-> 1, user |-> user]

MCAsks ==
    (first :> Validate(TRUE, "ann", TRUE)) @@ (second :> Validate(TRUE, "ann", TRUE))
    @@ (other :> Validate(TRUE, "bob", TRUE)) @@ (garbage :> Validate(FALSE, "ann", TRUE))
    @@ (noEmail :> Validate(TRUE, "ann", FALSE))
    @@ (newOrg :> [kind |-> "create_org", slug |-> "acme"])
    @@ (sameOrg :> [kind |-> "create_org", slug |-> "acme"])
    @@ (join :> Membership("add", 1)) @@ (joinToo :> Membership("add", 1))
    @@ (leave :> Membership("remove", 1))
MCAccountCalls == DOMAIN MCAsks

-----------------------------------------------------------------------------
Works(deliveries, ts, rs, ss, cs) ==
    /\ \/ \E d \in deliveries : GitInit(d, "received")
       \/ deliveries = {} /\ GitInit(Push, "idle")
    /\ TicketsInit(ts, rs) /\ StorageInit(ss) /\ AccountsInit(cs)

Init ==
    \/ Works(Payloads, {}, {}, {}, {})
    \/ Works({}, {t1, t2}, {}, {}, {}) \/ Works({}, {t3}, {}, {}, {})
    \/ \E r \in Requests : Works({}, {}, {r}, {}, {})
    \/ Works({}, {}, {}, Sessions, {})
    \/ Works({}, {}, {}, {}, {first, second, other}) \/ Works({}, {}, {}, {}, {garbage, noEmail, first})
    \/ Works({}, {}, {}, {}, {first, newOrg, join, joinToo, leave})
    \/ Works({}, {}, {}, {}, {newOrg, sameOrg})

Spec == Init /\ [][Next]_vars /\ TicketsFairness

\* The rows alone.
RowsSpec == Works({}, {}, {}, Sessions, {}) /\ [][Next]_vars
=============================================================================
