----------------------------- MODULE GitEvents -----------------------------
(***************************************************************************)
(* What GitHub and GitLab payloads become: the parsers (parser.go of both  *)
(* integrations) and the enrichment of a parsed deploy event with what the *)
(* GitHub API answers (github/enrichment.go), step by step, any of whose   *)
(* requests may fail.                                                      *)
(*                                                                         *)
(* A ref is a sequence of path segments, a file path too.  A commit        *)
(* message is a sequence of lines, a line a sequence of words, where "q"   *)
(* is a quotation mark.                                                    *)
(***************************************************************************)
EXTENDS Naturals, Sequences, FiniteSets, SequencesExt

CONSTANTS
    Payloads,    \* webhook bodies: see PayloadOK
    LowerOf,     \* strings.ToLower of each segment
    VSegments,   \* segments that begin with "v"
    Compares,    \* file lists a commit comparison may answer with
    PullLists,   \* lists of pull requests
    RunLists,    \* lists of workflow runs
    Nothing

Kinds == {"push", "deployment", "workflow_run", "deployment_status", "pull_request",
          "check_suite"}

PayloadOK(p) ==
    /\ DOMAIN p = {"host", "kind", "readable", "commit", "ref", "default", "env",
                   "message", "at", "author", "pusher", "id", "conclusion", "workflow"}
    /\ p.host \in {"github", "gitlab"} /\ p.kind \in Kinds /\ p.readable \in BOOLEAN
    /\ p.host = "gitlab" => p.kind = "push"
    /\ p.ref \in Seq(DOMAIN LowerOf) \ {<<>>}
    /\ p.message \in Seq(Seq(STRING)) \ {<<>>}

ASSUME GitEventsOK ==
    /\ \A p \in Payloads : PayloadOK(p)
    /\ LowerOf \in [DOMAIN LowerOf -> STRING]
    /\ \A s \in {"refs", "tags"} \cap DOMAIN LowerOf : LowerOf[s] = s
    /\ VSegments \cap {"staging", "stage", "develop", "development", "dev"} = {}

VARIABLES
    payload, \* the delivery being worked on
    event,   \* the ParsedDeployEvent made of it, Nothing before and on error
    stage    \* how far it is

gitVars == <<payload, event, stage>>

-----------------------------------------------------------------------------
\* Text.

TrimPrefix(s, prefix) ==
    IF IsPrefix(prefix, s) THEN SubSeq(s, Len(prefix) + 1, Len(s)) ELSE s

TrimSuffix(s, suffix) ==
    IF IsSuffix(suffix, s) THEN SubSeq(s, 1, Len(s) - Len(suffix)) ELSE s

\* The prefix of a ref ends with a slash: of refs/tags alone nothing is trimmed.
TrimRef(ref, prefix) ==
    IF IsStrictPrefix(prefix, ref) THEN SubSeq(ref, Len(prefix) + 1, Len(ref)) ELSE ref

FirstLine(message) == Head(message)

RevertOpening == <<"Revert", "q">>

Unquoted_Trim(line) ==
    SelectSeq(TrimPrefix(line, RevertOpening), LAMBDA w : w # "q")

Unquoted(line) == TrimSuffix(TrimPrefix(line, RevertOpening), <<"q">>)

\* Whether a message is git's of a revert, and of which message.
DetectRevert(line) ==
    IF IsPrefix(RevertOpening, line) /\ IsSuffix(<<"q">>, line)
    THEN [is |-> TRUE, of |-> Unquoted(line)]
    ELSE [is |-> FALSE, of |-> <<>>]

-----------------------------------------------------------------------------
\* inferEnvironment.

\* What both hosts' versions do after the exact names of production.
OtherEnvironment_NoTagRef(b) ==
    IF b \in {<<"staging">>, <<"stage">>} THEN "staging"
    ELSE IF b \in {<<"develop">>, <<"development">>, <<"dev">>} THEN "dev"
    ELSE IF Len(b) > 1 /\ b[1] \in {"release", "hotfix"} THEN "production"
    ELSE IF Len(b) > 1 /\ b[1] = "staging" THEN "staging"
    ELSE IF b[1] \in VSegments THEN "production"
    ELSE "unknown"

OtherEnvironment(b) ==
    IF b \in {<<"staging">>, <<"stage">>} THEN "staging"
    ELSE IF b \in {<<"develop">>, <<"development">>, <<"dev">>} THEN "dev"
    ELSE IF Len(b) > 1 /\ b[1] \in {"release", "hotfix"} THEN "production"
    ELSE IF Len(b) > 1 /\ b[1] = "staging" THEN "staging"
    ELSE IF \/ b[1] \in VSegments
            \/ Len(b) > 2 /\ b[1] = "refs" /\ b[2] = "tags" /\ b[3] \in VSegments
         THEN "production"
    ELSE "unknown"

Lower(branch) == [i \in DOMAIN branch |-> LowerOf[branch[i]]]

\* The default branch is compared as it is written, the branch in lower case.
GitHubEnvironment(branch, default) ==
    IF Lower(branch) \in {<<"main">>, <<"master">>, default} THEN "production"
    ELSE OtherEnvironment(Lower(branch))

GitLabEnvironment(branch) ==
    IF Lower(branch) \in {<<"main">>, <<"master">>} THEN "production"
    ELSE OtherEnvironment(Lower(branch))

-----------------------------------------------------------------------------
\* The parsers.  Each gives an event or Nothing for its error.

Heads == <<"refs", "heads">>
Tags == <<"refs", "tags">>

NoEvent == [type |-> "none", key |-> <<>>, commit |-> Nothing, message |-> <<>>,
            branch |-> <<>>, env |-> "", author |-> "", committedAt |-> Nothing,
            workflow |-> Nothing, log |-> Nothing, services |-> <<>>, files |-> 0,
            prs |-> <<>>]

\* A push that deletes a branch has no head commit.
ParsePushEvent(p) ==
    IF p.commit = Nothing THEN Nothing
    ELSE LET branch == TrimRef(TrimRef(p.ref, Heads), Tags)
         IN [NoEvent EXCEPT !.type = "push", !.key = <<"push", p.commit>>,
                !.commit = p.commit, !.message = FirstLine(p.message),
                !.branch = branch, !.env = GitHubEnvironment(branch, p.default),
                !.author = IF p.author = "" THEN p.pusher ELSE p.author,
                !.committedAt = p.at]

\* GitLab's: a tag keeps its refs/tags, and nobody stands in for the author.
ParseGitLabPushEvent(p) ==
    IF p.commit = Nothing THEN Nothing
    ELSE LET branch == TrimRef(p.ref, Heads)
         IN [NoEvent EXCEPT !.type = "push", !.key = <<"push", p.commit>>,
                !.commit = p.commit, !.message = FirstLine(p.message),
                !.branch = branch, !.env = GitLabEnvironment(branch),
                !.author = p.author]

ParseDeploymentEvent(p) ==
    [NoEvent EXCEPT !.type = "deployment", !.key = <<"deployment", p.id>>,
        !.commit = p.commit, !.branch = p.ref, !.env = p.env, !.author = p.author]

\* Only a successful run is a deploy, and only one with a commit.
ParseWorkflowRunEvent(p) ==
    IF p.conclusion # "success" \/ p.commit = Nothing THEN Nothing
    ELSE [NoEvent EXCEPT !.type = "workflow_run", !.key = <<"workflow_run", p.id>>,
             !.commit = p.commit, !.message = FirstLine(p.message), !.branch = p.ref,
             !.env = GitHubEnvironment(p.ref, p.default), !.author = p.author,
             !.committedAt = p.at, !.workflow = p.workflow, !.log = p.id]

\* Those that only report something of a deployment, a pull request or a commit.
ParseDeploymentStatusEvent(p) == [of |-> p.id, state |-> p.conclusion]

ParsePREvent(p) == [number |-> p.id, head |-> p.commit, merged |-> p.at # Nothing]

ParseCheckSuiteEvent(p) == [commit |-> p.commit, conclusion |-> p.conclusion]

Parsed(p) ==
    CASE ~p.readable -> Nothing
      [] p.readable /\ p.kind = "push" ->
            IF p.host = "github" THEN ParsePushEvent(p) ELSE ParseGitLabPushEvent(p)
      [] p.readable /\ p.kind = "deployment" -> ParseDeploymentEvent(p)
      [] p.readable /\ p.kind = "workflow_run" -> ParseWorkflowRunEvent(p)
      [] p.readable /\ p.kind = "deployment_status" -> ParseDeploymentStatusEvent(p)
      [] p.readable /\ p.kind = "pull_request" -> ParsePREvent(p)
      [] p.readable /\ p.kind = "check_suite" -> ParseCheckSuiteEvent(p)

-----------------------------------------------------------------------------
\* Helpers of the enrichment.

ServiceParents == {"services", "apps", "cmd", "packages", "modules"}

\* The service a changed file belongs to.
ServiceOf(path) ==
    IF Len(path) = 1 THEN "root"
    ELSE IF path[1] \in ServiceParents THEN path[2]
    ELSE path[1]

\* detectAffectedServices: one name after the other, each once.
AppendNew(names, name) ==
    IF name \in ToSet(names) THEN names ELSE Append(names, name)

DetectAffectedServices(paths) ==
    FoldLeft(LAMBDA names, path : AppendNew(names, ServiceOf(path)), <<>>, paths)

-----------------------------------------------------------------------------
\* EnrichDeployEvent.

GitInit(p, s) == payload = p /\ event = Nothing /\ stage = s

Parse ==
    /\ stage = "received"
    /\ event' = Parsed(payload)
    /\ stage' = IF event' = Nothing THEN "refused"
                ELSE IF "type" \in DOMAIN event' /\ payload.host = "github"
                THEN "client" ELSE "enriched"
    /\ UNCHANGED payload

\* Without a client for the installation there is no enrichment at all.
InstallationClient ==
    /\ stage = "client"
    /\ stage' \in {"diff", "failed"}
    /\ UNCHANGED <<payload, event>>

\* A request that fails is logged, and the next one is made.
RequestFails ==
    /\ \/ stage = "diff" /\ stage' = "prs"
       \/ stage = "prs" /\ stage' = "ci"
       \/ stage = "jobs" /\ stage' = "committed"
       \/ stage = "committed" /\ stage' = "enriched"
    /\ UNCHANGED <<payload, event>>

EnrichDiffStats ==
    /\ stage = "diff" /\ stage' = "prs"
    /\ \E paths \in Compares :
        event' = [event EXCEPT !.files = Len(paths),
                               !.services = DetectAffectedServices(paths)]
    /\ UNCHANGED payload

EnrichPRLinkage ==
    /\ stage = "prs" /\ stage' = "ci"
    /\ \E prs \in PullLists : event' = [event EXCEPT !.prs = prs]
    /\ UNCHANGED payload

\* The verdict of the check suites goes to the log only.
EnrichCIStatus ==
    /\ stage = "ci" /\ stage' = "jobs"
    /\ UNCHANGED <<payload, event>>

WantsJobs_Always == TRUE

WantsJobs == event.type = "deployment"

\* The first run of the commit stands for the deployment's.
EnrichWorkflowJobs ==
    /\ stage = "jobs" /\ stage' = "committed"
    /\ IF ~WantsJobs THEN UNCHANGED event
       ELSE \E runs \in RunLists :
            event' = IF runs = <<>> THEN event
                     ELSE [event EXCEPT !.workflow = Head(runs), !.log = Head(runs)]
    /\ UNCHANGED payload

\* Only a missing time is fetched; a commit may have no committer.
EnrichCommittedAt ==
    /\ stage = "committed" /\ stage' = "enriched"
    /\ \/ UNCHANGED event
       \/ /\ event.committedAt = Nothing
          /\ event' = [event EXCEPT !.committedAt = "fetched"]
    /\ UNCHANGED payload

GitNext ==
    \/ Parse \/ InstallationClient \/ RequestFails
    \/ EnrichDiffStats \/ EnrichPRLinkage \/ EnrichCIStatus
    \/ EnrichWorkflowJobs \/ EnrichCommittedAt

\* "idle" is a worker that nothing is delivered to.
GitSpec ==
    /\ \E p \in Payloads, s \in {"received", "idle"} : GitInit(p, s)
    /\ [][GitNext]_gitVars

-----------------------------------------------------------------------------
(* Properties.                                                             *)

IsDeploy == event # Nothing /\ "type" \in DOMAIN event

\* Enrichment only adds: what the payload said of the deploy, its workflow and
\* its commit time where it gave them included, is in the event to the end.
EnrichmentKeepsPayload ==
    IsDeploy =>
        LET said == Parsed(payload)
        IN \A f \in {"type", "key", "commit", "message", "branch", "env", "author",
                     "committedAt", "workflow", "log"} :
            said[f] # Nothing => event[f] = said[f]

\* Git's message of a revert is taken apart to the reverted title, whatever
\* that title is: one that ends with a quotation, or a revert itself.
RevertNamesItsTitle ==
    LET title == FirstLine(payload.message)
    IN  DetectRevert(RevertOpening \o title \o <<"q">>) = [is |-> TRUE, of |-> title]

\* A repository mirrored on both hosts has one environment for a branch, but
\* where the branch is GitHub's default one or is named like a tag's ref, and
\* for a version tag.
SameEnvironmentOnBothHosts ==
    LET p == payload
    IN  /\ p.readable /\ p.kind = "push" /\ p.commit # Nothing
        /\ \/ /\ IsStrictPrefix(Heads, p.ref) /\ ~IsStrictPrefix(Heads \o Tags, p.ref)
              /\ Lower(TrimRef(p.ref, Heads)) # p.default
           \/ IsStrictPrefix(Tags, p.ref) /\ Lower(p.ref)[3] \in VSegments
        => ParsePushEvent(p).env = ParseGitLabPushEvent(p).env
=============================================================================
