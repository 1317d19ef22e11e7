----------------------------- MODULE Deployments -----------------------------
(***************************************************************************)
(* The workflow that follows a push to main: it plans by comparing the     *)
(* commit with the last successful deployment, with what the live site     *)
(* says of itself, and with the commit before it, and then deploys the     *)
(* site, refreshes its content, or indexes the content for the search.     *)
(* Runs of several pushes overlap; a job that enters its concurrency group *)
(* cancels the one in it, whichever push that is of.                       *)
(*                                                                         *)
(* A commit is its content (services/site/content) and its code (all other *)
(* files that the site is built from).                                     *)
(***************************************************************************)
EXTENDS Sequences, SequencesExt, Naturals, Absence

CONSTANTS
  Contents, Codes,  \* what a push may change
  MaxCommits,       \* bound on commits
  MaxTroubles       \* bound on failed jobs and lookups

ASSUME DeploymentsAssumption ==
  Contents # {} /\ Codes # {} /\ MaxCommits \in Nat \ {0} /\ MaxTroubles \in Nat

Commits == 1..MaxCommits

VARIABLES
  main,         \* the commits, in their order
  run,          \* the jobs of each push
  deployments,  \* GitHub deployments of site-production, in order of creation
  live,         \* the site: BUILD_SHA of the worker and the published content
  recorded,     \* application cache: meta:last-refresh-commit-sha
  indexed,      \* the content that the search index has
  calm,         \* so far every run began after the last had succeeded
  troubles      \* failures so far

deploymentVars ==
  <<main, run, deployments, live, recorded, indexed, calm, troubles>>

-----------------------------------------------------------------------------
(* Data.                                                                   *)

Commit == [content : Contents, code : Codes]

Jobs == [plan : {"none", "waiting", "done"},
         site : {"skipped", "verify", "worker", "artifacts", "smoke", "ok", "lost"},
         refresh : {"skipped", "waiting", "compare", "publish", "record", "ok", "lost"},
         index : {"skipped", "waiting", "running", "ok", "lost"}]

NoJobs == [plan |-> "none", site |-> "skipped", refresh |-> "skipped",
           index |-> "skipped"]

Deployment == [commit : Commits, state : {"in_progress", "success", "failure"}]

Deploying == {"worker", "artifacts", "smoke"}
Refreshing == {"compare", "publish", "record"}

Trouble == troubles < MaxTroubles /\ troubles' = troubles + 1 /\ calm' = FALSE

\* Job j of commit c goes on; jobs of other commits that are in the same
\* concurrency group are cancelled.
Goes(c, j, state) == run' = [run EXCEPT ![c] = [@ EXCEPT ![j] = state]]
Enters(c, j, group, state) ==
  run' = [d \in Commits |->
            IF d = c THEN [run[d] EXCEPT ![j] = state]
            ELSE IF run[d][j] \in group THEN [run[d] EXCEPT ![j] = "lost"]
            ELSE run[d]]
Cancels(c, j, group) == \E d \in Commits \ {c} : run[d][j] \in group

SiteEnded(c) == run[c].site \in {"skipped", "ok", "lost"}
RefreshEnded(c) == run[c].refresh \in {"skipped", "ok", "lost"}
IndexEnded(c) == run[c].index \in {"skipped", "ok", "lost"}

\* No run is under way.
Quiet ==
  \A c \in Commits :
    run[c].plan # "waiting" /\ SiteEnded(c) /\ RefreshEnded(c) /\ IndexEnded(c)

-----------------------------------------------------------------------------
(* A push, and its plan.                                                   *)

Push(commit) ==
  /\ Len(main) < MaxCommits /\ commit # Last(main)
  /\ main' = Append(main, commit)
  /\ run' = [run EXCEPT ![Len(main) + 1] = [NoJobs EXCEPT !.plan = "waiting"]]
  /\ calm' = (calm /\ Quiet)
  /\ UNCHANGED <<deployments, live, recorded, indexed, troubles>>

\* fetchLastSuccessfulDeploymentSha: of the newest deployment that succeeded.
LastSuccess ==
  LET successes == {i \in DOMAIN deployments : deployments[i].state = "success"} IN
  IF successes = {} THEN None
  ELSE deployments[CHOOSE i \in successes : \A k \in successes : k <= i].commit

\* shouldDeploySite: a lookup that fails counts as a change.
ShouldDeploySite(c) == LastSuccess = None \/ main[c].code # main[LastSuccess].code

\* resolveCompareCommitSha: refresh-commit-sha.json parses the recorded object as
\* if it were text, fails, deletes it and answers null; so it is the BUILD_SHA.
CompareSha == live.build

\* Content has changed since then.
ContentChanged(c) == main[c].content # main[CompareSha].content

\* computeDeployPlan.  The index is planned for what the push itself changed, the
\* code of the site included.
Plan(c) ==
  /\ run[c].plan = "waiting"
  /\ \E deploy, refresh \in BOOLEAN :
       /\ \/ /\ deploy = ShouldDeploySite(c)
             /\ refresh = (~deploy /\ ContentChanged(c))
             /\ UNCHANGED <<troubles, calm>>
          \/ Trouble /\ deploy /\ ~refresh
          \/ Trouble /\ deploy = ShouldDeploySite(c) /\ refresh = ~deploy
       /\ run' = [run EXCEPT ![c] =
            [plan |-> "done",
             site |-> IF deploy THEN "verify" ELSE "skipped",
             refresh |-> IF refresh THEN "waiting" ELSE "skipped",
             index |-> "waiting"]]
  /\ recorded' = None
  /\ UNCHANGED <<main, deployments, live, indexed>>

-----------------------------------------------------------------------------
(* deploy-site.yml.                                                        *)

\* Mutant: a job that enters the group leaves the one in it alone.
DeployBeside(c) ==
  /\ run[c].site = "verify"
  /\ Goes(c, "site", "worker")
  /\ deployments' = Append(deployments, [commit |-> c, state |-> "in_progress"])
  /\ UNCHANGED <<main, live, recorded, indexed, calm, troubles>>

\* The site gate has passed: the job enters deploy-site-production.
DeployStarts(c) ==
  /\ run[c].site = "verify"
  /\ Enters(c, "site", Deploying, "worker")
  /\ deployments' =
       Append([i \in DOMAIN deployments |->
                 IF deployments[i].state = "in_progress"
                 THEN [deployments[i] EXCEPT !.state = "failure"] ELSE deployments[i]],
              [commit |-> c, state |-> "in_progress"])
  /\ calm' = (calm /\ ~Cancels(c, "site", Deploying))
  /\ UNCHANGED <<main, live, recorded, indexed, troubles>>

DeployWorker(c) ==
  /\ run[c].site = "worker"
  /\ Goes(c, "site", "artifacts")
  /\ live' = [live EXCEPT !.build = c]
  /\ UNCHANGED <<main, deployments, recorded, indexed, calm, troubles>>

DeployArtifacts(c) ==
  /\ run[c].site = "artifacts"
  /\ Goes(c, "site", "smoke")
  /\ live' = [live EXCEPT !.content = main[c].content]
  /\ UNCHANGED <<main, deployments, recorded, indexed, calm, troubles>>

DeploymentEnds(c, state) ==
  deployments' = [i \in DOMAIN deployments |->
                    IF deployments[i] = [commit |-> c, state |-> "in_progress"]
                    THEN [commit |-> c, state |-> state] ELSE deployments[i]]

DeploySucceeds(c) ==
  /\ run[c].site = "smoke"
  /\ Goes(c, "site", "ok") /\ DeploymentEnds(c, "success")
  /\ UNCHANGED <<main, live, recorded, indexed, calm, troubles>>

\* The gate, the deployment, the publication or the smoke check fails.
DeployFails(c) ==
  /\ run[c].site \in Deploying \cup {"verify"}
  /\ Trouble
  /\ Goes(c, "site", "lost") /\ DeploymentEnds(c, "failure")
  /\ UNCHANGED <<main, live, recorded, indexed>>

-----------------------------------------------------------------------------
(* refresh-content.yml: refreshChangedContent.                             *)

RefreshStarts(c) ==
  /\ run[c].refresh = "waiting"
  /\ Enters(c, "refresh", Refreshing, "compare")
  /\ calm' = (calm /\ ~Cancels(c, "refresh", Refreshing))
  /\ UNCHANGED <<main, deployments, live, recorded, indexed, troubles>>

RefreshCompares(c) ==
  /\ run[c].refresh = "compare"
  /\ Goes(c, "refresh", IF ContentChanged(c) THEN "publish" ELSE "ok")
  /\ recorded' = None
  /\ UNCHANGED <<main, deployments, live, indexed, calm, troubles>>

RefreshPublishes(c) ==
  /\ run[c].refresh = "publish"
  /\ Goes(c, "refresh", "record")
  /\ live' = [live EXCEPT !.content = main[c].content]
  /\ UNCHANGED <<main, deployments, recorded, indexed, calm, troubles>>

\* postRefreshCacheWithRetry: the run ends well although nothing was recorded.
RefreshRecords(c) ==
  /\ run[c].refresh = "record"
  /\ Goes(c, "refresh", "ok")
  /\ \/ recorded' = c /\ UNCHANGED <<calm, troubles>>
     \/ Trouble /\ UNCHANGED recorded
  /\ UNCHANGED <<main, deployments, live, indexed>>

RefreshFails(c) ==
  /\ run[c].refresh \in Refreshing
  /\ Trouble /\ Goes(c, "refresh", "lost")
  /\ UNCHANGED <<main, deployments, live, recorded, indexed>>

-----------------------------------------------------------------------------
(* index-semantic-content.yml.                                             *)

IndexStarts(c) ==
  /\ run[c].index = "waiting"
  /\ Enters(c, "index", {"running"}, "running")
  /\ calm' = (calm /\ ~Cancels(c, "index", {"running"}))
  /\ UNCHANGED <<main, deployments, live, recorded, indexed, troubles>>

\* Those that differ from the last deployment.
IndexSinceDeployment(c) ==
  /\ run[c].index = "running"
  /\ Goes(c, "index", "ok")
  /\ indexed' = IF main[c].content # main[live.build].content
                THEN main[c].content ELSE indexed
  /\ UNCHANGED <<main, deployments, live, recorded, calm, troubles>>

\* The documents that differ from the commit before the push.
IndexEnds(c) ==
  /\ run[c].index = "running"
  /\ Goes(c, "index", "ok")
  /\ indexed' = IF c > 1 /\ main[c].content # main[c - 1].content
                THEN main[c].content ELSE indexed
  /\ UNCHANGED <<main, deployments, live, recorded, calm, troubles>>

IndexFails(c) ==
  /\ run[c].index = "running"
  /\ Trouble /\ Goes(c, "index", "lost")
  /\ UNCHANGED <<main, deployments, live, recorded, indexed>>

-----------------------------------------------------------------------------

\* The first commit is deployed, published and indexed.
DeploymentsInit ==
  \E commit \in Commit :
    /\ main = <<commit>>
    /\ run = [c \in Commits |-> NoJobs]
    /\ deployments = <<[commit |-> 1, state |-> "success"]>>
    /\ live = [build |-> 1, content |-> commit.content]
    /\ recorded = None /\ indexed = commit.content
    /\ calm = TRUE /\ troubles = 0

DeploymentsNext ==
  \/ \E commit \in Commit : Push(commit)
  \/ \E c \in Commits :
       \/ Plan(c)
       \/ DeployStarts(c) \/ DeployWorker(c) \/ DeployArtifacts(c)
       \/ DeploySucceeds(c) \/ DeployFails(c)
       \/ RefreshStarts(c) \/ RefreshCompares(c) \/ RefreshPublishes(c)
       \/ RefreshRecords(c) \/ RefreshFails(c)
       \/ IndexStarts(c) \/ IndexEnds(c) \/ IndexFails(c)

DeploymentsSpec == DeploymentsInit /\ [][DeploymentsNext]_deploymentVars
=============================================================================
