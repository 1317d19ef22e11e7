------------------------ MODULE DeploymentsProperties ------------------------
(***************************************************************************)
(* What the deploy planner and its jobs must guarantee.                    *)
(***************************************************************************)
EXTENDS Deployments

Newest == main[Len(main)]

\* Every variable holds a value of its kind.
DeploymentsTypeOK ==
  /\ main \in Seq(Commit) /\ Len(main) \in Commits
  /\ run \in [Commits -> Jobs]
  /\ deployments \in Seq(Deployment)
  /\ live \in [build : Commits, content : Contents]
  /\ recorded \in Commits \cup {None} /\ indexed \in Contents
  /\ calm \in BOOLEAN /\ troubles \in 0..MaxTroubles

\* GitHub's record is what plans compare with: unless a deployment has failed, was
\* cancelled or is under way since, the worker of the last successful
\* deployment is the one that is live, however the runs overlap.
DeploymentsTellWhatIsLive ==
  deployments[Len(deployments)].state = "success" => live.build = LastSuccess

\* When pushes come one after the other and nothing fails, what is live is what main
\* has: the code, although commits that change only content deploy nothing;
\* the content, by a deployment or by a refresh, except when a push takes it back
\* to what the deployed commit had; and the search index.
LiveFollowsMain ==
  Quiet /\ calm =>
    /\ main[live.build].code = Newest.code
    /\ \/ live.content = Newest.content
       \/ Newest.content = main[live.build].content
    /\ indexed = Newest.content

\* The content that is live is the content of main: the commit that a refresh
\* compares with is "the commit SHA currently reflected by the live site so
\* content-only refreshes can diff against it"
\* (other/resolve-compare-commit-sha.ts:6-7).
ContentFollowsMain == Quiet /\ calm => live.content = Newest.content
=============================================================================
