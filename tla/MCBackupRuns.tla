---------------------------- MODULE MCBackupRuns ----------------------------
\* Three plans: p1 and p2 share a repository, p3 has its own; all stop one app, and p1
\* a second one.  p1 may be run by its timer and by hand.
EXTENDS BackupRuns

MCPlanOf == [r \in Runs |-> IF r = "p2" THEN "p2" ELSE IF r = "p3" THEN "p3" ELSE "p1"]
MCRepositoryOf == [p \in Plans |-> IF p = "p3" THEN "far" ELSE "near"]
MCStopApps == [p \in Plans |-> IF p = "p1" THEN Apps ELSE {"x"}]
=============================================================================
