----------------------------- MODULE RepoScripts -----------------------------
(***************************************************************************)
(* Both scripts on the files of one project, one after the other: a policy *)
(* check with --fix is an edit between the analysis of a migration and its *)
(* application, and the files a migration brings are checked next.         *)
(***************************************************************************)
EXTENDS PolicyCheck, Migration

CONSTANTS
    Trees,          \* the projects there may be at first
    Sources         \* the versions of the package there may be at first

ASSUME ScriptsAssumption ==
    \A files \in Trees \cup Sources :
        /\ DOMAIN files \subseteq Paths
        /\ \A p \in DOMAIN files : files[p] \subseteq Tokens

scriptsVars == <<treeVars, migrationVars>>

ScriptsTypeOK == TreeTypeOK /\ MigrationTypeOK

ScriptsInit ==
    /\ TreeInit /\ MigrationInit
    /\ tree \in Trees
    /\ source \in Sources

ScriptsNext ==
    \/ PolicyNext /\ UNCHANGED migrationVars
    \/ MigrationNext
    \/ (Kill \/ Edit) /\ UNCHANGED migrationVars

ScriptsSpec == ScriptsInit /\ [][ScriptsNext]_scriptsVars
=============================================================================
