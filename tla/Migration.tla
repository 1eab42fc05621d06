------------------------------ MODULE Migration ------------------------------
(***************************************************************************)
(* scripts/apply-migration.ts: --analyze compares the starter package with *)
(* the project and saves a plan, and a later process applies it.  In       *)
(* between the project, the package and the plan may have changed.         *)
(***************************************************************************)
EXTENDS ProjectTree

CONSTANTS
    Excluded        \* paths that collectFiles passes over

VARIABLES
    source,         \* per file of the starter package, the tokens it holds
    plan,           \* the file with the plan
    agreed,         \* history: of the saved plan, the files that were there
                    \* and those of them given up by the answers
    overwritten     \* history: files whose other content this plan replaced

migrationVars == <<source, plan, agreed, overwritten>>

MigrationTypeOK ==
    /\ DOMAIN source \subseteq Paths
    /\ \A p \in DOMAIN source : source[p] \subseteq Tokens
    /\ DOMAIN plan = {"state", "action"}
    /\ plan.state \in {"none", "torn", "saved"}
    /\ DOMAIN plan.action \subseteq Paths \ Excluded
    /\ \A p \in DOMAIN plan.action : plan.action[p] \in {"copy", "overwrite", "skip"}
    /\ agreed.given \subseteq agreed.there
    /\ overwritten \subseteq Paths

MigrationInit ==
    /\ plan = [state |-> "none", action |-> <<>>]
    /\ agreed = [there |-> {}, given |-> {}]
    /\ overwritten = {}

-----------------------------------------------------------------------------
\* collectFiles and analyze: a file that is not there is copied, one that
\* differs is kept unless the answers say otherwise.
Collected == DOMAIN source \ Excluded
There == Collected \cap DOMAIN tree
Modified == {p \in There : tree[p] # source[p]}
Planned == [p \in Collected |-> IF p \in There THEN "skip" ELSE "copy"]

Analyze(interactive) ==
    /\ Begin
    /\ proc' = [script |-> "analyze", action |-> Planned, modified |-> Modified,
                left |-> Modified, there |-> There, answers |-> <<>>,
                pc |-> IF interactive /\ Modified # {} THEN "ask" ELSE "save"]
    /\ UNCHANGED <<tree, outcome, migrationVars>>

Act(action, files, what) ==
    [p \in DOMAIN action |-> IF p \in files THEN what ELSE action[p]]

\* (Mutation) The group answers are for the files that are left.
ResolveRest(p, answer) ==
    CASE answer = "ao" -> Act(proc.action, proc.left, "overwrite")
      [] answer = "ak" -> Act(proc.action, proc.left, "skip")
      [] answer = "o" -> Act(proc.action, {p}, "overwrite")
      [] OTHER -> proc.action

\* interactiveResolve: a group answer is for all conflicts, those answered
\* before included, and ends the questions.  To skip is to keep: s is as k, and as
\* is as ak.
Resolve(p, answer) ==
    CASE answer = "ao" -> Act(proc.action, proc.modified, "overwrite")
      [] answer = "ak" -> Act(proc.action, proc.modified, "skip")
      [] answer = "o" -> Act(proc.action, {p}, "overwrite")
      [] OTHER -> proc.action

Ask(p, answer) ==
    /\ proc.pc = "ask" /\ p \in proc.left
    /\ LET left == IF answer \in {"ao", "ak"} THEN {} ELSE proc.left \ {p} IN
       proc' = [proc EXCEPT !.action = Resolve(p, answer), !.left = left,
                  !.answers = Append(@, <<p, answer>>),
                  !.pc = IF left = {} THEN "save" ELSE "ask"]
    /\ Works /\ UNCHANGED <<tree, outcome, migrationVars>>

\* What was said, as the prompt explains it.
GivenUp ==
    LET said(a) == {proc.answers[i][1] : i \in
                      {i \in DOMAIN proc.answers : proc.answers[i][2] = a}}
    IN IF said("ao") # {} THEN proc.modified
       ELSE IF said("ak") # {} THEN {} ELSE said("o")

SavePlan ==
    /\ proc.pc = "save"
    /\ \/ /\ Works
          /\ plan' = [state |-> "saved", action |-> proc.action]
          /\ agreed' = [there |-> proc.there, given |-> GivenUp]
          /\ Settle("analyze", 0)
          /\ overwritten' = {}
       \/ /\ Fails
          /\ plan' \in {plan, [plan EXCEPT !.state = "torn"]}
          /\ Settle("analyze", 1)
          /\ UNCHANGED <<agreed, overwritten>>
    /\ UNCHANGED <<tree, source>>

Actionable == {p \in DOMAIN plan.action : plan.action[p] \in {"copy", "overwrite"}}

\* A plan that is missing or cannot be parsed ends the script.
Apply ==
    /\ Begin
    /\ \/ plan.state # "saved" /\ Settle("apply", 1)
       \/ /\ plan.state = "saved"
          /\ proc' = [script |-> "apply", pc |-> "apply", left |-> Actionable,
                      bad |-> FALSE]
          /\ UNCHANGED outcome
    /\ UNCHANGED <<tree, migrationVars>>

Applying(p) == proc.pc = "apply" /\ p \in proc.left

SourceMissing(p) ==
    /\ Applying(p) /\ p \notin DOMAIN source
    /\ proc' = [proc EXCEPT !.left = @ \ {p}, !.bad = TRUE]
    /\ Works /\ UNCHANGED <<tree, outcome, migrationVars>>

Overwrites(p) == p \in DOMAIN tree /\ tree[p] # source[p]

\* (Mutation) A file that is there already is passed over.
CopyIfAbsent(p) ==
    /\ Applying(p) /\ p \in DOMAIN source
    /\ tree' = IF p \in DOMAIN tree THEN tree ELSE With(tree, p, source[p])
    /\ proc' = [proc EXCEPT !.left = @ \ {p}]
    /\ Works /\ UNCHANGED <<outcome, migrationVars>>

CopyOver(p) ==
    /\ Applying(p) /\ p \in DOMAIN source
    /\ tree' = With(tree, p, source[p])
    /\ overwritten' = IF Overwrites(p) THEN overwritten \cup {p} ELSE overwritten
    /\ proc' = [proc EXCEPT !.left = @ \ {p}]
    /\ Works /\ UNCHANGED <<outcome, source, plan, agreed>>

\* The copy fails, and may leave a part of the file: an error, and the next
\* file.  mkdir is outside the try: it ends the script.
CopyFails(p) ==
    /\ Applying(p) /\ p \in DOMAIN source /\ Fails
    /\ \/ /\ \/ UNCHANGED <<tree, overwritten>>
             \/ /\ tree' = With(tree, p, {})
                /\ overwritten' = IF Overwrites(p) THEN overwritten \cup {p}
                                                   ELSE overwritten
          /\ proc' = [proc EXCEPT !.left = @ \ {p}, !.bad = TRUE]
          /\ UNCHANGED outcome
       \/ Settle("apply", 1) /\ UNCHANGED <<tree, overwritten>>
    /\ UNCHANGED <<source, plan, agreed>>

EndApply ==
    /\ proc.pc = "apply" /\ proc.left = {}
    /\ Settle("apply", IF proc.bad THEN 1 ELSE 0)
    /\ Works /\ UNCHANGED <<tree, migrationVars>>

\* Another version of the starter package is installed.
Upgrade ==
    /\ proc = Idle /\ used.edits < MaxEdits
    /\ used' = [used EXCEPT !.edits = @ + 1]
    /\ outcome' = Unsettled
    /\ \E p \in Paths :
         \/ \E content \in SUBSET Tokens : source' = With(source, p, content)
         \/ source' = Without(source, p)
    /\ UNCHANGED <<tree, proc, plan, agreed, overwritten>>

MigrationNext ==
    \/ \E interactive \in BOOLEAN : Analyze(interactive)
    \/ \E p \in Paths :
         \/ \E answer \in {"o", "k", "ao", "ak"} : Ask(p, answer)
         \/ SourceMissing(p) \/ CopyOver(p) \/ CopyFails(p)
    \/ SavePlan \/ Apply \/ EndApply \/ Upgrade

-----------------------------------------------------------------------------
\* What --apply replaces was not there when the plan was made, or was given up
\* in answer to the questions, in whatever order single and group answers came,
\* and although the plan may be older than an analysis that was cut short
\* (apply-migration.ts:306, :255).
OverwritesAreConsented == overwritten \cap agreed.there \subseteq agreed.given

\* An --apply that exits with 0 has installed every file the plan says, as the
\* package has it now, after failed or killed attempts and upgrades as well
\* (apply-migration.ts:457).
AppliedMeansInstalled ==
    proc = Idle /\ outcome.script = "apply" /\ outcome.exit = 0 =>
        \A p \in Actionable :
            p \in DOMAIN tree /\ p \in DOMAIN source /\ tree[p] = source[p]
=============================================================================
