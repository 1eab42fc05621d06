----------------------------- MODULE ProjectTree -----------------------------
(***************************************************************************)
(* The files of a project, and the one script at a time that works on them *)
(* (scripts/policy-check.ts, scripts/apply-migration.ts).  A script is a   *)
(* process: it ends with an exit code, may meet failing calls, and may be  *)
(* killed; between scripts people edit the files.                          *)
(***************************************************************************)
EXTENDS Naturals, Sequences, SequencesExt

CONSTANTS
    Paths,          \* the files there may be
    Tokens,         \* what they may hold
    MaxCommands,    \* scripts that are run (a bound)
    MaxFaults,      \* failures and kills (a bound)
    MaxEdits        \* edits by hand (a bound)

ASSUME TreeAssumption == {MaxCommands, MaxFaults, MaxEdits} \subseteq Nat

VARIABLES
    tree,           \* per file that exists, the tokens it holds
    proc,           \* the script that runs: its next step and its locals
    outcome,        \* script and exit code of the last one, until an edit
    used            \* commands, faults and edits so far

treeVars == <<tree, proc, outcome, used>>

Idle == [pc |-> "idle"]
Unsettled == [script |-> "none", exit |-> 0]

TreeTypeOK ==
    /\ DOMAIN tree \subseteq Paths
    /\ \A p \in DOMAIN tree : tree[p] \subseteq Tokens
    /\ outcome.exit \in {0, 1, 137}
    /\ used \in [commands : 0 .. MaxCommands, faults : 0 .. MaxFaults,
                edits : 0 .. MaxEdits]

TreeInit ==
    /\ proc = Idle
    /\ outcome = Unsettled
    /\ used = [commands |-> 0, faults |-> 0, edits |-> 0]

Begin ==
    /\ proc = Idle
    /\ used.commands < MaxCommands
    /\ used' = [used EXCEPT !.commands = @ + 1]

Works == UNCHANGED used

Fails ==
    /\ used.faults < MaxFaults
    /\ used' = [used EXCEPT !.faults = @ + 1]

\* What main returns, or the catch clause at the end of the script.
Settle(script, code) ==
    /\ proc' = Idle
    /\ outcome' = [script |-> script, exit |-> code]

Without(f, p) == [q \in DOMAIN f \ {p} |-> f[q]]
With(f, p, content) ==
    [q \in DOMAIN f \cup {p} |-> IF q = p THEN content ELSE f[q]]

Kill ==
    /\ proc # Idle /\ Fails
    /\ Settle("none", 137)
    /\ UNCHANGED tree

\* Somebody writes or deletes a file.
Edit ==
    /\ proc = Idle /\ used.edits < MaxEdits
    /\ used' = [used EXCEPT !.edits = @ + 1]
    /\ outcome' = Unsettled
    /\ UNCHANGED proc
    /\ \E p \in Paths :
         \/ \E content \in SUBSET Tokens : tree' = With(tree, p, content)
         \/ tree' = Without(tree, p)
=============================================================================
