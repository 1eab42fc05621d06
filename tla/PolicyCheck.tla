----------------------------- MODULE PolicyCheck -----------------------------
(***************************************************************************)
(* scripts/policy-check.ts: policies are loaded, each is executed rule by  *)
(* rule and file by file, and a violation may be fixed on the spot, which  *)
(* changes the files that later rules and policies read.                   *)
(***************************************************************************)
EXTENDS ProjectTree

CONSTANTS
    Policies,       \* the documents of the policy directory, well formed or not
    Selections      \* what is asked for: sequences of names of policies

\* A rule as it is parsed: what may be in its fields is checked when it is loaded.
Rules == [engine : STRING, kind : STRING, token : Tokens \cup STRING, mode : STRING,
          command : STRING, replace : Tokens \cup STRING, rewrites : SUBSET Tokens,
          allow : SUBSET Paths]

ASSUME PolicyAssumption ==
    \A n \in DOMAIN Policies : Policies[n].rules \in Seq(Rules)

-----------------------------------------------------------------------------
\* (Mutation) The replacement of a rewriting rule is not asked for.
RuleHasMode(r) ==
    /\ r.engine \in {"rg", "sg"} /\ r.kind = r.engine
    /\ r.token \in Tokens
    /\ r.mode \in {"none", "command", "rewrite"}

\* validateRule and validatePolicy.
RuleOK(r) ==
    /\ r.engine \in {"rg", "sg"} /\ r.kind = r.engine
    /\ r.token \in Tokens
    /\ r.mode \in {"none", "command", "rewrite"}
    /\ r.mode = "rewrite" => r.replace \in Tokens
    /\ r.mode = "command" => r.command # "empty"

PolicyOK(d) ==
    /\ d.targets # {} /\ d.rules # <<>>
    /\ \A i \in DOMAIN d.rules : RuleOK(d.rules[i])

\* discoverPolicyFiles and the loop that loads them: the positions of the names
\* whose policies will be executed.  A name that is not found is an error; a
\* document that is malformed is one as well and, with --fail-fast, ends the
\* loading but not the execution of those loaded.
Load(names, failFast) ==
    LET found == {i \in DOMAIN names : names[i] \in DOMAIN Policies}
        malformed == {i \in found : ~PolicyOK(Policies[names[i]])}
    IN {i \in found \ malformed : failFast => \A k \in malformed : i < k}

\* discoverFiles and globFiles, with the sets of paths that the patterns match.
Discovered(d) ==
    {p \in DOMAIN tree : p \in d.targets \ d.exclude /\ p \in d.include}

\* matchesAnyPattern(relativeFile, rule.allow)
Examined(d, r) == Discovered(d) \ r.allow

\* executeRewriteFix: the regular expression of the rule as JavaScript has it,
\* which is not always what rg matched (the flag w is ignored).
Rewritten(r, content) ==
    IF content \cap r.rewrites = {} THEN content
    ELSE (content \ r.rewrites) \cup {r.replace}

-----------------------------------------------------------------------------
\* main and executePolicies, up to the first policy.
CheckPolicies(names, dirExists, fix, preview, failFast) ==
    /\ Begin
    /\ UNCHANGED tree
    /\ \/ ~dirExists /\ Settle("policy", 1)
       \/ /\ dirExists
          /\ LET loaded == Load(names, failFast) IN
             proc' = [script |-> "policy", pc |-> "discover", names |-> names,
                      fix |-> fix, preview |-> preview, failFast |-> failFast,
                      queue |-> loaded, rules |-> <<>>, files |-> {}, left |-> {},
                      bad |-> loaded # DOMAIN names, failed |-> FALSE]
          /\ UNCHANGED outcome

Checking(pc) == proc # Idle /\ proc.script = "policy" /\ proc.pc = pc

\* rg failed, or the engine is not supported: an error of this policy.
WithError(p) == [p EXCEPT !.bad = TRUE, !.failed = TRUE]
NextRule(p) == [p EXCEPT !.rules = Tail(@), !.pc = "rule"]

Discover ==
    /\ Checking("discover")
    /\ \E first \in proc.queue :
         LET d == Policies[proc.names[first]]
             p == [proc EXCEPT !.queue = @ \ {first}, !.pc = "rule"]
         IN /\ \A i \in proc.queue : first <= i
            /\ \/ /\ Works
                  /\ proc' = [p EXCEPT !.rules = d.rules, !.files = Discovered(d),
                                       !.failed = FALSE]
               \/ Fails /\ proc' = [WithError(p) EXCEPT !.rules = <<>>, !.files = {}]
    /\ UNCHANGED <<tree, outcome>>

StartRule ==
    /\ Checking("rule") /\ proc.rules # <<>>
    /\ LET r == Head(proc.rules) IN
       proc' = IF r.engine = "sg" THEN NextRule(WithError(proc))
               ELSE [proc EXCEPT !.left = proc.files \ r.allow, !.pc = "file"]
    /\ Works /\ UNCHANGED <<tree, outcome>>

Rule == Head(proc.rules)

\* A file that rg cannot search, because it fails or because a fix has deleted
\* it, ends the rule.
SearchFails(p) ==
    /\ Checking("file") /\ p \in proc.left
    /\ IF p \in DOMAIN tree THEN Fails ELSE Works
    /\ proc' = NextRule(WithError(proc))
    /\ UNCHANGED <<tree, outcome>>

SearchClean(p) ==
    /\ Checking("file") /\ p \in proc.left \cap DOMAIN tree
    /\ Rule.token \notin tree[p]
    /\ proc' = [proc EXCEPT !.left = @ \ {p}]
    /\ Works /\ UNCHANGED <<tree, outcome>>

\* The command of a fix is any program, started in the project: it may write and
\* delete any files, and fail all the same.
CommandRuns == \E files \in SUBSET Paths : tree' \in [files -> SUBSET Tokens]

\* executeFix, once for a rule and a file.
FixFile(p) ==
    IF ~proc.fix \/ proc.preview THEN UNCHANGED tree
    ELSE \/ Rule.mode = "none" /\ UNCHANGED tree
         \/ Rule.mode = "rewrite" /\ tree' = [tree EXCEPT ![p] = Rewritten(Rule, @)]
         \/ Rule.mode = "command" /\ CommandRuns

\* splitCommand throws, with --dry-run as well.
Unterminated == proc.fix /\ Rule.mode = "command" /\ Rule.command = "unterminated"

\* (Mutation) What was fixed is no violation.
DropFixed(p) ==
    /\ Checking("file") /\ p \in proc.left \cap DOMAIN tree
    /\ Rule.token \in tree[p] /\ ~Unterminated
    /\ FixFile(p)
    /\ proc' = [proc EXCEPT !.left = @ \ {p}, !.bad = @ \/ tree' = tree]
    /\ Works /\ UNCHANGED outcome

\* A violation counts whether it is fixed or not.
SearchMatches(p) ==
    /\ Checking("file") /\ p \in proc.left \cap DOMAIN tree
    /\ Rule.token \in tree[p]
    /\ IF Unterminated THEN Settle("policy", 1) /\ UNCHANGED tree
       ELSE /\ FixFile(p)
            /\ proc' = [proc EXCEPT !.left = @ \ {p}, !.bad = TRUE]
            /\ UNCHANGED outcome
    /\ Works

\* A rewriting that cannot be written ends the script.
RewriteFails(p) ==
    /\ Checking("file") /\ p \in proc.left \cap DOMAIN tree
    /\ Rule.token \in tree[p]
    /\ proc.fix /\ ~proc.preview /\ Rule.mode = "rewrite"
    /\ tree' \in {tree, [tree EXCEPT ![p] = {}]}
    /\ Settle("policy", 1) /\ Fails

EndRule ==
    /\ Checking("file") /\ proc.left = {}
    /\ proc' = NextRule(proc)
    /\ Works /\ UNCHANGED <<tree, outcome>>

EndPolicy ==
    /\ Checking("rule") /\ proc.rules = <<>>
    /\ proc' = [proc EXCEPT !.pc = "discover",
                  !.queue = IF proc.failFast /\ proc.failed THEN {} ELSE @]
    /\ Works /\ UNCHANGED <<tree, outcome>>

\* computeSummary and the exit code of main.
Report ==
    /\ Checking("discover") /\ proc.queue = {}
    /\ proc' = Idle
    /\ outcome' = [script |-> "policy", exit |-> IF proc.bad THEN 1 ELSE 0,
                   names |-> proc.names]
    /\ Works /\ UNCHANGED tree

PolicyNext ==
    \/ \E names \in Selections, dirExists, fix, preview, failFast \in BOOLEAN :
         CheckPolicies(names, dirExists, fix, preview, failFast)
    \/ Discover \/ StartRule \/ EndRule \/ EndPolicy \/ Report
    \/ \E p \in Paths : SearchFails(p) \/ SearchClean(p) \/ SearchMatches(p) \/ RewriteFails(p)

-----------------------------------------------------------------------------
\* A check that exits with 0 leaves nothing behind that any rule of the policies
\* it was asked for would find, in any file the rule is for, whatever the fixes
\* of other rules did in the meantime; nor does it when it could not look
\* (policy-check.ts:852).
ZeroMeansClean ==
    proc = Idle /\ outcome.script = "policy" /\ outcome.exit = 0 =>
        \A i \in DOMAIN outcome.names :
            /\ outcome.names[i] \in DOMAIN Policies
            /\ LET d == Policies[outcome.names[i]] IN
               \A k \in DOMAIN d.rules :
                  \A p \in Examined(d, d.rules[k]) : d.rules[k].token \notin tree[p]
=============================================================================
