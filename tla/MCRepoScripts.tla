---------------------------- MODULE MCRepoScripts ----------------------------
\* Three files.  The policy names rewrites old to new; clean looks for new, runs
\* before it and has a command for a fix; future uses the engine sg; broken has
\* no replacement; the command of quote cannot be split.
EXTENDS RepoScripts

MCPaths == {"a", "b", "c"}
MCTokens == {"old", "new"}

ruleOf(engine, token, mode, command, replace, allow) ==
    [engine |-> engine, kind |-> engine, token |-> token, mode |-> mode,
     command |-> command, replace |-> replace, rewrites |-> {"old"}, allow |-> allow]

policyOf(rules) ==
    [targets |-> MCPaths, exclude |-> {"c"}, include |-> MCPaths, rules |-> rules]

MCPolicies ==
    [names |-> policyOf(<<ruleOf("rg", "old", "rewrite", "", "new", {"b"})>>),
     clean |-> policyOf(<<ruleOf("rg", "new", "command", "ok", "", {})>>),
     quote |-> policyOf(<<ruleOf("rg", "new", "command", "unterminated", "", {})>>),
     future |-> policyOf(<<ruleOf("sg", "old", "none", "", "", {})>>),
     broken |-> policyOf(<<ruleOf("rg", "old", "rewrite", "", "missing", {"b"})>>)]

MCSelections ==
    {<<"clean", "names">>, <<"broken", "quote">>, <<"future", "absent">>}

MCTrees == {[p \in {"a", "b"} |-> IF p = "a" THEN {"old"} ELSE {}]}
MCSources == {[p \in {"a", "b", "c"} |-> {"new"}]}
MCExcluded == {"c"}
=============================================================================
