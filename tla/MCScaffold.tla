----------------------------- MODULE MCScaffold -----------------------------
\* Two features: cli, whose template has no package.json, and webapp.  A
\* rename back and forth, one to names that are given twice, one that keeps the
\* title, changes the brand in it and names repository and binary, and bad options.
EXTENDS Scaffold

MCFeatures == {"cli", "webapp"}
MCTemplate == [f \in MCFeatures |->
                 IF f = "cli" THEN {"sources"} ELSE Parts]
MCWords == {"TypeScript", "Bun", "ts-bun", "@gobing", "https", "tbs", "API", "WebApp",
            "-starter", "@acme", "@", "shop", "Shop", "go", "Market", "Stall", "mall",
            "Mall", "forge", "stall"}
MCStarter ==
    [displayName |-> <<"TypeScript", "Bun">>, brandName |-> <<"Bun">>,
     projectSlug |-> <<"ts-bun">>, rootPackageName |-> <<"@gobing", "ts-bun">>,
     repositoryUrl |-> <<"https", "@gobing", "ts-bun">>,
     binaryName |-> <<"tbs">>, binaryLabel |-> <<"TypeScript", "Bun">>,
     apiTitle |-> <<"TypeScript", "Bun", "API">>,
     webDescription |-> <<"TypeScript", "Bun", "WebApp">>]

MCOptions ==
    {[valid |-> TRUE, skipCheck |-> FALSE, scope |-> <<"@acme">>,
      slug |-> <<"shop">>, title |-> <<"Shop">>, brand |-> <<"Shop">>,
      repoUrl |-> <<>>, bin |-> <<>>],
     [valid |-> TRUE, skipCheck |-> TRUE, scope |-> <<"@acme">>,
      slug |-> <<"go">>, title |-> <<"Market">>, brand |-> <<"Stall">>,
      repoUrl |-> <<>>, bin |-> <<>>],
     [valid |-> TRUE, skipCheck |-> TRUE, scope |-> <<"@acme">>,
      slug |-> <<"mall">>, title |-> <<"TypeScript", "Bun">>, brand |-> <<"Mall">>,
      repoUrl |-> <<"https", "forge", "mall">>, bin |-> <<"stall">>],
     [valid |-> FALSE, skipCheck |-> FALSE, scope |-> <<"@acme">>,
      slug |-> <<"@">>, title |-> <<"Shop">>, brand |-> <<"Shop">>,
      repoUrl |-> <<>>, bin |-> <<>>]}
MCShort == {"go"}

MCMentions ==
    [readme |-> [field |-> "displayName", place |-> "root"],
     source |-> [field |-> "projectSlug", place |-> "apps"],
     script |-> [field |-> "binaryName", place |-> "root"],
     task |-> [field |-> "displayName", place |-> "docs/tasks"]]
=============================================================================
