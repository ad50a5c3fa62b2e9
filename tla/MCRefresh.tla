----------------------------- MODULE MCRefresh -----------------------------
\* RefreshLifecycle with an expander whose organization has two repositories:
\* an expansion may find none of them, one (and a path Scope of an exact
\* selection beside it), or both.
EXTENDS RefreshLifecycle

MCRepositories == {"api", "web"}
MCSelections == {"empty", "one", "both"}
MCScopesOf == [s \in MCSelections |->
    CASE s = "empty" -> <<>>
      [] s = "one" -> <<"api">>
      [] s = "both" -> <<"api", "web">>]
MCPathSelections == {"one"}
MCDelays == {1, 3}
=============================================================================
