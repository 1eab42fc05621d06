----------------------------- MODULE MCApiClient -----------------------------
EXTENDS ApiClient

MCEnvironments ==
    {[enabled |-> "unset", disabled |-> "unset"],
     [enabled |-> "unset", disabled |-> "true"]}
MCRequests == {"call", "query", "update"}
MCKindOf == [r \in MCRequests |-> IF r = "call" THEN "client" ELSE "db"]
=============================================================================
