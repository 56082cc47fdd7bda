----------------------------- MODULE MCRequest -----------------------------
(***************************************************************************)
(* Configurations for the requests: open ones that deny, waive or limit,   *)
(* and one that admits nobody.                                             *)
(***************************************************************************)
EXTENDS Request

MCPolicies ==
    [admits : {TRUE}, verdict : {"deny", "dry_run", "rate_limit"}]
        \cup {[admits |-> FALSE, verdict |-> "pass"]}

=============================================================================
