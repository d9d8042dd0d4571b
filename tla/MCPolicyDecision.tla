--------------------------- MODULE MCPolicyDecision ---------------------------
(* Values for TLC: an element of each kind a decision or a join tells      *)
(* apart, two of them sharing an origin.                                   *)
EXTENDS PolicyDecision

MCElements ==
    {[provenance |-> "user", classification |-> "regulated", contentHash |-> "h1"],
     [provenance |-> "rag", classification |-> "public", contentHash |-> "h2"],
     [provenance |-> "rag", classification |-> "sensitive", contentHash |-> "h3"],
     [provenance |-> "external-channel", classification |-> "classified-adjacent",
      contentHash |-> "h4"]}
===============================================================================
