----------------------------- MODULE MCPolicyEngine -----------------------------
(* Values of the constants of PolicyEngine for TLC. *)
EXTENDS PolicyEngine

\* One tool for each way through EvaluateToolCall, "query" with a limit of two.
AllTools == {"drop_table", "unlisted", "shell", "read", "query"}
DenyList == {"drop_table"}
AllowList == {"drop_table", "shell", "read", "query"}
Off == {"shell"}
WithLimit == {"query"}
TwoPerMinute == [tool \in WithLimit |-> 2]

===============================================================================
