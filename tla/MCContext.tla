----------------------------- MODULE MCContext -----------------------------
EXTENDS Context

\* What started() registers, and the starts there may be.
MCPlan(ts, c, n) == [tasks |-> ts, child |-> c, starts |-> n]

SmallPlans == {MCPlan({"interval_with"}, FALSE, 2),
               MCPlan({"interval", "delayed"}, FALSE, 2),
               MCPlan({"interval", "interval_with"}, FALSE, 2),
               MCPlan({"interval_with", "delayed"}, FALSE, 1),
               MCPlan({"delayed"}, TRUE, 2)}

RestartPlan == {MCPlan({"interval_with"}, FALSE, 2)}

=============================================================================
