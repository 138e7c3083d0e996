--------------------------- MODULE MCAgentHandoff ---------------------------
(* Instances of AgentHandoff for TLC: the workflows of MCWorkflowRun, and  *)
(* answers of the model that fail one check each.                          *)
EXTENDS MCWorkflowRun, AgentHandoff

Good == [action |-> TRUE, complete |-> TRUE, unsafe |-> FALSE,
         refused |-> FALSE, risky |-> FALSE, confident |-> TRUE,
         stop |-> FALSE, found |-> {"result", "pay"}, verify |-> TRUE,
         change |-> TRUE, expected |-> AllPages]
ManyDecisions ==
    {Good,
     [Good EXCEPT !.verify = FALSE], [Good EXCEPT !.stop = TRUE],
     [Good EXCEPT !.action = FALSE], [Good EXCEPT !.complete = FALSE],
     [Good EXCEPT !.unsafe = TRUE], [Good EXCEPT !.refused = TRUE],
     [Good EXCEPT !.risky = TRUE], [Good EXCEPT !.confident = FALSE]}
=============================================================================
