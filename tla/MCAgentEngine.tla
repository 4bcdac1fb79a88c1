--------------------------- MODULE MCAgentEngine ---------------------------
(* Two tool calls, in one batch or in two: a batch that pauses half way, is *)
(* resumed and pauses again on a question, or a second batch after the      *)
(* first.  One stop and one failure fall at any point between two writes,   *)
(* and an approval or a clearing acts long after it has looked.             *)
EXTENDS AgentEngine

CONSTANTS ann, bob
=============================================================================
