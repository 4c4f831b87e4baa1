--------------------------- MODULE MCConversation ---------------------------
(* ConversationJobs for TLC: two requests that agree on the subject and may *)
(* differ in the mode.                                                      *)
EXTENDS ConversationJobs

CONSTANTS r1, r2, j1, j2, s1
MCContracts == [subject : {s1}, mode : {"free", "guided"}]
=============================================================================
