--------------------------- MODULE MCAgentSession ---------------------------
(* A small script for AgentSession: every failure policy before the launch. *)
EXTENDS AgentSession

Cmd(policy, retries) == [kind |-> "command", policy |-> policy, retries |-> retries]

SetupCommands == <<Cmd("continue", 1), Cmd("retry", 1), Cmd("fail", 1)>>
CheckCommands == <<Cmd("fail", 0)>>
TeardownCommands == <<Cmd("retry", 1)>>

\* One command, for the runs that look at the wait.
OneCommand == <<Cmd("continue", 0)>>
NoCommands == <<>>

============================================================================
