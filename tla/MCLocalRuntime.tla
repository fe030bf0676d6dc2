--------------------------- MODULE MCLocalRuntime ---------------------------
(***************************************************************************)
(* Small instances of LocalRuntime: the deployments and the requests that  *)
(* the runs of one TLC model may submit.                                   *)
(***************************************************************************)
EXTENDS LocalRuntime

Deployment(roles, keepsVolume, terminal, keep, action) ==
  [roles |-> roles, volume |-> keepsVolume, terminal |-> terminal, policy |-> "fail",
   keep |-> keep, action |-> action]

Solo == Deployment({"agent"}, FALSE, FALSE, "manual", "stop")
Timed == Deployment({"agent"}, FALSE, FALSE, "time", "stop")
Turns == Deployment({"agent"}, FALSE, FALSE, "turns", "terminate")
Pair == Deployment({"agent", "db"}, TRUE, FALSE, "manual", "stop")
Terminal == Deployment({"agent"}, FALSE, TRUE, "manual", "stop")

Request(action, reuse, prompt, deployment) ==
  [action |-> action, reuse |-> reuse, prompt |-> prompt, deployment |-> deployment]

LocalRequests ==
  {Request("apply", r, p, Solo) : r \in Reuse, p \in {1, 2}}
    \union {Request("apply", "reuse_matching", 1, d) : d \in {Timed, Turns, Pair}}
    \union {Request("apply", "resume_stopped", 1, Pair),
            Request("apply", "reuse_matching", 2, Timed),
            Request("build", "always_create", 1, Solo),
            Request("build", "always_create", 1, Terminal),
            Request("stop", "reuse_matching", 1, Solo),
            Request("terminate", "reuse_matching", 1, Pair),
            Request("plan", "reuse_matching", 1, Solo)}
=============================================================================
