--------------------------- MODULE MCRunpodRunner ---------------------------
(***************************************************************************)
(* Small instances of RunpodRunner: the requests that the runs of one TLC  *)
(* model may submit.                                                       *)
(***************************************************************************)
EXTENDS RunpodRunner

CONSTANTS db, agent, other   \* a database, the agent, another deployment's agent

Request(mode, reuse, onError, keep, teardown, plan) ==
  [mode |-> mode, reuse |-> reuse, onError |-> onError, keep |-> keep,
   teardown |-> teardown, plan |-> plan]

Apply(reuse, onError, keep, plan) == Request("apply", reuse, onError, keep, FALSE, plan)
Lifecycle(mode, teardown, plan) ==
  Request(mode, "reuse_matching", "stop_created", "manual", teardown, plan)

\* One agent, reused: many runs of few steps.
ReuseRequests ==
  {Apply("reuse_matching", "stop_created", "manual", <<agent>>)}
    \cup {Lifecycle(m, FALSE, <<agent>>) : m \in {"stop", "terminate"}}

\* A database and its agent with a time policy, reused or resumed, under both
\* clean-ups.
TimeRequests ==
  {Apply(r, e, "time", <<db, agent>>) :
     r \in {"reuse_matching", "resume_stopped"}, e \in {"stop_created", "terminate_created"}}
    \cup {Lifecycle(m, FALSE, <<db, agent>>) : m \in {"stop", "terminate"}}

\* A database and its agent under every policy.
PolicyRequests ==
  {Apply(r, e, k, <<db, agent>>) :
     r \in {"reuse_matching", "always_create", "resume_stopped"},
     e \in {"stop_created", "terminate_created", "leave_running"},
     k \in {"manual", "turns", "time"}}
    \cup {Lifecycle(m, t, <<db, agent>>) : m \in {"stop", "terminate"}, t \in BOOLEAN}

\* Every reuse policy and keep-alive, cleaning up by termination, and another
\* deployment in the same ledger.
KeepAliveRequests ==
  {q \in PolicyRequests : q.mode # "apply" \/ q.onError = "terminate_created"}
    \cup {Apply("reuse_matching", "leave_running", "manual", <<other>>), Lifecycle("stop", FALSE, <<other>>)}

\* Every reuse policy and clean-up, without keep-alive.
ManualRequests == {q \in PolicyRequests : q.keep = "manual"}

============================================================================
