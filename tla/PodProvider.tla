---------------------------- MODULE PodProvider ----------------------------
(***************************************************************************)
(* Runpod's pods, as runpod_client.py sees them.                           *)
(*                                                                         *)
(* A run of the runner creates at most one pod for each resource of its    *)
(* plan, so a pod is named by the run that created it and by the desired   *)
(* hash it was created for.  desiredStatus is reduced to the values that   *)
(* the callers tell apart; "ABSENT" is a pod not created yet and "PURGED"  *)
(* one that the provider no longer knows (get_pod answers null).           *)
(***************************************************************************)
EXTENDS Naturals

CONSTANTS
  MaxRuns,   \* bound: how many times Run on Runpod is executed
  Hashes,    \* the desired hashes of the resources that deployments contain
  NoPod,     \* "no pod id"
  Faults     \* which of "error", "lost", "crash" can happen

ASSUME MaxRunsAssumption == MaxRuns \in Nat \ {0}
ASSUME FaultsAssumption == Faults \subseteq {"error", "lost", "crash"}

Runs == 1..MaxRuns
Pods == Runs \X Hashes

ASSUME NoPodAssumption == NoPod \notin Pods

VARIABLES
  pods,      \* desiredStatus of every pod
  up         \* the pods whose container answers (ports, probe, SSH)

providerVars == <<pods, up>>

Known == {"RUNNING", "EXITED", "TERMINATED"}
PodStatus == Known \cup {"ABSENT", "PURGED"}
LifecycleActions == {"stop", "terminate", "resume"}

ProviderTypeOK ==
  /\ pods \in [Pods -> PodStatus]
  /\ up \subseteq Pods

ProviderInit ==
  /\ pods = [p \in Pods |-> "ABSENT"]
  /\ up = {}

(***************************************************************************)
(* podStop, podTerminate and podResume.  Accepts(a, s) says which calls    *)
(* the provider executes; a call it does not execute answers with errors,  *)
(* which _graphql turns into a RunpodClientError.                          *)
(***************************************************************************)
Accepts(a, s) ==
  IF a = "resume" THEN s \in {"RUNNING", "EXITED"} ELSE s \in Known

After(a, s) ==
  CASE a = "stop" /\ s = "RUNNING"                 -> "EXITED"
    [] a = "terminate" /\ s \in {"RUNNING", "EXITED"} -> "TERMINATED"
    [] a = "resume" /\ s = "EXITED"                -> "RUNNING"
    [] OTHER                                       -> s

Execute(p, a) ==
  /\ Accepts(a, pods[p])
  /\ pods' = [pods EXCEPT ![p] = After(a, pods[p])]
  /\ up' = IF After(a, pods[p]) = "RUNNING" THEN up ELSE up \ {p}

\* The call raises: refused, failed on the way, or executed with the answer
\* lost (a read timeout after the provider acted).
CallFails(p, a) ==
  \/ /\ "error" \in Faults \/ ~Accepts(a, pods[p])
     /\ UNCHANGED providerVars
  \/ /\ "lost" \in Faults
     /\ Execute(p, a)

\* podFindAndDeployOnDemand (or POST /pods): the pod exists and is wanted
\* running, its container is not up yet.
Deploy(p) ==
  /\ pods' = [pods EXCEPT ![p] = "RUNNING"]
  /\ UNCHANGED up

DeployFails(p) ==
  \/ /\ "error" \in Faults
     /\ UNCHANGED providerVars
  \/ /\ "lost" \in Faults
     /\ Deploy(p)

----------------------------------------------------------------------------
(* What the provider does on its own. *)

ServiceUp(p) ==
  /\ pods[p] = "RUNNING" /\ p \notin up
  /\ up' = up \cup {p}
  /\ UNCHANGED pods

Purge(p) ==
  /\ pods[p] = "TERMINATED"
  /\ pods' = [pods EXCEPT ![p] = "PURGED"]
  /\ UNCHANGED up

============================================================================
