------------------------------ MODULE PodControl ------------------------------
(***************************************************************************)
(* Who acts on pods beside the runner: the pod and clean-up routes         *)
(* (routes.py), the clean-up script (cleanup.py) and the keep-alive        *)
(* processes (keepalive_timer.py), while a run makes pods and writes rows. *)
(*                                                                         *)
(* A route handler blocks the server's event loop, so that one route is    *)
(* served at a time; the executor's thread, the script and the timers run  *)
(* beside it.  A step is one API call or one transaction.                  *)
(***************************************************************************)
EXTENDS PodProvider

CONSTANTS
  Managed,    \* the hashes whose pods have a name that starts with crag-
  NoRun,      \* a clean-up without a run_id
  Attempts,   \* attempts of apply_runpod_lifecycle
  MaxSweeps,  \* bound: clean-ups
  MaxTimers,  \* bound: keep-alive processes started
  MaxFaults   \* bound: calls that fail though the pod is known

ASSUME ManagedAssumption == Managed \subseteq Hashes
ASSUME NoRunAssumption == NoRun \notin Runs
ASSUME AttemptsAssumption == Attempts \in Nat \ {0}
ASSUME ControlBoundsAssumption ==
  {MaxSweeps, MaxTimers, MaxFaults} \subseteq Nat

VARIABLES
  rows,       \* <<run, pod>>: a row of the run names the pod
  jobs,       \* the clean-up of the route and that of the script
  timers,     \* keep-alive processes: [pod, action, attempt]
  ended,      \* how those that are gone have ended: [pod, why]
  sweeps, started, faults   \* counters of the bounds

keeper == <<timers, ended, started>>
vars == <<providerVars, rows, jobs, sweeps, keeper, faults>>

Sweepers == {"route", "script"}
Ends == {"stop", "terminate"}

Idle == [pc |-> "idle", run |-> NoRun, action |-> "stop", stale |-> FALSE, ids |-> {},
         todo |-> {}, hit |-> {}, revived |-> {}]

\* ids is what the ledger has of the run, todo and hit what is left of the
\* list and what has been done, revived what was resumed since.
JobType ==
  [pc : {"idle", "list", "act", "done", "failed"}, run : Runs \union {NoRun},
   action : Ends, stale : BOOLEAN, ids : SUBSET Pods, todo : SUBSET Pods,
   hit : SUBSET Pods, revived : SUBSET Pods]

ControlTypeOK ==
  /\ ProviderTypeOK
  /\ rows \subseteq Runs \X Pods
  /\ jobs \in [Sweepers -> JobType]
  /\ timers \subseteq [pod : Pods, action : Ends, attempt : 1..Attempts]
  /\ ended \subseteq [pod : Pods, why : {"acted", "timeout", "exhausted"}]
  /\ sweeps \in Nat /\ started \in Nat /\ faults \in Nat

\* Pods that are not managed are the user's, and there from the start.
Init ==
  /\ pods = [p \in Pods |-> IF p[2] \in Managed THEN "ABSENT" ELSE "RUNNING"]
  /\ up = {} /\ rows = {} /\ jobs = [s \in Sweepers |-> Idle]
  /\ timers = {} /\ ended = {}
  /\ sweeps = 0 /\ started = 0 /\ faults = 0

\* What resume_pod, by its route or by a run, means to the clean-ups.
Revive(p, a) ==
  [s \in Sweepers |->
     IF a = "resume" THEN [jobs[s] EXCEPT !.revived = @ \union {p}] ELSE jobs[s]]

\* Nothing is under way on the event loop.
LoopFree == jobs["route"].pc = "idle"

Fails(p, a) ==
  /\ CallFails(p, a)
  /\ IF Accepts(a, pods[p]) THEN faults < MaxFaults /\ faults' = faults + 1
     ELSE UNCHANGED faults

-----------------------------------------------------------------------------
(* A run under way (module RunpodRunner has it whole): it deploys a pod,   *)
(* binds the pod to a row, its own or that of a later run that reuses it,  *)
(* resumes, stops and terminates pods, and starts a timer.                 *)

RunDeploys(p) ==
  /\ pods[p] = "ABSENT" /\ Deploy(p)
  /\ UNCHANGED <<rows, jobs, sweeps, keeper, faults>>

RunBinds(r, p) ==
  /\ pods[p] \in Known /\ p[2] \in Managed /\ p[1] <= r /\ <<r, p>> \notin rows
  /\ rows' = rows \union {<<r, p>>}
  /\ UNCHANGED <<providerVars, jobs, sweeps, keeper, faults>>

\* The resume of _reuse_or_create_pod under resume_stopped, and the stops and
\* terminations of _lifecycle, _cleanup_created and the keep-alive policy; on
\* the executor's thread, whatever the event loop does.  An error changes
\* nothing here, or is that of an answer lost.
RunCalls(p, a) ==
  /\ p[2] \in Managed /\ After(a, pods[p]) # pods[p] /\ Execute(p, a)
  /\ jobs' = Revive(p, a)
  /\ UNCHANGED <<rows, sweeps, keeper, faults>>

\* schedule_runpod_lifecycle.
Schedule(p, a) ==
  /\ started < MaxTimers /\ started' = started + 1
  /\ \E r \in Runs : <<r, p>> \in rows
  /\ timers' = timers \union {[pod |-> p, action |-> a, attempt |-> 1]}
  /\ UNCHANGED <<providerVars, rows, jobs, sweeps, ended, faults>>

-----------------------------------------------------------------------------
(* RouteHandlers.cleanup and cleanup_managed_pods.                          *)

\* Mutant of CleanupPodIds: a run without pods is taken for no run_id.
CleanupPodIdsOrAll(r) ==
  LET ids == {p \in Pods : <<r, p>> \in rows} IN IF ids = {} THEN Pods ELSE ids
\* _cleanup_pod_ids; Pods stands for no filter.
CleanupPodIds(r) ==
  IF r = NoRun THEN Pods ELSE {p \in Pods : <<r, p>> \in rows}

Begin(s) ==
  /\ jobs[s].pc = "idle" /\ sweeps < MaxSweeps /\ sweeps' = sweeps + 1
  /\ \E a \in Ends, r \in Runs \union {NoRun}, stale \in BOOLEAN :
       /\ s = "script" => r = NoRun /\ ~stale
       /\ jobs' = [jobs EXCEPT ![s] = [Idle EXCEPT
                     !.pc = "list", !.action = a, !.run = r, !.stale = stale,
                     !.ids = CleanupPodIds(r)]]
  /\ UNCHANGED <<providerVars, rows, keeper, faults>>

\* list_pods does not ask for uptimeInSeconds: zero is below every limit.
LongEnoughUp(job) == ~job.stale

\* list_pods, and what the loop's conditions leave of it; or it raises.
List(s) ==
  /\ jobs[s].pc = "list"
  /\ \/ /\ jobs' = [jobs EXCEPT ![s].pc = "act", ![s].todo =
                      {p \in jobs[s].ids : pods[p] \in Known /\ p[2] \in Managed
                                             /\ LongEnoughUp(jobs[s])}]
        /\ UNCHANGED faults
     \/ /\ "error" \in Faults /\ faults < MaxFaults /\ faults' = faults + 1
        /\ jobs' = [jobs EXCEPT ![s].pc = "failed"]
  /\ UNCHANGED <<providerVars, rows, sweeps, keeper>>

Affected(s, p) ==
  [jobs EXCEPT ![s].todo = @ \ {p}, ![s].hit = @ \union {p}, ![s].revived = @ \ {p}]

\* Mutant of Act: an error is passed over.
ActRegardless(s, p) ==
  /\ jobs[s].pc = "act" /\ p \in jobs[s].todo
  /\ \/ Execute(p, jobs[s].action) /\ UNCHANGED faults
     \/ Fails(p, jobs[s].action)
  /\ jobs' = Affected(s, p)
  /\ UNCHANGED <<rows, sweeps, keeper>>
\* The first call that raises ends the loop, and affected is lost.
Act(s, p) ==
  /\ jobs[s].pc = "act" /\ p \in jobs[s].todo
  /\ \/ Execute(p, jobs[s].action) /\ UNCHANGED faults /\ jobs' = Affected(s, p)
     \/ Fails(p, jobs[s].action) /\ jobs' = [jobs EXCEPT ![s].pc = "failed"]
  /\ UNCHANGED <<rows, sweeps, keeper>>

Done(s) ==
  /\ jobs[s].pc = "act" /\ jobs[s].todo = {}
  /\ jobs' = [jobs EXCEPT ![s].pc = "done"]
  /\ UNCHANGED <<providerVars, rows, sweeps, keeper, faults>>

Return(s) ==
  /\ jobs[s].pc \in {"done", "failed"}
  /\ jobs' = [jobs EXCEPT ![s] = Idle]
  /\ UNCHANGED <<providerVars, rows, sweeps, keeper, faults>>

\* stop_pod, resume_pod and terminate_pod, for the pods that resources lists.
\* An error changes nothing here, or is that of an answer lost.
PodRoute(p, a) ==
  /\ LoopFree /\ p[2] \in Managed /\ After(a, pods[p]) # pods[p] /\ Execute(p, a)
  /\ jobs' = Revive(p, a)
  /\ UNCHANGED <<rows, sweeps, keeper, faults>>

-----------------------------------------------------------------------------
(* apply_runpod_lifecycle.                                                  *)

Ended(t, why) ==
  /\ timers' = timers \ {t}
  /\ ended' = ended \union {[pod |-> t.pod, why |-> why]}

\* Mutant of Retry: range(1, attempts).
RetryOneLess(t) ==
  IF t.attempt + 1 < Attempts
  THEN timers' = (timers \ {t}) \union {[t EXCEPT !.attempt = @ + 1]} /\ UNCHANGED ended
  ELSE Ended(t, "exhausted")
Retry(t) ==
  IF t.attempt < Attempts
  THEN timers' = (timers \ {t}) \union {[t EXCEPT !.attempt = @ + 1]} /\ UNCHANGED ended
  ELSE Ended(t, "exhausted")

\* A RunpodClientError is tried again; a timeout while reading is a
\* TimeoutError, which nothing catches.
Attempt(t) ==
  /\ \/ Execute(t.pod, t.action) /\ UNCHANGED faults /\ Ended(t, "acted")
     \/ /\ Fails(t.pod, t.action)
        /\ Retry(t) \/ (faults' # faults /\ Ended(t, "timeout"))
  /\ UNCHANGED <<rows, jobs, sweeps, started>>

-----------------------------------------------------------------------------
Provider(p) == Purge(p) /\ UNCHANGED <<rows, jobs, sweeps, keeper, faults>>

Sweep(s) == List(s) \/ (\E p \in Pods : Act(s, p)) \/ Done(s) \/ Return(s)

Next ==
  \/ \E p \in Pods : RunDeploys(p) \/ Provider(p)
  \/ \E r \in Runs, p \in Pods : RunBinds(r, p)
  \/ \E p \in Pods, a \in Ends : Schedule(p, a)
  \/ \E s \in Sweepers : Begin(s) \/ Sweep(s)
  \/ \E p \in Pods, a \in LifecycleActions : RunCalls(p, a) \/ PodRoute(p, a)
  \/ \E t \in timers : Attempt(t)

Spec == Init /\ [][Next]_vars

-----------------------------------------------------------------------------
(***************************************************************************)
(* A clean-up that returns has reached every pod it listed: what it        *)
(* terminated is gone, and what it stopped does not run unless the route,  *)
(* or a run that reuses it, has resumed it after the stop.  (One that      *)
(* raises has left an unknown part of them.)                               *)
(***************************************************************************)
CleanupReachesItsPods ==
  \A s \in Sweepers : jobs[s].pc \in {"act", "done"} =>
    \A p \in jobs[s].hit :
      /\ pods[p] # "RUNNING" \/ p \in jobs[s].revived
      /\ jobs[s].action = "terminate" => pods[p] \in {"TERMINATED", "PURGED"}

(***************************************************************************)
(* A clean-up leaves alone what is not managed, and given a run_id all     *)
(* that no row of that run names, also when the run has no pod.            *)
(***************************************************************************)
CleanupKeepsToItsRun ==
  \A s \in Sweepers : \A p \in jobs[s].hit \union jobs[s].todo :
    p[2] \in Managed /\ (jobs[s].run # NoRun => <<jobs[s].run, p>> \in rows)

(***************************************************************************)
(* A keep-alive process gives up only after it has met as many errors as   *)
(* it has attempts, or because the pod is gone for good.  (A timeout ends  *)
(* it at once.)                                                            *)
(***************************************************************************)
TimerOutlastsErrors ==
  \A e \in ended : e.why = "exhausted" => faults >= Attempts \/ pods[e.pod] = "PURGED"
=============================================================================
