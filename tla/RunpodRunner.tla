---------------------------- MODULE RunpodRunner ----------------------------
(***************************************************************************)
(* RunpodRunner.run: one execution of the Run on Runpod node, against the  *)
(* provider and the ledger, with the detached keep-alive timers it leaves  *)
(* behind and everything else that can act on its pods meanwhile.          *)
(*                                                                         *)
(* ComfyUI executes prompts one at a time, so one run is active; routes,   *)
(* timers and the provider interleave with each of its steps.  A step is   *)
(* one API call or one transaction.  pc names the step that comes next.    *)
(***************************************************************************)
EXTENDS StateStore, Sequences

CONSTANTS
  Requests,         \* what a user may submit, see RequestType
  Public,           \* hashes whose resource has a public port to probe
  NeedsVolume,      \* hashes with a network volume given by size
  KeepAliveAction,  \* "stop" or "terminate"
  Outside           \* actions that reach a pod from outside the runner

Plans == {q.plan : q \in Requests}
AgentHashes == {q.plan[Len(q.plan)] : q \in Requests}

\* plan lists the own-pod dependencies and then the agent, every role once.
RequestType ==
  [mode : {"apply", "stop", "terminate"},
   reuse : {"reuse_matching", "always_create", "resume_stopped"},
   onError : {"stop_created", "terminate_created", "leave_running"},
   keep : {"manual", "time", "turns"},
   teardown : BOOLEAN,
   plan : Seq(Hashes)]

ASSUME RequestsAssumption ==
  /\ Requests # {}
  /\ Requests \subseteq RequestType
  /\ \A q \in Requests :
       /\ Len(q.plan) > 0
       /\ \A i, j \in 1..Len(q.plan) : q.plan[i] = q.plan[j] => i = j
ASSUME KeepAliveAssumption == KeepAliveAction \in {"stop", "terminate"}
ASSUME OutsideAssumption == Outside \subseteq LifecycleActions

VARIABLES
  pc,       \* the runner's next step
  run,      \* the run in progress, or the last one
  req,      \* its request
  idx,      \* position in the plan (_apply's loop)
  held,     \* created: the pod taken for each hash
  portsSeen,\* the pod dict in hand already shows runtime ports
  listing,  \* the answer of list_pods still to be recorded
  todo,     \* the rows that _lifecycle or _cleanup_created still visits
  timers,   \* detached keepalive_timer processes, <<run, pod>>
  volumes   \* network volumes created, <<run, hash>>

localVars == <<run, req, idx, held, portsSeen, listing, todo>>
otherVars == <<timers, volumes>>
vars == <<providerVars, storeVars, pc, localVars, otherVars>>

Steps == {"idle", "list", "reconcile", "lifecycle", "act", "volumes",
          "record", "lookup", "resume", "create", "bind", "wait",
          "schedule", "agent", "keepalive", "complete", "fail", "cleanup"}

NoRequest == CHOOSE q \in Requests : TRUE   \* req while no run is active
NothingListed == [p \in Pods |-> "ABSENT"]
NothingHeld == [h \in Hashes |-> NoPod]

Plan == req.plan
PlanHashes == {Plan[i] : i \in 1..Len(Plan)}
Hash == Plan[idx]
Agent == Plan[Len(Plan)]
IsLifecycle == req.mode \in {"stop", "terminate"}

TypeOK ==
  /\ ProviderTypeOK
  /\ StoreTypeOK
  /\ pc \in Steps
  /\ run \in 0..MaxRuns
  /\ req \in Requests
  /\ idx \in 1..Len(Plan)
  /\ held \in [Hashes -> Pods \cup {NoPod}]
  /\ portsSeen \in BOOLEAN
  /\ listing \in [Pods -> Known \cup {"ABSENT"}]
  /\ todo \subseteq Keys
  /\ timers \subseteq Runs \X Pods
  /\ volumes \subseteq Pods

Init ==
  /\ ProviderInit
  /\ StoreInit
  /\ pc = "idle"
  /\ run = 0
  /\ req = NoRequest
  /\ idx = 1
  /\ held = NothingHeld
  /\ portsSeen = FALSE
  /\ listing = NothingListed
  /\ todo = {}
  /\ timers = {}
  /\ volumes = {}

----------------------------------------------------------------------------
(* Control: run() and its exits. *)

Goto(step) == pc' = step /\ UNCHANGED localVars

\* run() returns or raises to its caller, or its process dies.
Leave ==
  /\ pc' = "idle"
  /\ idx' = 1
  /\ held' = NothingHeld
  /\ portsSeen' = FALSE
  /\ listing' = NothingListed
  /\ todo' = {}
  /\ req' = NoRequest
  /\ UNCHANGED run

\* validate, then Planner.build with a fresh run id.
Start ==
  /\ pc = "idle" /\ run < MaxRuns
  /\ pc' = "list"
  /\ run' = run + 1
  /\ req' \in Requests
  /\ UNCHANGED <<idx, held, portsSeen, listing, todo>>
  /\ UNCHANGED <<providerVars, storeVars, otherVars>>

\* Mutant of ListPods: only running pods are reconciled.
ListPodsRunningOnly ==
  /\ pc = "list"
  /\ pc' = "reconcile"
  /\ listing' = [p \in Pods |-> IF pods[p] = "RUNNING" THEN pods[p] ELSE "ABSENT"]
  /\ UNCHANGED <<run, req, idx, held, portsSeen, todo>>
  /\ UNCHANGED <<providerVars, storeVars, otherVars>>

\* reconcile_managed_pods runs before the try: its errors leave run() at
\* once, with no row in the runs table.
ListPods ==
  /\ pc = "list"
  /\ \/ /\ pc' = "reconcile"
        /\ listing' = [p \in Pods |-> IF pods[p] \in Known THEN pods[p] ELSE "ABSENT"]
        /\ UNCHANGED <<run, req, idx, held, portsSeen, todo>>
     \/ "error" \in Faults /\ Leave
  /\ UNCHANGED <<providerVars, storeVars, otherVars>>

RecordRemote(p) ==
  /\ pc = "reconcile" /\ listing[p] # "ABSENT"
  /\ Upsert(Remote(p), p, listing[p])
  /\ listing' = [listing EXCEPT ![p] = "ABSENT"]
  /\ UNCHANGED <<pc, run, req, idx, held, portsSeen, todo>>
  /\ UNCHANGED <<providerVars, otherVars>>

BeginWith(rows) ==
  /\ pc = "reconcile" /\ listing = NothingListed
  /\ RecordRun(run, "started")
  /\ pc' = IF IsLifecycle THEN "lifecycle" ELSE "volumes"
  /\ todo' = IF IsLifecycle THEN rows ELSE {}
  /\ UNCHANGED <<run, req, idx, held, portsSeen, listing>>
  /\ UNCHANGED <<providerVars, otherVars>>

\* Mutant of Begin: _lifecycle visits the rows that runs wrote, not the
\* reconciled ones.
BeginOwnRows ==
  BeginWith({k \in UNION {RowsNaming(h) : h \in PlanHashes} : k[1] = "own"})

\* Mutant of Begin: _lifecycle does not compare desired_hash.
BeginAllRows == BeginWith(UNION {RowsNaming(h) : h \in Hashes})

\* record_run(started), and for stop and terminate the rows _lifecycle will
\* visit: those of any run whose desired_hash is in the plan.
Begin == BeginWith(UNION {RowsNaming(h) : h \in PlanHashes})

Complete ==
  /\ pc = "complete"
  /\ RecordRun(run, "completed")
  /\ Leave
  /\ UNCHANGED <<providerVars, otherVars>>

\* except Exception: the run is failed, then _cleanup_created.
RecordFailure ==
  /\ pc = "fail"
  /\ RecordRun(run, "failed")
  /\ IF req.onError = "leave_running"
     THEN Leave
     ELSE /\ pc' = "cleanup"
          /\ todo' = RowsOfRun(run)
          /\ UNCHANGED <<run, req, idx, held, portsSeen, listing>>
  /\ UNCHANGED <<providerVars, otherVars>>

\* The ComfyUI process dies.  Detached timers and the ledger survive.
Crash ==
  /\ "crash" \in Faults /\ pc # "idle"
  /\ Leave
  /\ UNCHANGED <<providerVars, storeVars, otherVars>>

----------------------------------------------------------------------------
(* Stop, terminate and cleanup. *)

CleanupAction == IF req.onError = "terminate_created" THEN "terminate" ELSE "stop"

Visited == Newest(todo)
TeardownDue == req.teardown /\ HashOf(Visited) \in AgentHashes

\* _run_teardown_commands: needs the pod to answer over SSH.
Teardown ==
  /\ pc = "lifecycle" /\ todo # {} /\ TeardownDue
  /\ LET p == ledger[Visited].pod
     IN \/ p \in up /\ Goto("act")
        \/ (p \notin up \/ "error" \in Faults) /\ Goto("fail")
  /\ UNCHANGED <<providerVars, storeVars, otherVars>>

\* The stop or terminate call of one row and mark_resource_status; a call
\* that fails leaves the loop.
Act ==
  /\ todo # {}
  /\ pc = "act" \/ (pc = "lifecycle" /\ ~TeardownDue)
  /\ LET p == ledger[Visited].pod
     IN \/ /\ Execute(p, req.mode)
           /\ MarkResourceStatus(Visited, req.mode)
           /\ pc' = "lifecycle"
           /\ todo' = todo \ {Visited}
           /\ UNCHANGED <<run, req, idx, held, portsSeen, listing>>
        \/ /\ CallFails(p, req.mode)
           /\ Goto("fail")
           /\ UNCHANGED storeVars
  /\ UNCHANGED otherVars

\* The result is returned from inside the try: the run stays "started".
LifecycleDone ==
  /\ pc = "lifecycle" /\ todo = {}
  /\ Leave
  /\ UNCHANGED <<providerVars, storeVars, otherVars>>

CleanupRowWith(leftAfterFailure, failures) ==
  /\ pc = "cleanup" /\ todo # {}
  /\ LET p == ledger[Visited].pod
     IN \/ /\ Execute(p, CleanupAction)
           /\ todo' = todo \ {Visited}
           /\ UNCHANGED cleanupFailed
        \/ /\ CallFails(p, CleanupAction)
           /\ todo' = leftAfterFailure
           /\ cleanupFailed' = cleanupFailed \cup failures
  /\ UNCHANGED <<pc, run, req, idx, held, portsSeen, listing>>
  /\ UNCHANGED <<ledger, clock, runStatus, otherVars>>

\* Mutant of CleanupRow: the first call that fails ends the loop.
CleanupRowAborts == CleanupRowWith({}, {})

\* Mutant of CleanupRow: a call that fails is made again.
CleanupRowRetries == CleanupRowWith(todo, {Visited})

CleanupRow == CleanupRowWith(todo \ {Visited}, {Visited})

CleanupDone ==
  /\ pc = "cleanup" /\ todo = {}
  /\ Leave
  /\ UNCHANGED <<providerVars, storeVars, otherVars>>

----------------------------------------------------------------------------
(* _apply. *)

VolumesUpTo(n) == {<<run, Plan[i]>> : i \in {j \in 1..n : Plan[j] \in NeedsVolume}}

\* Mutant of CreateVolumes: an error ends the loop and not the run.
CreateVolumesTolerant ==
  /\ pc = "volumes"
  /\ \E n \in 0..Len(Plan) :
       /\ volumes' = volumes \cup VolumesUpTo(n)
       /\ n = Len(Plan) \/ "error" \in Faults
  /\ Goto("record")
  /\ UNCHANGED <<providerVars, storeVars, timers>>

\* _materialize_network_volumes: one volume for each resource that asks for
\* one by size, before any pod is looked up; an error stops part way.
CreateVolumes ==
  /\ pc = "volumes"
  /\ \E n \in 0..Len(Plan) :
       /\ volumes' = volumes \cup VolumesUpTo(n)
       /\ \/ n = Len(Plan) /\ Goto("record")
          \/ n < Len(Plan) /\ "error" \in Faults /\ Goto("fail")
  /\ UNCHANGED <<providerVars, storeVars, timers>>

\* Mutant of RecordPending: the resource is only recorded once it has a pod.
RecordPendingSkipped ==
  /\ pc = "record"
  /\ Goto("lookup")
  /\ UNCHANGED <<providerVars, storeVars, otherVars>>

\* Mutant of RecordPending: the row is written with the pod it expects to get.
RecordPendingWithPod ==
  /\ pc = "record"
  /\ Upsert(Own(run, Hash), <<run, Hash>>, "creating")
  /\ Goto("lookup")
  /\ UNCHANGED <<providerVars, otherVars>>

\* The row of the resource is written before its pod exists.
RecordPending ==
  /\ pc = "record"
  /\ Upsert(Own(run, Hash), NoPod, "creating")
  /\ Goto("lookup")
  /\ UNCHANGED <<providerVars, otherVars>>

Hold(p, seen) ==
  /\ held' = [held EXCEPT ![Hash] = p]
  /\ portsSeen' = seen
  /\ UNCHANGED <<run, req, idx, listing, todo>>

\* _matching_existing_resource, get_pod and the choice made from its answer.
\* An "error" here is also a template key that is not resolved.
Lookup ==
  /\ pc = "lookup"
  /\ LET match == IF req.reuse = "always_create" THEN {} ELSE RowsNaming(Hash)
         p == ledger[Newest(match)].pod
     IN \/ /\ match = {}
           /\ Goto("create")
        \/ /\ match # {} /\ pods[p] = "RUNNING" /\ req.reuse = "reuse_matching"
           /\ pc' = "bind"
           /\ Hold(p, p \in up)
        \/ /\ match # {} /\ pods[p] = "EXITED" /\ req.reuse = "resume_stopped"
           /\ pc' = "resume"
           /\ Hold(p, FALSE)
        \/ /\ match # {} /\ pods[p] \in Known
           /\ ~(pods[p] = "RUNNING" /\ req.reuse = "reuse_matching")
           /\ ~(pods[p] = "EXITED" /\ req.reuse = "resume_stopped")
           /\ Goto("create")
        \/ /\ match # {} /\ pods[p] = "PURGED"   \* None.get
           /\ Goto("fail")
        \/ "error" \in Faults /\ Goto("fail")
  /\ UNCHANGED <<providerVars, storeVars, otherVars>>

Resume ==
  /\ pc = "resume"
  /\ \/ Execute(held[Hash], "resume") /\ Goto("bind")
     \/ CallFails(held[Hash], "resume") /\ Goto("fail")
  /\ UNCHANGED <<storeVars, otherVars>>

Create ==
  /\ pc = "create"
  /\ \/ /\ Deploy(<<run, Hash>>)
        /\ pc' = "bind"
        /\ Hold(<<run, Hash>>, FALSE)
     \/ DeployFails(<<run, Hash>>) /\ Goto("fail")
  /\ UNCHANGED <<storeVars, otherVars>>

BindWith(p, next) ==
  /\ pc = "bind"
  /\ Upsert(Own(run, Hash), p, "RUNNING")
  /\ Goto(next)
  /\ UNCHANGED <<providerVars, otherVars>>

AfterBind == IF idx < Len(Plan) THEN "wait" ELSE "schedule"

\* Mutant of Bind: the agent is waited for like a dependency.
BindWaitsForAgent == BindWith(held[Hash], "wait")

\* Mutant of Bind: the pod is left out of the second record_resource.
BindWithoutPod == BindWith(NoPod, AfterBind)

\* record_resource again, with the pod.
Bind == BindWith(held[Hash], AfterBind)

\* Mutant of WaitReady: ports in the pod dict are enough for a public service.
WaitReadyWithoutProbe ==
  /\ pc = "wait"
  /\ pc' = "record"
  /\ idx' = idx + 1
  /\ UNCHANGED <<run, req, held, portsSeen, listing, todo>>
  /\ UNCHANGED <<providerVars, storeVars, otherVars>>

\* _wait_dependency_ready: a probe of the public endpoint, or ports in the
\* pod dict.  The deadline may pass while the service is not up.
WaitReady ==
  /\ pc = "wait"
  /\ \/ /\ held[Hash] \in up \/ (portsSeen /\ Hash \notin Public)
        /\ pc' = "record"
        /\ idx' = idx + 1
        /\ UNCHANGED <<run, req, held, portsSeen, listing, todo>>
     \/ /\ held[Hash] \notin up \/ "error" \in Faults
        /\ Goto("fail")
  /\ UNCHANGED <<providerVars, storeVars, otherVars>>

\* _schedule_time_keep_alive: a detached process that nothing cancels.
Schedule ==
  /\ pc = "schedule"
  /\ timers' = IF req.keep = "time" THEN timers \cup {<<run, held[Agent]>>} ELSE timers
  /\ Goto("agent")
  /\ UNCHANGED <<providerVars, storeVars, volumes>>

\* _wait_ssh_endpoint, _wait_ssh_ready and _run_agent_ssh_steps, all over SSH
\* to the agent pod; a command that fails raises.
RunAgent ==
  /\ pc = "agent"
  /\ \/ held[Agent] \in up /\ Goto("keepalive")
     \/ (held[Agent] \notin up \/ "error" \in Faults) /\ Goto("fail")
  /\ UNCHANGED <<providerVars, storeVars, otherVars>>

\* _enforce_response_keep_alive with a turn limit of one: the action is taken
\* if a response was collected, and an error of the call fails the run.
KeepAlive ==
  /\ pc = "keepalive"
  /\ \/ Goto("complete") /\ UNCHANGED providerVars
     \/ /\ req.keep = "turns"
        /\ \/ Execute(held[Agent], KeepAliveAction) /\ Goto("complete")
           \/ CallFails(held[Agent], KeepAliveAction) /\ Goto("fail")
  /\ UNCHANGED <<storeVars, otherVars>>

----------------------------------------------------------------------------
(* Around the runner. *)

\* Mutant of TimerFires: one attempt instead of five, so that one transient
\* error is enough for the timer to exit with the pod running.
TimerGivesUp(t) ==
  /\ t \in timers
  /\ Execute(t[2], KeepAliveAction) \/ UNCHANGED providerVars
  /\ timers' = timers \ {t}
  /\ UNCHANGED <<storeVars, pc, localVars, volumes>>

\* keepalive_timer: the delay ends, the action is taken or given up after its
\* attempts.
TimerFires(t) ==
  /\ t \in timers
  /\ Execute(t[2], KeepAliveAction) \/ CallFails(t[2], KeepAliveAction)
  /\ timers' = timers \ {t}
  /\ UNCHANGED <<storeVars, pc, localVars, volumes>>

\* The pod routes, the cleanup route and script, stopAfter, another process:
\* none of them writes the resources table.
OutsideAction(p, a) ==
  /\ a \in Outside
  /\ After(a, pods[p]) # pods[p]
  /\ Execute(p, a)
  /\ UNCHANGED <<storeVars, pc, localVars, otherVars>>

Provider(p) ==
  /\ ServiceUp(p) \/ Purge(p)
  /\ UNCHANGED <<storeVars, pc, localVars, otherVars>>

Step ==
  \/ ListPods \/ (\E p \in Pods : RecordRemote(p)) \/ Begin
  \/ Teardown \/ Act \/ LifecycleDone
  \/ CreateVolumes \/ RecordPending \/ Lookup \/ Resume \/ Create \/ Bind
  \/ WaitReady \/ Schedule \/ RunAgent \/ KeepAlive \/ Complete
  \/ RecordFailure \/ CleanupRow \/ CleanupDone

Next ==
  \/ Start
  \/ Step
  \/ Crash
  \/ \E t \in timers : TimerFires(t)
  \/ \E p \in Pods, a \in LifecycleActions : OutsideAction(p, a)
  \/ \E p \in Pods : Provider(p)

Spec == Init /\ [][Next]_vars

\* The runner is one thread that ComfyUI's executor keeps scheduled.
\* A timer is an operating system process of its own.
FairSpec ==
  /\ Spec
  /\ WF_vars(Step)
  /\ \A t \in Runs \X Pods : WF_vars(TimerFires(t))

----------------------------------------------------------------------------
(* Properties. *)

\* The ledger is written ahead of the provider: whatever happened between the
\* two calls, a pod that exists has the row its run wrote before creating it.
WriteAhead ==
  \A p \in Pods : pods[p] # "ABSENT" => Exists(Own(p[1], p[2]))

\* A pod id in the ledger is one that the provider gave out, for that hash.
LedgerNamesRealPods ==
  \A k \in Keys : HasPod(k) =>
    /\ pods[ledger[k].pod] # "ABSENT"
    /\ ledger[k].pod[2] = HashOf(k)
    /\ k[1] = "remote" => k = Remote(ledger[k].pod)

\* Reconciliation recovers what crashes and lost answers left behind: once a
\* run is past it, every live pod of an earlier run is in the ledger.
OrphansAdopted ==
  pc \notin {"idle", "list", "reconcile"} =>
    \A p \in Pods : pods[p] \in Known /\ p[1] # run =>
      \E k \in Keys : ledger[k].pod = p

\* With reuse_matching no hash ever has two running pods, in spite of crashes,
\* lost answers and pods stopped from outside (but not resumed from outside).
OneRunningPodPerHash ==
  (\A q \in Requests : q.reuse = "reuse_matching") /\ "resume" \notin Outside =>
    \A p, q \in Pods : p[2] = q[2] /\ pods[p] = "RUNNING" /\ pods[q] = "RUNNING" => p = q

\* While nothing else acts on pods, a resource is only asked for when every one
\* before it in the plan answers, and all of them do when the agent has started.
AgentAfterDependencies ==
  Outside = {} /\ (\A q \in Requests : q.keep # "time") /\ pc # "cleanup" =>
    \A i \in 1..Len(Plan) : i < idx \/ pc = "keepalive" => held[Plan[i]] \in up

\* A detached timer acts on the pod that the ledger holds for its run, also
\* after the process that started it is gone.
TimersAreLedgered ==
  \A t \in timers : ledger[Own(t[1], t[2][2])].pod = t[2]

\* A completed run left no resource behind: each row it wrote has its pod.
CompletedRunsAreWhole ==
  \A r \in Runs : runStatus[r] = "completed" =>
    \A h \in Hashes : Exists(Own(r, h)) => HasPod(Own(r, h))

\* _apply resolves network volumes before it creates pods: a pod that asks for
\* a volume by size exists only when its run has made the volume, however many
\* resources ask for one and wherever creating them fails.
VolumesComeFirst ==
  \A p \in Pods : pods[p] # "ABSENT" /\ p[2] \in NeedsVolume => p \in volumes

\* A stop or terminate run that returns has stopped every pod of the plan,
\* orphans included.
LifecycleLeavesNothingRunning ==
  [][LifecycleDone /\ "resume" \notin Outside =>
       \A p \in Pods : p[2] \in PlanHashes => pods[p] # "RUNNING"]_vars

\* A stop or terminate run leaves the pods of other deployments alone.
LifecycleKeepsToItsPlan ==
  [][Act => \A p \in Pods : p[2] \notin PlanHashes => pods'[p] = pods[p]]_vars

\* When a failed run has cleaned up, each pod in its rows is not running or
\* has an event that says why.
FailedRunsAreCleaned ==
  [][CleanupDone /\ "resume" \notin Outside =>
       \A k \in RowsOfRun(run) : pods[ledger[k].pod] = "RUNNING" => k \in cleanupFailed]_vars

\* Every run returns: each wait has a deadline and each loop visits a row once.
EveryRunReturns == []<>(pc = "idle")

\* A time policy ends the agent pod, if calls succeed and nobody resumes it:
\* also when ComfyUI dies after the timer was started.
KeepAliveTakesEffect ==
  \A p \in Pods : (\E r \in Runs : <<r, p>> \in timers) ~> (pods[p] # "RUNNING")

\* How far the ledger has come with a pod.
Stage(p) ==
  IF \E k \in Keys : ledger[k].pod = p THEN "tracked"
  ELSE IF pods[p] # "ABSENT" THEN "created"
  ELSE IF Exists(Own(p[1], p[2])) THEN "announced" ELSE "unknown"

Stages == [p \in Pods |-> Stage(p)]

\* The ledger accounts for every pod: see PodAccounting.
Accounting == INSTANCE PodAccounting WITH Pod <- Pods, account <- Stages

ImplementsAccounting == Accounting!Spec

============================================================================
