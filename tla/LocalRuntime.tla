---------------------------- MODULE LocalRuntime ----------------------------
(***************************************************************************)
(* local_runtime.py from apply_compose_file on, with the two back ends of  *)
(* backends.py that call it (LocalContainerBackend, ContainerBuildBackend) *)
(* and the script that runs in the agent's container: one compose project  *)
(* to which one run after the other is applied.                            *)
(*                                                                         *)
(* A step is a call of the container engine with what the code does up to  *)
(* the next one.  Between two of them the containers go on: scripts,       *)
(* agents, and the timers that earlier runs have left behind.              *)
(*                                                                         *)
(* Services and containers are named after the workflow's graph, of which  *)
(* the action, the reuse policy and the prompt are inputs: a request is    *)
(* the token of its graph.  The desired hash is of the deployment, and of  *)
(* the graph too where there are services (module ComposeProject).         *)
(***************************************************************************)
EXTENDS Integers, FiniteSets

CONSTANTS
  Requests,    \* what may be run: see RequestsAssumption
  MaxRuns,     \* bound: runs
  MaxFaults,   \* bound: calls of the engine that fail
  MaxCrashes   \* bound: restarts of the server in the middle of a run

Roles == {"agent", "db"}
Actions == {"plan", "apply", "build", "stop", "terminate"}
Reuse == {"reuse_matching", "always_create", "resume_stopped"}

\* What a deployment decides: its services, a volume deleted with it, a web
\* terminal, the policy of its set-up command, keep-alive (time and turns
\* are those that the server enforces, with an action and a limit of 1).
Deployments ==
  [roles: {{"agent"}, Roles}, volume: BOOLEAN, terminal: BOOLEAN,
   policy: {"fail", "continue"}, keep: {"manual", "time", "turns"},
   action: {"stop", "terminate"}]

ASSUME RequestsAssumption ==
  /\ IsFiniteSet(Requests)
  /\ Requests \subseteq [action: Actions, reuse: Reuse, prompt: {1, 2},
                         deployment: Deployments]
ASSUME BoundsAssumption ==
  MaxRuns \in Nat /\ MaxFaults \in Nat /\ MaxCrashes \in Nat

VARIABLES
  containers,  \* of the project, running or not
  scripts,     \* run-agent.sh, once for every time it was started
  agents,      \* harnesses at work
  output,      \* response.txt: the run whose script launched its author, or 0
  volume,      \* the deployment's volume exists
  image,       \* what was committed
  timers,      \* lifecycle processes that sleep
  pidFile,     \* the run whose timer the pid file names, 0 without the file
  compose,     \* the request whose compose file was written last
  pc, run, req,
  target,      \* the container to execute the script in
  collected,   \* the response read in this run, 0 when none is
  code,        \* "ok", or "error" for any other return code
  seen,        \* what this run met: "blind" when a ps failed, "busy" when an
               \* earlier script was at work, "left" when a stop failed
  faults, crashes

engine == <<containers, scripts, agents>>
files == <<output, volume, image>>
keeper == <<timers, pidFile>>
local == <<target, collected, code, seen>>
bounds == <<faults, crashes>>
vars == <<engine, files, keeper, compose, pc, run, req, local, bounds>>

-----------------------------------------------------------------------------
HashOf(role, q) ==
  IF q.deployment.roles = {"agent"} THEN <<role, q.deployment>>
  ELSE <<role, q.deployment, q>>

Running(cs) == {c \in cs: c.up}
OfRole(cs, role) == {c \in cs: c.role = role}

\* Mutant of Matching: the hash is not compared.
MatchingRole(cs, role, q) == OfRole(cs, role)
\* find_local_runtime_container and find_local_runtime_project_container.
Matching(cs, role, q) == {c \in OfRole(cs, role): c.hash = HashOf(role, q)}

AllRunning(q) ==
  \A r \in q.deployment.roles: Matching(Running(containers), r, q) # {}
AllExist(q) == \A r \in q.deployment.roles: Matching(containers, r, q) # {}

TimePolicy(q) == q.deployment.keep = "time"
\* Mutant of ShouldWaitStartup: a terminal is no reason to wait.
ShouldWaitTimePolicy(q) == TimePolicy(q)
ShouldWaitStartup(q) == q.deployment.terminal \/ TimePolicy(q)

\* Mutant of Survive: scripts and agents outlive their container.
SurviveAll(procs, cs) == procs
\* A container that stops takes its processes with it.
Survive(procs, cs) == {p \in procs: \E c \in Running(cs): c.id = p.id}
SetContainers(cs) ==
  /\ containers' = cs
  /\ scripts' = Survive(scripts, cs)
  /\ agents' = Survive(agents, cs)
Stopped(cs) == (containers \ cs) \union {[c EXCEPT !.up = FALSE] : c \in cs}

Script(id, kind) == [id |-> id, run |-> run, kind |-> kind, at |-> "setup"]

Init ==
  /\ containers = {} /\ scripts = {} /\ agents = {}
  /\ output = 0 /\ volume = FALSE /\ image = "none"
  /\ timers = {} /\ pidFile = 0
  /\ req = (CHOOSE q \in Requests: TRUE) /\ compose = req /\ pc = "idle" /\ run = 0
  /\ target = <<>> /\ collected = 0 /\ code = "ok" /\ seen = {}
  /\ faults = 0 /\ crashes = 0

Goto(l) == pc' = l /\ UNCHANGED <<run, req, compose>>
End(c) == pc' = "done" /\ code' = c /\ UNCHANGED <<run, req, compose>>

\* A call that fails: any return code but zero, a timeout, no such program.
Fault == faults < MaxFaults /\ faults' = faults + 1 /\ UNCHANGED crashes
NoFault == UNCHANGED bounds

-----------------------------------------------------------------------------
(***************************************************************************)
(* apply_local_runtime_plan                                                *)
(***************************************************************************)
Begin ==
  /\ pc = "idle" /\ run < MaxRuns
  /\ req' \in Requests /\ compose' = req' /\ run' = run + 1
  /\ pc' = CASE req'.action \in {"stop", "terminate"} -> req'.action
             [] req'.action = "plan" -> "done"
             [] OTHER -> "clear"
  /\ target' = <<>> /\ collected' = 0 /\ code' = "ok" /\ seen' = {}
  /\ UNCHANGED <<engine, files, keeper, bounds>>

\* Mutant of Clear: the outputs of the run before are left.
ClearNothing ==
  /\ pc = "clear"
  /\ Goto(IF req.action = "build" \/ req.reuse = "always_create"
          THEN "reconcile" ELSE "match")
  /\ seen' = IF agents # {} \/ \E s \in scripts: s.at = "setup"
             THEN seen \union {"busy"} ELSE seen
  /\ UNCHANGED <<engine, files, keeper, target, collected, code, bounds>>
\* write_local_runtime_files, clear_local_runtime_agent_outputs.
Clear ==
  /\ pc = "clear"
  /\ Goto(IF req.action = "build" \/ req.reuse = "always_create"
          THEN "reconcile" ELSE "match")
  /\ output' = 0
  /\ seen' = IF agents # {} \/ \E s \in scripts: s.at = "setup"
             THEN seen \union {"busy"} ELSE seen
  /\ UNCHANGED <<engine, volume, image, keeper, target, collected, code, bounds>>

Candidates(q) == Matching(Running(containers), "agent", q)

ToExec ==
  \E c \in Candidates(req):
    /\ target' = c.id /\ Goto("exec")
    /\ UNCHANGED <<engine, files, keeper, collected, code, seen>>

\* A ps that fails looks like a project without containers.
Match ==
  /\ pc = "match"
  /\ \/ AllRunning(req) /\ NoFault /\ ToExec
     \/ /\ ~AllRunning(req) /\ NoFault
        /\ Goto(IF req.reuse = "resume_stopped" /\ AllExist(req)
                THEN "start" ELSE "reconcile")
        /\ UNCHANGED <<engine, files, keeper, local>>
     \/ /\ Fault /\ Goto("reconcile") /\ seen' = seen \union {"blind"}
        /\ UNCHANGED <<engine, files, keeper, target, collected, code>>

\* compose start: the services of the file just written, if they have been
\* created under this graph; the script of an agent that starts runs again.
Start ==
  /\ pc = "start"
  /\ LET mine == {c \in containers: c.graph = req /\ ~c.up}
     IN  \/ /\ mine # {} \/ \E c \in containers: c.graph = req
            /\ NoFault /\ Goto("find")
            /\ containers' = (containers \ mine)
                               \union {[c EXCEPT !.up = TRUE] : c \in mine}
            /\ scripts' = scripts \union
                 {Script(c.id, "main") : c \in OfRole(mine, "agent")}
            /\ UNCHANGED <<agents, code>>
         \/ /\ IF \E c \in containers: c.graph = req THEN Fault ELSE NoFault
            /\ End("error") /\ UNCHANGED engine
  /\ UNCHANGED <<files, keeper, target, collected, seen>>

FindStarted ==
  /\ pc = "find" /\ NoFault
  /\ \/ ToExec
     \/ /\ Candidates(req) = {} /\ Goto("reconcile")
        /\ UNCHANGED <<engine, files, keeper, local>>

\* exec_agent_in_local_container: run-agent.sh in the foreground.
Exec ==
  /\ pc = "exec"
  /\ \/ /\ \E c \in Running(containers): c.id = target
        /\ scripts' = scripts \union {Script(target, "exec")}
        /\ NoFault /\ Goto("executing")
        /\ UNCHANGED <<containers, agents, code>>
     \/ /\ \/ NoFault /\ ~\E c \in Running(containers): c.id = target
           \/ Fault
        /\ End("error") /\ UNCHANGED engine
  /\ UNCHANGED <<files, keeper, target, collected, seen>>

\* Mutant of Executing: the call has no timeout.
ExecutingToTheEnd ==
  /\ pc = "executing" /\ NoFault
  /\ ~\E s \in scripts: s.run = run /\ s.kind = "exec"
  /\ End("error")
  /\ UNCHANGED <<engine, files, keeper, target, collected, seen>>
\* The script sleeps when it is through: the call returns when it fails, when
\* its container stops, or when the timeout has passed; never with zero.
Executing ==
  /\ pc = "executing" /\ NoFault /\ End("error")
  /\ UNCHANGED <<engine, files, keeper, target, collected, seen>>

\* Mutant of Reconcile: what there is of the project is left.
ReconcileNothing ==
  /\ pc = "reconcile" /\ Goto("up")
  /\ UNCHANGED <<engine, files, keeper, local, bounds>>
\* reconcile_stale_local_runtime_project: down unless all of it runs.
Reconcile ==
  /\ pc = "reconcile"
  /\ \/ /\ NoFault /\ UNCHANGED seen
        /\ Goto(IF containers = {} \/ AllRunning(req) THEN "up" ELSE "down")
     \/ Fault /\ Goto("up") /\ seen' = seen \union {"blind"}
  /\ UNCHANGED <<engine, files, keeper, target, collected, code>>

Down ==
  /\ pc = "down"
  /\ \/ NoFault /\ SetContainers({}) /\ Goto("up") /\ UNCHANGED code
     \/ Fault /\ UNCHANGED engine /\ End("error")
  /\ UNCHANGED <<files, keeper, target, collected, seen>>

\* up -d: the agent is created anew, since its environment has the run's id;
\* a service that is there under its name is kept, and started.
Created(role) ==
  [role |-> role, graph |-> req, hash |-> HashOf(role, req),
   id |-> <<role, run>>, up |-> TRUE, logged |-> FALSE, built |-> FALSE]

Up ==
  /\ pc = "up"
  /\ \/ /\ NoFault
        /\ LET kept == {c \in containers: c.graph = req /\ c.role # "agent"}
               old == {c \in containers: c.graph = req /\ c.role = "agent"}
               new == {Created(r) : r \in {x \in req.deployment.roles:
                         x = "agent" \/ OfRole(kept, x) = {}}}
               cs == (containers \ (kept \union old)) \union new
                       \union {[c EXCEPT !.up = TRUE] : c \in kept}
           IN  /\ containers' = cs
               /\ scripts' = Survive(scripts, cs)
                               \union {Script(<<"agent", run>>, "main")}
               /\ agents' = Survive(agents, cs)
        /\ volume' = (volume \/ req.deployment.volume)
        /\ Goto(IF ShouldWaitStartup(req) THEN "startup" ELSE "keep")
        /\ UNCHANGED code
     \/ Fault /\ End("error") /\ UNCHANGED <<engine, volume>>
  /\ UNCHANGED <<output, image, keeper, target, collected, seen>>

\* wait_local_runtime_startup_complete: until the log of an agent with the
\* desired hash says so, or the timeout has passed.
AwaitStartup ==
  /\ pc = "startup"
  /\ \/ /\ \E c \in Candidates(req): c.logged
        /\ Goto("keep") /\ UNCHANGED code
     \/ End("error")
  /\ UNCHANGED <<engine, files, keeper, target, collected, seen, bounds>>

-----------------------------------------------------------------------------
(***************************************************************************)
(* The rest of the back ends: keep-alive, the response, the image.         *)
(***************************************************************************)
\* enforce_local_keep_alive(response_collected=False), or the commit.
KeepAlive ==
  /\ pc = "keep"
  /\ Goto(IF req.action = "build" THEN "commit"
          ELSE IF TimePolicy(req) THEN "cancel" ELSE "read")
  /\ UNCHANGED <<engine, files, keeper, local, bounds>>

\* Mutant of Cancel: the process of the run before is left.
CancelNothing ==
  /\ pc = "cancel" /\ Goto("spawn")
  /\ UNCHANGED <<engine, files, keeper, local, bounds>>
\* schedule_local_lifecycle: cancel, Popen, and the pid to the file.
Cancel ==
  /\ pc = "cancel" /\ Goto("spawn")
  /\ timers' = {t \in timers: t.run # pidFile}
  /\ pidFile' = 0
  /\ UNCHANGED <<engine, files, local, bounds>>

Spawn ==
  /\ pc = "spawn" /\ Goto("record")
  /\ timers' = timers \union {[run |-> run, action |-> req.deployment.action]}
  /\ UNCHANGED <<engine, files, pidFile, local, bounds>>

\* Mutant of Record: the timer of the pid file is ended after the write.
RecordThenCancel ==
  /\ pc = "record" /\ pidFile' = run
  /\ timers' = {t \in timers: t.run # run}
  /\ IF "read" \in seen THEN End("ok") /\ UNCHANGED seen
     ELSE Goto("read") /\ UNCHANGED <<code, seen>>
  /\ UNCHANGED <<engine, files, target, collected, bounds>>
Record ==
  /\ pc = "record" /\ pidFile' = run
  /\ IF "read" \in seen THEN End("ok") /\ UNCHANGED seen
     ELSE Goto("read") /\ UNCHANGED <<code, seen>>
  /\ UNCHANGED <<engine, files, timers, target, collected, bounds>>

\* read_local_runtime_file: response.txt with its completion marker; it gives
\* up when the agent's container has exited or the timeout has passed.  A ps,
\* cat or logs that times out raises, and nothing is enforced after it.
Read ==
  /\ pc = "read"
  /\ \/ /\ NoFault /\ seen' = seen \union {"read"}
        /\ collected' = IF output # 0 /\ OfRole(Running(containers), "agent") # {}
                        THEN output ELSE 0
        /\ IF TimePolicy(req) THEN Goto("cancel") /\ UNCHANGED code
           ELSE IF req.deployment.keep = "turns" /\ collected' # 0
                THEN Goto("turn") /\ UNCHANGED code
                ELSE End("ok")
     \/ Fault /\ End("error") /\ UNCHANGED <<collected, seen>>
  /\ UNCHANGED <<engine, files, keeper, target>>

ComposeLifecycle(action) ==
  IF action = "stop"
  THEN SetContainers(Stopped({c \in containers: c.graph = compose}))
  ELSE SetContainers({})

\* Mutant of Turn: the limit is compared one too low.
TurnNotYet ==
  /\ pc = "turn" /\ End("ok")
  /\ UNCHANGED <<engine, files, keeper, target, collected, seen, bounds>>
\* One turn is consumed: apply_compose_file at once.
Turn ==
  /\ pc = "turn"
  /\ \/ NoFault /\ ComposeLifecycle(req.deployment.action) /\ UNCHANGED seen
     \/ Fault /\ UNCHANGED engine /\ seen' = seen \union {"left"}
  /\ End("ok")
  /\ UNCHANGED <<files, keeper, target, collected>>

\* ContainerBuildBackend: find by role, commit_local_container_image.
Commit ==
  /\ pc = "commit"
  /\ LET found == OfRole(Running(containers), "agent")
     IN  \/ \E c \in found:
              /\ image' = IF c.built THEN "complete" ELSE "partial"
              /\ NoFault /\ End("ok")
         \/ found = {} /\ NoFault /\ End("error") /\ UNCHANGED image
         \/ Fault /\ End("error") /\ UNCHANGED image
  /\ UNCHANGED <<engine, output, volume, keeper, target, collected, seen>>
-----------------------------------------------------------------------------
(***************************************************************************)
(* Stop and terminate.                                                     *)
(***************************************************************************)
Stop ==
  /\ pc = "stop"
  /\ \/ NoFault /\ ComposeLifecycle("stop") /\ Goto("stop_rest") /\ UNCHANGED code
     \/ Fault /\ UNCHANGED engine /\ End("error")
  /\ UNCHANGED <<files, keeper, target, collected, seen>>

\* Mutant of StopRest: only the services of the compose file are stopped.
StopNoMore ==
  /\ pc = "stop_rest" /\ End("ok")
  /\ UNCHANGED <<engine, files, keeper, target, collected, seen, bounds>>
\* stop_local_runtime_project_containers: what else has the project's name.
StopRest ==
  /\ pc = "stop_rest"
  /\ \/ NoFault /\ SetContainers(Stopped(containers)) /\ End("ok") /\ UNCHANGED seen
     \/ /\ Fault /\ UNCHANGED engine
        /\ \/ End("error") /\ UNCHANGED seen
           \/ End("ok") /\ seen' = seen \union {"blind"}
  /\ UNCHANGED <<files, keeper, target, collected>>

Terminate ==
  /\ pc = "terminate"
  /\ \/ NoFault /\ ComposeLifecycle("terminate") /\ Goto("volumes") /\ UNCHANGED code
     \/ Fault /\ UNCHANGED engine /\ End("error")
  /\ UNCHANGED <<files, keeper, target, collected, seen>>

\* remove_local_retention_volumes; without the volume volume rm fails.
RemoveVolumes ==
  /\ pc = "volumes"
  /\ IF ~req.deployment.volume
     THEN End("ok") /\ UNCHANGED <<volume, bounds>>
     ELSE \/ volume /\ volume' = FALSE /\ NoFault /\ End("ok")
          \/ ~volume /\ UNCHANGED volume /\ NoFault /\ End("error")
          \/ Fault /\ UNCHANGED volume /\ End("error")
  /\ UNCHANGED <<engine, output, image, keeper, target, collected, seen>>

Return ==
  /\ pc = "done" /\ Goto("idle")
  /\ UNCHANGED <<engine, files, keeper, local, bounds>>

\* The server ends while a run is under way: what it has started goes on.
Crash ==
  /\ pc \notin {"idle", "done"} /\ crashes < MaxCrashes
  /\ crashes' = crashes + 1 /\ Goto("idle")
  /\ UNCHANGED <<engine, files, keeper, local, faults>>

-----------------------------------------------------------------------------
(***************************************************************************)
(* local-agent-run.sh.j2, the harness it launches, and the timers.         *)
(***************************************************************************)
others == <<keeper, compose, pc, run, req, local, bounds, volume, image>>

ContainerOf(p) == CHOOSE c \in containers: c.id = p.id

\* A command that fails ends the script (set -e), whatever its policy, and
\* with the main script its container.
ScriptFails(s) ==
  /\ s.at \in {"setup", "after"}
  /\ IF s.kind = "main" THEN SetContainers(Stopped({ContainerOf(s)}))
     ELSE scripts' = scripts \ {s} /\ UNCHANGED <<containers, agents>>
  /\ UNCHANGED <<output, others>>

\* The launch removes the outputs first.
ScriptLaunches(s) ==
  /\ s.at = "setup"
  /\ output' = 0
  /\ agents' = agents \union {[id |-> s.id, run |-> s.run]}
  /\ scripts' = (scripts \ {s}) \union {[s EXCEPT !.at = "after"]}
  /\ UNCHANGED <<containers, others>>

ScriptCompletes(s) ==
  /\ s.at = "after"
  /\ scripts' = (scripts \ {s}) \union {[s EXCEPT !.at = "asleep"]}
  /\ containers' = (containers \ {ContainerOf(s)}) \union
       {[ContainerOf(s) EXCEPT !.built = TRUE,
                               !.logged = @ \/ s.kind = "main"]}
  /\ UNCHANGED <<agents, output, others>>

AgentAnswers(a) ==
  /\ output' = a.run /\ agents' = agents \ {a}
  /\ UNCHANGED <<containers, scripts, others>>

\* sleep; compose stop or down, with the file as it then is.
TimerFires(t) ==
  /\ timers' = timers \ {t}
  /\ ComposeLifecycle(t.action)
  /\ UNCHANGED <<files, pidFile, compose, pc, run, req, local, bounds>>

Program ==
  \/ Begin \/ Clear \/ Match \/ Start \/ FindStarted \/ Exec \/ Executing
  \/ Reconcile \/ Down \/ Up \/ AwaitStartup \/ KeepAlive \/ Cancel \/ Spawn
  \/ Record \/ Read \/ Turn \/ Commit \/ Stop \/ StopRest \/ Terminate
  \/ RemoveVolumes \/ Return

Next ==
  \/ Program \/ Crash
  \/ \E s \in scripts: ScriptFails(s) \/ ScriptLaunches(s) \/ ScriptCompletes(s)
  \/ \E a \in agents: AgentAnswers(a)
  \/ \E t \in timers: TimerFires(t)

Spec == Init /\ [][Next]_vars

\* Calls return or time out, and a timer's sleep ends.
FairSpec ==
  /\ Spec /\ WF_vars(Program /\ pc # "idle")
  /\ WF_vars(\E t \in timers: TimerFires(t))

-----------------------------------------------------------------------------
Done(action) == pc = "done" /\ req.action = action /\ code = "ok"

(***************************************************************************)
(* Containers have one id each, processes a container that runs, and what  *)
(* is read and scheduled is of a run there has been.                       *)
(***************************************************************************)
LocalTypeOK ==
  /\ \A c, d \in containers: c.id = d.id => c = d
  /\ \A c \in containers: c.role \in c.graph.deployment.roles /\ c.id[2] \in 1..run
  /\ \A p \in scripts \union agents:
       p.run \in 1..run /\ \E c \in Running(containers): c.id = p.id
  /\ {output, collected, pidFile} \subseteq 0..run
  /\ \A t \in timers: t.run \in 1..run /\ t.action \in {"stop", "terminate"}
  /\ code \in {"ok", "error"} /\ image \in {"none", "partial", "complete"}
  /\ volume \in BOOLEAN /\ faults \in 0..MaxFaults /\ crashes \in 0..MaxCrashes

(***************************************************************************)
(* After a stop that returned zero nothing of the project runs, be it from *)
(* a graph the compose file no longer has, and after a terminate nothing   *)
(* is left, the volume of the deployment included.  (But a ps that fails   *)
(* shows no containers, and they go on running.)                           *)
(***************************************************************************)
LifecycleLeavesNothing ==
  /\ Done("stop") /\ "blind" \notin seen => Running(containers) = {}
  /\ Done("terminate") => containers = {} /\ (req.deployment.volume => ~volume)

(***************************************************************************)
(* A later apply runs its script in a container that was made for what it  *)
(* asks, the deployment's hash and its services being as desired.          *)
(***************************************************************************)
ReusedContainerMatches ==
  \A s \in scripts: s.kind = "exec" /\ s.run = run /\ pc = "executing" =>
    ContainerOf(s).hash = HashOf("agent", req)

(***************************************************************************)
(* An apply that returned zero has left one agent of the project running,  *)
(* unless it was asked always to create: then an agent that matched, but   *)
(* had been created for another prompt, is left to run beside it.          *)
(***************************************************************************)
OneAgentAfterApply ==
  Done("apply") /\ req.reuse # "always_create" /\ "blind" \notin seen =>
    Cardinality(OfRole(Running(containers), "agent")) <= 1

(***************************************************************************)
(* The response is the one that this run's agent has written, if nothing   *)
(* of an earlier run was at work when the outputs were cleared (an agent   *)
(* that was may write its response between that and its end).              *)
(***************************************************************************)
ResponseIsThisRuns ==
  pc = "done" /\ collected # 0 /\ "busy" \notin seen => collected = run

(***************************************************************************)
(* A run that has read its response under a limit of one turn leaves       *)
(* nothing of its own running, unless the call that stops it failed.       *)
(***************************************************************************)
TurnEndsTheProject ==
  Done("apply") /\ req.deployment.keep = "turns" /\ collected # 0
    /\ "left" \notin seen => ~\E c \in Running(containers): c.graph = req

(***************************************************************************)
(* At most one timer sleeps for the project, and the pid file is that      *)
(* timer's, so that the next can replace it.  (A server that ends between  *)
(* Popen and the write leaves a timer that nothing finds.)                 *)
(***************************************************************************)
OneTimer ==
  crashes = 0 /\ pc # "record" =>
    Cardinality(timers) <= 1 /\ \A t \in timers: t.run = pidFile

(***************************************************************************)
(* Where a build waits for the startup (a terminal, or a time policy) and  *)
(* no other agent of the project runs, it commits a container whose script *)
(* has come to its end.                                                    *)
(***************************************************************************)
AwaitedImageIsComplete ==
  Done("build") /\ (req.deployment.terminal \/ req.deployment.keep = "time")
    /\ Cardinality(OfRole(containers, "agent")) = 1 => image = "complete"

(***************************************************************************)
(* Every run comes to an end, for all that it waits for.                   *)
(***************************************************************************)
EveryRunReturns == pc # "idle" ~> pc = "idle"

(***************************************************************************)
(* After an apply under a time policy its containers stop some time, or    *)
(* another run has begun.                                                  *)
(***************************************************************************)
TimePolicyTakesEffect ==
  \A n \in 1..MaxRuns:
    run = n /\ Done("apply") /\ TimePolicy(req) ~>
      run > n \/ ~\E c \in Running(containers): c.graph = req

(***************************************************************************)
(* docs/user_guide.md: Build Container "waits for startup setup to finish, *)
(* and commits the resulting agent container".                             *)
(***************************************************************************)
BuildWaitsForSetup == Done("build") => image = "complete"

(***************************************************************************)
(* docs/user_guide.md: with reuse_matching "a later apply for the same     *)
(* deployment reuses the existing agent container [...] and a new apply    *)
(* refreshes that timer".                                                  *)
(***************************************************************************)
ReuseRefreshesTimer ==
  pc = "done" /\ req.action = "apply" /\ req.reuse = "reuse_matching"
    /\ TimePolicy(req) /\ timers # {}
    /\ (\E s \in scripts: s.run = run /\ s.kind = "exec") => pidFile = run
=============================================================================
