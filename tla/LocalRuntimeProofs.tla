------------------------- MODULE LocalRuntimeProofs -------------------------
(***************************************************************************)
(* Proofs about LocalRuntime, for any number of runs, of failing calls and *)
(* of restarts, and for any finite set of requests.                        *)
(*                                                                         *)
(* Only three calls of the engine set something going: compose start, exec *)
(* and compose up.  After any other step, of the program, of a container   *)
(* or of a timer, what there is of containers and of processes has been    *)
(* there before: Remain says this once, and each part of the invariant is  *)
(* looked at under Remain, under the three calls, and under a new run.     *)
(***************************************************************************)
EXTENDS LocalRuntime, FiniteSetTheorems, TLAPS

Fresh == {"clear", "match", "start", "find", "reconcile", "down", "up"}
UnderUp == {"startup", "keep", "read", "cancel", "spawn", "record", "turn", "commit"}
Applying == (Fresh \ {"clear"}) \union {"exec", "executing"} \union UnderUp
Points == Applying \union
  {"idle", "clear", "stop", "stop_rest", "terminate", "volumes", "done"}

\* What the program is about, at each of its points.
ControlOK ==
  /\ pc \in Points /\ run \in Nat /\ compose = req
  /\ pc # "idle" => req \in Requests /\ run # 0
  /\ pc \in {"stop", "stop_rest"} => req.action = "stop"
  /\ pc \in {"terminate", "volumes"} => req.action = "terminate"
  /\ pc \in Applying \union {"clear"} => req.action \in {"apply", "build"}
  /\ pc = "commit" => req.action = "build"
  /\ pc \in {"read", "cancel", "spawn", "record", "turn"} => req.action = "apply"
  /\ pc \in {"cancel", "spawn", "record"} => TimePolicy(req)
  /\ pc = "turn" => req.deployment.keep = "turns"

Hashes == {HashOf(r, q) : r \in Roles, q \in Requests}
Ids == Roles \X Nat
Containers ==
  [role: Roles, graph: Requests, hash: Hashes, id: Ids, up: BOOLEAN,
   logged: BOOLEAN, built: BOOLEAN]
Scripts ==
  [id: Ids, run: Nat, kind: {"main", "exec"}, at: {"setup", "after", "asleep"}]
Agents == [id: Ids, run: Nat]

Sound(c) ==
  c.role \in c.graph.deployment.roles /\ c.id[1] = c.role /\ (c.logged => c.built)
OneEach(cs) == \A c, d \in cs: c.id = d.id => c = d

\* Containers are named after the run that created them: the next has no
\* name yet that compose up would use again.
ContainersOK ==
  /\ containers \subseteq Containers /\ IsFiniteSet(containers) /\ OneEach(containers)
  /\ \A c \in containers: Sound(c) /\ c.id[2] \in 1..run
  /\ pc \in Fresh => \A c \in containers: c.id[2] # run

Lives(p) == \E c \in containers: c.up /\ c.id = p.id
ProcessesOK ==
  /\ scripts \subseteq Scripts /\ agents \subseteq Agents
  /\ \A p \in scripts \union agents: Lives(p) /\ p.run \in 1..run

FilesOK ==
  /\ {output, collected, pidFile} \subseteq 0..run
  /\ \A t \in timers: t.run \in 1..run /\ t.action \in {"stop", "terminate"}
  /\ code \in {"ok", "error"} /\ image \in {"none", "partial", "complete"}
  /\ volume \in BOOLEAN /\ faults \in 0..MaxFaults /\ crashes \in 0..MaxCrashes

\* A stop that has returned leaves nothing up, and so nothing that could
\* change a container; between down and volume rm nothing comes back.
LifecycleInv ==
  /\ Done("stop") /\ "blind" \notin seen => \A c \in containers: ~c.up
  /\ pc = "volumes" => containers = {}
  /\ Done("terminate") => containers = {} /\ (req.deployment.volume => ~volume)

\* The container to execute in keeps its hash, and a run executes once.
ReuseInv ==
  /\ pc \in {"exec", "executing"} =>
       \A c \in containers: c.id = target => c.hash = HashOf("agent", req)
  /\ pc \notin {"idle", "done"} =>
       \A s \in scripts: s.kind = "exec" /\ s.run = run =>
          pc = "executing" /\ s.id = target

\* Unless always_create skips the search, an apply that comes to compose up
\* has found some service missing, and then takes the project down.
Exclusive == req.action = "apply" /\ req.reuse # "always_create" /\ "blind" \notin seen
OneAgentInv ==
  Exclusive =>
    /\ pc = "reconcile" => ~AllRunning(req)
    /\ pc = "up" => containers = {}
    /\ pc \in UnderUp \/ (pc = "done" /\ code = "ok") =>
         \A c \in containers: c.id[2] = run

\* Where nothing was at work when the outputs were cleared, all that can
\* write one from then on is of this run.
ResponseInv ==
  "busy" \notin seen =>
    /\ pc # "idle" => collected \in {0, run}
    /\ pc \in Applying =>
         /\ output \in {0, run}
         /\ \A s \in scripts: s.at = "setup" => s.run = run
         /\ \A a \in agents: a.run = run

TurnInv ==
  Done("apply") /\ req.deployment.keep = "turns" /\ collected # 0
    /\ "left" \notin seen => \A c \in containers: c.up => c.graph # req

\* While the server has not ended between Popen and the write of the pid, the
\* timer that sleeps is the one that the next run will find.
TimerInv ==
  crashes = 0 =>
    /\ \A t, u \in timers: t = u
    /\ \A t \in timers: t.run = IF pc = "record" THEN run ELSE pidFile
    /\ pc = "spawn" => timers = {}

\* The awaited container stays complete until all are gone; if two of the
\* agents are there, the commit may have taken the other.
AgentIds == {c.id : c \in OfRole(containers, "agent")}
ImageInv ==
  ShouldWaitStartup(req) =>
    /\ pc \in {"keep", "commit"} =>
         containers = {} \/ \E c \in containers: c.role = "agent" /\ c.built
    /\ Done("build") =>
         image = "complete" \/ containers = {} \/ \E i, j \in AgentIds: i # j

LocalInv ==
  /\ ControlOK /\ ContainersOK /\ ProcessesOK /\ FilesOK /\ LifecycleInv /\ ReuseInv
  /\ OneAgentInv /\ ResponseInv /\ TurnInv /\ TimerInv /\ ImageInv

-----------------------------------------------------------------------------
(***************************************************************************)
(* Steps that set nothing going.                                           *)
(***************************************************************************)
\* d is what c has become: it may have stopped, or its script be through.
Becomes(c, d) ==
  /\ d.id = c.id /\ d.role = c.role /\ d.graph = c.graph /\ d.hash = c.hash
  /\ d.up => c.up
  /\ c.built => d.built
RemainContainers(cs) ==
  /\ cs \subseteq Containers /\ IsFiniteSet(cs) /\ OneEach(cs)
  /\ \A d \in cs: Sound(d) /\ \E c \in containers: Becomes(c, d)
  /\ cs = {} \/ \A c \in containers: \E d \in cs: Becomes(c, d)
RemainProcesses ==
  /\ scripts' \subseteq Scripts /\ agents' \subseteq Agents
  /\ \A p \in scripts' \union agents': Lives(p)'
  /\ \A s \in scripts': \E r \in scripts:
       /\ s.id = r.id /\ s.run = r.run /\ s.kind = r.kind
       /\ s.at = "setup" => r.at = "setup"
  /\ \A a \in agents': a \in agents \/ \E s \in scripts: s.at = "setup" /\ s.run = a.run
Remain == RemainContainers(containers') /\ RemainProcesses

EngineOK == ContainersOK /\ ProcessesOK

\* Starting or stopping a container changes nothing else of it.
LEMMA Switching ==
  ASSUME NEW c \in Containers, NEW b \in BOOLEAN
  PROVE  LET d == [c EXCEPT !.up = b]
         IN  /\ d \in Containers /\ d.up = b
             /\ d.id = c.id /\ d.role = c.role /\ d.graph = c.graph /\ d.hash = c.hash
             /\ d.logged = c.logged /\ d.built = c.built
BY DEF Containers

LEMMA UnchangedRemains ==
  ASSUME EngineOK, UNCHANGED engine
  PROVE  Remain
<1>1. RemainContainers(containers')
  BY DEF RemainContainers, EngineOK, ContainersOK, engine, Becomes
<1>2. RemainProcesses
  BY DEF RemainProcesses, EngineOK, ProcessesOK, engine, Lives
<1>. QED BY <1>1, <1>2 DEF Remain

\* A container that stops takes its processes with it.
LEMMA SetContainersRemains ==
  ASSUME EngineOK, NEW cs, RemainContainers(cs), SetContainers(cs)
  PROVE  Remain
<1>1. RemainProcesses
  <2>1. \A p \in scripts' \union agents': Lives(p)'
    BY DEF SetContainers, Survive, Running, Lives
  <2>2. scripts' \subseteq scripts /\ agents' \subseteq agents
    BY DEF SetContainers, Survive
  <2>. QED BY <2>1, <2>2 DEF RemainProcesses, EngineOK, ProcessesOK
<1>. QED BY <1>1 DEF Remain, SetContainers

LEMMA NoneRemain ==
  ASSUME EngineOK
  PROVE  RemainContainers({})
BY FS_EmptySet DEF RemainContainers, OneEach

LEMMA StoppedRemain ==
  ASSUME EngineOK, NEW S \in SUBSET containers
  PROVE  RemainContainers(Stopped(S))
<1>. DEFINE down(c) == [c EXCEPT !.up = FALSE]
            cs == Stopped(S)
<1>1. cs = (containers \ S) \union {down(c) : c \in S}
  BY DEF Stopped
<1>2. \A c \in S: /\ down(c) \in Containers /\ down(c).up = FALSE
                  /\ Becomes(c, down(c)) /\ down(c).id = c.id
                  /\ Sound(c) => Sound(down(c))
  <2>. SUFFICES ASSUME NEW c \in S
                PROVE  /\ down(c) \in Containers /\ down(c).up = FALSE
                       /\ Becomes(c, down(c)) /\ down(c).id = c.id
                       /\ Sound(c) => Sound(down(c))
    OBVIOUS
  <2>1. c \in Containers
    BY DEF EngineOK, ContainersOK
  <2>. QED BY <2>1, Switching DEF Becomes, Sound
<1>. HIDE DEF down, cs
<1>3. cs \subseteq Containers
  BY <1>1, <1>2 DEF EngineOK, ContainersOK
<1>4. IsFiniteSet(cs)
  <2>1. IsFiniteSet(S) /\ IsFiniteSet(containers \ S)
    BY FS_Subset DEF EngineOK, ContainersOK
  <2>2. IsFiniteSet({down(c) : c \in S})
    <3>. DEFINE f == [c \in S |-> down(c)]
    <3>1. f \in Surjection(S, {down(c) : c \in S})
      BY DEF Surjection
    <3>. QED BY <2>1, <3>1, FS_Surjection
  <2>. QED BY <1>1, <2>1, <2>2, FS_Union
<1>5. \A d \in cs: Sound(d) /\ \E c \in containers: Becomes(c, d)
  BY <1>1, <1>2 DEF EngineOK, ContainersOK, Becomes
<1>6. \A c \in containers: \E d \in cs: Becomes(c, d)
  BY <1>1, <1>2 DEF Becomes
<1>7. OneEach(cs)
  BY <1>1, <1>2 DEF EngineOK, ContainersOK, OneEach
<1>. QED BY <1>3, <1>4, <1>5, <1>6, <1>7 DEF RemainContainers, cs

LEMMA ContainerOfIsItsOwn ==
  ASSUME EngineOK, NEW p, Lives(p)
  PROVE  ContainerOf(p) \in containers /\ ContainerOf(p).id = p.id /\ ContainerOf(p).up
BY DEF ContainerOf, Lives, EngineOK, ContainersOK, OneEach

LEMMA LifecycleRemains ==
  ASSUME EngineOK, NEW action, ComposeLifecycle(action)
  PROVE  Remain
<1>. DEFINE S == {c \in containers: c.graph = compose}
<1>1. S \in SUBSET containers
  OBVIOUS
<1>2. RemainContainers(Stopped(S)) /\ RemainContainers({})
  BY <1>1, StoppedRemain, NoneRemain
<1>3. SetContainers(Stopped(S)) \/ SetContainers({})
  BY DEF ComposeLifecycle
<1>. QED BY <1>2, <1>3, SetContainersRemains

LEMMA StoppingRemains ==
  ASSUME EngineOK, NEW S \in SUBSET containers, SetContainers(Stopped(S))
  PROVE  Remain
BY StoppedRemain, SetContainersRemains

LEMMA FailureRemains ==
  ASSUME EngineOK, NEW s \in scripts, ScriptFails(s)
  PROVE  Remain
<1>1. CASE SetContainers(Stopped({ContainerOf(s)}))
  <2>1. {ContainerOf(s)} \in SUBSET containers
    BY ContainerOfIsItsOwn DEF EngineOK, ProcessesOK
  <2>. QED BY <1>1, <2>1, StoppingRemains
<1>2. CASE scripts' = scripts \ {s} /\ UNCHANGED <<containers, agents>>
  <2>1. RemainContainers(containers')
    BY <1>2 DEF RemainContainers, EngineOK, ContainersOK, Becomes
  <2>2. RemainProcesses
    BY <1>2 DEF RemainProcesses, EngineOK, ProcessesOK, Lives
  <2>. QED BY <2>1, <2>2 DEF Remain
<1>. QED BY <1>1, <1>2 DEF ScriptFails

LEMMA LaunchRemains ==
  ASSUME EngineOK, NEW s \in scripts, ScriptLaunches(s)
  PROVE  Remain
<1>1. RemainContainers(containers')
  BY DEF ScriptLaunches, RemainContainers, EngineOK, ContainersOK, Becomes
<1>2. RemainProcesses
  <2>. DEFINE r == [s EXCEPT !.at = "after"]
              a == [id |-> s.id, run |-> s.run]
  <2>1. s \in Scripts /\ Lives(s)
    BY DEF EngineOK, ProcessesOK
  <2>2. r \in Scripts /\ r.id = s.id /\ r.run = s.run /\ r.kind = s.kind /\ r.at = "after"
    BY <2>1 DEF Scripts
  <2>3. a \in Agents /\ a.id = s.id /\ a.run = s.run
    BY <2>1 DEF Scripts, Agents
  <2>4. /\ UNCHANGED containers /\ s.at = "setup"
        /\ scripts' = (scripts \ {s}) \union {r} /\ agents' = agents \union {a}
    BY DEF ScriptLaunches
  <2>. HIDE DEF r, a
  <2>5. Lives(r) /\ Lives(a)
    BY <2>1, <2>2, <2>3 DEF Lives
  <2>6. \A p: Lives(p)' <=> Lives(p)
    BY <2>4 DEF Lives
  <2>7. \A p \in scripts' \union agents': Lives(p)'
    BY <2>4, <2>5, <2>6 DEF EngineOK, ProcessesOK
  <2>8. \A x \in scripts': \E y \in scripts:
          /\ x.id = y.id /\ x.run = y.run /\ x.kind = y.kind
          /\ x.at = "setup" => y.at = "setup"
    BY <2>2, <2>4
  <2>9. \A x \in agents': x \in agents \/ \E y \in scripts: y.at = "setup" /\ y.run = x.run
    BY <2>3, <2>4
  <2>. QED BY <2>2, <2>3, <2>4, <2>7, <2>8, <2>9 DEF RemainProcesses, EngineOK, ProcessesOK
<1>. QED BY <1>1, <1>2 DEF Remain

LEMMA CompletionRemains ==
  ASSUME EngineOK, NEW s \in scripts, ScriptCompletes(s)
  PROVE  Remain
<1>. DEFINE c == ContainerOf(s)
            d == [c EXCEPT !.built = TRUE, !.logged = @ \/ s.kind = "main"]
            r == [s EXCEPT !.at = "asleep"]
<1>1. s \in Scripts /\ Lives(s) /\ s.run \in Nat
  BY DEF EngineOK, ProcessesOK, Scripts
<1>2. r \in Scripts /\ r.id = s.id /\ r.run = s.run /\ r.kind = s.kind /\ r.at = "asleep"
  BY <1>1 DEF Scripts
<1>3. c \in containers /\ c.id = s.id /\ c.up /\ c \in Containers
  BY <1>1, ContainerOfIsItsOwn DEF EngineOK, ContainersOK
<1>4. /\ d \in Containers /\ d.id = c.id /\ d.role = c.role /\ d.graph = c.graph
      /\ d.hash = c.hash /\ d.up = c.up /\ d.built = TRUE
  BY <1>3 DEF Containers
<1>5. /\ containers' = (containers \ {c}) \union {d} /\ agents' = agents
      /\ scripts' = (scripts \ {s}) \union {r}
  BY DEF ScriptCompletes
<1>. HIDE DEF c, d, r
<1>6. RemainContainers(containers')
  <2>1. containers' \subseteq Containers /\ IsFiniteSet(containers')
    BY <1>4, <1>5, FS_RemoveElement, FS_AddElement DEF EngineOK, ContainersOK
  <2>2. OneEach(containers')
    BY <1>3, <1>4, <1>5 DEF EngineOK, ContainersOK, OneEach
  <2>3. Becomes(c, d) /\ Sound(d)
    BY <1>3, <1>4 DEF Becomes, Sound, EngineOK, ContainersOK
  <2>4. \A x \in containers': Sound(x) /\ \E y \in containers: Becomes(y, x)
    BY <1>3, <1>5, <2>3 DEF Becomes, EngineOK, ContainersOK
  <2>5. \A y \in containers: \E x \in containers': Becomes(y, x)
    BY <1>3, <1>5, <2>3 DEF Becomes
  <2>. QED BY <2>1, <2>2, <2>4, <2>5 DEF RemainContainers
<1>7. RemainProcesses
  <2>1. \A p: Lives(p) => Lives(p)'
    BY <1>3, <1>4, <1>5 DEF Lives
  <2>2. Lives(r)
    BY <1>1, <1>2 DEF Lives
  <2>3. \A p \in scripts' \union agents': Lives(p)'
    BY <1>5, <2>1, <2>2 DEF EngineOK, ProcessesOK
  <2>4. \A x \in scripts': \E y \in scripts:
          /\ x.id = y.id /\ x.run = y.run /\ x.kind = y.kind
          /\ x.at = "setup" => y.at = "setup"
    BY <1>2, <1>5
  <2>. QED BY <1>2, <1>5, <2>3, <2>4 DEF RemainProcesses, EngineOK, ProcessesOK
<1>. QED BY <1>6, <1>7 DEF Remain

LEMMA AnswerRemains ==
  ASSUME EngineOK, NEW a \in agents, AgentAnswers(a)
  PROVE  Remain
<1>1. RemainContainers(containers')
  BY DEF AgentAnswers, RemainContainers, EngineOK, ContainersOK, Becomes
<1>2. RemainProcesses
  BY DEF AgentAnswers, RemainProcesses, EngineOK, ProcessesOK, Lives
<1>. QED BY <1>1, <1>2 DEF Remain
-----------------------------------------------------------------------------
(***************************************************************************)
(* The kinds of steps.                                                     *)
(***************************************************************************)
\* Scripts, agents and timers.
Outside ==
  \/ \E s \in scripts: ScriptFails(s) \/ ScriptLaunches(s) \/ ScriptCompletes(s)
  \/ \E a \in agents: AgentAnswers(a)
  \/ \E t \in timers: TimerFires(t)
\* Steps of the program that leave containers and processes alone.
Aside ==
  \/ Begin \/ Clear \/ Match \/ FindStarted \/ Executing \/ Reconcile \/ AwaitStartup
  \/ KeepAlive \/ Cancel \/ Spawn \/ Record \/ Read \/ Commit \/ RemoveVolumes
  \/ Return \/ Crash
\* Steps that take containers down, or fail.
Ending == Down \/ Turn \/ Stop \/ StopRest \/ Terminate

LEMMA KindsOfSteps ==
  [Next]_vars => Outside \/ Aside \/ Ending \/ Start \/ Exec \/ Up \/ UNCHANGED vars
BY DEF Next, Program, Outside, Aside, Ending

LEMMA OutsideRemains ==
  ASSUME EngineOK, Outside
  PROVE  /\ Remain /\ timers' \subseteq timers
         /\ UNCHANGED <<pc, run, req, compose, local, bounds, volume, image, pidFile>>
         /\ output' \in {0, output} \union {a.run : a \in agents}
<1>1. ASSUME NEW s \in scripts, ScriptFails(s) \/ ScriptLaunches(s) \/ ScriptCompletes(s)
      PROVE  Remain /\ UNCHANGED others /\ output' \in {0, output}
  BY <1>1, FailureRemains, LaunchRemains, CompletionRemains
  DEF ScriptFails, ScriptLaunches, ScriptCompletes
<1>2. ASSUME NEW a \in agents, AgentAnswers(a)
      PROVE  Remain /\ UNCHANGED others /\ output' = a.run
  BY <1>2, AnswerRemains DEF AgentAnswers
<1>3. ASSUME NEW t \in timers, TimerFires(t)
      PROVE  /\ Remain /\ timers' \subseteq timers
             /\ UNCHANGED <<pc, run, req, compose, local, bounds, files, pidFile>>
  BY <1>3, LifecycleRemains DEF TimerFires
<1>. QED BY <1>1, <1>2, <1>3 DEF Outside, others, keeper, files

LEMMA AsideRemains ==
  ASSUME EngineOK, Aside
  PROVE  Remain /\ UNCHANGED engine
<1>1. UNCHANGED engine
  BY DEF Aside, Begin, Clear, Match, ToExec, FindStarted, Executing, Reconcile,
     AwaitStartup, KeepAlive, Cancel, Spawn, Record, Read, Commit, RemoveVolumes,
     Return, Crash
<1>. QED BY <1>1, UnchangedRemains

LEMMA EndingRemains ==
  ASSUME EngineOK, Ending
  PROVE  Remain
<1>1. CASE UNCHANGED engine
  BY <1>1, UnchangedRemains
<1>2. CASE SetContainers({})
  BY <1>2, NoneRemain, SetContainersRemains
<1>3. CASE \E action: ComposeLifecycle(action)
  BY <1>3, LifecycleRemains
<1>4. CASE SetContainers(Stopped(containers))
  BY <1>4, StoppingRemains
<1>5. /\ Down => SetContainers({}) \/ UNCHANGED engine
      /\ Turn => ComposeLifecycle(req.deployment.action) \/ UNCHANGED engine
      /\ Stop => ComposeLifecycle("stop") \/ UNCHANGED engine
      /\ StopRest => SetContainers(Stopped(containers)) \/ UNCHANGED engine
      /\ Terminate => ComposeLifecycle("terminate") \/ UNCHANGED engine
  BY DEF Down, Turn, Stop, StopRest, Terminate
<1>. QED BY <1>1, <1>2, <1>3, <1>4, <1>5 DEF Ending

-----------------------------------------------------------------------------
(***************************************************************************)
(* Where the program is.                                                   *)
(***************************************************************************)
LEMMA RequestsAreTyped ==
  ASSUME NEW q \in Requests
  PROVE  /\ q.action \in Actions /\ q.reuse \in Reuse /\ q.deployment \in Deployments
         /\ "agent" \in q.deployment.roles /\ q.deployment.roles \subseteq Roles
         /\ q.deployment.keep \in {"manual", "time", "turns"}
         /\ q.deployment.action \in {"stop", "terminate"}
         /\ q.deployment.volume \in BOOLEAN
<1>1. q \in [action: Actions, reuse: Reuse, prompt: {1, 2}, deployment: Deployments]
  BY RequestsAssumption
<1>2. q.action \in Actions /\ q.reuse \in Reuse /\ q.deployment \in Deployments
  BY <1>1
<1>3. /\ q.deployment.roles \in {{"agent"}, Roles}
      /\ q.deployment.keep \in {"manual", "time", "turns"}
      /\ q.deployment.action \in {"stop", "terminate"}
      /\ q.deployment.volume \in BOOLEAN
  BY <1>2 DEF Deployments
<1>4. "agent" \in q.deployment.roles /\ q.deployment.roles \subseteq Roles
  BY <1>3 DEF Roles
<1>. QED BY <1>2, <1>3, <1>4

LEMMA ControlStep == ControlOK /\ [Next]_vars => ControlOK'
<1>. SUFFICES ASSUME ControlOK, [Next]_vars PROVE ControlOK'
  OBVIOUS
<1>. USE DEF ControlOK, Points, Applying, UnderUp, Fresh, Goto, End
<1>1. CASE Begin
  BY <1>1, RequestsAreTyped DEF Begin, Actions
<1>2. CASE Clear \/ Start \/ Exec \/ Executing \/ Reconcile \/ Down \/ Up \/ AwaitStartup
  BY <1>2 DEF Clear, Start, Exec, Executing, Reconcile, Down, Up, AwaitStartup
<1>3. CASE Match \/ FindStarted
  BY <1>3 DEF Match, FindStarted, ToExec
<1>4. CASE KeepAlive \/ Cancel \/ Spawn \/ Record \/ Read \/ Turn \/ Commit
  <2>1. CASE KeepAlive
    BY <2>1 DEF KeepAlive
  <2>2. CASE Cancel \/ Spawn
    BY <2>2 DEF Cancel, Spawn
  <2>3. CASE Record \/ Read
    BY <2>3 DEF Record, Read
  <2>4. CASE Turn \/ Commit
    BY <2>4 DEF Turn, Commit
  <2>. QED BY <1>4, <2>1, <2>2, <2>3, <2>4
<1>5. CASE Stop \/ StopRest \/ Terminate \/ RemoveVolumes \/ Return \/ Crash
  BY <1>5 DEF Stop, StopRest, Terminate, RemoveVolumes, Return, Crash
<1>6. CASE UNCHANGED <<pc, run, req, compose>>
  BY <1>6 DEF TimePolicy
<1>7. Outside => UNCHANGED <<pc, run, req, compose>>
  BY DEF Outside, ScriptFails, ScriptLaunches, ScriptCompletes, AgentAnswers, TimerFires,
     others
<1>8. UNCHANGED vars => UNCHANGED <<pc, run, req, compose>>
  BY DEF vars
<1>. QED BY <1>1, <1>2, <1>3, <1>4, <1>5, <1>6, <1>7, <1>8, KindsOfSteps DEF Aside, Ending
LEMMA RunGoesOn ==
  ASSUME ControlOK, [Next]_vars, ~Begin
  PROVE  UNCHANGED <<run, req, compose>> /\ (pc' \in Fresh => pc \in Fresh)
<1>. USE DEF Fresh, Goto, End
<1>1. CASE Clear \/ Start \/ Exec \/ Executing \/ Reconcile \/ Down \/ Up \/ AwaitStartup
  BY <1>1 DEF Clear, Start, Exec, Executing, Reconcile, Down, Up, AwaitStartup
<1>2. CASE Match \/ FindStarted
  BY <1>2 DEF Match, FindStarted, ToExec
<1>3. CASE KeepAlive \/ Cancel \/ Spawn \/ Record \/ Read \/ Turn \/ Commit
  BY <1>3 DEF KeepAlive, Cancel, Spawn, Record, Read, Turn, Commit
<1>4. CASE Stop \/ StopRest \/ Terminate \/ RemoveVolumes \/ Return \/ Crash
  BY <1>4 DEF Stop, StopRest, Terminate, RemoveVolumes, Return, Crash
<1>5. Outside => UNCHANGED <<pc, run, req, compose>>
  BY DEF Outside, ScriptFails, ScriptLaunches, ScriptCompletes, AgentAnswers, TimerFires,
     others
<1>6. UNCHANGED vars => UNCHANGED <<pc, run, req, compose>>
  BY DEF vars
<1>. QED BY <1>1, <1>2, <1>3, <1>4, <1>5, <1>6, KindsOfSteps DEF Aside, Ending

-----------------------------------------------------------------------------
(***************************************************************************)
(* Containers and their processes.                                         *)
(***************************************************************************)
LEMMA CreatedIsSound ==
  ASSUME ControlOK, pc # "idle", NEW r \in req.deployment.roles
  PROVE  /\ Created(r) \in Containers /\ Created(r).id = <<r, run>> /\ Created(r).up
         /\ Sound(Created(r)) /\ Created(r).role = r /\ r \in Roles
<1>1. r \in Roles /\ req \in Requests /\ run \in Nat
  BY RequestsAreTyped DEF ControlOK
<1>2. HashOf(r, req) \in Hashes /\ <<r, run>> \in Ids
  BY <1>1 DEF Hashes, Ids
<1>. QED BY <1>1, <1>2 DEF Created, Containers, Sound

LEMMA ScriptIsTyped ==
  ASSUME ControlOK, NEW id \in Ids, NEW kind \in {"main", "exec"}
  PROVE  /\ Script(id, kind) \in Scripts /\ Script(id, kind).id = id
         /\ Script(id, kind).run = run /\ Script(id, kind).kind = kind
BY DEF Script, Scripts, ControlOK

\* What a step that sets something going makes of the engine.
Going ==
  /\ containers' \subseteq Containers /\ IsFiniteSet(containers') /\ OneEach(containers')
  /\ \A d \in containers':
       Sound(d) /\ (d.id[2] = run \/ \E c \in containers: c.id = d.id)
  /\ scripts' \subseteq Scripts /\ agents' \subseteq agents
  /\ \A p \in scripts' \union agents': Lives(p)'
  /\ \A s \in scripts': s \in scripts \/ s.run = run

LEMMA StartGoes ==
  ASSUME ControlOK, EngineOK, Start
  PROVE  /\ Going /\ (pc \in Fresh => \A d \in containers': d.id[2] # run)
         /\ \A s \in scripts': s \in scripts \/ s.kind = "main"
<1>1. CASE UNCHANGED engine
  BY <1>1 DEF engine, Going, EngineOK, ContainersOK, ProcessesOK, Lives
<1>2. CASE ~UNCHANGED engine
  <2>. DEFINE mine == {c \in containers: c.graph = req /\ ~c.up}
              up(c) == [c EXCEPT !.up = TRUE]
              new == {Script(c.id, "main") : c \in OfRole(mine, "agent")}
  <2>1. /\ containers' = (containers \ mine) \union {up(c) : c \in mine}
        /\ scripts' = scripts \union new /\ agents' = agents
    BY <1>2 DEF Start
  <2>2. \A c \in mine: /\ c \in containers /\ c \in Containers /\ c.id \in Ids
                       /\ up(c) \in Containers /\ up(c).up = TRUE
                       /\ up(c).id = c.id /\ Sound(up(c))
    <3>. SUFFICES ASSUME NEW c \in mine
                  PROVE  /\ c \in containers /\ c \in Containers /\ c.id \in Ids
                         /\ up(c) \in Containers /\ up(c).up = TRUE
                         /\ up(c).id = c.id /\ Sound(up(c))
      OBVIOUS
    <3>1. c \in containers /\ c \in Containers /\ c.id \in Ids /\ Sound(c)
      BY DEF EngineOK, ContainersOK, Containers
    <3>. QED BY <3>1, Switching DEF Sound
  <2>3. \A s \in new: \E c \in mine: /\ s \in Scripts /\ s.id = c.id /\ s.run = run
                                     /\ s.kind = "main"
    <3>. SUFFICES ASSUME NEW s \in new
                  PROVE  \E c \in mine: /\ s \in Scripts /\ s.id = c.id /\ s.run = run
                                        /\ s.kind = "main"
      OBVIOUS
    <3>1. PICK c \in mine: s = Script(c.id, "main")
      BY DEF OfRole
    <3>2. c.id \in Ids
      BY <2>2
    <3>. QED BY <3>1, <3>2, ScriptIsTyped
  <2>. HIDE DEF up, new
  <2>4. IsFiniteSet(containers')
    <3>1. IsFiniteSet(mine) /\ IsFiniteSet(containers \ mine)
      BY FS_Subset DEF EngineOK, ContainersOK
    <3>. DEFINE f == [c \in mine |-> up(c)]
    <3>2. f \in Surjection(mine, {up(c) : c \in mine})
      BY DEF Surjection
    <3>3. IsFiniteSet({up(c) : c \in mine})
      BY <3>1, <3>2, FS_Surjection
    <3>. QED BY <2>1, <3>1, <3>3, FS_Union
  <2>5. containers' \subseteq Containers /\ OneEach(containers')
    BY <2>1, <2>2 DEF EngineOK, ContainersOK, OneEach
  <2>6. \A d \in containers': Sound(d) /\ \E c \in containers: c.id = d.id
    BY <2>1, <2>2 DEF EngineOK, ContainersOK
  <2>7. \A p: Lives(p) => Lives(p)'
    BY <2>1, <2>2 DEF Lives
  <2>8. \A s \in new: Lives(s)'
    BY <2>1, <2>2, <2>3 DEF Lives
  <2>9. \A p \in scripts' \union agents': Lives(p)'
    BY <2>1, <2>7, <2>8 DEF EngineOK, ProcessesOK
  <2>10. scripts' \subseteq Scripts /\ \A s \in scripts': s \in scripts \/ s.run = run
    BY <2>1, <2>3 DEF EngineOK, ProcessesOK
  <2>11. pc \in Fresh => \A d \in containers': d.id[2] # run
    BY <2>6 DEF EngineOK, ContainersOK
  <2>12. \A s \in scripts': s \in scripts \/ s.kind = "main"
    BY <2>1, <2>3
  <2>. QED BY <2>1, <2>4, <2>5, <2>6, <2>9, <2>10, <2>11, <2>12 DEF Going
<1>. QED BY <1>1, <1>2

LEMMA ExecGoes ==
  ASSUME ControlOK, EngineOK, Exec
  PROVE  /\ Going /\ UNCHANGED <<containers, agents>>
         /\ \A s \in scripts':
              s \in scripts \/ (s.id = target /\ pc' = "executing")
<1>1. CASE UNCHANGED engine
  BY <1>1 DEF engine, Going, EngineOK, ContainersOK, ProcessesOK, Lives
<1>2. CASE ~UNCHANGED engine
  <2>1. PICK c \in Running(containers): c.id = target
    BY <1>2 DEF Exec
  <2>2. c \in containers /\ c.up /\ target \in Ids
    BY <2>1 DEF Running, EngineOK, ContainersOK, Containers
  <2>. DEFINE new == Script(target, "exec")
  <2>3. /\ scripts' = scripts \union {new} /\ UNCHANGED <<containers, agents>>
        /\ pc' = "executing"
    BY <1>2 DEF Exec, Goto
  <2>4. new \in Scripts /\ new.id = target /\ new.run = run
    BY <2>2, ScriptIsTyped
  <2>. HIDE DEF new
  <2>5. \A p: Lives(p)' <=> Lives(p)
    BY <2>3 DEF Lives
  <2>6. Lives(new)
    BY <2>1, <2>2, <2>4 DEF Lives
  <2>7. \A p \in scripts' \union agents': Lives(p)'
    BY <2>3, <2>5, <2>6 DEF EngineOK, ProcessesOK
  <2>8. /\ containers' \subseteq Containers /\ IsFiniteSet(containers')
        /\ OneEach(containers')
        /\ \A d \in containers': Sound(d) /\ \E x \in containers: x.id = d.id
    BY <2>3 DEF EngineOK, ContainersOK
  <2>. QED BY <2>3, <2>4, <2>7, <2>8 DEF Going, EngineOK, ProcessesOK
<1>. QED BY <1>1, <1>2
\* Names are fresh: what compose up creates replaces nothing that it keeps.
LEMMA UpGoes ==
  ASSUME ControlOK, EngineOK, Up
  PROVE  /\ Going /\ pc' \notin Fresh
         /\ \A s \in scripts': s \in scripts \/ s.kind = "main"
<1>. /\ pc = "up" /\ req \in Requests /\ run \in Nat
     /\ \A c \in containers: c.id[2] # run
  BY DEF Up, ControlOK, EngineOK, ContainersOK, Fresh
<1>1. CASE UNCHANGED engine /\ End("error")
  BY <1>1 DEF engine, Going, EngineOK, ContainersOK, ProcessesOK, Lives, End, Fresh
<1>2. CASE ~(UNCHANGED engine /\ End("error"))
  <2>. DEFINE kept == {c \in containers: c.graph = req /\ c.role # "agent"}
              old == {c \in containers: c.graph = req /\ c.role = "agent"}
              missing == {x \in req.deployment.roles: x = "agent" \/ OfRole(kept, x) = {}}
              new == {Created(r) : r \in missing}
              up(c) == [c EXCEPT !.up = TRUE]
              cs == (containers \ (kept \union old)) \union new \union {up(c) : c \in kept}
              main == Script(<<"agent", run>>, "main")
  <2>1. /\ containers' = cs
        /\ scripts' = Survive(scripts, cs) \union {main}
        /\ agents' = Survive(agents, cs)
        /\ Goto(IF ShouldWaitStartup(req) THEN "startup" ELSE "keep")
    BY <1>2 DEF Up, engine
  <2>2. pc' \notin Fresh
    BY <2>1 DEF Goto, Fresh
  <2>3. \A r \in missing:
          /\ Created(r) \in Containers /\ Created(r).id = <<r, run>> /\ Created(r).up
          /\ Sound(Created(r)) /\ r \in Roles
    BY CreatedIsSound
  <2>4. \A c \in kept: /\ c \in containers /\ up(c) \in Containers /\ up(c).up = TRUE
                       /\ up(c).id = c.id /\ Sound(up(c))
    <3>. SUFFICES ASSUME NEW c \in kept
                  PROVE  /\ c \in containers /\ up(c) \in Containers /\ up(c).up = TRUE
                         /\ up(c).id = c.id /\ Sound(up(c))
      OBVIOUS
    <3>1. c \in containers /\ c \in Containers /\ Sound(c)
      BY DEF EngineOK, ContainersOK
    <3>. QED BY <3>1, Switching DEF Sound
  <2>5. "agent" \in missing /\ missing \subseteq Roles
    BY RequestsAreTyped
  <2>6. IsFiniteSet(missing)
    <3>1. Roles = ({} \union {"agent"}) \union {"db"}
      BY DEF Roles
    <3>2. IsFiniteSet(Roles)
      BY <3>1, FS_EmptySet, FS_AddElement
    <3>. QED BY <2>5, <3>2, FS_Subset
  <2>7. main \in Scripts /\ main.id = <<"agent", run>> /\ main.run = run
        /\ main.kind = "main"
    BY ScriptIsTyped DEF Ids, Roles
  <2>. HIDE DEF up, missing, main
  <2>8. IsFiniteSet(new)
    <3>. DEFINE f == [r \in missing |-> Created(r)]
    <3>1. f \in Surjection(missing, new)
      BY DEF Surjection
    <3>. QED BY <2>6, <3>1, FS_Surjection
  <2>9. IsFiniteSet({up(c) : c \in kept})
    <3>1. IsFiniteSet(kept)
      BY FS_Subset DEF EngineOK, ContainersOK
    <3>. DEFINE f == [c \in kept |-> up(c)]
    <3>2. f \in Surjection(kept, {up(c) : c \in kept})
      BY DEF Surjection
    <3>. QED BY <3>1, <3>2, FS_Surjection
  <2>10. IsFiniteSet(containers \ (kept \union old))
    BY FS_Subset DEF EngineOK, ContainersOK
  <2>11. IsFiniteSet(cs)
    <3>. HIDE DEF kept, old, new
    <3>1. IsFiniteSet((containers \ (kept \union old)) \union new)
      BY <2>8, <2>10, FS_Union
    <3>. QED BY <2>9, <3>1, FS_Union
  <2>12. \A d \in new: /\ d \in Containers /\ Sound(d) /\ d.id[2] = run
                       /\ \E r \in missing: d = Created(r) /\ d.id = <<r, run>>
    BY <2>3
  <2>13. Created("agent") \in new /\ Created("agent").up
         /\ Created("agent").id = <<"agent", run>>
    BY <2>3, <2>5
  <2>. HIDE DEF new
  <2>14. cs \subseteq Containers
    BY <2>4, <2>12 DEF EngineOK, ContainersOK
  <2>15. \A d \in cs: Sound(d) /\ (d.id[2] = run \/ \E c \in containers: c.id = d.id)
    BY <2>4, <2>12 DEF EngineOK, ContainersOK
  <2>16. OneEach(cs)
    <3>1. \A d \in cs: d \in new \/ (d \notin new /\ d.id[2] # run)
      BY <2>4, <2>12 DEF EngineOK, ContainersOK
    <3>2. \A d, e \in new: d.id = e.id => d = e
      BY <2>12
    <3>3. \A d, e \in cs: d \notin new /\ e \notin new /\ d.id = e.id => d = e
      BY <2>4 DEF EngineOK, ContainersOK, OneEach
    <3>. QED BY <2>12, <3>1, <3>2, <3>3 DEF OneEach
  <2>. HIDE DEF cs
  <2>17. /\ \A p \in Survive(scripts, cs) \union Survive(agents, cs): Lives(p)'
         /\ Survive(scripts, cs) \subseteq scripts /\ Survive(agents, cs) \subseteq agents
    BY <2>1 DEF Survive, Running, Lives
  <2>18. \E c \in containers': c.up /\ c.id = main.id
    BY <2>1, <2>7, <2>13 DEF cs
  <2>19. \A p \in scripts' \union agents': Lives(p)'
    BY <2>1, <2>17, <2>18 DEF Lives
  <2>. QED BY <2>1, <2>2, <2>7, <2>11, <2>14, <2>15, <2>16, <2>17, <2>19
       DEF Going, EngineOK, ProcessesOK
<1>. QED BY <1>1, <1>2

LEMMA EngineStep ==
  ASSUME ControlOK, EngineOK, [Next]_vars
  PROVE  EngineOK'
<1>1. CASE Begin
  <2>1. UNCHANGED engine /\ run' = run + 1 /\ run \in Nat
    BY <1>1 DEF Begin, ControlOK
  <2>2. \A n \in 1..run: n \in 1..run' /\ n # run'
    BY <2>1
  <2>3. ContainersOK'
    BY <2>1, <2>2 DEF EngineOK, ContainersOK, engine
  <2>4. ProcessesOK'
    BY <2>1, <2>2 DEF EngineOK, ProcessesOK, engine, Lives
  <2>. QED BY <2>3, <2>4 DEF EngineOK
<1>2. CASE ~Begin /\ Remain
  <2>1. UNCHANGED run /\ (pc' \in Fresh => pc \in Fresh)
    BY <1>2, RunGoesOn
  <2>2. ContainersOK'
    BY <1>2, <2>1 DEF EngineOK, ContainersOK, Remain, RemainContainers, Becomes
  <2>3. ProcessesOK'
    <3>1. /\ scripts' \subseteq Scripts /\ agents' \subseteq Agents
          /\ \A p \in scripts' \union agents': Lives(p)'
      BY <1>2 DEF Remain, RemainProcesses
    <3>2. \A p \in scripts' \union agents': p.run \in 1..run
      BY <1>2 DEF EngineOK, ProcessesOK, Remain, RemainProcesses
    <3>. QED BY <2>1, <3>1, <3>2 DEF ProcessesOK
  <2>. QED BY <2>2, <2>3 DEF EngineOK
<1>3. CASE Start \/ Exec \/ Up
  <2>1. Going /\ ~Begin /\ run # 0 /\ run \in Nat
    BY <1>3, StartGoes, ExecGoes, UpGoes DEF Start, Exec, Up, Begin, ControlOK
  <2>2. UNCHANGED run /\ (pc' \in Fresh => pc \in Fresh) /\ run \in 1..run
    BY <2>1, RunGoesOn
  <2>3. pc' \in Fresh => \A d \in containers': d.id[2] # run
    <3>1. CASE Start
      BY <2>2, <3>1, StartGoes
    <3>2. CASE Exec
      BY <3>2 DEF Exec, Goto, End, Fresh
    <3>3. CASE Up
      BY <3>3, UpGoes
    <3>. QED BY <1>3, <3>1, <3>2, <3>3
  <2>4. \A d \in containers': Sound(d) /\ d.id[2] \in 1..run
    BY <2>1, <2>2 DEF Going, EngineOK, ContainersOK
  <2>5. ContainersOK'
    BY <2>1, <2>2, <2>3, <2>4 DEF Going, ContainersOK
  <2>6. scripts' \subseteq Scripts /\ agents' \subseteq Agents
    BY <2>1 DEF Going, EngineOK, ProcessesOK
  <2>7. \A p \in scripts' \union agents': Lives(p)' /\ p.run \in 1..run
    BY <2>1, <2>2 DEF Going, EngineOK, ProcessesOK
  <2>. QED BY <2>2, <2>5, <2>6, <2>7 DEF EngineOK, ProcessesOK
<1>4. UNCHANGED vars => UNCHANGED engine
  BY DEF vars
<1>. QED BY <1>1, <1>2, <1>3, <1>4, KindsOfSteps, OutsideRemains, AsideRemains,
         EndingRemains, UnchangedRemains
-----------------------------------------------------------------------------
(***************************************************************************)
(* The other variables.                                                    *)
(***************************************************************************)
LEMMA OutsideLeaves ==
  ASSUME Outside
  PROVE  /\ timers' \subseteq timers /\ UNCHANGED <<code, image, volume, bounds, collected>>
         /\ UNCHANGED <<pidFile, pc, run, req, compose, target, seen>>
         /\ output' \in {0, output} \union {a.run : a \in agents}
BY DEF Outside, ScriptFails, ScriptLaunches, ScriptCompletes, AgentAnswers, TimerFires,
   others, keeper, local, files

LEMMA FilesStep ==
  ASSUME ControlOK, EngineOK, FilesOK, [Next]_vars
  PROVE  FilesOK'
<1>1. 0..run \subseteq 0..run' /\ 1..run \subseteq 1..run'
  BY RunGoesOn DEF Begin, ControlOK
<1>2. {output', collected', pidFile'} \subseteq 0..run'
  <2>. USE DEF FilesOK, ControlOK
  <2>1. CASE UNCHANGED <<output, collected, pidFile>>
    BY <1>1, <2>1
  <2>2. CASE Begin \/ Clear \/ Cancel
    BY <1>1, <2>2 DEF Begin, Clear, Cancel, local, files, keeper
  <2>3. CASE Record \/ Read
    BY <1>1, <2>3 DEF Record, Read, Goto, End, files, keeper
  <2>4. CASE Outside
    <3>1. \A a \in agents: a.run \in 0..run
      BY DEF EngineOK, ProcessesOK
    <3>. QED BY <1>1, <2>4, <3>1, OutsideLeaves
  <2>5. Match \/ Start \/ FindStarted \/ Exec \/ Executing \/ Reconcile \/ Down
          \/ Up \/ AwaitStartup \/ KeepAlive
        => UNCHANGED <<output, collected, pidFile>>
    BY DEF Match, Start, FindStarted, ToExec, Exec, Executing, Reconcile, Down, Up,
       AwaitStartup, KeepAlive, files, keeper, local
  <2>6. Spawn \/ Turn \/ Commit \/ Stop \/ StopRest \/ Terminate \/ RemoveVolumes
          \/ Return \/ Crash \/ UNCHANGED vars
        => UNCHANGED <<output, collected, pidFile>>
    BY DEF Spawn, Turn, Commit, Stop, StopRest, Terminate, RemoveVolumes, Return, Crash,
       files, keeper, local, vars
  <2>. QED BY <2>1, <2>2, <2>3, <2>4, <2>5, <2>6, KindsOfSteps DEF Aside, Ending
<1>3. \A t \in timers': t.run \in 1..run' /\ t.action \in {"stop", "terminate"}
  <2>1. CASE timers' \subseteq timers
    BY <1>1, <2>1 DEF FilesOK
  <2>2. CASE Spawn
    <3>1. req \in Requests /\ run \in 1..run /\ run' = run
      BY <2>2 DEF Spawn, Goto, ControlOK
    <3>2. timers' = timers \union {[run |-> run, action |-> req.deployment.action]}
      BY <2>2 DEF Spawn
    <3>. QED BY <3>1, <3>2, RequestsAreTyped DEF FilesOK
  <2>3. Begin \/ Clear \/ Match \/ Start \/ FindStarted \/ Exec \/ Executing \/ Reconcile
          \/ Down \/ Up \/ AwaitStartup \/ KeepAlive => timers' \subseteq timers
    BY DEF Begin, Clear, Match, Start, FindStarted, ToExec, Exec, Executing, Reconcile,
       Down, Up, AwaitStartup, KeepAlive, keeper
  <2>4. Cancel \/ Record \/ Read \/ Turn \/ Commit \/ Stop \/ StopRest \/ Terminate
          \/ RemoveVolumes \/ Return \/ Crash \/ UNCHANGED vars => timers' \subseteq timers
    BY DEF Cancel, Record, Read, Turn, Commit, Stop, StopRest, Terminate, RemoveVolumes,
       Return, Crash, keeper, vars
  <2>. QED BY <2>1, <2>2, <2>3, <2>4, KindsOfSteps, OutsideLeaves DEF Aside, Ending
<1>4. code' \in {"ok", "error"} /\ image' \in {"none", "partial", "complete"}
  <2>. USE DEF FilesOK
  <2>1. Begin \/ Clear \/ Match \/ FindStarted \/ Executing \/ Reconcile \/ AwaitStartup
          => code' \in {"ok", "error"} /\ image' = image
    BY DEF Begin, Clear, Match, FindStarted, ToExec, Executing, Reconcile, AwaitStartup,
       Goto, End, files, local
  <2>2. KeepAlive \/ Cancel \/ Spawn \/ Record \/ Read \/ RemoveVolumes \/ Return \/ Crash
          => code' \in {"ok", "error"} /\ image' = image
    BY DEF KeepAlive, Cancel, Spawn, Record, Read, RemoveVolumes, Return, Crash,
       Goto, End, files, local
  <2>3. Start \/ Exec \/ Up \/ Ending \/ UNCHANGED vars
          => code' \in {"ok", "error"} /\ image' = image
    BY DEF Start, Exec, Up, Ending, Down, Turn, Stop, StopRest, Terminate, Goto, End,
       files, local, vars
  <2>4. Commit => code' \in {"ok", "error"} /\ image' \in {image, "partial", "complete"}
    BY DEF Commit, End
  <2>. QED BY <2>1, <2>2, <2>3, <2>4, KindsOfSteps, OutsideLeaves DEF Aside
<1>5. volume' \in BOOLEAN
  <2>1. CASE volume' = volume
    BY <2>1 DEF FilesOK
  <2>2. Up => volume' = volume \/ volume' = (volume \/ req.deployment.volume)
    BY DEF Up
  <2>3. RemoveVolumes => volume' = volume \/ volume' = FALSE
    BY DEF RemoveVolumes
  <2>4. Begin \/ Clear \/ Match \/ FindStarted \/ Executing \/ Reconcile \/ AwaitStartup
          \/ KeepAlive \/ Cancel \/ Spawn \/ Record \/ Read \/ Commit \/ Return \/ Crash
        => volume' = volume
    BY DEF Begin, Clear, Match, FindStarted, ToExec, Executing, Reconcile, AwaitStartup,
       KeepAlive, Cancel, Spawn, Record, Read, Commit, Return, Crash, files
  <2>5. Start \/ Exec \/ Ending \/ UNCHANGED vars => volume' = volume
    BY DEF Start, Exec, Ending, Down, Turn, Stop, StopRest, Terminate, files, vars
  <2>. QED BY <2>1, <2>2, <2>3, <2>4, <2>5, KindsOfSteps, OutsideLeaves DEF Aside
<1>6. faults' \in 0..MaxFaults /\ crashes' \in 0..MaxCrashes
  <2>. USE DEF FilesOK, Fault, NoFault, bounds
  <2>1. CASE UNCHANGED bounds
    BY <2>1
  <2>2. CASE Fault
    BY <2>2, BoundsAssumption
  <2>3. Crash => faults' \in 0..MaxFaults /\ crashes' \in 0..MaxCrashes
    BY BoundsAssumption DEF Crash
  <2>4. Begin \/ Clear \/ Match \/ FindStarted \/ Executing \/ Reconcile \/ AwaitStartup
          \/ KeepAlive \/ Cancel \/ Spawn \/ Record \/ Read \/ Commit \/ RemoveVolumes
          \/ Return => Fault \/ UNCHANGED bounds
    BY DEF Begin, Clear, Match, FindStarted, Executing, Reconcile, AwaitStartup,
       KeepAlive, Cancel, Spawn, Record, Read, Commit, RemoveVolumes, Return
  <2>5. Start \/ Exec \/ Up \/ Ending \/ UNCHANGED vars => Fault \/ UNCHANGED bounds
    BY DEF Start, Exec, Up, Ending, Down, Turn, Stop, StopRest, Terminate, vars
  <2>. QED BY <2>1, <2>2, <2>3, <2>4, <2>5, KindsOfSteps, OutsideLeaves DEF Aside
<1>. QED BY <1>2, <1>3, <1>4, <1>5, <1>6 DEF FilesOK
-----------------------------------------------------------------------------
(***************************************************************************)
(* Which step leads to which point.                                        *)
(***************************************************************************)
Quiet == Outside \/ UNCHANGED vars

LEMMA QuietRemains ==
  ASSUME EngineOK, Quiet
  PROVE  /\ Remain /\ timers' \subseteq timers
         /\ UNCHANGED <<pc, run, req, compose, target, collected, code, seen>>
         /\ UNCHANGED <<crashes, volume, image, pidFile>>
         /\ output' \in {0, output} \union {a.run : a \in agents}
<1>1. CASE Outside
  BY <1>1, OutsideRemains DEF local, bounds
<1>2. CASE UNCHANGED vars
  BY <1>2, UnchangedRemains DEF vars, files, keeper, local, bounds
<1>. QED BY <1>1, <1>2 DEF Quiet

Arrivals ==
  /\ pc' = "clear" => Begin
  /\ pc' = "match" => Clear
  /\ pc' = "start" => Match
  /\ pc' = "find" => Start
  /\ pc' = "exec" => Match \/ FindStarted
  /\ pc' = "executing" => Exec
  /\ pc' = "reconcile" => Clear \/ Match \/ FindStarted
  /\ pc' = "down" => Reconcile
  /\ pc' = "up" => Reconcile \/ Down
  /\ pc' = "startup" => Up
  /\ pc' = "keep" => Up \/ AwaitStartup
  /\ pc' = "read" => KeepAlive \/ Record
  /\ pc' = "cancel" => KeepAlive \/ Read
  /\ pc' = "spawn" => Cancel
  /\ pc' = "record" => Spawn
  /\ pc' = "turn" => Read
  /\ pc' = "commit" => KeepAlive
  /\ pc' = "volumes" => Terminate
  /\ pc' = "done" /\ code' = "ok" =>
       \/ Begin /\ req'.action = "plan"
       \/ Record \/ Read \/ Turn \/ Commit \/ StopRest \/ RemoveVolumes

LEMMA StepsArrive ==
  ASSUME ControlOK, [Next]_vars, ~Quiet
  PROVE  Arrivals
<1>. USE DEF Arrivals, Goto, End
<1>1. CASE Begin
  BY <1>1, RequestsAreTyped DEF Begin, Actions
<1>2. CASE Clear \/ Start \/ Exec \/ Executing \/ Reconcile \/ Down \/ Up \/ AwaitStartup
  BY <1>2 DEF Clear, Start, Exec, Executing, Reconcile, Down, Up, AwaitStartup
<1>3. CASE Match \/ FindStarted
  BY <1>3 DEF Match, FindStarted, ToExec
<1>4. CASE KeepAlive \/ Cancel \/ Spawn
  BY <1>4 DEF KeepAlive, Cancel, Spawn
<1>5. CASE Record \/ Read \/ Turn \/ Commit
  BY <1>5 DEF Record, Read, Turn, Commit
<1>6. CASE Stop \/ StopRest \/ Terminate \/ RemoveVolumes \/ Return \/ Crash
  BY <1>6 DEF Stop, StopRest, Terminate, RemoveVolumes, Return, Crash
<1>. QED BY <1>1, <1>2, <1>3, <1>4, <1>5, <1>6, KindsOfSteps DEF Aside, Ending, Quiet

-----------------------------------------------------------------------------
(***************************************************************************)
(* Stop and terminate.                                                     *)
(***************************************************************************)
LEMMA StoppedAreDown == ASSUME NEW S, NEW c \in Stopped(S), S = containers, EngineOK
                        PROVE  ~c.up
<1>1. PICK d \in containers: c = [d EXCEPT !.up = FALSE]
  BY DEF Stopped
<1>2. d \in Containers
  BY DEF EngineOK, ContainersOK
<1>. QED BY <1>1, <1>2, Switching

LEMMA LifecycleStep ==
  ASSUME ControlOK, EngineOK, LifecycleInv, [Next]_vars
  PROVE  LifecycleInv'
<1>1. CASE Quiet
  <2>1. Remain /\ UNCHANGED <<pc, req, code, seen, volume>>
    BY <1>1, QuietRemains
  <2>2. /\ containers = {} => containers' = {}
        /\ (\A c \in containers: ~c.up) => \A c \in containers': ~c.up
    BY <2>1 DEF Remain, RemainContainers, Becomes
  <2>. QED BY <2>1, <2>2 DEF LifecycleInv, Done
<1>2. CASE ~Quiet
  <2>1. Arrivals
    BY <1>2, StepsArrive
  <2>2. pc' = "volumes" => containers' = {}
    <3>1. Terminate /\ pc' = "volumes" => SetContainers({})
      BY DEF Terminate, ComposeLifecycle, End
    <3>. QED BY <2>1, <3>1 DEF Arrivals, SetContainers
  <2>3. ASSUME pc' = "done", code' = "ok", req'.action = "stop", "blind" \notin seen'
        PROVE  \A c \in containers': ~c.up
    <3>1. StopRest
      BY <2>1, <2>3 DEF Arrivals, Record, Read, Turn, Commit, RemoveVolumes, ControlOK,
         Goto, End
    <3>2. containers' = Stopped(containers)
      BY <2>3, <3>1 DEF StopRest, End, SetContainers
    <3>. QED BY <3>2, StoppedAreDown
  <2>4. ASSUME pc' = "done", code' = "ok", req'.action = "terminate"
        PROVE  containers' = {} /\ (req'.deployment.volume => ~volume')
    <3>1. RemoveVolumes
      BY <2>1, <2>4 DEF Arrivals, Record, Read, Turn, Commit, StopRest, ControlOK,
         Goto, End
    <3>. QED BY <2>4, <3>1 DEF RemoveVolumes, LifecycleInv, End, engine
  <2>. QED BY <2>2, <2>3, <2>4 DEF LifecycleInv, Done
<1>. QED BY <1>1, <1>2

-----------------------------------------------------------------------------
(***************************************************************************)
(* The container that is executed in.                                      *)
(***************************************************************************)
LEMMA ReuseStep ==
  ASSUME ControlOK, EngineOK, ReuseInv, [Next]_vars
  PROVE  ReuseInv'
<1>1. CASE Quiet
  <2>1. Remain /\ UNCHANGED <<pc, run, req, target>>
    BY <1>1, QuietRemains
  <2>2. \A d \in containers': \E c \in containers: d.id = c.id /\ d.hash = c.hash
    BY <2>1 DEF Remain, RemainContainers, Becomes
  <2>3. \A s \in scripts': \E r \in scripts: s.id = r.id /\ s.run = r.run /\ s.kind = r.kind
    BY <2>1 DEF Remain, RemainProcesses
  <2>. QED BY <2>1, <2>2, <2>3 DEF ReuseInv
<1>2. CASE ~Quiet
  <2>1. Arrivals
    BY <1>2, StepsArrive
  <2>2. ASSUME pc' \in {"exec", "executing"}, NEW d \in containers', d.id = target'
        PROVE  d.hash = HashOf("agent", req')
    <3>1. CASE Match \/ FindStarted
      <4>1. ToExec /\ UNCHANGED containers
        BY <2>2, <3>1 DEF Match, FindStarted, Goto, ToExec, engine
      <4>2. PICK c \in Candidates(req): target' = c.id /\ req' = req
        BY <4>1 DEF ToExec, Goto
      <4>3. c \in containers /\ c.hash = HashOf("agent", req)
        BY <4>2 DEF Candidates, Matching, OfRole, Running
      <4>. QED BY <2>2, <4>1, <4>2, <4>3 DEF EngineOK, ContainersOK, OneEach
    <3>2. CASE Exec
      <4>1. UNCHANGED <<containers, target, req>> /\ pc = "exec"
        BY <3>2, ExecGoes DEF Exec, Goto, End
      <4>. QED BY <2>2, <4>1 DEF ReuseInv
    <3>. QED BY <2>1, <2>2, <3>1, <3>2 DEF Arrivals
  <2>3. ASSUME pc' \notin {"idle", "done"},
               NEW s \in scripts', s.kind = "exec", s.run = run'
        PROVE  pc' = "executing" /\ s.id = target'
    <3>1. CASE Begin
      <4>1. s \in scripts /\ run' = run + 1 /\ run \in Nat
        BY <3>1 DEF Begin, engine, ControlOK
      <4>. QED BY <2>3, <4>1 DEF EngineOK, ProcessesOK
    <3>2. CASE Exec
      <4>1. UNCHANGED <<run, target>> /\ pc = "exec"
        BY <3>2 DEF Exec, Goto, End
      <4>2. s \notin scripts
        BY <2>3, <4>1 DEF ReuseInv
      <4>. QED BY <3>2, <4>1, <4>2, ExecGoes
    <3>3. CASE Start \/ Up
      <4>1. s \in scripts /\ pc \in {"start", "up"} /\ run' = run
        BY <2>3, <3>3, StartGoes, UpGoes DEF Start, Up, Goto, End
      <4>. QED BY <2>3, <4>1 DEF ReuseInv
    <3>4. CASE ~Begin /\ Remain
      <4>1. run' = run
        BY <3>4, RunGoesOn
      <4>2. PICK r \in scripts: s.id = r.id /\ s.run = r.run /\ s.kind = r.kind
        BY <3>4 DEF Remain, RemainProcesses
      <4>3. pc \notin {"idle", "done"} => pc = "executing"
        BY <2>3, <4>1, <4>2 DEF ReuseInv
      <4>4. pc = "executing" => Executing \/ Crash
        BY <1>2, KindsOfSteps DEF Quiet, Aside, Ending, Begin, Clear, Match, FindStarted,
           Reconcile, AwaitStartup, KeepAlive, Cancel, Spawn, Record, Read, Commit,
           RemoveVolumes, Return, Down, Turn, Stop, StopRest, Terminate, Start, Exec, Up
      <4>5. pc \in {"idle", "done"} => Return
        BY <1>2, <3>4, KindsOfSteps DEF Quiet, Aside, Ending, Clear, Match, FindStarted,
           Executing, Reconcile, AwaitStartup, KeepAlive, Cancel, Spawn, Record, Read,
           Commit, RemoveVolumes, Crash, Down, Turn, Stop, StopRest, Terminate, Start,
           Exec, Up
      <4>. QED BY <2>3, <4>3, <4>4, <4>5 DEF Executing, Crash, Return, Goto, End
    <3>. QED BY <1>2, <3>1, <3>2, <3>3, <3>4, KindsOfSteps, AsideRemains, EndingRemains
         DEF Quiet
  <2>. QED BY <2>2, <2>3 DEF ReuseInv
<1>. QED BY <1>1, <1>2
-----------------------------------------------------------------------------
(***************************************************************************)
(* The one agent of an apply.                                              *)
(***************************************************************************)
LEMMA SeenGrows ==
  ASSUME [Next]_vars, ~Begin
  PROVE  seen \subseteq seen'
<1>1. CASE Clear \/ Start \/ Exec \/ Executing \/ Reconcile \/ Down \/ Up \/ AwaitStartup
  BY <1>1 DEF Clear, Start, Exec, Executing, Reconcile, Down, Up, AwaitStartup
<1>2. CASE Match \/ FindStarted
  BY <1>2 DEF Match, FindStarted, ToExec, local
<1>3. CASE KeepAlive \/ Cancel \/ Spawn \/ Record \/ Read \/ Turn \/ Commit
  BY <1>3 DEF KeepAlive, Cancel, Spawn, Record, Read, Turn, Commit, local
<1>4. CASE Stop \/ StopRest \/ Terminate \/ RemoveVolumes \/ Return \/ Crash
  BY <1>4 DEF Stop, StopRest, Terminate, RemoveVolumes, Return, Crash, local
<1>5. Outside => UNCHANGED seen
  BY OutsideLeaves
<1>6. UNCHANGED vars => UNCHANGED seen
  BY DEF vars, local
<1>. QED BY <1>1, <1>2, <1>3, <1>4, <1>5, <1>6, KindsOfSteps DEF Aside, Ending

LEMMA OneAgentStep ==
  ASSUME ControlOK, EngineOK, OneAgentInv, [Next]_vars
  PROVE  OneAgentInv'
<1>1. CASE Quiet
  <2>1. Remain /\ UNCHANGED <<pc, run, req, code, seen>>
    BY <1>1, QuietRemains
  <2>2. \A d \in containers': \E c \in containers:
          /\ d.id = c.id /\ d.role = c.role /\ d.hash = c.hash /\ (d.up => c.up)
    BY <2>1 DEF Remain, RemainContainers, Becomes
  <2>3. AllRunning(req)' => AllRunning(req)
    BY <2>1, <2>2 DEF AllRunning, Matching, OfRole, Running
  <2>4. containers = {} => containers' = {}
    BY <2>2
  <2>. QED BY <2>1, <2>2, <2>3, <2>4 DEF OneAgentInv, Exclusive
<1>2. CASE Begin
  <2>1. /\ pc' \notin UnderUp \union {"reconcile", "up"}
        /\ pc' = "done" => req'.action = "plan"
    BY <1>2, RequestsAreTyped DEF Begin, Actions, UnderUp
  <2>. QED BY <2>1 DEF OneAgentInv, Exclusive
<1>3. CASE ~Quiet /\ ~Begin
  <2>1. Arrivals /\ UNCHANGED <<run, req>> /\ seen \subseteq seen'
    BY <1>3, StepsArrive, RunGoesOn, SeenGrows
  <2>. SUFFICES ASSUME Exclusive' PROVE
         /\ pc' = "reconcile" => ~AllRunning(req)'
         /\ pc' = "up" => containers' = {}
         /\ pc' \in UnderUp \/ (pc' = "done" /\ code' = "ok") =>
              \A d \in containers': d.id[2] = run
    BY <2>1 DEF OneAgentInv
  <2>2. Exclusive
    BY <2>1 DEF Exclusive
  <2>3. ASSUME pc' = "reconcile" PROVE ~AllRunning(req)'
    <3>1. UNCHANGED containers
      BY <2>1, <2>3, AsideRemains DEF Arrivals, Aside, engine
    <3>2. ~AllRunning(req)
      <4>1. CASE Clear
        BY <2>2, <2>3, <4>1 DEF Clear, Goto, Exclusive
      <4>2. CASE Match
        BY <2>3, <4>2, <2>1 DEF Match, ToExec, Goto, Exclusive
      <4>3. CASE FindStarted
        <5>1. Candidates(req) = {} /\ "agent" \in req.deployment.roles
          BY <2>3, <4>3, RequestsAreTyped DEF FindStarted, ToExec, Goto, ControlOK
        <5>. QED BY <5>1 DEF AllRunning, Candidates
      <4>. QED BY <2>1, <2>3, <4>1, <4>2, <4>3 DEF Arrivals
    <3>. QED BY <2>1, <3>1, <3>2 DEF AllRunning
  <2>4. ASSUME pc' = "up" PROVE containers' = {}
    <3>1. CASE Reconcile
      BY <2>1, <2>2, <2>4, <3>1 DEF Reconcile, Goto, Exclusive, OneAgentInv, engine
    <3>2. CASE Down
      BY <2>4, <3>2 DEF Down, End, SetContainers
    <3>. QED BY <2>1, <2>4, <3>1, <3>2 DEF Arrivals
  <2>5. ASSUME pc' \in UnderUp \/ (pc' = "done" /\ code' = "ok"), NEW d \in containers'
        PROVE  d.id[2] = run
    <3>1. CASE Up
      <4>1. containers = {}
        BY <2>2, <3>1 DEF Up, OneAgentInv
      <4>. QED BY <3>1, <4>1, UpGoes DEF Going
    <3>2. CASE ~Up
      <4>1. \/ AwaitStartup \/ KeepAlive \/ Cancel \/ Spawn \/ Record \/ Read \/ Turn
            \/ Commit \/ StopRest \/ RemoveVolumes
        BY <1>3, <2>1, <2>5, <3>2 DEF Arrivals, UnderUp
      <4>2. pc \in UnderUp
        BY <2>2, <4>1 DEF AwaitStartup, KeepAlive, Cancel, Spawn, Record, Read, Turn, Commit,
           StopRest, RemoveVolumes, ControlOK, Exclusive, UnderUp
      <4>3. Remain
        BY <4>1, AsideRemains, EndingRemains DEF Aside, Ending
      <4>4. PICK c \in containers: d.id = c.id
        BY <4>3 DEF Remain, RemainContainers, Becomes
      <4>. QED BY <2>2, <4>2, <4>4 DEF OneAgentInv
    <3>. QED BY <3>1, <3>2
  <2>. QED BY <2>3, <2>4, <2>5
<1>. QED BY <1>1, <1>2, <1>3

-----------------------------------------------------------------------------
(***************************************************************************)
(* The response, and what a turn does.                                     *)
(***************************************************************************)
LEMMA OutputStays ==
  ASSUME [Next]_vars, ~Quiet, ~Begin, ~Clear, ~Read
  PROVE  UNCHANGED <<output, collected>>
<1>1. Match \/ Start \/ FindStarted \/ Exec \/ Executing \/ Reconcile \/ Down
        \/ Up \/ AwaitStartup \/ KeepAlive
      => UNCHANGED <<output, collected>>
  BY DEF Match, Start, FindStarted, ToExec, Exec, Executing, Reconcile, Down, Up,
     AwaitStartup, KeepAlive, files, local
<1>2. Cancel \/ Spawn \/ Record \/ Turn \/ Commit \/ Stop \/ StopRest \/ Terminate
        \/ RemoveVolumes \/ Return \/ Crash
      => UNCHANGED <<output, collected>>
  BY DEF Cancel, Spawn, Record, Turn, Commit, Stop, StopRest, Terminate, RemoveVolumes,
     Return, Crash, files, local
<1>. QED BY <1>1, <1>2, KindsOfSteps DEF Aside, Ending, Quiet

LEMMA ApplyingGoesOn ==
  ASSUME ControlOK, [Next]_vars, ~Quiet, ~Begin, ~Clear
  PROVE  /\ pc' \in Applying => pc \in Applying
         /\ pc' # "idle" => pc # "idle"
<1>1. Arrivals
  BY StepsArrive
<1>2. ASSUME pc' \in Applying PROVE pc \in Applying
  <2>1. \/ Match \/ Start \/ FindStarted \/ Exec \/ Reconcile \/ Down \/ Up
        \/ AwaitStartup \/ KeepAlive \/ Cancel \/ Spawn \/ Record \/ Read
    BY <1>1, <1>2 DEF Arrivals, Applying, Fresh, UnderUp
  <2>. QED BY <2>1 DEF Match, Start, FindStarted, Exec, Reconcile, Down, Up, AwaitStartup,
          KeepAlive, Cancel, Spawn, Record, Read, Applying, Fresh, UnderUp
<1>3. pc # "idle"
  BY KindsOfSteps DEF Quiet, Aside, Ending, Match, FindStarted, Executing, Reconcile,
     AwaitStartup, KeepAlive, Cancel, Spawn, Record, Read, Commit, RemoveVolumes, Return,
     Crash, Down, Turn, Stop, StopRest, Terminate, Start, Exec, Up
<1>. QED BY <1>2, <1>3

LEMMA ResponseStep ==
  ASSUME ControlOK, EngineOK, ResponseInv, [Next]_vars
  PROVE  ResponseInv'
<1>1. CASE Quiet
  <2>1. /\ Remain /\ UNCHANGED <<pc, run, seen, collected>>
        /\ output' \in {0, output} \union {a.run : a \in agents}
    BY <1>1, QuietRemains
  <2>. SUFFICES ASSUME "busy" \notin seen, pc \in Applying
                PROVE  /\ output' \in {0, run}
                       /\ \A s \in scripts': s.at = "setup" => s.run = run
                       /\ \A a \in agents': a.run = run
    BY <2>1 DEF ResponseInv
  <2>2. /\ output \in {0, run} /\ \A a \in agents: a.run = run
        /\ \A s \in scripts: s.at = "setup" => s.run = run
    BY DEF ResponseInv
  <2>3. output' \in {0, run}
    BY <2>1, <2>2
  <2>. QED BY <2>1, <2>2, <2>3 DEF Remain, RemainProcesses
<1>2. CASE Begin
  BY <1>2, RequestsAreTyped
  DEF Begin, ResponseInv, Applying, Fresh, UnderUp, Actions
<1>3. CASE Clear
  <2>1. /\ UNCHANGED <<engine, run, collected>> /\ output' = 0 /\ pc = "clear"
        /\ "busy" \notin seen' =>
             agents = {} /\ "busy" \notin seen /\ ~\E s \in scripts: s.at = "setup"
    BY <1>3 DEF Clear, Goto
  <2>. QED BY <2>1 DEF ResponseInv, engine
<1>4. CASE ~Quiet /\ ~Begin /\ ~Clear
  <2>1. UNCHANGED run /\ seen \subseteq seen'
    BY <1>4, RunGoesOn, SeenGrows
  <2>2. (pc' \in Applying => pc \in Applying) /\ (pc' # "idle" => pc # "idle")
    BY <1>4, ApplyingGoesOn
  <2>. SUFFICES ASSUME "busy" \notin seen'
                PROVE  /\ pc' # "idle" => collected' \in {0, run}
                       /\ pc' \in Applying =>
                            /\ output' \in {0, run}
                            /\ \A s \in scripts': s.at = "setup" => s.run = run
                            /\ \A a \in agents': a.run = run
    BY <2>1 DEF ResponseInv
  <2>3. "busy" \notin seen
    BY <2>1
  <2>4. CASE Read
    <3>1. /\ pc = "read" /\ output' = output /\ UNCHANGED engine
          /\ collected' \in {0, output, collected}
      BY <2>4 DEF Read, files
    <3>2. pc \in Applying
      BY <3>1 DEF Applying, UnderUp
    <3>. QED BY <2>3, <3>1, <3>2 DEF ResponseInv, engine
  <2>5. CASE ~Read
    <3>1. UNCHANGED <<output, collected>>
      BY <1>4, <2>5, OutputStays
    <3>2. ASSUME pc' \in Applying
          PROVE  /\ \A s \in scripts': s.at = "setup" => s.run = run
                 /\ \A a \in agents': a.run = run
      <4>1. /\ \A s \in scripts: s.at = "setup" => s.run = run
            /\ \A a \in agents: a.run = run
        BY <2>2, <2>3, <3>2 DEF ResponseInv
      <4>2. CASE Start \/ Exec \/ Up
        <5>1. Going
          BY <4>2, StartGoes, ExecGoes, UpGoes
        <5>. QED BY <4>1, <5>1 DEF Going
      <4>3. CASE Remain
        BY <4>1, <4>3 DEF Remain, RemainProcesses
      <4>. QED BY <1>4, <4>2, <4>3, KindsOfSteps, AsideRemains, EndingRemains DEF Quiet
    <3>. QED BY <2>2, <2>3, <3>1, <3>2 DEF ResponseInv
  <2>. QED BY <2>4, <2>5
<1>. QED BY <1>1, <1>2, <1>3, <1>4

LEMMA TurnStep ==
  ASSUME ControlOK, EngineOK, TurnInv, [Next]_vars
  PROVE  TurnInv'
<1>1. CASE Quiet
  <2>1. Remain /\ UNCHANGED <<pc, req, code, seen, collected>>
    BY <1>1, QuietRemains
  <2>2. \A d \in containers': \E c \in containers: d.graph = c.graph /\ (d.up => c.up)
    BY <2>1 DEF Remain, RemainContainers, Becomes
  <2>. QED BY <2>1, <2>2 DEF TurnInv, Done
<1>2. CASE ~Quiet
  <2>. SUFFICES ASSUME pc' = "done", code' = "ok", req'.action = "apply",
                       req'.deployment.keep = "turns", collected' # 0, "left" \notin seen'
                PROVE  \A c \in containers': c.up => c.graph # req'
    BY DEF TurnInv, Done
  <2>1. Record \/ Read \/ Turn
    BY <1>2, StepsArrive DEF Arrivals, Commit, StopRest, RemoveVolumes, ControlOK, Goto, End
  <2>2. req' = req
    BY <2>1 DEF Record, Read, Turn, Goto, End
  <2>3. ~Record
    BY <2>2 DEF Record, ControlOK, TimePolicy
  <2>4. ~Read
    BY <2>2 DEF Read, Goto, End, TimePolicy
  <2>5. ComposeLifecycle(req.deployment.action)
    BY <2>1, <2>3, <2>4 DEF Turn
  <2>. DEFINE S == {c \in containers: c.graph = req}
  <2>6. containers' = Stopped(S) \/ containers' = {}
    BY <2>5 DEF ComposeLifecycle, SetContainers, ControlOK
  <2>7. \A c \in Stopped(S): c.up => c.graph # req
    <3>1. \A c \in containers: c \in Containers
      BY DEF EngineOK, ContainersOK
    <3>2. \A c \in S: [c EXCEPT !.up = FALSE].up = FALSE
      BY <3>1, Switching
    <3>. QED BY <3>2 DEF Stopped
  <2>. QED BY <2>2, <2>6, <2>7
<1>. QED BY <1>1, <1>2
-----------------------------------------------------------------------------
(***************************************************************************)
(* The timer.                                                              *)
(***************************************************************************)
LEMMA TimerStep ==
  ASSUME ControlOK, FilesOK, TimerInv, [Next]_vars
  PROVE  TimerInv'
<1>. SUFFICES ASSUME crashes' = 0
              PROVE  /\ \A t, u \in timers': t = u
                     /\ \A t \in timers': t.run = IF pc' = "record" THEN run' ELSE pidFile'
                     /\ pc' = "spawn" => timers' = {}
  BY DEF TimerInv
<1>1. crashes = 0 /\ ~Crash
  <2>1. ~Crash
    BY DEF Crash, FilesOK
  <2>2. Begin \/ Clear \/ Match \/ FindStarted \/ Executing \/ Reconcile \/ AwaitStartup
          \/ KeepAlive \/ Cancel \/ Spawn \/ Record \/ Read \/ Commit \/ RemoveVolumes
          \/ Return => UNCHANGED crashes
    BY DEF Begin, Clear, Match, FindStarted, Executing, Reconcile, AwaitStartup,
       KeepAlive, Cancel, Spawn, Record, Read, Commit, RemoveVolumes, Return, Fault,
       NoFault, bounds
  <2>3. Start \/ Exec \/ Up \/ Ending \/ UNCHANGED vars => UNCHANGED crashes
    BY DEF Start, Exec, Up, Ending, Down, Turn, Stop, StopRest, Terminate, vars, Fault,
       NoFault, bounds
  <2>4. Outside => UNCHANGED crashes
    BY OutsideLeaves DEF bounds
  <2>. QED BY <2>1, <2>2, <2>3, <2>4, KindsOfSteps DEF Aside
<1>2. /\ \A t, u \in timers: t = u
      /\ \A t \in timers: t.run = IF pc = "record" THEN run ELSE pidFile
      /\ pc = "spawn" => timers = {}
  BY <1>1 DEF TimerInv
<1>3. CASE Quiet
  <2>1. timers' \subseteq timers /\ UNCHANGED <<pc, run, pidFile>>
    BY <1>3, OutsideLeaves DEF Quiet, vars, keeper
  <2>. QED BY <1>2, <2>1
<1>4. CASE Cancel
  BY <1>2, <1>4 DEF Cancel, Goto
<1>5. CASE Spawn
  <2>1. timers = {} /\ pc' = "record" /\ run' = run
    BY <1>2, <1>5 DEF Spawn, Goto
  <2>2. timers' = {[run |-> run, action |-> req.deployment.action]}
    BY <1>5, <2>1 DEF Spawn
  <2>. QED BY <2>1, <2>2
<1>6. CASE Record
  BY <1>2, <1>6 DEF Record, Goto, End
<1>7. CASE ~Quiet /\ ~Cancel /\ ~Spawn /\ ~Record
  <2>1. UNCHANGED keeper /\ pc # "record"
    <3>1. Begin \/ Clear \/ Match \/ FindStarted \/ Executing \/ Reconcile
            \/ AwaitStartup \/ KeepAlive \/ Read \/ Commit \/ RemoveVolumes \/ Return
          => UNCHANGED keeper /\ pc # "record"
      BY DEF Begin, Clear, Match, FindStarted, ToExec, Executing, Reconcile, AwaitStartup,
         KeepAlive, Read, Commit, RemoveVolumes, Return
    <3>2. Start \/ Exec \/ Up \/ Ending => UNCHANGED keeper /\ pc # "record"
      BY DEF Start, Exec, Up, Ending, Down, Turn, Stop, StopRest, Terminate
    <3>. QED BY <1>1, <1>7, <3>1, <3>2, KindsOfSteps DEF Aside, Quiet
  <2>2. pc' \notin {"record", "spawn"}
    BY <1>7, StepsArrive DEF Arrivals
  <2>. QED BY <1>2, <2>1, <2>2 DEF keeper
<1>. QED BY <1>3, <1>4, <1>5, <1>6, <1>7

-----------------------------------------------------------------------------
(***************************************************************************)
(* The image.                                                              *)
(***************************************************************************)
LEMMA ImageStep ==
  ASSUME ControlOK, EngineOK, ImageInv, [Next]_vars
  PROVE  ImageInv'
<1>1. CASE Quiet
  <2>1. Remain /\ UNCHANGED <<pc, req, code, image>>
    BY <1>1, QuietRemains
  <2>2. CASE containers' = {}
    BY <2>2 DEF ImageInv
  <2>3. CASE \A c \in containers: \E d \in containers': Becomes(c, d)
    <3>1. containers' # {} => containers # {}
      BY <2>1 DEF Remain, RemainContainers
    <3>2. (\E c \in containers: c.role = "agent" /\ c.built) =>
             \E d \in containers': d.role = "agent" /\ d.built
      BY <2>3 DEF Becomes
    <3>3. AgentIds \subseteq AgentIds'
      BY <2>3 DEF AgentIds, OfRole, Becomes
    <3>. QED BY <2>1, <3>1, <3>2, <3>3 DEF ImageInv, Done, ShouldWaitStartup, TimePolicy
  <2>. QED BY <2>1, <2>2, <2>3 DEF Remain, RemainContainers
<1>2. CASE ~Quiet
  <2>1. Arrivals
    BY <1>2, StepsArrive
  <2>. SUFFICES ASSUME ShouldWaitStartup(req)'
                PROVE  /\ pc' \in {"keep", "commit"} => containers' = {} \/
                            \E c \in containers': c.role = "agent" /\ c.built
                       /\ Done("build")' => \/ image' = "complete" \/ containers' = {}
                                            \/ \E i, j \in AgentIds': i # j
    BY DEF ImageInv
  <2>2. ASSUME pc' \in {"keep", "commit"}
        PROVE  containers' = {} \/ \E c \in containers': c.role = "agent" /\ c.built
    <3>1. ~Begin
      BY <2>1, <2>2, RequestsAreTyped DEF Begin, Actions
    <3>2. req' = req /\ ShouldWaitStartup(req)
      BY <3>1, RunGoesOn DEF ShouldWaitStartup, TimePolicy
    <3>3. ~Up
      BY <2>2, <3>2 DEF Up, Goto, End
    <3>4. CASE AwaitStartup
      <4>1. PICK c \in Candidates(req): c.logged /\ UNCHANGED containers
        BY <2>2, <3>4 DEF AwaitStartup, End, engine
      <4>2. c \in containers /\ c.role = "agent" /\ c.built
        BY <4>1 DEF Candidates, Matching, OfRole, Running, EngineOK, ContainersOK, Sound
      <4>. QED BY <4>1, <4>2
    <3>5. CASE KeepAlive
      BY <3>2, <3>5 DEF KeepAlive, ImageInv, engine
    <3>. QED BY <2>1, <2>2, <3>3, <3>4, <3>5 DEF Arrivals
  <2>3. ASSUME Done("build")'
        PROVE  \/ image' = "complete" \/ containers' = {} \/ \E i, j \in AgentIds': i # j
    <3>1. pc' = "done" /\ code' = "ok" /\ req'.action = "build"
      BY <2>3 DEF Done
    <3>2. Commit
      BY <2>1, <3>1 DEF Arrivals, Record, Read, Turn, StopRest, RemoveVolumes, ControlOK,
         Goto, End
    <3>3. /\ req' = req /\ ShouldWaitStartup(req) /\ pc = "commit"
          /\ UNCHANGED containers
      BY <3>2, RunGoesOn DEF Commit, Begin, ShouldWaitStartup, TimePolicy, engine
    <3>4. PICK c \in OfRole(Running(containers), "agent"):
            image' = IF c.built THEN "complete" ELSE "partial"
      BY <3>1, <3>2 DEF Commit, End
    <3>5. c \in containers /\ c.role = "agent"
      BY <3>4 DEF OfRole, Running
    <3>6. PICK d \in containers: d.role = "agent" /\ d.built
      BY <3>3, <3>5 DEF ImageInv
    <3>7. CASE c.built
      BY <3>4, <3>7
    <3>8. CASE ~c.built
      <4>1. c.id # d.id
        BY <3>5, <3>6, <3>8 DEF EngineOK, ContainersOK, OneEach
      <4>2. c.id \in AgentIds /\ d.id \in AgentIds /\ AgentIds' = AgentIds
        BY <3>3, <3>5, <3>6 DEF AgentIds, OfRole
      <4>. QED BY <4>1, <4>2
    <3>. QED BY <3>7, <3>8
  <2>. QED BY <2>2, <2>3
<1>. QED BY <1>1, <1>2

-----------------------------------------------------------------------------
(***************************************************************************)
(* The invariant, and what it says.                                        *)
(***************************************************************************)
LEMMA LocalInvAtFirst == Init => LocalInv
<1>. SUFFICES ASSUME Init PROVE LocalInv
  OBVIOUS
<1>. USE DEF Init
<1>1. ControlOK
  BY DEF ControlOK, Points, Applying, Fresh, UnderUp
<1>2. ContainersOK /\ ProcessesOK
  BY FS_EmptySet DEF ContainersOK, ProcessesOK, OneEach
<1>3. FilesOK
  <2>1. {output, collected, pidFile} \subseteq 0..run
    OBVIOUS
  <2>2. faults \in 0..MaxFaults /\ crashes \in 0..MaxCrashes
    BY BoundsAssumption
  <2>3. volume \in BOOLEAN
    OBVIOUS
  <2>. QED BY <2>1, <2>2, <2>3 DEF FilesOK
<1>4. LifecycleInv /\ ReuseInv /\ TurnInv /\ TimerInv
  BY DEF LifecycleInv, ReuseInv, TurnInv, TimerInv, Done
<1>5. OneAgentInv /\ ResponseInv /\ ImageInv
  BY DEF OneAgentInv, ResponseInv, ImageInv, Done, UnderUp, Applying, Fresh
<1>. QED BY <1>1, <1>2, <1>3, <1>4, <1>5 DEF LocalInv

LEMMA LocalInvStep == LocalInv /\ [Next]_vars => LocalInv'
BY ControlStep, EngineStep, FilesStep, LifecycleStep, ReuseStep, OneAgentStep,
   ResponseStep, TurnStep, TimerStep, ImageStep
DEF LocalInv, EngineOK

LEMMA LocalInvHolds == Spec => []LocalInv
BY LocalInvAtFirst, LocalInvStep, PTL DEF Spec

(***************************************************************************)
(* Containers have one id each, and every script and every harness at work *)
(* is in a container that runs: the engine's calls, run-agent.sh, timers.  *)
(***************************************************************************)
THEOREM LocalTypes == Spec => []LocalTypeOK
<1>1. LocalInv => LocalTypeOK
  BY DEF LocalInv, ContainersOK, OneEach, ProcessesOK, FilesOK, LocalTypeOK, Lives,
     Running, Sound
<1>. QED BY <1>1, LocalInvHolds, PTL

(***************************************************************************)
(* A stop that returned zero leaves nothing running, and a terminate       *)
(* nothing at all: LocalContainerBackend, local_runtime.py.                *)
(***************************************************************************)
THEOREM LocalLifecycleIsComplete == Spec => []LifecycleLeavesNothing
<1>1. LocalInv => LifecycleLeavesNothing
  BY DEF LocalInv, LifecycleInv, LifecycleLeavesNothing, Running
<1>. QED BY <1>1, LocalInvHolds, PTL

(***************************************************************************)
(* A script is executed only in a container that was created under the     *)
(* hash of the deployment that is asked for, whatever happens to the       *)
(* project's containers meanwhile: find_local_runtime_container and        *)
(* exec_agent_in_local_container.                                          *)
(***************************************************************************)
THEOREM ReuseIsExact == Spec => []ReusedContainerMatches
<1>1. LocalInv => ReusedContainerMatches
  <2>. SUFFICES ASSUME LocalInv, NEW s \in scripts, s.kind = "exec", s.run = run,
                       pc = "executing"
                PROVE  ContainerOf(s).hash = HashOf("agent", req)
    BY DEF ReusedContainerMatches
  <2>1. s.id = target
    BY DEF LocalInv, ReuseInv
  <2>2. ContainerOf(s) \in containers /\ ContainerOf(s).id = s.id
    BY ContainerOfIsItsOwn DEF LocalInv, EngineOK, ProcessesOK
  <2>. QED BY <2>1, <2>2 DEF LocalInv, ReuseInv
<1>. QED BY <1>1, LocalInvHolds, PTL

(***************************************************************************)
(* At most one agent runs after an apply that looked for one to reuse:     *)
(* apply_local_runtime_plan with reconcile_stale_local_runtime_project.    *)
(***************************************************************************)
THEOREM ApplyLeavesOneAgent == Spec => []OneAgentAfterApply
<1>1. LocalInv => OneAgentAfterApply
  <2>. SUFFICES ASSUME LocalInv, Done("apply"), req.reuse # "always_create",
                       "blind" \notin seen
                PROVE  Cardinality(OfRole(Running(containers), "agent")) <= 1
    BY DEF OneAgentAfterApply
  <2>. DEFINE S == OfRole(Running(containers), "agent")
  <2>1. \A c \in S: c \in containers /\ c.id[2] = run /\ c.id[1] = "agent"
    BY DEF LocalInv, OneAgentInv, Exclusive, Done, ContainersOK, Sound, OfRole, Running
  <2>2. \A c \in S: c.id = <<"agent", run>>
    <3>1. \A c \in containers: c.id \in Ids
      BY DEF LocalInv, ContainersOK, Containers
    <3>. QED BY <2>1, <3>1 DEF Ids
  <2>3. \A c, d \in S: c = d
    BY <2>1, <2>2 DEF LocalInv, ContainersOK, OneEach
  <2>. HIDE DEF S
  <2>4. S = {} \/ \E c \in S: S = {c}
    BY <2>3
  <2>5. Cardinality(S) <= 1
    <3>1. CASE S = {}
      BY <3>1, FS_EmptySet
    <3>2. ASSUME NEW c \in S, S = {c} PROVE Cardinality(S) <= 1
      <4>1. Cardinality({c}) = 1
        BY FS_Singleton
      <4>. QED BY <3>2, <4>1
    <3>. QED BY <2>4, <3>1, <3>2
  <2>. QED BY <2>5 DEF S
<1>. QED BY <1>1, LocalInvHolds, PTL

(***************************************************************************)
(* The response collected is the one of this run's agent: the outputs      *)
(* cleared by clear_local_runtime_agent_outputs, the wait of               *)
(* read_local_runtime_file.                                                *)
(***************************************************************************)
THEOREM ResponseBelongsToTheRun == Spec => []ResponseIsThisRuns
<1>1. LocalInv => ResponseIsThisRuns
  BY DEF LocalInv, ResponseInv, ResponseIsThisRuns
<1>. QED BY <1>1, LocalInvHolds, PTL

(***************************************************************************)
(* A limit of one turn takes effect as soon as the response is read:       *)
(* enforce_local_keep_alive and apply_compose_file.                        *)
(***************************************************************************)
THEOREM TurnLimitTakesEffect == Spec => []TurnEndsTheProject
<1>1. LocalInv => TurnEndsTheProject
  BY DEF LocalInv, TurnInv, TurnEndsTheProject, Running
<1>. QED BY <1>1, LocalInvHolds, PTL

(***************************************************************************)
(* Without a restart in the middle of a run one timer sleeps at most, and  *)
(* the pid file finds it: schedule_local_lifecycle.                        *)
(***************************************************************************)
THEOREM TimersDoNotAddUp == Spec => []OneTimer
<1>1. LocalInv => OneTimer
  <2>. SUFFICES ASSUME LocalInv, crashes = 0, pc # "record"
                PROVE  Cardinality(timers) <= 1 /\ \A t \in timers: t.run = pidFile
    BY DEF OneTimer
  <2>1. /\ \A t, u \in timers: t = u
        /\ \A t \in timers: t.run = pidFile
    BY DEF LocalInv, TimerInv
  <2>2. timers = {} \/ \E t \in timers: timers = {t}
    BY <2>1
  <2>3. CASE timers = {}
    <3>1. Cardinality(timers) = 0
      BY <2>3, FS_EmptySet
    <3>. QED BY <2>1, <3>1
  <2>4. CASE \E t \in timers: timers = {t}
    <3>1. Cardinality(timers) = 1
      BY <2>4, FS_Singleton
    <3>. QED BY <2>1, <3>1
  <2>. QED BY <2>2, <2>3, <2>4
<1>. QED BY <1>1, LocalInvHolds, PTL

(***************************************************************************)
(* A build that waits for the startup commits a container whose script is  *)
(* through: wait_local_runtime_startup_complete, and                       *)
(* commit_local_container_image, which finds its container by role only.   *)
(***************************************************************************)
THEOREM AwaitedBuildIsComplete == Spec => []AwaitedImageIsComplete
<1>1. LocalInv => AwaitedImageIsComplete
  <2>. SUFFICES ASSUME LocalInv, Done("build"), ShouldWaitStartup(req),
                       Cardinality(OfRole(containers, "agent")) = 1
                PROVE  image = "complete"
    BY DEF AwaitedImageIsComplete, ShouldWaitStartup, TimePolicy
  <2>. DEFINE S == OfRole(containers, "agent")
  <2>1. IsFiniteSet(S)
    BY FS_Subset DEF LocalInv, ContainersOK, OfRole
  <2>2. S # {} /\ \E c \in S: S = {c}
    <3>. HIDE DEF S
    <3>1. Cardinality(S) = 1
      BY DEF S
    <3>2. S # {}
      BY <3>1, FS_EmptySet
    <3>3. PICK c \in S: TRUE
      BY <3>2
    <3>4. IsFiniteSet(S \ {c}) /\ Cardinality(S \ {c}) = 0
      BY <2>1, <3>1, <3>3, FS_RemoveElement
    <3>5. S \ {c} = {}
      BY <3>4, FS_EmptySet
    <3>. QED BY <3>2, <3>3, <3>5
  <2>3. containers # {} /\ \A i, j \in AgentIds: i = j
    BY <2>2 DEF AgentIds, OfRole
  <2>. QED BY <2>3 DEF LocalInv, ImageInv
<1>. QED BY <1>1, LocalInvHolds, PTL
=============================================================================
