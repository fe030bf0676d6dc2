# Verification of the CRAG Runpod nodes

This directory specifies what `comfyui_runpod_agentic` does with a workflow. A
plan is made of its nodes; a runner creates, reuses, stops and cleans up paid
pods for it, with an SQLite ledger as its only memory, and sets up and launches
the agent over SSH; a second back end does the same with local containers;
detached timers, HTTP routes and scripts act on the same pods and containers
meanwhile. The specifications are TLA+ modules; TLC checks them on small
instances, and TLAPS proves the theorems of the eight `*Proofs` modules for
every value of the constants.

`PROJECT.json` is the index: components, runs, mutants, the source lines of each
definition, the divergences found, the hazards and the theorems.

## 1. The system

### Components

| Component | Source | State it keeps | Operations | Its correctness |
| --- | --- | --- | --- | --- |
| Nodes | `nodes.py`, `specs.py`, `harnesses.py` | none | one build method per node: widgets and wired specs to a spec | what a node decides reaches the plan; impossible combinations are refused |
| Planner | `planner.py`, `runtime_contracts.py`, `validation.py`, `template_resolver.py` | none | `Planner.build`, `_actions`, contract merge, `inferred_command_order` | dependencies before the agent, commands in phase and order, hashes equal exactly for what may be reused |
| Runner | `runner.py` | a run in progress (plan, pods taken, position) | `run` (apply, apply_and_wait, stop, terminate), `_cleanup_created`, `reconcile_managed_pods` | no pod is paid for and forgotten; stop and terminate reach every pod of the deployment and no other; a failed run cleans up after itself; a deployment that is reused runs once |
| SSH session | `runner.py` 193-295, `ssh_client.py` | position in the plan's actions, attempts | `_run_ssh_command_action`, `_write_runtime_files`, launch, `_wait_agent_response` | the agent starts after its set-up; commands run as often as their policy says; the table `commands` says what happened; the response is the agent's, and whole |
| State store | `state_store.py` | SQLite: runs, resources, commands, events, counters | one method, one transaction; several processes and threads | rows name real pods; a row is written before its pod exists; no turn is counted twice |
| Runpod client | `runpod_client.py` | none; Runpod's own pods are behind it | GraphQL and REST calls | errors become `RunpodClientError`; a call may have acted although it raised |
| Keep-alive timer | `keepalive_timer.py` | a detached process per scheduled apply | sleep, stop or terminate, five attempts | acts after ComfyUI is gone, on the pod of its run, and does not give up early |
| Routes, clean-up script | `routes.py`, `cleanup.py` | terminal credentials by port | stop, resume, terminate, clean-up, turn counter, terminal proxy | act on managed pods only, and on all they should |
| Local runtime | `local_runtime.py`, `backends.py`, `templates/runtime/` | compose project, containers, files, timer process | write the project, apply, reuse by exec, reconcile, keep-alive, stop, terminate, run script | a reused container matches; nothing is left running; the response is this run's; one timer; an apply ends |
| Container build | `backends.py` | container, image | apply, commit, push | the image is committed when set-up has finished |
| Template administration | `template_admin.py`, `template_resolver.py` | a file of template ids | save, write the map, resolve | no template is lost sight of; an id changes only where the spec or Runpod says so |
| Dropdown cache | `runpod_options.py` | cached answers with a lifetime | fetch | a failed fetch is not an answer for ever |
| Configuration, set-up texts | `setup_commands.py`, `config.py`, `types.py`, `__init__.py` | none | texts and input checks | - |
| Live checks | `live_smoke.py`, `schema_check.py` | none | one-shot scripts | - |

### How they interact

ComfyUI evaluates the nodes of a prompt, the last of which calls the planner and
hands the plan to a back end. It executes one prompt at a time, so one run is in
progress per process. On Runpod
the run calls the provider, and writes a row or an event after most calls; the
SQLite file and the provider's pod list are all that the next run sees of it. A
time policy makes it start an operating-system process (`start_new_session`)
that nobody joins or cancels. The routes are served by ComfyUI's event loop
while the run goes on in the executor's thread: they act on the same pods and
read the same file, and never write the table `resources`; the turn counter is
written by both. On the agent pod the
run starts commands over SSH, one after the other, and a harness in the
background, which talks back only through files (`response.txt`, `errors.txt`,
`agent.log`).

The local runtime keeps nothing but files: the compose file, the set-up script
and the commands in a directory mounted into the agent's container, the same
three files of the harness, and a pid file for its timer. What the next run
sees of a container is its name, its hash label and whether it runs.

### What is hard

* Two systems of record, the ledger and the provider, and no transaction over
  both. Any call may raise after the provider has acted (read timeout), and
  ComfyUI may die between any two calls.
* The same pod has two rows after a reconciliation: the run's own row, under
  `run:role:hash`, and one under the pod id.
* Which row is reused is decided by `created_at`, which an upsert never
  refreshes.
* Pods are stopped, resumed and terminated by others at any time: routes, the
  clean-up script, timers of earlier runs, Runpod's own `stopAfter`. A run under
  `resume_stopped` resumes what a clean-up has just stopped.
* Files that a script reads are edited between its runs, and a service may answer
  an update of one thing with the id of another.
* An SSH call that times out says nothing of its command.
* The agent and the runner share files without any lock, on a pod that may have
  been used before; in a local container so do scripts of earlier applies.
* Everything that is reused is found by a hash, so that the hash has to cover
  all that matters and nothing that differs from run to run; pods get the
  addresses of their services when they are created.
* Containers of one compose project come from several graphs, and the engine's
  calls know the services of the compose file written last.

## 2. Modules

    PodProvider <- StateStore <- RunpodRunner <- MCRunpodRunner     (TLC)
        |                             |       <- RunpodRunnerProofs <- RunnerReuseProofs (TLAPS)
        |                             +-- INSTANCE PodAccounting    (abstract)
        +--- PodControl <- MCPodControl     (TLC)
                        <- PodControlProofs (TLAPS)

    AgentSession <- MCAgentSession      (TLC)
                 <- AgentSessionProofs  (TLAPS)

    RuntimeContracts <- WorkflowNodes <- DeploymentPlanner <- ComposeProject
                     <- WorkflowPlanning <- MCWorkflowPlanning      (TLC)
                                         <- WorkflowPlanningProofs
                                                 <- CommandOrderProofs (TLAPS)

    LocalRuntime <- MCLocalRuntime                                  (TLC)
                 <- LocalRuntimeProofs                              (TLAPS)

    TurnCounter, TemplateAdmin, OptionsCache <- SharedState
                                             <- MCSharedState       (TLC)
                                             <- SharedStateProofs   (TLAPS)

### From the workflow to the plan

These modules are operators on specs, contracts and plans, and a small state
machine of the user around them.

`RuntimeContracts` - contracts (environment, secrets, ports, commands) and their
merge, the environment that a pod is created with, the order of commands. `a ++ b`
is `merge_contracts` of two, `new ## old` is `dict.update`, `ItemsAt(s, I)` a list
comprehension with an `if`: the items of `s` at the indices `I`. A value of
the environment is the set of what is replaced in it later: a placeholder for a
service, a secret, a shell variable, a text.

`WorkflowNodes` - `XNode(w, id)` is what the build method of node X returns for
the widget values `w`; `XAccepts(w)` is when it does not raise.

`DeploymentPlanner` - `DeployNode`, validation, template resolution and
`Planner.build`: resources in order, environments, ports, volumes, actions. A
hash is the value it is computed from, so that equal hashes are equal values.

`ComposeProject` - `local_runtime.py` up to the files: images, environments with
placeholders replaced, volumes, the desired hash of a container, the command
files and `run-agent.sh` that is to run them.

`WorkflowPlanning` - a user wires nodes (one action per node), runs, changes
something and runs again; `plan` and `last` are the two plans. Its properties
are what the two back ends rely on when they reuse by hash.

### Runpod

`PodProvider` - Runpod as `runpod_client.py` sees it. Variables: `pods`
(desiredStatus, with ABSENT before creation and PURGED for a pod that `get_pod`
answers null for) and `up` (the container answers). A run creates at most one
pod for a resource, so a pod is named by the pair of its run and its hash. A
call is executed, refused, or fails; the constant `Faults` says whether calls
fail on their own ("error"), act without an answer ("lost") and whether ComfyUI
dies ("crash"). What calls Runpod accepts in which status is outside the
repository and is marked external; the model refuses to resume a terminated pod
and any call on a purged one.

`StateStore` - the tables `runs` and `resources` and the clean-up events. One
operator per method: `Upsert` (`record_resource`, `record_remote_resource`),
`MarkResourceStatus`, `RecordRun`; `Newest` is the first row of
`list_resources`. Rows of the two families have the keys `Own(run, hash)` and
`Remote(pod)`.

`RunpodRunner` - `RunpodRunner.run`. `pc` names the next step; a step is one API
call or one transaction, so that everything else interleaves where it can.

| Action | Code |
| --- | --- |
| `Start` | `run`: validation, `Planner.build`, a fresh run id |
| `ListPods`, `RecordRemote` | `reconcile_managed_pods`; its errors leave `run` before the `try` |
| `Begin` | `record_run(started)`; for stop and terminate the rows that match the plan's hashes |
| `Teardown`, `Act`, `LifecycleDone` | `_lifecycle`, `_run_teardown_commands` |
| `CreateVolumes` | `_materialize_network_volumes` |
| `RecordPending`, `Lookup`, `Resume`, `Create`, `Bind` | the loop of `_apply`, `_reuse_or_create_pod`, `_matching_existing_resource` |
| `WaitReady` | `_wait_dependency_ready` |
| `Schedule` | `_schedule_time_keep_alive` |
| `RunAgent` | `_wait_ssh_endpoint`, `_wait_ssh_ready`, `_run_agent_ssh_steps` as one step; `AgentSession` is its inside |
| `KeepAlive`, `Complete` | `_enforce_response_keep_alive`, `record_run(completed)` |
| `RecordFailure`, `CleanupRow`, `CleanupDone` | the `except` branch and `_cleanup_created` |
| `Crash` | the process dies; ledger, pods and timers stay |
| `TimerFires` | `keepalive_timer.apply_runpod_lifecycle` |
| `OutsideAction` | pod routes, clean-up route and script, `stopAfter`, another process |
| `Provider` | a container comes up, a terminated pod is forgotten |

`PodAccounting` - the abstract specification: for each pod, `unknown`, then
`announced` (its run's row exists), then `created`, then `tracked` (some row
holds its id), and never back. `RunpodRunner!Stages` is the refinement mapping:
it reads the stage of a pod off the ledger and the provider.

`AgentSession` - `_run_agent_ssh_steps` and the command loop of
`_run_teardown_commands`, with the pod at the other end. `step` is the position
in `plan.actions`, `tries` the attempts of the command there, `rows` the table
`commands`; `onPod` is what became of every call's command in the pod,
`response` and `log` are the two files that `_wait_agent_response` reads. An
answer of an ssh call is the exit code or is lost (124, 255); a lost command may
not have started, may have ended or may still run. A client that raises while
the response is awaited ends the run. `earlier` is a harness that a
previous session left on a reused pod. Mode "stop" stands for stop and
terminate, whose sessions are the teardown commands.

`PodControl` - those who act on pods beside the runner. `RunDeploys`, `RunBinds`,
`RunCalls` and `Schedule` are what a run contributes: it deploys, binds a pod to a
row, resumes under `resume_stopped`, stops and terminates (keep-alive, clean-up
after a failure, stop and terminate requests), and starts a timer. `Begin`,
`List`, `Act`, `Done` and `Return` are a clean-up (route and script are two jobs,
since the script is another process), `PodRoute` the three pod routes, `Attempt`
one attempt of a keep-alive process. A route handler blocks the event loop, so
that the pod routes wait for the clean-up route; a run, which has a thread of its
own, does not. `hit` and `revived` are what the properties speak of: what this
clean-up acted on, and what a route or a run has resumed since.

### Local containers

`LocalRuntime` - `local_runtime.py` from `apply_compose_file` on, the two local
back ends, the script in the container and the timers. `pc` names the next call
of the engine.

| Action | Code |
| --- | --- |
| `Begin`, `Return` | a run node, and its end |
| `Clear` | `write_local_runtime_files`, `clear_local_runtime_agent_outputs` |
| `Match`, `Start`, `FindStarted` | the search for a running agent and services, `compose start` for `resume_stopped` |
| `Exec`, `Executing` | `exec_agent_in_local_container` |
| `Reconcile`, `Down`, `Up` | `reconcile_stale_local_runtime_project`, `compose down`, `compose up -d` |
| `AwaitStartup` | `wait_local_runtime_startup_complete` |
| `KeepAlive`, `Cancel`, `Spawn`, `Record` | `enforce_local_keep_alive`, `schedule_local_lifecycle` with its pid file |
| `Read`, `Turn` | `read_local_runtime_file`, which may raise and then nothing is enforced; a limit of turns |
| `Commit` | `ContainerBuildBackend.apply` after the apply |
| `Stop`, `StopRest`, `Terminate`, `RemoveVolumes` | `apply_local_lifecycle` with the containers of other graphs and the retained volumes |
| `ScriptFails`, `ScriptLaunches`, `ScriptCompletes` | `local-agent-run.sh.j2` |
| `AgentAnswers`, `TimerFires`, `Crash` | the harness, a lifecycle process, a restart of the server |

A container has the request whose graph it was created under (its name), a hash
and whether it runs; a request stands for its graph. `ComposeProject` says what
that hash is made of, and `LocalHashIsExact` that it says what it should.

### State that callers share

`TurnCounter` - `increment_counter`, read and write as two steps. `Callers` are
the threads that call it: in one server the turn route and the runner, and those of
every other server with the same ledger.

`TemplateAdmin` - `save_templates` call by call, with the map file truncated before
it is written. `SpecFiles` is what the spec file may hold when the script starts:
a list of entries, each a key with or without an id of its own, in which a key may
come twice. The id in an entry wins over the map's, a null is not sent, and what
goes into the map is the id that Runpod answers, which for an update may be
another (`tests/test_template_admin.py` 18-30). `Elsewhere` templates of the account are not
the script's; an id that no template has is refused. A dry run changes nothing
and is left out. `renamed` and `replaced` are history: ids whose update was
answered with another, and ids for which a write of the map has put others.

`OptionsCache` - the dropdown
cache with its lifetime, failures and restarts. `SharedState` composes the
three, which do not touch each other's state.

The `MC*` modules hold requests, scripts and widget values for TLC.

## 3. What TLC checks

Definitions commented "Mutant of", and the `BeginWith`, `CleanupRowWith` and
`BindWith` that they share with the original, belong to the
mutation tests: each property is broken by a small plausible bug in the code it
is about (`PROJECT.json`, "mutants"), which shows that it depends on that code.

### Runs that pass

| Run | Bounds | Shows |
| --- | --- | --- |
| `RunnerReuse` | 3 runs of apply, stop and terminate on one agent, all faults, pods stopped or terminated from outside | `OrphansAdopted`, `OneRunningPodPerHash`, `LifecycleLeavesNothingRunning` |
| `RunnerPolicies` | 2 runs, database and agent beside another deployment, every reuse policy and keep-alive, errors and lost answers, resumes from outside | `TypeOK`, `LedgerNamesRealPods`, `CompletedRunsAreWhole`, `VolumesComeFirst`, `LifecycleKeepsToItsPlan` |
| `RunnerFailures` | 2 runs, database and agent, every reuse and clean-up policy, all faults | `FailedRunsAreCleaned`, `ImplementsAccounting`, `AgentAfterDependencies` |
| `RunnerLiveness` | 2 runs, time policy that terminates, reused or resumed, lost answers and crashes, fair | `EveryRunReturns`, `KeepAliveTakesEffect` |
| `SessionScript` | set-up commands of the three failure policies, a check, a teardown; one retry, two polls, fair | `SessionTypeOK`, `SetupBeforeLaunch`, `RowsAreTruthful`, `SessionEnds` |
| `PodControl` | a clean-up, a timer of two attempts, two faults, two runs with all their calls, a pod of the user's | `CleanupReachesItsPods`, `CleanupKeepsToItsRun`, `TimerOutlastsErrors` |
| `WorkflowPlans` | every workflow of at most two wirings, and one change before a second run | `CommandsInOrder`, `ScriptRunsItsCommands`, `HashCoversThePod`, `AddressesResolve`, `PortsBelongToTheirPod`, `LocalHashIsExact` |
| `LocalApply` | 2 runs out of 16 requests, one failing call, one restart, fair | `LocalTypeOK`, `LifecycleLeavesNothing`, `ReusedContainerMatches`, `OneAgentAfterApply`, `ResponseIsThisRuns`, `TurnEndsTheProject`, `OneTimer`, `AwaitedImageIsComplete`, `EveryRunReturns`, `TimePolicyTakesEffect` |
| `SharedState` | two callers, 4 templates, 3 spec files, 2 interruptions, 1 outage, fair | `TurnsAreCounted`, `TemplatesAreAccounted`, `IdsAreStable`, `DropdownsRecover` |

### The bounds

* Runner: every property about reuse needs a pod of an earlier run and one that
  looks for it: two runs. The choice among several rows of a hash, and a run
  that finds the rows of a crashed run beside those of a finished one, needs
  three. A deployment of a database and an agent is the smallest with a
  dependency; the loop treats every dependency alike.
* Session: one retry reaches every branch of the retry loop, and two polls let
  the files change between polls.
* `PodControl`: two runs, so that a pod is bound to a row of a run that did not
  make it, and two faults, as many as a timer needs to exhaust its two attempts.
  With one clean-up per behaviour the route and the script do not overlap in the
  run; the theorems about them hold for any number of both.
* `WorkflowPlans`: two wirings reach every pair of nodes, which is where nodes
  meet in the code (merges of contracts, placeholders, order of commands); a
  change before the second run is every way in which two plans can differ by one
  step. `MCWorkflowPlanning` takes of every widget the values with a branch of
  their own.
* `LocalApply`: what a run meets is what one other run has left: two runs. Its
  requests are every reuse policy with two prompts, and each keep-alive, a
  volume with a database, a terminal, build, stop, terminate and plan once or
  twice. A limit of one turn reaches its end in one run.
* `SharedState`: increments begin until two have returned, so that two callers
  overlap twice. Two interruptions let the script be interrupted after it was
  interrupted. The spec file is empty, or has two keys, or has a key with an id
  of its own and another key twice, the second time with a null id; one template
  was made elsewhere, and there may be four, so that every save of the longest
  file can make one. A lifetime of one tick
  is a fresh and an expired answer.

The theorems do without a value for these bounds. Deadlock checking is off where
the runs are used up and all is at rest: the system may stop there.

`MCWorkflowPlanning` satisfies `WidgetsAssumption`, which says that widgets are
given values of the node's own lists (`INPUT_TYPES`); ComfyUI checks that.

### Conditions inside properties

Each names a case in which the code does not keep the plain property.

* `OneRunningPodPerHash` is about the policy `reuse_matching` (`always_create` is
  meant to start another), and a world in which nobody resumes an old pod by
  hand. `LifecycleLeavesNothingRunning` and `FailedRunsAreCleaned` make the same
  exception. `AgentAfterDependencies` is about runs whose pods nothing else
  stops: between the wait for a dependency and the launch the code does not look
  again.
* `CleanupReachesItsPods` is about a clean-up that has not raised: the first call
  that fails ends it, and the answer does not say what was done. What it has
  stopped may run again once the resume route, or a run under `resume_stopped`,
  has resumed it: nothing in the code keeps either from doing so while the clean-up
  goes on. What it has terminated stays terminated without exception.
  `TimerOutlastsErrors` does not speak of timeouts while reading, which no
  `except` of the timer catches.
* `TurnsAreCounted` bounds what overlapping increments lose, since they do lose
  (`increment_counter` reads before it takes a write lock).
  `TemplatesAreAccounted` does the same for interruptions between a save and the
  write of the map, and is silent on a file torn by a crash, which the script and
  the resolver cannot read any more. A template whose id the script has replaced in the map (a
  key named twice, an id in the spec, an update answered with another id) counts
  as accounted for: the code means to forget it.
* `IdsAreStable` keeps the id of a plain key, one that the spec file names once and
  gives no id, unless Runpod has answered an update of that id with another. That
  a key which resolves goes on to resolve has no exception but the torn file.
* `seen` of `LocalRuntime` collects what weakens a promise: a `ps` that failed
  (and looks like an empty project), an earlier script still at work when the
  outputs were cleared, a stop that failed.
* `OneTimer` is about a server that has not ended in the middle of a run:
  between `Popen` and the pid file nothing knows of the process.
* `AwaitedImageIsComplete` is about the builds that do wait, and one agent in the
  project: the commit takes whichever container of the role it finds.
* `LocalHashIsExact` promises reuse in a run of the same deployment (with another
  prompt, say) only where the agent has no service in a container of its own and
  no volume named after the pod: the names of those contain the workflow's hash.

### Fairness

`FairSpec` of `RunpodRunner` and `AgentSession` assumes weak fairness of the step
the runner is at: it is one thread of ComfyUI's executor, each of its waits has a
deadline, and each SSH and HTTP call a timeout. `RunpodRunner!FairSpec` also
assumes that each timer fires: it is a process of its own that sleeps and then
calls. Nothing is assumed of the provider, of pods coming up, of the harness,
or of the user starting another run.
`KeepAliveTakesEffect` is checked without API errors: a timer gives up after
its attempts. What an error does to a run is still there, as a lost answer, a
call on a pod that a timer has terminated, and a container that does not come up.

`LocalRuntime!FairSpec` makes the same two assumptions: a step of a run that is
under way (calls of the engine have a timeout, waits a deadline), and the timers'
sleep ends. Scripts and harnesses may hang for ever, a failing call may fail, and
no run needs to be started. `SharedState!FairSpec` assumes that time passes and
that the frontend asks for the nodes again; outages are bounded, as a cache
cannot help an API that never answers.

### Runs that end in a violation

Each checks one sentence of the repository's documents, and the counterexample
is a behaviour of the code.

| Run | Property | What happens |
| --- | --- | --- |
| `SessionWrongResponse` | `ResponseIsTheAgents` | on a reused pod the wait takes the previous response (and on a fresh one the harness's header, as soon as it is written) |
| `LocalBuildTooEarly` | `BuildWaitsForSetup` | a build without terminal or time policy commits a container whose script is still at its set-up |
| `LocalReuseTimer` | `ReuseRefreshesTimer` | an apply that reuses a container under a time policy waits for a script that ends in a sleep, times out, and returns an error without having scheduled its timer |

The quotations are in `PROJECT.json`, "findings". Behaviours of the code that
no document speaks against are hazards there, with a note in place of a property:
a failed run stops pods it only reused, a row goes on saying RUNNING of a pod
that is gone, a reused service keeps its old key, several Runpod timers on one
pod, a set-up command that timed out and still runs.

## 4. What is proved

The theorems hold for every number of runs, of faults, crashes and
interruptions, every set of hashes, of requests and of widget values, every
script, retry count and number of polls, every finite set of callers and every
set of spec files. They assume the named `ASSUME`s of the
modules, which TLC evaluates in the runs of these modules:

* `PodProvider`: `MaxRunsAssumption`, `FaultsAssumption`, `NoPodAssumption`;
  `RunpodRunner`: `RequestsAssumption`, `KeepAliveAssumption`,
  `OutsideAssumption` (a plan is not empty and names no hash twice; outside
  actions are the provider's).
* `AgentSession`: `CommandsAssumption`, `MaxPollsAssumption`.
* `PodControl`: `ManagedAssumption`, `NoRunAssumption`, `AttemptsAssumption`,
  `ControlBoundsAssumption`.
* `LocalRuntime`: `RequestsAssumption` (finitely many requests, each of the form
  the program takes) and `BoundsAssumption`.
* `TurnCounter`: `CallersAssumption` (finitely many), `MaxTurnsAssumption`;
  `TemplateAdmin`: `AbsentAssumption`, `SpecFilesAssumption` (a spec file is a list
  of entries, whatever they say), `TemplateBoundsAssumption`; `OptionsCache`: its
  bounds are numbers.
* `WorkflowPlanning`: `BoundsAssumption` and `WidgetsAssumption`.

### The runner

`RunpodRunnerProofs`, about `RunpodRunner!Spec`:

| Theorem | States | Inductive invariant |
| --- | --- | --- |
| `TypeCorrect` | `[]TypeOK` | `TypeInv` |
| `LedgerIsWrittenAhead` | `[]WriteAhead` | `LedgerInv` |
| `LedgerIsTruthful` | `[]LedgerNamesRealPods` | `LedgerInv` |
| `OrphansAreAdopted` | `[]OrphansAdopted` | `AdoptInv` |
| `RunnerAccountsForPods` | `ImplementsAccounting`, the refinement of `PodAccounting` | `TypeInv`, `LedgerInv` |
| `TimersStayLedgered` | `[]TimersAreLedgered` | `TimerInv` |
| `LifecycleIsPlanned` | `LifecycleKeepsToItsPlan` | `TodoIsPlanned` |
| `CompletedRunsLeaveNoGap` | `[]CompletedRunsAreWhole` | `WholeInv` |
| `PodsHaveTheirVolumes` | `[]VolumesComeFirst` | `VolumeInv` |
| `AgentComesLast` | `[]AgentAfterDependencies` | `OrderInv` |

* `TypeInv` adds to `TypeOK` what the control of the code guarantees and its
  types do not say: `Control` (where the loops stand at each step: a position in
  the plan, rows to visit only inside the loops), `Holding` (a step that uses a
  pod has one) and `Dated` (no row is younger than the clock, so that the newest
  row of a non-empty set exists: `NewestIsAMember`). Without them `idx + 1` may
  leave the plan and a row visited may have no pod.
* `LedgerInv` adds to the two properties that what the runner holds or was told
  by `list_pods` exists, that the resource at hand is announced, and `Untouched`:
  what is still to come has no pod and no pod in its row. The last is what makes
  a row's pod never change, `RowsKeepTheirPods`, the lemma that most others
  rest on. `QuietSteps` shows that all actions but four leave the rows' pods and
  the set of created pods alone, so that each later proof has four cases.
* `AdoptInv` adds that during reconciliation a live pod of an earlier run is in
  the ledger or in the listing still to be recorded.
* `RunnerAccountsForPods`: the initial stages are `unknown`, and a step of the
  runner moves one pod by one stage or none (`OneStageMoves`).
* `TimerInv` adds that the agent is bound when a timer is started; a row's pod
  does not change after that.
* `WholeInv` adds that in a run that has not failed only the resource at hand
  may be without its pod, and that later runs have no rows.
* `VolumeInv` adds that what the loop of `_apply` is going to create has its
  volume; the loop is entered from `CreateVolumes` only (`BuildingIsEntered`).
* `OrderInv` is about a world in which nothing else acts on pods. It adds that
  ports seen in a pod dict belong to a container that answers, and that the
  position is the first one until `_apply` begins. `PodsStayUp` shows that only
  `Act`, `CleanupRow` and `KeepAlive` take a pod down; the plan naming no hash
  twice is what keeps `KeepAlive` off the dependencies.

`RunnerReuseProofs` builds on these:

| Theorem | States | Inductive invariant |
| --- | --- | --- |
| `FailuresAreCleaned` | `FailedRunsAreCleaned` | `CleaningInv` |
| `ReuseKeepsOneRunning` | `[]OneRunningPodPerHash` | `RemoteInv`, `ReusedInv` |
| `LifecycleStopsThePlan` | `LifecycleLeavesNothingRunning` | `VisitingInv`, `RemoteInv` |

* `ReuseKeepsOneRunning` is about the choice among rows: `Newest` goes by
  `created_at`, which an upsert never refreshes, while a pod may have two rows of
  different ages, its run's own and the one of a reconciliation. That the choice
  falls on the right pod is not visible in any one step. `RemoteInv` says what
  reconciliation has written and when: past it every live pod of an earlier run
  has the row named after it (`Reconciled`), and a pod of a hash is only created
  after those before it were listed (`Succession`). From that follows `Ordered`:
  rows that name earlier pods of a hash are older than the row of a later one
  that was listed. So the newest row names the latest pod, and only the latest
  may run (`OnlyLatestRuns`). Since a run that is to reuse and finds a pod
  running never creates (`ChosenWell`), a second one does not arise. Resumes by
  hand break `OnlyLatestRuns`, which is why the property excepts them.
* `VisitingInv`: every running pod of the plan has a row still to be visited;
  `Reconciled` provides it when the loop begins, and no step that is not the
  loop's own starts a pod.
* `CleaningInv` says of a failed run's rows what `FailedRunsAreCleaned` says at
  the end, but for rows still to be visited.

### Session, timers, routes

`AgentSessionProofs`, about `AgentSession!Spec`: `SessionIsTyped`,
`SetupComesFirst` (`SetupBeforeLaunch`), `RetriesAreBounded`
(`RetriesBounded`) and `CommandRowsAreTruthful` (`RowsAreTruthful`). `TypeInv`
adds to `SessionTypeOK` where the session stands in its script; `SafeInv` adds
that calls not made have no command, that only a retried command is beyond its
first call, that every command before the position was passed with success or by
its policy, and that the launch comes after all of before_start.

`PodControlProofs`, about `PodControl!Spec`, for any number of runs, clean-ups,
timers, attempts and faults:

| Theorem | States |
| --- | --- |
| `CleanupsReachTheirPods` | `[]CleanupReachesItsPods` |
| `CleanupsKeepToTheirRun` | `[]CleanupKeepsToItsRun` |
| `TimersOutlastErrors` | `[]TimerOutlastsErrors` |

All three come from `ControlInvariant`, whose `Inv` adds to the properties and
`ControlTypeOK`: `PodsExist` (rows name pods that were deployed, so that what a
clean-up lists was), `AttemptsWereFaults` (the attempt a timer is at has that
many faults behind it, or its pod is purged), `IdsAreOfTheRun` (the ids that a
clean-up read from the ledger are still in it: rows are never deleted) and
`ListsFirst` (before the list there is nothing to do and nothing done). The
hazard is in `CleanupReachesItsPods`: between the clean-up's call and its end a
run or a route may resume what it has been through. `Moves` is what every step
keeps of the pods: none is created twice, and what is terminated stays gone.
`ExecuteMoves` and `FailureMoves` say what a call does to one pod and leaves of the
others, `CallPreserves` treats the calls of runs and of routes alike, and the
clean-up's own steps are reduced to the one job they replace (`JobReplaced`).

`LedgerIsWrittenAhead`, `TimersStayLedgered` and `RetriesAreBounded` state
properties that no run checks any more: the theorem covers them.

### Counters and templates

`SharedStateProofs`, about `SharedState!FairSpec`:

| Theorem | States | Inductive invariant |
| --- | --- | --- |
| `TurnsStayCounted` | `[]TurnsAreCounted` | `CounterInv` |
| `TemplatesStayAccounted` | `[]TemplatesAreAccounted` | `TemplateInv` |
| `IdsStayStable` | `IdsAreStable` | `TemplateInv` |

`CounterInv` adds what the callers owe that have read and not yet written
(`ReadsLagBehind`): of the increments that have returned or are owed, all but one
began beside another or are in what each owing caller has read, and in the ledger.
With one increment under way nothing is lost; each further one may cost a turn.

`TemplateInv` adds what the script holds at each of its calls
(`MapFollowsTheScript`): what it is about to write differs from the file only in
the key it is at, so that no key is dropped, and a plain key that is still to
come has in the file the id that was loaded, so that the script asks for an update of
that template and makes no second one. The count of templates without a
name grows only with `lost` (`LostOnesAreCounted`).

### Local containers

`LocalRuntimeProofs`, about `LocalRuntime!Spec`, has one inductive invariant,
`LocalInv`, of eleven parts: what the program is about at each of its points
(`ControlOK`), what containers, processes and files there can be (`ContainersOK`,
`ProcessesOK`, `FilesOK`), and for each property what it needs at the points
before it holds.

| Theorem | States | Part of `LocalInv` |
| --- | --- | --- |
| `LocalTypes` | `[]LocalTypeOK` | `ContainersOK`, `ProcessesOK`, `FilesOK` |
| `LocalLifecycleIsComplete` | `[]LifecycleLeavesNothing` | `LifecycleInv` |
| `ReuseIsExact` | `[]ReusedContainerMatches` | `ReuseInv` |
| `ApplyLeavesOneAgent` | `[]OneAgentAfterApply` | `OneAgentInv` |
| `ResponseBelongsToTheRun` | `[]ResponseIsThisRuns` | `ResponseInv` |
| `TurnLimitTakesEffect` | `[]TurnEndsTheProject` | `TurnInv` |
| `TimersDoNotAddUp` | `[]OneTimer` | `TimerInv` |
| `AwaitedBuildIsComplete` | `[]AwaitedImageIsComplete` | `ImageInv` |

Containers stop, scripts go on and timers fire at any time beside the program.
The proof treats all of that once: only three calls set something going
(`compose start`, `exec`, `compose up`), and after any other step what there is of
containers and processes has been there before (`Remain`). Each part is then
looked at under `Remain`, under the three calls and under a new run. `ResponseInv`
is the one that needs history: if nothing was at work when the outputs were
cleared, then every script still at its set-up and every harness is this run's,
so that nobody else can write a response. `OneAgentInv` needs that an apply that
gets as far as `compose up` has found a service missing and taken the project
down, so that whatever runs afterwards carries the number of this run.

### From the workflow to the plan

`WorkflowPlanningProofs`, about `WorkflowPlanning!Spec`:

| Theorem | States |
| --- | --- |
| `PortsStayWithTheirPod` | `[]PortsBelongToTheirPod` |
| `AddressesAreResolved` | `[]AddressesResolve` |
| `HashesCoverPods` | `[]HashCoversThePod` |

The inductive invariant `PlanInv` says that every slot holds what its node's build
method makes (`PartsOK`), that the plan is the one of the workflow as it is, and
that the one before it is a plan of some such workflow. `PartsOK` is what nodes
keep apart: the contract of a node has the ports of its slot, sets variables of
its slot only, and has a placeholder for its own service exactly if it is in a
pod of its own; one lemma per node shows it (`BrowserNodeOK`, ...). The
theorems are then about `Planner.build`:

* ports: merging adds up the ports of the contracts merged (`MergedIsClean`), and
  the local contract is merged from those in the agent's pod only
  (`LocalContractsAre`);
* addresses: since no two slots share a variable, and none has one that
  `with_env` sets, a later contract never overwrites the address that an earlier one
  brought (`MergedTells`); and a secret is resolved only where it is the whole value
  (`SecretKeepsAddresses`);
* hashes: two agents of one hash differ in what Deploy adds. `SameContract`
  relates contracts that are equal outside these variables, of secrets the last
  for a variable, which is the one that counts (`LastOfConcatenation`); merging,
  `with_env` and `contract_env_for_creation` keep the relation, and S3 opens no
  port.

`MergeContracts` joins two contracts, `EnvForCreation` speaks of the last secret
for a variable, `SortedByOrder` and `ItemsAt` of the rank of an item, where the code
loops over lists: the loops have no induction that the proof system could follow,
and these forms say the same without (`MCWorkflowPlanning` compares `ItemsAt` with
`SelectSeq`). For the same reason choices between conditions that overlap are
written with IF (the code's if/elif), of which the first counts, and not with CASE.

### The commands of a plan

`CommandOrderProofs`, about `WorkflowPlanning!Spec` too:

| Theorem | States |
| --- | --- |
| `CommandsRunInOrder` | `[]CommandsInOrder` |
| `ScriptRunsCommands` | `[]ScriptRunsItsCommands` |
| `LocalHashesAreExact` | `[]LocalHashIsExact` |

The inductive invariant `CommandInv` is `PlanInv` with three additions about what
nodes contribute, for which `PlanInv` has no need: generated commands are for
before the start and of an order above the web terminal's, which alone has the
lowest (`Generated`; one that came before it could end the set-up with no way to
look into it); the user's commands are in their order, as the node that appends
one sorts them; and a contract's environment does not contradict its secrets
(`SecretsTold`), each slot having its own (`SecretVarsFor`). One lemma per node
shows it (`BrowserNodeFits`, ...), and `MergedFits` of what `Planner.build` merges.

* Order of commands. A filter and a stable sort both list an index set in some
  order. `Rank` counts what is before an index; the rank is a bijection onto
  `1 .. n` (`RankIsBijective`), so that the list is known by its enumeration
  (`Enumerates`), which increases in that order and is the only one that does
  (`EnumerationIsRank`). From that: a filter keeps order and number, a sort keeps
  number (`SortedKeeps`), a filter of a concatenation is the concatenation of the
  filters (`KeptOfConcatenation`), and a list that was in order is not changed by
  sorting. `Planner._actions` sorts and filters two lists five times; `InOrder`
  is the list of commands that this amounts to, `InOrderIsArranged` says it is in
  the order of stages, sources and orders, and `InOrderHasAll` that it has every
  command as often as asked. `Carries` leads from commands to the actions that run
  them, and `LaunchesAt` to where the launch is among those.
* The script. Its lines are numbered over the commands of before_start and then
  those for after the launch, the files over all commands of the plan. Both are
  filters of one list of actions (`LocalPhases`, `ScriptIs`, `FileAt`), and that
  list is made of the first, the second and the teardown, in this order
  (`PhasesInOrder`), so that the numbers agree.
* The hash of the container. `SameDeploymentSameHash` is the direction of reuse.
  For the other one `HashSays` takes the hash apart, and the files of equal scripts
  are equal (`SameFiles`). The hash covers the container's environment, which has
  each secret as a variable, while a session is given the variables of the
  contract. `SameSession` needs `SecretsTold` for that: a variable that the contract
  of one plan tells and the other has as a secret only would have different
  values in the two containers (`SessionVariable`).

### Only model-checked

Every invariant and every safety property of a step that a passing run checks is
stated by a theorem. What is left is

* Liveness, which with ENABLED is out of reach of the proof system:
  `EveryRunReturns` and `KeepAliveTakesEffect` of the runner, `EveryRunReturns`
  and `TimePolicyTakesEffect` of the local runtime, `SessionEnds`,
  `DropdownsRecover`.

## 5. What is not modelled, and why

* Shell texts: the pod-side keep-alive script (`runner.py` 544-573), harness
  scripts, set-up commands, start-up scripts. Their effect is in `AgentSession`
  and `LocalRuntime` (exit codes, files), and which of them run and in which
  order in `ComposeProject`; their wording is not.
* ComfyUI's interrupt, which is raised out of `_progress_step`: it takes the
  same `except` branch as an error, at points where the model allows an error.
* The cost limit: it reads `uptimeInSeconds`, and acts like the turn limit.
* Several resources that share a volume by key: volumes are counted by resource.
  That a run which reuses its pods creates volumes that nothing mounts can be
  seen in the model and is not stated as a property.
* The manual start-up mode with a pod-side timer, which launches a timer and no
  agent.
* Generated tokens and passwords are constant texts. That a reused service keeps
  its old one is a hazard with a note.
* The terminal proxy of `routes.py` and the routes that only read: bytes in,
  bytes out.
* Local containers: copying a response image, reading logs, the differences
  between the engines, and the push of a committed image. They read, or follow
  the last step of the model.
* Nodes that handle texts, JSON and logs; in the others the names, models, paths
  and prompts, of which one or two values stand for all. In plans mount paths,
  disk sizes, GPU types, the ssh key and warnings.
* `setup_commands.py`, `config.py`: texts and input checks without state. A
  set-up text is one command of a contract.
* Whether Runpod and the container engine keep what their interfaces say: the
  models assume what the code assumes. `PodProvider` marks it external.

## 6. Plan

Done: the runner with its ledger, provider, session and accounting; those who act
on pods beside it; the nodes, the planner and the compose project; the local
runtime with the container build; the counter, the template map and the cache.
Every safety property of the passing runs is a theorem. Not done: compositions,
that is `AgentSession` as the inside of `RunAgent`, and the scripts that
`DeploymentPlanner` makes as the scripts of `AgentSession`, each by refinement.
