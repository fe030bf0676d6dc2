-------------------------- MODULE WorkflowPlanning --------------------------
(***************************************************************************)
(* A user wires nodes to an agent, queues the workflow, changes something  *)
(* and queues it again.  ComfyUI then executes the nodes (nodes.py), the   *)
(* last of which plans the deployment (planner.py) for Runpod or for local *)
(* containers (local_runtime.py).  This module composes the three; its     *)
(* properties are what the runner and the local runtime rely on when they  *)
(* compare the hashes of two plans and carry out the later one.            *)
(***************************************************************************)
EXTENDS ComposeProject

CONSTANTS
  Widgets,   \* for every kind of node, the widget values it is given
  MaxWires,  \* bound: changes before the first run
  MaxEdits   \* bound: changes between the first run and the second

ASSUME BoundsAssumption == MaxWires \in Nat /\ MaxEdits \in Nat

\* Widgets are given values that ComfyUI accepts for them.
ASSUME WidgetsAssumption ==
  /\ Widgets.browser \subseteq BrowserWidgets
  /\ Widgets.terminal \subseteq TerminalWidgets
  /\ Widgets.llm_server \subseteq LLMServerWidgets
  /\ Widgets.llm_api \subseteq LLMApiWidgets
  /\ Widgets.sql \subseteq RemoteSQLWidgets
  /\ Widgets.local_sql \subseteq LocalSQLWidgets
  /\ Widgets.vector \subseteq VectorWidgets
  /\ Widgets.mcp \subseteq MCPWidgets
  /\ Widgets.s3 \subseteq S3Widgets
  /\ Widgets.command \subseteq SSHCommandWidgets
  /\ Widgets.setup \subseteq SetupWidgets
  /\ Widgets.skill \subseteq SkillWidgets
  /\ Widgets.framework \subseteq SkillFrameworkWidgets

VARIABLES
  parts,     \* the workflow: the spec that is wired to each slot,
  agent,     \* the widgets of the agent node,
  prompt,    \* and the text given to the run node
  stage,     \* "editing", "planned", or "rejected" by a ValidationError
  changes,   \* changes since the last run
  runs,      \* runs so far
  plan,      \* the plan of the last run,
  last       \* and of the one before it

vars == <<parts, agent, prompt, stage, changes, runs, plan, last>>

AgentSlots == ServiceSlots \union {"mcp", "skills", "subagents", "terminal"}
Slots == AgentSlots \union {"commands", "storage", "s3", "keep_alive"}

Deployment ==
  WithTerminalOptions(
    DeployNode(AgentNode(agent, [s \in AgentSlots |-> parts[s]], "agent"),
               parts.storage, parts.s3, parts.commands, parts.keep_alive),
    1)

NoPlan == [resources |-> <<>>, actions |-> <<>>, contract |-> EmptyContract]

Init ==
  /\ parts = [s \in Slots |-> None] /\ prompt = "first"
  /\ agent = [harness |-> "codex", startup |-> "wait_for_commands", image |-> ""]
  /\ stage = "editing" /\ changes = 0 /\ runs = 0
  /\ plan = NoPlan /\ last = NoPlan

Change ==
  /\ changes < IF runs = 0 THEN MaxWires ELSE MaxEdits
  /\ runs < 2
  /\ changes' = changes + 1 /\ stage' = "editing"
  /\ UNCHANGED <<runs, plan, last>>

\* A node whose build raises stops the run; nodes are wired that do not.
Wire(slot, spec) ==
  /\ Change /\ parts[slot] # spec
  /\ parts' = [parts EXCEPT ![slot] = spec]
  /\ UNCHANGED <<agent, prompt>>

WireBrowser ==
  \E w \in Widgets.browser, s \in Widgets.mounted:
    BrowserAccepts(w) /\ Wire("browser", BrowserNode(w, s, "browser"))

WireTerminal ==
  \E w \in Widgets.terminal:
    TerminalAccepts(w) /\ Wire("terminal", WebTerminalNode(w, "terminal"))

WireLLMServer ==
  \E w \in Widgets.llm_server, s \in Widgets.mounted:
    LLMServerAccepts(w) /\ Wire("llm", LLMServerNode(w, s, "llm"))

WireLLMApi == \E w \in Widgets.llm_api: Wire("llm", LLMApiNode(w, "llm"))

WireSQL ==
  \/ \E w \in Widgets.sql, s \in Widgets.mounted:
       Wire("sql", RemoteSQLNode(w, s, "sql"))
  \/ \E w \in Widgets.local_sql: Wire("sql", LocalSQLNode(w, "sql"))

WireVector ==
  \E w \in Widgets.vector, s \in Widgets.mounted:
    VectorAccepts(w) /\ Wire("vector", VectorNode(w, s, "vector"))

\* The nodes of a chain are added to the end of it.
AddMCPServer ==
  \E w \in Widgets.mcp:
    MCPAccepts(w) /\ Wire("mcp", MCPServerNode(w, parts.mcp, "mcp"))

AddSubagent ==
  \E w \in Widgets.subagent:
    /\ SubagentAccepts(w, parts.subagents)
    /\ Wire("subagents", SubagentNode(w, parts.subagents, "subagents"))

AddSkill ==
  \/ \E w \in Widgets.skill:
       SkillAccepts(w) /\ Wire("skills", SkillNode(w, parts.skills, "skills"))
  \/ \E w \in Widgets.framework:
       /\ SkillFrameworkAccepts(w)
       /\ Wire("skills", SkillFrameworkNode(w, parts.skills, "skills"))

AddCommand ==
  \/ \E w \in Widgets.command:
       Wire("commands", SSHCommandNode(w, parts.commands, "commands"))
  \/ \E w \in Widgets.setup:
       Wire("commands", SetupNode(w, parts.commands, "commands"))

WireStorage ==
  \/ \E w \in Widgets.storage: Wire("storage", NetworkStorageNode(w, "storage"))
  \/ \E w \in Widgets.s3: Wire("s3", S3StorageNode(w, "s3"))

WireKeepAlive ==
  \E w \in Widgets.keep_alive: Wire("keep_alive", KeepAliveNode(w, "keep"))

Unwire == \E s \in Slots: Wire(s, None)

SetAgent ==
  \E w \in Widgets.agent:
    Change /\ agent # w /\ agent' = w /\ UNCHANGED <<parts, prompt>>

TypePrompt ==
  Change /\ runs > 0 /\ prompt' = "second" /\ UNCHANGED <<parts, agent>>

\* The run node: RunOnRunpod and RunLocalContainers plan alike.
Run ==
  /\ stage = "editing" /\ runs < 2 /\ Plannable(Deployment)
  /\ last' = plan
  /\ plan' = Plan(Deployment, runs + 1, prompt)
  /\ stage' = "planned" /\ runs' = runs + 1 /\ changes' = 0
  /\ UNCHANGED <<parts, agent, prompt>>

RunRejected ==
  /\ stage = "editing" /\ ~Plannable(Deployment)
  /\ stage' = "rejected"
  /\ UNCHANGED <<parts, agent, prompt, changes, runs, plan, last>>

Next ==
  \/ WireBrowser \/ WireTerminal \/ WireLLMServer \/ WireLLMApi \/ WireSQL
  \/ WireVector \/ AddMCPServer \/ AddSubagent \/ AddSkill \/ AddCommand
  \/ WireStorage \/ WireKeepAlive \/ Unwire \/ SetAgent \/ TypePrompt
  \/ Run \/ RunRejected

Spec == Init /\ [][Next]_vars

-----------------------------------------------------------------------------
Planned == stage = "planned"
Resources(p) == Range(p.resources)
Agent(p) == CHOOSE r \in Resources(p): r.role = "agent"
CommandsRun(p) ==
  LET runs_ == ItemsAt(p.actions, {i \in DOMAIN p.actions:
                                     p.actions[i].do = "RUN_SSH_COMMAND"})
  IN  [i \in DOMAIN runs_ |-> runs_[i].command]
Position(p, do) == CHOOSE i \in DOMAIN p.actions: p.actions[i].do = do

(***************************************************************************)
(* The commands of a plan are those that the nodes asked for, each once:   *)
(* first what the nodes generate for before the start, lowest order first, *)
(* then the user's in the order in which they were wired, then the launch; *)
(* what is to run after it follows it in the same way, teardown last.      *)
(* (Planner._actions sorts and filters the two lists five times over.)     *)
(* So a web terminal is up before any command that may end the start.      *)
(***************************************************************************)
CommandsInOrder ==
  Planned =>
    LET user == CommandsOf(parts.commands)
        made == plan.contract.commands
        done == CommandsRun(plan)
        launch == Position(plan, "LAUNCH_AGENT")
        Stage(c) == CASE c.phase = "before_start" -> 0
                      [] c.phase = "teardown" -> 2
                      [] OTHER -> 1
        At(i) == CHOOSE n \in DOMAIN plan.actions:
                   /\ plan.actions[n].do = "RUN_SSH_COMMAND"
                   /\ Cardinality({m \in 1..n:
                        plan.actions[m].do = "RUN_SSH_COMMAND"}) = i
        Asked(c) == Cardinality({i \in DOMAIN user: user[i] = c})
                      + Cardinality({i \in DOMAIN made: made[i] = c})
    IN  /\ Len(done) = Len(user) + Len(made)
        /\ \A c \in Range(done):
             Cardinality({i \in DOMAIN done: done[i] = c}) = Asked(c)
        /\ \A i \in DOMAIN done: (Stage(done[i]) = 0) = (At(i) < launch)
        /\ \A i, j \in DOMAIN done: i < j =>
             \/ Stage(done[i]) < Stage(done[j])
             \/ /\ Stage(done[i]) = Stage(done[j])
                /\ \/ done[i] \in Range(made) /\ done[j] \in Range(user)
                   \/ done[i].order <= done[j].order
        /\ Wired(parts.terminal) =>
             /\ done[1].what = "web_terminal"
             /\ \A i \in DOMAIN done: done[i].policy = "fail" => i > 1

(***************************************************************************)
(* run-agent.sh runs the files that were written for it: every line names  *)
(* a file that exists and holds the command the plan has in that place.    *)
(* (The files and the lines of the script are numbered independently.)     *)
(***************************************************************************)
ScriptRunsItsCommands ==
  Planned =>
    LET lines == RunScript(plan)
        script == ItemsAt(lines, {i \in DOMAIN lines: lines[i][1] = "run"})
        files == CommandFiles(plan)
        done == InPhase(CommandsRun(plan), Phases \ {"teardown"})
    IN  /\ \A i \in DOMAIN script: script[i][2] \in DOMAIN files
        /\ [i \in DOMAIN script |-> files[script[i][2]]] = done

(***************************************************************************)
(* A pod is reused for another one of equal hash.  What its node decides   *)
(* about it is then equal too: the template, the image, the ports, a       *)
(* volume of its node and the environment, except for what names the run   *)
(* and what Deploy adds to the agent (S3, keep-alive).  And while the hash *)
(* of the agent, which has the addresses of its services from when it was  *)
(* created, is unchanged, so is that of every service it uses.             *)
(***************************************************************************)
PerRun == {"CRAG_RUN_ID", "CRAG_WORKFLOW_HASH", "AGENT_PROMPT"}
FromDeploy == {"S3_ENDPOINT", "S3_BUCKET", "S3_REGION", "AWS_ACCESS_KEY_ID",
               "AWS_SECRET_ACCESS_KEY", "CRAG_KEEP_ALIVE_MODE",
               "CRAG_KEEP_ALIVE_ACTION", "CRAG_KEEP_ALIVE_ENFORCEMENT"}
Hashes(p) == {<<r.role, r.hash>> : r \in Resources(p)}

HashCoversThePod ==
  Planned =>
    /\ \A new \in Resources(plan), old \in Resources(last):
         new.role = old.role /\ new.hash = old.hash =>
           /\ new.template = old.template /\ new.image = old.image
           /\ new.ports = old.ports
           /\ Without(new.env, PerRun \union FromDeploy)
                = Without(old.env, PerRun \union FromDeploy)
           /\ new.role # "agent" => new.policy = old.policy
    /\ runs = 2 /\ Agent(plan).hash = Agent(last).hash =>
         Hashes(plan) = Hashes(last)

(***************************************************************************)
(* In a compose project no address is left unresolved, and whatever the    *)
(* agent is told about the address of a service names the service that     *)
(* this project starts in that role.                                       *)
(***************************************************************************)
AddressesResolve ==
  Planned =>
    /\ \A r \in Resources(plan):
         \A f \in UNION Range(ComposeEnv(r, plan)): f[1] # "crag"
    /\ \A r \in Resources(plan) \ {Agent(plan)}:
         \E v \in Range(SessionEnv(plan)): <<"service", r.name>> \in v

(***************************************************************************)
(* A pod opens the ports of the nodes placed in it, and ssh; the port of   *)
(* a service in a pod of its own is not opened on the agent's too.         *)
(***************************************************************************)
PortsBelongToTheirPod ==
  Planned =>
    LET Opened(role) == UNION {Range(r.ports) : r \in
                               {x \in Resources(plan): x.role = role}}
        Own(s) == Wired(parts[s]) /\ parts[s].kind # "llm_api"
                    /\ parts[s].placement = "own_pod"
    IN  /\ \A s \in ServiceSlots:
             Range(ContractOf(parts[s]).ports) \subseteq
               Opened(IF Own(s) THEN s ELSE "agent")
        /\ \A r \in Resources(plan):
             Cardinality({p \in Range(r.ports): p.port = 22}) = 1
        /\ \A s \in ServiceSlots: Own(s) =>
             Range(parts[s].contract.ports) \intersect Opened("agent") = {}

(***************************************************************************)
(* A local container is used again exactly where it may be.  A run of the  *)
(* same deployment, be its prompt another one, finds the container of the  *)
(* run before it by its hash, where no service has a pod of its own and no *)
(* volume is named after the pod.  (With those it does not: the names of   *)
(* pods carry the workflow's hash, and end up in the agent's environment   *)
(* and volume.)                                                            *)
(* And where the hash is unchanged, so are the script in the container,    *)
(* its commands, its volume and the session's environment, except for what *)
(* names the run.                                                          *)
(***************************************************************************)
LocalHashIsExact ==
  Planned /\ runs = 2 =>
    LET same == LocalDesiredHash(Agent(plan), plan)
                  = LocalDesiredHash(Agent(last), last)
    IN  /\ plan.deployment_hash = last.deployment_hash
             /\ Resources(plan) = {Agent(plan)}
             /\ Agent(plan).volume = Agent(last).volume => same
        /\ same =>
             /\ RunScript(plan) = RunScript(last)
             /\ \A f \in DOMAIN CommandFiles(plan) \intersect DOMAIN CommandFiles(last):
                  f[2] # "teardown" => CommandFiles(plan)[f] = CommandFiles(last)[f]
             /\ Without(SessionEnv(plan), PerRun) = Without(SessionEnv(last), PerRun)
             /\ VolumeMount(Agent(plan)) = VolumeMount(Agent(last))
=============================================================================
