-------------------------- MODULE DeploymentPlanner --------------------------
(***************************************************************************)
(* planner.py with validation.py and template_resolver.py: from the spec   *)
(* of a deployment to the plan that the runner and the local runtime carry *)
(* out.                                                                    *)
(*                                                                         *)
(* A hash is the value it is computed from: two hashes are equal exactly   *)
(* when those are.                                                         *)
(***************************************************************************)
EXTENDS WorkflowNodes

(***************************************************************************)
(* Deploy and Run on Runpod                                                *)
(***************************************************************************)
ServiceSlots == {"llm", "sql", "vector", "browser"}

StorageOf(spec) ==
  IF spec.kind \in {"browser", "llm_server", "sql_database", "vector_database"}
  THEN spec.storage ELSE None

NetworkStorages(d) ==
  {s \in {d.storage} \union {StorageOf(d.app.parts[x]) : x \in ServiceSlots}:
     Wired(s)}

\* DeployNode.build, with the defaults that Run on Runpod replaces.
DeployNode(app, storage, s3, commands, keepAlive) ==
  [app |-> app, storage |-> storage, s3 |-> s3, commands |-> commands,
   keep_alive |-> keepAlive, gpu_count |-> 1]

ValidDeployment(d) ==
  /\ d.app.parts.sql.kind = "sql_database" /\ d.app.parts.sql.engine = "sqlite" =>
       d.app.parts.sql.contract.env.DATABASE_PATH = Text("inside")
  /\ \A s \in NetworkStorages(d):
       s.volume_id # "" \/ (s.size_gb > 0 /\ s.data_center # "")
  /\ Wired(d.s3) => d.s3.access # "" /\ d.s3.secret # ""

\* gpu_count = 0 asks for a CPU pod.
WithTerminalOptions(d, gpu_count) == [d EXCEPT !.gpu_count = gpu_count]

(***************************************************************************)
(* Templates                                                               *)
(***************************************************************************)
CapabilitiesOf(harness) ==
  {"ollama", "vllm"} \union
    (IF harness \in {"codex", "claude", "opencode"} THEN {"playwright"} ELSE {})

\* resolve_agent raises otherwise.
Resolvable(harness, capabilities) ==
  /\ \A i \in DOMAIN capabilities: capabilities[i] \in CapabilitiesOf(harness)
  /\ Len(capabilities) <= 1

ResolveAgent(harness, capabilities) ==
  IF capabilities = <<>> THEN <<harness>> ELSE <<harness, capabilities[1]>>

ResolveApp(kind, engine) == <<kind, engine>>

(***************************************************************************)
(* Planner.build                                                           *)
(***************************************************************************)
ManagedName(workflow, role, id, hash) ==
  [workflow |-> workflow, role |-> role, node |-> id, hash |-> hash]

InOwnPod(d, role) ==
  Wired(d.app.parts[role]) /\ d.app.parts[role].placement = "own_pod"

OwnPodDependencies(d) ==
  LET If(role) == IF InOwnPod(d, role) THEN <<role>> ELSE <<>>
  IN  If("llm") \o If("sql") \o If("vector") \o If("browser")

\* The pod of a service does not get the address of itself.
DependencyPodContract(role, contract) ==
  LET env == contract.env
      own == CASE role = "llm" ->
                    (IF env.LLM_PROVIDER = Text("ollama")
                     THEN [OLLAMA_HOST |-> Text("0.0.0.0")] ELSE <<>>)
                      ## Without(env, {"OPENAI_BASE_URL"})
               [] role = "browser" ->
                    Without(env, {"NEKO_URL", "PLAYWRIGHT_WS_ENDPOINT"})
               [] role = "sql" -> Without(env, {"DATABASE_URL"})
               [] OTHER -> Without(env, {"VECTOR_URL"})
  IN  [contract EXCEPT !.env = own]

LocalContracts(d) ==
  LET p == d.app.parts
      Here(role) == IF Wired(p[role]) /\ ~InOwnPod(d, role)
                    THEN p[role].contract ELSE EmptyContract
      OfKind(kind) == IF p.llm.kind = kind THEN Here("llm") ELSE EmptyContract
  IN  d.app.contract ++ Here("browser") ++ OfKind("llm_server") ++ Here("sql")
        ++ Here("vector") ++ OfKind("llm_api") ++ ContractOf(d.s3)

KeepAliveEnv(policy) ==
  IF ~Wired(policy) \/ policy.mode = "manual" THEN <<>>
  ELSE [CRAG_KEEP_ALIVE_MODE |-> Text(policy.mode),
        CRAG_KEEP_ALIVE_ACTION |-> Text(policy.action),
        CRAG_KEEP_ALIVE_ENFORCEMENT |-> Text(policy.enforcement)]

\* workflow stands for the hash of the workflow's graph and, since a run is
\* planned once in the model, for the run id, which is new in every plan.
AgentContract(d, workflow, prompt) ==
  LET Service(role) == IF InOwnPod(d, role) THEN d.app.parts[role].contract
                       ELSE EmptyContract
      all == LocalContracts(d) ++ Service("llm") ++ Service("sql")
               ++ Service("vector") ++ Service("browser")
      run == [CRAG_RUN_ID |-> {<<"run", workflow>>}, CRAG_ROLE |-> Text("agent"),
              CRAG_WORKFLOW_HASH |-> {<<"workflow", workflow>>},
              AGENT_PROMPT |-> Text(prompt)]
  IN  WithEnv(WithEnv(all, run), KeepAliveEnv(d.keep_alive))

EnsureSSHPort(ports) ==
  IF \E i \in DOMAIN ports: ports[i].port = 22 THEN ports
  ELSE Append(ports, Port("ssh", 22, "public"))

VolumeOf(storage, name) ==
  IF ~Wired(storage) THEN [kind |-> "none"]
  ELSE IF storage.volume_id # ""
       THEN [kind |-> "existing", name |-> <<"volume", storage.volume_id>>]
       ELSE [kind |-> "create", size_gb |-> storage.size_gb,
             name |-> IF storage.name = "" THEN <<"pod", name>>
                      ELSE <<"volume", storage.name>>]

Lifetime(policy) ==
  IF /\ Wired(policy) /\ policy.mode = "time" /\ policy.limit > 0
     /\ policy.enforcement \in {"server_side", "both"}
  THEN policy.action ELSE "none"

PodInput(d, template, name, role, id, hash, contract, ports, storage) ==
  [role |-> role, node |-> id, hash |-> hash, name |-> name,
   template |-> template, image |-> IF role = "agent" THEN d.app.image ELSE "",
   env |-> [CRAG_NODE_ID |-> Text(id), CRAG_ROLE |-> Text(role),
            CRAG_DESIRED_HASH |-> {<<"hash", hash>>}] ## EnvForCreation(contract),
   ports |-> EnsureSSHPort(ports), gpu_count |-> d.gpu_count,
   volume |-> VolumeOf(storage, name), policy |-> storage,
   expires |-> Lifetime(d.keep_alive)]

\* stable_hash(to_plain(spec)): what the hash of a service's pod is taken of.
DependencyHash(spec) == spec

DependencyPod(d, workflow, role) ==
  LET spec == d.app.parts[role]
      hash == DependencyHash(spec)
      contract == DependencyPodContract(role, spec.contract)
      name == ManagedName(workflow, role, spec.id, hash)
  IN  PodInput(d, ResolveApp(spec.kind, spec.engine), name, role, spec.id, hash,
               contract, contract.ports, spec.storage)

\* Mutant of AgentHash: the agent's own contract, without its services.
AgentHashOfContract(d) == d.app.contract
\* What the hash of the agent's pod is computed from.
AgentHash(d) == d.app

\* Mutant of AgentPorts: those of the services in other pods, too.
AgentPortsOfAll(d) == AgentContract(d, 0, "").ports
\* replace(agent_contract, ports=local_contract.ports).
AgentPorts(d) == LocalContracts(d).ports

AgentPod(d, workflow, prompt) ==
  PodInput(d, ResolveAgent(d.app.harness, d.app.capabilities),
           ManagedName(workflow, "agent", d.app.id, AgentHash(d)), "agent",
           d.app.id, AgentHash(d), AgentContract(d, workflow, prompt),
           AgentPorts(d), d.storage)

NoCommand == [kind |-> "none"]
PlanAction(do, role, command) == [do |-> do, role |-> role, command |-> command]
Runs(commands) ==
  [i \in DOMAIN commands |->
     PlanAction("RUN_SSH_COMMAND", "agent", commands[i])]

InPhase(commands, phases) ==
  ItemsAt(commands, {i \in DOMAIN commands: commands[i].phase \in phases})

Actions(d, contract, deps) ==
  LET Each(do) == [i \in DOMAIN deps |-> PlanAction(do, deps[i], NoCommand)]
      One(do) == <<PlanAction(do, "agent", NoCommand)>>
      Runtime(phases) == Runs(SortedByOrder(InPhase(contract.commands, phases)))
      Chain(phases) ==
        Runs(InPhase(SortedByOrder(CommandsOf(d.commands)), phases))
      late == {"after_start", "after_ready"}
  IN  Each("CREATE_OR_RESUME") \o Each("WAIT_READY")
        \o (IF deps = <<>> THEN <<>> ELSE One("RESOLVE_DEPENDENCY_CONTRACTS"))
        \o One("CREATE_OR_RESUME") \o One("WAIT_SSH")
        \o Runtime({"before_start"}) \o Chain({"before_start"})
        \o One("WRITE_RUNTIME_CONFIG") \o One("LAUNCH_AGENT")
        \o Runtime(late) \o Chain(late)
        \o (IF Wired(d.keep_alive) THEN One("MONITOR_KEEP_ALIVE") ELSE <<>>)
        \o Chain({"teardown"})

Plannable(d) ==
  ValidDeployment(d) /\ Resolvable(d.app.harness, d.app.capabilities)

Plan(d, workflow, prompt) ==
  LET deps == OwnPodDependencies(d)
  IN  [deployment_hash |-> d,
       resources |->
         Append([i \in DOMAIN deps |-> DependencyPod(d, workflow, deps[i])],
                AgentPod(d, workflow, prompt)),
       actions |-> Actions(d, AgentContract(d, workflow, prompt), deps),
       contract |-> AgentContract(d, workflow, prompt),
       keep_alive |-> d.keep_alive, harness |-> d.app.harness,
       startup |-> d.app.startup]
=============================================================================
