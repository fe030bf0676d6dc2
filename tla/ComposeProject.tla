--------------------------- MODULE ComposeProject ---------------------------
(***************************************************************************)
(* The part of local_runtime.py that turns a plan into a compose project:  *)
(* images, environments, volumes and ports of its services, the hash by    *)
(* which a running container is recognised, and the files that the agent's *)
(* container finds when it starts.                                         *)
(***************************************************************************)
EXTENDS DeploymentPlanner

\* The names for which an env file or the process has a value.
CONSTANT LocalSecrets

\* The service that takes a role: the first resource whose name says so.
ServiceFor(plan, role) ==
  {r.name : r \in {x \in Range(plan.resources): x.name.role = role}}

ResolveCragPlaceholders(value, plan) ==
  {f \in value: f[1] # "crag" \/ ServiceFor(plan, f[2]) = {}}
    \union UNION {{<<"service", n>> : n \in ServiceFor(plan, f[2])} :
                    f \in {x \in value: x[1] = "crag"}}

\* A placeholder is replaced where it is the whole value (re.fullmatch).
ResolveLocalSecret(value) ==
  IF \E s \in LocalSecrets: value = {<<"secret", s>>}
  THEN {<<"value", f[2]>> : f \in value} ELSE value

Resolved(env, plan) ==
  [k \in DOMAIN env |->
     ResolveLocalSecret(ResolveCragPlaceholders(env[k], plan))]

\* setdefault: what the database image is configured with.
ComposeEnv(resource, plan) ==
  LET env == Resolved(resource.env, plan)
      password == IF "DATABASE_PASSWORD" \in DOMAIN env
                  THEN env.DATABASE_PASSWORD ELSE Text("app")
      image == IF resource.role # "sql" THEN {}
               ELSE IF env.DATABASE_KIND = Text("postgres") THEN {"POSTGRES_PASSWORD"}
               ELSE {"MYSQL_PASSWORD", "MYSQL_ROOT_PASSWORD"}
  IN  env ## [k \in image |-> password]

LocalImage(resource) ==
  IF resource.image # "" THEN <<"own", resource.image>>
  ELSE CASE resource.role = "agent" -> <<"agent", "default">>
         [] resource.role = "browser" -> <<"browser", resource.env.BROWSER_KIND>>
         [] resource.role = "llm" -> <<"llm", resource.env.LLM_PROVIDER>>
         [] resource.role = "sql" -> <<"sql", resource.env.DATABASE_KIND>>
         [] OTHER -> <<"vector", resource.env.VECTOR_KIND>>

\* Volumes are known by name, be it an id or the name of one to be created.
VolumeMount(resource) ==
  IF resource.volume.kind = "none" THEN <<>>
  ELSE <<resource.volume.name, resource.policy.policy>>

LocalPortMappings(resource) ==
  IF resource.role = "agent" /\ "CRAG_WEB_TERMINAL" \in DOMAIN resource.env
  THEN {TerminalPort} ELSE {}

LocalRuntimeCommands(plan, phases) ==
  LET mine == ItemsAt(plan.actions,
                {i \in DOMAIN plan.actions:
                   /\ plan.actions[i].do = "RUN_SSH_COMMAND"
                   /\ plan.actions[i].command.phase \in phases})
  IN  [i \in DOMAIN mine |-> mine[i].command]

BeforeCommands(plan) == LocalRuntimeCommands(plan, {"before_start"})
AfterCommands(plan) == LocalRuntimeCommands(plan, {"after_start", "after_ready"})

\* launch_command_for_plan: nothing is started where the startup is manual,
\* except the timer of a pod-side time policy.
PodSideTimer(policy) ==
  /\ Wired(policy) /\ policy.mode = "time" /\ policy.limit > 0
  /\ policy.enforcement \in {"pod_side", "both"}

LaunchCommand(plan) ==
  [timer |-> IF PodSideTimer(plan.keep_alive) THEN plan.keep_alive.action
             ELSE "none",
   harness |-> IF plan.startup = "manual" THEN "none" ELSE plan.harness]

\* Mutant of StableAgentCommandShape: what runs after the launch is left out.
StableShapeOfStart(plan) ==
  [before |-> BeforeCommands(plan), launcher |-> LaunchCommand(plan)]
StableAgentCommandShape(plan) ==
  [before |-> BeforeCommands(plan), after |-> AfterCommands(plan),
   launcher |-> LaunchCommand(plan)]

ComposeCommand(resource, plan) ==
  CASE resource.role = "agent" -> StableAgentCommandShape(plan)
    [] resource.role = "llm" /\ resource.env.LLM_PROVIDER = Text("ollama") ->
         [serve |-> "ollama"]
    [] resource.role = "browser"
         /\ resource.env.BROWSER_KIND = Text("playwright") ->
         [serve |-> "playwright"]
    [] OTHER -> [serve |-> "image"]

StableAgentEnv(env) ==
  Without(env, {"AGENT_PROMPT", "CRAG_RUN_ID", "CRAG_WORKFLOW_HASH"})

LocalDesiredHash(resource, plan) ==
  LET env == ComposeEnv(resource, plan)
  IN  [image |-> LocalImage(resource),
       env |-> IF resource.role = "agent" THEN StableAgentEnv(env) ELSE env,
       command |-> ComposeCommand(resource, plan),
       ports |-> LocalPortMappings(resource), volume |-> VolumeMount(resource)]

\* The files of the agent's commands are numbered over all its commands...
CommandFile(index, command) == <<index, command.phase>>

CommandFiles(plan) ==
  LET all == LocalRuntimeCommands(plan, Phases)
  IN  [n \in {CommandFile(i - 1, all[i]) : i \in DOMAIN all} |-> all[n[1] + 1]]

\* ... and run-agent.sh counts them for itself, the launcher in between.
\* Mutant of RunScript: after the launcher the count starts again.
RunScriptFromZero(plan) ==
  LET Lines(commands) ==
        [i \in DOMAIN commands |->
           <<"run", CommandFile(i - 1, commands[i]), commands[i].policy>>]
  IN  Lines(BeforeCommands(plan)) \o Lines(AfterCommands(plan))
RunScript(plan) ==
  LET before == BeforeCommands(plan)
      after == AfterCommands(plan)
      Line(index, command) == <<"run", CommandFile(index, command), command.policy>>
  IN  [i \in DOMAIN before |-> Line(i - 1, before[i])]
        \o <<<<"launch", LaunchCommand(plan)>>>>
        \o [i \in DOMAIN after |-> Line(Len(before) + i - 1, after[i])]

SessionEnv(plan) == Resolved(plan.contract.env, plan)
=============================================================================
