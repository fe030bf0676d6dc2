---------------------------- MODULE WorkflowNodes ----------------------------
(***************************************************************************)
(* nodes.py: what the build method of each node makes of its widgets.  An  *)
(* operator XNode(w, id) is the spec that the node with identity id        *)
(* returns for the widget values w, XWidgets the values a user can give    *)
(* it (INPUT_TYPES, names and texts reduced to what matters later), and    *)
(* XAccepts(w) is what has to hold for build not to raise ValidationError. *)
(* A node that is not wired is None.                                       *)
(***************************************************************************)
EXTENDS RuntimeContracts

None == [kind |-> "none"]
Wired(spec) == spec.kind # "none"
ContractOf(spec) == IF Wired(spec) THEN spec.contract ELSE EmptyContract

Port(name, number, exposure) ==
  [name |-> name, port |-> number, exposure |-> exposure]

\* EnvPatch of one variable per name, all of them plain text.
Texts(names, what) == [n \in names |-> Text(what)]

\* A secret is referred to when its name is given.
Given(name, var) ==
  IF name = "" THEN <<>> ELSE <<SecretRef(name, var, "runpod_secret")>>

StorageWidgets ==
  [volume_id: {"", "vol-1", "vol-2"}, size_gb: {0, 10},
   data_center: {"", "EU-1"}, name: {"", "crag-workspace"},
   policy: {"preserve", "delete_when_unused", "delete_with_deployment"}]

\* Without an id and a size an id is generated from the node's id.
NetworkStorageNode(w, id) ==
  [kind |-> "storage",
   volume_id |-> IF w.volume_id = "" /\ w.size_gb = 0
                 THEN "generated" ELSE w.volume_id,
   size_gb |-> w.size_gb, data_center |-> w.data_center, name |-> w.name,
   policy |-> w.policy, id |-> id]

BrowserWidgets ==
  [engine: {"neko", "playwright"}, placement: {"own_pod", "same_pod"}]

\* Mutant of BrowserAccepts: Neko is accepted in the agent's pod.
BrowserAcceptsAll(w) == TRUE
BrowserAccepts(w) == ~(w.engine = "neko" /\ w.placement = "same_pod")

BrowserNode(w, storage, id) ==
  LET own == w.placement = "own_pod"
      env ==
        IF w.engine = "neko"
        THEN [NEKO_URL |-> Crag("browser")]
        ELSE IF own THEN [PLAYWRIGHT_MODE |-> Text("remote"),
                          PLAYWRIGHT_WS_ENDPOINT |-> Crag("browser")]
                    ELSE [PLAYWRIGHT_MODE |-> Text("local")]
      ports ==
        CASE w.engine = "neko" -> <<Port("neko", 8080, "public")>>
          [] w.engine = "playwright" /\ own ->
               <<Port("playwright", 3000, "public")>>
          [] OTHER -> <<>>
  IN  [kind |-> "browser", engine |-> w.engine, placement |-> w.placement,
       contract |-> Contract([BROWSER_KIND |-> Text(w.engine)] ## env, <<>>,
                             ports, <<>>),
       capabilities |-> IF own THEN <<>> ELSE <<"playwright">>,
       storage |-> storage, id |-> id]

\* The port of the terminal is left at its default.
TerminalPort == 7681
TerminalWidgets == [auth_mode: {"password", "none"}, password: {"", "pw"}]

TerminalAccepts(w) == ~(w.auth_mode = "password" /\ w.password = "")

WebTerminalNode(w, id) ==
  [kind |-> "web_terminal",
   contract |->
     Contract([CRAG_WEB_TERMINAL |-> Text("1"),
               CRAG_WEB_TERMINAL_AUTH_MODE |-> Text(w.auth_mode),
               CRAG_WEB_TERMINAL_PASSWORD |-> Text(w.password)],
              <<>>, <<Port("terminal", TerminalPort, "public")>>,
              <<Command("web_terminal", "before_start", -40000, "continue")>>),
   id |-> id]

LLMServerWidgets ==
  [engine: {"ollama", "vllm"}, placement: {"own_pod", "same_pod"},
   model: {"", "m"}, auth: {"none", "generated_token", "secret"},
   api_key: {"", "llm-key"}, hf_token: {"", "hf"}]

\* same_pod_llm_start_command raises without a model for vLLM.
LLMServerAccepts(w) ==
  ~(w.engine = "vllm" /\ w.placement = "same_pod" /\ w.model = "")

LLMServerKey(w) ==
  IF w.auth = "secret" THEN Given(w.api_key, "OPENAI_API_KEY") ELSE <<>>

LLMServerNode(w, storage, id) ==
  LET own == w.placement = "own_pod"
      address == IF own THEN Crag("llm") ELSE Text("127.0.0.1")
      endpoint ==
        IF w.engine = "ollama"
        THEN [OLLAMA_HOST |-> address, OPENAI_BASE_URL |-> address]
        ELSE [OPENAI_BASE_URL |-> address]
      token == IF w.auth = "generated_token"
               THEN [OPENAI_API_KEY |-> Text("crag-generated-at-apply")]
               ELSE <<>>
      port == IF w.engine = "ollama" THEN 11434 ELSE 8000
  IN  [kind |-> "llm_server", engine |-> w.engine, placement |-> w.placement,
       contract |->
         Contract([LLM_PROVIDER |-> Text(w.engine), LLM_MODEL |-> Text(w.model)]
                    ## endpoint ## token,
                  LLMServerKey(w) \o Given(w.hf_token, "HF_TOKEN"),
                  <<Port(w.engine, port, "public")>>,
                  IF own THEN <<>>
                  ELSE <<Command("llm", "before_start", -25000, "fail")>>),
       capabilities |-> IF own THEN <<>> ELSE <<w.engine>>,
       storage |-> IF own THEN storage ELSE None, id |-> id]

LLMApiWidgets ==
  [provider: {"codex", "claude", "ollama_cloud"}, api_key: {"", "api-key"},
   base_url: {"", "url"}]

LLMApiNode(w, id) ==
  LET vars == CASE w.provider = "codex" -> <<"OPENAI_API_KEY">>
                [] w.provider = "claude" -> <<"ANTHROPIC_API_KEY">>
                [] OTHER -> <<"OLLAMA_API_KEY", "OLLAMA_CLOUD_API_KEY">>
      url == IF w.provider = "ollama_cloud"
             THEN Texts({"OLLAMA_HOST", "LLM_API_BASE_URL"}, "ollama.com")
             ELSE IF w.base_url = "" THEN <<>>
             ELSE Texts(IF w.provider = "codex"
                        THEN {"LLM_API_BASE_URL", "OPENAI_BASE_URL"}
                        ELSE {"LLM_API_BASE_URL"}, w.base_url)
  IN  [kind |-> "llm_api", engine |-> w.provider, placement |-> "env_only",
       contract |->
         Contract([LLM_PROVIDER |-> Text(w.provider)] ## url,
                  IF w.api_key = "" THEN <<>>
                  ELSE [i \in DOMAIN vars |->
                          SecretRef(w.api_key, vars[i], "runpod_secret")],
                  <<>>, <<>>),
       capabilities |-> <<>>, storage |-> None, id |-> id]

RemoteSQLWidgets ==
  [engine: {"postgres", "mysql"}, mode: {"own_pod", "env_only"},
   password: {"", "db-pass"}]

DatabaseClient ==
  Command("database-client", "before_start", -21000, "fail")

\* In its own pod the URL carries the address and the password in one string.
RemoteSQLNode(w, storage, id) ==
  LET own == w.mode = "own_pod"
      password == IF w.password = "" THEN Text("app")
                  ELSE {<<"secret", w.password>>}
      env == IF own
             THEN [DATABASE_URL |-> Crag("sql") \union password,
                   DATABASE_HOST |-> Crag("sql"),
                   DATABASE_PASSWORD |-> password]
             ELSE <<>>
      secrets == IF own THEN Given(w.password, "DATABASE_PASSWORD")
                 ELSE <<SecretRef("DATABASE_URL", "DATABASE_URL", "server_env")>>
      port == IF w.engine = "postgres" THEN 5432 ELSE 3306
  IN  [kind |-> "sql_database", engine |-> w.engine, placement |-> w.mode,
       contract |->
         Contract([DATABASE_KIND |-> Text(w.engine)] ## env, secrets,
                  IF own THEN <<Port(w.engine, port, "internal")>> ELSE <<>>,
                  <<DatabaseClient>>),
       capabilities |-> <<>>, storage |-> IF own THEN storage ELSE None,
       id |-> id]

LocalSQLWidgets == [path: {"inside", "outside"}]

LocalSQLNode(w, id) ==
  [kind |-> "sql_database", engine |-> "sqlite", placement |-> "file_only",
   contract |->
     Contract([DATABASE_KIND |-> Text("sqlite"), DATABASE_PATH |-> Text(w.path)],
              <<>>, <<>>,
              <<Command("local_sql", "before_start", -20000, "fail")>>),
   capabilities |-> <<>>, storage |-> None, id |-> id]

VectorWidgets ==
  [engine: {"chroma", "qdrant"}, placement: {"own_pod", "embedded"}]

VectorAccepts(w) == w.placement = "embedded" => w.engine = "chroma"

VectorNode(w, storage, id) ==
  LET own == w.placement = "own_pod"
      port == IF w.engine = "qdrant" THEN 6333 ELSE 8000
  IN  [kind |-> "vector_database", engine |-> w.engine,
       placement |-> IF own THEN "own_pod" ELSE "file_only",
       contract |->
         Contract([VECTOR_KIND |-> Text(w.engine),
                   VECTOR_URL |-> IF own THEN Crag("vector") ELSE Text("local")],
                  <<>>,
                  IF own THEN <<Port(w.engine, port, "public")>> ELSE <<>>,
                  IF own THEN <<>>
                  ELSE <<Command("chroma", "before_start", -19000, "fail")>>),
       capabilities |-> <<>>, storage |-> IF own THEN storage ELSE None,
       id |-> id]

(***************************************************************************)
(* Nodes that take a previous node of their kind and extend its list.      *)
(***************************************************************************)
ServersOf(previous) == IF Wired(previous) THEN previous.servers ELSE <<>>

MCPWidgets ==
  [name: {"fs", "web"}, transport: {"stdio", "http"}, command: {"", "npx"},
   url: {"", "url"}, secret: {"", "MCP_TOKEN"}]

MCPAccepts(w) == IF w.transport = "stdio" THEN w.command # "" ELSE w.url # ""

MCPServer(w) ==
  [name |-> w.name, transport |-> w.transport,
   target |-> IF w.transport = "stdio" THEN w.command ELSE w.url,
   secrets |-> IF w.secret = "" THEN <<>>
               ELSE <<SecretRef(w.secret, w.secret, "server_env")>>]

\* The payload is a JSON object by name: of two servers of one name the later.
MCPPayload(servers) ==
  {<<"mcp", servers[i]>> :
     i \in {j \in DOMAIN servers:
             \A k \in DOMAIN servers: servers[k].name = servers[j].name => k <= j}}

MCPServerNode(w, previous, id) ==
  LET server == MCPServer(w)
      servers == Append(ServersOf(previous), server)
  IN  [kind |-> "mcp_servers", servers |-> servers,
       contract |->
         Contract([MCP_SERVERS_JSON |-> MCPPayload(servers)],
                  ContractOf(previous).secrets \o server.secrets,
                  <<>>, <<>>),
       id |-> id]

SubagentsOf(previous) == IF Wired(previous) THEN previous.names ELSE <<>>

SubagentWidgets == [name: {"helper", "critic"}, model: {"", "m"}]

SubagentAccepts(w, previous) ==
  /\ w.model # ""
  /\ \A i \in DOMAIN SubagentsOf(previous): SubagentsOf(previous)[i] # w.name

SubagentNode(w, previous, id) ==
  LET names == Append(SubagentsOf(previous), w.name)
  IN  [kind |-> "subagents", names |-> names,
       contract |->
         Contract([CRAG_SUBAGENTS_JSON |->
                     {<<"subagent", names[i]>> : i \in DOMAIN names}],
                  <<>>, <<>>, <<>>),
       id |-> id]

SkillsOf(previous) == IF Wired(previous) THEN previous.skills ELSE <<>>

SkillWidgets == [name: {"", "review", "deploy"}, repo: {"github", "other"}]

SkillAccepts(w) == w.name # "" /\ w.repo = "github"

SkillCommands(skills) ==
  [i \in DOMAIN skills |->
     Command(skills[i], "before_start", -10000 + i - 1, "fail")]

\* Skill and Skill Framework differ in where name and URL come from only.
SkillNode(w, previous, id) ==
  LET skills == Append(SkillsOf(previous), w.name)
  IN  [kind |-> "skills", skills |-> skills,
       contract |->
         Contract([RUNPOD_AGENT_SKILLS_JSON |->
                     {<<"skill", skills[i]>> : i \in DOMAIN skills}],
                  <<>>, <<>>, SkillCommands(skills)),
       id |-> id]

SkillFrameworkWidgets ==
  [framework: {"superpowers", "anthropic_skills", "custom"},
   custom_repo: {"", "github"}]

SkillFrameworkAccepts(w) == w.framework = "custom" => w.custom_repo = "github"

SkillFrameworkNode(w, previous, id) ==
  SkillNode([name |-> w.framework], previous, id)

CommandsOf(previous) == IF Wired(previous) THEN previous.commands ELSE <<>>

InferredCommandOrder(previous) ==
  IF CommandsOf(previous) = <<>> THEN 0
  ELSE 100 + CHOOSE m \in {previous.commands[i].order : i \in DOMAIN previous.commands}:
               \A i \in DOMAIN previous.commands: previous.commands[i].order <= m

Phases == {"before_start", "after_start", "after_ready", "teardown"}
Policies == {"fail", "continue", "retry"}

SSHCommandWidgets == [what: {"command"}, phase: Phases, policy: Policies]

SSHCommandNode(w, previous, id) ==
  [kind |-> "commands",
   commands |->
     SortedByOrder(Append(CommandsOf(previous),
       Command(w.what, w.phase, InferredCommandOrder(previous), w.policy))),
   id |-> id]

\* Package, Git Repository and Language Runtime generate their command and
\* leave the user no choice of the phase.
SetupWidgets == [what: {"package", "git", "runtime"}, policy: Policies]

SetupNode(w, previous, id) ==
  SSHCommandNode([phase |-> "before_start"] ## w, previous, id)

(***************************************************************************)
(* The nodes that the deployment is made of.                               *)
(***************************************************************************)
S3Widgets == [access: {"", "s3-id"}, secret: {"", "s3-key"}]

S3StorageNode(w, id) ==
  [kind |-> "s3", access |-> w.access, secret |-> w.secret,
   contract |->
     Contract(Texts({"S3_ENDPOINT", "S3_BUCKET", "S3_REGION"}, "s3"),
              <<SecretRef(w.access, "AWS_ACCESS_KEY_ID", "runpod_secret"),
                SecretRef(w.secret, "AWS_SECRET_ACCESS_KEY", "runpod_secret")>>,
              <<>>, <<>>),
   id |-> id]

KeepAliveWidgets ==
  [mode: {"time", "turns", "cost", "manual"}, action: {"stop", "terminate"},
   value: {0, 1}, enforcement: {"both", "server_side", "pod_side"}]

\* A value that is zero becomes None, except the time, which stays 0.
KeepAliveNode(w, id) ==
  [kind |-> "keep_alive", mode |-> w.mode, action |-> w.action,
   limit |-> w.value, enforcement |-> w.enforcement, id |-> id]

Harnesses == {"codex", "claude", "opencode", "hermes", "pi"}

AgentWidgets ==
  [harness: Harnesses, startup: {"wait_for_commands", "auto_start", "manual"},
   image: {"", "built"}]

\* Nothing but a terminal to log in to: the harness is not installed.
TerminalOnly(w, p) ==
  /\ w.startup = "manual" /\ Wired(p.terminal)
  /\ \A slot \in {"browser", "llm", "sql", "vector", "mcp", "skills"}:
       ~Wired(p[slot])

HarnessCommand(w, p) ==
  Command("harness", "before_start", -30000,
          IF Wired(p.terminal) THEN "continue" ELSE "fail")

\* Images have to bring what is placed in the agent's own pod.
RequiredCapabilities(p) ==
  (IF Wired(p.browser) THEN p.browser.capabilities ELSE <<>>)
    \o (IF p.llm.kind = "llm_server" THEN p.llm.capabilities ELSE <<>>)

AgentNode(w, p, id) ==
  LET own == Contract(
               [AGENT_HARNESS |-> Text(w.harness),
                AGENT_STARTUP_MODE |-> Text(w.startup)],
               <<>>, <<>>,
               IF TerminalOnly(w, p) THEN <<>> ELSE <<HarnessCommand(w, p)>>)
  IN  [kind |-> "agent", harness |-> w.harness, startup |-> w.startup,
       image |-> w.image, parts |-> p,
       contract |-> own ++ ContractOf(p.mcp) ++ ContractOf(p.skills)
                      ++ ContractOf(p.subagents) ++ ContractOf(p.terminal),
       capabilities |-> RequiredCapabilities(p), id |-> id]
=============================================================================
