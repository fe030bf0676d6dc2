----------------------- MODULE WorkflowPlanningProofs -----------------------
(***************************************************************************)
(* Theorems of WorkflowPlanning, for every choice of widget values and     *)
(* every number of changes.                                                *)
(*                                                                         *)
(* They rest on what the nodes keep apart: the contract of a node uses     *)
(* variables and ports of its own slot only, so that merging contracts     *)
(* never overwrites anything.                                              *)
(***************************************************************************)
EXTENDS WorkflowPlanning, SequenceTheorems, FiniteSetTheorems,
        WellFoundedInduction, TLAPS

----------------------------------------------------------------------------
(* What every node adds. *)

PortsFor ==
  [browser |-> {Port("neko", 8080, "public"), Port("playwright", 3000, "public")},
   llm |-> {Port("ollama", 11434, "public"), Port("vllm", 8000, "public")},
   sql |-> {Port("postgres", 5432, "internal"), Port("mysql", 3306, "internal")},
   vector |-> {Port("chroma", 8000, "public"), Port("qdrant", 6333, "public")},
   terminal |-> {Port("terminal", TerminalPort, "public")},
   mcp |-> {}, skills |-> {}, subagents |-> {}, s3 |-> {}]

VarsFor ==
  [browser |-> {"BROWSER_KIND", "NEKO_URL", "PLAYWRIGHT_MODE", "PLAYWRIGHT_WS_ENDPOINT"},
   llm |-> {"LLM_PROVIDER", "LLM_MODEL", "LLM_API_BASE_URL", "OLLAMA_HOST",
            "OPENAI_BASE_URL", "OPENAI_API_KEY"},
   sql |-> {"DATABASE_KIND", "DATABASE_URL", "DATABASE_HOST", "DATABASE_PASSWORD",
            "DATABASE_PATH"},
   vector |-> {"VECTOR_KIND", "VECTOR_URL"},
   terminal |-> {"CRAG_WEB_TERMINAL", "CRAG_WEB_TERMINAL_AUTH_MODE",
                 "CRAG_WEB_TERMINAL_PASSWORD"},
   mcp |-> {"MCP_SERVERS_JSON"}, skills |-> {"RUNPOD_AGENT_SKILLS_JSON"},
   subagents |-> {"CRAG_SUBAGENTS_JSON"},
   s3 |-> {"S3_ENDPOINT", "S3_BUCKET", "S3_REGION"}]

\* The variables by which the agent finds a service in a pod of its own.
AddressOf ==
  [browser |-> {"NEKO_URL", "PLAYWRIGHT_WS_ENDPOINT"}, llm |-> {"OPENAI_BASE_URL"},
   sql |-> {"DATABASE_URL"}, vector |-> {"VECTOR_URL"}]

AllPorts ==
  UNION {PortsFor[slot] : slot \in {"browser", "llm", "sql", "vector", "terminal"}}
SecretNames ==
  {"", "llm-key", "hf", "api-key", "DATABASE_URL", "db-pass", "MCP_TOKEN",
   "s3-id", "s3-key"}
SecretVars ==
  {"OPENAI_API_KEY", "HF_TOKEN", "ANTHROPIC_API_KEY", "OLLAMA_API_KEY",
   "OLLAMA_CLOUD_API_KEY", "DATABASE_PASSWORD", "DATABASE_URL", "MCP_TOKEN",
   "AWS_ACCESS_KEY_ID", "AWS_SECRET_ACCESS_KEY"}
SecretRefs ==
  [name : SecretNames, var : SecretVars,
   provider : {"runpod_secret", "server_env"}]

OtherSlots == {"mcp", "skills", "subagents", "terminal", "s3"}

\* The placeholders of an environment are for services in these roles.
CragsWithin(env, roles) ==
  \A k \in DOMAIN env : \A f \in env[k] : f[1] = "crag" => f[2] \in roles

ContractOK(slot, contract) ==
  /\ contract.ports \in Seq(AllPorts)
  /\ Range(contract.ports) \subseteq PortsFor[slot]
  /\ contract.secrets \in Seq(SecretRefs)
  /\ DOMAIN contract.env \subseteq VarsFor[slot]

ServiceOK(slot, spec) ==
  Wired(spec) =>
    /\ ContractOK(slot, spec.contract)
    /\ CragsWithin(spec.contract.env,
                   IF spec.placement = "own_pod" THEN {slot} ELSE {})
    /\ spec.placement = "own_pod" =>
         /\ spec.kind # "llm_api"
         /\ \E k \in AddressOf[slot] \intersect DOMAIN spec.contract.env :
              <<"crag", slot>> \in spec.contract.env[k]

S3Keys == {"AWS_ACCESS_KEY_ID", "AWS_SECRET_ACCESS_KEY"}

OtherOK(slot, spec) ==
  Wired(spec) =>
    /\ ContractOK(slot, spec.contract) /\ CragsWithin(spec.contract.env, {})
    /\ slot = "s3" => VarsOf(spec.contract.secrets) \subseteq S3Keys

LEMMA UpdateFacts ==
  ASSUME NEW a, NEW b
  PROVE  /\ DOMAIN (a ## b) = DOMAIN a \union DOMAIN b
         /\ \A k \in DOMAIN a : (a ## b)[k] = a[k]
         /\ \A k \in DOMAIN b \ DOMAIN a : (a ## b)[k] = b[k]
         /\ \A R : CragsWithin(a, R) /\ CragsWithin(b, R) => CragsWithin(a ## b, R)
<1>1. /\ DOMAIN (a ## b) = DOMAIN a \union DOMAIN b
      /\ \A k \in DOMAIN a : (a ## b)[k] = a[k]
      /\ \A k \in DOMAIN b \ DOMAIN a : (a ## b)[k] = b[k]
  BY DEF ##
<1>. HIDE DEF ##
<1>2. ASSUME NEW R, CragsWithin(a, R), CragsWithin(b, R)
      PROVE  CragsWithin(a ## b, R)
  BY <1>1, <1>2 DEF CragsWithin
<1>. QED BY <1>1, <1>2

LEMMA Fragments ==
  /\ \A x : Text(x) = {<<"text", x>>}
  /\ \A role : Crag(role) = {<<"crag", role>>}
  /\ DOMAIN <<>> = {}
  /\ \A x : \A f \in Text(x) : f[1] = "text"
  /\ \A x : \A f \in {<<"secret", x>>} : f[1] = "secret"
BY DEF Text, Crag

LEMMA OneItem ==
  /\ \A S : \A x \in S : <<x>> \in Seq(S)
  /\ \A x : Range(<<x>>) = {x}
<1>1. ASSUME NEW x
      PROVE  Range(<<x>>) = {x}
  <2>1. DOMAIN <<x>> = {1} /\ <<x>>[1] = x
    OBVIOUS
  <2>. QED BY <2>1 DEF Range
<1>. QED BY <1>1

LEMMA NoItems ==
  /\ \A S : <<>> \in Seq(S)
  /\ Range(<<>>) = {}
<1>1. DOMAIN <<>> = {}
  OBVIOUS
<1>. QED BY <1>1 DEF Range

LEMMA GivenIsASecret ==
  ASSUME NEW name \in SecretNames, NEW var \in SecretVars
  PROVE  Given(name, var) \in Seq(SecretRefs)
<1>. DEFINE ref == SecretRef(name, var, "runpod_secret")
<1>1. ref \in SecretRefs
  BY DEF SecretRefs, SecretRef
<1>2. Given(name, var) = IF name = "" THEN <<>> ELSE <<ref>>
  BY DEF Given
<1>. HIDE DEF ref
<1>3. CASE name = ""
  BY <1>2, <1>3, NoItems
<1>4. CASE name # ""
  <2>1. <<ref>> \in Seq(SecretRefs)
    BY <1>1, OneItem
  <2>. QED BY <1>2, <1>4, <2>1
<1>. QED BY <1>3, <1>4

LEMMA UpdateKeeps ==
  ASSUME NEW a, NEW b, NEW k \in DOMAIN b, k \notin DOMAIN a
  PROVE  k \in DOMAIN (a ## b) /\ (a ## b)[k] = b[k]
BY DEF ##

LEMMA UpdateWins ==
  ASSUME NEW a, NEW b, NEW k \in DOMAIN a
  PROVE  k \in DOMAIN (a ## b) /\ (a ## b)[k] = a[k]
BY DEF ##

LEMMA CragsUpdate ==
  ASSUME NEW a, NEW b, NEW roles, CragsWithin(a, roles), CragsWithin(b, roles)
  PROVE  CragsWithin(a ## b, roles)
BY UpdateFacts

LEMMA EnvUpdate ==
  ASSUME NEW a, NEW b, NEW vars_, NEW roles,
         DOMAIN a \subseteq vars_, DOMAIN b \subseteq vars_,
         CragsWithin(a, roles), CragsWithin(b, roles)
  PROVE  /\ DOMAIN (a ## b) \subseteq vars_
         /\ CragsWithin(a ## b, roles)
BY UpdateFacts

\* A contract with one port or none.
LEMMA ContractIsOK ==
  ASSUME NEW slot \in ServiceSlots \union OtherSlots, NEW c,
         \/ c.ports = <<>>
         \/ \E p \in PortsFor[slot] : c.ports = <<p>>,
         c.secrets \in Seq(SecretRefs),
         DOMAIN c.env \subseteq VarsFor[slot]
  PROVE  ContractOK(slot, c)
<1>1. CASE c.ports = <<>>
  BY <1>1, NoItems DEF ContractOK
<1>2. ASSUME NEW p \in PortsFor[slot], c.ports = <<p>>
      PROVE  ContractOK(slot, c)
  <2>1. PortsFor[slot] \subseteq AllPorts
    BY DEF AllPorts, PortsFor, ServiceSlots, OtherSlots
  <2>. QED BY <1>2, <2>1, OneItem DEF ContractOK
<1>. QED BY <1>1, <1>2

LEMMA BrowserNodeOK ==
  ASSUME NEW w \in BrowserWidgets, BrowserAccepts(w), NEW s
  PROVE  ServiceOK("browser", BrowserNode(w, s, "browser"))
<1>. DEFINE spec == BrowserNode(w, s, "browser")
            kind == [BROWSER_KIND |-> Text(w.engine)]
            neko == [NEKO_URL |-> Crag("browser")]
            remote == [PLAYWRIGHT_MODE |-> Text("remote"),
                       PLAYWRIGHT_WS_ENDPOINT |-> Crag("browser")]
            local == [PLAYWRIGHT_MODE |-> Text("local")]
            V == VarsFor["browser"]
<1>1. /\ spec.placement = w.placement /\ spec.kind = "browser"
      /\ spec.contract.secrets = <<>>
  BY DEF BrowserNode, Contract
<1>2. /\ DOMAIN kind = {"BROWSER_KIND"} /\ DOMAIN neko = {"NEKO_URL"}
      /\ DOMAIN remote = {"PLAYWRIGHT_MODE", "PLAYWRIGHT_WS_ENDPOINT"}
      /\ DOMAIN local = {"PLAYWRIGHT_MODE"}
      /\ kind["BROWSER_KIND"] = {<<"text", w.engine>>}
      /\ neko["NEKO_URL"] = {<<"crag", "browser">>}
      /\ remote["PLAYWRIGHT_MODE"] = {<<"text", "remote">>}
      /\ remote["PLAYWRIGHT_WS_ENDPOINT"] = {<<"crag", "browser">>}
      /\ local["PLAYWRIGHT_MODE"] = {<<"text", "local">>}
  BY Fragments
<1>3. /\ DOMAIN kind \subseteq V /\ DOMAIN neko \subseteq V
      /\ DOMAIN remote \subseteq V /\ DOMAIN local \subseteq V
  BY <1>2 DEF VarsFor
<1>4. CASE w.engine = "neko"
  <2>1. w.placement = "own_pod"
    BY <1>4 DEF BrowserAccepts, BrowserWidgets
  <2>2. spec.contract.env = kind ## neko
    BY <1>4 DEF BrowserNode, Contract
  <2>3. \E p \in PortsFor["browser"] : spec.contract.ports = <<p>>
    BY <1>4 DEF BrowserNode, Contract, PortsFor
  <2>. HIDE DEF spec, kind, neko, V
  <2>4. CragsWithin(kind, {"browser"}) /\ CragsWithin(neko, {"browser"})
    BY <1>2 DEF CragsWithin
  <2>5. DOMAIN (kind ## neko) \subseteq V /\ CragsWithin(kind ## neko, {"browser"})
    BY <1>3, <2>4, EnvUpdate
  <2>6. "NEKO_URL" \in DOMAIN (kind ## neko)
        /\ (kind ## neko)["NEKO_URL"] = neko["NEKO_URL"]
    BY <1>2, UpdateKeeps
  <2>7. ContractOK("browser", spec.contract)
    BY <1>1, <2>2, <2>3, <2>5, NoItems, ContractIsOK DEF V, ServiceSlots
  <2>8. ServiceOK("browser", spec)
    BY <1>1, <1>2, <2>1, <2>2, <2>5, <2>6, <2>7 DEF ServiceOK, AddressOf
  <2>. QED BY <2>8 DEF spec
<1>5. CASE w.engine = "playwright" /\ w.placement = "own_pod"
  <2>2. spec.contract.env = kind ## remote
    BY <1>5 DEF BrowserNode, Contract
  <2>3. \E p \in PortsFor["browser"] : spec.contract.ports = <<p>>
    BY <1>5 DEF BrowserNode, Contract, PortsFor
  <2>. HIDE DEF spec, kind, remote, V
  <2>4. CragsWithin(kind, {"browser"}) /\ CragsWithin(remote, {"browser"})
    BY <1>2 DEF CragsWithin
  <2>5. DOMAIN (kind ## remote) \subseteq V /\ CragsWithin(kind ## remote, {"browser"})
    BY <1>3, <2>4, EnvUpdate
  <2>6. "PLAYWRIGHT_WS_ENDPOINT" \in DOMAIN (kind ## remote)
        /\ (kind ## remote)["PLAYWRIGHT_WS_ENDPOINT"] = remote["PLAYWRIGHT_WS_ENDPOINT"]
    BY <1>2, UpdateKeeps
  <2>7. ContractOK("browser", spec.contract)
    BY <1>1, <2>2, <2>3, <2>5, NoItems, ContractIsOK DEF V, ServiceSlots
  <2>8. ServiceOK("browser", spec)
    BY <1>1, <1>2, <1>5, <2>2, <2>5, <2>6, <2>7 DEF ServiceOK, AddressOf
  <2>. QED BY <2>8 DEF spec
<1>6. CASE w.engine = "playwright" /\ w.placement = "same_pod"
  <2>2. spec.contract.env = kind ## local
    BY <1>6 DEF BrowserNode, Contract
  <2>3. spec.contract.ports = <<>>
    BY <1>6 DEF BrowserNode, Contract
  <2>. HIDE DEF spec, kind, local, V
  <2>4. CragsWithin(kind, {}) /\ CragsWithin(local, {})
    BY <1>2 DEF CragsWithin
  <2>5. DOMAIN (kind ## local) \subseteq V /\ CragsWithin(kind ## local, {})
    BY <1>3, <2>4, EnvUpdate
  <2>7. ContractOK("browser", spec.contract)
    BY <1>1, <2>2, <2>3, <2>5, NoItems, ContractIsOK DEF V, ServiceSlots
  <2>8. ServiceOK("browser", spec)
    BY <1>1, <1>6, <2>2, <2>5, <2>7 DEF ServiceOK
  <2>. QED BY <2>8 DEF spec
<1>. QED BY <1>4, <1>5, <1>6 DEF BrowserWidgets

LEMMA LLMServerNodeOK ==
  ASSUME NEW w \in LLMServerWidgets, NEW s
  PROVE  ServiceOK("llm", LLMServerNode(w, s, "llm"))
<1>. DEFINE spec == LLMServerNode(w, s, "llm")
            R == IF w.placement = "own_pod" THEN {"llm"} ELSE {}
            address == IF w.placement = "own_pod" THEN Crag("llm") ELSE Text("127.0.0.1")
            base == [LLM_PROVIDER |-> Text(w.engine), LLM_MODEL |-> Text(w.model)]
            endpoint == IF w.engine = "ollama"
                        THEN [OLLAMA_HOST |-> address, OPENAI_BASE_URL |-> address]
                        ELSE [OPENAI_BASE_URL |-> address]
            token == IF w.auth = "generated_token"
                     THEN [OPENAI_API_KEY |-> Text("crag-generated-at-apply")]
                     ELSE <<>>
            V == VarsFor["llm"]
<1>1. /\ spec.placement = w.placement /\ spec.kind = "llm_server"
      /\ spec.contract.env = base ## endpoint ## token
      /\ spec.contract.secrets = LLMServerKey(w) \o Given(w.hf_token, "HF_TOKEN")
  <2>1. spec.placement = w.placement /\ spec.kind = "llm_server"
    BY DEF LLMServerNode
  <2>2. spec.contract.env = base ## endpoint ## token
    BY DEF LLMServerNode, Contract
  <2>3. spec.contract.secrets = LLMServerKey(w) \o Given(w.hf_token, "HF_TOKEN")
    BY DEF LLMServerNode, Contract
  <2>. QED BY <2>1, <2>2, <2>3
<1>2. spec.contract.ports =
        <<Port(w.engine, IF w.engine = "ollama" THEN 11434 ELSE 8000, "public")>>
  BY DEF LLMServerNode, Contract
<1>3. \E p \in PortsFor["llm"] : spec.contract.ports = <<p>>
  <2>1. CASE w.engine = "ollama"
    BY <1>2, <2>1 DEF PortsFor
  <2>2. CASE w.engine = "vllm"
    BY <1>2, <2>2 DEF PortsFor
  <2>. QED BY <2>1, <2>2 DEF LLMServerWidgets
<1>4. spec.contract.secrets \in Seq(SecretRefs)
  <2>1. Given(w.hf_token, "HF_TOKEN") \in Seq(SecretRefs)
    BY GivenIsASecret DEF SecretNames, SecretVars, LLMServerWidgets
  <2>2. Given(w.api_key, "OPENAI_API_KEY") \in Seq(SecretRefs)
    BY GivenIsASecret DEF SecretNames, SecretVars, LLMServerWidgets
  <2>3. LLMServerKey(w) \in Seq(SecretRefs)
    BY <2>2, NoItems DEF LLMServerKey
  <2>. QED BY <1>1, <2>1, <2>3, ConcatProperties
<1>5. \A f \in address : f[1] = "crag" => f[2] \in R
  BY Fragments
<1>6. /\ DOMAIN base \subseteq V /\ CragsWithin(base, R)
      /\ "OPENAI_BASE_URL" \notin DOMAIN base
  <2>1. /\ DOMAIN base = {"LLM_PROVIDER", "LLM_MODEL"}
        /\ base["LLM_PROVIDER"] = {<<"text", w.engine>>}
        /\ base["LLM_MODEL"] = {<<"text", w.model>>}
    BY Fragments
  <2>. QED BY <2>1 DEF CragsWithin, VarsFor
<1>7. /\ DOMAIN endpoint \subseteq V /\ CragsWithin(endpoint, R)
      /\ "OPENAI_BASE_URL" \in DOMAIN endpoint
      /\ endpoint["OPENAI_BASE_URL"] = address
  <2>. HIDE DEF address, R
  <2>1. CASE w.engine = "ollama"
    BY <1>5, <2>1 DEF CragsWithin, VarsFor
  <2>2. CASE w.engine # "ollama"
    BY <1>5, <2>2 DEF CragsWithin, VarsFor
  <2>. QED BY <2>1, <2>2
<1>8. DOMAIN token \subseteq V /\ CragsWithin(token, R)
  <2>1. CASE w.auth = "generated_token"
    BY <2>1, Fragments DEF CragsWithin, VarsFor
  <2>2. CASE w.auth # "generated_token"
    BY <2>2, Fragments DEF CragsWithin
  <2>. QED BY <2>1, <2>2
<1>. HIDE DEF base, endpoint, token, address, R, V, spec
<1>9. /\ DOMAIN (base ## endpoint) \subseteq V /\ CragsWithin(base ## endpoint, R)
      /\ "OPENAI_BASE_URL" \in DOMAIN (base ## endpoint)
      /\ (base ## endpoint)["OPENAI_BASE_URL"] = address
  BY <1>6, <1>7, EnvUpdate, UpdateKeeps
<1>10. /\ DOMAIN (base ## endpoint ## token) \subseteq V
       /\ CragsWithin(base ## endpoint ## token, R)
  BY <1>8, <1>9, EnvUpdate
<1>11. /\ "OPENAI_BASE_URL" \in DOMAIN (base ## endpoint ## token)
       /\ (base ## endpoint ## token)["OPENAI_BASE_URL"] = address
  BY <1>9, UpdateWins
<1>12. ContractOK("llm", spec.contract)
  BY <1>1, <1>3, <1>4, <1>10, ContractIsOK DEF V, ServiceSlots
<1>13. w.placement = "own_pod" => <<"crag", "llm">> \in address
  BY Fragments DEF address
<1>14. ServiceOK("llm", spec)
  BY <1>1, <1>10, <1>11, <1>12, <1>13 DEF ServiceOK, AddressOf, R
<1>. QED BY <1>14 DEF spec

LEMMA LLMApiNodeOK ==
  ASSUME NEW w \in LLMApiWidgets
  PROVE  ServiceOK("llm", LLMApiNode(w, "llm"))
<1>. DEFINE spec == LLMApiNode(w, "llm")
            base == [LLM_PROVIDER |-> Text(w.provider)]
            url == IF w.provider = "ollama_cloud"
                   THEN Texts({"OLLAMA_HOST", "LLM_API_BASE_URL"}, "ollama.com")
                   ELSE IF w.base_url = "" THEN <<>>
                   ELSE Texts(IF w.provider = "codex"
                              THEN {"LLM_API_BASE_URL", "OPENAI_BASE_URL"}
                              ELSE {"LLM_API_BASE_URL"}, w.base_url)
            names == CASE w.provider = "codex" -> <<"OPENAI_API_KEY">>
                       [] w.provider = "claude" -> <<"ANTHROPIC_API_KEY">>
                       [] OTHER -> <<"OLLAMA_API_KEY", "OLLAMA_CLOUD_API_KEY">>
            V == VarsFor["llm"]
<1>1. /\ spec.placement = "env_only" /\ spec.contract.ports = <<>>
      /\ spec.contract.env = base ## url
      /\ spec.contract.secrets =
           IF w.api_key = "" THEN <<>>
           ELSE [i \in DOMAIN names |-> SecretRef(w.api_key, names[i], "runpod_secret")]
  BY DEF LLMApiNode, Contract
<1>2. spec.contract.secrets \in Seq(SecretRefs)
  <2>1. names \in Seq(SecretVars)
    <3>1. CASE w.provider = "codex"
      BY <3>1 DEF SecretVars
    <3>2. CASE w.provider = "claude"
      BY <3>2 DEF SecretVars
    <3>3. CASE w.provider = "ollama_cloud"
      BY <3>3 DEF SecretVars
    <3>. QED BY <3>1, <3>2, <3>3 DEF LLMApiWidgets
  <2>. HIDE DEF names
  <2>2. \A var \in SecretVars : SecretRef(w.api_key, var, "runpod_secret") \in SecretRefs
    BY DEF SecretRef, SecretRefs, SecretNames, LLMApiWidgets
  <2>3. [i \in DOMAIN names |-> SecretRef(w.api_key, names[i], "runpod_secret")]
          \in Seq(SecretRefs)
    BY <2>1, <2>2
  <2>. QED BY <1>1, <2>3, NoItems
<1>3. DOMAIN base \subseteq V /\ CragsWithin(base, {})
  <2>1. DOMAIN base = {"LLM_PROVIDER"} /\ base["LLM_PROVIDER"] = {<<"text", w.provider>>}
    BY Fragments
  <2>. QED BY <2>1 DEF CragsWithin, VarsFor
<1>4. DOMAIN url \subseteq V /\ CragsWithin(url, {})
  <2>1. \A names_, what : CragsWithin(Texts(names_, what), {})
                          /\ DOMAIN Texts(names_, what) = names_
    BY Fragments DEF CragsWithin, Texts
  <2>2. DOMAIN <<>> \subseteq V /\ CragsWithin(<<>>, {})
    BY Fragments DEF CragsWithin
  <2>3. /\ {"OLLAMA_HOST", "LLM_API_BASE_URL"} \subseteq V
        /\ {"LLM_API_BASE_URL", "OPENAI_BASE_URL"} \subseteq V
        /\ {"LLM_API_BASE_URL"} \subseteq V
    BY DEF VarsFor
  <2>4. \/ \E y : url = Texts({"OLLAMA_HOST", "LLM_API_BASE_URL"}, y)
        \/ url = <<>>
        \/ \E y : url = Texts({"LLM_API_BASE_URL", "OPENAI_BASE_URL"}, y)
        \/ \E y : url = Texts({"LLM_API_BASE_URL"}, y)
    OBVIOUS
  <2>. HIDE DEF V, url
  <2>. QED BY <2>1, <2>2, <2>3, <2>4
<1>. HIDE DEF base, url, V, spec
<1>5. DOMAIN (base ## url) \subseteq V /\ CragsWithin(base ## url, {})
  BY <1>3, <1>4, EnvUpdate
<1>6. ContractOK("llm", spec.contract)
  BY <1>1, <1>2, <1>5, ContractIsOK DEF V, ServiceSlots
<1>7. ServiceOK("llm", spec)
  BY <1>1, <1>5, <1>6 DEF ServiceOK
<1>. QED BY <1>7 DEF spec

LEMMA RemoteSQLNodeOK ==
  ASSUME NEW w \in RemoteSQLWidgets, NEW s
  PROVE  ServiceOK("sql", RemoteSQLNode(w, s, "sql"))
<1>. DEFINE spec == RemoteSQLNode(w, s, "sql")
            kind == [DATABASE_KIND |-> Text(w.engine)]
            password == IF w.password = "" THEN Text("app")
                        ELSE {<<"secret", w.password>>}
            address == [DATABASE_URL |-> Crag("sql") \union password,
                        DATABASE_HOST |-> Crag("sql"),
                        DATABASE_PASSWORD |-> password]
            V == VarsFor["sql"]
            url == SecretRef("DATABASE_URL", "DATABASE_URL", "server_env")
<1>1. spec.placement = w.mode /\ spec.kind = "sql_database"
  BY DEF RemoteSQLNode
<1>2. DOMAIN kind \subseteq V /\ \A R : CragsWithin(kind, R)
  <2>1. DOMAIN kind = {"DATABASE_KIND"} /\ kind["DATABASE_KIND"] = {<<"text", w.engine>>}
    BY Fragments
  <2>. QED BY <2>1 DEF CragsWithin, VarsFor
<1>3. CASE w.mode = "own_pod"
  <2>1. spec.contract.env = kind ## address
    BY <1>3 DEF RemoteSQLNode, Contract
  <2>2. spec.contract.secrets = Given(w.password, "DATABASE_PASSWORD")
    BY <1>3 DEF RemoteSQLNode, Contract
  <2>3. \E p \in PortsFor["sql"] : spec.contract.ports = <<p>>
    <3>0. spec.contract.ports =
            <<Port(w.engine, IF w.engine = "postgres" THEN 5432 ELSE 3306, "internal")>>
      BY <1>3 DEF RemoteSQLNode, Contract
    <3>. HIDE DEF spec
    <3>1. CASE w.engine = "postgres"
      BY <3>0, <3>1 DEF PortsFor
    <3>2. CASE w.engine = "mysql"
      BY <3>0, <3>2 DEF PortsFor
    <3>. QED BY <3>1, <3>2 DEF RemoteSQLWidgets
  <2>4. spec.contract.secrets \in Seq(SecretRefs)
    BY <2>2, GivenIsASecret DEF SecretNames, SecretVars, RemoteSQLWidgets
  <2>5. \A f \in password : f[1] # "crag"
    <3>1. CASE w.password = ""
      BY <3>1, Fragments
    <3>2. CASE w.password # ""
      BY <3>2, Fragments
    <3>. QED BY <3>1, <3>2
  <2>6. /\ DOMAIN address \subseteq V /\ CragsWithin(address, {"sql"})
        /\ "DATABASE_URL" \in DOMAIN address
        /\ address["DATABASE_URL"] = Crag("sql") \union password
    <3>. HIDE DEF password
    <3>. QED BY <2>5, Fragments DEF CragsWithin, VarsFor
  <2>7. "DATABASE_URL" \notin DOMAIN kind
    OBVIOUS
  <2>. HIDE DEF spec, kind, address, password, V
  <2>8. DOMAIN (kind ## address) \subseteq V /\ CragsWithin(kind ## address, {"sql"})
    BY <1>2, <2>6, EnvUpdate
  <2>9. "DATABASE_URL" \in DOMAIN (kind ## address)
        /\ (kind ## address)["DATABASE_URL"] = Crag("sql") \union password
    BY <2>6, <2>7, UpdateKeeps
  <2>10. ContractOK("sql", spec.contract)
    BY <2>1, <2>3, <2>4, <2>8, ContractIsOK DEF V, ServiceSlots
  <2>11. ServiceOK("sql", spec)
    BY <1>1, <1>3, <2>1, <2>8, <2>9, <2>10, Fragments DEF ServiceOK, AddressOf
  <2>. QED BY <2>11 DEF spec
<1>4. CASE w.mode = "env_only"
  <2>1. spec.contract.env = kind ## <<>>
    BY <1>4 DEF RemoteSQLNode, Contract
  <2>2. spec.contract.secrets = <<url>>
    BY <1>4 DEF RemoteSQLNode, Contract
  <2>3. spec.contract.ports = <<>>
    BY <1>4 DEF RemoteSQLNode, Contract
  <2>4. url \in SecretRefs
    BY DEF SecretRef, SecretRefs, SecretNames, SecretVars
  <2>5. DOMAIN <<>> \subseteq V /\ CragsWithin(<<>>, {})
    BY Fragments DEF CragsWithin
  <2>. HIDE DEF spec, kind, V, url
  <2>6. DOMAIN (kind ## <<>>) \subseteq V /\ CragsWithin(kind ## <<>>, {})
    BY <1>2, <2>5, EnvUpdate
  <2>7. ContractOK("sql", spec.contract)
    <3>1. spec.contract.secrets \in Seq(SecretRefs)
      BY <2>2, <2>4, OneItem
    <3>. QED BY <2>1, <2>3, <2>6, <3>1, ContractIsOK DEF V, ServiceSlots
  <2>8. ServiceOK("sql", spec)
    BY <1>1, <1>4, <2>1, <2>6, <2>7 DEF ServiceOK
  <2>. QED BY <2>8 DEF spec
<1>. QED BY <1>3, <1>4 DEF RemoteSQLWidgets

LEMMA LocalSQLNodeOK ==
  ASSUME NEW w \in LocalSQLWidgets
  PROVE  ServiceOK("sql", LocalSQLNode(w, "sql"))
<1>. DEFINE spec == LocalSQLNode(w, "sql")
            env == [DATABASE_KIND |-> Text("sqlite"), DATABASE_PATH |-> Text(w.path)]
<1>1. /\ spec.placement = "file_only" /\ spec.contract.env = env
      /\ spec.contract.ports = <<>> /\ spec.contract.secrets = <<>>
  BY DEF LocalSQLNode, Contract
<1>2. DOMAIN env \subseteq VarsFor["sql"] /\ CragsWithin(env, {})
  <2>1. /\ DOMAIN env = {"DATABASE_KIND", "DATABASE_PATH"}
        /\ env["DATABASE_KIND"] = {<<"text", "sqlite">>}
        /\ env["DATABASE_PATH"] = {<<"text", w.path>>}
    BY Fragments
  <2>. QED BY <2>1 DEF CragsWithin, VarsFor
<1>. HIDE DEF spec, env
<1>3. ContractOK("sql", spec.contract)
  BY <1>1, <1>2, NoItems, ContractIsOK DEF ServiceSlots
<1>4. ServiceOK("sql", spec)
  BY <1>1, <1>2, <1>3 DEF ServiceOK
<1>. QED BY <1>4 DEF spec

LEMMA VectorNodeOK ==
  ASSUME NEW w \in VectorWidgets, NEW s
  PROVE  ServiceOK("vector", VectorNode(w, s, "vector"))
<1>. DEFINE spec == VectorNode(w, s, "vector")
            there == [VECTOR_KIND |-> Text(w.engine), VECTOR_URL |-> Crag("vector")]
            here == [VECTOR_KIND |-> Text(w.engine), VECTOR_URL |-> Text("local")]
<1>1. CASE w.placement = "own_pod"
  <2>1. spec.placement = "own_pod" /\ spec.kind = "vector_database"
    BY <1>1 DEF VectorNode
  <2>2. spec.contract.env = there /\ spec.contract.secrets = <<>>
    BY <1>1 DEF VectorNode, Contract
  <2>3. \E p \in PortsFor["vector"] : spec.contract.ports = <<p>>
    <3>1. CASE w.engine = "qdrant"
      BY <1>1, <3>1 DEF VectorNode, Contract, PortsFor
    <3>2. CASE w.engine = "chroma"
      BY <1>1, <3>2 DEF VectorNode, Contract, PortsFor
    <3>. QED BY <3>1, <3>2 DEF VectorWidgets
  <2>4. /\ DOMAIN there = {"VECTOR_KIND", "VECTOR_URL"}
        /\ there["VECTOR_KIND"] = {<<"text", w.engine>>}
        /\ there["VECTOR_URL"] = {<<"crag", "vector">>}
    BY Fragments
  <2>. HIDE DEF spec, there
  <2>5. DOMAIN there \subseteq VarsFor["vector"] /\ CragsWithin(there, {"vector"})
    BY <2>4 DEF CragsWithin, VarsFor
  <2>6. ContractOK("vector", spec.contract)
    BY <2>2, <2>3, <2>5, NoItems, ContractIsOK DEF ServiceSlots
  <2>7. ServiceOK("vector", spec)
    BY <2>1, <2>2, <2>4, <2>5, <2>6 DEF ServiceOK, AddressOf
  <2>. QED BY <2>7 DEF spec
<1>2. CASE w.placement # "own_pod"
  <2>1. spec.placement = "file_only"
    BY <1>2 DEF VectorNode
  <2>2. /\ spec.contract.env = here /\ spec.contract.secrets = <<>>
        /\ spec.contract.ports = <<>>
    BY <1>2 DEF VectorNode, Contract
  <2>4. /\ DOMAIN here = {"VECTOR_KIND", "VECTOR_URL"}
        /\ here["VECTOR_KIND"] = {<<"text", w.engine>>}
        /\ here["VECTOR_URL"] = {<<"text", "local">>}
    BY Fragments
  <2>. HIDE DEF spec, here
  <2>5. DOMAIN here \subseteq VarsFor["vector"] /\ CragsWithin(here, {})
    BY <2>4 DEF CragsWithin, VarsFor
  <2>6. ContractOK("vector", spec.contract)
    BY <2>2, <2>5, NoItems, ContractIsOK DEF ServiceSlots
  <2>7. ServiceOK("vector", spec)
    BY <2>1, <2>2, <2>5, <2>6 DEF ServiceOK
  <2>. QED BY <2>7 DEF spec
<1>. QED BY <1>1, <1>2

LEMMA WebTerminalNodeOK ==
  ASSUME NEW w \in TerminalWidgets
  PROVE  OtherOK("terminal", WebTerminalNode(w, "terminal"))
<1>. DEFINE spec == WebTerminalNode(w, "terminal")
            env == [CRAG_WEB_TERMINAL |-> Text("1"),
                    CRAG_WEB_TERMINAL_AUTH_MODE |-> Text(w.auth_mode),
                    CRAG_WEB_TERMINAL_PASSWORD |-> Text(w.password)]
<1>1. /\ spec.contract.env = env /\ spec.contract.secrets = <<>>
      /\ spec.contract.ports = <<Port("terminal", TerminalPort, "public")>>
  BY DEF WebTerminalNode, Contract
<1>2. Port("terminal", TerminalPort, "public") \in PortsFor["terminal"]
  BY DEF PortsFor
<1>3. DOMAIN env \subseteq VarsFor["terminal"] /\ CragsWithin(env, {})
  <2>1. /\ DOMAIN env = {"CRAG_WEB_TERMINAL", "CRAG_WEB_TERMINAL_AUTH_MODE",
                         "CRAG_WEB_TERMINAL_PASSWORD"}
        /\ env["CRAG_WEB_TERMINAL"] = {<<"text", "1">>}
        /\ env["CRAG_WEB_TERMINAL_AUTH_MODE"] = {<<"text", w.auth_mode>>}
        /\ env["CRAG_WEB_TERMINAL_PASSWORD"] = {<<"text", w.password>>}
    BY Fragments
  <2>. QED BY <2>1 DEF CragsWithin, VarsFor
<1>. HIDE DEF spec, env
<1>4. ContractOK("terminal", spec.contract)
  BY <1>1, <1>2, <1>3, NoItems, ContractIsOK DEF OtherSlots
<1>5. OtherOK("terminal", spec)
  BY <1>1, <1>3, <1>4 DEF OtherOK
<1>. QED BY <1>5 DEF spec

LEMMA MCPServerNodeOK ==
  ASSUME NEW w \in MCPWidgets, NEW previous, OtherOK("mcp", previous)
  PROVE  OtherOK("mcp", MCPServerNode(w, previous, "mcp"))
<1>. DEFINE spec == MCPServerNode(w, previous, "mcp")
            payload == MCPPayload(Append(ServersOf(previous), MCPServer(w)))
            env == [MCP_SERVERS_JSON |-> payload]
            ref == SecretRef(w.secret, w.secret, "server_env")
<1>1. /\ spec.contract.env = env /\ spec.contract.ports = <<>>
      /\ spec.contract.secrets = ContractOf(previous).secrets \o MCPServer(w).secrets
  BY DEF MCPServerNode, Contract
<1>2. ContractOf(previous).secrets \in Seq(SecretRefs)
  BY NoItems DEF ContractOf, OtherOK, ContractOK, EmptyContract, Contract
<1>3. MCPServer(w).secrets \in Seq(SecretRefs)
  <2>1. CASE w.secret = ""
    BY <2>1, NoItems DEF MCPServer
  <2>2. CASE w.secret # ""
    <3>1. MCPServer(w).secrets = <<ref>>
      BY <2>2 DEF MCPServer
    <3>2. ref \in SecretRefs
      BY <2>2 DEF SecretRef, SecretRefs, SecretNames, SecretVars, MCPWidgets
    <3>. HIDE DEF ref
    <3>. QED BY <3>1, <3>2, OneItem
  <2>. QED BY <2>1, <2>2
<1>4. spec.contract.secrets \in Seq(SecretRefs)
  BY <1>1, <1>2, <1>3, ConcatProperties
<1>5. DOMAIN env \subseteq VarsFor["mcp"] /\ CragsWithin(env, {})
  <2>1. \A f \in payload : f[1] = "mcp"
    BY DEF MCPPayload
  <2>. HIDE DEF payload
  <2>. QED BY <2>1 DEF CragsWithin, VarsFor
<1>. HIDE DEF spec, env
<1>6. ContractOK("mcp", spec.contract)
  BY <1>1, <1>4, <1>5, ContractIsOK DEF OtherSlots
<1>7. OtherOK("mcp", spec)
  BY <1>1, <1>5, <1>6 DEF OtherOK
<1>. QED BY <1>7 DEF spec

LEMMA SubagentNodeOK ==
  ASSUME NEW w, NEW previous
  PROVE  OtherOK("subagents", SubagentNode(w, previous, "subagents"))
<1>. DEFINE spec == SubagentNode(w, previous, "subagents")
            names == Append(SubagentsOf(previous), w.name)
            payload == {<<"subagent", names[i]>> : i \in DOMAIN names}
            env == [CRAG_SUBAGENTS_JSON |-> payload]
<1>1. /\ spec.contract.env = env /\ spec.contract.ports = <<>>
      /\ spec.contract.secrets = <<>>
  BY DEF SubagentNode, Contract
<1>2. DOMAIN env \subseteq VarsFor["subagents"] /\ CragsWithin(env, {})
  <2>1. \A f \in payload : f[1] = "subagent"
    OBVIOUS
  <2>. HIDE DEF payload
  <2>. QED BY <2>1 DEF CragsWithin, VarsFor
<1>. HIDE DEF spec, env
<1>3. ContractOK("subagents", spec.contract)
  BY <1>1, <1>2, NoItems, ContractIsOK DEF OtherSlots
<1>4. OtherOK("subagents", spec)
  BY <1>1, <1>2, <1>3 DEF OtherOK
<1>. QED BY <1>4 DEF spec

LEMMA SkillNodeOK ==
  ASSUME NEW w, NEW previous
  PROVE  OtherOK("skills", SkillNode(w, previous, "skills"))
<1>. DEFINE spec == SkillNode(w, previous, "skills")
            skills == Append(SkillsOf(previous), w.name)
            payload == {<<"skill", skills[i]>> : i \in DOMAIN skills}
            env == [RUNPOD_AGENT_SKILLS_JSON |-> payload]
<1>1. /\ spec.contract.env = env /\ spec.contract.ports = <<>>
      /\ spec.contract.secrets = <<>>
  BY DEF SkillNode, Contract
<1>2. DOMAIN env \subseteq VarsFor["skills"] /\ CragsWithin(env, {})
  <2>1. \A f \in payload : f[1] = "skill"
    OBVIOUS
  <2>. HIDE DEF payload
  <2>. QED BY <2>1 DEF CragsWithin, VarsFor
<1>. HIDE DEF spec, env
<1>3. ContractOK("skills", spec.contract)
  BY <1>1, <1>2, NoItems, ContractIsOK DEF OtherSlots
<1>4. OtherOK("skills", spec)
  BY <1>1, <1>2, <1>3 DEF OtherOK
<1>. QED BY <1>4 DEF spec

LEMMA S3StorageNodeOK ==
  ASSUME NEW w \in S3Widgets
  PROVE  OtherOK("s3", S3StorageNode(w, "s3"))
<1>. DEFINE spec == S3StorageNode(w, "s3")
            env == Texts({"S3_ENDPOINT", "S3_BUCKET", "S3_REGION"}, "s3")
            access == SecretRef(w.access, "AWS_ACCESS_KEY_ID", "runpod_secret")
            secret == SecretRef(w.secret, "AWS_SECRET_ACCESS_KEY", "runpod_secret")
<1>1. /\ spec.contract.env = env /\ spec.contract.ports = <<>>
      /\ spec.contract.secrets = <<access, secret>>
  BY DEF S3StorageNode, Contract
<1>2. access \in SecretRefs /\ secret \in SecretRefs
  BY DEF SecretRef, SecretRefs, SecretNames, SecretVars, S3Widgets
<1>3. DOMAIN env \subseteq VarsFor["s3"] /\ CragsWithin(env, {})
  BY Fragments DEF Texts, CragsWithin, VarsFor
<1>. HIDE DEF spec, env, access, secret
<1>4. spec.contract.secrets \in Seq(SecretRefs)
  BY <1>1, <1>2
<1>5. ContractOK("s3", spec.contract)
  BY <1>1, <1>3, <1>4, ContractIsOK DEF OtherSlots
<1>6. VarsOf(spec.contract.secrets) \subseteq S3Keys
  <2>1. access.var = "AWS_ACCESS_KEY_ID" /\ secret.var = "AWS_SECRET_ACCESS_KEY"
    BY DEF access, secret, SecretRef
  <2>2. \A i \in DOMAIN <<access, secret>> :
          <<access, secret>>[i] = access \/ <<access, secret>>[i] = secret
    OBVIOUS
  <2>. QED BY <1>1, <2>1, <2>2 DEF VarsOf, S3Keys
<1>7. OtherOK("s3", spec)
  BY <1>1, <1>3, <1>5, <1>6 DEF OtherOK
<1>. QED BY <1>7 DEF spec

----------------------------------------------------------------------------
(* The resources of a plan. *)

OwnRoles(d) == {role \in ServiceSlots : InOwnPod(d, role)}

LEMMA Concatenation ==
  ASSUME NEW S, NEW s \in Seq(S), NEW u \in Seq(S)
  PROVE  s \o u \in Seq(S) /\ Range(s \o u) = Range(s) \union Range(u)
BY ConcatProperties, RangeConcatenation

LEMMA OwnPodDependenciesAre ==
  ASSUME NEW d
  PROVE  /\ OwnPodDependencies(d) \in Seq(ServiceSlots)
         /\ Range(OwnPodDependencies(d)) = OwnRoles(d)
<1>. DEFINE If(role) == IF InOwnPod(d, role) THEN <<role>> ELSE <<>>
<1>1. \A role \in ServiceSlots :
        /\ If(role) \in Seq(ServiceSlots)
        /\ Range(If(role)) = {r \in {role} : InOwnPod(d, r)}
  <2>. TAKE role \in ServiceSlots
  <2>1. CASE InOwnPod(d, role)
    BY <2>1, OneItem
  <2>2. CASE ~InOwnPod(d, role)
    BY <2>2, NoItems
  <2>. QED BY <2>1, <2>2
<1>2. OwnPodDependencies(d) = If("llm") \o If("sql") \o If("vector") \o If("browser")
  BY DEF OwnPodDependencies
<1>3. /\ "llm" \in ServiceSlots /\ "sql" \in ServiceSlots
      /\ "vector" \in ServiceSlots /\ "browser" \in ServiceSlots
  BY DEF ServiceSlots
<1>. HIDE DEF If
<1>. DEFINE two == If("llm") \o If("sql")
            three == two \o If("vector")
<1>4. two \in Seq(ServiceSlots) /\ Range(two) = Range(If("llm")) \union Range(If("sql"))
  BY <1>1, <1>3, Concatenation
<1>. HIDE DEF two
<1>5. three \in Seq(ServiceSlots) /\ Range(three) = Range(two) \union Range(If("vector"))
  BY <1>1, <1>3, <1>4, Concatenation
<1>6. OwnPodDependencies(d) = three \o If("browser")
  BY <1>2 DEF two
<1>. HIDE DEF three
<1>7. /\ OwnPodDependencies(d) \in Seq(ServiceSlots)
      /\ Range(OwnPodDependencies(d)) = Range(three) \union Range(If("browser"))
  BY <1>1, <1>3, <1>5, <1>6, Concatenation
<1>. QED BY <1>1, <1>3, <1>4, <1>5, <1>7 DEF OwnRoles, ServiceSlots

LEMMA RangeOfAppend ==
  ASSUME NEW S, NEW s \in Seq(S), NEW x \in S
  PROVE  Range(Append(s, x)) = Range(s) \union {x}
<1>. DEFINE one == <<x>>
<1>1. Append(s, x) = s \o one
  BY AppendIsConcat
<1>2. one \in Seq(S) /\ Range(one) = {x}
  BY OneItem
<1>. HIDE DEF one
<1>. QED BY <1>1, <1>2, Concatenation

LEMMA ResourcesOfPlan ==
  ASSUME NEW d, NEW workflow, NEW text
  PROVE  Resources(Plan(d, workflow, text)) =
           {DependencyPod(d, workflow, role) : role \in OwnRoles(d)}
             \union {AgentPod(d, workflow, text)}
<1>. DEFINE deps == OwnPodDependencies(d)
            pods == [i \in DOMAIN deps |-> DependencyPod(d, workflow, deps[i])]
            last_ == AgentPod(d, workflow, text)
            All == {DependencyPod(d, workflow, role) : role \in OwnRoles(d)}
                     \union {last_}
<1>1. Plan(d, workflow, text).resources = Append(pods, last_)
  BY DEF Plan
<1>. HIDE DEF last_
<1>2. deps \in Seq(ServiceSlots) /\ Range(deps) = OwnRoles(d)
  BY OwnPodDependenciesAre
<1>. HIDE DEF deps
<1>3. Range(pods) = {DependencyPod(d, workflow, role) : role \in OwnRoles(d)}
  BY <1>2 DEF Range
<1>4. pods \in Seq(All)
  <2>1. \A i \in 1 .. Len(deps) : pods[i] \in All
    BY <1>2 DEF Range
  <2>2. DOMAIN pods = 1 .. Len(deps) /\ Len(deps) \in Nat
    BY <1>2
  <2>. HIDE DEF All
  <2>. QED BY <2>1, <2>2
<1>5. last_ \in All
  OBVIOUS
<1>. HIDE DEF pods
<1>6. Range(Append(pods, last_)) = Range(pods) \union {last_}
  <2>. HIDE DEF All
  <2>. QED BY <1>4, <1>5, RangeOfAppend
<1>. QED BY <1>1, <1>3, <1>6 DEF Resources, last_

----------------------------------------------------------------------------
(* What merging contracts keeps. *)

Clean(c, ports, variables, roles) ==
  /\ c.ports \in Seq(AllPorts) /\ Range(c.ports) \subseteq ports
  /\ c.secrets \in Seq(SecretRefs)
  /\ DOMAIN c.env \subseteq variables
  /\ CragsWithin(c.env, roles)

LEMMA MergedFields ==
  ASSUME NEW a, NEW b
  PROVE  /\ (a ++ b).env = b.env ## a.env
         /\ (a ++ b).ports = a.ports \o b.ports
         /\ (a ++ b).secrets = a.secrets \o b.secrets
BY DEF ++, MergeContracts, Contract

LEMMA EmptyIsClean ==
  /\ \A P, V, R : Clean(EmptyContract, P, V, R)
  /\ Range(EmptyContract.ports) = {} /\ DOMAIN EmptyContract.env = {}
<1>1. /\ EmptyContract.ports = <<>> /\ EmptyContract.secrets = <<>>
      /\ EmptyContract.env = <<>>
  BY DEF EmptyContract, Contract
<1>. QED BY <1>1, NoItems, Fragments DEF Clean, CragsWithin

LEMMA MergedIsClean ==
  ASSUME NEW a, NEW b, NEW P, NEW V, NEW R, Clean(a, P, V, R), Clean(b, P, V, R)
  PROVE  /\ Clean(a ++ b, P, V, R)
         /\ Range((a ++ b).ports) = Range(a.ports) \union Range(b.ports)
<1>1. /\ (a ++ b).ports \in Seq(AllPorts)
      /\ Range((a ++ b).ports) = Range(a.ports) \union Range(b.ports)
  <2>1. a.ports \in Seq(AllPorts) /\ b.ports \in Seq(AllPorts)
    BY DEF Clean
  <2>2. /\ a.ports \o b.ports \in Seq(AllPorts)
        /\ Range(a.ports \o b.ports) = Range(a.ports) \union Range(b.ports)
    BY <2>1, Concatenation
  <2>. QED BY <2>2, MergedFields
<1>2. (a ++ b).secrets \in Seq(SecretRefs)
  <2>1. a.secrets \in Seq(SecretRefs) /\ b.secrets \in Seq(SecretRefs)
    BY DEF Clean
  <2>. QED BY <2>1, MergedFields, Concatenation
<1>3. DOMAIN (a ++ b).env \subseteq V /\ CragsWithin((a ++ b).env, R)
  <2>1. /\ DOMAIN a.env \subseteq V /\ CragsWithin(a.env, R)
        /\ DOMAIN b.env \subseteq V /\ CragsWithin(b.env, R)
    BY DEF Clean
  <2>2. DOMAIN (b.env ## a.env) \subseteq V /\ CragsWithin(b.env ## a.env, R)
    BY <2>1, EnvUpdate
  <2>. QED BY <2>2, MergedFields
<1>4. Range(a.ports) \subseteq P /\ Range(b.ports) \subseteq P
  BY DEF Clean
<1>. QED BY <1>1, <1>2, <1>3, <1>4 DEF Clean

LEMMA CleanIsMonotonic ==
  ASSUME NEW c, NEW P, NEW V, NEW R, NEW P2, NEW V2, NEW R2, Clean(c, P, V, R),
         P \subseteq P2, V \subseteq V2, R \subseteq R2
  PROVE  Clean(c, P2, V2, R2)
BY DEF Clean, CragsWithin

LEMMA OtherIsClean ==
  ASSUME NEW slot \in OtherSlots, NEW spec, OtherOK(slot, spec)
  PROVE  Clean(ContractOf(spec), PortsFor[slot], VarsFor[slot], {})
BY EmptyIsClean DEF OtherOK, ContractOK, Clean, ContractOf

----------------------------------------------------------------------------
(* The deployment that a workflow describes. *)

AgentVars ==
  {"AGENT_HARNESS", "AGENT_STARTUP_MODE"}
    \union UNION {VarsFor[slot] : slot \in {"mcp", "skills", "subagents", "terminal"}}

PartsOK ==
  /\ DOMAIN parts = Slots
  /\ \A slot \in ServiceSlots : ServiceOK(slot, parts[slot])
  /\ parts.llm.kind \in {"none", "llm_server", "llm_api"}
  /\ \A slot \in OtherSlots : OtherOK(slot, parts[slot])

DeploymentOK(d) ==
  /\ \A role \in ServiceSlots : ServiceOK(role, d.app.parts[role])
  /\ d.app.parts.llm.kind \in {"none", "llm_server", "llm_api"}
  /\ Clean(d.app.contract, PortsFor["terminal"], AgentVars, {})
  /\ OtherOK("s3", d.s3)

LEMMA AgentContractIsClean ==
  ASSUME NEW w, NEW p, \A slot \in OtherSlots \ {"s3"} : OtherOK(slot, p[slot])
  PROVE  Clean(AgentNode(w, p, "agent").contract, PortsFor["terminal"], AgentVars, {})
<1>. DEFINE env == [AGENT_HARNESS |-> Text(w.harness),
                    AGENT_STARTUP_MODE |-> Text(w.startup)]
            own == Contract(env, <<>>, <<>>,
                     IF TerminalOnly(w, p) THEN <<>> ELSE <<HarnessCommand(w, p)>>)
            P == PortsFor["terminal"]
            one == own ++ ContractOf(p.mcp)
            two == one ++ ContractOf(p.skills)
            three == two ++ ContractOf(p.subagents)
<1>1. AgentNode(w, p, "agent").contract = three ++ ContractOf(p.terminal)
  BY DEF AgentNode
<1>2. Clean(own, P, AgentVars, {})
  <2>1. own.env = env /\ own.secrets = <<>> /\ own.ports = <<>>
    BY DEF Contract
  <2>2. DOMAIN env \subseteq AgentVars /\ CragsWithin(env, {})
    BY Fragments DEF AgentVars, CragsWithin
  <2>. HIDE DEF own, env
  <2>. QED BY <2>1, <2>2, NoItems DEF Clean
<1>3. /\ Clean(ContractOf(p.mcp), P, AgentVars, {})
      /\ Clean(ContractOf(p.skills), P, AgentVars, {})
      /\ Clean(ContractOf(p.subagents), P, AgentVars, {})
      /\ Clean(ContractOf(p.terminal), P, AgentVars, {})
  <2>1. \A slot \in OtherSlots \ {"s3"} :
          Clean(ContractOf(p[slot]), PortsFor[slot], VarsFor[slot], {})
    BY OtherIsClean
  <2>2. \A slot \in OtherSlots \ {"s3"} :
          PortsFor[slot] \subseteq P /\ VarsFor[slot] \subseteq AgentVars
    BY DEF OtherSlots, PortsFor, AgentVars
  <2>. HIDE DEF P
  <2>3. \A slot \in OtherSlots \ {"s3"} : Clean(ContractOf(p[slot]), P, AgentVars, {})
    BY <2>1, <2>2, CleanIsMonotonic
  <2>. QED BY <2>3 DEF OtherSlots
<1>. HIDE DEF own, P
<1>4. Clean(one, P, AgentVars, {})
  BY <1>2, <1>3, MergedIsClean
<1>. HIDE DEF one
<1>5. Clean(two, P, AgentVars, {})
  BY <1>3, <1>4, MergedIsClean
<1>. HIDE DEF two
<1>6. Clean(three, P, AgentVars, {})
  BY <1>3, <1>5, MergedIsClean
<1>. HIDE DEF three
<1>7. Clean(three ++ ContractOf(p.terminal), P, AgentVars, {})
  BY <1>3, <1>6, MergedIsClean
<1>. QED BY <1>1, <1>7 DEF P

LEMMA DeploymentIsOK ==
  ASSUME PartsOK
  PROVE  DeploymentOK(Deployment)
<1>. DEFINE p == [s \in AgentSlots |-> parts[s]]
<1>1. /\ Deployment.app = AgentNode(agent, p, "agent")
      /\ Deployment.s3 = parts.s3
  BY DEF Deployment, WithTerminalOptions, DeployNode
<1>2. Deployment.app.parts = p
  BY <1>1 DEF AgentNode
<1>3. \A slot \in OtherSlots \ {"s3"} : p[slot] = parts[slot]
  BY DEF AgentSlots, OtherSlots
<1>4. \A slot \in ServiceSlots : p[slot] = parts[slot]
  BY DEF AgentSlots, ServiceSlots
<1>. HIDE DEF p
<1>5. Clean(Deployment.app.contract, PortsFor["terminal"], AgentVars, {})
  BY <1>1, <1>3, AgentContractIsClean DEF PartsOK
<1>6. p.llm.kind = parts.llm.kind
  BY <1>4 DEF ServiceSlots
<1>. QED BY <1>1, <1>2, <1>4, <1>5, <1>6 DEF DeploymentOK, PartsOK, OtherSlots

----------------------------------------------------------------------------
(* What is merged for the agent: here what is placed in its own pod, there *)
(* what has a pod of its own.                                              *)

Here(d, role) ==
  IF Wired(d.app.parts[role]) /\ ~InOwnPod(d, role)
  THEN d.app.parts[role].contract ELSE EmptyContract
HereOf(d, kind) ==
  IF d.app.parts.llm.kind = kind THEN Here(d, "llm") ELSE EmptyContract
There(d, role) ==
  IF InOwnPod(d, role) THEN d.app.parts[role].contract ELSE EmptyContract

\* The local contract but for what Deploy adds (S3).
AppContracts(d) ==
  d.app.contract ++ Here(d, "browser") ++ HereOf(d, "llm_server") ++ Here(d, "sql")
    ++ Here(d, "vector") ++ HereOf(d, "llm_api")

LocalPorts(d) ==
  PortsFor["terminal"] \union UNION {PortsFor[role] : role \in ServiceSlots \ OwnRoles(d)}
AllVars ==
  AgentVars \union VarsFor["s3"] \union UNION {VarsFor[role] : role \in ServiceSlots}

LEMMA HereIsClean ==
  ASSUME NEW d, DeploymentOK(d), NEW role \in ServiceSlots
  PROVE  /\ Clean(Here(d, role), LocalPorts(d), AllVars, {})
         /\ role \notin OwnRoles(d) =>
              Range(Here(d, role).ports) = Range(ContractOf(d.app.parts[role]).ports)
<1>1. CASE Wired(d.app.parts[role]) /\ ~InOwnPod(d, role)
  <2>1. Here(d, role) = d.app.parts[role].contract
    BY <1>1 DEF Here
  <2>2. ServiceOK(role, d.app.parts[role]) /\ d.app.parts[role].placement # "own_pod"
    BY <1>1 DEF DeploymentOK, InOwnPod
  <2>3. Clean(Here(d, role), PortsFor[role], VarsFor[role], {})
    BY <1>1, <2>1, <2>2 DEF ServiceOK, ContractOK, Clean
  <2>4. PortsFor[role] \subseteq LocalPorts(d) /\ VarsFor[role] \subseteq AllVars
    BY <1>1 DEF LocalPorts, AllVars, OwnRoles
  <2>5. Clean(Here(d, role), LocalPorts(d), AllVars, {})
    BY <2>3, <2>4, CleanIsMonotonic
  <2>. QED BY <1>1, <2>1, <2>5 DEF ContractOf
<1>2. CASE ~Wired(d.app.parts[role])
  BY <1>2, EmptyIsClean DEF Here, ContractOf
<1>3. CASE InOwnPod(d, role)
  BY <1>3, EmptyIsClean DEF Here, OwnRoles
<1>. QED BY <1>1, <1>2, <1>3

LEMMA LocalContractsAre ==
  ASSUME NEW d, DeploymentOK(d)
  PROVE  /\ LocalContracts(d) = AppContracts(d) ++ ContractOf(d.s3)
         /\ Clean(LocalContracts(d), LocalPorts(d), AllVars, {})
         /\ Clean(AppContracts(d), LocalPorts(d), AllVars, {})
         /\ \A role \in ServiceSlots \ OwnRoles(d) :
              Range(ContractOf(d.app.parts[role]).ports)
                \subseteq Range(LocalContracts(d).ports)
<1>. DEFINE OK(c) == Clean(c, LocalPorts(d), AllVars, {})
            a == d.app.contract
            b == a ++ Here(d, "browser")
            c == b ++ HereOf(d, "llm_server")
            e == c ++ Here(d, "sql")
            f == e ++ Here(d, "vector")
            g == f ++ HereOf(d, "llm_api")
            h == ContractOf(d.s3)
<1>1. LocalContracts(d) = g ++ h /\ AppContracts(d) = g
  BY DEF LocalContracts, AppContracts, Here, HereOf
<1>2. OK(a)
  <2>1. Clean(a, PortsFor["terminal"], AgentVars, {})
    BY DEF DeploymentOK
  <2>2. PortsFor["terminal"] \subseteq LocalPorts(d) /\ AgentVars \subseteq AllVars
    BY DEF LocalPorts, AllVars
  <2>. QED BY <2>1, <2>2, CleanIsMonotonic
<1>3. OK(h)
  <2>1. Clean(h, PortsFor["s3"], VarsFor["s3"], {})
    BY OtherIsClean DEF DeploymentOK, OtherSlots
  <2>2. PortsFor["s3"] \subseteq LocalPorts(d) /\ VarsFor["s3"] \subseteq AllVars
    BY DEF LocalPorts, AllVars, PortsFor
  <2>. QED BY <2>1, <2>2, CleanIsMonotonic
<1>4. \A role \in ServiceSlots :
        /\ OK(Here(d, role))
        /\ role \notin OwnRoles(d) =>
             Range(Here(d, role).ports) = Range(ContractOf(d.app.parts[role]).ports)
  BY HereIsClean
<1>5. /\ OK(Here(d, "browser")) /\ OK(Here(d, "sql")) /\ OK(Here(d, "vector"))
      /\ OK(Here(d, "llm"))
  BY <1>4 DEF ServiceSlots
<1>6. OK(HereOf(d, "llm_server")) /\ OK(HereOf(d, "llm_api"))
  BY <1>5, EmptyIsClean DEF HereOf
<1>. HIDE DEF a, h
<1>7. OK(b) /\ Range(b.ports) = Range(a.ports) \union Range(Here(d, "browser").ports)
  BY <1>2, <1>5, MergedIsClean
<1>. HIDE DEF b
<1>8. OK(c) /\ Range(c.ports) = Range(b.ports) \union Range(HereOf(d, "llm_server").ports)
  BY <1>6, <1>7, MergedIsClean
<1>. HIDE DEF c
<1>9. OK(e) /\ Range(e.ports) = Range(c.ports) \union Range(Here(d, "sql").ports)
  BY <1>5, <1>8, MergedIsClean
<1>. HIDE DEF e
<1>10. OK(f) /\ Range(f.ports) = Range(e.ports) \union Range(Here(d, "vector").ports)
  BY <1>5, <1>9, MergedIsClean
<1>. HIDE DEF f
<1>11. OK(g) /\ Range(g.ports) = Range(f.ports) \union Range(HereOf(d, "llm_api").ports)
  BY <1>6, <1>10, MergedIsClean
<1>. HIDE DEF g
<1>12. OK(g ++ h) /\ Range((g ++ h).ports) = Range(g.ports) \union Range(h.ports)
  BY <1>3, <1>11, MergedIsClean
<1>. HIDE DEF OK
<1>13. /\ Range(Here(d, "browser").ports) \subseteq Range(g.ports)
       /\ Range(Here(d, "sql").ports) \subseteq Range(g.ports)
       /\ Range(Here(d, "vector").ports) \subseteq Range(g.ports)
       /\ Range(HereOf(d, "llm_server").ports) \subseteq Range(g.ports)
       /\ Range(HereOf(d, "llm_api").ports) \subseteq Range(g.ports)
  BY <1>7, <1>8, <1>9, <1>10, <1>11
<1>14. Range(Here(d, "llm").ports) \subseteq Range(g.ports)
  <2>1. CASE d.app.parts.llm.kind = "llm_server"
    BY <1>13, <2>1 DEF HereOf
  <2>2. CASE d.app.parts.llm.kind = "llm_api"
    BY <1>13, <2>2 DEF HereOf
  <2>3. CASE d.app.parts.llm.kind = "none"
    <3>1. Here(d, "llm") = EmptyContract
      BY <2>3 DEF Here, Wired
    <3>. QED BY <3>1, EmptyIsClean
  <2>. QED BY <2>1, <2>2, <2>3 DEF DeploymentOK
<1>15. \A role \in ServiceSlots : Range(Here(d, role).ports) \subseteq Range(g.ports)
  BY <1>13, <1>14 DEF ServiceSlots
<1>16. \A role \in ServiceSlots \ OwnRoles(d) :
         Range(ContractOf(d.app.parts[role]).ports) \subseteq Range(LocalContracts(d).ports)
  BY <1>1, <1>4, <1>12, <1>15
<1>. QED BY <1>1, <1>11, <1>12, <1>16 DEF OK, h

----------------------------------------------------------------------------
(* Ports. *)

LEMMA PortsAreApart ==
  /\ \A r, s \in ServiceSlots \union {"terminal"} :
       r # s => PortsFor[r] \intersect PortsFor[s] = {}
  /\ \A p \in AllPorts : p.port # 22
<1>1. /\ \A p \in PortsFor["browser"] : p.name \in {"neko", "playwright"}
      /\ \A p \in PortsFor["llm"] : p.name \in {"ollama", "vllm"}
      /\ \A p \in PortsFor["sql"] : p.name \in {"postgres", "mysql"}
      /\ \A p \in PortsFor["vector"] : p.name \in {"chroma", "qdrant"}
      /\ \A p \in PortsFor["terminal"] : p.name \in {"terminal"}
  BY DEF PortsFor, Port
<1>2. \A s \in ServiceSlots \union {"terminal"} : \A p \in PortsFor[s] : p.port # 22
  BY DEF PortsFor, Port, ServiceSlots, TerminalPort
<1>. QED BY <1>1, <1>2 DEF ServiceSlots, AllPorts

LEMMA SSHPortIsAdded ==
  ASSUME NEW ports \in Seq(AllPorts)
  PROVE  Range(EnsureSSHPort(ports)) = Range(ports) \union {Port("ssh", 22, "public")}
<1>. DEFINE ssh == Port("ssh", 22, "public")
            S == AllPorts \union {ssh}
<1>1. \A i \in DOMAIN ports : ports[i].port # 22
  BY PortsAreApart
<1>2. EnsureSSHPort(ports) = Append(ports, ssh)
  BY <1>1 DEF EnsureSSHPort
<1>3. ports \in Seq(S) /\ ssh \in S
  BY SeqMonotonic
<1>. HIDE DEF S, ssh
<1>4. Range(Append(ports, ssh)) = Range(ports) \union {ssh}
  BY <1>3, RangeOfAppend
<1>. QED BY <1>2, <1>4 DEF ssh

----------------------------------------------------------------------------
(* The inductive invariant: the nodes are as their build methods make them *)
(* and the plans are those of the workflow now and of one before.          *)

IsPlan(p) ==
  \E d, workflow, text : DeploymentOK(d) /\ p = Plan(d, workflow, text)

PlanInv ==
  /\ PartsOK
  /\ runs \in 0 .. 2
  /\ Planned => plan = Plan(Deployment, runs, prompt)
  /\ plan = NoPlan \/ IsPlan(plan)
  /\ last = NoPlan \/ IsPlan(last)
  /\ runs >= 1 => IsPlan(plan)
  /\ runs = 2 => IsPlan(last)

LEMMA InitPlanInv == Init => PlanInv
<1>. SUFFICES ASSUME Init
              PROVE  PlanInv
  OBVIOUS
<1>1. DOMAIN parts = Slots /\ \A s \in Slots : parts[s] = None
  BY DEF Init
<1>2. ServiceSlots \subseteq Slots /\ OtherSlots \subseteq Slots
  BY DEF Slots, AgentSlots, OtherSlots
<1>3. None.kind = "none" /\ ~Wired(None)
  BY DEF None, Wired
<1>4. PartsOK
  <2>1. parts.llm = None
    BY <1>1, <1>2 DEF ServiceSlots
  <2>. HIDE DEF None
  <2>. QED BY <1>1, <1>2, <1>3, <2>1 DEF PartsOK, ServiceOK, OtherOK
<1>5. runs = 0 /\ ~Planned /\ plan = NoPlan /\ last = NoPlan
  BY DEF Init, Planned
<1>. QED BY <1>4, <1>5 DEF PlanInv

LEMMA ChangeKeepsPlans ==
  ASSUME PlanInv, Change, PartsOK'
  PROVE  PlanInv'
<1>1. ~Planned' /\ UNCHANGED <<runs, plan, last>>
  BY DEF Change, Planned
<1>. QED BY <1>1 DEF PlanInv, IsPlan

LEMMA WirePreserves ==
  ASSUME PlanInv, NEW slot \in Slots, NEW spec, Wire(slot, spec),
         slot \in ServiceSlots => ServiceOK(slot, spec),
         slot \in OtherSlots => OtherOK(slot, spec),
         slot = "llm" => spec.kind \in {"none", "llm_server", "llm_api"}
  PROVE  PlanInv'
<1>1. /\ DOMAIN parts' = Slots
      /\ \A s \in Slots : parts'[s] = IF s = slot THEN spec ELSE parts[s]
  BY DEF Wire, PlanInv, PartsOK
<1>2. ServiceSlots \subseteq Slots /\ OtherSlots \subseteq Slots /\ "llm" \in Slots
  BY DEF Slots, AgentSlots, OtherSlots, ServiceSlots
<1>3. \A s \in ServiceSlots : ServiceOK(s, parts'[s])
  BY <1>1, <1>2 DEF PlanInv, PartsOK
<1>4. \A s \in OtherSlots : OtherOK(s, parts'[s])
  BY <1>1, <1>2 DEF PlanInv, PartsOK
<1>5. parts'.llm.kind \in {"none", "llm_server", "llm_api"}
  BY <1>1, <1>2 DEF PlanInv, PartsOK
<1>6. PartsOK'
  BY <1>1, <1>3, <1>4, <1>5 DEF PartsOK
<1>. QED BY <1>6, ChangeKeepsPlans DEF Wire

LEMMA NextPlanInv == PlanInv /\ [Next]_vars => PlanInv'
<1>. SUFFICES ASSUME PlanInv, [Next]_vars
              PROVE  PlanInv'
  OBVIOUS
<1>. USE WidgetsAssumption
<1>0. /\ ServiceSlots \subseteq Slots
      /\ Slots = ServiceSlots \union OtherSlots \union {"commands", "storage", "keep_alive"}
      /\ ServiceSlots = {"llm", "sql", "vector", "browser"}
      /\ OtherSlots = {"mcp", "skills", "subagents", "terminal", "s3"}
  BY DEF Slots, AgentSlots, OtherSlots, ServiceSlots
<1>1. CASE WireBrowser
  <2>1. PICK w \in Widgets.browser, s \in Widgets.mounted :
          BrowserAccepts(w) /\ Wire("browser", BrowserNode(w, s, "browser"))
    BY <1>1 DEF WireBrowser
  <2>2. ServiceOK("browser", BrowserNode(w, s, "browser"))
    BY <2>1, BrowserNodeOK
  <2>. QED BY <1>0, <2>1, <2>2, WirePreserves
<1>2. CASE WireTerminal
  <2>1. PICK w \in Widgets.terminal : Wire("terminal", WebTerminalNode(w, "terminal"))
    BY <1>2 DEF WireTerminal
  <2>2. OtherOK("terminal", WebTerminalNode(w, "terminal"))
    BY WebTerminalNodeOK
  <2>. QED BY <1>0, <2>1, <2>2, WirePreserves
<1>3. CASE WireLLMServer
  <2>1. PICK w \in Widgets.llm_server, s \in Widgets.mounted :
          Wire("llm", LLMServerNode(w, s, "llm"))
    BY <1>3 DEF WireLLMServer
  <2>2. ServiceOK("llm", LLMServerNode(w, s, "llm"))
    BY LLMServerNodeOK
  <2>3. LLMServerNode(w, s, "llm").kind = "llm_server"
    BY DEF LLMServerNode
  <2>. QED BY <1>0, <2>1, <2>2, <2>3, WirePreserves
<1>4. CASE WireLLMApi
  <2>1. PICK w \in Widgets.llm_api : Wire("llm", LLMApiNode(w, "llm"))
    BY <1>4 DEF WireLLMApi
  <2>2. ServiceOK("llm", LLMApiNode(w, "llm"))
    BY LLMApiNodeOK
  <2>3. LLMApiNode(w, "llm").kind = "llm_api"
    BY DEF LLMApiNode
  <2>. QED BY <1>0, <2>1, <2>2, <2>3, WirePreserves
<1>5. CASE WireSQL
  <2>1. ASSUME NEW w \in Widgets.sql, NEW s \in Widgets.mounted,
               Wire("sql", RemoteSQLNode(w, s, "sql"))
        PROVE  PlanInv'
    <3>1. ServiceOK("sql", RemoteSQLNode(w, s, "sql"))
      BY RemoteSQLNodeOK
    <3>. QED BY <1>0, <2>1, <3>1, WirePreserves
  <2>2. ASSUME NEW w \in Widgets.local_sql, Wire("sql", LocalSQLNode(w, "sql"))
        PROVE  PlanInv'
    <3>1. ServiceOK("sql", LocalSQLNode(w, "sql"))
      BY LocalSQLNodeOK
    <3>. QED BY <1>0, <2>2, <3>1, WirePreserves
  <2>. QED BY <1>5, <2>1, <2>2 DEF WireSQL
<1>6. CASE WireVector
  <2>1. PICK w \in Widgets.vector, s \in Widgets.mounted :
          Wire("vector", VectorNode(w, s, "vector"))
    BY <1>6 DEF WireVector
  <2>2. ServiceOK("vector", VectorNode(w, s, "vector"))
    BY VectorNodeOK
  <2>. QED BY <1>0, <2>1, <2>2, WirePreserves
<1>7. CASE AddMCPServer
  <2>1. PICK w \in Widgets.mcp : Wire("mcp", MCPServerNode(w, parts.mcp, "mcp"))
    BY <1>7 DEF AddMCPServer
  <2>2. OtherOK("mcp", parts.mcp)
    BY <1>0 DEF PlanInv, PartsOK
  <2>3. OtherOK("mcp", MCPServerNode(w, parts.mcp, "mcp"))
    BY <2>2, MCPServerNodeOK
  <2>. QED BY <1>0, <2>1, <2>3, WirePreserves
<1>8. CASE AddSubagent
  <2>1. PICK w \in Widgets.subagent :
          Wire("subagents", SubagentNode(w, parts.subagents, "subagents"))
    BY <1>8 DEF AddSubagent
  <2>2. OtherOK("subagents", SubagentNode(w, parts.subagents, "subagents"))
    BY SubagentNodeOK
  <2>. QED BY <1>0, <2>1, <2>2, WirePreserves
<1>9. CASE AddSkill
  <2>1. PICK w : Wire("skills", SkillNode(w, parts.skills, "skills"))
    BY <1>9 DEF AddSkill, SkillFrameworkNode
  <2>2. OtherOK("skills", SkillNode(w, parts.skills, "skills"))
    BY SkillNodeOK
  <2>. QED BY <1>0, <2>1, <2>2, WirePreserves
<1>10. CASE AddCommand
  <2>1. PICK spec : Wire("commands", spec)
    BY <1>10 DEF AddCommand
  <2>. QED BY <1>0, <2>1, WirePreserves
<1>11. CASE WireStorage
  <2>1. ASSUME NEW w \in Widgets.storage, Wire("storage", NetworkStorageNode(w, "storage"))
        PROVE  PlanInv'
    BY <1>0, <2>1, WirePreserves
  <2>2. ASSUME NEW w \in Widgets.s3, Wire("s3", S3StorageNode(w, "s3"))
        PROVE  PlanInv'
    <3>1. OtherOK("s3", S3StorageNode(w, "s3"))
      BY S3StorageNodeOK
    <3>. QED BY <1>0, <2>2, <3>1, WirePreserves
  <2>. QED BY <1>11, <2>1, <2>2 DEF WireStorage
<1>12. CASE WireKeepAlive
  <2>1. PICK spec : Wire("keep_alive", spec)
    BY <1>12 DEF WireKeepAlive
  <2>. QED BY <1>0, <2>1, WirePreserves
<1>13. CASE Unwire
  <2>1. PICK s \in Slots : Wire(s, None)
    BY <1>13 DEF Unwire
  <2>2. None.kind = "none" /\ ~Wired(None)
    BY DEF None, Wired
  <2>3. ServiceOK(s, None) /\ OtherOK(s, None)
    BY <2>2 DEF ServiceOK, OtherOK
  <2>. QED BY <2>1, <2>2, <2>3, WirePreserves
<1>14. CASE SetAgent \/ TypePrompt
  <2>1. Change /\ parts' = parts
    BY <1>14 DEF SetAgent, TypePrompt
  <2>2. PartsOK'
    BY <2>1 DEF PlanInv, PartsOK
  <2>. QED BY <2>1, <2>2, ChangeKeepsPlans
<1>15. CASE Run
  <2>1. /\ runs < 2 /\ last' = plan /\ runs' = runs + 1
        /\ plan' = Plan(Deployment, runs + 1, prompt)
        /\ UNCHANGED <<parts, agent, prompt>>
    BY <1>15 DEF Run
  <2>2. PartsOK' /\ Deployment' = Deployment
    BY <2>1 DEF PlanInv, PartsOK, Deployment
  <2>3. DeploymentOK(Deployment)
    BY DeploymentIsOK DEF PlanInv
  <2>4. plan' = Plan(Deployment', runs', prompt')
    BY <2>1, <2>2
  <2>5. IsPlan(plan')
    BY <2>1, <2>3 DEF IsPlan
  <2>. QED BY <2>1, <2>2, <2>4, <2>5 DEF PlanInv, IsPlan
<1>16. CASE RunRejected
  <2>1. /\ stage' = "rejected"
        /\ UNCHANGED <<parts, agent, prompt, runs, plan, last>>
    BY <1>16 DEF RunRejected
  <2>. QED BY <2>1 DEF PlanInv, PartsOK, IsPlan, Planned
<1>17. CASE UNCHANGED vars
  BY <1>17 DEF vars, PlanInv, PartsOK, IsPlan, Planned, Deployment
<1>. QED
  BY <1>1, <1>2, <1>3, <1>4, <1>5, <1>6, <1>7, <1>8, <1>9, <1>10, <1>11, <1>12,
     <1>13, <1>14, <1>15, <1>16, <1>17
  DEF Next

LEMMA AlwaysPlanInv == Spec => []PlanInv
BY InitPlanInv, NextPlanInv, PTL DEF Spec

----------------------------------------------------------------------------
(* Ports of a plan. *)

LEMMA AgentPodFields ==
  ASSUME NEW d, NEW workflow, NEW text
  PROVE  LET pod == AgentPod(d, workflow, text)
         IN  /\ pod.role = "agent" /\ pod.hash = AgentHash(d)
             /\ pod.ports = EnsureSSHPort(AgentPorts(d))
             /\ pod.env =
                  [CRAG_NODE_ID |-> Text(d.app.id), CRAG_ROLE |-> Text("agent"),
                   CRAG_DESIRED_HASH |-> {<<"hash", AgentHash(d)>>}]
                     ## EnvForCreation(AgentContract(d, workflow, text))
             /\ pod.image = d.app.image
             /\ pod.template = ResolveAgent(d.app.harness, d.app.capabilities)
BY DEF AgentPod, PodInput

LEMMA DependencyContract ==
  ASSUME NEW role, NEW c
  PROVE  /\ DependencyPodContract(role, c).ports = c.ports
         /\ DependencyPodContract(role, c).secrets = c.secrets
BY DEF DependencyPodContract

LEMMA AgentPodPorts ==
  ASSUME NEW d, NEW workflow, NEW text, DeploymentOK(d)
  PROVE  Range(AgentPod(d, workflow, text).ports)
           = Range(LocalContracts(d).ports) \union {Port("ssh", 22, "public")}
<1>1. LocalContracts(d).ports \in Seq(AllPorts)
  BY LocalContractsAre DEF Clean
<1>2. AgentPod(d, workflow, text).ports = EnsureSSHPort(LocalContracts(d).ports)
  BY AgentPodFields DEF AgentPorts
<1>. QED BY <1>1, <1>2, SSHPortIsAdded

LEMMA DependencyPodPorts ==
  ASSUME NEW d, NEW workflow, DeploymentOK(d), NEW role \in OwnRoles(d)
  PROVE  Range(DependencyPod(d, workflow, role).ports)
           = Range(d.app.parts[role].contract.ports) \union {Port("ssh", 22, "public")}
<1>. DEFINE c == d.app.parts[role].contract
<1>1. role \in ServiceSlots /\ Wired(d.app.parts[role])
  BY DEF OwnRoles, InOwnPod
<1>2. c.ports \in Seq(AllPorts)
  BY <1>1 DEF DeploymentOK, ServiceOK, ContractOK
<1>3. DependencyPod(d, workflow, role).ports = EnsureSSHPort(c.ports)
  <2>1. DependencyPod(d, workflow, role).ports
          = EnsureSSHPort(DependencyPodContract(role, c).ports)
    BY DEF DependencyPod, PodInput
  <2>. HIDE DEF c
  <2>2. DependencyPodContract(role, c).ports = c.ports
    BY DependencyContract
  <2>. QED BY <2>1, <2>2
<1>. HIDE DEF c
<1>4. Range(DependencyPod(d, workflow, role).ports)
        = Range(c.ports) \union {Port("ssh", 22, "public")}
  BY <1>2, <1>3, SSHPortIsAdded
<1>. QED BY <1>4 DEF c

LEMMA OneSSHPort ==
  ASSUME NEW ports, ports \subseteq AllPorts
  PROVE  Cardinality({p \in ports \union {Port("ssh", 22, "public")} : p.port = 22}) = 1
<1>1. {p \in ports \union {Port("ssh", 22, "public")} : p.port = 22}
        = {Port("ssh", 22, "public")}
  BY PortsAreApart DEF Port
<1>. QED BY <1>1, FS_Singleton

LEMMA PortsFollow == PlanInv => PortsBelongToTheirPod
<1>. SUFFICES ASSUME PlanInv, Planned
              PROVE  PortsBelongToTheirPod
  BY DEF PortsBelongToTheirPod
<1>. DEFINE d == Deployment
            Opened(role) == UNION {Range(r.ports) : r \in
                                   {x \in Resources(plan): x.role = role}}
            Own(s) == Wired(parts[s]) /\ parts[s].kind # "llm_api"
                        /\ parts[s].placement = "own_pod"
            Pod(role) == DependencyPod(d, runs, role)
            Main == AgentPod(d, runs, prompt)
            ssh == Port("ssh", 22, "public")
<1>1. DeploymentOK(d)
  BY DeploymentIsOK DEF PlanInv
<1>2. Resources(plan) = {Pod(role) : role \in OwnRoles(d)} \union {Main}
  BY ResourcesOfPlan DEF PlanInv
<1>3. \A s \in ServiceSlots : d.app.parts[s] = parts[s]
  BY DEF Deployment, WithTerminalOptions, DeployNode, AgentNode, AgentSlots
<1>. HIDE DEF d
<1>4. \A s \in ServiceSlots : Own(s) <=> s \in OwnRoles(d)
  BY <1>3 DEF OwnRoles, InOwnPod, PlanInv, PartsOK, ServiceOK
<1>5. Main.role = "agent" /\ \A role \in OwnRoles(d) : Pod(role).role = role
  <2>1. Main.role = "agent"
    BY AgentPodFields
  <2>2. ASSUME NEW role \in ServiceSlots
        PROVE  Pod(role).role = role
    BY DEF DependencyPod, PodInput
  <2>. QED BY <2>1, <2>2 DEF OwnRoles
<1>6. "agent" \notin ServiceSlots /\ OwnRoles(d) \subseteq ServiceSlots
  BY DEF ServiceSlots, OwnRoles
<1>7. Range(Main.ports) = Range(LocalContracts(d).ports) \union {ssh}
  BY <1>1, AgentPodPorts
<1>8. \A role \in OwnRoles(d) :
        Range(Pod(role).ports) = Range(parts[role].contract.ports) \union {ssh}
  <2>. TAKE role \in OwnRoles(d)
  <2>1. Range(Pod(role).ports) = Range(d.app.parts[role].contract.ports) \union {ssh}
    BY <1>1, DependencyPodPorts
  <2>2. d.app.parts[role] = parts[role]
    BY <1>3, <1>6
  <2>. QED BY <2>1, <2>2
<1>. HIDE DEF Pod, Main
<1>9. Opened("agent") = Range(Main.ports)
  <2>1. {x \in Resources(plan): x.role = "agent"} = {Main}
    BY <1>2, <1>5, <1>6
  <2>. QED BY <2>1
<1>10. \A role \in OwnRoles(d) : Range(Pod(role).ports) \subseteq Opened(role)
  BY <1>2, <1>5
<1>. HIDE DEF Opened, Own, ssh
<1>11. ASSUME NEW s \in ServiceSlots
       PROVE  Range(ContractOf(parts[s]).ports)
                \subseteq Opened(IF Own(s) THEN s ELSE "agent")
  <2>1. CASE Own(s)
    <3>1. s \in OwnRoles(d) /\ Wired(parts[s])
      BY <1>4, <2>1 DEF Own
    <3>. QED BY <1>8, <1>10, <2>1, <3>1 DEF ContractOf
  <2>2. CASE ~Own(s)
    <3>1. s \notin OwnRoles(d)
      BY <1>4, <2>2
    <3>2. Range(ContractOf(d.app.parts[s]).ports) \subseteq Range(LocalContracts(d).ports)
      BY <1>1, <3>1, LocalContractsAre
    <3>. QED BY <1>3, <1>7, <1>9, <2>2, <3>2
  <2>. QED BY <2>1, <2>2
<1>12. \A r \in Resources(plan) : Cardinality({p \in Range(r.ports): p.port = 22}) = 1
  <2>1. ASSUME NEW role \in OwnRoles(d)
        PROVE  Cardinality({p \in Range(Pod(role).ports): p.port = 22}) = 1
    <3>1. Wired(parts[role]) /\ role \in ServiceSlots
      BY <1>3, <1>6 DEF OwnRoles, InOwnPod
    <3>2. Range(parts[role].contract.ports) \subseteq AllPorts
      <4>1. parts[role].contract.ports \in Seq(AllPorts)
        BY <3>1 DEF PlanInv, PartsOK, ServiceOK, ContractOK
      <4>. QED BY <4>1, RangeOfSeq
    <3>. QED BY <1>8, <3>2, OneSSHPort DEF ssh
  <2>2. Cardinality({p \in Range(Main.ports): p.port = 22}) = 1
    <3>1. Range(LocalContracts(d).ports) \subseteq AllPorts
      <4>1. LocalContracts(d).ports \in Seq(AllPorts)
        BY <1>1, LocalContractsAre DEF Clean
      <4>. QED BY <4>1, RangeOfSeq
    <3>. QED BY <1>7, <3>1, OneSSHPort DEF ssh
  <2>. QED BY <1>2, <2>1, <2>2
<1>13. ASSUME NEW s \in ServiceSlots, Own(s)
       PROVE  Range(parts[s].contract.ports) \intersect Opened("agent") = {}
  <2>1. s \in OwnRoles(d)
    BY <1>4, <1>13
  <2>2. Range(parts[s].contract.ports) \subseteq PortsFor[s]
    BY <1>13 DEF Own, PlanInv, PartsOK, ServiceOK, ContractOK
  <2>3. Range(LocalContracts(d).ports) \subseteq LocalPorts(d)
    BY <1>1, LocalContractsAre DEF Clean
  <2>4. PortsFor[s] \intersect LocalPorts(d) = {}
    BY <2>1, PortsAreApart DEF LocalPorts, ServiceSlots
  <2>5. ssh \notin PortsFor[s]
    <3>1. PortsFor[s] \subseteq AllPorts
      BY DEF AllPorts, ServiceSlots
    <3>2. ssh.port = 22
      BY DEF ssh, Port
    <3>. QED BY <3>1, <3>2, PortsAreApart
  <2>. QED BY <1>7, <1>9, <2>2, <2>3, <2>4, <2>5
<1>. QED BY <1>11, <1>12, <1>13 DEF PortsBelongToTheirPod, Opened, Own

\* A pod opens the ports of the nodes that are placed in it, and one for ssh;
\* the agent's pod does not open the ports of a service that has its own pod
\* (Planner.build takes the agent's ports of the local contract alone).
THEOREM PortsStayWithTheirPod == Spec => []PortsBelongToTheirPod
BY AlwaysPlanInv, PortsFollow, PTL

----------------------------------------------------------------------------
(* Addresses.  What the agent is told about a service in a pod of its own  *)
(* survives everything that is merged later.                               *)

Tells(c, role) ==
  \E k \in VarsFor[role] \intersect DOMAIN c.env : <<"crag", role>> \in c.env[k]

LEMMA VarsAreApart ==
  \A r, s \in ServiceSlots : r # s => VarsFor[r] \intersect VarsFor[s] = {}
BY DEF VarsFor, ServiceSlots

LEMMA TellsMerged ==
  ASSUME NEW a, NEW b, NEW role
  PROVE  /\ Tells(b, role) => Tells(a ++ b, role)
         /\ Tells(a, role) /\ DOMAIN b.env \intersect VarsFor[role] = {}
              => Tells(a ++ b, role)
<1>1. (a ++ b).env = b.env ## a.env
  BY MergedFields
<1>2. ASSUME Tells(b, role)
      PROVE  Tells(a ++ b, role)
  BY <1>1, <1>2, UpdateWins DEF Tells
<1>3. ASSUME Tells(a, role), DOMAIN b.env \intersect VarsFor[role] = {}
      PROVE  Tells(a ++ b, role)
  <2>1. PICK k \in VarsFor[role] \intersect DOMAIN a.env : <<"crag", role>> \in a.env[k]
    BY <1>3 DEF Tells
  <2>2. k \notin DOMAIN b.env
    BY <1>3
  <2>3. k \in DOMAIN (b.env ## a.env) /\ (b.env ## a.env)[k] = a.env[k]
    BY <2>1, <2>2, UpdateKeeps
  <2>. QED BY <1>1, <2>1, <2>3 DEF Tells
<1>. QED BY <1>2, <1>3

LEMMA ThereIsClean ==
  ASSUME NEW d, DeploymentOK(d), NEW role \in ServiceSlots
  PROVE  /\ Clean(There(d, role), AllPorts, AllVars, OwnRoles(d))
         /\ DOMAIN There(d, role).env \subseteq VarsFor[role]
         /\ role \in OwnRoles(d) => Tells(There(d, role), role)
<1>1. CASE InOwnPod(d, role)
  <2>1. There(d, role) = d.app.parts[role].contract
    BY <1>1 DEF There
  <2>2. /\ ServiceOK(role, d.app.parts[role]) /\ Wired(d.app.parts[role])
        /\ d.app.parts[role].placement = "own_pod" /\ role \in OwnRoles(d)
    BY <1>1 DEF DeploymentOK, InOwnPod, OwnRoles
  <2>3. Clean(There(d, role), PortsFor[role], VarsFor[role], {role})
    BY <2>1, <2>2 DEF ServiceOK, ContractOK, Clean
  <2>4. /\ PortsFor[role] \subseteq AllPorts /\ VarsFor[role] \subseteq AllVars
        /\ {role} \subseteq OwnRoles(d)
    BY <2>2 DEF AllPorts, AllVars, ServiceSlots
  <2>5. Clean(There(d, role), AllPorts, AllVars, OwnRoles(d))
    BY <2>3, <2>4, CleanIsMonotonic
  <2>6. AddressOf[role] \subseteq VarsFor[role]
    BY DEF AddressOf, VarsFor, ServiceSlots
  <2>7. Tells(There(d, role), role)
    BY <2>1, <2>2, <2>6 DEF ServiceOK, Tells
  <2>. QED BY <2>3, <2>5, <2>7 DEF Clean
<1>2. CASE ~InOwnPod(d, role)
  BY <1>2, EmptyIsClean DEF There, OwnRoles
<1>. QED BY <1>1, <1>2

\* The contract of the agent but for what WithEnv adds.
Merged(d) ==
  LocalContracts(d) ++ There(d, "llm") ++ There(d, "sql") ++ There(d, "vector")
    ++ There(d, "browser")

LEMMA MergedTells ==
  ASSUME NEW d, DeploymentOK(d)
  PROVE  /\ Clean(Merged(d), AllPorts, AllVars, OwnRoles(d))
         /\ \A role \in OwnRoles(d) : Tells(Merged(d), role)
<1>. DEFINE OK(c) == Clean(c, AllPorts, AllVars, OwnRoles(d))
            a == LocalContracts(d)
            b == a ++ There(d, "llm")
            c == b ++ There(d, "sql")
            e == c ++ There(d, "vector")
            f == e ++ There(d, "browser")
<1>1. Merged(d) = f
  BY DEF Merged
<1>2. OK(a)
  <2>1. Clean(a, LocalPorts(d), AllVars, {})
    BY LocalContractsAre
  <2>2. a.ports \in Seq(AllPorts)
    BY <2>1 DEF Clean
  <2>3. Range(a.ports) \subseteq AllPorts
    BY <2>2, RangeOfSeq
  <2>. HIDE DEF a
  <2>. QED BY <2>1, <2>3 DEF Clean, CragsWithin
<1>3. \A role \in ServiceSlots :
        /\ OK(There(d, role))
        /\ DOMAIN There(d, role).env \subseteq VarsFor[role]
        /\ role \in OwnRoles(d) => Tells(There(d, role), role)
  BY ThereIsClean
<1>4. \A r, s \in ServiceSlots :
        r # s => DOMAIN There(d, s).env \intersect VarsFor[r] = {}
  BY <1>3, VarsAreApart
<1>5. ServiceSlots = {"llm", "sql", "vector", "browser"}
  BY DEF ServiceSlots
<1>. HIDE DEF a
<1>6. OK(b) /\ ("llm" \in OwnRoles(d) => Tells(b, "llm"))
  BY <1>2, <1>3, <1>5, MergedIsClean, TellsMerged
<1>. HIDE DEF b
<1>7. OK(c) /\ \A r \in {"llm", "sql"} : r \in OwnRoles(d) => Tells(c, r)
  <2>1. OK(c)
    BY <1>3, <1>5, <1>6, MergedIsClean
  <2>2. "llm" \in OwnRoles(d) => Tells(c, "llm")
    BY <1>4, <1>5, <1>6, TellsMerged
  <2>3. "sql" \in OwnRoles(d) => Tells(c, "sql")
    BY <1>3, <1>5, TellsMerged
  <2>. QED BY <2>1, <2>2, <2>3
<1>. HIDE DEF c
<1>8. OK(e) /\ \A r \in {"llm", "sql", "vector"} : r \in OwnRoles(d) => Tells(e, r)
  <2>1. OK(e)
    BY <1>3, <1>5, <1>7, MergedIsClean
  <2>2. "llm" \in OwnRoles(d) => Tells(e, "llm")
    BY <1>4, <1>5, <1>7, TellsMerged
  <2>3. "sql" \in OwnRoles(d) => Tells(e, "sql")
    BY <1>4, <1>5, <1>7, TellsMerged
  <2>4. "vector" \in OwnRoles(d) => Tells(e, "vector")
    BY <1>3, <1>5, TellsMerged
  <2>. QED BY <2>1, <2>2, <2>3, <2>4
<1>. HIDE DEF e
<1>9. OK(f) /\ \A r \in ServiceSlots : r \in OwnRoles(d) => Tells(f, r)
  <2>1. OK(f)
    BY <1>3, <1>5, <1>8, MergedIsClean
  <2>2. "llm" \in OwnRoles(d) => Tells(f, "llm")
    BY <1>4, <1>5, <1>8, TellsMerged
  <2>3. "sql" \in OwnRoles(d) => Tells(f, "sql")
    BY <1>4, <1>5, <1>8, TellsMerged
  <2>4. "vector" \in OwnRoles(d) => Tells(f, "vector")
    BY <1>4, <1>5, <1>8, TellsMerged
  <2>5. "browser" \in OwnRoles(d) => Tells(f, "browser")
    BY <1>3, <1>5, TellsMerged
  <2>. HIDE DEF OK, f
  <2>. QED BY <1>5, <2>1, <2>2, <2>3, <2>4, <2>5
<1>10. OwnRoles(d) \subseteq ServiceSlots
  BY DEF OwnRoles
<1>. QED BY <1>1, <1>9, <1>10

RunEnv(workflow, text) ==
  [CRAG_RUN_ID |-> {<<"run", workflow>>}, CRAG_ROLE |-> Text("agent"),
   CRAG_WORKFLOW_HASH |-> {<<"workflow", workflow>>}, AGENT_PROMPT |-> Text(text)]
RunVars == {"CRAG_RUN_ID", "CRAG_ROLE", "CRAG_WORKFLOW_HASH", "AGENT_PROMPT"}
KeepAliveVars ==
  {"CRAG_KEEP_ALIVE_MODE", "CRAG_KEEP_ALIVE_ACTION", "CRAG_KEEP_ALIVE_ENFORCEMENT"}

LEMMA RunEnvIs ==
  ASSUME NEW workflow, NEW text
  PROVE  DOMAIN RunEnv(workflow, text) = RunVars /\ CragsWithin(RunEnv(workflow, text), {})
BY Fragments DEF RunEnv, RunVars, CragsWithin

LEMMA KeepAliveEnvIs ==
  ASSUME NEW policy
  PROVE  /\ DOMAIN KeepAliveEnv(policy) \subseteq KeepAliveVars
         /\ CragsWithin(KeepAliveEnv(policy), {})
<1>1. CASE ~Wired(policy) \/ policy.mode = "manual"
  <2>1. KeepAliveEnv(policy) = <<>>
    BY <1>1 DEF KeepAliveEnv
  <2>. QED BY <2>1, Fragments DEF CragsWithin
<1>2. CASE ~(~Wired(policy) \/ policy.mode = "manual")
  BY <1>2, Fragments DEF KeepAliveEnv, KeepAliveVars, CragsWithin
<1>. QED BY <1>1, <1>2

LEMMA AgentContractEnv ==
  ASSUME NEW d, NEW workflow, NEW text
  PROVE  /\ AgentContract(d, workflow, text).env
              = KeepAliveEnv(d.keep_alive) ## (RunEnv(workflow, text) ## Merged(d).env)
         /\ AgentContract(d, workflow, text).secrets = Merged(d).secrets
<1>. DEFINE all == LocalContracts(d) ++ There(d, "llm") ++ There(d, "sql")
                     ++ There(d, "vector") ++ There(d, "browser")
<1>1. AgentContract(d, workflow, text)
        = WithEnv(WithEnv(all, RunEnv(workflow, text)), KeepAliveEnv(d.keep_alive))
  BY DEF AgentContract, There, RunEnv
<1>2. all = Merged(d)
  BY DEF Merged
<1>. HIDE DEF all
<1>. QED BY <1>1, <1>2 DEF WithEnv

LEMMA AgentContractTells ==
  ASSUME NEW d, NEW workflow, NEW text, DeploymentOK(d)
  PROVE  LET env == AgentContract(d, workflow, text).env
         IN  /\ CragsWithin(env, OwnRoles(d))
             /\ \A role \in OwnRoles(d) :
                  \E k \in DOMAIN env : <<"crag", role>> \in env[k]
<1>. DEFINE run == RunEnv(workflow, text)
            keep == KeepAliveEnv(d.keep_alive)
            inner == run ## Merged(d).env
            env == keep ## inner
<1>1. CragsWithin(run, {}) /\ CragsWithin(keep, {}) /\ CragsWithin(Merged(d).env, OwnRoles(d))
  BY RunEnvIs, KeepAliveEnvIs, MergedTells DEF Clean
<1>2. DOMAIN run = RunVars /\ DOMAIN keep \subseteq KeepAliveVars
  BY RunEnvIs, KeepAliveEnvIs
<1>. HIDE DEF run, keep
<1>3. CragsWithin(run, OwnRoles(d)) /\ CragsWithin(keep, OwnRoles(d))
  BY <1>1 DEF CragsWithin
<1>4. CragsWithin(inner, OwnRoles(d))
  BY <1>1, <1>3, UpdateFacts
<1>5. CragsWithin(env, OwnRoles(d))
  <2>. HIDE DEF inner
  <2>. QED BY <1>3, <1>4, UpdateFacts
<1>6. ASSUME NEW role \in OwnRoles(d)
      PROVE  \E k \in DOMAIN env : <<"crag", role>> \in env[k]
  <2>1. PICK k \in VarsFor[role] \intersect DOMAIN Merged(d).env :
          <<"crag", role>> \in Merged(d).env[k]
    BY MergedTells DEF Tells
  <2>2. role \in ServiceSlots
    BY DEF OwnRoles
  <2>3. k \notin RunVars /\ k \notin KeepAliveVars
    BY <2>1, <2>2 DEF VarsFor, ServiceSlots, RunVars, KeepAliveVars
  <2>4. k \in DOMAIN inner /\ inner[k] = Merged(d).env[k]
    BY <1>2, <2>1, <2>3, UpdateKeeps
  <2>. HIDE DEF inner
  <2>5. k \in DOMAIN env /\ env[k] = inner[k]
    BY <1>2, <2>3, <2>4, UpdateKeeps
  <2>. QED BY <2>1, <2>4, <2>5
<1>7. AgentContract(d, workflow, text).env = env
  BY AgentContractEnv DEF run, keep
<1>. HIDE DEF env
<1>. QED BY <1>5, <1>6, <1>7

\* What a pod is created with has the placeholders of its contract.
LEMMA EnvForCreationCrags ==
  ASSUME NEW c, NEW roles, CragsWithin(c.env, roles)
  PROVE  CragsWithin(EnvForCreation(c), roles)
<1>. DEFINE secrets == [var \in VarsOf(c.secrets) |->
                          SecretPlaceholder(LastFor(var, c.secrets))]
<1>1. \A s : \A f \in SecretPlaceholder(s) : f[1] # "crag"
  <2>. TAKE s
  <2>1. CASE s.provider = "server_env"
    BY <2>1 DEF SecretPlaceholder
  <2>2. CASE s.provider # "server_env"
    BY <2>2 DEF SecretPlaceholder
  <2>. QED BY <2>1, <2>2
<1>2. CragsWithin(secrets, roles)
  BY <1>1 DEF CragsWithin
<1>3. EnvForCreation(c) = secrets ## c.env
  BY DEF EnvForCreation
<1>. HIDE DEF secrets
<1>. QED BY <1>2, <1>3, CragsUpdate

LEMMA WithoutCrags ==
  ASSUME NEW env, NEW keys, NEW roles, CragsWithin(env, roles)
  PROVE  CragsWithin(Without(env, keys), roles)
BY DEF Without, CragsWithin

LEMMA DependencyContractCrags ==
  ASSUME NEW role \in ServiceSlots, NEW c, NEW roles, CragsWithin(c.env, roles)
  PROVE  CragsWithin(DependencyPodContract(role, c).env, roles)
<1>. DEFINE D == DependencyPodContract(role, c)
            host == IF c.env.LLM_PROVIDER = Text("ollama")
                    THEN [OLLAMA_HOST |-> Text("0.0.0.0")] ELSE <<>>
<1>1. CASE role = "llm"
  <2>1. D.env = host ## Without(c.env, {"OPENAI_BASE_URL"})
    BY <1>1 DEF DependencyPodContract
  <2>2. CragsWithin(host, roles)
    <3>1. CASE c.env.LLM_PROVIDER = Text("ollama")
      BY <3>1, Fragments DEF CragsWithin
    <3>2. CASE c.env.LLM_PROVIDER # Text("ollama")
      BY <3>2, Fragments DEF CragsWithin
    <3>. QED BY <3>1, <3>2
  <2>3. CragsWithin(Without(c.env, {"OPENAI_BASE_URL"}), roles)
    BY WithoutCrags
  <2>. HIDE DEF host
  <2>. QED BY <2>1, <2>2, <2>3, CragsUpdate
<1>2. CASE role = "browser"
  BY <1>2, WithoutCrags DEF DependencyPodContract
<1>3. CASE role = "sql"
  BY <1>3, WithoutCrags DEF DependencyPodContract
<1>4. CASE role = "vector"
  BY <1>4, WithoutCrags DEF DependencyPodContract
<1>. QED BY <1>1, <1>2, <1>3, <1>4 DEF ServiceSlots

LEMMA SecretKeepsAddresses ==
  ASSUME NEW value
  PROVE  /\ (\A f \in value : f[1] # "crag")
              => \A f \in ResolveLocalSecret(value) : f[1] # "crag"
         /\ \A n : <<"service", n>> \in value
              => <<"service", n>> \in ResolveLocalSecret(value)
<1>1. CASE \E s \in LocalSecrets : value = {<<"secret", s>>}
  <2>1. ResolveLocalSecret(value) = {<<"value", f[2]>> : f \in value}
    BY <1>1 DEF ResolveLocalSecret
  <2>2. \A n : <<"service", n>> \notin value
    BY <1>1
  <2>. QED BY <2>1, <2>2
<1>2. CASE ~\E s \in LocalSecrets : value = {<<"secret", s>>}
  BY <1>2 DEF ResolveLocalSecret
<1>. QED BY <1>1, <1>2

LEMMA PlaceholdersResolve ==
  ASSUME NEW p, NEW value, NEW roles,
         \A f \in value : f[1] = "crag" => f[2] \in roles,
         \A role \in roles : ServiceFor(p, role) # {}
  PROVE  \A f \in ResolveCragPlaceholders(value, p) : f[1] # "crag"
BY DEF ResolveCragPlaceholders

LEMMA PlaceholderBecomesName ==
  ASSUME NEW p, NEW value, NEW role, <<"crag", role>> \in value,
         NEW n \in ServiceFor(p, role)
  PROVE  <<"service", n>> \in ResolveCragPlaceholders(value, p)
BY DEF ResolveCragPlaceholders

LEMMA ResolvedHasNoCrags ==
  ASSUME NEW p, NEW env, NEW roles, CragsWithin(env, roles),
         \A role \in roles : ServiceFor(p, role) # {}
  PROVE  CragsWithin(Resolved(env, p), {})
<1>1. ASSUME NEW k \in DOMAIN env
      PROVE  \A f \in ResolveLocalSecret(ResolveCragPlaceholders(env[k], p)) : f[1] # "crag"
  <2>1. \A f \in ResolveCragPlaceholders(env[k], p) : f[1] # "crag"
    BY PlaceholdersResolve DEF CragsWithin
  <2>. QED BY <2>1, SecretKeepsAddresses
<1>. QED BY <1>1 DEF Resolved, CragsWithin

LEMMA ComposeEnvHasNoCrags ==
  ASSUME NEW r, NEW p, CragsWithin(Resolved(r.env, p), {})
  PROVE  \A f \in UNION Range(ComposeEnv(r, p)) : f[1] # "crag"
<1>. DEFINE env == Resolved(r.env, p)
            password == IF "DATABASE_PASSWORD" \in DOMAIN env
                        THEN env.DATABASE_PASSWORD ELSE Text("app")
            image == IF r.role # "sql" THEN {}
                     ELSE IF env.DATABASE_KIND = Text("postgres") THEN {"POSTGRES_PASSWORD"}
                     ELSE {"MYSQL_PASSWORD", "MYSQL_ROOT_PASSWORD"}
            more == [k \in image |-> password]
<1>1. ComposeEnv(r, p) = env ## more
  BY DEF ComposeEnv
<1>2. \A f \in password : f[1] # "crag"
  <2>1. CASE "DATABASE_PASSWORD" \in DOMAIN env
    BY <2>1 DEF CragsWithin
  <2>2. CASE "DATABASE_PASSWORD" \notin DOMAIN env
    BY <2>2, Fragments
  <2>. QED BY <2>1, <2>2
<1>. HIDE DEF password, image
<1>3. CragsWithin(more, {})
  BY <1>2 DEF CragsWithin
<1>. HIDE DEF env, more
<1>4. CragsWithin(env ## more, {})
  BY <1>3, CragsUpdate DEF env
<1>. QED BY <1>1, <1>4 DEF CragsWithin, Range

LEMMA AddressesFollow == PlanInv => AddressesResolve
<1>. SUFFICES ASSUME PlanInv, Planned
              PROVE  AddressesResolve
  BY DEF AddressesResolve
<1>. DEFINE d == Deployment
            Pod(role) == DependencyPod(d, runs, role)
            Main == AgentPod(d, runs, prompt)
            session == AgentContract(d, runs, prompt).env
<1>1. DeploymentOK(d)
  BY DeploymentIsOK DEF PlanInv
<1>2. plan = Plan(d, runs, prompt)
  BY DEF PlanInv
<1>3. Resources(plan) = {Pod(role) : role \in OwnRoles(d)} \union {Main}
  BY <1>2, ResourcesOfPlan
<1>4. plan.contract.env = session
  BY <1>2 DEF Plan
<1>5. OwnRoles(d) \subseteq ServiceSlots /\ "agent" \notin ServiceSlots
  BY DEF OwnRoles, ServiceSlots
<1>. HIDE DEF d
<1>6. \A role \in OwnRoles(d) : Pod(role).role = role /\ Pod(role).name.role = role
  BY DEF DependencyPod, PodInput, ManagedName
<1>7. Main.role = "agent"
  BY DEF AgentPod, PodInput
<1>8. Agent(plan) = Main
  <2>. HIDE DEF Pod, Main
  <2>1. \A r \in Resources(plan) : r.role = "agent" <=> r = Main
    BY <1>3, <1>5, <1>6, <1>7
  <2>2. Main \in Resources(plan)
    BY <1>3
  <2>. QED BY <2>1, <2>2 DEF Agent
<1>9. \A role \in OwnRoles(d) : Pod(role).name \in ServiceFor(plan, role)
  <2>. HIDE DEF Pod
  <2>. QED BY <1>3, <1>6 DEF ServiceFor, Resources
<1>10. /\ CragsWithin(session, OwnRoles(d))
       /\ \A role \in OwnRoles(d) : \E k \in DOMAIN session : <<"crag", role>> \in session[k]
  BY <1>1, AgentContractTells
<1>11. CragsWithin(Main.env, OwnRoles(d))
  <2>1. CragsWithin(EnvForCreation(AgentContract(d, runs, prompt)), OwnRoles(d))
    BY <1>10, EnvForCreationCrags
  <2>. DEFINE own == [CRAG_NODE_ID |-> Text(d.app.id), CRAG_ROLE |-> Text("agent"),
                      CRAG_DESIRED_HASH |-> {<<"hash", AgentHash(d)>>}]
  <2>2. CragsWithin(own, OwnRoles(d))
    BY Fragments DEF CragsWithin
  <2>3. Main.env = own ## EnvForCreation(AgentContract(d, runs, prompt))
    BY AgentPodFields
  <2>. HIDE DEF own, Main
  <2>. QED BY <2>1, <2>2, <2>3, CragsUpdate
<1>12. ASSUME NEW role \in OwnRoles(d)
       PROVE  CragsWithin(Pod(role).env, OwnRoles(d))
  <2>. DEFINE spec == d.app.parts[role]
              c == DependencyPodContract(role, spec.contract)
              own == [CRAG_NODE_ID |-> Text(spec.id), CRAG_ROLE |-> Text(role),
                      CRAG_DESIRED_HASH |-> {<<"hash", spec>>}]
  <2>1. CragsWithin(spec.contract.env, {role})
    BY <1>1, <1>5 DEF DeploymentOK, ServiceOK, OwnRoles, InOwnPod
  <2>2. CragsWithin(spec.contract.env, OwnRoles(d))
    BY <2>1 DEF CragsWithin
  <2>3. CragsWithin(c.env, OwnRoles(d))
    <3>. HIDE DEF spec
    <3>. QED BY <1>5, <2>2, DependencyContractCrags
  <2>4. CragsWithin(own, OwnRoles(d))
    BY Fragments DEF CragsWithin
  <2>5. Pod(role).env = own ## EnvForCreation(c)
    BY DEF DependencyPod, PodInput, DependencyHash
  <2>. HIDE DEF Pod, own, c
  <2>6. CragsWithin(EnvForCreation(c), OwnRoles(d))
    BY <2>3, EnvForCreationCrags
  <2>. QED BY <2>4, <2>5, <2>6, CragsUpdate
<1>. HIDE DEF Pod, Main, session
<1>13. ASSUME NEW r \in Resources(plan)
       PROVE  \A f \in UNION Range(ComposeEnv(r, plan)) : f[1] # "crag"
  <2>1. CragsWithin(r.env, OwnRoles(d))
    BY <1>3, <1>11, <1>12
  <2>2. \A role \in OwnRoles(d) : ServiceFor(plan, role) # {}
    BY <1>9
  <2>3. CragsWithin(Resolved(r.env, plan), {})
    BY <2>1, <2>2, ResolvedHasNoCrags
  <2>. QED BY <2>3, ComposeEnvHasNoCrags
<1>14. ASSUME NEW r \in Resources(plan) \ {Agent(plan)}
       PROVE  \E v \in Range(SessionEnv(plan)) : <<"service", r.name>> \in v
  <2>1. PICK role \in OwnRoles(d) : r = Pod(role)
    BY <1>3, <1>8
  <2>2. PICK k \in DOMAIN session : <<"crag", role>> \in session[k]
    BY <1>10
  <2>3. <<"service", r.name>> \in ResolveCragPlaceholders(session[k], plan)
    BY <1>9, <2>1, <2>2, PlaceholderBecomesName
  <2>4. <<"service", r.name>> \in ResolveLocalSecret(ResolveCragPlaceholders(session[k], plan))
    BY <2>3, SecretKeepsAddresses
  <2>5. /\ DOMAIN SessionEnv(plan) = DOMAIN session
        /\ SessionEnv(plan)[k] = ResolveLocalSecret(ResolveCragPlaceholders(session[k], plan))
    BY <1>4, <2>2 DEF SessionEnv, Resolved
  <2>. QED BY <2>2, <2>4, <2>5 DEF Range
<1>. QED BY <1>13, <1>14 DEF AddressesResolve

\* In a compose project no placeholder is left, and for every service in a
\* container of its own the agent has a variable that names it: neither the
\* merging of contracts nor the resolution of secrets loses an address.
THEOREM AddressesAreResolved == Spec => []AddressesResolve
BY AlwaysPlanInv, AddressesFollow, PTL

----------------------------------------------------------------------------
(* The last secret for a variable. *)

LEMMA LeastNatural ==
  ASSUME NEW T \in SUBSET Nat, T # {}
  PROVE  \E x \in T : \A y \in T : x <= y
<1>. DEFINE R == {ss \in Nat \X Nat : ss[1] < ss[2]}
<1>1. IsWellFoundedOn(R, Nat)
  BY NatLessThanWellFounded DEF OpToRel
<1>2. PICK x \in T : \A y \in T : ~(<<y, x>> \in R)
  <2>. HIDE DEF R
  <2>. QED BY <1>1, WFMin
<1>3. \A y \in T : ~(y < x)
  BY <1>2
<1>. QED BY <1>3

\* i is the place of the last secret for var.
IsLast(i, var, s) ==
  /\ i \in DOMAIN s /\ s[i].var = var
  /\ \A j \in DOMAIN s : s[j].var = var => j <= i

LEMMA LastForIs ==
  ASSUME NEW s \in Seq(SecretRefs), NEW var, NEW i, IsLast(i, var, s)
  PROVE  LastFor(var, s) = s[i]
<1>. DEFINE c == CHOOSE k \in DOMAIN s :
                   s[k].var = var /\ \A j \in DOMAIN s : s[j].var = var => j <= k
<1>1. IsLast(c, var, s)
  BY DEF IsLast
<1>2. LastFor(var, s) = s[c]
  BY DEF LastFor
<1>. HIDE DEF c
<1>3. c <= i /\ i <= c /\ c \in Int /\ i \in Int
  BY <1>1 DEF IsLast
<1>4. c = i
  BY <1>3
<1>. QED BY <1>2, <1>4

LEMMA LastExists ==
  ASSUME NEW s \in Seq(SecretRefs), NEW var \in VarsOf(s)
  PROVE  \E i : IsLast(i, var, s)
<1>. DEFINE I == {i \in DOMAIN s : s[i].var = var}
            back(i) == Len(s) - i
            T == {back(i) : i \in I}
<1>1. Len(s) \in Nat /\ DOMAIN s = 1 .. Len(s)
  OBVIOUS
<1>2. I # {} /\ I \subseteq 1 .. Len(s)
  BY <1>1 DEF VarsOf
<1>3. T \in SUBSET Nat /\ T # {}
  BY <1>1, <1>2
<1>4. PICK x \in T : \A y \in T : x <= y
  <2>. HIDE DEF T
  <2>. QED BY <1>3, LeastNatural
<1>5. PICK i \in I : x = back(i)
  BY <1>4
<1>6. \A j \in I : back(i) <= back(j)
  BY <1>4, <1>5
<1>7. \A j \in I : j <= i
  <2>. HIDE DEF I
  <2>. QED BY <1>1, <1>2, <1>5, <1>6
<1>8. IsLast(i, var, s)
  BY <1>5, <1>7 DEF IsLast
<1>. QED BY <1>8

LEMMA LastOfConcatenation ==
  ASSUME NEW a \in Seq(SecretRefs), NEW b \in Seq(SecretRefs)
  PROVE  /\ VarsOf(a \o b) = VarsOf(a) \union VarsOf(b)
         /\ \A var \in VarsOf(b) : LastFor(var, a \o b) = LastFor(var, b)
         /\ \A var \in VarsOf(a) \ VarsOf(b) : LastFor(var, a \o b) = LastFor(var, a)
<1>. DEFINE c == a \o b
<1>1. /\ c \in Seq(SecretRefs) /\ Len(c) = Len(a) + Len(b)
      /\ \A i \in 1 .. Len(a) + Len(b) :
           c[i] = IF i <= Len(a) THEN a[i] ELSE b[i - Len(a)]
  BY ConcatProperties
<1>. HIDE DEF c
<1>2. /\ Len(a) \in Nat /\ Len(b) \in Nat /\ DOMAIN a = 1 .. Len(a)
      /\ DOMAIN b = 1 .. Len(b) /\ DOMAIN c = 1 .. (Len(a) + Len(b))
  BY <1>1
<1>3. /\ \A i \in DOMAIN a : i \in DOMAIN c /\ c[i] = a[i]
      /\ \A i \in DOMAIN b : Len(a) + i \in DOMAIN c /\ c[Len(a) + i] = b[i]
      /\ \A i \in DOMAIN c :
           i \in DOMAIN a \/ (i - Len(a) \in DOMAIN b /\ c[i] = b[i - Len(a)])
  <2>1. ASSUME NEW i \in DOMAIN a
        PROVE  i \in DOMAIN c /\ c[i] = a[i]
    BY <1>1, <1>2
  <2>2. ASSUME NEW i \in DOMAIN b
        PROVE  Len(a) + i \in DOMAIN c /\ c[Len(a) + i] = b[i]
    <3>1. Len(a) + i \in 1 .. Len(a) + Len(b) /\ ~(Len(a) + i <= Len(a))
      BY <1>2
    <3>2. Len(a) + i - Len(a) = i
      BY <1>2
    <3>. QED BY <1>1, <1>2, <3>1, <3>2
  <2>3. ASSUME NEW i \in DOMAIN c, i \notin DOMAIN a
        PROVE  i - Len(a) \in DOMAIN b /\ c[i] = b[i - Len(a)]
    <3>1. ~(i <= Len(a)) /\ i \in 1 .. Len(a) + Len(b) /\ i - Len(a) \in 1 .. Len(b)
      BY <1>2, <2>3
    <3>. QED BY <1>1, <1>2, <3>1
  <2>4. \A i \in DOMAIN c :
          i \in DOMAIN a \/ (i - Len(a) \in DOMAIN b /\ c[i] = b[i - Len(a)])
    BY <2>3
  <2>5. \A i \in DOMAIN b : Len(a) + i \in DOMAIN c /\ c[Len(a) + i] = b[i]
    BY <2>2
  <2>6. \A i \in DOMAIN a : i \in DOMAIN c /\ c[i] = a[i]
    BY <2>1
  <2>. QED BY <2>4, <2>5, <2>6, Zenon
<1>4. VarsOf(c) = VarsOf(a) \union VarsOf(b)
  BY <1>3 DEF VarsOf
<1>5. ASSUME NEW var \in VarsOf(b)
      PROVE  LastFor(var, c) = LastFor(var, b)
  <2>1. PICK i : IsLast(i, var, b)
    BY LastExists
  <2>2. IsLast(Len(a) + i, var, c)
    <3>1. Len(a) + i \in DOMAIN c /\ c[Len(a) + i].var = var
      BY <1>3, <2>1 DEF IsLast
    <3>2. ASSUME NEW j \in DOMAIN c, c[j].var = var
          PROVE  j <= Len(a) + i
      <4>1. CASE j \in DOMAIN a
        BY <1>2, <2>1, <4>1 DEF IsLast
      <4>2. CASE j - Len(a) \in DOMAIN b /\ c[j] = b[j - Len(a)]
        <5>1. j - Len(a) <= i
          BY <2>1, <3>2, <4>2 DEF IsLast
        <5>. QED BY <1>2, <2>1, <5>1 DEF IsLast
      <4>. QED BY <1>3, <4>1, <4>2
    <3>. QED BY <3>1, <3>2 DEF IsLast
  <2>3. LastFor(var, c) = c[Len(a) + i] /\ LastFor(var, b) = b[i]
    BY <1>1, <2>1, <2>2, LastForIs
  <2>. QED BY <1>3, <2>1, <2>3 DEF IsLast
<1>6. ASSUME NEW var \in VarsOf(a) \ VarsOf(b)
      PROVE  LastFor(var, c) = LastFor(var, a)
  <2>1. PICK i : IsLast(i, var, a)
    BY LastExists
  <2>2. IsLast(i, var, c)
    <3>1. \A j \in DOMAIN c : c[j].var = var => j \in DOMAIN a
      BY <1>3, <1>6 DEF VarsOf
    <3>. QED BY <1>3, <2>1, <3>1 DEF IsLast
  <2>3. LastFor(var, c) = c[i] /\ LastFor(var, a) = a[i]
    BY <1>1, <2>1, <2>2, LastForIs
  <2>. QED BY <1>3, <2>1, <2>3 DEF IsLast
<1>. QED BY <1>4, <1>5, <1>6 DEF c

----------------------------------------------------------------------------
(* Two deployments of one agent.  Their contracts differ in what names the *)
(* run and in what Deploy adds.                                            *)

Differs == PerRun \union FromDeploy

SameEnv(e1, e2) ==
  \A k : k \notin Differs =>
    /\ k \in DOMAIN e1 <=> k \in DOMAIN e2
    /\ k \in DOMAIN e1 => e1[k] = e2[k]

SameSecrets(s1, s2) ==
  /\ s1 \in Seq(SecretRefs) /\ s2 \in Seq(SecretRefs)
  /\ \A var : var \notin Differs =>
       /\ var \in VarsOf(s1) <=> var \in VarsOf(s2)
       /\ var \in VarsOf(s1) => LastFor(var, s1) = LastFor(var, s2)

SameContract(c1, c2) ==
  SameEnv(c1.env, c2.env) /\ SameSecrets(c1.secrets, c2.secrets)

LEMMA SameUpdate ==
  ASSUME NEW a1, NEW a2, NEW b1, NEW b2, SameEnv(a1, a2), SameEnv(b1, b2)
  PROVE  SameEnv(a1 ## b1, a2 ## b2)
BY DEF SameEnv, ##

LEMMA SameConcatenation ==
  ASSUME NEW a1, NEW a2, NEW b1, NEW b2, SameSecrets(a1, a2), SameSecrets(b1, b2)
  PROVE  SameSecrets(a1 \o b1, a2 \o b2)
<1>1. /\ a1 \in Seq(SecretRefs) /\ a2 \in Seq(SecretRefs)
      /\ b1 \in Seq(SecretRefs) /\ b2 \in Seq(SecretRefs)
  BY DEF SameSecrets
<1>. DEFINE c1 == a1 \o b1
            c2 == a2 \o b2
<1>2. c1 \in Seq(SecretRefs) /\ c2 \in Seq(SecretRefs)
  BY <1>1, ConcatProperties
<1>3. /\ VarsOf(c1) = VarsOf(a1) \union VarsOf(b1)
      /\ \A var \in VarsOf(b1) : LastFor(var, c1) = LastFor(var, b1)
      /\ \A var \in VarsOf(a1) \ VarsOf(b1) : LastFor(var, c1) = LastFor(var, a1)
  BY <1>1, LastOfConcatenation
<1>4. /\ VarsOf(c2) = VarsOf(a2) \union VarsOf(b2)
      /\ \A var \in VarsOf(b2) : LastFor(var, c2) = LastFor(var, b2)
      /\ \A var \in VarsOf(a2) \ VarsOf(b2) : LastFor(var, c2) = LastFor(var, a2)
  BY <1>1, LastOfConcatenation
<1>. HIDE DEF c1, c2
<1>5. ASSUME NEW var, var \notin Differs
      PROVE  /\ var \in VarsOf(c1) <=> var \in VarsOf(c2)
             /\ var \in VarsOf(c1) => LastFor(var, c1) = LastFor(var, c2)
  <2>1. /\ var \in VarsOf(a1) <=> var \in VarsOf(a2)
        /\ var \in VarsOf(b1) <=> var \in VarsOf(b2)
        /\ var \in VarsOf(a1) => LastFor(var, a1) = LastFor(var, a2)
        /\ var \in VarsOf(b1) => LastFor(var, b1) = LastFor(var, b2)
    BY <1>5 DEF SameSecrets
  <2>. QED BY <1>3, <1>4, <2>1
<1>6. SameSecrets(c1, c2)
  BY <1>2, <1>5 DEF SameSecrets
<1>. QED BY <1>6 DEF c1, c2

LEMMA SameMerged ==
  ASSUME NEW a1, NEW a2, NEW b1, NEW b2, SameContract(a1, a2), SameContract(b1, b2)
  PROVE  SameContract(a1 ++ b1, a2 ++ b2)
<1>1. /\ SameEnv(a1.env, a2.env) /\ SameEnv(b1.env, b2.env)
      /\ SameSecrets(a1.secrets, a2.secrets) /\ SameSecrets(b1.secrets, b2.secrets)
  BY DEF SameContract
<1>2. SameEnv(b1.env ## a1.env, b2.env ## a2.env)
  BY <1>1, SameUpdate
<1>3. SameSecrets(a1.secrets \o b1.secrets, a2.secrets \o b2.secrets)
  BY <1>1, SameConcatenation
<1>. QED BY <1>2, <1>3, MergedFields DEF SameContract

LEMMA SameAsItself ==
  ASSUME NEW c, c.secrets \in Seq(SecretRefs)
  PROVE  SameContract(c, c)
BY DEF SameContract, SameEnv, SameSecrets

LEMMA SameWithout ==
  ASSUME NEW e1, NEW e2, SameEnv(e1, e2)
  PROVE  Without(e1, Differs) = Without(e2, Differs)
<1>1. DOMAIN e1 \ Differs = DOMAIN e2 \ Differs
  BY DEF SameEnv
<1>2. \A k \in DOMAIN e1 \ Differs : e1[k] = e2[k]
  BY DEF SameEnv
<1>. HIDE DEF Differs
<1>. QED BY <1>1, <1>2 DEF Without

\* S3 adds nothing but what may differ.
LEMMA SameS3 ==
  ASSUME NEW s1, NEW s2, OtherOK("s3", s1), OtherOK("s3", s2)
  PROVE  SameContract(ContractOf(s1), ContractOf(s2))
<1>1. ASSUME NEW s, OtherOK("s3", s)
      PROVE  /\ DOMAIN ContractOf(s).env \subseteq Differs
             /\ VarsOf(ContractOf(s).secrets) \subseteq Differs
             /\ ContractOf(s).secrets \in Seq(SecretRefs)
  <2>1. CASE Wired(s)
    <3>1. /\ DOMAIN s.contract.env \subseteq VarsFor["s3"]
          /\ VarsOf(s.contract.secrets) \subseteq S3Keys
          /\ s.contract.secrets \in Seq(SecretRefs)
      BY <1>1, <2>1 DEF OtherOK, ContractOK
    <3>2. VarsFor["s3"] \subseteq Differs /\ S3Keys \subseteq Differs
      BY DEF VarsFor, S3Keys, Differs, FromDeploy
    <3>. QED BY <2>1, <3>1, <3>2 DEF ContractOf
  <2>2. CASE ~Wired(s)
    <3>1. ContractOf(s) = EmptyContract
      BY <2>2 DEF ContractOf
    <3>2. /\ DOMAIN EmptyContract.env = {} /\ EmptyContract.secrets = <<>>
          /\ VarsOf(<<>>) = {}
      BY Fragments DEF EmptyContract, Contract, VarsOf
    <3>. QED BY <3>1, <3>2, NoItems
  <2>. QED BY <2>1, <2>2
<1>2. /\ DOMAIN ContractOf(s1).env \subseteq Differs
      /\ VarsOf(ContractOf(s1).secrets) \subseteq Differs
      /\ ContractOf(s1).secrets \in Seq(SecretRefs)
  BY <1>1
<1>3. /\ DOMAIN ContractOf(s2).env \subseteq Differs
      /\ VarsOf(ContractOf(s2).secrets) \subseteq Differs
      /\ ContractOf(s2).secrets \in Seq(SecretRefs)
  BY <1>1
<1>. QED BY <1>2, <1>3 DEF SameContract, SameEnv, SameSecrets

LEMMA SameApp ==
  ASSUME NEW d1, NEW d2, d1.app = d2.app
  PROVE  /\ AppContracts(d1) = AppContracts(d2)
         /\ \A role : There(d1, role) = There(d2, role)
         /\ OwnRoles(d1) = OwnRoles(d2)
<1>1. \A role : InOwnPod(d1, role) <=> InOwnPod(d2, role)
  BY DEF InOwnPod
<1>2. \A role : There(d1, role) = There(d2, role)
  BY <1>1 DEF There
<1>3. \A role : Here(d1, role) = Here(d2, role)
  BY <1>1 DEF Here
<1>4. \A kind : HereOf(d1, kind) = HereOf(d2, kind)
  BY <1>3 DEF HereOf
<1>5. AppContracts(d1) = AppContracts(d2)
  BY <1>3, <1>4 DEF AppContracts
<1>6. OwnRoles(d1) = OwnRoles(d2)
  BY <1>1 DEF OwnRoles
<1>. QED BY <1>2, <1>5, <1>6

\* S3 opens no port.
LEMMA SamePorts ==
  ASSUME NEW d1, NEW d2, DeploymentOK(d1), DeploymentOK(d2), d1.app = d2.app
  PROVE  AgentPorts(d1) = AgentPorts(d2)
<1>1. ASSUME NEW d, DeploymentOK(d)
      PROVE  AgentPorts(d) = AppContracts(d).ports
  <2>. DEFINE c == ContractOf(d.s3)
  <2>1. Clean(c, PortsFor["s3"], VarsFor["s3"], {})
    BY <1>1, OtherIsClean DEF DeploymentOK, OtherSlots
  <2>2. PortsFor["s3"] = {}
    BY DEF PortsFor
  <2>. HIDE DEF c
  <2>3. c.ports \in Seq(AllPorts) /\ Range(c.ports) = {}
    BY <2>1, <2>2 DEF Clean
  <2>4. c.ports = <<>>
    <3>1. DOMAIN c.ports = {}
      BY <2>3 DEF Range
    <3>2. DOMAIN c.ports = 1 .. Len(c.ports) /\ Len(c.ports) \in Nat
      BY <2>3
    <3>. DEFINE n == Len(c.ports)
    <3>3. ASSUME n # 0
          PROVE  FALSE
      <4>. HIDE DEF n
      <4>1. 1 \in 1 .. n
        BY <3>2, <3>3 DEF n
      <4>. QED BY <3>1, <3>2, <4>1 DEF n
    <3>4. Len(c.ports) = 0
      BY <3>3
    <3>. QED BY <2>3, <3>4, EmptySeq
  <2>5. AppContracts(d).ports \in Seq(AllPorts)
    BY <1>1, LocalContractsAre DEF Clean
  <2>6. LocalContracts(d) = AppContracts(d) ++ c
    BY <1>1, LocalContractsAre DEF c
  <2>7. AgentPorts(d) = AppContracts(d).ports \o c.ports
    BY <2>6, MergedFields DEF AgentPorts
  <2>. QED BY <2>4, <2>5, <2>7, ConcatEmptySeq
<1>. QED BY <1>1, SameApp

LEMMA SameMergedContracts ==
  ASSUME NEW d1, NEW d2, DeploymentOK(d1), DeploymentOK(d2), d1.app = d2.app
  PROVE  SameContract(Merged(d1), Merged(d2))
<1>. DEFINE a(d) == LocalContracts(d)
            b(d) == a(d) ++ There(d, "llm")
            c(d) == b(d) ++ There(d, "sql")
            e(d) == c(d) ++ There(d, "vector")
<1>1. \A d : Merged(d) = e(d) ++ There(d, "browser")
  BY DEF Merged
<1>2. SameContract(a(d1), a(d2))
  <2>1. AppContracts(d1).secrets \in Seq(SecretRefs)
    BY LocalContractsAre DEF Clean
  <2>2. SameContract(AppContracts(d1), AppContracts(d2))
    BY <2>1, SameApp, SameAsItself
  <2>3. SameContract(ContractOf(d1.s3), ContractOf(d2.s3))
    BY SameS3 DEF DeploymentOK
  <2>4. SameContract(AppContracts(d1) ++ ContractOf(d1.s3), AppContracts(d2) ++ ContractOf(d2.s3))
    BY <2>2, <2>3, SameMerged
  <2>. QED BY <2>4, LocalContractsAre
<1>3. \A role \in ServiceSlots : SameContract(There(d1, role), There(d2, role))
  <2>. TAKE role \in ServiceSlots
  <2>1. There(d1, role).secrets \in Seq(SecretRefs)
    BY ThereIsClean DEF Clean
  <2>. QED BY <2>1, SameApp, SameAsItself
<1>4. ServiceSlots = {"llm", "sql", "vector", "browser"}
  BY DEF ServiceSlots
<1>. HIDE DEF a
<1>5. SameContract(b(d1), b(d2))
  BY <1>2, <1>3, <1>4, SameMerged
<1>. HIDE DEF b
<1>6. SameContract(c(d1), c(d2))
  BY <1>3, <1>4, <1>5, SameMerged
<1>. HIDE DEF c
<1>7. SameContract(e(d1), e(d2))
  BY <1>3, <1>4, <1>6, SameMerged
<1>. HIDE DEF e
<1>8. SameContract(e(d1) ++ There(d1, "browser"), e(d2) ++ There(d2, "browser"))
  BY <1>3, <1>4, <1>7, SameMerged
<1>. QED BY <1>1, <1>8

LEMMA SameEnvForCreation ==
  ASSUME NEW c1, NEW c2, SameContract(c1, c2)
  PROVE  SameEnv(EnvForCreation(c1), EnvForCreation(c2))
<1>. DEFINE secrets(c) == [var \in VarsOf(c.secrets) |->
                             SecretPlaceholder(LastFor(var, c.secrets))]
<1>1. EnvForCreation(c1) = secrets(c1) ## c1.env /\ EnvForCreation(c2) = secrets(c2) ## c2.env
  BY DEF EnvForCreation
<1>2. SameEnv(secrets(c1), secrets(c2))
  BY DEF SameContract, SameSecrets, SameEnv
<1>. HIDE DEF secrets
<1>. QED BY <1>1, <1>2, SameUpdate DEF SameContract

LEMMA SameAgentEnv ==
  ASSUME NEW d1, NEW w1, NEW t1, NEW d2, NEW w2, NEW t2,
         DeploymentOK(d1), DeploymentOK(d2), d1.app = d2.app
  PROVE  SameEnv(AgentPod(d1, w1, t1).env, AgentPod(d2, w2, t2).env)
<1>. DEFINE m1 == AgentContract(d1, w1, t1)
            m2 == AgentContract(d2, w2, t2)
            own(d) == [CRAG_NODE_ID |-> Text(d.app.id), CRAG_ROLE |-> Text("agent"),
                       CRAG_DESIRED_HASH |-> {<<"hash", AgentHash(d)>>}]
<1>1. SameContract(Merged(d1), Merged(d2))
  BY SameMergedContracts
<1>2. SameEnv(RunEnv(w1, t1), RunEnv(w2, t2))
  BY DEF SameEnv, RunEnv, Differs, PerRun
<1>3. SameEnv(KeepAliveEnv(d1.keep_alive), KeepAliveEnv(d2.keep_alive))
  <2>1. KeepAliveVars \subseteq Differs
    BY DEF KeepAliveVars, Differs, FromDeploy
  <2>. QED BY <2>1, KeepAliveEnvIs DEF SameEnv
<1>4. SameEnv(RunEnv(w1, t1) ## Merged(d1).env, RunEnv(w2, t2) ## Merged(d2).env)
  BY <1>1, <1>2, SameUpdate DEF SameContract
<1>5. SameEnv(m1.env, m2.env)
  <2>1. /\ m1.env = KeepAliveEnv(d1.keep_alive) ## (RunEnv(w1, t1) ## Merged(d1).env)
        /\ m2.env = KeepAliveEnv(d2.keep_alive) ## (RunEnv(w2, t2) ## Merged(d2).env)
    BY AgentContractEnv
  <2>. HIDE DEF m1, m2
  <2>. QED BY <1>3, <1>4, <2>1, SameUpdate
<1>6. SameContract(m1, m2)
  <2>1. m1.secrets = Merged(d1).secrets /\ m2.secrets = Merged(d2).secrets
    BY AgentContractEnv
  <2>. HIDE DEF m1, m2
  <2>. QED BY <1>1, <1>5, <2>1 DEF SameContract
<1>7. /\ AgentPod(d1, w1, t1).env = own(d1) ## EnvForCreation(m1)
      /\ AgentPod(d2, w2, t2).env = own(d2) ## EnvForCreation(m2)
  BY AgentPodFields
<1>8. own(d1) = own(d2)
  BY DEF AgentHash
<1>9. SameEnv(own(d1), own(d2))
  BY <1>8 DEF SameEnv
<1>. HIDE DEF own, m1, m2
<1>10. SameEnv(EnvForCreation(m1), EnvForCreation(m2))
  BY <1>6, SameEnvForCreation
<1>. QED BY <1>7, <1>9, <1>10, SameUpdate

\* What HashCoversThePod says of two pods.
Covered(new, old) ==
  /\ new.template = old.template /\ new.image = old.image
  /\ new.ports = old.ports
  /\ Without(new.env, PerRun \union FromDeploy) = Without(old.env, PerRun \union FromDeploy)
  /\ new.role # "agent" => new.policy = old.policy

LEMMA SameAgentPod ==
  ASSUME NEW d1, NEW w1, NEW t1, NEW d2, NEW w2, NEW t2,
         DeploymentOK(d1), DeploymentOK(d2), d1.app = d2.app
  PROVE  Covered(AgentPod(d1, w1, t1), AgentPod(d2, w2, t2))
<1>. DEFINE new == AgentPod(d1, w1, t1)
            old == AgentPod(d2, w2, t2)
<1>1. /\ new.role = "agent" /\ new.ports = EnsureSSHPort(AgentPorts(d1))
      /\ new.image = d1.app.image
      /\ new.template = ResolveAgent(d1.app.harness, d1.app.capabilities)
  BY DEF AgentPod, PodInput
<1>2. /\ old.ports = EnsureSSHPort(AgentPorts(d2)) /\ old.image = d2.app.image
      /\ old.template = ResolveAgent(d2.app.harness, d2.app.capabilities)
  BY DEF AgentPod, PodInput
<1>3. SameEnv(new.env, old.env)
  BY SameAgentEnv
<1>4. AgentPorts(d1) = AgentPorts(d2)
  BY SamePorts
<1>. HIDE DEF new, old
<1>5. Without(new.env, Differs) = Without(old.env, Differs)
  BY <1>3, SameWithout
<1>6. Covered(new, old)
  BY <1>1, <1>2, <1>4, <1>5 DEF Covered, Differs
<1>. QED BY <1>6 DEF new, old

LEMMA SameDependencyPod ==
  ASSUME NEW d1, NEW w1, NEW d2, NEW w2, NEW role \in ServiceSlots,
         d1.app.parts[role] = d2.app.parts[role]
  PROVE  Covered(DependencyPod(d1, w1, role), DependencyPod(d2, w2, role))
<1>. DEFINE new == DependencyPod(d1, w1, role)
            old == DependencyPod(d2, w2, role)
            spec == d1.app.parts[role]
            ports == EnsureSSHPort(DependencyPodContract(role, spec.contract).ports)
            own == [CRAG_NODE_ID |-> Text(spec.id), CRAG_ROLE |-> Text(role),
                    CRAG_DESIRED_HASH |-> {<<"hash", spec>>}]
            env == own ## EnvForCreation(DependencyPodContract(role, spec.contract))
<1>. role # "agent"
  BY DEF ServiceSlots
<1>1. /\ new.ports = ports /\ new.env = env /\ new.image = "" /\ new.policy = spec.storage
      /\ new.template = ResolveApp(spec.kind, spec.engine)
  BY DEF DependencyPod, PodInput, DependencyHash
<1>2. /\ old.ports = ports /\ old.env = env /\ old.image = "" /\ old.policy = spec.storage
      /\ old.template = ResolveApp(spec.kind, spec.engine)
  BY DEF DependencyPod, PodInput, DependencyHash
<1>. HIDE DEF new, old, ports, env, spec
<1>3. Covered(new, old)
  BY <1>1, <1>2 DEF Covered
<1>. QED BY <1>3 DEF new, old

\* The pods of a plan and their hashes.
LEMMA PodsOfPlan ==
  ASSUME NEW d, NEW workflow, NEW text
  PROVE  LET p == Plan(d, workflow, text)
         IN  /\ \A r \in Resources(p) :
                  \/ r = AgentPod(d, workflow, text) /\ r.role = "agent" /\ r.hash = d.app
                  \/ \E role \in OwnRoles(d) :
                       /\ r = DependencyPod(d, workflow, role)
                       /\ r.role = role /\ r.hash = d.app.parts[role]
             /\ Agent(p) = AgentPod(d, workflow, text)
             /\ Hashes(p) = {<<role, d.app.parts[role]>> : role \in OwnRoles(d)}
                              \union {<<"agent", d.app>>}
<1>. DEFINE p == Plan(d, workflow, text)
            Pod(role) == DependencyPod(d, workflow, role)
            Main == AgentPod(d, workflow, text)
<1>1. Resources(p) = {Pod(role) : role \in OwnRoles(d)} \union {Main}
  BY ResourcesOfPlan
<1>2. Main.role = "agent" /\ Main.hash = d.app
  BY AgentPodFields DEF AgentHash
<1>3. OwnRoles(d) \subseteq ServiceSlots /\ "agent" \notin ServiceSlots
  BY DEF OwnRoles, ServiceSlots
<1>4. \A role \in OwnRoles(d) : Pod(role).role = role /\ Pod(role).hash = d.app.parts[role]
  BY DEF DependencyPod, PodInput, DependencyHash
<1>. HIDE DEF p, Pod, Main
<1>5. \A r \in Resources(p) : r.role = "agent" <=> r = Main
  BY <1>1, <1>2, <1>3, <1>4
<1>6. Agent(p) = Main
  BY <1>1, <1>5 DEF Agent
<1>7. Hashes(p) = {<<role, d.app.parts[role]>> : role \in OwnRoles(d)} \union {<<"agent", d.app>>}
  BY <1>1, <1>2, <1>4 DEF Hashes
<1>8. \A r \in Resources(p) :
        \/ r = Main /\ r.role = "agent" /\ r.hash = d.app
        \/ \E role \in OwnRoles(d) :
             r = Pod(role) /\ r.role = role /\ r.hash = d.app.parts[role]
  BY <1>1, <1>2, <1>4
<1>. QED BY <1>6, <1>7, <1>8 DEF p, Pod, Main

LEMMA PlansCovered ==
  ASSUME NEW p1, NEW p2, IsPlan(p1), IsPlan(p2)
  PROVE  /\ \A new \in Resources(p1), old \in Resources(p2) :
              new.role = old.role /\ new.hash = old.hash => Covered(new, old)
         /\ Agent(p1).hash = Agent(p2).hash => Hashes(p1) = Hashes(p2)
<1>1. PICK d1, w1, t1 : DeploymentOK(d1) /\ p1 = Plan(d1, w1, t1)
  BY DEF IsPlan
<1>2. PICK d2, w2, t2 : DeploymentOK(d2) /\ p2 = Plan(d2, w2, t2)
  BY DEF IsPlan
<1>. DEFINE Main1 == AgentPod(d1, w1, t1)
            Main2 == AgentPod(d2, w2, t2)
            Pod1(role) == DependencyPod(d1, w1, role)
            Pod2(role) == DependencyPod(d2, w2, role)
<1>3. /\ \A r \in Resources(p1) :
           \/ r = Main1 /\ r.role = "agent" /\ r.hash = d1.app
           \/ \E role \in OwnRoles(d1) :
                r = Pod1(role) /\ r.role = role /\ r.hash = d1.app.parts[role]
      /\ Agent(p1) = Main1
      /\ Hashes(p1) = {<<role, d1.app.parts[role]>> : role \in OwnRoles(d1)}
                        \union {<<"agent", d1.app>>}
  BY <1>1, PodsOfPlan
<1>4. /\ \A r \in Resources(p2) :
           \/ r = Main2 /\ r.role = "agent" /\ r.hash = d2.app
           \/ \E role \in OwnRoles(d2) :
                r = Pod2(role) /\ r.role = role /\ r.hash = d2.app.parts[role]
      /\ Agent(p2) = Main2
      /\ Hashes(p2) = {<<role, d2.app.parts[role]>> : role \in OwnRoles(d2)}
                        \union {<<"agent", d2.app>>}
  BY <1>2, PodsOfPlan
<1>5. /\ OwnRoles(d1) \subseteq ServiceSlots /\ OwnRoles(d2) \subseteq ServiceSlots
      /\ "agent" \notin ServiceSlots
  BY DEF OwnRoles, ServiceSlots
<1>6. d1.app = d2.app => Covered(Main1, Main2)
  BY <1>1, <1>2, SameAgentPod
<1>7. \A role \in ServiceSlots :
        d1.app.parts[role] = d2.app.parts[role] => Covered(Pod1(role), Pod2(role))
  BY SameDependencyPod
<1>8. Main1.hash = d1.app /\ Main2.hash = d2.app
  BY AgentPodFields DEF AgentHash
<1>. HIDE DEF Main1, Main2, Pod1, Pod2
<1>9. ASSUME NEW new \in Resources(p1), NEW old \in Resources(p2),
             new.role = old.role, new.hash = old.hash
      PROVE  Covered(new, old)
  <2>1. CASE new.role = "agent"
    <3>1. new = Main1 /\ new.hash = d1.app
      BY <1>3, <1>5, <2>1
    <3>2. old = Main2 /\ old.hash = d2.app
      BY <1>4, <1>5, <1>9, <2>1
    <3>. QED BY <1>6, <1>9, <3>1, <3>2
  <2>2. CASE new.role # "agent"
    <3>1. PICK role \in OwnRoles(d1) :
            new = Pod1(role) /\ new.role = role /\ new.hash = d1.app.parts[role]
      BY <1>3, <2>2
    <3>2. old = Pod2(role) /\ old.hash = d2.app.parts[role]
      BY <1>4, <1>9, <2>2, <3>1
    <3>. QED BY <1>5, <1>7, <1>9, <3>1, <3>2
  <2>. QED BY <2>1, <2>2
<1>10. ASSUME Agent(p1).hash = Agent(p2).hash
       PROVE  Hashes(p1) = Hashes(p2)
  <2>1. d1.app = d2.app
    BY <1>3, <1>4, <1>8, <1>10
  <2>2. OwnRoles(d1) = OwnRoles(d2)
    BY <2>1, SameApp
  <2>. QED BY <1>3, <1>4, <2>1, <2>2
<1>. QED BY <1>9, <1>10

LEMMA HashesFollow == PlanInv => HashCoversThePod
<1>. SUFFICES ASSUME PlanInv, Planned
              PROVE  HashCoversThePod
  BY DEF HashCoversThePod
<1>1. IsPlan(plan)
  <2>1. DeploymentOK(Deployment)
    BY DeploymentIsOK DEF PlanInv
  <2>2. plan = Plan(Deployment, runs, prompt)
    BY DEF PlanInv
  <2>. QED BY <2>1, <2>2 DEF IsPlan
<1>2. CASE last = NoPlan /\ runs # 2
  <2>1. NoPlan.resources = <<>>
    BY DEF NoPlan
  <2>2. Resources(last) = {}
    BY <1>2, <2>1, NoItems DEF Resources
  <2>. QED BY <1>2, <2>2 DEF HashCoversThePod
<1>3. CASE IsPlan(last)
  BY <1>1, <1>3, PlansCovered DEF HashCoversThePod, Covered
<1>. QED BY <1>2, <1>3 DEF PlanInv

\* Where two pods have one role and one hash, the later plan would have made
\* the earlier pod: template, image, ports, volume policy and environment are
\* equal but for what names the run and what Deploy adds.  And an agent of an
\* unchanged hash is one whose services have unchanged hashes.
THEOREM HashesCoverPods == Spec => []HashCoversThePod
BY AlwaysPlanInv, HashesFollow, PTL
=============================================================================
