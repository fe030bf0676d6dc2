------------------------- MODULE MCWorkflowPlanning -------------------------
(***************************************************************************)
(* The widget values of the model-checked instance of WorkflowPlanning: of *)
(* every node the values that take a branch of their own in its build      *)
(* method or in the planner.                                               *)
(***************************************************************************)
EXTENDS WorkflowPlanning

MCMounted ==
  {None, NetworkStorageNode([volume_id |-> "vol-1", size_gb |-> 0,
     data_center |-> "", name |-> "", policy |-> "preserve"], "mounted")}

MCStorage ==
  {[volume_id |-> v[1], size_gb |-> v[2], data_center |-> v[3], name |-> v[4],
    policy |-> "delete_when_unused"] :
     v \in {<<"vol-1", 0, "", "">>, <<"", 10, "", "">>, <<"", 10, "EU-1", "">>}}

MCLLMServers ==
  {w \in LLMServerWidgets:
     /\ w.hf_token = "" /\ w.model = "m"
     /\ w.placement = "same_pod" => w.auth = "none"
     /\ w.engine = "vllm" => w.auth = "none"
     /\ w.api_key = IF w.auth = "secret" THEN "llm-key" ELSE ""}

MCWidgets ==
  [agent |-> {w \in AgentWidgets:
                w.harness \in {"codex", "hermes"} /\ w.startup # "auto_start"
                /\ (w.image = "built" => w.harness = "codex")},
   mounted |-> MCMounted, storage |-> MCStorage,
   browser |-> BrowserWidgets, terminal |-> TerminalWidgets,
   llm_server |-> MCLLMServers,
   llm_api |-> {w \in LLMApiWidgets: (w.api_key = "") = (w.base_url = "")},
   sql |-> {w \in RemoteSQLWidgets:
              /\ w.mode = "env_only" => w.password = ""
              /\ w.engine = "mysql" => w.password = "db-pass"},
   local_sql |-> LocalSQLWidgets, vector |-> VectorWidgets,
   mcp |-> {w \in MCPWidgets: w.transport = "stdio" /\ w.url = ""
              /\ (w.secret = "") = (w.name = "fs")},
   subagent |-> {w \in SubagentWidgets: w.name = "helper"},
   skill |-> SkillWidgets,
   framework |-> {w \in SkillFrameworkWidgets: w.framework = "custom"},
   command |-> {w \in SSHCommandWidgets: (w.policy = "fail") = (w.phase # "before_start")
                  /\ w.policy # "retry"},
   setup |-> {w \in SetupWidgets: w.what = "git" /\ w.policy = "retry"},
   s3 |-> S3Widgets,
   keep_alive |-> {w \in KeepAliveWidgets:
                     w.mode \in {"time", "manual"} /\ w.action = "stop"}]

\* ItemsAt picks what SelectSeq does.
ASSUME ItemsAtSelects ==
  \A n \in 0 .. 4: \A s \in [1 .. n -> 1 .. 3]:
    ItemsAt(s, {i \in DOMAIN s: s[i] # 2}) = SelectSeq(s, LAMBDA x: x # 2)

MCSecrets == {"db-pass"}
=============================================================================
