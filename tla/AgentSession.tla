---------------------------- MODULE AgentSession ----------------------------
(***************************************************************************)
(* One SSH session of the runner with the agent pod:                       *)
(* _run_agent_ssh_steps for apply and apply_and_wait, the command loop of  *)
(* _run_teardown_commands for stop and terminate, and what goes on in the  *)
(* pod meanwhile: the commands that were sent, the harness that was        *)
(* launched, and the one that an earlier session may have left on a pod    *)
(* that is reused.                                                         *)
(*                                                                         *)
(* An ssh call that does not come back with the exit code of its command   *)
(* (timeout 124, connection 255) is "lost": the command may not have       *)
(* started, may have ended, or may still be running in the pod.            *)
(***************************************************************************)
EXTENDS Naturals, Sequences, FiniteSets

CONSTANTS
  Before,      \* the plan's commands of phase before_start, sorted
  After,       \* those of after_start and after_ready, sorted
  Teardown,    \* those of teardown
  MaxRetries,  \* bound on retry_count
  MaxPolls     \* the polls that fit in the response timeout

Command == [kind : {"command"}, policy : {"fail", "continue", "retry"}, retries : 0..MaxRetries]

ASSUME CommandsAssumption ==
  /\ MaxRetries \in Nat
  /\ Before \in Seq(Command) /\ After \in Seq(Command) /\ Teardown \in Seq(Command)
ASSUME MaxPollsAssumption == MaxPolls \in Nat

WriteConfig == [kind |-> "write", policy |-> "fail", retries |-> 0]
Launch == [kind |-> "launch", policy |-> "fail", retries |-> 0]

Modes == {"apply", "apply_and_wait", "stop"}

\* The agent's actions in the order of _actions.
ScriptOf(m) ==
  IF m = "stop" THEN Teardown ELSE Before \o <<WriteConfig, Launch>> \o After

VARIABLES
  mode,      \* what the run was asked to do
  manual,    \* startup mode manual: there is no launch command
  pc,        \* the session's next step
  step,      \* position in the script
  tries,     \* ssh calls made for the command at that position
  rows,      \* the commands table, by position
  onPod,     \* what became of each ssh call's command in the pod
  agent,     \* the harness this session launches
  earlier,   \* the harness of an earlier session
  response,  \* what response.txt holds: whose text, and how much
  log,       \* whose completion marker agent.log holds
  collected, \* the response returned
  source,    \* which file ended the wait
  polls      \* how often the wait has looked

options == <<mode, manual>>
podVars == <<onPod, agent, earlier, response, log>>
waitVars == <<collected, source, polls>>
vars == <<options, pc, step, tries, rows, podVars, waitVars>>

Script == ScriptOf(mode)
Positions == 1..(Len(Before) + Len(After) + Len(Teardown) + 2)
Calls == 1..(MaxRetries + 2)
Final == {"returned", "raised", "dead"}

SessionTypeOK ==
  /\ mode \in Modes /\ manual \in BOOLEAN
  /\ pc \in {"next", "send", "await", "launching", "wait", "log"} \cup Final
  /\ step \in 1..(Len(Script) + 1)
  /\ tries \in 0..(MaxRetries + 1)
  /\ rows \in [Positions -> {"none", "running", "completed", "failed"}]
  /\ onPod \in [Positions -> [Calls -> {"none", "running", "zero", "nonzero"}]]
  /\ agent \in {"none", "starting", "working", "answered", "done"}
  /\ earlier \in {"none", "working", "done"}
  /\ response \subseteq {"earlier", "header", "answer"}
  /\ log \subseteq {"earlier", "mine"}
  /\ collected \subseteq {"earlier", "header", "answer"}
  /\ source \in {"none", "response", "log"}
  /\ polls \in 0..MaxPolls

Init ==
  /\ mode \in Modes /\ manual \in BOOLEAN
  /\ pc = "next" /\ step = 1 /\ tries = 0
  /\ rows = [i \in Positions |-> "none"]
  /\ onPod = [i \in Positions |-> [n \in Calls |-> "none"]]
  /\ agent = "none"
  /\ earlier \in {"none", "working", "done"}
  /\ response = IF earlier = "none" THEN {} ELSE {"earlier"}
  /\ log = IF earlier = "done" THEN {"earlier"} ELSE {}
  /\ collected = {} /\ source = "none" /\ polls = 0

----------------------------------------------------------------------------
(* _run_ssh_command_action. *)

At(kind) == pc = "next" /\ step <= Len(Script) /\ Script[step].kind = kind
Current == Script[step]
Exit == onPod[step][tries]

Proceed == pc' = "next" /\ step' = step + 1
Stay(there) == pc' = there /\ UNCHANGED step

StartCommand ==
  /\ At("command")
  /\ rows' = [rows EXCEPT ![step] = "running"]
  /\ tries' = 0
  /\ Stay("send")
  /\ UNCHANGED <<options, podVars, waitVars>>

\* The connection may fail before the command starts.
Send ==
  /\ pc = "send"
  /\ tries' = tries + 1
  /\ \E started \in {"running", "none"} : onPod' = [onPod EXCEPT ![step][tries + 1] = started]
  /\ Stay("await")
  /\ UNCHANGED <<options, rows, agent, earlier, response, log, waitVars>>

\* Mutant of Attempts: range(attempts + 1).
AttemptsOneMore(c) == c.retries + 2

Attempts(c) == c.retries + 1

\* Mutant of Fatal: a command out of retries is passed over.
FatalUnlessRetried(c) == c.policy = "fail"

Fatal(c) == c.policy \in {"fail", "retry"}

\* Mutant of StatusOf: only an exit code that came back counts as a failure.
StatusUnlessReported(exit) == IF exit = "nonzero" THEN "failed" ELSE "completed"

StatusOf(exit) == IF exit = "zero" THEN "completed" ELSE "failed"

Retry(exit) ==
  /\ exit # "zero" /\ Current.policy = "retry" /\ tries < Attempts(Current)
  /\ Stay("send")
  /\ UNCHANGED rows

Finish(exit) ==
  /\ exit = "zero" \/ Current.policy # "retry" \/ tries >= Attempts(Current)
  /\ rows' = [rows EXCEPT ![step] = StatusOf(exit)]
  /\ IF exit # "zero" /\ Fatal(Current) THEN Stay("raised") ELSE Proceed

\* The ssh call comes back, with the command's exit code or without it.
Receive ==
  /\ pc = "await"
  /\ \E exit \in ({Exit} \cap {"zero", "nonzero"}) \cup {"lost"} : Retry(exit) \/ Finish(exit)
  /\ UNCHANGED <<options, tries, podVars, waitVars>>

\* The call raises (no ssh client, output that is not text): the row is left.
ClientRaises ==
  /\ pc = "await"
  /\ Stay("raised")
  /\ UNCHANGED <<options, tries, rows, podVars, waitVars>>

----------------------------------------------------------------------------
(* The other actions of _run_agent_ssh_steps. *)

\* _write_runtime_files: any of the files may fail.
WriteRuntimeFiles ==
  /\ At("write")
  /\ Proceed \/ Stay("raised")
  /\ UNCHANGED <<options, tries, rows, podVars, waitVars>>

\* In manual mode there is nothing to launch.
SkipLaunch ==
  /\ At("launch") /\ manual
  /\ Proceed
  /\ UNCHANGED <<options, tries, rows, podVars, waitVars>>

\* nohup empties agent.log; nobody empties response.txt.
LaunchAgent ==
  /\ At("launch") /\ ~manual
  /\ Stay("launching")
  /\ \/ agent' = "starting" /\ log' = {}
     \/ UNCHANGED <<agent, log>>
  /\ UNCHANGED <<options, tries, rows, onPod, earlier, response, waitVars>>

\* The launch is a background list: its call exits with 0 if it reached the
\* pod, at once or when the harness has let go of the session's output.
LaunchReturns ==
  /\ pc = "launching"
  /\ \/ agent # "none" /\ Proceed
     \/ Stay("raised")
  /\ UNCHANGED <<options, tries, rows, podVars, waitVars>>

EndOfScript ==
  /\ pc = "next" /\ step > Len(Script)
  /\ Stay(IF mode = "apply_and_wait" /\ ~manual THEN "wait" ELSE "returned")
  /\ UNCHANGED <<options, tries, rows, podVars, waitVars>>

----------------------------------------------------------------------------
(* _wait_agent_response. *)

\* test -s: an empty file is no response.  A client without ssh, or with an
\* output that is no UTF-8, raises; one that times out answers 124.
ReadResponse ==
  /\ pc = "wait" /\ polls < MaxPolls
  /\ \/ /\ response # {}
        /\ collected' = response /\ source' = "response"
        /\ Stay("returned")
     \/ /\ Stay("log") \/ Stay("raised")    \* empty, or the call failed
        /\ UNCHANGED <<collected, source>>
  /\ UNCHANGED <<options, tries, rows, podVars, polls>>

ReadLogWith(looked) ==
  /\ pc = "log"
  /\ \/ log # {} /\ source' = "log" /\ Stay("returned")
     \/ Stay("wait") /\ UNCHANGED source
     \/ Stay("raised") /\ UNCHANGED source
  /\ polls' = looked
  /\ UNCHANGED <<options, tries, rows, podVars, collected>>

\* Mutant of ReadLog: the deadline is set again for every look.
ReadLogForever == ReadLogWith(polls)

\* The completion marker in agent.log: no response, and no more waiting.
ReadLog == ReadLogWith(polls + 1)

Deadline ==
  /\ pc = "wait"
  /\ Stay("returned")
  /\ UNCHANGED <<options, tries, rows, podVars, waitVars>>

----------------------------------------------------------------------------
(* In the pod. *)

CommandEnds(i, n) ==
  /\ onPod[i][n] = "running"
  /\ \E exit \in {"zero", "nonzero"} : onPod' = [onPod EXCEPT ![i][n] = exit]
  /\ UNCHANGED <<options, pc, step, tries, rows, agent, earlier, response, log, waitVars>>

\* run_harness_command: the header as soon as the file is opened, then the
\* harness's own output, then the whole file into agent.log.  Before that the
\* launcher may end without having found a harness.
AgentMoves ==
  /\ \/ agent = "starting" /\ agent' = "done" /\ UNCHANGED <<response, log>>
     \/ agent = "starting" /\ agent' = "working" /\ response' = {"header"} /\ UNCHANGED log
     \/ /\ agent = "working" /\ agent' = "answered"
        /\ response' = response \cup {"answer"}
        /\ UNCHANGED log
     \/ /\ agent = "answered" /\ agent' = "done"
        /\ log' = log \cup {"mine"}
        /\ UNCHANGED response
  /\ UNCHANGED <<options, pc, step, tries, rows, onPod, earlier, waitVars>>

\* The harness of an earlier session writes to the same files.
EarlierEnds ==
  /\ earlier = "working" /\ earlier' = "done"
  /\ response' = response \cup {"earlier"}
  /\ log' = log \cup {"earlier"}
  /\ UNCHANGED <<options, pc, step, tries, rows, onPod, agent, waitVars>>

\* ComfyUI dies.
Crash ==
  /\ pc \notin Final
  /\ Stay("dead")
  /\ UNCHANGED <<options, tries, rows, podVars, waitVars>>

Step ==
  \/ StartCommand \/ Send \/ Receive \/ ClientRaises
  \/ WriteRuntimeFiles \/ SkipLaunch \/ LaunchAgent \/ LaunchReturns \/ EndOfScript
  \/ ReadResponse \/ ReadLog \/ Deadline

Next ==
  \/ Step
  \/ \E i \in Positions, n \in Calls : CommandEnds(i, n)
  \/ AgentMoves \/ EarlierEnds \/ Crash

Spec == Init /\ [][Next]_vars

\* The runner's thread is scheduled, and every ssh call has a timeout.
FairSpec == Spec /\ WF_vars(Step)

----------------------------------------------------------------------------
(* Properties. *)

\* The harness is only launched when each before_start command has succeeded
\* in the pod or may fail: _run_ssh_command_action raises on every other, and
\* the loop over plan.actions stops there.
SetupBeforeLaunch ==
  agent # "none" =>
    \A i \in 1..Len(Before) :
      Before[i].policy = "continue" \/ \E n \in Calls : onPod[i][n] = "zero"

\* The attempts of _run_ssh_command_action: a command is started once, or with
\* policy retry once more per retry.
RetriesBounded ==
  \A i \in 1..Len(Script), n \in Calls :
    onPod[i][n] # "none" => n <= IF Script[i].policy = "retry" THEN Script[i].retries + 1 ELSE 1

\* A row of the commands table says completed only of a command that ended in
\* the pod with exit code 0, however often its answer was lost.
RowsAreTruthful ==
  \A i \in Positions : rows[i] = "completed" => \E n \in Calls : onPod[i][n] = "zero"

\* Every session ends: the script is finite, the attempts are counted, and the
\* wait for a response has a deadline.
SessionEnds == <>(pc \in Final)

\* A response that _wait_agent_response returns was written by the agent of
\* this session, which has finished it.
ResponseIsTheAgents ==
  source = "response" => "answer" \in collected /\ "earlier" \notin collected

============================================================================
