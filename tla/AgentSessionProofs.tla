------------------------- MODULE AgentSessionProofs -------------------------
(***************************************************************************)
(* Theorems of AgentSession, for every script of commands, number of       *)
(* retries and of polls.                                                   *)
(***************************************************************************)
EXTENDS AgentSession, SequenceTheorems, TLAPS

----------------------------------------------------------------------------
(* The script. *)

LEMMA ScriptFacts ==
  ASSUME mode \in Modes
  PROVE  /\ Script \in Seq(Command \cup {WriteConfig, Launch})
         /\ Len(Script) \in Nat
         /\ 1..Len(Script) \subseteq Positions
         /\ mode # "stop" => \A i \in 1..Len(Before) : i \in 1..Len(Script) /\ Script[i] = Before[i]
         /\ \A i \in 1..Len(Script) :
              Script[i].kind = "launch" => mode # "stop" /\ i = Len(Before) + 2
<1>. USE CommandsAssumption
<1>. DEFINE S == Command \cup {WriteConfig, Launch}
            files == <<WriteConfig, Launch>>
<1>1. /\ Len(Before) \in Nat /\ Len(After) \in Nat /\ Len(Teardown) \in Nat
      /\ \A i \in 1..Len(Before) : Before[i] \in Command
      /\ \A i \in 1..Len(After) : After[i] \in Command
      /\ \A i \in 1..Len(Teardown) : Teardown[i] \in Command
  OBVIOUS
<1>2. \A c \in Command : c.kind = "command"
  BY DEF Command
<1>3. WriteConfig.kind = "write" /\ Launch.kind = "launch"
  BY DEF WriteConfig, Launch
<1>4. CASE mode = "stop"
  <2>1. Script = Teardown
    BY <1>4 DEF Script, ScriptOf
  <2>. QED BY <1>1, <1>2, <1>4, <2>1 DEF Positions
<1>5. CASE mode # "stop"
  <2>1. Script = Before \o files \o After
    BY <1>5 DEF Script, ScriptOf
  <2>2. /\ files \in Seq(S) /\ Len(files) = 2
        /\ files[1] = WriteConfig /\ files[2] = Launch
    OBVIOUS
  <2>. DEFINE head == Before \o files
  <2>. HIDE DEF files
  <2>3. /\ head \in Seq(Command \cup {WriteConfig, Launch})
        /\ Len(head) = Len(Before) + 2
        /\ \A i \in 1..Len(Before) : head[i] = Before[i]
        /\ head[Len(Before) + 1] = WriteConfig
        /\ head[Len(Before) + 2] = Launch
    <3>1. Before \in Seq(S)
      BY <1>1
    <3>. HIDE DEF S
    <3>2. /\ head \in Seq(S) /\ Len(head) = Len(Before) + Len(files)
          /\ \A i \in 1..Len(Before) + Len(files) :
               head[i] = IF i <= Len(Before) THEN Before[i] ELSE files[i - Len(Before)]
      BY <2>2, <3>1, ConcatProperties, Zenon
    <3>. QED BY <1>1, <2>2, <3>2 DEF S
  <2>4. Script = head \o After
    BY <2>1
  <2>. HIDE DEF head
  <2>5. /\ Script \in Seq(Command \cup {WriteConfig, Launch})
        /\ Len(Script) = Len(Before) + 2 + Len(After)
        /\ \A i \in 1..(Len(Before) + 2) : Script[i] = head[i]
        /\ \A i \in (Len(Before) + 3)..Len(Script) : Script[i] = After[i - (Len(Before) + 2)]
    <3>1. After \in Seq(S) /\ head \in Seq(S)
      BY <1>1, <2>3
    <3>. HIDE DEF S
    <3>2. /\ head \o After \in Seq(S) /\ Len(head \o After) = Len(head) + Len(After)
          /\ \A i \in 1..Len(head) + Len(After) :
               (head \o After)[i] = IF i <= Len(head) THEN head[i] ELSE After[i - Len(head)]
      BY <3>1, ConcatProperties, Zenon
    <3>3. /\ Script \in Seq(S) /\ Len(Script) = Len(head) + Len(After)
          /\ \A i \in 1..Len(head) + Len(After) :
               Script[i] = IF i <= Len(head) THEN head[i] ELSE After[i - Len(head)]
      BY <2>4, <3>2, Zenon
    <3>. QED BY <1>1, <2>3, <3>3 DEF S
  <2>6. ASSUME NEW i \in 1..Len(Script), Script[i].kind = "launch"
        PROVE  i = Len(Before) + 2
    <3>1. CASE i \in 1..Len(Before)
      BY <1>1, <1>2, <2>3, <2>5, <2>6, <3>1
    <3>2. CASE i = Len(Before) + 1
      BY <1>1, <1>3, <2>3, <2>5, <2>6, <3>2
    <3>3. CASE i \in (Len(Before) + 3)..Len(Script)
      <4>1. i - (Len(Before) + 2) \in 1..Len(After)
        BY <1>1, <2>5, <3>3
      <4>. QED BY <1>1, <1>2, <2>5, <2>6, <3>3, <4>1
    <3>. QED BY <1>1, <2>5, <3>1, <3>2, <3>3
  <2>7. 1..Len(Script) \subseteq Positions
    BY <1>1, <2>5 DEF Positions
  <2>8. \A i \in 1..Len(Before) : i \in 1..Len(Script) /\ Script[i] = Before[i]
    BY <1>1, <2>3, <2>5
  <2>. QED BY <1>1, <1>5, <2>5, <2>6, <2>7, <2>8
<1>. QED BY <1>4, <1>5

----------------------------------------------------------------------------
(* Type correctness. *)

\* Where the session stands in its script at each step.
Control ==
  /\ pc \in {"send", "await"} => step <= Len(Script) /\ Current.kind = "command"
  /\ pc = "launching" => step <= Len(Script) /\ Current.kind = "launch"
  /\ pc = "send" => tries < Attempts(Current)
  /\ pc = "await" => tries >= 1 /\ tries <= Attempts(Current)
  /\ pc = "log" => polls < MaxPolls

TypeInv == SessionTypeOK /\ Control

\* The command at a position of the script.
LEMMA CommandFacts ==
  ASSUME mode \in Modes, NEW i \in 1..Len(Script), Script[i].kind = "command"
  PROVE  /\ Script[i] \in Command
         /\ Attempts(Script[i]) \in 1..(MaxRetries + 1)
<1>1. Script[i] \in Command \cup {WriteConfig, Launch}
  BY ScriptFacts
<1>2. Script[i] \in Command
  BY <1>1 DEF WriteConfig, Launch
<1>3. Script[i].retries \in 0..MaxRetries /\ MaxRetries \in Nat
  BY <1>2, CommandsAssumption DEF Command
<1>. QED BY <1>2, <1>3 DEF Attempts

LEMMA InitTyped == Init => TypeInv
<1>. SUFFICES ASSUME Init PROVE TypeInv
  OBVIOUS
<1>1. mode \in Modes
  BY DEF Init
<1>2. step \in 1..(Len(Script) + 1) /\ tries \in 0..(MaxRetries + 1) /\ polls \in 0..MaxPolls
  BY <1>1, ScriptFacts, CommandsAssumption, MaxPollsAssumption DEF Init
<1>. QED BY <1>2 DEF Init, TypeInv, SessionTypeOK, Control, Final

LEMMA NextTyped == TypeInv /\ [Next]_vars => TypeInv'
<1>. SUFFICES ASSUME TypeInv, [Next]_vars PROVE TypeInv'
  OBVIOUS
<1>. USE DEF TypeInv
<1>1. /\ mode \in Modes /\ Len(Script) \in Nat /\ MaxRetries \in Nat /\ MaxPolls \in Nat
      /\ step \in 1..(Len(Script) + 1) /\ tries \in 0..(MaxRetries + 1) /\ polls \in 0..MaxPolls
      /\ 1..Len(Script) \subseteq Positions
  BY ScriptFacts, CommandsAssumption, MaxPollsAssumption DEF SessionTypeOK
<1>2. Script' = Script
  <2>1. mode' = mode
    BY DEF Next, Step, vars, options, StartCommand, Send, Receive, ClientRaises,
           WriteRuntimeFiles, SkipLaunch, LaunchAgent, LaunchReturns, EndOfScript,
           ReadResponse, ReadLog, ReadLogWith, Deadline, CommandEnds, AgentMoves,
           EarlierEnds, Crash
  <2>. QED BY <2>1 DEF Script
<1>3. Script \in Seq(Command \cup {WriteConfig, Launch})
  BY <1>1, ScriptFacts
<1>4. CASE StartCommand
  <2>1. step \in 1..Len(Script) /\ Current.kind = "command"
    BY <1>1, <1>4 DEF StartCommand, At, Current
  <2>2. Attempts(Current) \in 1..(MaxRetries + 1)
    BY <1>1, <2>1, CommandFacts DEF Current
  <2>3. Control'
    BY <1>1, <1>2, <1>4, <2>1, <2>2 DEF StartCommand, Stay, Control, Current, Attempts
  <2>4. SessionTypeOK'
    BY <1>1, <1>2, <1>4, <2>1 DEF StartCommand, Stay, SessionTypeOK, options, podVars, waitVars
  <2>. QED BY <2>3, <2>4
<1>5. CASE Send
  <2>1. step \in 1..Len(Script) /\ step \in Positions /\ Current.kind = "command" /\ tries < Attempts(Current)
    BY <1>1, <1>5 DEF Send, Control
  <2>2. Attempts(Current) \in 1..(MaxRetries + 1)
    BY <1>1, <2>1, CommandFacts DEF Current
  <2>3. tries + 1 \in 1..(MaxRetries + 1) /\ tries + 1 \in Calls
    BY <1>1, <2>1, <2>2 DEF Calls
  <2>4. Control'
    BY <1>1, <1>2, <1>5, <2>1, <2>2 DEF Send, Stay, Control, Current, Attempts
  <2>5. onPod' \in [Positions -> [Calls -> {"none", "running", "zero", "nonzero"}]]
    BY <1>5, <2>1, <2>3 DEF Send, SessionTypeOK
  <2>6. SessionTypeOK'
    BY <1>1, <1>2, <1>5, <2>3, <2>5 DEF Send, Stay, SessionTypeOK, options, waitVars
  <2>. QED BY <2>4, <2>6
<1>6. CASE Receive
  <2>1. step \in 1..Len(Script) /\ step \in Positions /\ Current.kind = "command" /\ pc = "await"
    BY <1>1, <1>6 DEF Receive, Control
  <2>2. Attempts(Current) \in 1..(MaxRetries + 1)
    BY <1>1, <2>1, CommandFacts DEF Current
  <2>3. UNCHANGED <<options, tries, podVars, waitVars>>
    BY <1>6 DEF Receive
  <2>4. PICK exit : Retry(exit) \/ Finish(exit)
    BY <1>6 DEF Receive
  <2>5. CASE Retry(exit)
    <3>1. Control'
      BY <1>1, <1>2, <2>1, <2>3, <2>5 DEF Retry, Stay, Control, Current, Attempts
    <3>2. SessionTypeOK'
      BY <1>1, <1>2, <2>3, <2>5 DEF Retry, Stay, SessionTypeOK, options, podVars, waitVars
    <3>. QED BY <3>1, <3>2
  <2>6. CASE Finish(exit)
    <3>1. /\ pc' \in {"next", "raised"} /\ step' \in 1..(Len(Script) + 1)
          /\ rows' \in [Positions -> {"none", "running", "completed", "failed"}]
      BY <1>1, <2>1, <2>6 DEF Finish, Stay, Proceed, SessionTypeOK, StatusOf
    <3>2. Control'
      BY <3>1 DEF Control
    <3>3. SessionTypeOK'
      BY <1>1, <1>2, <2>3, <3>1 DEF SessionTypeOK, options, podVars, waitVars, Final
    <3>. QED BY <3>2, <3>3
  <2>. QED BY <2>4, <2>5, <2>6
<1>7. CASE ClientRaises \/ WriteRuntimeFiles \/ SkipLaunch \/ EndOfScript \/ LaunchReturns
  <2>1. UNCHANGED <<options, tries, rows, podVars, waitVars>>
    BY <1>7 DEF ClientRaises, WriteRuntimeFiles, SkipLaunch, EndOfScript, LaunchReturns
  <2>2. pc' \in {"next", "raised", "wait", "returned"}
    BY <1>7 DEF ClientRaises, WriteRuntimeFiles, SkipLaunch, EndOfScript, LaunchReturns, Stay, Proceed
  <2>3. step' \in 1..(Len(Script) + 1)
    BY <1>1, <1>7 DEF ClientRaises, WriteRuntimeFiles, SkipLaunch, EndOfScript, LaunchReturns,
                      At, Stay, Proceed, Control
  <2>4. Control'
    BY <2>2 DEF Control
  <2>5. SessionTypeOK'
    BY <1>1, <1>2, <2>1, <2>2, <2>3 DEF SessionTypeOK, options, podVars, waitVars, Final
  <2>. QED BY <2>4, <2>5
<1>8. CASE LaunchAgent
  <2>1. pc' = "launching" /\ step' = step /\ step <= Len(Script) /\ Current.kind = "launch"
    BY <1>8 DEF LaunchAgent, At, Stay, Current
  <2>2. Control'
    BY <1>2, <2>1 DEF Control, Current
  <2>3. SessionTypeOK'
    BY <1>1, <1>2, <1>8, <2>1 DEF LaunchAgent, SessionTypeOK, options, waitVars
  <2>. QED BY <2>2, <2>3
<1>9. CASE ReadResponse \/ ReadLog \/ Deadline \/ Crash
  <2>1. /\ UNCHANGED <<options, tries, rows, podVars>> /\ step' = step
        /\ pc' \in {"returned", "raised", "log", "wait", "dead"}
    BY <1>9 DEF ReadResponse, ReadLog, ReadLogWith, Deadline, Crash, Stay
  <2>2. /\ collected' \in {collected, response} /\ source' \in {source, "log", "response"}
        /\ polls' = polls \/ (pc = "log" /\ polls' = polls + 1)
    BY <1>9 DEF ReadResponse, ReadLog, ReadLogWith, Deadline, Crash, waitVars
  <2>3. Control'
    BY <1>9, <2>1 DEF Control, ReadResponse, ReadLog, ReadLogWith, Deadline, Crash, Stay
  <2>4. SessionTypeOK'
    BY <1>1, <1>2, <2>1, <2>2 DEF SessionTypeOK, options, podVars, Final, Control
  <2>. QED BY <2>3, <2>4
<1>10. CASE \E i \in Positions, n \in Calls : CommandEnds(i, n)
  <2>1. PICK i \in Positions, n \in Calls : CommandEnds(i, n)
    BY <1>10
  <2>2. onPod' \in [Positions -> [Calls -> {"none", "running", "zero", "nonzero"}]]
    BY <2>1 DEF CommandEnds, SessionTypeOK
  <2>3. Control'
    BY <1>2, <2>1 DEF CommandEnds, Control, Current, waitVars
  <2>4. SessionTypeOK'
    BY <1>1, <1>2, <2>1, <2>2 DEF CommandEnds, SessionTypeOK, options, waitVars
  <2>. QED BY <2>3, <2>4
<1>11. CASE AgentMoves \/ EarlierEnds
  <2>1. UNCHANGED <<options, pc, step, tries, rows, onPod, waitVars>>
    BY <1>11 DEF AgentMoves, EarlierEnds
  <2>2. Control'
    BY <1>2, <2>1 DEF Control, Current, waitVars
  <2>3. /\ agent' \in {"none", "starting", "working", "answered", "done"}
        /\ earlier' \in {"none", "working", "done"}
        /\ response' \subseteq {"earlier", "header", "answer"}
        /\ log' \subseteq {"earlier", "mine"}
    BY <1>11 DEF AgentMoves, EarlierEnds, SessionTypeOK
  <2>4. SessionTypeOK'
    BY <1>1, <1>2, <2>1, <2>3 DEF SessionTypeOK, options, waitVars
  <2>. QED BY <2>2, <2>4
<1>12. CASE UNCHANGED vars
  BY <1>2, <1>12 DEF vars, options, podVars, waitVars, SessionTypeOK, Control, Current
<1>. QED BY <1>4, <1>5, <1>6, <1>7, <1>8, <1>9, <1>10, <1>11, <1>12 DEF Next, Step

\* Every variable of a session keeps its type.
THEOREM SessionIsTyped == Spec => []SessionTypeOK
<1>1. TypeInv => SessionTypeOK
  BY DEF TypeInv
<1>. QED BY <1>1, InitTyped, NextTyped, PTL DEF Spec

----------------------------------------------------------------------------
(* What the session knows of the commands in the pod. *)

\* Nothing was sent beyond the command in hand, or beyond its last attempt.
Untouched ==
  \A i \in Positions, n \in Calls : onPod[i][n] # "none" =>
    /\ i <= step
    /\ i = step => pc # "next" /\ (pc \in {"send", "await"} => n <= tries)

\* Only policy retry tries again.
Retried ==
  (pc = "send" /\ tries > 0) \/ (pc = "await" /\ tries > 1) => Current.policy = "retry"

\* The commands that the session has passed and that may not fail.
Succeeded(i) == \E n \in Calls : onPod[i][n] = "zero"

Passed ==
  \A i \in 1..Len(Script) :
    i < step /\ Script[i].kind = "command" /\ Fatal(Script[i]) => Succeeded(i)

\* The launch is behind the commands of phase before_start.
LaunchedLate == agent # "none" => mode # "stop" /\ Len(Before) < step

SafeInv ==
  /\ Untouched /\ Retried /\ Passed /\ LaunchedLate
  /\ RetriesBounded /\ RowsAreTruthful

LEMMA InitSafe == Init => SafeInv
<1>. SUFFICES ASSUME Init PROVE SafeInv
  OBVIOUS
<1>1. mode \in Modes /\ step = 1
  BY DEF Init
<1>2. \A i \in Positions, n \in Calls : onPod[i][n] = "none"
  BY DEF Init
<1>3. 1..Len(Script) \subseteq Positions /\ Len(Script) \in Nat
  BY <1>1, ScriptFacts
<1>4. Untouched /\ RetriesBounded
  BY <1>2, <1>3 DEF Untouched, RetriesBounded
<1>5. Retried /\ LaunchedLate
  BY DEF Init, Retried, LaunchedLate
<1>6. Passed
  BY <1>1, <1>3 DEF Passed
<1>7. RowsAreTruthful
  BY DEF Init, RowsAreTruthful
<1>. QED BY <1>4, <1>5, <1>6, <1>7 DEF SafeInv

LEMMA ModeStays == [Next]_vars => mode' = mode /\ Script' = Script
<1>1. [Next]_vars => mode' = mode
  BY DEF Next, Step, vars, options, StartCommand, Send, Receive, ClientRaises,
         WriteRuntimeFiles, SkipLaunch, LaunchAgent, LaunchReturns, EndOfScript,
         ReadResponse, ReadLog, ReadLogWith, Deadline, CommandEnds, AgentMoves,
         EarlierEnds, Crash
<1>. QED BY <1>1 DEF Script

\* A step that leaves the pod's commands and the table alone, and does not go
\* back, keeps the invariant.
LEMMA QuietPreserves ==
  ASSUME TypeInv, SafeInv, Script' = Script, UNCHANGED <<mode, rows, onPod>>,
         step' \in Nat, step' >= step,
         pc' \in {"send", "await"} => pc' = pc /\ step' = step /\ tries' = tries,
         pc' = "next" => step' > step \/ pc = "next",
         step' > step => ~(step \in 1..Len(Script) /\ Current.kind = "command" /\ Fatal(Current)),
         step' <= step + 1,
         agent' # "none" => agent # "none" \/ (mode # "stop" /\ Len(Before) < step)
  PROVE  SafeInv'
<1>1. /\ step \in Nat /\ Len(Script) \in Nat /\ 1..Len(Script) \subseteq Positions
      /\ Len(Before) \in Nat /\ Positions \subseteq Nat /\ Calls \subseteq Nat
  BY ScriptFacts, CommandsAssumption DEF TypeInv, SessionTypeOK, Positions, Calls
<1>2. Untouched'
  <2>. SUFFICES ASSUME NEW i \in Positions, NEW n \in Calls, onPod'[i][n] # "none"
                PROVE  /\ i <= step'
                       /\ i = step' => pc' # "next" /\ (pc' \in {"send", "await"} => n <= tries')
    BY DEF Untouched
  <2>1. /\ i <= step
        /\ i = step => pc # "next" /\ (pc \in {"send", "await"} => n <= tries)
    BY DEF Untouched, SafeInv
  <2>2. i <= step' /\ (i = step' => step' = step)
    BY <1>1, <2>1
  <2>3. ASSUME i = step' PROVE pc' # "next" /\ (pc' \in {"send", "await"} => n <= tries')
    <3>1. step' = step /\ i = step /\ ~(step' > step)
      BY <1>1, <2>2, <2>3
    <3>. QED BY <2>1, <3>1
  <2>. QED BY <2>2, <2>3
<1>3. Retried'
  BY DEF Retried, SafeInv, Current
<1>4. Passed'
  BY <1>1 DEF Passed, SafeInv, Current, Fatal, Succeeded
<1>5. LaunchedLate'
  BY <1>1 DEF LaunchedLate, SafeInv
<1>6. RetriesBounded' /\ RowsAreTruthful'
  BY DEF RetriesBounded, RowsAreTruthful, SafeInv
<1>. QED BY <1>2, <1>3, <1>4, <1>5, <1>6 DEF SafeInv

LEMMA NextSafe == TypeInv /\ SafeInv /\ [Next]_vars => SafeInv'
<1>. SUFFICES ASSUME TypeInv, SafeInv, [Next]_vars PROVE SafeInv'
  OBVIOUS
<1>1. mode' = mode /\ Script' = Script
  BY ModeStays
<1>2. /\ mode \in Modes /\ step \in 1..(Len(Script) + 1) /\ tries \in Nat
      /\ onPod \in [Positions -> [Calls -> {"none", "running", "zero", "nonzero"}]]
      /\ rows \in [Positions -> {"none", "running", "completed", "failed"}]
  BY CommandsAssumption DEF TypeInv, SessionTypeOK
<1>3. /\ Len(Script) \in Nat /\ 1..Len(Script) \subseteq Positions /\ step \in Nat
      /\ Len(Before) \in Nat /\ Positions \subseteq Nat /\ Calls \subseteq Nat
      /\ \A i \in 1..Len(Script) : Script[i].kind = "launch" => mode # "stop" /\ i = Len(Before) + 2
  BY <1>2, ScriptFacts, CommandsAssumption DEF Positions, Calls
<1>4. CASE StartCommand
  <2>1. /\ pc = "next" /\ pc' = "send" /\ step' = step /\ tries' = 0
        /\ rows' = [rows EXCEPT ![step] = "running"]
        /\ UNCHANGED <<onPod, agent>>
    BY <1>4 DEF StartCommand, At, Stay, podVars
  <2>2. Untouched' /\ Retried'
    BY <1>3, <2>1 DEF Untouched, Retried, SafeInv
  <2>3. Passed' /\ LaunchedLate' /\ RetriesBounded'
    BY <1>1, <2>1 DEF Passed, LaunchedLate, RetriesBounded, Succeeded, SafeInv
  <2>4. RowsAreTruthful'
    BY <1>2, <2>1 DEF RowsAreTruthful, SafeInv
  <2>. QED BY <2>2, <2>3, <2>4 DEF SafeInv
<1>5. CASE Send
  <2>1. /\ pc = "send" /\ pc' = "await" /\ step' = step /\ tries' = tries + 1
        /\ UNCHANGED <<rows, agent>>
    BY <1>5 DEF Send, Stay
  <2>2. PICK started \in {"running", "none"} : onPod' = [onPod EXCEPT ![step][tries + 1] = started]
    BY <1>5 DEF Send
  <2>3. step \in 1..Len(Script) /\ Current.kind = "command"
    BY <1>2, <1>3, <2>1 DEF TypeInv, Control
  <2>4. tries + 1 \in Calls
    <3>1. Attempts(Current) \in 1..(MaxRetries + 1) /\ tries < Attempts(Current)
      BY <1>2, <2>1, <2>3, CommandFacts DEF Current, TypeInv, Control
    <3>. QED BY <1>2, <3>1, CommandsAssumption DEF Calls
  <2>5. /\ \A i \in Positions, n \in Calls :
             ~(i = step /\ n = tries + 1) => onPod'[i][n] = onPod[i][n]
        /\ onPod'[step][tries + 1] = started
    BY <1>2, <1>3, <2>2, <2>3, <2>4
  <2>6. onPod[step][tries + 1] = "none"
    BY <1>2, <1>3, <2>1, <2>3, <2>4 DEF Untouched, SafeInv
  <2>7. \A i \in Positions : Succeeded(i) => Succeeded(i)'
    BY <1>2, <2>5, <2>6 DEF Succeeded
  <2>8. Untouched'
    BY <1>2, <1>3, <2>1, <2>5 DEF Untouched, SafeInv
  <2>9. Retried'
    BY <1>1, <1>2, <2>1 DEF Retried, Current, SafeInv
  <2>10. Passed' /\ LaunchedLate' /\ RowsAreTruthful'
    BY <1>1, <1>3, <2>1, <2>7 DEF Passed, LaunchedLate, RowsAreTruthful, Succeeded, SafeInv
  <2>11. RetriesBounded'
    <3>. SUFFICES ASSUME NEW i \in 1..Len(Script), NEW n \in Calls, onPod'[i][n] # "none"
                  PROVE  n <= IF Script[i].policy = "retry" THEN Script[i].retries + 1 ELSE 1
      BY <1>1 DEF RetriesBounded
    <3>1. CASE i = step /\ n = tries + 1
      <4>1. tries < Script[i].retries + 1 /\ Script[i].retries \in Nat
        BY <1>2, <2>1, <2>3, <3>1, CommandFacts DEF TypeInv, Control, Attempts, Current, Command
      <4>2. tries > 0 => Script[i].policy = "retry"
        BY <2>1, <3>1 DEF Retried, SafeInv, Current
      <4>. QED BY <1>2, <3>1, <4>1, <4>2
    <3>2. CASE ~(i = step /\ n = tries + 1)
      BY <1>3, <2>5, <3>2 DEF RetriesBounded, SafeInv
    <3>. QED BY <3>1, <3>2
  <2>. QED BY <2>8, <2>9, <2>10, <2>11 DEF SafeInv
<1>6. CASE Receive
  <2>1. pc = "await" /\ UNCHANGED <<tries, onPod, agent>>
    BY <1>6 DEF Receive, podVars
  <2>2. step \in 1..Len(Script) /\ Current.kind = "command" /\ tries >= 1
    BY <1>2, <1>3, <2>1 DEF TypeInv, Control
  <2>3. tries \in Calls
    <3>1. Attempts(Current) \in 1..(MaxRetries + 1) /\ tries <= Attempts(Current)
      BY <1>2, <2>1, <2>2, CommandFacts DEF Current, TypeInv, Control
    <3>. QED BY <1>2, <2>2, <3>1, CommandsAssumption DEF Calls
  <2>4. PICK exit \in ({Exit} \cap {"zero", "nonzero"}) \cup {"lost"} : Retry(exit) \/ Finish(exit)
    BY <1>6 DEF Receive
  <2>5. exit = "zero" => Succeeded(step)
    BY <2>3, <2>4 DEF Exit, Succeeded
  <2>6. CASE Retry(exit)
    <3>1. pc' = "send" /\ step' = step /\ UNCHANGED rows /\ Current.policy = "retry"
      BY <2>6 DEF Retry, Stay
    <3>2. Untouched' /\ Retried'
      BY <1>1, <2>1, <3>1 DEF Untouched, Retried, Current, SafeInv
    <3>3. Passed' /\ LaunchedLate' /\ RetriesBounded' /\ RowsAreTruthful'
      BY <1>1, <2>1, <3>1 DEF Passed, Succeeded, LaunchedLate, RetriesBounded, RowsAreTruthful, SafeInv
    <3>. QED BY <3>2, <3>3 DEF SafeInv
  <2>7. CASE Finish(exit)
    <3>1. /\ rows' = [rows EXCEPT ![step] = StatusOf(exit)]
          /\ \/ pc' = "raised" /\ step' = step
             \/ pc' = "next" /\ step' = step + 1 /\ (exit = "zero" \/ ~Fatal(Current))
      BY <2>7 DEF Finish, Stay, Proceed
    <3>2. Untouched' /\ Retried'
      BY <1>1, <1>3, <2>1, <3>1 DEF Untouched, Retried, SafeInv
    <3>3. Passed'
      BY <1>1, <1>3, <2>1, <2>5, <3>1 DEF Passed, Current, Fatal, Succeeded, SafeInv
    <3>4. LaunchedLate' /\ RetriesBounded'
      BY <1>1, <1>3, <2>1, <3>1 DEF LaunchedLate, RetriesBounded, SafeInv
    <3>5. RowsAreTruthful'
      <4>1. StatusOf(exit) = "completed" => Succeeded(step)
        BY <2>5 DEF StatusOf
      <4>. QED BY <1>2, <1>3, <2>1, <2>2, <3>1, <4>1 DEF RowsAreTruthful, Succeeded, SafeInv
    <3>. QED BY <3>2, <3>3, <3>4, <3>5 DEF SafeInv
  <2>. QED BY <2>4, <2>6, <2>7
<1>7. CASE ClientRaises \/ WriteRuntimeFiles \/ SkipLaunch \/ EndOfScript
  <2>1. UNCHANGED <<tries, rows, onPod, agent>>
    BY <1>7 DEF ClientRaises, WriteRuntimeFiles, SkipLaunch, EndOfScript, podVars
  <2>2. pc' \in {"next", "raised", "wait", "returned"} /\ (pc' = "next" => step' > step)
    BY <1>3, <1>7 DEF ClientRaises, WriteRuntimeFiles, SkipLaunch, EndOfScript, Stay, Proceed
  <2>3. /\ step' \in Nat /\ step' >= step /\ step' <= step + 1
        /\ step' > step => Current.kind # "command"
    BY <1>3, <1>7 DEF ClientRaises, WriteRuntimeFiles, SkipLaunch, EndOfScript,
                      At, Stay, Proceed, Current
  <2>. QED BY <1>1, <2>1, <2>2, <2>3, QuietPreserves
<1>8. CASE LaunchAgent
  <2>1. /\ UNCHANGED <<rows, onPod>> /\ pc' = "launching" /\ step' = step
        /\ step <= Len(Script) /\ Script[step].kind = "launch"
    BY <1>8 DEF LaunchAgent, At, Stay
  <2>2. mode # "stop" /\ Len(Before) < step
    BY <1>2, <1>3, <2>1
  <2>. QED BY <1>1, <1>3, <2>1, <2>2, QuietPreserves
<1>9. CASE LaunchReturns
  <2>1. /\ UNCHANGED <<tries, rows, onPod, agent>>
        /\ \/ pc' = "next" /\ step' = step + 1
           \/ pc' = "raised" /\ step' = step
    BY <1>9 DEF LaunchReturns, Stay, Proceed, podVars
  <2>2. Current.kind # "command"
    BY <1>9 DEF LaunchReturns, TypeInv, Control
  <2>. QED BY <1>1, <1>3, <2>1, <2>2, QuietPreserves
<1>10. CASE ReadResponse \/ ReadLog \/ Deadline \/ Crash
  <2>1. /\ UNCHANGED <<tries, rows, onPod, agent>> /\ step' = step
        /\ pc' \in {"returned", "raised", "log", "wait", "dead"}
    BY <1>10 DEF ReadResponse, ReadLog, ReadLogWith, Deadline, Crash, Stay, podVars
  <2>. QED BY <1>1, <1>3, <2>1, QuietPreserves
<1>11. CASE \E i \in Positions, n \in Calls : CommandEnds(i, n)
  <2>1. PICK i \in Positions, n \in Calls : CommandEnds(i, n)
    BY <1>11
  <2>2. UNCHANGED <<pc, step, tries, rows, agent>> /\ onPod[i][n] = "running"
    BY <2>1 DEF CommandEnds
  <2>3. /\ \A j \in Positions, m \in Calls : ~(j = i /\ m = n) => onPod'[j][m] = onPod[j][m]
        /\ onPod'[i][n] # "none"
    BY <1>2, <2>1 DEF CommandEnds
  <2>4. \A j \in Positions : Succeeded(j) => Succeeded(j)'
    BY <2>2, <2>3 DEF Succeeded
  <2>5. \A j \in Positions, m \in Calls : onPod'[j][m] # "none" => onPod[j][m] # "none"
    BY <2>2, <2>3
  <2>6. Untouched' /\ Retried'
    BY <1>1, <2>2, <2>5 DEF Untouched, Retried, Current, SafeInv
  <2>7. Passed' /\ LaunchedLate'
    BY <1>1, <1>3, <2>2, <2>4 DEF Passed, LaunchedLate, SafeInv
  <2>8. RetriesBounded'
    BY <1>1, <1>3, <2>5 DEF RetriesBounded, SafeInv
  <2>9. RowsAreTruthful'
    BY <2>2, <2>4 DEF RowsAreTruthful, Succeeded, SafeInv
  <2>. QED BY <2>6, <2>7, <2>8, <2>9 DEF SafeInv
<1>12. CASE AgentMoves \/ EarlierEnds
  <2>1. UNCHANGED <<pc, step, tries, rows, onPod>> /\ (agent' # "none" => agent # "none")
    BY <1>12 DEF AgentMoves, EarlierEnds
  <2>. QED BY <1>1, <1>3, <2>1, QuietPreserves
<1>13. CASE UNCHANGED vars
  BY <1>1, <1>3, <1>13, QuietPreserves DEF vars, podVars
<1>. QED BY <1>4, <1>5, <1>6, <1>7, <1>8, <1>9, <1>10, <1>11, <1>12, <1>13 DEF Next, Step

LEMMA SafetyHolds == Spec => [](TypeInv /\ SafeInv)
BY InitTyped, NextTyped, InitSafe, NextSafe, PTL DEF Spec

----------------------------------------------------------------------------
(* The theorems. *)

\* The agent is launched only after every before_start command that may not
\* fail has ended with exit code 0.
THEOREM SetupComesFirst == Spec => []SetupBeforeLaunch
<1>1. TypeInv /\ SafeInv => SetupBeforeLaunch
  <2>. SUFFICES ASSUME TypeInv, SafeInv, agent # "none", NEW i \in 1..Len(Before),
                       Before[i].policy # "continue"
                PROVE  Succeeded(i)
    BY DEF SetupBeforeLaunch, Succeeded
  <2>1. mode \in Modes /\ mode # "stop" /\ Len(Before) < step /\ Len(Before) \in Nat /\ step \in Nat
    BY ScriptFacts, CommandsAssumption DEF TypeInv, SessionTypeOK, SafeInv, LaunchedLate
  <2>2. i \in 1..Len(Script) /\ Script[i] = Before[i] /\ i < step
    BY <2>1, ScriptFacts
  <2>3. Before[i] \in Command
    BY CommandsAssumption
  <2>4. Script[i].kind = "command" /\ Fatal(Script[i])
    BY <2>2, <2>3 DEF Command, Fatal
  <2>. QED BY <2>2, <2>4 DEF SafeInv, Passed
<1>. QED BY <1>1, SafetyHolds, PTL

\* No command is sent more often than its policy and retry count allow.
THEOREM RetriesAreBounded == Spec => []RetriesBounded
<1>1. SafeInv => RetriesBounded
  BY DEF SafeInv
<1>. QED BY <1>1, SafetyHolds, PTL

\* The commands table never claims a success that the pod has not seen.
THEOREM CommandRowsAreTruthful == Spec => []RowsAreTruthful
<1>1. SafeInv => RowsAreTruthful
  BY DEF SafeInv
<1>. QED BY <1>1, SafetyHolds, PTL

============================================================================
