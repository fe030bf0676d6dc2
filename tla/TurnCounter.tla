----------------------------- MODULE TurnCounter -----------------------------
(***************************************************************************)
(* StateStore.increment_counter for the turns of one run.  In one server   *)
(* its callers are the turn route, on the event loop, and the runner, on   *)
(* the executor's thread; servers that share a ledger add theirs.  Each    *)
(* call has a connection of its own.                                       *)
(***************************************************************************)
EXTENDS Integers, FiniteSets

CONSTANTS
  Callers,    \* the threads that count turns
  MaxTurns    \* bound: no increment begins when so many have returned

ASSUME CallersAssumption == IsFiniteSet(Callers)
ASSUME MaxTurnsAssumption == MaxTurns \in Nat

VARIABLES
  turns,      \* the value in the counters table
  reading,    \* what each caller has read and not yet written
  counted,    \* history: increments that have returned
  overlapped  \* history: increments that began while another was under way

counterVars == <<turns, reading, counted, overlapped>>

None == -1
Busy == {c \in Callers : reading[c] # None}

CounterInit ==
  /\ turns = 0 /\ counted = 0 /\ overlapped = 0
  /\ reading = [c \in Callers |-> None]

\* SELECT value, in no transaction.
TurnRead(c) ==
  /\ c \notin Busy /\ counted < MaxTurns
  /\ reading' = [reading EXCEPT ![c] = turns]
  /\ overlapped' = IF Busy = {} THEN overlapped ELSE overlapped + 1
  /\ UNCHANGED <<turns, counted>>

\* Mutant of TurnWrite: INSERT ... ON CONFLICT DO NOTHING.
TurnWriteOnce(c) ==
  /\ c \in Busy
  /\ turns' = IF turns = 0 THEN reading[c] + 1 ELSE turns
  /\ reading' = [reading EXCEPT ![c] = None]
  /\ counted' = counted + 1
  /\ UNCHANGED overlapped
\* The upsert of what was read, plus one.
TurnWrite(c) ==
  /\ c \in Busy
  /\ turns' = reading[c] + 1
  /\ reading' = [reading EXCEPT ![c] = None]
  /\ counted' = counted + 1
  /\ UNCHANGED overlapped

CounterNext == \E c \in Callers : TurnRead(c) \/ TurnWrite(c)
=============================================================================
