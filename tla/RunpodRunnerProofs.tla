------------------------- MODULE RunpodRunnerProofs -------------------------
(***************************************************************************)
(* Theorems of RunpodRunner, for every number of runs, set of hashes,      *)
(* requests and faults.                                                    *)
(***************************************************************************)
EXTENDS RunpodRunner, NaturalsInduction, WellFoundedInduction, TLAPS

----------------------------------------------------------------------------
(* The newest row of a set of rows is one of them, and no other is newer. *)

LEMMA LeastNatural ==
  ASSUME NEW T \in SUBSET Nat, T # {}
  PROVE  \E x \in T : \A y \in T : x <= y
<1>. DEFINE R == {ss \in Nat \X Nat : ss[1] < ss[2]}
<1>1. IsWellFoundedOn(R, Nat)
  BY NatLessThanWellFounded DEF OpToRel
<1>2. PICK x \in T : \A y \in T : ~(<<y, x>> \in R)
  <2>. HIDE DEF R
  <2>. QED BY <1>1, WFMin
<1>3. \A y \in T : ~(y < x)
  BY <1>2
<1>. QED BY <1>3

\* created_at never runs ahead of the clock.
Dated == \A k \in Keys : ledger[k].at <= clock

LEMMA NewestIsAMember ==
  ASSUME StoreTypeOK, Dated, NEW S \in SUBSET Keys, S # {}
  PROVE  Newest(S) \in S /\ \A j \in S : ledger[j].at <= ledger[Newest(S)].at
<1>. DEFINE age(k) == clock - ledger[k].at
            T == {age(k) : k \in S}
<1>1. clock \in Nat /\ \A k \in S : ledger[k].at \in Nat /\ ledger[k].at <= clock
  BY DEF StoreTypeOK, Dated
<1>2. T \in SUBSET Nat /\ T # {}
  BY <1>1
<1>3. PICK x \in T : \A y \in T : x <= y
  <2>. HIDE DEF T
  <2>. QED BY <1>2, LeastNatural
<1>4. PICK k \in S : x = age(k)
  OBVIOUS
<1>5. \A j \in S : age(j) \in T
  OBVIOUS
<1>6. \A j \in S : age(k) <= age(j)
  <2>. HIDE DEF T, age
  <2>. QED BY <1>3, <1>4, <1>5
<1>7. \A j \in S : ledger[j].at <= ledger[k].at
  BY <1>1, <1>6
<1>. QED BY <1>7 DEF Newest

----------------------------------------------------------------------------
(* What the operations of the provider and of the ledger preserve. *)

LEMMA CallEffect ==
  ASSUME ProviderTypeOK, NEW p \in Pods, NEW a \in LifecycleActions,
         Execute(p, a) \/ CallFails(p, a)
  PROVE  /\ ProviderTypeOK'
         /\ \A q \in Pods : /\ pods'[q] = "ABSENT" <=> pods[q] = "ABSENT"
                            /\ pods'[q] \in Known => pods[q] \in Known
<1>1. CASE UNCHANGED providerVars
  BY <1>1 DEF ProviderTypeOK, providerVars
<1>2. CASE Execute(p, a)
  <2>1. pods[p] \in Known /\ After(a, pods[p]) \in Known
    BY <1>2 DEF Execute, Accepts, After, Known, LifecycleActions
  <2>. QED BY <1>2, <2>1 DEF Execute, ProviderTypeOK, PodStatus, Known
<1>. QED BY <1>1, <1>2 DEF CallFails

LEMMA DeployEffect ==
  ASSUME ProviderTypeOK, NEW p \in Pods, Deploy(p) \/ DeployFails(p)
  PROVE  /\ ProviderTypeOK'
         /\ \A q \in Pods \ {p} : pods'[q] = pods[q]
         /\ pods[p] # "ABSENT" => pods'[p] # "ABSENT"
BY DEF Deploy, DeployFails, ProviderTypeOK, PodStatus, Known, providerVars

LEMMA UpsertEffect ==
  ASSUME StoreTypeOK, Dated, NEW k \in Keys, NEW p \in Pods \cup {NoPod},
         NEW s \in RowStatus, Upsert(k, p, s)
  PROVE  /\ StoreTypeOK' /\ Dated'
         /\ ledger'[k].pod = p
         /\ Exists(k)'
         /\ \A j \in Keys \ {k} : ledger'[j] = ledger[j]
         /\ UNCHANGED <<runStatus, cleanupFailed>>
<1>. DEFINE at == IF Exists(k) THEN ledger[k].at ELSE clock + 1
            row == [pod |-> p, status |-> s, at |-> at]
<1>1. at \in Nat /\ at > 0 /\ clock' \in Nat /\ clock <= clock' /\ at <= clock'
  BY DEF Upsert, StoreTypeOK, Dated, Exists
<1>2. ledger' = [ledger EXCEPT ![k] = row]
  BY DEF Upsert
<1>3. row.at = at /\ row.pod = p /\ row \in [pod : Pods \cup {NoPod}, status : RowStatus, at : Nat]
  BY <1>1
<1>. HIDE DEF at, row
<1>4. ledger'[k] = row /\ \A j \in Keys \ {k} : ledger'[j] = ledger[j]
  BY <1>2 DEF StoreTypeOK
<1>5. Dated'
  <2>. SUFFICES ASSUME NEW j \in Keys PROVE ledger'[j].at <= clock'
    BY DEF Dated
  <2>1. CASE j = k
    BY <2>1, <1>1, <1>3, <1>4
  <2>2. CASE j # k
    BY <2>2, <1>1, <1>4 DEF Dated, StoreTypeOK
  <2>. QED BY <2>1, <2>2
<1>6. StoreTypeOK'
  BY <1>1, <1>2, <1>3 DEF StoreTypeOK, Upsert
<1>. QED BY <1>1, <1>3, <1>4, <1>5, <1>6 DEF Exists, Upsert

LEMMA MarkEffect ==
  ASSUME StoreTypeOK, Dated, NEW k \in Keys, NEW s \in RowStatus,
         MarkResourceStatus(k, s)
  PROVE  /\ StoreTypeOK' /\ Dated'
         /\ \A j \in Keys : ledger'[j].pod = ledger[j].pod /\ ledger'[j].at = ledger[j].at
BY DEF MarkResourceStatus, StoreTypeOK, Dated

LEMMA RecordRunEffect ==
  ASSUME StoreTypeOK, NEW r \in Runs, NEW s \in {"started", "completed", "failed"},
         RecordRun(r, s)
  PROVE  StoreTypeOK' /\ UNCHANGED <<ledger, clock>>
BY DEF RecordRun, StoreTypeOK

----------------------------------------------------------------------------
(* Type correctness. *)

\* Where the loops of _apply and _lifecycle stand at each step.
Control ==
  /\ pc # "idle" => run \in Runs
  /\ pc = "idle" => idx = 1
  /\ pc = "wait" => idx < Len(Plan)
  /\ pc \in {"schedule", "agent", "keepalive", "complete"} => idx = Len(Plan)
  /\ todo # {} => pc \in {"lifecycle", "act", "cleanup", "fail"}
  /\ pc \in {"lifecycle", "act"} => IsLifecycle
  /\ pc = "act" => todo # {}
  /\ \A k \in todo : HasPod(k)

\* A step that uses a pod has one.
Holding ==
  /\ pc \in {"resume", "bind", "wait"} => held[Hash] \in Pods
  /\ pc \in {"schedule", "agent", "keepalive"} => held[Agent] \in Pods

TypeInv == TypeOK /\ Dated /\ Control /\ Holding

LEMMA PlanFacts ==
  ASSUME NEW q \in Requests
  PROVE  /\ Len(q.plan) \in Nat \ {0}
         /\ \A i \in 1..Len(q.plan) : q.plan[i] \in Hashes
         /\ 1 \in 1..Len(q.plan) /\ Len(q.plan) \in 1..Len(q.plan)
         /\ q.mode \in {"apply", "stop", "terminate"}
BY RequestsAssumption DEF RequestType

LEMMA NoRequestIsARequest == NoRequest \in Requests
BY RequestsAssumption DEF NoRequest

LEMMA LeaveTyped ==
  ASSUME Leave, run \in 0..MaxRuns
  PROVE  /\ pc' = "idle" /\ idx' = 1 /\ todo' = {}
         /\ pc' \in Steps /\ run' \in 0..MaxRuns /\ req' \in Requests
         /\ idx' \in 1..Len(req'.plan)
         /\ held' \in [Hashes -> Pods \cup {NoPod}]
         /\ portsSeen' \in BOOLEAN
         /\ listing' \in [Pods -> Known \cup {"ABSENT"}]
<1>1. req' \in Requests /\ idx' = 1
  BY NoRequestIsARequest DEF Leave
<1>2. idx' \in 1..Len(req'.plan)
  BY <1>1, PlanFacts
<1>. QED BY <1>1, <1>2 DEF Leave, NothingHeld, NothingListed, Steps

LEMMA LeavePreserves ==
  ASSUME TypeInv, Leave, ProviderTypeOK', StoreTypeOK', Dated',
         timers' \subseteq timers, UNCHANGED volumes
  PROVE  TypeInv'
<1>1. run \in 0..MaxRuns /\ timers' \subseteq Runs \X Pods /\ volumes' \subseteq Pods
  BY DEF TypeInv, TypeOK
<1>2. TypeOK'
  BY <1>1, LeaveTyped DEF TypeOK, Plan
<1>3. Control' /\ Holding'
  BY <1>1, LeaveTyped DEF Control, Holding
<1>. QED BY <1>2, <1>3 DEF TypeInv

LEMMA TypedFacts ==
  ASSUME TypeInv
  PROVE  /\ ProviderTypeOK /\ StoreTypeOK /\ Dated
         /\ req \in Requests /\ Len(Plan) \in Nat \ {0} /\ idx \in 1..Len(Plan)
         /\ Hash \in Hashes /\ Agent \in Hashes
         /\ \A i \in 1..Len(Plan) : Plan[i] \in Hashes
         /\ IsLifecycle => req.mode \in LifecycleActions
         /\ CleanupAction \in LifecycleActions
         /\ KeepAliveAction \in LifecycleActions
         /\ pc # "idle" => \A h \in Hashes : <<run, h>> \in Pods /\ Own(run, h) \in Keys
         /\ todo # {} => Visited \in todo /\ Visited \in Keys /\ ledger[Visited].pod \in Pods
<1>1. req \in Requests /\ idx \in 1..Len(Plan) /\ ProviderTypeOK /\ StoreTypeOK /\ Dated
  BY DEF TypeInv, TypeOK
<1>2. Len(Plan) \in Nat \ {0} /\ Hash \in Hashes /\ Agent \in Hashes
      /\ \A i \in 1..Len(Plan) : Plan[i] \in Hashes
  BY <1>1, PlanFacts DEF Plan, Hash, Agent
<1>3. pc # "idle" => \A h \in Hashes : <<run, h>> \in Pods /\ Own(run, h) \in Keys
  BY DEF TypeInv, Control, Pods, Own, Keys
<1>4. todo # {} => Visited \in todo /\ Visited \in Keys /\ ledger[Visited].pod \in Pods
  <2>. HAVE todo # {}
  <2>1. todo \in SUBSET Keys
    BY DEF TypeInv, TypeOK
  <2>2. Visited \in todo
    BY <1>1, <2>1, NewestIsAMember DEF Visited
  <2>. QED BY <1>1, <2>1, <2>2 DEF TypeInv, Control, HasPod, StoreTypeOK
<1>. QED
  BY <1>1, <1>2, <1>3, <1>4, KeepAliveAssumption
  DEF IsLifecycle, LifecycleActions, CleanupAction

\* A step that leaves the runner's locals alone.
LEMMA GotoPreserves ==
  ASSUME TypeInv, NEW step \in Steps \ {"idle"}, Goto(step),
         ProviderTypeOK', StoreTypeOK', Dated',
         timers' \subseteq Runs \X Pods, volumes' \subseteq Pods,
         \A k \in Keys : HasPod(k) => HasPod(k)',
         pc # "idle",
         step = "wait" => idx < Len(Plan),
         step \in {"schedule", "agent", "keepalive", "complete"} => idx = Len(Plan),
         todo # {} => step \in {"lifecycle", "act", "cleanup", "fail"},
         step \in {"lifecycle", "act"} => IsLifecycle,
         step = "act" => todo # {},
         step \in {"resume", "bind", "wait"} => held[Hash] \in Pods,
         step \in {"schedule", "agent", "keepalive"} => held[Agent] \in Pods
  PROVE  TypeInv'
<1>1. pc' = step /\ UNCHANGED localVars
  BY DEF Goto
<1>2. UNCHANGED <<Plan, Hash, Agent, IsLifecycle>>
  BY <1>1 DEF localVars, Plan, Hash, Agent, IsLifecycle
<1>3. TypeOK'
  BY <1>1, <1>2 DEF TypeInv, TypeOK, localVars
<1>4. Control'
  BY <1>1, <1>2 DEF TypeInv, TypeOK, Control, localVars
<1>5. Holding'
  BY <1>1, <1>2 DEF Holding, localVars
<1>. QED BY <1>3, <1>4, <1>5 DEF TypeInv

\* A step that takes a pod for the resource at hand.
LEMMA HoldPreserves ==
  ASSUME TypeInv, NEW p \in Pods, NEW seen \in BOOLEAN, Hold(p, seen),
         pc \in {"lookup", "create"}, pc' \in {"resume", "bind"},
         ProviderTypeOK', UNCHANGED <<storeVars, otherVars>>
  PROVE  TypeInv'
<1>1. /\ UNCHANGED <<run, req, idx, listing, todo>>
      /\ held' = [held EXCEPT ![Hash] = p] /\ portsSeen' = seen
  BY DEF Hold
<1>2. UNCHANGED <<Plan, Hash, IsLifecycle>> /\ Hash \in Hashes
  BY <1>1, TypedFacts DEF Plan, Hash, IsLifecycle
<1>3. StoreTypeOK' /\ Dated'
  BY DEF TypeInv, TypeOK, StoreTypeOK, Dated, storeVars
<1>4. TypeOK'
  BY <1>1, <1>2, <1>3 DEF TypeInv, TypeOK, otherVars, Steps
<1>5. Control' /\ Holding'
  BY <1>1, <1>2 DEF TypeInv, TypeOK, Control, Holding
<1>. QED BY <1>3, <1>4, <1>5 DEF TypeInv

LEMMA InitTyped == Init => TypeInv
<1>. SUFFICES ASSUME Init PROVE TypeInv
  OBVIOUS
<1>1. req \in Requests /\ idx = 1 /\ idx \in 1..Len(Plan)
  BY NoRequestIsARequest, PlanFacts DEF Init, Plan
<1>a. ProviderTypeOK /\ StoreTypeOK
  BY DEF Init, ProviderInit, ProviderTypeOK, PodStatus, StoreInit, StoreTypeOK, RowStatus
<1>b. run \in 0..MaxRuns /\ pc \in Steps
  BY MaxRunsAssumption DEF Init, Steps
<1>2. TypeOK
  BY <1>1, <1>a, <1>b DEF Init, TypeOK, NothingHeld, NothingListed
<1>3. Dated /\ Control /\ Holding
  BY <1>1 DEF Init, StoreInit, Dated, Control, Holding
<1>. QED BY <1>2, <1>3 DEF TypeInv

LEMMA NextTyped == TypeInv /\ [Next]_vars => TypeInv'
<1>. SUFFICES ASSUME TypeInv, [Next]_vars PROVE TypeInv'
  OBVIOUS
<1>. USE TypedFacts
<1>a. UNCHANGED providerVars => ProviderTypeOK'
  BY DEF providerVars, ProviderTypeOK
<1>b. UNCHANGED storeVars => StoreTypeOK' /\ Dated' /\ \A k \in Keys : HasPod(k)' <=> HasPod(k)
  BY DEF storeVars, StoreTypeOK, Dated, HasPod
<1>c. timers \subseteq Runs \X Pods /\ volumes \subseteq Pods
  BY DEF TypeInv, TypeOK
<1>1. CASE UNCHANGED vars
  <2>1. UNCHANGED <<Plan, Hash, Agent, IsLifecycle>>
    BY <1>1 DEF vars, localVars, Plan, Hash, Agent, IsLifecycle
  <2>2. TypeOK'
    BY <1>1, <1>a, <1>b, <2>1 DEF vars, localVars, otherVars, TypeInv, TypeOK
  <2>3. Control' /\ Holding'
    BY <1>1, <1>b, <2>1 DEF vars, localVars, TypeInv, TypeOK, Control, Holding
  <2>. QED BY <1>1, <1>b, <2>2, <2>3 DEF vars, TypeInv
<1>2. CASE Start
  <2>1. run' \in Runs /\ run' \in 0..MaxRuns
    BY <1>2, MaxRunsAssumption DEF Start, TypeInv, TypeOK, Runs
  <2>2. idx' = 1 /\ req' \in Requests /\ idx' \in 1..Len(Plan')
    BY <1>2, PlanFacts DEF Start, TypeInv, Control, Plan
  <2>3. TypeOK'
    BY <1>2, <1>a, <1>b, <1>c, <2>1, <2>2 DEF Start, TypeInv, TypeOK, otherVars, Steps
  <2>4. Control' /\ Holding'
    BY <1>2, <1>b, <2>1 DEF Start, TypeInv, TypeOK, Control, Holding
  <2>. QED BY <1>2, <1>b, <2>3, <2>4 DEF TypeInv, Start
<1>3. CASE ListPods
  <2>1. CASE Leave
    BY <1>3, <2>1, <1>a, <1>b, LeavePreserves DEF ListPods, otherVars
  <2>2. CASE ~Leave
    <3>1. listing' \in [Pods -> Known \cup {"ABSENT"}]
      BY <1>3, <2>2 DEF ListPods
    <3>2. UNCHANGED <<Plan, Hash, Agent, IsLifecycle>>
      BY <1>3, <2>2 DEF ListPods, Plan, Hash, Agent, IsLifecycle
    <3>3. TypeOK'
      BY <1>3, <2>2, <1>a, <1>b, <3>1, <3>2 DEF ListPods, TypeInv, TypeOK, otherVars, Steps
    <3>4. Control' /\ Holding'
      BY <1>3, <2>2, <1>b, <3>2 DEF ListPods, TypeInv, Control, Holding
    <3>. QED BY <1>3, <1>b, <3>3, <3>4 DEF TypeInv, ListPods
  <2>. QED BY <2>1, <2>2
<1>4. ASSUME NEW p \in Pods, RecordRemote(p) PROVE TypeInv'
  <2>1. Remote(p) \in Keys /\ listing[p] \in RowStatus
    BY <1>4 DEF Remote, Keys, Pods, RecordRemote, TypeInv, TypeOK, RowStatus
  <2>2. StoreTypeOK' /\ Dated'
    BY <1>4, <2>1, UpsertEffect DEF RecordRemote
  <2>3. UNCHANGED <<Plan, Hash, Agent, IsLifecycle>> /\ todo = {}
    BY <1>4 DEF RecordRemote, Plan, Hash, Agent, IsLifecycle, TypeInv, Control
  <2>4. TypeOK'
    BY <1>4, <1>a, <2>2, <2>3 DEF RecordRemote, TypeInv, TypeOK, otherVars
  <2>5. Control' /\ Holding'
    BY <1>4, <2>3 DEF RecordRemote, TypeInv, Control, Holding
  <2>. QED BY <2>2, <2>4, <2>5 DEF TypeInv
<1>5. CASE Begin
  <2>. DEFINE rows == UNION {RowsNaming(h) : h \in PlanHashes}
  <2>1. rows \subseteq Keys /\ \A k \in rows : HasPod(k)
    BY DEF RowsNaming
  <2>. HIDE DEF rows
  <2>2. StoreTypeOK' /\ UNCHANGED <<ledger, clock>>
    BY <1>5, RecordRunEffect DEF Begin, BeginWith, TypeInv, Control
  <2>3. Dated' /\ \A k \in Keys : HasPod(k)' <=> HasPod(k)
    BY <2>2 DEF Dated, HasPod, TypeInv
  <2>4. UNCHANGED <<Plan, Hash, Agent, IsLifecycle>>
    BY <1>5 DEF Begin, BeginWith, Plan, Hash, Agent, IsLifecycle
  <2>7. \/ IsLifecycle /\ pc' = "lifecycle" /\ todo' = rows
        \/ pc' = "volumes" /\ todo' = {}
    BY <1>5 DEF Begin, BeginWith, rows
  <2>5. TypeOK'
    BY <1>5, <1>a, <2>1, <2>2, <2>4, <2>7
    DEF Begin, BeginWith, TypeInv, TypeOK, otherVars, Steps
  <2>6. Control' /\ Holding'
    BY <1>5, <2>1, <2>3, <2>4, <2>7 DEF Begin, BeginWith, TypeInv, Control, Holding
  <2>. QED BY <2>3, <2>5, <2>6 DEF TypeInv
<1>6. CASE Complete
  <2>1. StoreTypeOK' /\ UNCHANGED <<ledger, clock>>
    BY <1>6, RecordRunEffect DEF Complete, TypeInv, Control
  <2>. QED BY <1>6, <1>a, <2>1, LeavePreserves DEF Complete, otherVars, Dated, TypeInv
<1>7. CASE RecordFailure
  <2>1. StoreTypeOK' /\ UNCHANGED <<ledger, clock>>
    BY <1>7, RecordRunEffect DEF RecordFailure, TypeInv, Control
  <2>2. Dated' /\ \A k \in Keys : HasPod(k)' <=> HasPod(k)
    BY <2>1 DEF Dated, HasPod, TypeInv
  <2>3. CASE Leave
    BY <1>7, <1>a, <2>1, <2>2, <2>3, LeavePreserves DEF RecordFailure, otherVars
  <2>4. CASE ~Leave
    <3>1. UNCHANGED <<Plan, Hash, Agent, IsLifecycle>> /\ pc' = "cleanup" /\ todo' = RowsOfRun(run)
      BY <1>7, <2>4 DEF RecordFailure, Plan, Hash, Agent, IsLifecycle
    <3>2. todo' \subseteq Keys /\ \A k \in todo' : HasPod(k)
      BY <3>1 DEF RowsOfRun
    <3>3. TypeOK'
      BY <1>7, <2>4, <1>a, <2>1, <3>1, <3>2 DEF RecordFailure, TypeInv, TypeOK, otherVars, Steps
    <3>4. Control' /\ Holding'
      BY <1>7, <2>4, <2>2, <3>1, <3>2 DEF RecordFailure, TypeInv, Control, Holding
    <3>. QED BY <2>2, <3>3, <3>4 DEF TypeInv
  <2>. QED BY <2>3, <2>4
<1>8. CASE Crash
  BY <1>8, <1>a, <1>b, LeavePreserves DEF Crash, otherVars
<1>9. CASE Teardown
  <2>1. PICK step \in {"act", "fail"} : Goto(step)
    BY <1>9 DEF Teardown
  <2>2. IsLifecycle /\ todo # {}
    BY <1>9 DEF Teardown, TypeInv, Control
  <2>. QED BY <1>9, <1>a, <1>b, <1>c, <2>1, <2>2, GotoPreserves DEF Teardown, otherVars, Steps
<1>10. CASE Act
  <2>. DEFINE p == ledger[Visited].pod
  <2>1. p \in Pods /\ Visited \in todo /\ Visited \in Keys /\ pc \in {"act", "lifecycle"}
    BY <1>10 DEF Act
  <2>2. req.mode \in LifecycleActions /\ req.mode \in RowStatus
    BY <2>1, PlanFacts DEF TypeInv, Control, RowStatus, IsLifecycle
  <2>3. CASE Goto("fail") /\ CallFails(p, req.mode) /\ UNCHANGED storeVars
    <3>1. ProviderTypeOK'
      BY <2>1, <2>2, <2>3, CallEffect
    <3>. QED BY <1>10, <1>b, <1>c, <2>1, <2>3, <3>1, GotoPreserves DEF Act, otherVars, Steps
  <2>4. CASE Execute(p, req.mode) /\ MarkResourceStatus(Visited, req.mode) /\ ~Goto("fail")
    <3>1. ProviderTypeOK' /\ StoreTypeOK' /\ Dated'
          /\ \A k \in Keys : HasPod(k)' <=> HasPod(k)
      BY <2>1, <2>2, <2>4, CallEffect, MarkEffect DEF HasPod
    <3>2. /\ UNCHANGED <<Plan, Hash, Agent, IsLifecycle>>
          /\ UNCHANGED <<run, req, idx, held, portsSeen, listing>>
          /\ pc' = "lifecycle" /\ todo' = todo \ {Visited}
      BY <1>10, <2>4 DEF Act, Plan, Hash, Agent, IsLifecycle
    <3>. HIDE DEF p
    <3>3. TypeOK'
      BY <1>10, <2>1, <3>1, <3>2 DEF Act, TypeInv, TypeOK, otherVars, Steps
    <3>4. Control' /\ Holding'
      BY <2>1, <3>1, <3>2 DEF TypeInv, TypeOK, Control, Holding
    <3>. QED BY <3>1, <3>3, <3>4 DEF TypeInv
  <2>. QED BY <1>10, <2>3, <2>4 DEF Act, Goto
<1>11. CASE LifecycleDone
  BY <1>11, <1>a, <1>b, LeavePreserves DEF LifecycleDone, otherVars
<1>12. CASE CleanupRow
  <2>. DEFINE p == ledger[Visited].pod
  <2>1. p \in Pods /\ Visited \in Keys /\ pc = "cleanup"
        /\ UNCHANGED <<Plan, Hash, Agent, IsLifecycle>>
    BY <1>12 DEF CleanupRow, CleanupRowWith, Plan, Hash, Agent, IsLifecycle
  <2>2. ProviderTypeOK'
    BY <1>12, <2>1, CallEffect DEF CleanupRow, CleanupRowWith
  <2>3. StoreTypeOK' /\ Dated' /\ \A k \in Keys : HasPod(k)' <=> HasPod(k)
    BY <1>12, <2>1 DEF CleanupRow, CleanupRowWith, StoreTypeOK, Dated, HasPod
  <2>4. todo' = todo \ {Visited}
    BY <1>12 DEF CleanupRow, CleanupRowWith
  <2>. HIDE DEF p
  <2>5. TypeOK'
    BY <1>12, <2>1, <2>2, <2>3, <2>4
    DEF CleanupRow, CleanupRowWith, TypeInv, TypeOK, otherVars
  <2>6. Control' /\ Holding'
    BY <1>12, <2>1, <2>3, <2>4
    DEF CleanupRow, CleanupRowWith, TypeInv, TypeOK, Control, Holding
  <2>. QED BY <2>3, <2>5, <2>6 DEF TypeInv
<1>13. CASE CleanupDone
  BY <1>13, <1>a, <1>b, LeavePreserves DEF CleanupDone, otherVars
<1>14. CASE CreateVolumes
  <2>1. PICK n \in 0..Len(Plan) :
          /\ volumes' = volumes \cup VolumesUpTo(n)
          /\ Goto("record") \/ Goto("fail")
    BY <1>14 DEF CreateVolumes
  <2>2. VolumesUpTo(n) \subseteq Pods
    BY <1>14 DEF CreateVolumes, VolumesUpTo
  <2>3. volumes' \subseteq Pods
    BY <1>c, <2>1, <2>2
  <2>4. PICK step \in {"record", "fail"} : Goto(step)
    BY <2>1
  <2>5. todo = {}
    BY <1>14 DEF CreateVolumes, TypeInv, Control
  <2>. QED BY <1>14, <1>a, <1>b, <1>c, <2>3, <2>4, <2>5, GotoPreserves DEF CreateVolumes, Steps
<1>15. CASE RecordPending
  <2>1. Own(run, Hash) \in Keys /\ todo = {} /\ pc = "record"
    BY <1>15 DEF RecordPending, TypeInv, Control
  <2>2. StoreTypeOK' /\ Dated'
    BY <1>15, <2>1, UpsertEffect DEF RecordPending, RowStatus
  <2>3. UNCHANGED <<Plan, Hash, Agent, IsLifecycle>> /\ UNCHANGED localVars /\ pc' = "lookup"
    BY <1>15 DEF RecordPending, Goto, localVars, Plan, Hash, Agent, IsLifecycle
  <2>4. TypeOK'
    BY <1>15, <1>a, <2>2, <2>3 DEF RecordPending, TypeInv, TypeOK, otherVars, localVars, Steps
  <2>5. Control' /\ Holding'
    BY <2>1, <2>3 DEF TypeInv, Control, Holding, localVars
  <2>. QED BY <2>2, <2>4, <2>5 DEF TypeInv
<1>16. CASE Lookup
  <2>. DEFINE match == IF req.reuse = "always_create" THEN {} ELSE RowsNaming(Hash)
              p == ledger[Newest(match)].pod
  <2>1. match # {} => p \in Pods
    <3>. HAVE match # {}
    <3>1. match \in SUBSET Keys /\ \A k \in match : HasPod(k)
      BY DEF RowsNaming
    <3>2. Newest(match) \in match
      <4>. HIDE DEF match
      <4>. QED BY <3>1, NewestIsAMember DEF TypeInv
    <3>. QED BY <3>1, <3>2 DEF HasPod, StoreTypeOK
  <2>2. pc = "lookup" /\ todo = {} /\ UNCHANGED <<providerVars, storeVars, otherVars>>
    BY <1>16 DEF Lookup, TypeInv, Control
  <2>3. \/ Goto("create") \/ Goto("fail")
        \/ match # {} /\ pc' = "bind" /\ Hold(p, p \in up)
        \/ match # {} /\ pc' = "resume" /\ Hold(p, FALSE)
    BY <1>16 DEF Lookup
  <2>. HIDE DEF match, p
  <2>4. ASSUME NEW step \in {"create", "fail"}, Goto(step) PROVE TypeInv'
    BY <2>2, <2>4, <1>a, <1>b, <1>c, GotoPreserves DEF otherVars, Steps
  <2>5. ASSUME match # {}, pc' \in {"bind", "resume"}, NEW seen \in BOOLEAN, Hold(p, seen)
        PROVE  TypeInv'
    BY <2>1, <2>2, <2>5, <1>a, HoldPreserves
  <2>6. CASE match # {} /\ pc' = "bind" /\ Hold(p, p \in up)
    <3>1. CASE p \in up
      <4>1. (p \in up) = TRUE
        BY <3>1
      <4>2. Hold(p, TRUE)
        BY <2>6, <4>1
      <4>. QED BY <2>5, <2>6, <4>2
    <3>2. CASE p \notin up
      <4>1. (p \in up) = FALSE
        BY <3>2
      <4>2. Hold(p, FALSE)
        BY <2>6, <4>1
      <4>. QED BY <2>5, <2>6, <4>2
    <3>. QED BY <3>1, <3>2
  <2>. QED BY <2>3, <2>4, <2>5, <2>6
<1>17. CASE Resume
  <2>1. PICK step \in {"bind", "fail"} : Goto(step)
    BY <1>17 DEF Resume
  <2>2. held[Hash] \in Pods /\ todo = {} /\ pc = "resume"
    BY <1>17 DEF Resume, TypeInv, Control, Holding
  <2>3. ProviderTypeOK'
    BY <1>17, <2>2, CallEffect DEF Resume, LifecycleActions
  <2>. QED BY <1>17, <1>b, <1>c, <2>1, <2>2, <2>3, GotoPreserves DEF Resume, otherVars, Steps
<1>18. CASE Create
  <2>1. <<run, Hash>> \in Pods /\ pc = "create" /\ todo = {}
    BY <1>18 DEF Create, TypeInv, Control
  <2>2. ProviderTypeOK'
    BY <1>18, <2>1, DeployEffect DEF Create
  <2>3. CASE Goto("fail")
    BY <1>18, <1>b, <1>c, <2>1, <2>2, <2>3, GotoPreserves DEF Create, otherVars, Steps
  <2>4. CASE pc' = "bind" /\ Hold(<<run, Hash>>, FALSE)
    BY <1>18, <2>1, <2>2, <2>4, HoldPreserves DEF Create
  <2>. QED BY <1>18, <2>3, <2>4 DEF Create
<1>19. CASE Bind
  <2>1. /\ Own(run, Hash) \in Keys /\ todo = {} /\ pc = "bind" /\ held[Hash] \in Pods
        /\ UNCHANGED <<providerVars, otherVars>>
    BY <1>19 DEF Bind, BindWith, TypeInv, Control, Holding
  <2>2. StoreTypeOK' /\ Dated'
    BY <1>19, <2>1, UpsertEffect DEF Bind, BindWith, RowStatus, Known
  <2>3. UNCHANGED <<Plan, Hash, Agent, IsLifecycle>> /\ UNCHANGED localVars
    BY <1>19 DEF Bind, BindWith, Goto, localVars, Plan, Hash, Agent, IsLifecycle
  <2>4. \/ pc' = "wait" /\ idx < Len(Plan)
        \/ pc' = "schedule" /\ idx = Len(Plan)
    BY <1>19 DEF Bind, BindWith, AfterBind, Goto
  <2>5. TypeOK'
    BY <1>a, <2>1, <2>2, <2>3, <2>4 DEF TypeInv, TypeOK, otherVars, localVars, Steps
  <2>6. Control'
    BY <2>1, <2>3, <2>4 DEF TypeInv, Control, localVars
  <2>7. Holding'
    BY <2>1, <2>3, <2>4 DEF Holding, Hash, Agent, localVars
  <2>. QED BY <2>2, <2>5, <2>6, <2>7 DEF TypeInv
<1>20. CASE WaitReady
  <2>1. pc = "wait" /\ todo = {} /\ idx < Len(Plan) /\ UNCHANGED <<providerVars, storeVars, otherVars>>
    BY <1>20 DEF WaitReady, TypeInv, Control
  <2>2. CASE Goto("fail")
    BY <2>1, <2>2, <1>a, <1>b, <1>c, GotoPreserves DEF otherVars, Steps
  <2>3. CASE /\ pc' = "record" /\ idx' = idx + 1
             /\ UNCHANGED <<run, req, held, portsSeen, listing, todo>>
    <3>1. UNCHANGED <<Plan, IsLifecycle>> /\ idx' \in 1..Len(Plan)
      BY <2>1, <2>3 DEF Plan, IsLifecycle
    <3>2. TypeOK'
      BY <2>1, <2>3, <3>1, <1>a, <1>b DEF TypeInv, TypeOK, otherVars, Steps
    <3>3. Control' /\ Holding'
      BY <2>1, <2>3, <3>1, <1>b DEF TypeInv, Control, Holding
    <3>. QED BY <2>1, <3>2, <3>3, <1>b DEF TypeInv
  <2>. QED BY <1>20, <2>2, <2>3 DEF WaitReady
<1>21. CASE Schedule
  <2>1. pc = "schedule" /\ todo = {} /\ idx = Len(Plan) /\ held[Agent] \in Pods /\ run \in Runs
    BY <1>21 DEF Schedule, TypeInv, Control, Holding
  <2>2. timers' \subseteq Runs \X Pods
    BY <1>21, <1>c, <2>1 DEF Schedule
  <2>. QED BY <1>21, <1>a, <1>b, <1>c, <2>1, <2>2, GotoPreserves DEF Schedule, Steps
<1>22. CASE RunAgent
  <2>1. PICK step \in {"keepalive", "fail"} : Goto(step)
    BY <1>22 DEF RunAgent
  <2>2. todo = {} /\ idx = Len(Plan) /\ held[Agent] \in Pods
    BY <1>22 DEF RunAgent, TypeInv, Control, Holding
  <2>. QED BY <1>22, <1>a, <1>b, <1>c, <2>1, <2>2, GotoPreserves DEF RunAgent, otherVars, Steps
<1>23. CASE KeepAlive
  <2>1. PICK step \in {"complete", "fail"} : Goto(step)
    BY <1>23 DEF KeepAlive
  <2>2. todo = {} /\ idx = Len(Plan) /\ held[Agent] \in Pods
    BY <1>23 DEF KeepAlive, TypeInv, Control, Holding
  <2>3. ProviderTypeOK'
    BY <1>23, <1>a, <2>2, CallEffect DEF KeepAlive
  <2>. QED BY <1>23, <1>b, <1>c, <2>1, <2>2, <2>3, GotoPreserves DEF KeepAlive, otherVars, Steps
<1>24. ASSUME ProviderTypeOK', timers' \subseteq timers,
              UNCHANGED <<storeVars, pc, localVars, volumes>>
       PROVE  TypeInv'
  <2>1. UNCHANGED <<Plan, Hash, Agent, IsLifecycle>>
    BY <1>24 DEF localVars, Plan, Hash, Agent, IsLifecycle
  <2>2. TypeOK'
    BY <1>24, <1>b, <2>1 DEF localVars, TypeInv, TypeOK
  <2>3. Control' /\ Holding'
    BY <1>24, <1>b, <2>1 DEF localVars, TypeInv, TypeOK, Control, Holding
  <2>. QED BY <1>24, <1>b, <2>2, <2>3 DEF TypeInv
<1>25. ASSUME NEW t \in timers, TimerFires(t) PROVE TypeInv'
  <2>1. t[2] \in Pods
    BY <1>c
  <2>2. ProviderTypeOK'
    BY <1>25, <2>1, CallEffect DEF TimerFires
  <2>. QED BY <1>24, <1>25, <2>2 DEF TimerFires
<1>26. ASSUME NEW p \in Pods, NEW a \in LifecycleActions, OutsideAction(p, a) PROVE TypeInv'
  <2>1. ProviderTypeOK'
    BY <1>26, CallEffect DEF OutsideAction
  <2>. QED BY <1>24, <1>26, <2>1 DEF OutsideAction, otherVars
<1>27. ASSUME NEW p \in Pods, Provider(p) PROVE TypeInv'
  <2>1. ProviderTypeOK'
    BY <1>27 DEF Provider, ServiceUp, Purge, ProviderTypeOK, PodStatus
  <2>. QED BY <1>24, <1>27, <2>1 DEF Provider, otherVars
<1>. QED
  BY <1>1, <1>2, <1>3, <1>4, <1>5, <1>6, <1>7, <1>8, <1>9, <1>10, <1>11, <1>12, <1>13, <1>14,
     <1>15, <1>16, <1>17, <1>18, <1>19, <1>20, <1>21, <1>22, <1>23, <1>25, <1>26, <1>27
  DEF Next, Step

\* Every variable keeps its type: see TypeOK.
THEOREM TypeCorrect == Spec => []TypeOK
<1>1. TypeInv => TypeOK
  BY DEF TypeInv
<1>. QED BY <1>1, InitTyped, NextTyped, PTL DEF Spec

----------------------------------------------------------------------------
(* The ledger and the provider. *)

\* The steps of a run at which resources of its plan are still to come.
Applying == {"list", "reconcile", "volumes", "record", "lookup", "resume",
             "create", "bind", "wait"}

\* What the runner holds, or has just been told of, exists.
HeldIsReal ==
  \A h \in Hashes : held[h] # NoPod => pods[held[h]] # "ABSENT" /\ held[h][2] = h
ListedIsReal ==
  \A p \in Pods : listing[p] # "ABSENT" => pods[p] # "ABSENT"

\* The resource at hand is announced.
Announced ==
  pc \in {"lookup", "resume", "create", "bind"} => Exists(Own(run, Hash))

\* What is still to come has no pod, at the provider or in the ledger.
Untouched ==
  /\ \A r \in Runs, h \in Hashes : r > run =>
       pods[<<r, h>>] = "ABSENT" /\ ~HasPod(Own(r, h))
  /\ pc \in Applying => \A i \in 1..Len(Plan) :
       /\ i > idx \/ (i = idx /\ pc # "wait") => ~HasPod(Own(run, Plan[i]))
       /\ i > idx \/ (i = idx /\ pc \notin {"wait", "bind", "resume"}) =>
            pods[<<run, Plan[i]>>] = "ABSENT"

LedgerInv ==
  WriteAhead /\ LedgerNamesRealPods /\ HeldIsReal /\ ListedIsReal /\ Announced /\ Untouched

Tracked(p) == \E k \in Keys : ledger[k].pod = p

\* What every step does to the pods and the rows but RecordRemote,
\* RecordPending, Create and Bind.
Quiet ==
  /\ \A q \in Pods : /\ pods'[q] = "ABSENT" <=> pods[q] = "ABSENT"
                     /\ pods'[q] \in Known => pods[q] \in Known
  /\ \A k \in Keys : ledger'[k].pod = ledger[k].pod /\ ledger'[k].at = ledger[k].at

LEMMA QuietSteps ==
  ASSUME TypeInv, [Next]_vars,
         ~RecordPending, ~Create, ~Bind, \A p \in Pods : ~RecordRemote(p)
  PROVE  Quiet
<1>. USE TypedFacts
<1>1. UNCHANGED providerVars /\ UNCHANGED ledger => Quiet
  BY DEF Quiet, providerVars
<1>2. ASSUME NEW p \in Pods, NEW a \in LifecycleActions,
             Execute(p, a) \/ CallFails(p, a), UNCHANGED ledger
      PROVE  Quiet
  BY <1>2, CallEffect DEF Quiet
<1>3. CASE UNCHANGED vars
  BY <1>1, <1>3 DEF vars, storeVars
<1>4. CASE Start \/ ListPods \/ Crash \/ Teardown \/ LifecycleDone \/ CleanupDone
           \/ CreateVolumes \/ Lookup \/ WaitReady \/ Schedule \/ RunAgent
  BY <1>1, <1>4 DEF Start, ListPods, Crash, Teardown, LifecycleDone, CleanupDone,
    CreateVolumes, Lookup, WaitReady, Schedule, RunAgent, storeVars
<1>5. CASE Begin \/ Complete \/ RecordFailure
  BY <1>1, <1>5 DEF Begin, BeginWith, Complete, RecordFailure, RecordRun
<1>6. CASE Act
  <2>. DEFINE p == ledger[Visited].pod
  <2>1. p \in Pods /\ Visited \in Keys /\ req.mode \in LifecycleActions /\ req.mode \in RowStatus
    BY <1>6, PlanFacts DEF Act, TypeInv, Control, IsLifecycle, RowStatus
  <2>2. CASE UNCHANGED storeVars /\ CallFails(p, req.mode)
    BY <1>2, <2>1, <2>2 DEF storeVars
  <2>3. CASE Execute(p, req.mode) /\ MarkResourceStatus(Visited, req.mode)
    BY <2>1, <2>3, CallEffect, MarkEffect DEF Quiet
  <2>. QED BY <1>6, <2>2, <2>3 DEF Act
<1>7. CASE CleanupRow
  BY <1>2, <1>7 DEF CleanupRow, CleanupRowWith
<1>8. CASE Resume
  <2>1. held[Hash] \in Pods
    BY <1>8 DEF Resume, TypeInv, Holding
  <2>. QED BY <1>2, <1>8, <2>1 DEF Resume, storeVars, LifecycleActions
<1>9. CASE KeepAlive
  <2>1. held[Agent] \in Pods
    BY <1>9 DEF KeepAlive, TypeInv, Holding
  <2>. QED BY <1>1, <1>2, <1>9, <2>1 DEF KeepAlive, storeVars
<1>10. ASSUME NEW t \in timers, TimerFires(t) PROVE Quiet
  <2>1. t[2] \in Pods
    BY DEF TypeInv, TypeOK
  <2>. QED BY <1>2, <1>10, <2>1 DEF TimerFires, storeVars
<1>11. ASSUME NEW p \in Pods, NEW a \in LifecycleActions, OutsideAction(p, a) PROVE Quiet
  BY <1>2, <1>11 DEF OutsideAction, storeVars
<1>12. ASSUME NEW p \in Pods, Provider(p) PROVE Quiet
  <2>1. UNCHANGED pods \/ (pods[p] = "TERMINATED" /\ pods'[p] = "PURGED")
    BY <1>12 DEF Provider, ServiceUp, Purge, ProviderTypeOK
  <2>2. \A q \in Pods \ {p} : pods'[q] = pods[q]
    BY <1>12 DEF Provider, ServiceUp, Purge, ProviderTypeOK
  <2>. QED BY <1>12, <2>1, <2>2 DEF Provider, storeVars, Quiet, Known
<1>. QED
  BY <1>3, <1>4, <1>5, <1>6, <1>7, <1>8, <1>9, <1>10, <1>11, <1>12 DEF Next, Step

LEMMA KeyFacts ==
  /\ \A r \in Runs, h \in Hashes : Own(r, h) \in Keys /\ <<r, h>> \in Pods
                                   /\ HashOf(Own(r, h)) = h /\ Own(r, h)[1] = "own"
  /\ \A p \in Pods : /\ p[1] \in Runs /\ p[2] \in Hashes /\ p = <<p[1], p[2]>>
                     /\ Remote(p) \in Keys /\ HashOf(Remote(p)) = p[2] /\ Remote(p)[1] = "remote"
                     /\ Own(p[1], p[2]) \in Keys
  /\ \A r1, r2 \in Runs, h1, h2 \in Hashes :
       Own(r1, h1) = Own(r2, h2) => r1 = r2 /\ h1 = h2
  /\ \A p, q \in Pods : Remote(p) = Remote(q) => p = q
  /\ \A r \in Runs, h \in Hashes, p \in Pods : Own(r, h) # Remote(p)
  /\ \A r \in Runs, h \in Hashes : NoPod # <<r, h>>
BY NoPodAssumption DEF Own, Remote, Keys, Pods, HashOf

LEMMA PlanIsInjective ==
  ASSUME req \in Requests, NEW i \in 1..Len(Plan), NEW j \in 1..Len(Plan), Plan[i] = Plan[j]
  PROVE  i = j
BY RequestsAssumption DEF Plan

\* Quiet keeps what relates rows and pods only.
LEMMA QuietLedger ==
  ASSUME TypeInv, LedgerInv, Quiet
  PROVE  /\ WriteAhead' /\ LedgerNamesRealPods'
         /\ \A k \in Keys : (HasPod(k)' <=> HasPod(k)) /\ (Exists(k)' <=> Exists(k))
         /\ \A p \in Pods : Tracked(p)' <=> Tracked(p)
<1>1. \A k \in Keys : /\ ledger'[k].pod = ledger[k].pod
                      /\ (HasPod(k)' <=> HasPod(k)) /\ (Exists(k)' <=> Exists(k))
  BY DEF Quiet, HasPod, Exists
<1>2. WriteAhead'
  BY <1>1, KeyFacts DEF Quiet, LedgerInv, WriteAhead
<1>3. LedgerNamesRealPods'
  <2>. SUFFICES ASSUME NEW k \in Keys, HasPod(k)'
                PROVE  /\ pods'[ledger'[k].pod] # "ABSENT"
                       /\ ledger'[k].pod[2] = HashOf(k)
                       /\ k[1] = "remote" => k = Remote(ledger'[k].pod)
    BY DEF LedgerNamesRealPods
  <2>1. HasPod(k) /\ ledger[k].pod \in Pods
    BY <1>1 DEF TypeInv, TypeOK, StoreTypeOK, HasPod
  <2>. QED BY <1>1, <2>1 DEF LedgerInv, LedgerNamesRealPods, Quiet
<1>. QED BY <1>1, <1>2, <1>3 DEF Tracked

\* Quiet steps that leave _apply, or do not move the runner.
LEMMA QuietPreserves ==
  ASSUME TypeInv, LedgerInv, Quiet, UNCHANGED run,
         held' \in {held, NothingHeld}, listing' \in {listing, NothingListed},
         \/ pc' \notin Applying
         \/ pc' = pc /\ UNCHANGED <<req, idx>>
  PROVE  LedgerInv'
<1>1. HeldIsReal'
  BY DEF HeldIsReal, LedgerInv, Quiet, NothingHeld, TypeInv, TypeOK
<1>2. ListedIsReal'
  BY DEF ListedIsReal, LedgerInv, Quiet, NothingListed
<1>3. pc' \in Applying => UNCHANGED <<Plan, Hash>>
  BY DEF Plan, Hash
<1>4. pc' \in Applying => run \in Runs /\ Hash \in Hashes /\ \A i \in 1..Len(Plan) : Plan[i] \in Hashes
  BY TypedFacts DEF TypeInv, Control, Applying
<1>5. Announced'
  BY <1>3, <1>4, QuietLedger, KeyFacts DEF Announced, LedgerInv, Applying
<1>6. Untouched'
  BY <1>3, <1>4, QuietLedger, KeyFacts DEF Untouched, LedgerInv, Quiet
<1>. QED BY <1>1, <1>2, <1>5, <1>6, QuietLedger DEF LedgerInv

LEMMA InitLedger == Init => LedgerInv
<1>. SUFFICES ASSUME Init PROVE LedgerInv
  OBVIOUS
<1>1. WriteAhead /\ LedgerNamesRealPods /\ HeldIsReal /\ ListedIsReal /\ Announced
  BY DEF Init, ProviderInit, StoreInit, WriteAhead, LedgerNamesRealPods, HasPod,
    HeldIsReal, NothingHeld, ListedIsReal, NothingListed, Announced
<1>2. Untouched
  BY KeyFacts DEF Init, ProviderInit, StoreInit, Untouched, HasPod, Applying
<1>. QED BY <1>1, <1>2 DEF LedgerInv

LEMMA NextLedger == TypeInv /\ LedgerInv /\ [Next]_vars => LedgerInv'
<1>. SUFFICES ASSUME TypeInv, LedgerInv, [Next]_vars PROVE LedgerInv'
  OBVIOUS
<1>. USE TypedFacts, KeyFacts
<1>1. ASSUME UNCHANGED <<pc, run, req, idx, held, listing>>, Quiet PROVE LedgerInv'
  BY <1>1, QuietPreserves
<1>2. ASSUME Leave, Quiet PROVE LedgerInv'
  BY <1>2, QuietPreserves DEF Leave, Applying
<1>3. ASSUME NEW step \in Steps \ Applying, Goto(step), Quiet PROVE LedgerInv'
  BY <1>3, QuietPreserves DEF Goto, localVars
<1>4. CASE Start
  <2>1. Quiet
    BY <1>4, QuietSteps DEF Start, RecordPending, Create, Bind, BindWith, RecordRemote
  <2>2. run' = run + 1 /\ run' \in Runs /\ pc' = "list" /\ UNCHANGED <<held, listing>>
    BY <1>4, MaxRunsAssumption DEF Start, TypeInv, TypeOK, Runs
  <2>3. req' \in Requests /\ \A i \in 1..Len(Plan') : Plan'[i] \in Hashes
    BY <1>4, PlanFacts DEF Start, Plan
  <2>4. HeldIsReal' /\ ListedIsReal' /\ Announced'
    BY <2>1, <2>2, SMTT(30) DEF HeldIsReal, ListedIsReal, Announced, LedgerInv, Quiet, TypeInv, TypeOK
  <2>5. \A r \in Runs, h \in Hashes : r > run =>
          pods'[<<r, h>>] = "ABSENT" /\ ~HasPod(Own(r, h))'
    BY <2>1, QuietLedger DEF LedgerInv, Untouched, Quiet
  <2>6. run' > run /\ \A r \in Runs : r > run' => r > run
    BY <2>2 DEF TypeInv, TypeOK, Runs
  <2>7. Untouched'
    BY <2>2, <2>3, <2>5, <2>6 DEF Untouched
  <2>. QED BY <2>1, <2>4, <2>7, QuietLedger DEF LedgerInv
<1>5. CASE ListPods
  <2>1. Quiet
    BY <1>5, QuietSteps DEF ListPods, RecordPending, Create, Bind, BindWith, RecordRemote
  <2>2. CASE Leave
    BY <1>2, <2>1, <2>2
  <2>3. CASE ~Leave
    <3>1. /\ pc = "list" /\ pc' = "reconcile" /\ UNCHANGED <<run, req, idx, held, pods>>
          /\ listing' = [p \in Pods |-> IF pods[p] \in Known THEN pods[p] ELSE "ABSENT"]
      BY <1>5, <2>3 DEF ListPods, providerVars
    <3>2. UNCHANGED <<Plan, Hash>>
      BY <3>1 DEF Plan, Hash
    <3>3. HeldIsReal' /\ ListedIsReal' /\ Announced'
      BY <3>1 DEF HeldIsReal, ListedIsReal, Announced, LedgerInv
    <3>4. Untouched'
      BY <2>1, <3>1, <3>2, QuietLedger DEF Untouched, LedgerInv, Applying, TypeInv, Control
    <3>. QED BY <2>1, <3>3, <3>4, QuietLedger DEF LedgerInv
  <2>. QED BY <2>2, <2>3
<1>6. CASE UNCHANGED vars
  <2>1. Quiet
    BY <1>6 DEF vars, storeVars, providerVars, Quiet
  <2>. QED BY <1>1, <1>6, <2>1 DEF vars, localVars
<1>7. CASE Crash \/ LifecycleDone \/ CleanupDone \/ Complete
  <2>1. Leave
    BY <1>7 DEF Crash, LifecycleDone, CleanupDone, Complete
  <2>2. ~RecordPending /\ ~Create /\ ~Bind /\ \A p \in Pods : ~RecordRemote(p)
    BY <2>1 DEF Leave, RecordPending, Create, Bind, BindWith, AfterBind, Goto, Hold, RecordRemote, DeployFails
  <2>. QED BY <1>2, <2>1, <2>2, QuietSteps
<1>8. CASE Teardown \/ Act \/ CleanupRow \/ RecordFailure \/ Schedule \/ RunAgent \/ KeepAlive
  <2>1. pc \notin Applying
    BY <1>8 DEF Teardown, Act, CleanupRow, CleanupRowWith, RecordFailure, Schedule,
      RunAgent, KeepAlive, Applying
  <2>2. Quiet
    BY <2>1, QuietSteps DEF RecordPending, Create, Bind, BindWith, RecordRemote, Applying
  <2>3. pc' \notin Applying /\ UNCHANGED run
        /\ held' \in {held, NothingHeld} /\ listing' \in {listing, NothingListed}
    BY <1>8 DEF Teardown, Act, CleanupRow, CleanupRowWith, RecordFailure, Schedule,
      RunAgent, KeepAlive, Goto, Leave, localVars, Applying
  <2>. QED BY <2>2, <2>3, QuietPreserves
<1>9. ASSUME pc' \in Applying, pc \in Applying, Quiet, UNCHANGED <<run, req>>, held' = held,
             listing' = listing,
             \/ idx' = idx /\ pc # "wait" /\ pc' # "wait" /\ (pc \in {"bind", "resume"} => pc' \in {"bind", "resume"})
             \/ idx' = idx + 1 /\ pc = "wait",
             pc' \in {"lookup", "resume", "create", "bind"} =>
               pc \in {"lookup", "resume", "create", "bind"} /\ idx' = idx
      PROVE  LedgerInv'
  <2>1. UNCHANGED Plan /\ run \in Runs /\ \A j \in 1..Len(Plan) : Plan[j] \in Hashes
    BY <1>9 DEF Plan, TypeInv, Control, Applying
  <2>2. HeldIsReal' /\ ListedIsReal'
    BY <1>9 DEF HeldIsReal, ListedIsReal, LedgerInv, Quiet, TypeInv, TypeOK
  <2>3. Announced'
    BY <1>9, <2>1, QuietLedger DEF Announced, LedgerInv, Hash
  <2>4. Untouched'
    BY <1>9, <2>1, QuietLedger DEF Untouched, LedgerInv, Quiet
  <2>. QED BY <2>2, <2>3, <2>4, QuietLedger, <1>9 DEF LedgerInv
<1>10. CASE Begin
  <2>1. Quiet /\ UNCHANGED <<run, req, idx, held, listing>> /\ pc = "reconcile"
        /\ (pc' = "lifecycle" \/ pc' = "volumes")
    BY <1>10, QuietSteps DEF Begin, BeginWith, RecordPending, Create, Bind, BindWith, RecordRemote, NothingListed
  <2>. QED BY <2>1, <1>9, QuietPreserves DEF Applying
<1>11. CASE CreateVolumes
  <2>1. Quiet /\ pc = "volumes"
    BY <1>11, QuietSteps DEF CreateVolumes, RecordPending, Create, Bind, BindWith, RecordRemote
  <2>2. PICK step \in {"record", "fail"} : Goto(step)
    BY <1>11 DEF CreateVolumes
  <2>. QED BY <2>1, <2>2, <1>3, <1>9 DEF Applying, Steps, Goto, localVars
<1>12. CASE Resume
  <2>1. Quiet /\ pc = "resume"
    BY <1>12, QuietSteps DEF Resume, RecordPending, Create, Bind, BindWith, RecordRemote
  <2>2. PICK step \in {"bind", "fail"} : Goto(step)
    BY <1>12 DEF Resume
  <2>. QED BY <2>1, <2>2, <1>3, <1>9 DEF Applying, Steps, Goto, localVars
<1>13. CASE WaitReady
  <2>1. Quiet /\ pc = "wait"
    BY <1>13, QuietSteps DEF WaitReady, RecordPending, Create, Bind, BindWith, RecordRemote
  <2>2. CASE Goto("fail")
    BY <2>1, <2>2, <1>3 DEF Applying, Steps
  <2>3. CASE ~Goto("fail")
    BY <1>13, <2>1, <2>3, <1>9 DEF WaitReady, Applying
  <2>. QED BY <2>2, <2>3
<1>14. ASSUME NEW t \in timers, TimerFires(t) PROVE LedgerInv'
  <2>1. UNCHANGED <<pc, run, req, idx, held, listing>>
    BY <1>14 DEF TimerFires, localVars
  <2>2. Quiet
    <3>1. t[2] \in Pods /\ UNCHANGED ledger
      BY <1>14 DEF TimerFires, storeVars, TypeInv, TypeOK
    <3>. QED BY <1>14, <3>1, CallEffect DEF TimerFires, Quiet
  <2>. QED BY <1>1, <2>1, <2>2
<1>15. ASSUME NEW p \in Pods, NEW a \in LifecycleActions, OutsideAction(p, a) PROVE LedgerInv'
  <2>1. UNCHANGED <<pc, run, req, idx, held, listing>>
    BY <1>15 DEF OutsideAction, localVars
  <2>2. Quiet
    BY <1>15, CallEffect DEF OutsideAction, storeVars, Quiet
  <2>. QED BY <1>1, <2>1, <2>2
<1>16. ASSUME NEW p \in Pods, Provider(p) PROVE LedgerInv'
  <2>1. UNCHANGED <<pc, run, req, idx, held, listing>>
    BY <1>16 DEF Provider, localVars
  <2>2. \A q \in Pods \ {p} : pods'[q] = pods[q]
    BY <1>16 DEF Provider, ServiceUp, Purge, ProviderTypeOK
  <2>3. UNCHANGED pods \/ (pods[p] = "TERMINATED" /\ pods'[p] = "PURGED")
    BY <1>16 DEF Provider, ServiceUp, Purge, ProviderTypeOK
  <2>4. Quiet
    BY <1>16, <2>2, <2>3 DEF Provider, storeVars, Quiet, Known
  <2>. QED BY <1>1, <2>1, <2>4
<1>17. ASSUME NEW p \in Pods, RecordRemote(p) PROVE LedgerInv'
  <2>. DEFINE k == Remote(p)
  <2>1. /\ k \in Keys /\ listing[p] # "ABSENT" /\ listing[p] \in RowStatus /\ pc = "reconcile" /\ pc' = pc
        /\ UNCHANGED <<run, req, idx, held, pods>>
        /\ listing' = [listing EXCEPT ![p] = "ABSENT"]
    BY <1>17 DEF RecordRemote, providerVars, TypeInv, TypeOK, RowStatus
  <2>2. /\ ledger'[k].pod = p /\ Exists(k)'
        /\ \A j \in Keys \ {k} : ledger'[j] = ledger[j]
    BY <1>17, <2>1, UpsertEffect DEF RecordRemote
  <2>3. \A j \in Keys \ {k} : (HasPod(j)' <=> HasPod(j)) /\ (Exists(j)' <=> Exists(j))
    BY <2>2 DEF HasPod, Exists
  <2>4. \A r \in Runs, h \in Hashes : Own(r, h) \in Keys \ {k}
    <3>1. \A r \in Runs, h \in Hashes : Own(r, h) \in Keys
      BY DEF Keys, Own
    <3>2. \A r, h : Own(r, h) # k
      BY DEF Own, Remote
    <3>. QED BY <3>1, <3>2
  <2>5. UNCHANGED Plan /\ run \in Runs /\ \A j \in 1..Len(Plan) : Plan[j] \in Hashes
    BY <2>1 DEF Plan, TypeInv, Control
  <2>6. WriteAhead' /\ HeldIsReal' /\ ListedIsReal' /\ Announced'
    BY <2>1, <2>3, <2>4 DEF LedgerInv, WriteAhead, HeldIsReal, ListedIsReal, Announced, TypeInv, TypeOK
  <2>7. LedgerNamesRealPods'
    BY <2>1, <2>2, <2>3 DEF LedgerInv, LedgerNamesRealPods, ListedIsReal
  <2>8. Untouched'
    BY <2>1, <2>3, <2>4, <2>5 DEF LedgerInv, Untouched
  <2>. QED BY <2>6, <2>7, <2>8 DEF LedgerInv
<1>18. CASE RecordPending
  <2>0. PICK k \in Keys : k = Own(run, Hash)
    BY <1>18 DEF RecordPending
  <2>1. /\ run \in Runs /\ pc = "record" /\ pc' = "lookup"
        /\ UNCHANGED <<run, req, idx, held, listing, pods>>
    BY <1>18 DEF RecordPending, Goto, localVars, providerVars, TypeInv, Control
  <2>a. Upsert(k, NoPod, "creating") /\ "creating" \in RowStatus
    BY <1>18, <2>0 DEF RecordPending, RowStatus
  <2>2. /\ ledger'[k].pod = NoPod /\ Exists(k)'
        /\ \A j \in Keys \ {k} : ledger'[j] = ledger[j]
    BY <2>a, UpsertEffect
  <2>3. \A j \in Keys : (HasPod(j)' => HasPod(j)) /\ (Exists(j) => Exists(j)')
    BY <2>2 DEF HasPod, Exists
  <2>4. UNCHANGED <<Plan, Hash>> /\ \A j \in 1..Len(Plan) : Plan[j] \in Hashes
    BY <2>1 DEF Plan, Hash
  <2>5. WriteAhead' /\ HeldIsReal' /\ ListedIsReal'
    BY <2>1, <2>3 DEF LedgerInv, WriteAhead, HeldIsReal, ListedIsReal
  <2>6. Announced'
    BY <2>0, <2>1, <2>2, <2>4 DEF Announced
  <2>7. LedgerNamesRealPods'
    BY <2>1, <2>2, <2>3 DEF LedgerInv, LedgerNamesRealPods, HasPod
  <2>8. Untouched'
    BY <2>1, <2>3, <2>4 DEF LedgerInv, Untouched, Applying
  <2>. QED BY <2>5, <2>6, <2>7, <2>8 DEF LedgerInv
<1>19. CASE Lookup
  <2>. DEFINE match == IF req.reuse = "always_create" THEN {} ELSE RowsNaming(Hash)
              p == ledger[Newest(match)].pod
  <2>1. Quiet /\ pc = "lookup" /\ UNCHANGED <<pods, ledger>>
    BY <1>19, QuietSteps
    DEF Lookup, RecordPending, Create, Bind, BindWith, RecordRemote, providerVars, storeVars
  <2>2. match # {} => p \in Pods /\ pods[p] # "ABSENT" /\ p[2] = Hash
    <3>. HAVE match # {}
    <3>1. match \in SUBSET Keys /\ \A k \in match : HasPod(k) /\ HashOf(k) = Hash
      BY DEF RowsNaming
    <3>2. Newest(match) \in match
      <4>. HIDE DEF match
      <4>. QED BY <3>1, NewestIsAMember DEF TypeInv
    <3>. QED BY <3>1, <3>2 DEF HasPod, StoreTypeOK, LedgerInv, LedgerNamesRealPods
  <2>3. \/ Goto("create") \/ Goto("fail")
        \/ match # {} /\ pc' = "bind" /\ Hold(p, p \in up)
        \/ match # {} /\ pc' = "resume" /\ Hold(p, FALSE)
    BY <1>19 DEF Lookup
  <2>. HIDE DEF match, p
  <2>4. CASE Goto("create") \/ Goto("fail")
    BY <2>1, <2>4, <1>3, <1>9 DEF Applying, Steps, Goto, localVars
  <2>5. CASE ~Goto("create") /\ ~Goto("fail")
    <3>1. /\ p \in Pods /\ pods[p] # "ABSENT" /\ p[2] = Hash
          /\ pc' \in {"bind", "resume"} /\ held' = [held EXCEPT ![Hash] = p]
          /\ UNCHANGED <<run, req, idx, listing>>
      BY <2>2, <2>3, <2>5 DEF Hold
    <3>2. UNCHANGED <<Plan, Hash>> /\ run \in Runs /\ \A j \in 1..Len(Plan) : Plan[j] \in Hashes
      BY <2>1, <3>1 DEF Plan, Hash, TypeInv, Control
    <3>3. HeldIsReal' /\ ListedIsReal'
      BY <2>1, <3>1 DEF HeldIsReal, ListedIsReal, LedgerInv, TypeInv, TypeOK
    <3>4. Announced'
      BY <2>1, <3>1, <3>2, QuietLedger DEF Announced, LedgerInv
    <3>5. Untouched'
      BY <2>1, <3>1, <3>2, QuietLedger DEF Untouched, LedgerInv, Applying
    <3>. QED BY <2>1, <3>3, <3>4, <3>5, QuietLedger DEF LedgerInv
  <2>. QED BY <2>4, <2>5
<1>20. CASE Create
  <2>. DEFINE p == <<run, Hash>>
  <2>1. p \in Pods /\ run \in Runs /\ pc = "create" /\ UNCHANGED <<run, req, idx, listing, ledger>>
        /\ \/ pc' = "fail" /\ UNCHANGED held
           \/ pc' = "bind" /\ held' = [held EXCEPT ![Hash] = p] /\ pods'[p] = "RUNNING"
    BY <1>20 DEF Create, Deploy, Goto, Hold, localVars, storeVars, TypeInv, Control, ProviderTypeOK
  <2>2. /\ \A q \in Pods \ {p} : pods'[q] = pods[q]
        /\ pods[p] # "ABSENT" => pods'[p] # "ABSENT"
    BY <1>20, <2>1, DeployEffect DEF Create
  <2>3. UNCHANGED <<Plan, Hash>> /\ \A j \in 1..Len(Plan) : Plan[j] \in Hashes
    BY <2>1 DEF Plan, Hash
  <2>4. \A k \in Keys : (HasPod(k)' <=> HasPod(k)) /\ (Exists(k)' <=> Exists(k)) /\ ledger'[k] = ledger[k]
    BY <2>1 DEF HasPod, Exists
  <2>5. \A q \in Pods : pods[q] # "ABSENT" => pods'[q] # "ABSENT"
    BY <2>2
  <2>6. WriteAhead'
    BY <2>1, <2>2, <2>4 DEF LedgerInv, WriteAhead, Announced
  <2>7. LedgerNamesRealPods'
    <3>1. \A k \in Keys : HasPod(k) => ledger[k].pod \in Pods
      BY DEF HasPod, StoreTypeOK
    <3>. QED BY <2>4, <2>5, <3>1 DEF LedgerInv, LedgerNamesRealPods
  <2>8. HeldIsReal'
    <3>1. \A h \in Hashes : held[h] \in Pods \cup {NoPod}
      BY DEF TypeInv, TypeOK
    <3>2. \A h \in Hashes : held'[h] = held[h] \/ (h = Hash /\ held'[h] = p /\ pods'[p] = "RUNNING")
      BY <2>1 DEF TypeInv, TypeOK
    <3>3. p[2] = Hash
      OBVIOUS
    <3>. HIDE DEF p
    <3>. QED BY <2>5, <3>1, <3>2, <3>3 DEF LedgerInv, HeldIsReal
  <2>11. ListedIsReal'
    BY <2>1, <2>5 DEF LedgerInv, ListedIsReal
  <2>9. Announced'
    BY <2>1, <2>3, <2>4 DEF LedgerInv, Announced
  <2>10. Untouched'
    <3>1. \A i \in 1..Len(Plan) : i # idx => Plan[i] # Hash
      BY PlanIsInjective DEF Hash
    <3>2. \A r \in Runs, h \in Hashes : r # run \/ h # Hash => pods'[<<r, h>>] = pods[<<r, h>>]
      BY <2>2
    <3>3. idx \in Nat /\ \A r \in Runs : r > run => r # run
      BY <2>1 DEF Runs
    <3>. QED BY <2>1, <2>3, <2>4, <3>1, <3>2, <3>3 DEF LedgerInv, Untouched, Applying
  <2>. QED BY <2>6, <2>7, <2>8, <2>9, <2>10, <2>11 DEF LedgerInv
<1>21. CASE Bind
  <2>0. PICK k \in Keys, p \in Pods : k = Own(run, Hash) /\ p = held[Hash]
    BY <1>21 DEF Bind, BindWith, TypeInv, Holding
  <2>1. /\ run \in Runs /\ pods[p] # "ABSENT" /\ p[2] = Hash
        /\ pc = "bind" /\ pc' \in {"wait", "schedule"}
        /\ UNCHANGED <<run, req, idx, held, listing, pods>>
    BY <1>21, <2>0, NoPodAssumption
    DEF Bind, BindWith, AfterBind, Goto, localVars, providerVars, TypeInv, Control, Holding,
        LedgerInv, HeldIsReal
  <2>a. Upsert(k, p, "RUNNING") /\ "RUNNING" \in RowStatus
    BY <1>21, <2>0 DEF Bind, BindWith, RowStatus, Known
  <2>b. HashOf(k) = Hash /\ k[1] = "own"
    BY <2>0, <2>1
  <2>c. \A r \in Runs, h \in Hashes : r # run \/ h # Hash => Own(r, h) \in Keys \ {k}
    <3>. TAKE r \in Runs, h \in Hashes
    <3>1. Own(r, h) = Own(run, Hash) => r = run /\ h = Hash
      BY <2>1
    <3>. QED BY <2>0, <3>1
  <2>2. /\ ledger'[k].pod = p /\ Exists(k)'
        /\ \A j \in Keys \ {k} : ledger'[j] = ledger[j]
    BY <2>a, UpsertEffect
  <2>3. \A j \in Keys \ {k} : (HasPod(j)' <=> HasPod(j)) /\ (Exists(j)' <=> Exists(j))
    BY <2>2 DEF HasPod, Exists
  <2>4. UNCHANGED <<Plan, Hash>> /\ \A j \in 1..Len(Plan) : Plan[j] \in Hashes
    BY <2>1 DEF Plan, Hash
  <2>5. WriteAhead'
    BY <2>1, <2>2, <2>3 DEF LedgerInv, WriteAhead
  <2>8. HeldIsReal' /\ ListedIsReal' /\ Announced'
    BY <2>1 DEF LedgerInv, HeldIsReal, ListedIsReal, Announced
  <2>6. LedgerNamesRealPods'
    <3>. SUFFICES ASSUME NEW j \in Keys, HasPod(j)'
                  PROVE  /\ pods'[ledger'[j].pod] # "ABSENT"
                         /\ ledger'[j].pod[2] = HashOf(j)
                         /\ j[1] = "remote" => j = Remote(ledger'[j].pod)
      BY DEF LedgerNamesRealPods
    <3>1. CASE j = k
      BY <2>1, <2>2, <2>b, <3>1
    <3>2. CASE j # k
      BY <2>1, <2>2, <2>3, <3>2 DEF LedgerInv, LedgerNamesRealPods
    <3>. QED BY <3>1, <3>2
  <2>7. Untouched'
    <3>1. \A i \in 1..Len(Plan) : i # idx => Plan[i] # Hash
      BY PlanIsInjective DEF Hash
    <3>2. \A r \in Runs, h \in Hashes : r # run \/ h # Hash => (HasPod(Own(r, h))' <=> HasPod(Own(r, h)))
      BY <2>3, <2>c
    <3>3. idx \in Nat /\ \A r \in Runs : r > run => r # run
      BY <2>1 DEF Runs
    <3>. QED BY <2>1, <2>4, <3>1, <3>2, <3>3 DEF LedgerInv, Untouched, Applying
  <2>. QED BY <2>5, <2>6, <2>7, <2>8 DEF LedgerInv
<1>. QED
  BY <1>4, <1>5, <1>6, <1>7, <1>8, <1>10, <1>11, <1>12, <1>13, <1>14, <1>15, <1>16,
     <1>17, <1>18, <1>19, <1>20, <1>21 DEF Next, Step

\* The ledger is written ahead of the provider: see WriteAhead.
THEOREM LedgerIsWrittenAhead == Spec => []WriteAhead
<1>1. TypeInv /\ LedgerInv => WriteAhead
  BY DEF LedgerInv
<1>. QED BY <1>1, InitTyped, NextTyped, InitLedger, NextLedger, PTL DEF Spec

\* Rows only name pods that the provider gave out: see LedgerNamesRealPods.
THEOREM LedgerIsTruthful == Spec => []LedgerNamesRealPods
<1>1. TypeInv /\ LedgerInv => LedgerNamesRealPods
  BY DEF LedgerInv
<1>. QED BY <1>1, InitTyped, NextTyped, InitLedger, NextLedger, PTL DEF Spec

----------------------------------------------------------------------------
(* What is tracked stays tracked. *)

LEMMA LoudSteps ==
  ASSUME TypeInv, [Next]_vars
  PROVE  \/ Quiet \/ RecordPending \/ Create \/ Bind
         \/ \E p \in Pods : RecordRemote(p)
BY QuietSteps

\* The row that RecordPending and Bind write has no pod yet.
LEMMA OwnRowIsFree ==
  ASSUME TypeInv, LedgerInv, pc \in {"record", "bind"}
  PROVE  ~HasPod(Own(run, Hash))
BY TypedFacts DEF LedgerInv, Untouched, Applying, Hash

LEMMA RowsKeepTheirPods ==
  ASSUME TypeInv, LedgerInv, [Next]_vars, NEW k \in Keys, HasPod(k)
  PROVE  ledger'[k].pod = ledger[k].pod
<1>. USE TypedFacts, KeyFacts
<1>1. CASE Quiet
  BY <1>1 DEF Quiet
<1>2. CASE Create
  BY <1>2 DEF Create, storeVars
<1>3. CASE RecordPending
  <2>1. PICK o \in Keys : o = Own(run, Hash)
    BY <1>3 DEF RecordPending
  <2>2. k # o
    BY <1>3, <2>1, OwnRowIsFree DEF RecordPending
  <2>3. Upsert(o, NoPod, "creating") /\ "creating" \in RowStatus
    BY <1>3, <2>1 DEF RecordPending, RowStatus
  <2>. QED BY <2>2, <2>3, UpsertEffect
<1>4. CASE Bind
  <2>1. PICK o \in Keys, p \in Pods : o = Own(run, Hash) /\ p = held[Hash]
    BY <1>4 DEF Bind, BindWith, TypeInv, Holding
  <2>2. k # o
    BY <1>4, <2>1, OwnRowIsFree DEF Bind, BindWith
  <2>3. Upsert(o, p, "RUNNING") /\ "RUNNING" \in RowStatus
    BY <1>4, <2>1 DEF Bind, BindWith, RowStatus, Known
  <2>. QED BY <2>2, <2>3, UpsertEffect
<1>5. ASSUME NEW p \in Pods, RecordRemote(p) PROVE ledger'[k].pod = ledger[k].pod
  <2>1. Upsert(Remote(p), p, listing[p]) /\ listing[p] \in RowStatus
    BY <1>5 DEF RecordRemote, TypeInv, TypeOK, RowStatus
  <2>2. ledger'[Remote(p)].pod = p /\ \A j \in Keys \ {Remote(p)} : ledger'[j] = ledger[j]
    BY <2>1, UpsertEffect
  <2>3. k = Remote(p) => ledger[k].pod = p
    <3>. HAVE k = Remote(p)
    <3>1. ledger[k].pod \in Pods
      BY DEF StoreTypeOK, HasPod
    <3>2. k[1] = "remote"
      OBVIOUS
    <3>3. k = Remote(ledger[k].pod)
      BY <3>2 DEF LedgerInv, LedgerNamesRealPods
    <3>. QED BY <3>1, <3>3
  <2>. QED BY <2>2, <2>3
<1>. QED BY <1>1, <1>2, <1>3, <1>4, <1>5, LoudSteps

LEMMA TrackedStays ==
  ASSUME TypeInv, LedgerInv, [Next]_vars, NEW p \in Pods, Tracked(p)
  PROVE  Tracked(p)'
<1>1. PICK k \in Keys : ledger[k].pod = p
  BY DEF Tracked
<1>2. HasPod(k)
  BY <1>1, NoPodAssumption DEF HasPod
<1>. QED BY <1>1, <1>2, RowsKeepTheirPods DEF Tracked

----------------------------------------------------------------------------
(* Reconciliation adopts every live pod of an earlier run. *)

\* During reconciliation what is not adopted yet is still listed.
Adopting ==
  pc = "reconcile" =>
    \A p \in Pods : pods[p] \in Known /\ p[1] # run => Tracked(p) \/ listing[p] # "ABSENT"

AdoptInv == OrphansAdopted /\ Adopting

\* No pod comes into being but the one that the run creates.
LEMMA LivePodsAreOld ==
  ASSUME TypeInv, [Next]_vars, NEW p \in Pods, pods'[p] \in Known
  PROVE  pods[p] \in Known \/ p[1] = run
<1>1. CASE Quiet
  BY <1>1 DEF Quiet
<1>2. CASE RecordPending \/ Bind \/ \E q \in Pods : RecordRemote(q)
  BY <1>2 DEF RecordPending, Bind, BindWith, RecordRemote, providerVars
<1>3. CASE Create
  <2>1. PICK q \in Pods : q = <<run, Hash>>
    BY <1>3, TypedFacts DEF Create
  <2>2. Deploy(q) \/ DeployFails(q)
    BY <1>3, <2>1 DEF Create
  <2>3. p # q => pods'[p] = pods[p]
    BY <2>2, DeployEffect, TypedFacts
  <2>4. q[1] = run
    BY <2>1
  <2>. QED BY <2>3, <2>4
<1>. QED BY <1>1, <1>2, <1>3, LoudSteps

LEMMA RunnerMoves ==
  ASSUME TypeInv, [Next]_vars, pc' \notin {"idle", "list"}
  PROVE  /\ run' = run
         /\ pc' = "reconcile" => \/ ListPods
                                 \/ \E p \in Pods : RecordRemote(p)
                                 \/ pc = "reconcile" /\ UNCHANGED listing
         /\ pc' # "reconcile" => \/ Begin
                                 \/ pc \notin {"idle", "list", "reconcile"}
<1>1. CASE UNCHANGED <<pc, localVars>>
  BY <1>1 DEF localVars
<1>2. CASE Start \/ ListPods \/ (\E p \in Pods : RecordRemote(p)) \/ Begin
  BY <1>2 DEF Start, ListPods, RecordRemote, Begin, BeginWith, Leave
<1>3. CASE Teardown \/ Act \/ LifecycleDone \/ CreateVolumes \/ RecordPending \/ Resume \/ Bind
           \/ Schedule \/ RunAgent \/ KeepAlive
  BY <1>3 DEF Teardown, Act, LifecycleDone, CreateVolumes, RecordPending, Resume, Bind, BindWith,
    AfterBind, Schedule, RunAgent, KeepAlive, Goto, Leave, localVars
<1>4. CASE Lookup \/ Create
  BY <1>4 DEF Lookup, Create, Goto, Hold, localVars
<1>5. CASE WaitReady \/ Complete \/ RecordFailure \/ CleanupRow \/ CleanupDone \/ Crash
  BY <1>5 DEF WaitReady, Complete, RecordFailure, CleanupRow, CleanupRowWith, CleanupDone, Crash,
    Goto, Leave, localVars
<1>6. CASE \/ UNCHANGED vars
           \/ \E t \in timers : TimerFires(t)
           \/ \E p \in Pods, a \in LifecycleActions : OutsideAction(p, a)
           \/ \E p \in Pods : Provider(p)
  BY <1>1, <1>6 DEF vars, TimerFires, OutsideAction, Provider
<1>. QED BY <1>2, <1>3, <1>4, <1>5, <1>6 DEF Next, Step

LEMMA InitAdopt == Init => AdoptInv
BY DEF Init, AdoptInv, OrphansAdopted, Adopting

LEMMA NextAdopt == TypeInv /\ LedgerInv /\ AdoptInv /\ [Next]_vars => AdoptInv'
<1>. SUFFICES ASSUME TypeInv, LedgerInv, AdoptInv, [Next]_vars,
                     pc' \notin {"idle", "list"},
                     NEW p \in Pods, pods'[p] \in Known, p[1] # run'
              PROVE  Tracked(p)' \/ (pc' = "reconcile" /\ listing'[p] # "ABSENT")
  BY DEF AdoptInv, OrphansAdopted, Adopting, Tracked
<1>1. run' = run /\ pods[p] \in Known
  BY RunnerMoves, LivePodsAreOld
<1>2. CASE Tracked(p)
  BY <1>2, TrackedStays
<1>3. CASE pc' = "reconcile" /\ ~Tracked(p)
  <2>1. CASE ListPods
    BY <1>1, <1>3, <2>1 DEF ListPods, Leave, providerVars, Known
  <2>2. ASSUME NEW q \in Pods, RecordRemote(q)
        PROVE  Tracked(p)' \/ listing'[p] # "ABSENT"
    <3>1. listing[p] # "ABSENT"
      BY <1>1, <1>3, <2>2 DEF RecordRemote, AdoptInv, Adopting
    <3>2. CASE p = q
      <4>1. Upsert(Remote(q), q, listing[q]) /\ listing[q] \in RowStatus /\ Remote(q) \in Keys
        BY <2>2, KeyFacts DEF RecordRemote, TypeInv, TypeOK, RowStatus
      <4>. QED BY <3>2, <4>1, TypedFacts, UpsertEffect DEF Tracked
    <3>3. CASE p # q
      BY <2>2, <3>1, <3>3 DEF RecordRemote, TypeInv, TypeOK
    <3>. QED BY <3>2, <3>3
  <2>3. CASE pc = "reconcile" /\ UNCHANGED listing
    BY <1>1, <1>3, <2>3 DEF AdoptInv, Adopting
  <2>. QED BY <1>3, <2>1, <2>2, <2>3, RunnerMoves
<1>4. CASE pc' # "reconcile" /\ ~Tracked(p)
  <2>1. ~Begin
    BY <1>1, <1>4 DEF Begin, BeginWith, NothingListed, AdoptInv, Adopting
  <2>2. pc \notin {"idle", "list", "reconcile"}
    BY <1>4, <2>1, RunnerMoves
  <2>. QED BY <1>1, <1>4, <2>2 DEF AdoptInv, OrphansAdopted, Tracked
<1>. QED BY <1>2, <1>3, <1>4

\* After reconciliation every live pod of an earlier run is in the ledger,
\* whatever crashed or was lost: see OrphansAdopted.
THEOREM OrphansAreAdopted == Spec => []OrphansAdopted
<1>1. AdoptInv => OrphansAdopted
  BY DEF AdoptInv
<1>. QED BY <1>1, InitTyped, NextTyped, InitLedger, NextLedger, InitAdopt, NextAdopt, PTL DEF Spec

----------------------------------------------------------------------------
(* Refinement of PodAccounting. *)

\* A step that moves at most pod p, and from one stage to the next.
LEMMA OneStageMoves ==
  ASSUME NEW p \in Pods, \A q \in Pods \ {p} : Stage(q)' = Stage(q),
         \/ Stage(p)' = Stage(p)
         \/ Stage(p) = "unknown" /\ Stage(p)' = "announced"
         \/ Stage(p) = "announced" /\ Stage(p)' = "created"
         \/ Stage(p) = "created" /\ Stage(p)' = "tracked"
  PROVE  [Accounting!Next]_Stages
<1>1. CASE Stage(p)' = Stage(p)
  <2>1. Stages' = Stages
    BY <1>1 DEF Stages
  <2>. QED BY <2>1
<1>2. ASSUME NEW s, Stage(p)' = s PROVE Stages' = [Stages EXCEPT ![p] = s]
  BY <1>2 DEF Stages
<1>3. Stages[p] = Stage(p)
  BY DEF Stages
<1>. QED BY <1>1, <1>2, <1>3
  DEF Accounting!Next, Accounting!Announce, Accounting!Create, Accounting!Track, Accounting!Move

LEMMA InitAccounting == Init => Accounting!Init
BY KeyFacts, NoPodAssumption
DEF Init, ProviderInit, StoreInit, Accounting!Init, Stages, Stage, Exists

LEMMA NextAccounting ==
  TypeInv /\ LedgerInv /\ [Next]_vars => [Accounting!Next]_Stages
<1>. SUFFICES ASSUME TypeInv, LedgerInv, [Next]_vars
              PROVE  [Accounting!Next]_Stages
  OBVIOUS
<1>. USE TypedFacts, KeyFacts
<1>1. CASE Quiet
  <2>1. \A q \in Pods : Stage(q)' = Stage(q)
    BY <1>1, QuietLedger DEF Stage, Tracked, Quiet
  <2>2. Stages' = Stages
    BY <2>1 DEF Stages
  <2>. QED BY <2>2
<1>2. CASE RecordPending
  <2>1. PICK p \in Pods, o \in Keys : p = <<run, Hash>> /\ o = Own(p[1], p[2]) /\ o = Own(run, Hash)
    BY <1>2 DEF RecordPending
  <2>2. Upsert(o, NoPod, "creating") /\ "creating" \in RowStatus /\ UNCHANGED pods
    BY <1>2, <2>1 DEF RecordPending, RowStatus, providerVars
  <2>3. ledger'[o].pod = NoPod /\ Exists(o)' /\ \A j \in Keys \ {o} : ledger'[j] = ledger[j]
    BY <2>2, UpsertEffect
  <2>4. ledger[o].pod = NoPod
    BY <1>2, <2>1, OwnRowIsFree DEF RecordPending, HasPod
  <2>5. \A q \in Pods : Tracked(q)' <=> Tracked(q)
    BY <2>3, <2>4, NoPodAssumption DEF Tracked
  <2>6. \A q \in Pods \ {p} : Own(q[1], q[2]) \in Keys \ {o}
    BY <2>1
  <2>7. \A q \in Pods \ {p} : Stage(q)' = Stage(q)
    BY <2>2, <2>3, <2>5, <2>6 DEF Stage, Tracked, Exists
  <2>8. pods[p] = "ABSENT"
    BY <1>2, <2>1 DEF LedgerInv, Untouched, Applying, RecordPending, Hash
  <2>9. ~Tracked(p)
    BY <2>8, NoPodAssumption DEF LedgerInv, LedgerNamesRealPods, Tracked, HasPod
  <2>10. Stage(p) \in {"unknown", "announced"} /\ Stage(p)' = "announced"
    BY <2>1, <2>2, <2>3, <2>5, <2>8, <2>9 DEF Stage, Tracked
  <2>. QED BY <2>7, <2>10, OneStageMoves
<1>3. CASE Create
  <2>1. PICK p \in Pods : p = <<run, Hash>>
    BY <1>3 DEF Create
  <2>2. (Deploy(p) \/ DeployFails(p)) /\ UNCHANGED ledger
    BY <1>3, <2>1 DEF Create, storeVars
  <2>3. \A q \in Pods \ {p} : pods'[q] = pods[q]
    BY <2>2, DeployEffect
  <2>4. \A k \in Keys : ledger'[k] = ledger[k]
    BY <2>2
  <2>5. \A q \in Pods : (Tracked(q)' <=> Tracked(q)) /\ (Exists(Own(q[1], q[2]))' <=> Exists(Own(q[1], q[2])))
    BY <2>4 DEF Tracked, Exists
  <2>6. \A q \in Pods \ {p} : Stage(q)' = Stage(q)
    BY <2>3, <2>5 DEF Stage, Tracked
  <2>7. pods[p] = "ABSENT"
    BY <1>3, <2>1 DEF LedgerInv, Untouched, Applying, Create, Hash
  <2>8. ~Tracked(p)
    BY <2>7, NoPodAssumption DEF LedgerInv, LedgerNamesRealPods, Tracked, HasPod
  <2>9. Exists(Own(p[1], p[2]))
    BY <1>3, <2>1 DEF LedgerInv, Announced, Create
  <2>10. Stage(p) = "announced"
    BY <2>7, <2>8, <2>9 DEF Stage, Tracked
  <2>11. pods'[p] = "ABSENT" \/ pods'[p] = "RUNNING"
    BY <2>2, <2>7 DEF Deploy, DeployFails, providerVars, ProviderTypeOK
  <2>12. Stage(p)' \in {"announced", "created"}
    BY <2>5, <2>8, <2>9, <2>11 DEF Stage, Tracked
  <2>. QED BY <2>6, <2>10, <2>12, OneStageMoves
<1>4. CASE Bind
  <2>1. PICK p \in Pods, o \in Keys : p = held[Hash] /\ o = Own(run, Hash)
    BY <1>4 DEF Bind, BindWith, TypeInv, Holding
  <2>2. Upsert(o, p, "RUNNING") /\ "RUNNING" \in RowStatus /\ UNCHANGED pods
    BY <1>4, <2>1 DEF Bind, BindWith, RowStatus, Known, providerVars
  <2>3. ledger'[o].pod = p /\ Exists(o)' /\ \A j \in Keys \ {o} : ledger'[j] = ledger[j]
    BY <2>2, UpsertEffect
  <2>4. ledger[o].pod = NoPod /\ Exists(o)
    BY <1>4, <2>1, OwnRowIsFree DEF Bind, BindWith, HasPod, LedgerInv, Announced
  <2>5. \A q \in Pods \ {p} : Tracked(q)' <=> Tracked(q)
    BY <2>3, <2>4, NoPodAssumption DEF Tracked
  <2>6. \A q \in Pods : Exists(Own(q[1], q[2]))' <=> Exists(Own(q[1], q[2]))
    BY <2>3, <2>4 DEF Exists
  <2>7. \A q \in Pods \ {p} : Stage(q)' = Stage(q)
    BY <2>2, <2>5, <2>6 DEF Stage, Tracked
  <2>8. pods[p] # "ABSENT"
    BY <2>1, NoPodAssumption DEF LedgerInv, HeldIsReal
  <2>9. Stage(p) \in {"created", "tracked"} /\ Stage(p)' = "tracked"
    BY <2>3, <2>8 DEF Stage
  <2>. QED BY <2>7, <2>9, OneStageMoves
<1>5. ASSUME NEW p \in Pods, RecordRemote(p)
      PROVE  [Accounting!Next]_Stages
  <2>1. /\ Upsert(Remote(p), p, listing[p]) /\ listing[p] \in RowStatus /\ UNCHANGED pods
        /\ pods[p] # "ABSENT"
    BY <1>5 DEF RecordRemote, providerVars, TypeInv, TypeOK, RowStatus, LedgerInv, ListedIsReal
  <2>2. ledger'[Remote(p)].pod = p /\ \A j \in Keys \ {Remote(p)} : ledger'[j] = ledger[j]
    BY <2>1, UpsertEffect
  <2>3. ledger[Remote(p)].pod \in {NoPod, p}
    BY DEF LedgerInv, LedgerNamesRealPods, HasPod, StoreTypeOK
  <2>4. \A q \in Pods \ {p} : Tracked(q)' <=> Tracked(q)
    BY <2>2, <2>3, NoPodAssumption DEF Tracked
  <2>5. \A q \in Pods : Exists(Own(q[1], q[2]))' <=> Exists(Own(q[1], q[2]))
    BY <2>2 DEF Exists
  <2>6. \A q \in Pods \ {p} : Stage(q)' = Stage(q)
    BY <2>1, <2>4, <2>5 DEF Stage, Tracked
  <2>7. Stage(p) \in {"created", "tracked"} /\ Stage(p)' = "tracked"
    BY <2>1, <2>2 DEF Stage
  <2>. QED BY <2>6, <2>7, OneStageMoves
<1>. QED BY <1>1, <1>2, <1>3, <1>4, <1>5, LoudSteps

\* Every pod is announced, created and tracked in this order and never
\* forgotten: see PodAccounting.
THEOREM RunnerAccountsForPods == Spec => ImplementsAccounting
<1>. USE DEF ImplementsAccounting, Accounting!Spec
<1>. QED
  BY InitTyped, NextTyped, InitLedger, NextLedger, InitAccounting, NextAccounting, PTL DEF Spec

----------------------------------------------------------------------------
(* Timers and completed runs. *)

\* When the timer is about to be started, the row of the agent has its pod.
AgentIsBound == pc = "schedule" => ledger[Own(run, Agent)].pod = held[Agent]

TimerInv == TimersAreLedgered /\ AgentIsBound

\* How a run comes to the step that starts its timer.
LEMMA ScheduleIsReached ==
  ASSUME TypeInv, [Next]_vars, pc' = "schedule"
  PROVE  Bind \/ (pc = "schedule" /\ UNCHANGED <<run, req, held>>)
<1>1. CASE UNCHANGED <<pc, localVars>>
  BY <1>1 DEF localVars
<1>2. CASE Start \/ ListPods \/ (\E p \in Pods : RecordRemote(p)) \/ Begin
  BY <1>2 DEF Start, ListPods, RecordRemote, Begin, BeginWith, Leave
<1>3. CASE Teardown \/ Act \/ LifecycleDone \/ CreateVolumes \/ RecordPending \/ Resume
           \/ Schedule \/ RunAgent \/ KeepAlive
  BY <1>3 DEF Teardown, Act, LifecycleDone, CreateVolumes, RecordPending, Resume,
    Schedule, RunAgent, KeepAlive, Goto, Leave, localVars
<1>4. CASE Lookup \/ Create
  BY <1>4 DEF Lookup, Create, Goto, Hold, localVars
<1>5. CASE WaitReady \/ Complete \/ RecordFailure \/ CleanupRow \/ CleanupDone \/ Crash
  BY <1>5 DEF WaitReady, Complete, RecordFailure, CleanupRow, CleanupRowWith, CleanupDone, Crash,
    Goto, Leave, localVars
<1>6. CASE \/ UNCHANGED vars
           \/ \E t \in timers : TimerFires(t)
           \/ \E p \in Pods, a \in LifecycleActions : OutsideAction(p, a)
           \/ \E p \in Pods : Provider(p)
  BY <1>1, <1>6 DEF vars, TimerFires, OutsideAction, Provider
<1>. QED BY <1>2, <1>3, <1>4, <1>5, <1>6 DEF Next, Step

\* Only Schedule adds a timer.
LEMMA TimersMove ==
  ASSUME TypeInv, [Next]_vars
  PROVE  Schedule \/ timers' \subseteq timers
<1>1. CASE UNCHANGED timers
  BY <1>1
<1>2. CASE Start \/ ListPods \/ (\E p \in Pods : RecordRemote(p)) \/ Begin \/ Lookup \/ Create
  BY <1>2 DEF Start, ListPods, RecordRemote, Begin, BeginWith, Lookup, Create, otherVars
<1>3. CASE Teardown \/ Act \/ LifecycleDone \/ CreateVolumes \/ RecordPending \/ Resume \/ Bind
           \/ RunAgent \/ KeepAlive
  BY <1>3 DEF Teardown, Act, LifecycleDone, CreateVolumes, RecordPending, Resume, Bind, BindWith,
    RunAgent, KeepAlive, otherVars
<1>4. CASE WaitReady \/ Complete \/ RecordFailure \/ CleanupRow \/ CleanupDone \/ Crash
  BY <1>4 DEF WaitReady, Complete, RecordFailure, CleanupRow, CleanupRowWith, CleanupDone, Crash,
    otherVars
<1>5. CASE \/ UNCHANGED vars
           \/ \E t \in timers : TimerFires(t)
           \/ \E p \in Pods, a \in LifecycleActions : OutsideAction(p, a)
           \/ \E p \in Pods : Provider(p)
  BY <1>5 DEF vars, TimerFires, OutsideAction, Provider, otherVars
<1>. QED BY <1>1, <1>2, <1>3, <1>4, <1>5 DEF Next, Step

LEMMA InitTimers == Init => TimerInv
BY DEF Init, TimerInv, TimersAreLedgered, AgentIsBound

LEMMA NextTimers == TypeInv /\ LedgerInv /\ TimerInv /\ [Next]_vars => TimerInv'
<1>. SUFFICES ASSUME TypeInv, LedgerInv, TimerInv, [Next]_vars PROVE TimerInv'
  OBVIOUS
<1>. USE TypedFacts, KeyFacts
<1>1. \A t \in timers : /\ t[1] \in Runs /\ t[2] \in Pods /\ t[2][2] \in Hashes
                        /\ Own(t[1], t[2][2]) \in Keys
  BY DEF TypeInv, TypeOK
<1>2. \A t \in timers : ledger'[Own(t[1], t[2][2])].pod = t[2]
  <2>. TAKE t \in timers
  <2>1. PICK k \in Keys : k = Own(t[1], t[2][2])
    BY <1>1
  <2>2. ledger[k].pod = t[2] /\ HasPod(k)
    BY <1>1, <2>1, NoPodAssumption DEF TimerInv, TimersAreLedgered, HasPod
  <2>. QED BY <2>1, <2>2, RowsKeepTheirPods
<1>3. TimersAreLedgered'
  <2>1. CASE timers' \subseteq timers
    BY <1>2, <2>1 DEF TimersAreLedgered
  <2>2. CASE Schedule
    <3>1. /\ pc = "schedule" /\ timers' \subseteq timers \cup {<<run, held[Agent]>>}
          /\ UNCHANGED ledger
      BY <2>2 DEF Schedule, storeVars
    <3>2. held[Agent] \in Pods /\ held[Agent][2] = Agent
      BY <3>1, NoPodAssumption DEF TypeInv, Holding, LedgerInv, HeldIsReal
    <3>3. ledger[Own(run, held[Agent][2])].pod = held[Agent]
      BY <3>1, <3>2 DEF TimerInv, AgentIsBound
    <3>. QED BY <1>2, <3>1, <3>3 DEF TimersAreLedgered
  <2>. QED BY <2>1, <2>2, TimersMove
<1>4. AgentIsBound'
  <2>. SUFFICES ASSUME pc' = "schedule" PROVE ledger'[Own(run', Agent')].pod = held'[Agent']
    BY DEF AgentIsBound
  <2>1. CASE Bind
    <3>1. /\ UNCHANGED <<run, req, held>> /\ idx = Len(Plan) /\ pc = "bind"
      BY <2>1 DEF Bind, BindWith, Goto, localVars, AfterBind
    <3>2. Agent' = Agent /\ Agent = Hash
      BY <3>1 DEF Agent, Plan, Hash
    <3>3. PICK o \in Keys, p \in Pods : o = Own(run, Hash) /\ p = held[Hash]
      BY <3>1 DEF TypeInv, Holding
    <3>4. Upsert(o, p, "RUNNING") /\ "RUNNING" \in RowStatus
      BY <2>1, <3>3 DEF Bind, BindWith, RowStatus, Known
    <3>. QED BY <3>1, <3>2, <3>3, <3>4, UpsertEffect
  <2>2. CASE pc = "schedule" /\ UNCHANGED <<run, req, held>>
    <3>1. Agent' = Agent
      BY <2>2 DEF Agent, Plan
    <3>2. PICK o \in Keys : o = Own(run, Agent)
      BY <2>2
    <3>3. ledger[o].pod = held[Agent] /\ held[Agent] \in Pods
      BY <2>2, <3>2 DEF TimerInv, AgentIsBound, TypeInv, Holding
    <3>4. HasPod(o)
      BY <3>3, NoPodAssumption DEF HasPod
    <3>. QED BY <2>2, <3>1, <3>2, <3>3, <3>4, RowsKeepTheirPods
  <2>. QED BY <2>1, <2>2, ScheduleIsReached
<1>. QED BY <1>3, <1>4 DEF TimerInv

\* A timer acts on the pod that the ledger holds for its run: see
\* TimersAreLedgered.
THEOREM TimersStayLedgered == Spec => []TimersAreLedgered
<1>1. TimerInv => TimersAreLedgered
  BY DEF TimerInv
<1>. QED BY <1>1, InitTyped, NextTyped, InitLedger, NextLedger, InitTimers, NextTimers, PTL DEF Spec

----------------------------------------------------------------------------
(* Stop and terminate keep to their plan. *)

\* The rows still to visit belong to the plan.
TodoIsPlanned == pc \in {"lifecycle", "act"} => \A k \in todo : HashOf(k) \in PlanHashes

LEMMA InitPlanned == Init => TodoIsPlanned
BY DEF Init, TodoIsPlanned

LEMMA NextPlanned == TypeInv /\ TodoIsPlanned /\ [Next]_vars => TodoIsPlanned'
<1>. SUFFICES ASSUME TypeInv, TodoIsPlanned, [Next]_vars, pc' \in {"lifecycle", "act"}
              PROVE  req' = req /\ \A k \in todo' : HashOf(k) \in PlanHashes
  BY DEF TodoIsPlanned, PlanHashes, Plan
<1>1. CASE pc \in {"lifecycle", "act"} /\ req' = req /\ todo' \subseteq todo
  BY <1>1 DEF TodoIsPlanned
<1>2. CASE UNCHANGED <<pc, localVars>>
  BY <1>1, <1>2 DEF localVars
<1>3. CASE Begin
  BY <1>3 DEF Begin, BeginWith, RowsNaming
<1>4. CASE Teardown \/ Act
  BY <1>1, <1>4 DEF Teardown, Act, Goto, localVars
<1>5. CASE Start \/ ListPods \/ (\E p \in Pods : RecordRemote(p)) \/ LifecycleDone \/ CreateVolumes
           \/ RecordPending \/ Resume \/ Bind \/ Schedule \/ RunAgent \/ KeepAlive
  BY <1>5 DEF Start, ListPods, RecordRemote, LifecycleDone, CreateVolumes, RecordPending, Resume,
    Bind, BindWith, AfterBind, Schedule, RunAgent, KeepAlive, Goto, Leave, localVars
<1>6. CASE Lookup \/ Create \/ WaitReady \/ Complete \/ RecordFailure \/ CleanupRow \/ CleanupDone \/ Crash
  BY <1>6 DEF Lookup, Create, WaitReady, Complete, RecordFailure, CleanupRow, CleanupRowWith,
    CleanupDone, Crash, Goto, Hold, Leave, localVars
<1>7. CASE \/ UNCHANGED vars
           \/ \E t \in timers : TimerFires(t)
           \/ \E p \in Pods, a \in LifecycleActions : OutsideAction(p, a)
           \/ \E p \in Pods : Provider(p)
  BY <1>2, <1>7 DEF vars, TimerFires, OutsideAction, Provider
<1>. QED BY <1>3, <1>4, <1>5, <1>6, <1>7 DEF Next, Step

LEMMA ActKeepsToItsPlan ==
  ASSUME TypeInv, LedgerInv, TodoIsPlanned, Act, NEW p \in Pods, p[2] \notin PlanHashes
  PROVE  pods'[p] = pods[p]
<1>. USE TypedFacts
<1>1. PICK k \in todo, q \in Pods : k = Visited /\ k \in Keys /\ q = ledger[k].pod
  BY DEF Act
<1>2. HashOf(k) \in PlanHashes
  BY <1>1 DEF Act, TodoIsPlanned
<1>3. HasPod(k)
  BY <1>1 DEF TypeInv, Control
<1>4. q[2] = HashOf(k)
  BY <1>1, <1>3 DEF LedgerInv, LedgerNamesRealPods
<1>5. Execute(q, req.mode) \/ CallFails(q, req.mode)
  BY <1>1 DEF Act
<1>6. p # q
  BY <1>2, <1>4
<1>. QED BY <1>5, <1>6 DEF Execute, CallFails, providerVars, ProviderTypeOK

\* A stop or terminate run leaves the pods of other deployments alone: see
\* LifecycleKeepsToItsPlan.
THEOREM LifecycleIsPlanned == Spec => LifecycleKeepsToItsPlan
<1>1. TypeInv /\ LedgerInv /\ TodoIsPlanned =>
        (Act => \A p \in Pods : p[2] \notin PlanHashes => pods'[p] = pods[p])
  BY ActKeepsToItsPlan
<1>. QED
  BY <1>1, InitTyped, NextTyped, InitLedger, NextLedger, InitPlanned, NextPlanned, PTL
  DEF Spec, LifecycleKeepsToItsPlan

----------------------------------------------------------------------------
(* Completed runs are whole. *)

\* The steps at which no failure has happened yet.
Succeeding == Applying \cup {"schedule", "agent", "keepalive", "complete"}

\* A run in progress lacks at most the pod of the resource at hand.
WholeSoFar ==
  pc \in Succeeding =>
    \A h \in Hashes : Exists(Own(run, h)) =>
      HasPod(Own(run, h)) \/ (h = Hash /\ pc \in {"lookup", "resume", "create", "bind"})

\* Runs to come have left nothing, and the one in progress is not completed.
NothingAhead ==
  /\ \A r \in Runs, h \in Hashes : r > run => ~Exists(Own(r, h))
  /\ \A r \in Runs : r > run \/ (r = run /\ pc # "idle") => runStatus[r] # "completed"
  /\ pc \in {"list", "reconcile"} => \A h \in Hashes : ~Exists(Own(run, h))

WholeInv == CompletedRunsAreWhole /\ WholeSoFar /\ NothingAhead

LEMMA InitWhole == Init => WholeInv
<1>. SUFFICES ASSUME Init PROVE WholeInv
  OBVIOUS
<1>0. \A k \in Keys : ~Exists(k)
  BY DEF Init, StoreInit, Exists
<1>1. \A r \in Runs : runStatus[r] = "none" /\ \A h \in Hashes : ~Exists(Own(r, h))
  BY <1>0, KeyFacts DEF Init, StoreInit
<1>2. pc = "idle"
  BY DEF Init
<1>. QED BY <1>1, <1>2 DEF WholeInv, CompletedRunsAreWhole, WholeSoFar, NothingAhead, Succeeding, Applying

\* The own rows that exist: only RecordPending and Bind add one.
LEMMA OwnRowsMove ==
  ASSUME TypeInv, LedgerInv, [Next]_vars, NEW r \in Runs, NEW h \in Hashes, Exists(Own(r, h))'
  PROVE  \/ Exists(Own(r, h))
         \/ r = run /\ h = Hash /\ (RecordPending \/ Bind)
<1>. USE TypedFacts, KeyFacts
<1>1. PICK k \in Keys : k = Own(r, h)
  OBVIOUS
<1>2. CASE Quiet
  BY <1>1, <1>2, QuietLedger
<1>3. CASE Create
  BY <1>3 DEF Create, storeVars, Exists
<1>4. CASE RecordPending
  <2>1. PICK o \in Keys : o = Own(run, Hash)
    BY <1>4 DEF RecordPending
  <2>2. Upsert(o, NoPod, "creating") /\ "creating" \in RowStatus /\ run \in Runs
    BY <1>4, <2>1 DEF RecordPending, RowStatus, TypeInv, Control
  <2>3. k # o => ledger'[k] = ledger[k]
    BY <2>2, UpsertEffect
  <2>. QED BY <1>1, <1>4, <2>1, <2>2, <2>3 DEF Exists
<1>5. CASE Bind
  <2>1. PICK o \in Keys, p \in Pods : o = Own(run, Hash) /\ p = held[Hash]
    BY <1>5 DEF Bind, BindWith, TypeInv, Holding
  <2>2. Upsert(o, p, "RUNNING") /\ "RUNNING" \in RowStatus /\ run \in Runs
    BY <1>5, <2>1 DEF Bind, BindWith, RowStatus, Known, TypeInv, Control
  <2>3. k # o => ledger'[k] = ledger[k]
    BY <2>2, UpsertEffect
  <2>. QED BY <1>1, <1>5, <2>1, <2>2, <2>3 DEF Exists
<1>6. ASSUME NEW p \in Pods, RecordRemote(p) PROVE Exists(Own(r, h))
  <2>1. Upsert(Remote(p), p, listing[p]) /\ listing[p] \in RowStatus
    BY <1>6 DEF RecordRemote, TypeInv, TypeOK, RowStatus
  <2>2. \A j \in Keys \ {Remote(p)} : ledger'[j] = ledger[j]
    BY <2>1, UpsertEffect
  <2>3. k # Remote(p)
    BY <1>1
  <2>. QED BY <1>1, <2>2, <2>3 DEF Exists
<1>. QED BY <1>2, <1>3, <1>4, <1>5, <1>6, LoudSteps

\* How run, its status and the position in the plan move.
LEMMA StatusMoves ==
  ASSUME TypeInv, [Next]_vars
  PROVE  \/ /\ Start /\ UNCHANGED runStatus
         \/ /\ Complete
         \/ /\ UNCHANGED run
            /\ \A r \in Runs : runStatus'[r] = "completed" => runStatus[r] = "completed"
            /\ pc' # "idle" => pc # "idle"
<1>1. CASE UNCHANGED <<pc, run, runStatus>>
  BY <1>1
<1>2. CASE Start
  BY <1>2 DEF Start, storeVars
<1>3. CASE ListPods \/ LifecycleDone \/ CleanupDone \/ Crash
  BY <1>3 DEF ListPods, LifecycleDone, CleanupDone, Crash, Leave, storeVars
<1>4. CASE Begin
  <2>1. RecordRun(run, "started") /\ UNCHANGED run /\ pc # "idle"
    BY <1>4 DEF Begin, BeginWith
  <2>2. \A r \in Runs : runStatus'[r] = "completed" => runStatus[r] = "completed"
    BY <2>1, TypedFacts DEF RecordRun, StoreTypeOK
  <2>. QED BY <2>1, <2>2
<1>5. CASE RecordFailure
  <2>1. RecordRun(run, "failed") /\ UNCHANGED run /\ pc # "idle"
    BY <1>5 DEF RecordFailure, Leave
  <2>2. \A r \in Runs : runStatus'[r] = "completed" => runStatus[r] = "completed"
    BY <2>1, TypedFacts DEF RecordRun, StoreTypeOK
  <2>. QED BY <2>1, <2>2
<1>6. CASE \E p \in Pods : RecordRemote(p)
  BY <1>6 DEF RecordRemote, Upsert
<1>7. CASE Teardown \/ CreateVolumes \/ Schedule \/ RunAgent \/ KeepAlive \/ Resume
  BY <1>7 DEF Teardown, CreateVolumes, Schedule, RunAgent, KeepAlive, Resume,
    Goto, localVars, storeVars
<1>8. CASE Act \/ RecordPending \/ Bind
  BY <1>8 DEF Act, RecordPending, Bind, BindWith, Goto, localVars, Upsert, MarkResourceStatus, storeVars
<1>9. CASE Lookup \/ Create \/ WaitReady \/ CleanupRow
  BY <1>9 DEF Lookup, Create, WaitReady, CleanupRow, CleanupRowWith, Goto, Hold, localVars, storeVars
<1>10. CASE \/ UNCHANGED vars
            \/ \E t \in timers : TimerFires(t)
            \/ \E p \in Pods, a \in LifecycleActions : OutsideAction(p, a)
            \/ \E p \in Pods : Provider(p)
  BY <1>1, <1>10 DEF vars, TimerFires, OutsideAction, Provider, localVars, storeVars
<1>. QED BY <1>2, <1>3, <1>4, <1>5, <1>6, <1>7, <1>8, <1>9, <1>10 DEF Next, Step

\* How a run that has not failed goes on.
LEMMA SuccessMoves ==
  ASSUME TypeInv, [Next]_vars, pc' \in Succeeding
  PROVE  \/ Start
         \/ /\ pc \in Succeeding /\ UNCHANGED <<run, req>>
            /\ pc' \in {"list", "reconcile"} => pc \in {"list", "reconcile"}
            /\ \/ RecordPending /\ pc' = "lookup" /\ idx' = idx
               \/ Bind /\ idx' = idx
               \/ /\ ~RecordPending /\ ~Bind
                  /\ \/ pc \in {"lookup", "resume", "create"} /\ idx' = idx
                        /\ pc' \in {"lookup", "resume", "create", "bind"}
                     \/ pc' = pc /\ idx' = idx
                     \/ pc \notin {"lookup", "resume", "create", "bind"}
                        /\ pc' \notin {"lookup", "resume", "create", "bind"}
<1>. USE DEF Succeeding, Applying
<1>1. CASE UNCHANGED <<pc, localVars>> /\ ~RecordPending /\ ~Bind
  BY <1>1 DEF localVars
<1>2. CASE Start
  BY <1>2
<1>3. CASE ListPods \/ LifecycleDone \/ CleanupDone \/ Crash \/ Complete
  BY <1>3 DEF ListPods, LifecycleDone, CleanupDone, Crash, Complete, Leave, RecordPending, Bind, BindWith
<1>4. CASE Begin \/ RecordFailure \/ Teardown \/ Act \/ CleanupRow
  BY <1>4 DEF Begin, BeginWith, RecordFailure, Teardown, Act, CleanupRow, CleanupRowWith, Leave,
    Goto, localVars, RecordPending, Bind, BindWith
<1>5. CASE \E p \in Pods : RecordRemote(p)
  BY <1>5 DEF RecordRemote, RecordPending, Bind, BindWith
<1>6. CASE CreateVolumes \/ Schedule \/ RunAgent \/ KeepAlive \/ Resume
  BY <1>6 DEF CreateVolumes, Schedule, RunAgent, KeepAlive, Resume,
    Goto, localVars, RecordPending, Bind, BindWith
<1>7. CASE RecordPending \/ Bind
  BY <1>7 DEF RecordPending, Bind, BindWith, AfterBind, Goto, localVars
<1>8. CASE Lookup \/ Create \/ WaitReady
  BY <1>8 DEF Lookup, Create, WaitReady, Goto, Hold, localVars, RecordPending, Bind, BindWith
<1>9. CASE \/ UNCHANGED vars
           \/ \E t \in timers : TimerFires(t)
           \/ \E p \in Pods, a \in LifecycleActions : OutsideAction(p, a)
           \/ \E p \in Pods : Provider(p)
  <2>1. UNCHANGED <<pc, localVars>>
    BY <1>9 DEF vars, TimerFires, OutsideAction, Provider
  <2>2. ~RecordPending /\ ~Bind
    BY <2>1 DEF RecordPending, Bind, BindWith, AfterBind, Goto
  <2>. QED BY <1>1, <2>1, <2>2
<1>. QED BY <1>2, <1>3, <1>4, <1>5, <1>6, <1>7, <1>8, <1>9 DEF Next, Step

LEMMA NextWhole == TypeInv /\ LedgerInv /\ WholeInv /\ [Next]_vars => WholeInv'
<1>. SUFFICES ASSUME TypeInv, LedgerInv, WholeInv, [Next]_vars PROVE WholeInv'
  OBVIOUS
<1>. USE TypedFacts, KeyFacts
<1>1. run \in 0..MaxRuns /\ Runs \subseteq Nat /\ run \in Nat
  BY MaxRunsAssumption DEF TypeInv, TypeOK, Runs
<1>2. \A r \in Runs, h \in Hashes : HasPod(Own(r, h)) => HasPod(Own(r, h))'
  <2>. SUFFICES ASSUME NEW r \in Runs, NEW h \in Hashes, HasPod(Own(r, h))
                PROVE  HasPod(Own(r, h))'
    OBVIOUS
  <2>1. PICK k \in Keys : k = Own(r, h)
    OBVIOUS
  <2>2. ledger'[k].pod = ledger[k].pod
    BY <2>1, RowsKeepTheirPods
  <2>. QED BY <2>1, <2>2 DEF HasPod
<1>3. (RecordPending \/ Bind) => pc # "idle" /\ run' = run /\ run \in Runs
  BY DEF RecordPending, Bind, BindWith, AfterBind, Goto, localVars, TypeInv, Control
<1>4. NothingAhead'
  <2>1. \A r \in Runs, h \in Hashes : r > run' => ~Exists(Own(r, h))'
    <3>1. run' = run \/ run' = run + 1
      BY StatusMoves DEF Start, Complete, Leave
    <3>. QED BY <1>1, <1>3, <3>1, OwnRowsMove DEF WholeInv, NothingAhead
  <2>2. \A r \in Runs : r > run' \/ (r = run' /\ pc' # "idle") => runStatus'[r] # "completed"
    <3>1. CASE Start /\ UNCHANGED runStatus
      BY <1>1, <3>1 DEF Start, WholeInv, NothingAhead
    <3>2. CASE Complete
      <4>1. run' = run /\ pc' = "idle" /\ runStatus' = [runStatus EXCEPT ![run] = "completed"]
        BY <3>2 DEF Complete, Leave, RecordRun
      <4>. QED BY <1>1, <4>1 DEF WholeInv, NothingAhead, StoreTypeOK
    <3>3. CASE /\ UNCHANGED run /\ (pc' # "idle" => pc # "idle")
               /\ \A r \in Runs : runStatus'[r] = "completed" => runStatus[r] = "completed"
      BY <3>3 DEF WholeInv, NothingAhead
    <3>. QED BY <3>1, <3>2, <3>3, StatusMoves
  <2>3. pc' \in {"list", "reconcile"} => \A h \in Hashes : ~Exists(Own(run, h))'
    <3>. SUFFICES ASSUME pc' \in {"list", "reconcile"}, NEW h \in Hashes, Exists(Own(run, h))'
                  PROVE  FALSE
      OBVIOUS
    <3>1. ~RecordPending /\ ~Bind
      BY DEF RecordPending, Bind, BindWith, AfterBind, Goto
    <3>2. run' \in Runs /\ Exists(Own(run', h))
      <4>1. run' \in Runs
        BY NextTyped DEF TypeInv, Control
      <4>2. PICK r \in Runs : r = run'
        BY <4>1
      <4>3. Exists(Own(r, h))'
        BY <4>2 DEF Exists
      <4>. QED BY <3>1, <4>2, <4>3, OwnRowsMove
    <3>3. CASE Start
      BY <1>1, <3>2, <3>3 DEF Start, WholeInv, NothingAhead
    <3>4. CASE run' = run /\ pc \in {"list", "reconcile"}
      BY <3>2, <3>4 DEF WholeInv, NothingAhead
    <3>. QED BY <3>3, <3>4, SuccessMoves DEF Succeeding, Applying
  <2>. QED BY <2>1, <2>2, <2>3 DEF NothingAhead
<1>5. WholeSoFar'
  <2>. SUFFICES ASSUME pc' \in Succeeding, NEW h \in Hashes, Exists(Own(run, h))'
                PROVE  \/ HasPod(Own(run, h))'
                       \/ h = Hash' /\ pc' \in {"lookup", "resume", "create", "bind"}
    BY DEF WholeSoFar
  <2>1. CASE Start
    <3>1. pc' = "list"
      BY <2>1 DEF Start
    <3>. QED BY <1>4, <3>1 DEF NothingAhead
  <2>2. CASE pc \in Succeeding /\ UNCHANGED <<run, req>>
    <3>1. run \in Runs /\ UNCHANGED Plan
      BY <2>2 DEF TypeInv, Control, Succeeding, Applying, Plan
    <3>2. PICK r \in Runs : r = run
      BY <3>1
    <3>3. /\ Exists(Own(r, h))'
          /\ HasPod(Own(run, h)) => HasPod(Own(run, h))'
      <4>1. Own(run, h)' = Own(r, h) /\ Own(run, h) = Own(r, h)
        BY <2>2, <3>2 DEF Own
      <4>2. HasPod(Own(r, h)) => HasPod(Own(r, h))'
        BY <1>2
      <4>. QED BY <4>1, <4>2 DEF Exists, HasPod
    <3>4. idx' = idx => Hash' = Hash
      BY <3>1 DEF Hash
    <3>5. CASE RecordPending /\ pc' = "lookup" /\ idx' = idx
      <4>1. Exists(Own(run, h)) => HasPod(Own(run, h))
        BY <2>2, <3>5 DEF WholeInv, WholeSoFar, RecordPending
      <4>2. Exists(Own(run, h)) \/ h = Hash
        BY <3>2, <3>3, OwnRowsMove
      <4>. QED BY <3>3, <3>4, <3>5, <4>1, <4>2
    <3>6. CASE Bind
      <4>1. HasPod(Own(run, Hash))'
        <5>1. PICK o \in Keys, p \in Pods : o = Own(run, Hash) /\ p = held[Hash]
          BY <3>6 DEF Bind, BindWith, TypeInv, Holding
        <5>2. Upsert(o, p, "RUNNING") /\ "RUNNING" \in RowStatus
          BY <3>6, <5>1 DEF Bind, BindWith, RowStatus, Known
        <5>3. ledger'[o].pod = p /\ p # NoPod
          BY <5>2, UpsertEffect, NoPodAssumption
        <5>4. UNCHANGED <<run, req, idx>>
          BY <3>6 DEF Bind, BindWith, Goto, localVars
        <5>5. Own(run, Hash)' = o
          BY <5>1, <5>4 DEF Hash, Plan, Own
        <5>. QED BY <5>3, <5>5 DEF HasPod
      <4>2. Exists(Own(run, h)) => HasPod(Own(run, h)) \/ h = Hash
        BY <2>2, <3>6 DEF WholeInv, WholeSoFar
      <4>3. Exists(Own(run, h)) \/ h = Hash
        BY <3>2, <3>3, OwnRowsMove
      <4>4. idx' = idx
        BY <3>6 DEF Bind, BindWith, Goto, localVars
      <4>5. h = Hash => HasPod(Own(run, h))'
        BY <2>2, <3>4, <4>1, <4>4 DEF HasPod, Own
      <4>. QED BY <3>3, <4>1, <4>2, <4>3, <4>5
    <3>7. CASE ~RecordPending /\ ~Bind
      <4>1. Exists(Own(run, h))
        BY <3>2, <3>3, <3>7, OwnRowsMove
      <4>2. HasPod(Own(run, h)) \/ (h = Hash /\ pc \in {"lookup", "resume", "create", "bind"})
        BY <2>2, <4>1 DEF WholeInv, WholeSoFar
      <4>3. CASE HasPod(Own(run, h))
        BY <3>3, <4>3
      <4>4. CASE ~HasPod(Own(run, h))
        <5>1. h = Hash /\ pc \in {"lookup", "resume", "create", "bind"}
          BY <4>2, <4>4
        <5>2. pc' \in {"lookup", "resume", "create", "bind"} /\ idx' = idx
          BY <3>7, <5>1, SuccessMoves DEF Start
        <5>. QED BY <3>4, <5>1, <5>2
      <4>. QED BY <4>3, <4>4
    <3>. QED BY <3>5, <3>6, <3>7, SuccessMoves DEF RecordPending, Start
  <2>. QED BY <2>1, <2>2, SuccessMoves
<1>6. CompletedRunsAreWhole'
  <2>. SUFFICES ASSUME NEW r \in Runs, runStatus'[r] = "completed",
                       NEW h \in Hashes, Exists(Own(r, h))'
                PROVE  HasPod(Own(r, h))'
    BY DEF CompletedRunsAreWhole
  <2>1. CASE Exists(Own(r, h)) /\ runStatus[r] = "completed"
    BY <1>2, <2>1 DEF WholeInv, CompletedRunsAreWhole
  <2>2. CASE runStatus[r] = "completed" /\ ~Exists(Own(r, h))
    BY <1>3, <2>2, OwnRowsMove DEF WholeInv, NothingAhead
  <2>3. CASE runStatus[r] # "completed"
    <3>1. Complete
      BY <2>3, StatusMoves
    <3>2. pc = "complete" /\ r = run /\ UNCHANGED ledger
      BY <2>3, <3>1 DEF Complete, RecordRun, StoreTypeOK
    <3>3. Exists(Own(run, h))
      BY <3>2 DEF Exists
    <3>4. HasPod(Own(run, h))
      BY <3>2, <3>3 DEF WholeInv, WholeSoFar, Succeeding
    <3>. QED BY <1>2, <3>2, <3>4
  <2>. QED BY <2>1, <2>2, <2>3
<1>. QED BY <1>4, <1>5, <1>6 DEF WholeInv

\* Each row that a completed run wrote has its pod: see CompletedRunsAreWhole.
THEOREM CompletedRunsLeaveNoGap == Spec => []CompletedRunsAreWhole
<1>1. WholeInv => CompletedRunsAreWhole
  BY DEF WholeInv
<1>. QED BY <1>1, InitTyped, NextTyped, InitLedger, NextLedger, InitWhole, NextWhole, PTL DEF Spec

----------------------------------------------------------------------------
(* The agent comes after its dependencies. *)

\* Nothing but the runner acts on pods.
Alone == Outside = {} /\ \A q \in Requests : q.keep # "time"

\* Ports that were seen in the pod dict belong to a container that answers.
PortsAreUp == portsSeen /\ pc \in {"resume", "bind", "wait"} => held[Hash] \in up

\* The loop of _apply has not begun.
NotBegun == pc \in {"idle", "list", "reconcile", "lifecycle", "act", "volumes"} => idx = 1

DependenciesUp ==
  pc # "cleanup" =>
    \A i \in 1..Len(Plan) : i < idx \/ pc = "keepalive" => held[Plan[i]] \in up

OrderInv == Alone => timers = {} /\ PortsAreUp /\ NotBegun /\ DependenciesUp

LEMMA InitOrder == Init => OrderInv
<1>. SUFFICES ASSUME Init PROVE OrderInv
  OBVIOUS
<1>1. idx = 1 /\ pc = "idle" /\ timers = {}
  BY DEF Init
<1>2. Len(Plan) \in Nat
  BY NoRequestIsARequest, PlanFacts DEF Init, Plan
<1>. QED BY <1>1, <1>2 DEF OrderInv, PortsAreUp, NotBegun, DependenciesUp

\* No pod goes down but by these steps of the runner.
LEMMA PodsStayUp ==
  ASSUME TypeInv, [Next]_vars, Alone, timers = {}, ~Act, ~CleanupRow, ~KeepAlive
  PROVE  up \subseteq up' /\ timers' = {}
<1>. USE TypedFacts
<1>1. CASE UNCHANGED <<up, timers>>
  BY <1>1
<1>2. CASE Start \/ ListPods \/ LifecycleDone \/ CleanupDone \/ Crash \/ Complete \/ RecordFailure
  BY <1>2 DEF Start, ListPods, LifecycleDone, CleanupDone, Crash, Complete, RecordFailure,
    providerVars, otherVars
<1>3. CASE Begin \/ Teardown \/ CreateVolumes \/ RunAgent \/ Lookup \/ WaitReady
  BY <1>3 DEF Begin, BeginWith, Teardown, CreateVolumes, RunAgent, Lookup, WaitReady,
    providerVars, otherVars
<1>4. CASE RecordPending \/ Bind \/ \E p \in Pods : RecordRemote(p)
  BY <1>4 DEF RecordPending, Bind, BindWith, RecordRemote, providerVars, otherVars
<1>5. CASE Schedule
  <2>1. req.keep # "time"
    BY DEF Alone
  <2>. QED BY <1>5, <2>1 DEF Schedule, providerVars
<1>6. CASE Resume
  <2>1. Execute(held[Hash], "resume") => UNCHANGED up
    BY DEF Execute, Accepts, After
  <2>2. CallFails(held[Hash], "resume") => UNCHANGED up
    BY <2>1 DEF CallFails, providerVars
  <2>. QED BY <1>6, <2>1, <2>2 DEF Resume, otherVars
<1>7. CASE Create
  BY <1>7 DEF Create, Deploy, DeployFails, providerVars, otherVars
<1>8. ASSUME NEW p \in Pods, Provider(p) PROVE up \subseteq up' /\ timers' = {}
  BY <1>8 DEF Provider, ServiceUp, Purge, otherVars
<1>9. ~\E p \in Pods, a \in LifecycleActions : OutsideAction(p, a)
  BY DEF Alone, OutsideAction
<1>10. ~\E t \in timers : TimerFires(t)
  OBVIOUS
<1>11. CASE UNCHANGED vars
  BY <1>11 DEF vars, providerVars, otherVars
<1>. QED BY <1>2, <1>3, <1>4, <1>5, <1>6, <1>7, <1>8, <1>9, <1>10, <1>11 DEF Next, Step

LEMMA NextOrder == TypeInv /\ LedgerInv /\ OrderInv /\ [Next]_vars => OrderInv'
<1>. SUFFICES ASSUME TypeInv, LedgerInv, OrderInv, [Next]_vars, Alone
              PROVE  timers' = {} /\ PortsAreUp' /\ NotBegun' /\ DependenciesUp'
  BY DEF OrderInv, Alone
<1>. USE TypedFacts
<1>1. timers = {} /\ PortsAreUp /\ NotBegun /\ DependenciesUp
  BY DEF OrderInv
<1>2. ASSUME Leave, timers' = {} PROVE timers' = {} /\ PortsAreUp' /\ NotBegun' /\ DependenciesUp'
  <2>1. pc' = "idle" /\ idx' = 1 /\ Plan' = NoRequest.plan
    BY <1>2 DEF Leave, Plan
  <2>2. Len(NoRequest.plan) \in Nat
    BY NoRequestIsARequest, PlanFacts
  <2>. QED BY <1>2, <2>1, <2>2 DEF PortsAreUp, NotBegun, DependenciesUp
<1>3. ASSUME UNCHANGED <<idx, held, portsSeen, req>>, up \subseteq up', timers' = {},
             pc # "cleanup" \/ pc' = "cleanup",
             pc' \in {"resume", "bind", "wait"} => pc \in {"resume", "bind", "wait"},
             pc' \in {"idle", "list", "reconcile", "lifecycle", "act", "volumes"} =>
               pc \in {"idle", "list", "reconcile", "lifecycle", "act", "volumes"},
             pc' = "keepalive" => pc = "keepalive" \/ (idx = Len(Plan) /\ held[Agent] \in up)
      PROVE  timers' = {} /\ PortsAreUp' /\ NotBegun' /\ DependenciesUp'
  <2>1. UNCHANGED <<Plan, Hash>>
    BY <1>3 DEF Plan, Hash
  <2>2. PortsAreUp'
    BY <1>1, <1>3, <2>1 DEF PortsAreUp
  <2>3. NotBegun'
    BY <1>1, <1>3 DEF NotBegun
  <2>4. ASSUME pc' # "cleanup", NEW i \in 1..Len(Plan), i < idx \/ pc' = "keepalive"
        PROVE  held[Plan[i]] \in up
    <3>1. CASE i < idx \/ pc = "keepalive"
      BY <1>1, <1>3, <2>4, <3>1 DEF DependenciesUp
    <3>2. CASE ~(i < idx) /\ idx = Len(Plan) /\ held[Agent] \in up
      <4>1. i = Len(Plan)
        BY <2>4, <3>2
      <4>. QED BY <3>2, <4>1 DEF Agent
    <3>. QED BY <1>3, <2>4, <3>1, <3>2
  <2>5. DependenciesUp'
    BY <1>3, <2>1, <2>4 DEF DependenciesUp
  <2>. QED BY <1>3, <2>2, <2>3, <2>5
<1>4. ~Act /\ ~CleanupRow /\ ~KeepAlive => up \subseteq up' /\ timers' = {}
  BY <1>1, PodsStayUp
<1>5. ASSUME idx' = 1, timers' = {}, pc' \notin {"resume", "bind", "wait", "keepalive"},
             Len(Plan') \in Nat
      PROVE  timers' = {} /\ PortsAreUp' /\ NotBegun' /\ DependenciesUp'
  BY <1>5 DEF PortsAreUp, NotBegun, DependenciesUp
<1>6. Len(Plan) \in Nat /\ Len(NoRequest.plan) \in Nat
  BY NoRequestIsARequest, PlanFacts
<1>7. CASE Leave /\ ~Act /\ ~CleanupRow /\ ~KeepAlive
  BY <1>2, <1>4, <1>7
<1>8. CASE Start \/ (ListPods /\ ~Leave) \/ Begin \/ (RecordFailure /\ ~Leave)
           \/ \E p \in Pods : RecordRemote(p)
  <2>1. timers' = {} /\ up \subseteq up'
    BY <1>1, <1>8 DEF Start, ListPods, Begin, BeginWith, RecordFailure, RecordRemote,
      providerVars, otherVars
  <2>2. CASE Start
    <3>1. idx' = 1 /\ pc' = "list" /\ req' \in Requests
      BY <1>1, <2>2 DEF Start, NotBegun
    <3>2. Len(Plan') \in Nat
      BY <3>1, PlanFacts DEF Plan
    <3>. QED BY <1>5, <2>1, <3>1, <3>2
  <2>3. CASE Begin \/ (ListPods /\ ~Leave) \/ \E p \in Pods : RecordRemote(p)
    <3>1. /\ UNCHANGED <<idx, held, portsSeen, req>>
          /\ pc \in {"list", "reconcile"}
          /\ pc' \in {"list", "reconcile", "lifecycle", "volumes"}
      BY <2>3 DEF Begin, BeginWith, ListPods, RecordRemote
    <3>. QED BY <1>3, <2>1, <3>1
  <2>4. CASE RecordFailure /\ ~Leave
    <3>1. UNCHANGED <<idx, held, portsSeen, req>> /\ pc' = "cleanup"
      BY <2>4 DEF RecordFailure
    <3>. QED BY <1>3, <2>1, <3>1
  <2>. QED BY <1>8, <2>2, <2>3, <2>4
<1>9. CASE Act
  <2>1. pc \in {"lifecycle", "act"} /\ pc' \in {"lifecycle", "fail"} /\ UNCHANGED <<idx, req>>
        /\ timers' = {}
    BY <1>1, <1>9 DEF Act, Goto, localVars, otherVars
  <2>2. idx' = 1 /\ Len(Plan') \in Nat
    BY <1>1, <1>6, <2>1 DEF NotBegun, Plan
  <2>. QED BY <1>5, <2>1, <2>2
<1>10. CASE CleanupRow
  BY <1>1, <1>10 DEF CleanupRow, CleanupRowWith, otherVars, PortsAreUp, NotBegun, DependenciesUp
<1>11. CASE KeepAlive
  <2>1. /\ pc = "keepalive" /\ pc' \in {"complete", "fail"} /\ UNCHANGED localVars
        /\ timers' = {} /\ idx = Len(Plan)
        /\ UNCHANGED providerVars \/ Execute(held[Agent], KeepAliveAction)
    BY <1>1, <1>11 DEF KeepAlive, Goto, CallFails, otherVars, TypeInv, Control
  <2>2. UNCHANGED <<idx, held, portsSeen, Plan, Hash>>
    BY <2>1 DEF localVars, Plan, Hash
  <2>3. up \ {held[Agent]} \subseteq up'
    BY <2>1 DEF Execute, providerVars
  <2>4. ASSUME NEW i \in 1..Len(Plan), i < idx PROVE held[Plan[i]] \in up'
    <3>1. held[Plan[i]] \in up
      BY <1>1, <2>1, <2>4 DEF DependenciesUp
    <3>2. held[Plan[i]] # NoPod /\ held[Agent] # NoPod
      BY <2>1, <3>1, NoPodAssumption DEF ProviderTypeOK, TypeInv, Holding
    <3>3. held[Plan[i]][2] = Plan[i] /\ held[Agent][2] = Agent
      BY <3>2 DEF LedgerInv, HeldIsReal
    <3>4. Plan[i] # Agent
      BY <2>1, <2>4, PlanIsInjective DEF Agent
    <3>. QED BY <2>3, <3>1, <3>3, <3>4
  <2>. QED BY <2>1, <2>2, <2>4 DEF PortsAreUp, NotBegun, DependenciesUp
<1>12. ASSUME UNCHANGED localVars, ~Act, ~CleanupRow, ~KeepAlive,
              pc # "cleanup" \/ pc' = "cleanup",
              pc' \in {"resume", "bind", "wait"} => pc \in {"resume", "bind", "wait"},
              pc' \in {"idle", "list", "reconcile", "lifecycle", "act", "volumes"} =>
                pc \in {"idle", "list", "reconcile", "lifecycle", "act", "volumes"},
              pc' = "keepalive" => pc = "keepalive" \/ (idx = Len(Plan) /\ held[Agent] \in up)
       PROVE  timers' = {} /\ PortsAreUp' /\ NotBegun' /\ DependenciesUp'
  <2>1. UNCHANGED <<idx, held, portsSeen, req>> /\ up \subseteq up' /\ timers' = {}
    BY <1>4, <1>12 DEF localVars
  <2>. HIDE <1>1
  <2>. QED BY <1>3, <1>12, <2>1
<1>13. CASE Teardown \/ CreateVolumes \/ RecordPending \/ Resume \/ Bind \/ Schedule
  <2>1. /\ UNCHANGED localVars
        /\ \/ pc = "lifecycle" /\ pc' \in {"act", "fail"}
           \/ pc = "volumes" /\ pc' \in {"record", "fail"}
           \/ pc = "record" /\ pc' = "lookup"
           \/ pc = "resume" /\ pc' \in {"bind", "fail"}
           \/ pc = "bind" /\ pc' \in {"wait", "schedule"}
           \/ pc = "schedule" /\ pc' = "agent"
    BY <1>13 DEF Teardown, CreateVolumes, RecordPending, Resume, Bind, BindWith, AfterBind,
      Schedule, Goto
  <2>2. ~CleanupRow /\ ~KeepAlive
    BY <2>1 DEF CleanupRow, CleanupRowWith, KeepAlive
  <2>. QED BY <1>9, <1>12, <2>1, <2>2
<1>14. CASE RunAgent
  <2>1. /\ UNCHANGED localVars /\ pc = "agent" /\ idx = Len(Plan)
        /\ pc' = "fail" \/ (pc' = "keepalive" /\ held[Agent] \in up)
    BY <1>14 DEF RunAgent, Goto, TypeInv, Control
  <2>2. ~Act /\ ~CleanupRow /\ ~KeepAlive
    BY <2>1 DEF Act, CleanupRow, CleanupRowWith, KeepAlive
  <2>. QED BY <1>12, <2>1, <2>2
<1>15. CASE WaitReady
  <2>1. pc = "wait" /\ pc' \in {"record", "fail"} /\ UNCHANGED <<held, portsSeen, req>>
        /\ UNCHANGED timers /\ UNCHANGED up
    BY <1>15 DEF WaitReady, Goto, localVars, providerVars, otherVars
  <2>2. CASE UNCHANGED idx
    BY <1>1, <1>3, <2>1, <2>2
  <2>3. CASE idx' = idx + 1 /\ pc' = "record"
    <3>1. held[Hash] \in up
      <4>1. (held[Hash] \in up \/ (portsSeen /\ Hash \notin Public)) \/ UNCHANGED idx
        BY <1>15 DEF WaitReady, Goto, localVars
      <4>2. idx' # idx
        BY <2>3
      <4>. QED BY <1>1, <2>1, <4>1, <4>2 DEF PortsAreUp
    <3>2. ASSUME NEW i \in 1..Len(Plan), i < idx + 1 PROVE held[Plan[i]] \in up
      <4>1. CASE i = idx
        BY <3>1, <4>1 DEF Hash
      <4>2. CASE i < idx
        BY <1>1, <2>1, <4>2 DEF DependenciesUp
      <4>. QED BY <3>2, <4>1, <4>2
    <3>3. UNCHANGED Plan
      BY <2>1 DEF Plan
    <3>. QED BY <1>1, <2>1, <2>3, <3>2, <3>3 DEF PortsAreUp, NotBegun, DependenciesUp
  <2>4. UNCHANGED idx \/ (idx' = idx + 1 /\ pc' = "record")
    BY <1>15 DEF WaitReady, Goto, localVars
  <2>. QED BY <2>2, <2>3, <2>4
<1>16. ASSUME NEW p \in Pods, NEW seen \in BOOLEAN, Hold(p, seen), seen => p \in up,
              ~Act, ~CleanupRow, ~KeepAlive,
              pc \in {"lookup", "create"}, pc' \in {"resume", "bind"}
       PROVE  timers' = {} /\ PortsAreUp' /\ NotBegun' /\ DependenciesUp'
  <2>1. up \subseteq up' /\ timers' = {}
    BY <1>4, <1>16
  <2>2. /\ UNCHANGED <<req, idx>> /\ held' = [held EXCEPT ![Hash] = p] /\ portsSeen' = seen
        /\ held \in [Hashes -> Pods \cup {NoPod}]
    BY <1>16 DEF Hold, TypeInv, TypeOK
  <2>3. UNCHANGED <<Plan, Hash>>
    BY <2>2 DEF Plan, Hash
  <2>4. PortsAreUp'
    BY <1>16, <2>1, <2>2, <2>3 DEF PortsAreUp
  <2>5. ASSUME NEW i \in 1..Len(Plan), i < idx PROVE held'[Plan[i]] \in up'
    <3>1. held[Plan[i]] \in up
      BY <1>1, <1>16, <2>5 DEF DependenciesUp
    <3>2. Plan[i] # Hash
      BY <2>5, PlanIsInjective DEF Hash
    <3>. QED BY <2>1, <2>2, <3>1, <3>2
  <2>. QED BY <1>16, <2>1, <2>2, <2>3, <2>4, <2>5 DEF NotBegun, DependenciesUp
<1>17. CASE Lookup
  <2>1. /\ pc = "lookup" /\ ~Act /\ ~CleanupRow /\ ~KeepAlive
        /\ \/ UNCHANGED localVars /\ pc' \in {"create", "fail"}
           \/ \E p : /\ pods[p] \in {"RUNNING", "EXITED"} /\ pc' \in {"resume", "bind"}
                     /\ p = ledger[Newest(RowsNaming(Hash))].pod
                     /\ req.reuse # "always_create" /\ RowsNaming(Hash) # {}
                     /\ Hold(p, FALSE) \/ Hold(p, p \in up)
    BY <1>17 DEF Lookup, Goto, Act, CleanupRow, CleanupRowWith, KeepAlive
  <2>2. CASE UNCHANGED localVars /\ pc' \in {"create", "fail"}
    BY <1>12, <2>1, <2>2
  <2>3. ASSUME NEW p, p = ledger[Newest(RowsNaming(Hash))].pod, RowsNaming(Hash) # {},
               pc' \in {"resume", "bind"}, Hold(p, FALSE) \/ Hold(p, p \in up)
        PROVE  timers' = {} /\ PortsAreUp' /\ NotBegun' /\ DependenciesUp'
    <3>1. p \in Pods
      <4>1. RowsNaming(Hash) \in SUBSET Keys /\ \A k \in RowsNaming(Hash) : HasPod(k)
        BY DEF RowsNaming
      <4>2. Newest(RowsNaming(Hash)) \in RowsNaming(Hash)
        BY <2>3, <4>1, NewestIsAMember
      <4>. QED BY <2>3, <4>1, <4>2 DEF HasPod, StoreTypeOK
    <3>2. CASE Hold(p, FALSE)
      BY <1>16, <2>1, <2>3, <3>1, <3>2
    <3>3. CASE Hold(p, p \in up)
      <4>. DEFINE answers == p \in up
      <4>0. answers \in BOOLEAN
        OBVIOUS
      <4>. HIDE DEF answers
      <4>1. PICK seen \in BOOLEAN : seen = answers
        BY <4>0
      <4>. USE DEF answers
      <4>. QED BY <1>16, <2>1, <2>3, <3>1, <3>3, <4>1
    <3>. QED BY <2>3, <3>2, <3>3
  <2>. QED BY <2>1, <2>2, <2>3
<1>18. CASE Create
  <2>1. /\ pc = "create" /\ ~Act /\ ~CleanupRow /\ ~KeepAlive /\ <<run, Hash>> \in Pods
        /\ \/ UNCHANGED localVars /\ pc' = "fail"
           \/ Hold(<<run, Hash>>, FALSE) /\ pc' = "bind"
    BY <1>18 DEF Create, Goto, Act, CleanupRow, CleanupRowWith, KeepAlive
  <2>. QED BY <1>12, <1>16, <2>1
<1>19. CASE UNCHANGED vars \/ \E p \in Pods : Provider(p)
  <2>1. UNCHANGED <<pc, localVars>> /\ up \subseteq up' /\ timers' = {}
    BY <1>1, <1>19 DEF vars, Provider, ServiceUp, Purge, providerVars, otherVars
  <2>2. UNCHANGED <<idx, held, portsSeen, req>>
    BY <2>1 DEF localVars
  <2>. HIDE <1>1
  <2>. QED BY <1>3, <2>1, <2>2
<1>20. ~(\E p \in Pods, a \in LifecycleActions : OutsideAction(p, a)) /\ ~(\E t \in timers : TimerFires(t))
  BY <1>1 DEF Alone, OutsideAction
<1>21. LifecycleDone \/ CleanupDone \/ Crash \/ Complete =>
         Leave /\ timers' = {}
  BY <1>1 DEF LifecycleDone, CleanupDone, Crash, Complete, otherVars
<1>22. ListPods \/ RecordFailure => timers' = {}
  BY <1>1 DEF ListPods, RecordFailure, otherVars
<1>. QED
  BY <1>2, <1>8, <1>9, <1>10, <1>11, <1>13, <1>14, <1>15, <1>17, <1>18, <1>19, <1>20, <1>21, <1>22
  DEF Next, Step

\* No resource is asked for before those ahead of it answer: see
\* AgentAfterDependencies.
THEOREM AgentComesLast == Spec => []AgentAfterDependencies
<1>1. OrderInv => AgentAfterDependencies
  BY DEF OrderInv, Alone, DependenciesUp, AgentAfterDependencies
<1>. QED BY <1>1, InitTyped, NextTyped, InitLedger, NextLedger, InitOrder, NextOrder, PTL DEF Spec

----------------------------------------------------------------------------
(* A pod that needs a volume is created after it. *)

Building == {"record", "lookup", "resume", "create", "bind", "wait"}

\* What the loop of _apply is going to create has its volume.
Provided ==
  pc \in Building =>
    \A i \in 1..Len(Plan) : Plan[i] \in NeedsVolume => <<run, Plan[i]>> \in volumes

VolumeInv == VolumesComeFirst /\ Provided

LEMMA InitVolumes == Init => VolumeInv
BY DEF Init, ProviderInit, VolumeInv, VolumesComeFirst, Provided, Building

LEMMA VolumesMove ==
  ASSUME TypeInv, [Next]_vars
  PROVE  CreateVolumes \/ UNCHANGED volumes
<1>1. CASE Start \/ ListPods \/ (\E p \in Pods : RecordRemote(p)) \/ Begin \/ Lookup \/ Create
  BY <1>1 DEF Start, ListPods, RecordRemote, Begin, BeginWith, Lookup, Create, otherVars
<1>2. CASE Teardown \/ Act \/ LifecycleDone \/ RecordPending \/ Resume \/ Bind \/ Schedule
           \/ RunAgent \/ KeepAlive
  BY <1>2 DEF Teardown, Act, LifecycleDone, RecordPending, Resume, Bind, BindWith, Schedule,
    RunAgent, KeepAlive, otherVars
<1>3. CASE WaitReady \/ Complete \/ RecordFailure \/ CleanupRow \/ CleanupDone \/ Crash
  BY <1>3 DEF WaitReady, Complete, RecordFailure, CleanupRow, CleanupRowWith, CleanupDone, Crash,
    otherVars
<1>4. CASE \/ UNCHANGED vars
           \/ \E t \in timers : TimerFires(t)
           \/ \E p \in Pods, a \in LifecycleActions : OutsideAction(p, a)
           \/ \E p \in Pods : Provider(p)
  BY <1>4 DEF vars, TimerFires, OutsideAction, Provider, otherVars
<1>. QED BY <1>1, <1>2, <1>3, <1>4 DEF Next, Step

\* The loop is entered from CreateVolumes only.
LEMMA BuildingIsEntered ==
  ASSUME TypeInv, [Next]_vars, pc' \in Building
  PROVE  /\ UNCHANGED <<run, req>>
         /\ pc \in Building \/ CreateVolumes
<1>. USE DEF Building
<1>1. CASE UNCHANGED <<pc, localVars>>
  BY <1>1 DEF localVars
<1>2. CASE Start \/ ListPods \/ (\E p \in Pods : RecordRemote(p)) \/ Begin \/ LifecycleDone
  BY <1>2 DEF Start, ListPods, RecordRemote, Begin, BeginWith, LifecycleDone, Leave
<1>3. CASE Teardown \/ Act \/ CreateVolumes \/ Schedule \/ RunAgent \/ KeepAlive
  BY <1>3 DEF Teardown, Act, CreateVolumes, Schedule, RunAgent, KeepAlive, Goto, localVars
<1>4. CASE RecordPending \/ Lookup \/ Resume \/ Create \/ Bind \/ WaitReady
  BY <1>4 DEF RecordPending, Lookup, Resume, Create, Bind, BindWith, AfterBind, WaitReady,
    Goto, Hold, localVars
<1>5. CASE Complete \/ RecordFailure \/ CleanupRow \/ CleanupDone \/ Crash
  BY <1>5 DEF Complete, RecordFailure, CleanupRow, CleanupRowWith, CleanupDone, Crash, Leave
<1>6. CASE \/ UNCHANGED vars
           \/ \E t \in timers : TimerFires(t)
           \/ \E p \in Pods, a \in LifecycleActions : OutsideAction(p, a)
           \/ \E p \in Pods : Provider(p)
  BY <1>1, <1>6 DEF vars, TimerFires, OutsideAction, Provider
<1>. QED BY <1>2, <1>3, <1>4, <1>5, <1>6 DEF Next, Step

LEMMA NextVolumes == TypeInv /\ VolumeInv /\ [Next]_vars => VolumeInv'
<1>. SUFFICES ASSUME TypeInv, VolumeInv, [Next]_vars PROVE VolumeInv'
  OBVIOUS
<1>. USE TypedFacts
<1>1. volumes \subseteq volumes'
  BY VolumesMove DEF CreateVolumes
<1>2. VolumesComeFirst'
  <2>. SUFFICES ASSUME NEW p \in Pods, pods'[p] # "ABSENT", p[2] \in NeedsVolume
                PROVE  p \in volumes'
    BY DEF VolumesComeFirst
  <2>1. CASE pods[p] # "ABSENT"
    BY <1>1, <2>1 DEF VolumeInv, VolumesComeFirst
  <2>2. CASE pods[p] = "ABSENT"
    <3>1. ~Quiet
      BY <2>2 DEF Quiet
    <3>2. ~RecordPending /\ ~Bind /\ ~(\E q \in Pods : RecordRemote(q))
      BY <2>2 DEF RecordPending, Bind, BindWith, RecordRemote, providerVars
    <3>3. Create
      BY <3>1, <3>2, LoudSteps
    <3>4. Deploy(<<run, Hash>>) \/ DeployFails(<<run, Hash>>)
      BY <3>3 DEF Create
    <3>5. p = <<run, Hash>>
      <4>1. PICK q \in Pods : q = <<run, Hash>>
        BY <3>3 DEF Create
      <4>2. \A r \in Pods \ {q} : pods'[r] = pods[r]
        BY <3>4, <4>1, DeployEffect
      <4>. QED BY <2>2, <4>1, <4>2
    <3>6. Hash \in NeedsVolume
      BY <3>5
    <3>. QED BY <1>1, <3>3, <3>5, <3>6 DEF Create, VolumeInv, Provided, Building, Hash
  <2>. QED BY <2>1, <2>2
<1>3. Provided'
  <2>. SUFFICES ASSUME pc' \in Building, NEW i \in 1..Len(Plan'), Plan'[i] \in NeedsVolume
                PROVE  <<run', Plan'[i]>> \in volumes'
    BY DEF Provided
  <2>1. UNCHANGED <<run, req, Plan>>
    BY BuildingIsEntered DEF Plan
  <2>2. CASE pc \in Building
    BY <1>1, <2>1, <2>2 DEF VolumeInv, Provided
  <2>3. CASE CreateVolumes
    <3>1. volumes' = volumes \cup VolumesUpTo(Len(Plan))
      <4>1. PICK n \in 0..Len(Plan) :
              /\ volumes' = volumes \cup VolumesUpTo(n)
              /\ n = Len(Plan) \/ Goto("fail")
        BY <2>3 DEF CreateVolumes
      <4>. QED BY <4>1 DEF Goto, Building
    <3>. QED BY <2>1, <3>1 DEF VolumesUpTo
  <2>. QED BY <2>2, <2>3, BuildingIsEntered
<1>. QED BY <1>2, <1>3 DEF VolumeInv

\* Volumes are made before the pods that mount them: see VolumesComeFirst.
THEOREM PodsHaveTheirVolumes == Spec => []VolumesComeFirst
<1>1. VolumeInv => VolumesComeFirst
  BY DEF VolumeInv
<1>. QED BY <1>1, InitTyped, NextTyped, InitVolumes, NextVolumes, PTL DEF Spec

============================================================================
