------------------------- MODULE RunnerReuseProofs --------------------------
(***************************************************************************)
(* More theorems of RunpodRunner, which rest on the invariants of          *)
(* RunpodRunnerProofs: what no hash ever has two of, and what stop,        *)
(* terminate and the clean-up of a failed run leave behind.                *)
(*                                                                         *)
(* All three need to know which steps can set a pod running.  Where nobody *)
(* resumes pods from outside these are Create and Resume.                  *)
(***************************************************************************)
EXTENDS RunpodRunnerProofs

NobodyResumes == "resume" \notin Outside

LEMMA CallStops ==
  ASSUME ProviderTypeOK, NEW p \in Pods, NEW a \in {"stop", "terminate"},
         Execute(p, a) \/ CallFails(p, a)
  PROVE  /\ \A q \in Pods : pods'[q] = "RUNNING" => pods[q] = "RUNNING"
         /\ Execute(p, a) => pods'[p] # "RUNNING"
<1>1. After(a, pods[p]) # "RUNNING" \/ pods[p] \notin Known
  BY DEF After, Known
<1>2. CASE Execute(p, a)
  BY <1>1, <1>2 DEF Execute, ProviderTypeOK, Accepts, Known
<1>3. CASE UNCHANGED providerVars /\ ~Execute(p, a)
  BY <1>3 DEF providerVars
<1>. QED BY <1>2, <1>3 DEF CallFails

LEMMA RunningStarts ==
  ASSUME TypeInv, [Next]_vars, NobodyResumes, NEW p \in Pods, pods'[p] = "RUNNING"
  PROVE  pods[p] = "RUNNING" \/ Resume \/ (Create /\ p = <<run, Hash>>)
<1>. USE TypedFacts
<1>1. CASE UNCHANGED pods
  BY <1>1
<1>2. ASSUME NEW q \in Pods, NEW a \in {"stop", "terminate"}, Execute(q, a) \/ CallFails(q, a)
      PROVE  pods[p] = "RUNNING"
  BY <1>2, CallStops
<1>3. CASE Start \/ ListPods \/ Crash \/ Teardown \/ LifecycleDone \/ CleanupDone
           \/ CreateVolumes \/ Lookup \/ WaitReady \/ Schedule \/ RunAgent \/ UNCHANGED vars
  BY <1>1, <1>3 DEF Start, ListPods, Crash, Teardown, LifecycleDone, CleanupDone,
    CreateVolumes, Lookup, WaitReady, Schedule, RunAgent, providerVars, vars
<1>4. CASE Begin \/ Complete \/ RecordFailure \/ RecordPending \/ Bind
           \/ \E q \in Pods : RecordRemote(q)
  BY <1>1, <1>4 DEF Begin, BeginWith, Complete, RecordFailure, RecordPending, Bind, BindWith,
    RecordRemote, providerVars
<1>5. CASE Act
  <2>1. ledger[Visited].pod \in Pods /\ req.mode \in {"stop", "terminate"}
    BY <1>5 DEF Act, TypeInv, Control, IsLifecycle
  <2>. QED BY <1>2, <1>5, <2>1 DEF Act
<1>6. CASE CleanupRow
  <2>1. ledger[Visited].pod \in Pods /\ CleanupAction \in {"stop", "terminate"}
    BY <1>6 DEF CleanupRow, CleanupRowWith, CleanupAction
  <2>. QED BY <1>2, <1>6, <2>1 DEF CleanupRow, CleanupRowWith
<1>7. CASE KeepAlive
  <2>1. held[Agent] \in Pods
    BY <1>7 DEF KeepAlive, TypeInv, Holding
  <2>. QED BY <1>1, <1>2, <1>7, <2>1, KeepAliveAssumption DEF KeepAlive, providerVars
<1>8. ASSUME NEW t \in timers, TimerFires(t) PROVE pods[p] = "RUNNING"
  <2>1. t[2] \in Pods
    BY DEF TypeInv, TypeOK
  <2>. QED BY <1>2, <1>8, <2>1, KeepAliveAssumption DEF TimerFires
<1>9. ASSUME NEW q \in Pods, NEW a \in LifecycleActions, OutsideAction(q, a)
      PROVE  pods[p] = "RUNNING"
  <2>1. a \in {"stop", "terminate"}
    BY <1>9 DEF OutsideAction, NobodyResumes, LifecycleActions
  <2>. QED BY <1>2, <1>9, <2>1 DEF OutsideAction
<1>10. ASSUME NEW q \in Pods, Provider(q) PROVE pods[p] = "RUNNING"
  BY <1>10 DEF Provider, ServiceUp, Purge, ProviderTypeOK
<1>11. CASE Create
  <2>1. <<run, Hash>> \in Pods /\ (Deploy(<<run, Hash>>) \/ DeployFails(<<run, Hash>>))
    BY <1>11 DEF Create
  <2>. QED BY <1>11, <2>1, DeployEffect
<1>. QED BY <1>3, <1>4, <1>5, <1>6, <1>7, <1>8, <1>9, <1>10, <1>11 DEF Next, Step

----------------------------------------------------------------------------
(* What a failed run leaves. *)

\* The rows of the run that are not yet visited, or have the event.
CleaningInv ==
  NobodyResumes /\ pc = "cleanup" =>
    \A k \in RowsOfRun(run) :
      pods[ledger[k].pod] = "RUNNING" => k \in todo \/ k \in cleanupFailed

\* The step before a step of the clean-up.
LEMMA CleanupIsReached ==
  ASSUME TypeInv, [Next]_vars, pc' = "cleanup"
  PROVE  RecordFailure \/ CleanupRow \/ UNCHANGED <<pc, localVars, cleanupFailed>>
<1>1. CASE Start \/ ListPods \/ (\E p \in Pods : RecordRemote(p)) \/ Begin
           \/ Teardown \/ Act \/ LifecycleDone \/ CreateVolumes
  BY <1>1 DEF Start, ListPods, RecordRemote, Begin, BeginWith, Teardown, Act, LifecycleDone,
    CreateVolumes, Goto, Leave
<1>2. CASE RecordPending \/ Lookup \/ Resume \/ Create \/ Bind \/ WaitReady \/ Schedule
           \/ RunAgent \/ KeepAlive \/ Complete \/ CleanupDone \/ Crash
  BY <1>2 DEF RecordPending, Lookup, Resume, Create, Bind, BindWith, AfterBind, WaitReady,
    Schedule, RunAgent, KeepAlive, Complete, CleanupDone, Crash, Goto, Hold, Leave
<1>3. CASE \/ UNCHANGED vars
           \/ \E t \in timers : TimerFires(t)
           \/ \E p \in Pods, a \in LifecycleActions : OutsideAction(p, a)
           \/ \E p \in Pods : Provider(p)
  BY <1>3 DEF vars, TimerFires, OutsideAction, Provider, storeVars
<1>. QED BY <1>1, <1>2, <1>3 DEF Next, Step

LEMMA NextCleaning == TypeInv /\ LedgerInv /\ CleaningInv /\ [Next]_vars => CleaningInv'
<1>. SUFFICES ASSUME TypeInv, LedgerInv, CleaningInv, [Next]_vars, NobodyResumes,
                     pc' = "cleanup", NEW k \in RowsOfRun(run)',
                     pods'[ledger'[k].pod] = "RUNNING"
              PROVE  k \in todo' \/ k \in cleanupFailed'
  BY DEF CleaningInv
<1>. USE TypedFacts
<1>1. RecordFailure \/ CleanupRow \/ UNCHANGED <<pc, localVars, cleanupFailed>>
  BY CleanupIsReached
<1>2. CASE RecordFailure
  BY <1>2 DEF RecordFailure, Leave, RowsOfRun, HasPod, RecordRun
<1>3. CASE ~RecordFailure
  <2>1. run' = run /\ pc = "cleanup"
    BY <1>1, <1>3 DEF localVars, CleanupRow, CleanupRowWith
  <2>2. Quiet
    BY <2>1, LoudSteps DEF RecordPending, Create, Bind, BindWith, RecordRemote
  <2>3. k \in RowsOfRun(run) /\ ledger'[k].pod = ledger[k].pod /\ ledger[k].pod \in Pods
        /\ k \in Keys
    BY <2>1, <2>2 DEF RowsOfRun, HasPod, Quiet, StoreTypeOK
  <2>4. pods[ledger[k].pod] = "RUNNING"
    BY <2>1, <2>3, RunningStarts DEF Resume, Create
  <2>5. k \in todo \/ k \in cleanupFailed
    BY <2>1, <2>3, <2>4 DEF CleaningInv
  <2>6. CASE CleanupRow
    <3>. DEFINE p == ledger[Visited].pod
    <3>1. p \in Pods /\ CleanupAction \in {"stop", "terminate"}
      BY <2>6 DEF CleanupRow, CleanupRowWith, CleanupAction
    <3>2. CASE Execute(p, CleanupAction) /\ todo' = todo \ {Visited} /\ UNCHANGED cleanupFailed
      <4>1. pods'[p] # "RUNNING"
        BY <3>1, <3>2, CallStops
      <4>2. k # Visited
        BY <2>3, <4>1
      <4>. QED BY <2>5, <3>2, <4>2
    <3>3. CASE todo' = todo \ {Visited} /\ cleanupFailed' = cleanupFailed \cup {Visited}
      BY <2>5, <3>3
    <3>. QED BY <2>6, <3>2, <3>3 DEF CleanupRow, CleanupRowWith
  <2>7. CASE UNCHANGED <<pc, localVars, cleanupFailed>>
    BY <2>5, <2>7 DEF localVars
  <2>. QED BY <1>1, <1>3, <2>6, <2>7
<1>. QED BY <1>2, <1>3

\* When _cleanup_created has gone through the rows of a failed run, each of
\* their pods is not running or has the event that says why, however many of
\* its calls fail and whatever else acts on pods: see FailedRunsAreCleaned.
THEOREM FailuresAreCleaned == Spec => FailedRunsAreCleaned
<1>1. Init => CleaningInv
  BY DEF Init, CleaningInv
<1>2. CleaningInv =>
        (CleanupDone /\ "resume" \notin Outside =>
           \A k \in RowsOfRun(run) : pods[ledger[k].pod] = "RUNNING" => k \in cleanupFailed)
  BY DEF CleaningInv, CleanupDone, NobodyResumes
<1>. QED BY <1>1, <1>2, InitTyped, NextTyped, InitLedger, NextLedger, NextCleaning, PTL
     DEF Spec, FailedRunsAreCleaned
----------------------------------------------------------------------------
(* What reconciliation has written, and when. *)

\* The row of a pod that was listed names that pod.
RemotesNamed ==
  \A p \in Pods : Exists(Remote(p)) => ledger[Remote(p)].pod = p /\ pods[p] # "ABSENT"

\* Past reconciliation every live pod of an earlier run has such a row.
Reconciled ==
  /\ pc = "reconcile" =>
       \A p \in Pods : pods[p] \in Known /\ p[1] # run =>
         Exists(Remote(p)) \/ listing[p] # "ABSENT"
  /\ pc \notin {"idle", "list", "reconcile"} =>
       \A p \in Pods : pods[p] \in Known /\ p[1] # run => Exists(Remote(p))
  /\ pc # "reconcile" => listing = NothingListed

\* A run has no pods before _apply.
NoneYet ==
  pc \in {"list", "reconcile", "lifecycle", "act", "volumes"} =>
    \A h \in Hashes : pods[<<run, h>>] = "ABSENT"

\* A pod of a hash is created when those before it have been listed.
Earlier(q, p) == q[2] = p[2] /\ q[1] < p[1] /\ pods[p] # "ABSENT"
Succession ==
  \A p, q \in Pods :
    Earlier(q, p) /\ (pods[q] \in Known \/ listing[q] # "ABSENT") => Exists(Remote(q))

RemoteInv == RemotesNamed /\ Reconciled /\ NoneYet /\ Succession

\* UpsertEffect, with created_at.
LEMMA UpsertDates ==
  ASSUME StoreTypeOK, Dated, NEW k \in Keys, NEW p \in Pods \cup {NoPod},
         NEW s \in RowStatus, Upsert(k, p, s)
  PROVE  /\ ledger'[k].at = IF Exists(k) THEN ledger[k].at ELSE clock + 1
         /\ \A j \in Keys : Exists(j) => Exists(j)'
<1>. DEFINE at == IF Exists(k) THEN ledger[k].at ELSE clock + 1
            row == [pod |-> p, status |-> s, at |-> at]
<1>1. ledger' = [ledger EXCEPT ![k] = row]
  BY DEF Upsert
<1>2. row.at = at
  OBVIOUS
<1>. HIDE DEF at, row
<1>3. ledger'[k] = row
  BY <1>1 DEF StoreTypeOK
<1>. QED BY <1>2, <1>3, UpsertEffect DEF at, Exists

\* RecordPending and Bind write one row, the run's own; RecordRemote the pod's.
LEMMA OwnRowWritten ==
  ASSUME TypeInv, LedgerInv, RecordPending \/ Bind
  PROVE  /\ Own(run, Hash) \in Keys /\ ~HasPod(Own(run, Hash)) /\ UNCHANGED providerVars
         /\ \A j \in Keys \ {Own(run, Hash)} : ledger'[j] = ledger[j]
         /\ \A p \in Pods : Remote(p) \in Keys /\ ledger'[Remote(p)] = ledger[Remote(p)]
         /\ \A j \in Keys : Exists(j) => Exists(j)'
         /\ ledger'[Own(run, Hash)].pod = IF Bind THEN held[Hash] ELSE NoPod
<1>. USE TypedFacts
<1>1. Own(run, Hash) \in Keys /\ ~HasPod(Own(run, Hash)) /\ UNCHANGED providerVars
  BY OwnRowIsFree DEF RecordPending, Bind, BindWith
<1>a. \A p \in Pods : Remote(p) \in Keys /\ Remote(p) # Own(run, Hash)
  BY KeyFacts DEF RecordPending, Bind, BindWith, TypeInv, Control
<1>2. CASE RecordPending
  <2>1. Upsert(Own(run, Hash), NoPod, "creating") /\ "creating" \in RowStatus /\ ~Bind
    BY <1>2 DEF RecordPending, RowStatus, Bind, BindWith
  <2>. QED BY <1>1, <1>a, <2>1, UpsertEffect, UpsertDates
<1>3. CASE Bind
  <2>1. Upsert(Own(run, Hash), held[Hash], "RUNNING") /\ "RUNNING" \in RowStatus
        /\ held[Hash] \in Pods
    BY <1>3 DEF Bind, BindWith, RowStatus, Known, TypeInv, Holding
  <2>. QED BY <1>1, <1>a, <1>3, <2>1, UpsertEffect, UpsertDates
<1>. QED BY <1>2, <1>3

LEMMA RemoteRowWritten ==
  ASSUME TypeInv, NEW p \in Pods, RecordRemote(p)
  PROVE  /\ pc = "reconcile" /\ listing[p] # "ABSENT"
         /\ UNCHANGED providerVars /\ UNCHANGED <<pc, run, req, idx, held, todo>>
         /\ \A q \in Pods \ {p} : listing'[q] = listing[q]
         /\ listing'[p] = "ABSENT"
         /\ Remote(p) \in Keys /\ ledger'[Remote(p)].pod = p /\ Exists(Remote(p))'
         /\ \A j \in Keys \ {Remote(p)} : ledger'[j] = ledger[j]
         /\ \A j \in Keys : Exists(j) => Exists(j)'
         /\ ledger'[Remote(p)].at =
              IF Exists(Remote(p)) THEN ledger[Remote(p)].at ELSE clock + 1
<1>. USE TypedFacts, KeyFacts
<1>1. Upsert(Remote(p), p, listing[p]) /\ listing[p] \in RowStatus /\ Remote(p) \in Keys
  BY DEF RecordRemote, TypeInv, TypeOK, RowStatus
<1>2. /\ ledger'[Remote(p)].pod = p /\ Exists(Remote(p))'
      /\ \A j \in Keys \ {Remote(p)} : ledger'[j] = ledger[j]
  BY <1>1, UpsertEffect
<1>3. /\ \A j \in Keys : Exists(j) => Exists(j)'
      /\ ledger'[Remote(p)].at =
           IF Exists(Remote(p)) THEN ledger[Remote(p)].at ELSE clock + 1
  BY <1>1, UpsertDates
<1>4. (\A q \in Pods \ {p} : listing'[q] = listing[q]) /\ listing'[p] = "ABSENT"
  BY DEF RecordRemote, TypeInv, TypeOK
<1>. QED BY <1>1, <1>2, <1>3, <1>4 DEF RecordRemote

\* What every step keeps.
LEMMA RowsStay ==
  ASSUME TypeInv, LedgerInv, [Next]_vars
  PROVE  /\ \A k \in Keys : Exists(k) => Exists(k)'
         /\ \A p \in Pods : pods[p] # "ABSENT" => pods'[p] # "ABSENT"
         /\ ~Create => \A p \in Pods : pods'[p] # "ABSENT" => pods[p] # "ABSENT"
         /\ Create => /\ pc = "create" /\ UNCHANGED ledger /\ pods[<<run, Hash>>] = "ABSENT"
                      /\ <<run, Hash>> \in Pods
                      /\ \A p \in Pods : p # <<run, Hash>> => pods'[p] = pods[p]
<1>. USE TypedFacts, KeyFacts
<1>1. CASE Quiet
  <2>1. Create => <<run, Hash>> \in Pods /\ pc = "create" /\ UNCHANGED ledger
                  /\ (Deploy(<<run, Hash>>) \/ DeployFails(<<run, Hash>>))
    BY DEF Create, storeVars
  <2>2. Create => pods[<<run, Hash>>] = "ABSENT"
    BY <2>1 DEF LedgerInv, Untouched, Applying, Hash
  <2>. QED BY <1>1, <2>1, <2>2, DeployEffect DEF Quiet, Exists
<1>2. CASE RecordPending \/ Bind
  BY <1>2, OwnRowWritten DEF providerVars, RecordPending, Bind, BindWith, Create
<1>3. CASE \E p \in Pods : RecordRemote(p)
  BY <1>3, RemoteRowWritten DEF providerVars, Create
<1>4. CASE Create
  <2>1. <<run, Hash>> \in Pods /\ pc = "create" /\ UNCHANGED ledger
        /\ (Deploy(<<run, Hash>>) \/ DeployFails(<<run, Hash>>))
    BY <1>4 DEF Create, storeVars
  <2>2. pods[<<run, Hash>>] = "ABSENT"
    BY <2>1 DEF LedgerInv, Untouched, Applying, Hash
  <2>. QED BY <1>4, <2>1, <2>2, DeployEffect DEF Exists
<1>. QED BY <1>1, <1>2, <1>3, <1>4, LoudSteps

LEMMA RemotesStayNamed ==
  ASSUME TypeInv, LedgerInv, RemotesNamed, [Next]_vars
  PROVE  RemotesNamed'
<1>. SUFFICES ASSUME NEW p \in Pods, Exists(Remote(p))'
              PROVE  ledger'[Remote(p)].pod = p /\ pods'[p] # "ABSENT"
  BY DEF RemotesNamed
<1>. USE TypedFacts, KeyFacts
<1>1. CASE Exists(Remote(p))
  <2>1. ledger[Remote(p)].pod = p /\ pods[p] # "ABSENT" /\ HasPod(Remote(p))
    BY <1>1, NoPodAssumption DEF RemotesNamed, HasPod
  <2>. QED BY <2>1, RowsKeepTheirPods, RowsStay
<1>2. CASE ~Exists(Remote(p))
  <2>1. ~Quiet /\ ~Create
    BY <1>2, RowsStay DEF Quiet, Exists
  <2>2. ~RecordPending /\ ~Bind
    BY <1>2, OwnRowWritten DEF Exists
  <2>3. PICK q \in Pods : RecordRemote(q)
    BY <2>1, <2>2, LoudSteps
  <2>4. q = p
    BY <1>2, <2>3, RemoteRowWritten DEF Exists
  <2>. QED BY <2>3, <2>4, RemoteRowWritten DEF LedgerInv, ListedIsReal, providerVars
<1>. QED BY <1>1, <1>2

\* Which steps change the answer of list_pods that is still to be recorded.
LEMMA ListingMoves ==
  ASSUME TypeInv, [Next]_vars
  PROVE  \/ /\ pc = "list" /\ pc' = "reconcile" /\ UNCHANGED <<pods, ledger, run>>
            /\ listing' = [p \in Pods |-> IF pods[p] \in Known THEN pods[p] ELSE "ABSENT"]
         \/ \E p \in Pods : RecordRemote(p)
         \/ pc = "reconcile" /\ pc' = "reconcile" /\ UNCHANGED listing
         \/ /\ pc' # "reconcile"
            /\ \/ listing' = NothingListed
               \/ UNCHANGED listing /\ (pc # "reconcile" \/ listing = NothingListed)
<1>1. CASE UNCHANGED <<pc, localVars>>
  BY <1>1 DEF localVars
<1>2. CASE Start \/ LifecycleDone \/ Complete \/ CleanupDone \/ Crash
  BY <1>2 DEF Start, LifecycleDone, Complete, CleanupDone, Crash, Leave
<1>3. CASE ListPods
  BY <1>3 DEF ListPods, Leave, providerVars, storeVars
<1>4. CASE Begin
  BY <1>4 DEF Begin, BeginWith
<1>5. CASE Teardown \/ Act \/ CreateVolumes \/ RecordPending \/ Resume \/ Bind
           \/ Schedule \/ RunAgent \/ KeepAlive
  BY <1>5 DEF Teardown, Act, CreateVolumes, RecordPending, Resume, Bind, BindWith,
    AfterBind, Schedule, RunAgent, KeepAlive, Goto, localVars
<1>6. CASE Lookup \/ Create \/ WaitReady
  BY <1>6 DEF Lookup, Create, WaitReady, Goto, Hold, localVars
<1>7. CASE RecordFailure \/ CleanupRow
  BY <1>7 DEF RecordFailure, CleanupRow, CleanupRowWith, Leave
<1>8. CASE \/ UNCHANGED vars
           \/ \E t \in timers : TimerFires(t)
           \/ \E p \in Pods, a \in LifecycleActions : OutsideAction(p, a)
           \/ \E p \in Pods : Provider(p)
  BY <1>1, <1>8 DEF vars, TimerFires, OutsideAction, Provider
<1>. QED BY <1>2, <1>3, <1>4, <1>5, <1>6, <1>7, <1>8 DEF Next, Step

LEMMA NextReconciled ==
  ASSUME TypeInv, LedgerInv, Reconciled, [Next]_vars
  PROVE  Reconciled'
<1>1. ASSUME pc' \notin {"idle", "list"}, NEW p \in Pods, pods'[p] \in Known, p[1] # run'
      PROVE  Exists(Remote(p))' \/ (pc' = "reconcile" /\ listing'[p] # "ABSENT")
  <2>1. run' = run /\ pods[p] \in Known /\ Remote(p) \in Keys
    BY <1>1, RunnerMoves, LivePodsAreOld, KeyFacts
  <2>2. CASE Exists(Remote(p))
    BY <2>1, <2>2, RowsStay
  <2>3. CASE pc' = "reconcile" /\ ~Exists(Remote(p))
    <3>1. CASE ListPods
      BY <2>1, <2>3, <3>1 DEF ListPods, Leave, providerVars, Known
    <3>2. ASSUME NEW q \in Pods, RecordRemote(q)
          PROVE  Exists(Remote(p))' \/ listing'[p] # "ABSENT"
      <4>1. listing[p] # "ABSENT"
        BY <1>1, <2>1, <2>3, <3>2 DEF RecordRemote, Reconciled
      <4>2. Exists(Remote(q))' /\ \A x \in Pods \ {q} : listing'[x] = listing[x]
        BY <3>2, RemoteRowWritten
      <4>. QED BY <4>1, <4>2
    <3>3. CASE pc = "reconcile" /\ UNCHANGED listing
      BY <1>1, <2>1, <2>3, <3>3 DEF Reconciled
    <3>. QED BY <1>1, <2>3, <3>1, <3>2, <3>3, RunnerMoves
  <2>4. CASE pc' # "reconcile" /\ ~Exists(Remote(p))
    <3>1. ~Begin
      BY <1>1, <2>1, <2>4 DEF Begin, BeginWith, NothingListed, Reconciled
    <3>2. pc \notin {"idle", "list", "reconcile"}
      BY <1>1, <2>4, <3>1, RunnerMoves
    <3>. QED BY <1>1, <2>1, <2>4, <3>2 DEF Reconciled
  <2>. QED BY <2>2, <2>3, <2>4
<1>2. pc' # "reconcile" => listing' = NothingListed
  BY ListingMoves DEF Reconciled, RecordRemote
<1>. QED BY <1>1, <1>2 DEF Reconciled

\* The steps before _apply, and how a run comes to them.
LEMMA NotBegunIsReached ==
  ASSUME TypeInv, [Next]_vars,
         pc' \in {"list", "reconcile", "lifecycle", "act", "volumes"}
  PROVE  \/ Start
         \/ pc \in {"list", "reconcile", "lifecycle", "act", "volumes"} /\ UNCHANGED run
<1>1. CASE UNCHANGED <<pc, localVars>>
  BY <1>1 DEF localVars
<1>2. CASE Start \/ ListPods \/ (\E p \in Pods : RecordRemote(p)) \/ Begin \/ LifecycleDone
  BY <1>2 DEF Start, ListPods, RecordRemote, Begin, BeginWith, LifecycleDone, Leave
<1>3. CASE Teardown \/ Act \/ CreateVolumes \/ Schedule \/ RunAgent \/ KeepAlive
  BY <1>3 DEF Teardown, Act, CreateVolumes, Schedule, RunAgent, KeepAlive, Goto, localVars
<1>4. CASE RecordPending \/ Lookup \/ Resume \/ Create \/ Bind \/ WaitReady
  BY <1>4 DEF RecordPending, Lookup, Resume, Create, Bind, BindWith, AfterBind, WaitReady,
    Goto, Hold, localVars
<1>5. CASE Complete \/ RecordFailure \/ CleanupRow \/ CleanupDone \/ Crash
  BY <1>5 DEF Complete, RecordFailure, CleanupRow, CleanupRowWith, CleanupDone, Crash, Leave
<1>6. CASE \/ UNCHANGED vars
           \/ \E t \in timers : TimerFires(t)
           \/ \E p \in Pods, a \in LifecycleActions : OutsideAction(p, a)
           \/ \E p \in Pods : Provider(p)
  BY <1>1, <1>6 DEF vars, TimerFires, OutsideAction, Provider
<1>. QED BY <1>2, <1>3, <1>4, <1>5, <1>6 DEF Next, Step

LEMMA NextNoneYet ==
  ASSUME TypeInv, LedgerInv, NoneYet, [Next]_vars
  PROVE  NoneYet'
<1>. SUFFICES ASSUME pc' \in {"list", "reconcile", "lifecycle", "act", "volumes"},
                     NEW h \in Hashes
              PROVE  pods'[<<run', h>>] = "ABSENT"
  BY DEF NoneYet
<1>1. CASE Start
  <2>1. run' = run + 1 /\ run' \in Runs /\ run' > run /\ UNCHANGED pods
    BY <1>1, MaxRunsAssumption DEF Start, TypeInv, TypeOK, Runs, providerVars
  <2>. QED BY <2>1 DEF LedgerInv, Untouched
<1>2. CASE pc \in {"list", "reconcile", "lifecycle", "act", "volumes"} /\ UNCHANGED run
  <2>1. pods[<<run, h>>] = "ABSENT" /\ <<run, h>> \in Pods
    BY <1>2, TypedFacts DEF NoneYet
  <2>2. ~Create
    BY <1>2 DEF Create
  <2>. QED BY <1>2, <2>1, <2>2, RowsStay
<1>. QED BY <1>1, <1>2, NotBegunIsReached

LEMMA NextSuccession ==
  ASSUME TypeInv, LedgerInv, Reconciled, Succession, [Next]_vars
  PROVE  Succession'
<1>. SUFFICES ASSUME NEW p \in Pods, NEW q \in Pods, Earlier(q, p)',
                     pods'[q] \in Known \/ listing'[q] # "ABSENT",
                     ~Exists(Remote(q))
              PROVE  Exists(Remote(q))'
  <2>1. \A q \in Pods : Exists(Remote(q)) => Exists(Remote(q))'
    BY RowsStay, KeyFacts
  <2>. QED BY <2>1 DEF Succession
<1>0. q[2] = p[2] /\ q[1] < p[1] /\ pods'[p] # "ABSENT" /\ q # p
  BY KeyFacts DEF Earlier, Runs
<1>1. CASE ~Create
  <2>1. Earlier(q, p)
    BY <1>0, <1>1, RowsStay DEF Earlier
  <2>2. pods'[q] \in Known => pods[q] \in Known
    BY <1>1, LoudSteps DEF Quiet, RecordPending, Bind, BindWith, RecordRemote, providerVars
  <2>3. pods[q] \notin Known /\ listing[q] = "ABSENT"
    BY <2>1 DEF Succession
  <2>4. listing'[q] # "ABSENT"
    BY <2>2, <2>3
  <2>5. CASE listing' = [x \in Pods |-> IF pods[x] \in Known THEN pods[x] ELSE "ABSENT"]
    BY <2>3, <2>4, <2>5
  <2>6. ASSUME NEW x \in Pods, RecordRemote(x) PROVE FALSE
    BY <2>3, <2>4, <2>6, RemoteRowWritten
  <2>7. CASE UNCHANGED listing \/ listing' = NothingListed
    BY <2>3, <2>4, <2>7 DEF NothingListed
  <2>. QED BY <2>5, <2>6, <2>7, ListingMoves
<1>2. CASE Create
  <2>. DEFINE new == <<run, Hash>>
  <2>1. /\ pc = "create" /\ new \in Pods /\ pods[new] = "ABSENT"
        /\ \A x \in Pods : x # new => pods'[x] = pods[x]
    BY <1>2, RowsStay
  <2>2. listing = NothingListed /\ UNCHANGED listing
    BY <1>2, <2>1 DEF Create, Goto, Hold, localVars, Reconciled
  <2>3. pods'[q] \in Known
    BY <2>2 DEF NothingListed
  <2>4. new[1] = run
    OBVIOUS
  <2>. HIDE DEF new
  <2>5. CASE p # new /\ q # new
    <3>1. Earlier(q, p) /\ pods[q] \in Known
      BY <1>0, <2>1, <2>3, <2>5 DEF Earlier
    <3>. QED BY <3>1 DEF Succession
  <2>6. CASE p # new /\ q = new
    <3>1. p[1] > run /\ pods[p] # "ABSENT" /\ p[1] \in Runs /\ p[2] \in Hashes
          /\ p = <<p[1], p[2]>>
      BY <1>0, <2>1, <2>4, <2>6, KeyFacts DEF TypeInv, TypeOK, Runs
    <3>. QED BY <3>1 DEF LedgerInv, Untouched
  <2>7. CASE p = new
    <3>1. q[1] # run /\ pods[q] \in Known
      BY <1>0, <2>1, <2>3, <2>4, <2>7, KeyFacts DEF Runs
    <3>. QED BY <2>1, <3>1 DEF Reconciled
  <2>. QED BY <2>5, <2>6, <2>7
<1>. QED BY <1>1, <1>2

LEMMA InitRemote == Init => RemoteInv
<1>. SUFFICES ASSUME Init PROVE RemoteInv
  OBVIOUS
<1>1. \A p \in Pods : ~Exists(Remote(p)) /\ pods[p] = "ABSENT"
  BY KeyFacts DEF Init, ProviderInit, StoreInit, Exists
<1>2. pc = "idle" /\ listing = NothingListed
  BY DEF Init
<1>. QED BY <1>1, <1>2 DEF RemoteInv, RemotesNamed, Reconciled, NoneYet, Succession, Earlier

LEMMA NextRemote == TypeInv /\ LedgerInv /\ RemoteInv /\ [Next]_vars => RemoteInv'
BY RemotesStayNamed, NextReconciled, NextNoneYet, NextSuccession DEF RemoteInv

----------------------------------------------------------------------------
(* Reuse takes the pod that runs, if one does. *)

OnlyReused == NobodyResumes /\ \A q \in Requests : q.reuse = "reuse_matching"

\* No pod of the hash was created after p.
Latest(p) == \A q \in Pods : q[2] = p[2] /\ pods[q] # "ABSENT" => q[1] <= p[1]

\* Rows naming earlier pods of the hash are older than the row of a listed pod.
Ordered ==
  \A p \in Pods, k \in Keys :
    Exists(Remote(p)) /\ HasPod(k) /\ Earlier(ledger[k].pod, p) =>
      ledger[k].at < ledger[Remote(p)].at

OnlyLatestRuns == \A p \in Pods : pods[p] = "RUNNING" => Latest(p)

\* What the runner is about to do with the resource at hand.
ChosenWell ==
  /\ pc = "bind" => Latest(held[Hash])
  /\ pc = "create" => \A p \in Pods : p[2] = Hash => pods[p] # "RUNNING"
  /\ pc # "resume"

ReusedInv == OnlyReused => Ordered /\ OnlyLatestRuns /\ ChosenWell

LEMMA NextOrdered ==
  ASSUME TypeInv, LedgerInv, RemoteInv, OnlyReused, Ordered, ChosenWell, [Next]_vars
  PROVE  Ordered'
<1>. SUFFICES ASSUME NEW p \in Pods, NEW k \in Keys,
                     Exists(Remote(p))', HasPod(k)', Earlier(ledger[k].pod, p)'
              PROVE  ledger'[k].at < ledger'[Remote(p)].at
  BY DEF Ordered
<1>. USE TypedFacts
<1>0. /\ Remote(p) \in Keys
      /\ ledger'[k].pod[2] = p[2] /\ ledger'[k].pod[1] < p[1]
  BY KeyFacts DEF Earlier
<1>1. ASSUME Exists(Remote(p)), ledger'[Remote(p)].at = ledger[Remote(p)].at,
             ledger'[k].pod = ledger[k].pod, ledger'[k].at = ledger[k].at
      PROVE  ledger'[k].at < ledger'[Remote(p)].at
  <2>1. HasPod(k) /\ Earlier(ledger[k].pod, p)
    BY <1>0, <1>1 DEF HasPod, Earlier, RemoteInv, RemotesNamed
  <2>. QED BY <1>1, <2>1 DEF Ordered
<1>2. CASE Quiet
  BY <1>0, <1>1, <1>2 DEF Quiet, Exists
<1>3. CASE Create
  BY <1>0, <1>1, <1>3, RowsStay DEF Exists
<1>4. CASE RecordPending \/ Bind
  <2>1. ledger'[Remote(p)] = ledger[Remote(p)]
    BY <1>4, OwnRowWritten
  <2>2. CASE k # Own(run, Hash)
    BY <1>1, <1>4, <2>1, <2>2, OwnRowWritten DEF Exists
  <2>3. CASE k = Own(run, Hash)
    <3>1. Bind /\ ledger'[k].pod = held[Hash]
      BY <1>4, <2>3, OwnRowWritten DEF HasPod
    <3>2. Latest(held[Hash]) /\ held[Hash] \in Pods
      BY <3>1 DEF ChosenWell, Bind, BindWith, TypeInv, Holding
    <3>3. Exists(Remote(p))
      BY <2>1 DEF Exists
    <3>4. pods[p] # "ABSENT"
      BY <3>3 DEF RemoteInv, RemotesNamed
    <3>5. p[1] <= held[Hash][1] /\ p[1] \in Nat /\ held[Hash][1] \in Nat
      BY <1>0, <3>1, <3>2, <3>4, KeyFacts DEF Latest, Runs
    <3>. QED BY <1>0, <3>1, <3>5
  <2>. QED BY <2>2, <2>3
<1>5. ASSUME NEW x \in Pods, RecordRemote(x)
      PROVE  ledger'[k].at < ledger'[Remote(p)].at
  <2>1. /\ listing[x] # "ABSENT" /\ Remote(x) \in Keys
        /\ ledger'[Remote(x)].pod = x
        /\ ledger'[Remote(x)].at =
             IF Exists(Remote(x)) THEN ledger[Remote(x)].at ELSE clock + 1
        /\ \A j \in Keys \ {Remote(x)} : ledger'[j] = ledger[j]
    BY <1>5, RemoteRowWritten
  <2>2. CASE Exists(Remote(x))
    <3>1. ledger[Remote(x)].pod = x
      BY <2>2 DEF RemoteInv, RemotesNamed
    <3>. QED BY <1>0, <1>1, <2>1, <2>2, <3>1 DEF Exists
  <2>3. CASE ~Exists(Remote(x)) /\ p = x
    <3>1. k # Remote(x)
      BY <1>0, <2>1, <2>3, KeyFacts DEF Runs
    <3>2. ledger[k].at <= clock /\ clock \in Nat /\ ledger[k].at \in Nat
      BY DEF Dated, StoreTypeOK
    <3>. QED BY <2>1, <2>3, <3>1, <3>2
  <2>4. CASE ~Exists(Remote(x)) /\ p # x
    <3>1. Remote(p) # Remote(x) /\ Exists(Remote(p))
      BY <1>0, <2>1, <2>4, KeyFacts DEF Exists
    <3>2. k # Remote(x)
      <4>. SUFFICES ASSUME k = Remote(x) PROVE FALSE
        OBVIOUS
      <4>1. Earlier(x, p)
        BY <1>0, <2>1, <3>1 DEF Earlier, RemoteInv, RemotesNamed
      <4>. QED BY <2>1, <2>4, <4>1 DEF RemoteInv, Succession
    <3>. QED BY <1>0, <1>1, <2>1, <3>1, <3>2
  <2>. QED BY <2>2, <2>3, <2>4
<1>. QED BY <1>2, <1>3, <1>4, <1>5, LoudSteps

\* A pod of the run in progress is the latest of its hash.
LEMMA OwnPodIsLatest ==
  ASSUME TypeInv, LedgerInv, [Next]_vars, NEW p \in Pods, p[1] = run, UNCHANGED run, ~Start
  PROVE  Latest(p)'
<1>. SUFFICES ASSUME NEW q \in Pods, pods'[q] # "ABSENT" PROVE q[1] <= p[1]
  BY DEF Latest
<1>1. q[1] \in Runs /\ q[2] \in Hashes /\ q = <<q[1], q[2]>> /\ run \in Nat
  BY KeyFacts DEF TypeInv, TypeOK
<1>. SUFFICES ASSUME q[1] > run PROVE FALSE
  BY <1>1 DEF Runs
<1>2. pods[q] = "ABSENT"
  BY <1>1 DEF LedgerInv, Untouched
<1>3. Create /\ q = <<run, Hash>>
  BY <1>2, RowsStay
<1>. QED BY <1>1, <1>3 DEF Runs

LEMMA NextLatest ==
  ASSUME TypeInv, LedgerInv, OnlyReused, OnlyLatestRuns, ChosenWell, [Next]_vars
  PROVE  OnlyLatestRuns'
<1>. SUFFICES ASSUME NEW p \in Pods, pods'[p] = "RUNNING" PROVE Latest(p)'
  BY DEF OnlyLatestRuns
<1>1. ~Resume
  BY DEF ChosenWell, Resume
<1>2. CASE pods[p] = "RUNNING"
  <2>. SUFFICES ASSUME NEW q \in Pods, q[2] = p[2], pods'[q] # "ABSENT" PROVE q[1] <= p[1]
    BY DEF Latest
  <2>1. CASE pods[q] # "ABSENT"
    BY <1>2, <2>1 DEF OnlyLatestRuns, Latest
  <2>2. CASE pods[q] = "ABSENT"
    <3>1. Create /\ pc = "create" /\ q = <<run, Hash>>
      BY <2>2, RowsStay
    <3>. QED BY <1>2, <3>1 DEF ChosenWell
  <2>. QED BY <2>1, <2>2
<1>3. CASE Create /\ p = <<run, Hash>>
  <2>1. p[1] = run /\ UNCHANGED run /\ ~Start
    BY <1>3 DEF Create, Hold, Goto, localVars, Start
  <2>. QED BY <2>1, OwnPodIsLatest
<1>. QED BY <1>1, <1>2, <1>3, RunningStarts DEF OnlyReused

\* The steps that choose a pod for the resource at hand.
LEMMA ChoiceIsReached ==
  ASSUME TypeInv, [Next]_vars, pc' \in {"bind", "create", "resume"}
  PROVE  Lookup \/ Create \/ Resume \/ UNCHANGED <<pc, localVars>>
<1>1. CASE Start \/ ListPods \/ (\E p \in Pods : RecordRemote(p)) \/ Begin
           \/ Teardown \/ Act \/ LifecycleDone \/ CreateVolumes
  BY <1>1 DEF Start, ListPods, RecordRemote, Begin, BeginWith, Teardown, Act, LifecycleDone,
    CreateVolumes, Goto, Leave
<1>2. CASE RecordPending \/ Bind \/ WaitReady \/ Schedule \/ RunAgent \/ KeepAlive
           \/ Complete \/ CleanupDone \/ Crash \/ RecordFailure \/ CleanupRow
  BY <1>2 DEF RecordPending, Bind, BindWith, AfterBind, WaitReady,
    Schedule, RunAgent, KeepAlive, Complete, CleanupDone, Crash, RecordFailure, CleanupRow,
    CleanupRowWith, Goto, Leave
<1>3. CASE \/ UNCHANGED vars
           \/ \E t \in timers : TimerFires(t)
           \/ \E p \in Pods, a \in LifecycleActions : OutsideAction(p, a)
           \/ \E p \in Pods : Provider(p)
  BY <1>3 DEF vars, TimerFires, OutsideAction, Provider
<1>. QED BY <1>1, <1>2, <1>3 DEF Next, Step

\* The newest row naming the hash of a running pod names that pod.
LEMMA NewestNamesTheLatest ==
  ASSUME TypeInv, LedgerInv, RemoteInv, Ordered, OnlyLatestRuns, pc = "lookup",
         NEW p \in Pods, p[2] = Hash, pods[p] = "RUNNING"
  PROVE  RowsNaming(Hash) # {} /\ ledger[Newest(RowsNaming(Hash))].pod = p
<1>. USE TypedFacts, KeyFacts
<1>. DEFINE rows == RowsNaming(Hash)
            q == ledger[Newest(rows)].pod
<1>1. p[1] # run
  <2>1. pods[<<run, Hash>>] = "ABSENT"
    BY DEF LedgerInv, Untouched, Applying, Hash
  <2>. QED BY <2>1
<1>2. Exists(Remote(p)) /\ ledger[Remote(p)].pod = p
  BY <1>1 DEF RemoteInv, Reconciled, RemotesNamed, Known
<1>3. Remote(p) \in rows
  BY <1>2, NoPodAssumption DEF RowsNaming, HasPod
<1>4. rows \in SUBSET Keys /\ \A j \in rows : HasPod(j) /\ HashOf(j) = Hash
  BY DEF RowsNaming
<1>. HIDE DEF rows
<1>5. Newest(rows) \in rows /\ ledger[Remote(p)].at <= ledger[Newest(rows)].at
  BY <1>3, <1>4, NewestIsAMember
<1>6. q \in Pods /\ q[2] = Hash /\ pods[q] # "ABSENT"
  BY <1>4, <1>5 DEF LedgerInv, LedgerNamesRealPods, HasPod, StoreTypeOK
<1>7. q[1] <= p[1] /\ q[1] \in Nat /\ p[1] \in Nat
  BY <1>6 DEF OnlyLatestRuns, Latest, Runs
<1>8. ~(q[1] < p[1])
  <2>. SUFFICES ASSUME q[1] < p[1] PROVE FALSE
    OBVIOUS
  <2>1. Earlier(q, p)
    BY <1>6 DEF Earlier
  <2>2. ledger[Newest(rows)].at < ledger[Remote(p)].at
    BY <1>2, <1>4, <1>5, <2>1 DEF Ordered
  <2>3. ledger[Newest(rows)].at \in Nat /\ ledger[Remote(p)].at \in Nat
    BY <1>3, <1>4, <1>5 DEF StoreTypeOK
  <2>. QED BY <1>5, <2>2, <2>3
<1>9. q = p
  <2>1. q[1] = p[1] /\ q[2] = p[2]
    BY <1>6, <1>7, <1>8
  <2>2. q = <<q[1], q[2]>> /\ p = <<p[1], p[2]>>
    BY <1>6
  <2>. QED BY <2>1, <2>2
<1>. QED BY <1>3, <1>9 DEF rows

LEMMA NextChosenWell ==
  ASSUME TypeInv, LedgerInv, RemoteInv, OnlyReused, Ordered, OnlyLatestRuns, ChosenWell,
         [Next]_vars
  PROVE  ChosenWell'
<1>. SUFFICES ASSUME pc' \in {"bind", "create", "resume"} PROVE ChosenWell'
  BY DEF ChosenWell
<1>. USE TypedFacts, KeyFacts
<1>1. ~Resume /\ req.reuse = "reuse_matching"
  BY DEF ChosenWell, Resume, OnlyReused
<1>2. CASE UNCHANGED <<pc, localVars>>
  <2>1. UNCHANGED <<pc, held, Hash>> /\ ~Create
    BY <1>2 DEF localVars, Hash, Plan, Create, Goto
  <2>2. pc = "bind" => Latest(held[Hash])'
    BY <2>1, RowsStay DEF ChosenWell, Latest
  <2>3. pc = "create" => \A p \in Pods : p[2] = Hash => pods'[p] # "RUNNING"
    BY <1>1, <2>1, RunningStarts DEF ChosenWell, OnlyReused
  <2>. QED BY <2>1, <2>2, <2>3 DEF ChosenWell
<1>3. CASE Lookup
  <2>. DEFINE p == ledger[Newest(RowsNaming(Hash))].pod
  <2>1. pc = "lookup" /\ UNCHANGED pods
    BY <1>3 DEF Lookup, providerVars
  <2>2. UNCHANGED <<idx, req, Hash>>
    BY <1>3 DEF Lookup, Goto, Hold, localVars, Hash, Plan
  <2>3. \/ pc' = "bind" /\ pods[p] = "RUNNING" /\ held' = [held EXCEPT ![Hash] = p]
           /\ RowsNaming(Hash) # {}
        \/ pc' = "create" /\ (RowsNaming(Hash) = {} \/ pods[p] # "RUNNING")
    BY <1>1, <1>3 DEF Lookup, Goto, Hold
  <2>4. CASE pc' = "bind" /\ pods[p] = "RUNNING" /\ held' = [held EXCEPT ![Hash] = p]
             /\ RowsNaming(Hash) # {}
    <3>1. p \in Pods
      <4>1. RowsNaming(Hash) \in SUBSET Keys /\ \A k \in RowsNaming(Hash) : HasPod(k)
        BY DEF RowsNaming
      <4>2. Newest(RowsNaming(Hash)) \in RowsNaming(Hash)
        BY <2>4, <4>1, NewestIsAMember
      <4>. QED BY <4>1, <4>2 DEF HasPod, StoreTypeOK
    <3>2. held'[Hash] = p
      BY <2>4 DEF TypeInv, TypeOK
    <3>. HIDE DEF p
    <3>3. Latest(p)
      BY <2>4, <3>1 DEF OnlyLatestRuns
    <3>. QED BY <2>1, <2>2, <2>4, <3>2, <3>3 DEF ChosenWell, Latest
  <2>5. CASE pc' = "create" /\ (RowsNaming(Hash) = {} \/ pods[p] # "RUNNING")
    BY <2>1, <2>2, <2>5, NewestNamesTheLatest DEF ChosenWell
  <2>. QED BY <2>3, <2>4, <2>5
<1>4. CASE Create
  <2>1. /\ pc' = "bind" /\ Hold(<<run, Hash>>, FALSE) /\ <<run, Hash>> \in Pods
        /\ UNCHANGED <<run, Hash>> /\ ~Start
    BY <1>4 DEF Create, Goto, Hold, Hash, Plan, Start
  <2>2. held'[Hash] = <<run, Hash>>
    BY <2>1 DEF Hold, TypeInv, TypeOK
  <2>3. PICK p \in Pods : p = <<run, Hash>>
    BY <2>1
  <2>4. Latest(p)'
    BY <2>1, <2>3, OwnPodIsLatest
  <2>. QED BY <2>1, <2>2, <2>3, <2>4 DEF ChosenWell, Latest
<1>. QED BY <1>1, <1>2, <1>3, <1>4, ChoiceIsReached

LEMMA InitReused == Init => ReusedInv
<1>. SUFFICES ASSUME Init PROVE ReusedInv
  OBVIOUS
<1>1. \A p \in Pods : ~Exists(Remote(p)) /\ pods[p] = "ABSENT"
  BY KeyFacts DEF Init, ProviderInit, StoreInit, Exists
<1>. QED BY <1>1 DEF Init, ReusedInv, Ordered, OnlyLatestRuns, ChosenWell

LEMMA NextReused ==
  TypeInv /\ LedgerInv /\ RemoteInv /\ ReusedInv /\ [Next]_vars => ReusedInv'
BY NextOrdered, NextLatest, NextChosenWell DEF ReusedInv, OnlyReused, NobodyResumes

\* Where pods are reused, no hash ever has two that run, whatever crashes, is
\* lost or is stopped by others: see OneRunningPodPerHash.
THEOREM ReuseKeepsOneRunning == Spec => []OneRunningPodPerHash
<1>1. ReusedInv => OneRunningPodPerHash
  <2>. SUFFICES ASSUME ReusedInv, OnlyReused, NEW p \in Pods, NEW q \in Pods, p[2] = q[2],
                       pods[p] = "RUNNING", pods[q] = "RUNNING"
                PROVE  p = q
    BY DEF OneRunningPodPerHash, OnlyReused, NobodyResumes
  <2>1. p[1] <= q[1] /\ q[1] <= p[1]
    BY DEF ReusedInv, OnlyLatestRuns, Latest
  <2>2. p[1] = q[1]
    BY <2>1, KeyFacts DEF Runs
  <2>. QED BY <2>2, KeyFacts
<1>. QED BY <1>1, InitTyped, NextTyped, InitLedger, NextLedger, InitRemote, NextRemote,
            InitReused, NextReused, PTL DEF Spec

----------------------------------------------------------------------------
(* What stop and terminate leave running. *)

\* A running pod of the plan is named by a row that is still to be visited.
VisitingInv ==
  NobodyResumes /\ pc \in {"lifecycle", "act"} =>
    \A p \in Pods : p[2] \in PlanHashes /\ pods[p] = "RUNNING" =>
      \E k \in todo : ledger[k].pod = p

LEMMA LifecycleIsReached ==
  ASSUME TypeInv, [Next]_vars, pc' \in {"lifecycle", "act"}
  PROVE  Begin \/ Act \/ (Teardown /\ UNCHANGED localVars) \/ UNCHANGED <<pc, localVars>>
<1>1. CASE Start \/ ListPods \/ (\E p \in Pods : RecordRemote(p)) \/ Teardown
           \/ LifecycleDone \/ CreateVolumes \/ Lookup \/ Resume \/ Create
  BY <1>1 DEF Start, ListPods, RecordRemote, Teardown, LifecycleDone, CreateVolumes, Lookup,
    Resume, Create, Goto, Leave
<1>2. CASE RecordPending \/ Bind \/ WaitReady \/ Schedule \/ RunAgent \/ KeepAlive
           \/ Complete \/ CleanupDone \/ Crash \/ RecordFailure \/ CleanupRow
  BY <1>2 DEF RecordPending, Bind, BindWith, AfterBind, WaitReady,
    Schedule, RunAgent, KeepAlive, Complete, CleanupDone, Crash, RecordFailure, CleanupRow,
    CleanupRowWith, Goto, Leave
<1>3. CASE \/ UNCHANGED vars
           \/ \E t \in timers : TimerFires(t)
           \/ \E p \in Pods, a \in LifecycleActions : OutsideAction(p, a)
           \/ \E p \in Pods : Provider(p)
  BY <1>3 DEF vars, TimerFires, OutsideAction, Provider
<1>. QED BY <1>1, <1>2, <1>3 DEF Next, Step

LEMMA NextVisiting ==
  TypeInv /\ LedgerInv /\ RemoteInv /\ VisitingInv /\ [Next]_vars => VisitingInv'
<1>. SUFFICES ASSUME TypeInv, LedgerInv, RemoteInv, VisitingInv, [Next]_vars, NobodyResumes,
                     pc' \in {"lifecycle", "act"},
                     NEW p \in Pods, p[2] \in PlanHashes', pods'[p] = "RUNNING"
              PROVE  \E k \in todo' : ledger'[k].pod = p
  BY DEF VisitingInv
<1>. USE TypedFacts, KeyFacts
<1>1. CASE Begin
  <2>1. /\ pc = "reconcile" /\ listing = NothingListed /\ pc' = "lifecycle"
        /\ UNCHANGED <<pods, run, req, ledger, PlanHashes>>
        /\ todo' = UNION {RowsNaming(h) : h \in PlanHashes}
    BY <1>1 DEF Begin, BeginWith, RecordRun, providerVars, PlanHashes, Plan
  <2>2. p[1] # run
    BY <2>1 DEF RemoteInv, NoneYet
  <2>3. Exists(Remote(p)) /\ ledger[Remote(p)].pod = p
    BY <2>1, <2>2 DEF RemoteInv, Reconciled, RemotesNamed, NothingListed, Known
  <2>4. Remote(p) \in RowsNaming(p[2])
    BY <2>3, NoPodAssumption DEF RowsNaming, HasPod
  <2>. QED BY <2>1, <2>3, <2>4
<1>2. CASE ~Begin
  <2>1. pc \in {"lifecycle", "act"} /\ UNCHANGED <<req, PlanHashes>>
    BY <1>2, LifecycleIsReached DEF Act, Goto, Teardown, localVars, PlanHashes, Plan
  <2>2. pods[p] = "RUNNING"
    BY <2>1, RunningStarts DEF Resume, Create
  <2>3. PICK k \in todo : ledger[k].pod = p
    BY <2>1, <2>2 DEF VisitingInv
  <2>4. ledger'[k].pod = p
    <3>1. k \in Keys /\ HasPod(k)
      BY <2>3, NoPodAssumption DEF TypeInv, TypeOK, HasPod
    <3>. QED BY <2>3, <3>1, RowsKeepTheirPods
  <2>5. CASE Act
    <3>. DEFINE visited == ledger[Visited].pod
    <3>1. visited \in Pods /\ req.mode \in {"stop", "terminate"}
      BY <2>5 DEF Act, TypeInv, Control, IsLifecycle
    <3>2. Execute(visited, req.mode) /\ todo' = todo \ {Visited}
      BY <2>5 DEF Act, Goto
    <3>3. pods'[visited] # "RUNNING"
      BY <3>1, <3>2, CallStops
    <3>. QED BY <2>3, <2>4, <3>2, <3>3
  <2>6. CASE UNCHANGED localVars
    BY <2>3, <2>4, <2>6 DEF localVars
  <2>. QED BY <1>2, <2>5, <2>6, LifecycleIsReached
<1>. QED BY <1>1, <1>2

\* A stop or terminate run that comes to its end has stopped every pod of the
\* plan, those included that no run recorded: see LifecycleLeavesNothingRunning.
THEOREM LifecycleStopsThePlan == Spec => LifecycleLeavesNothingRunning
<1>1. Init => VisitingInv
  BY DEF Init, VisitingInv
<1>2. VisitingInv =>
        (LifecycleDone /\ "resume" \notin Outside =>
           \A p \in Pods : p[2] \in PlanHashes => pods[p] # "RUNNING")
  BY DEF VisitingInv, LifecycleDone, NobodyResumes
<1>. QED BY <1>1, <1>2, InitTyped, NextTyped, InitLedger, NextLedger, InitRemote, NextRemote,
            NextVisiting, PTL DEF Spec, LifecycleLeavesNothingRunning
=============================================================================
