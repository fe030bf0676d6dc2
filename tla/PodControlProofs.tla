--------------------------- MODULE PodControlProofs ---------------------------
(***************************************************************************)
(* What the clean-ups and the keep-alive processes of PodControl promise,  *)
(* for any number of runs, pods, clean-ups, attempts and faults.           *)
(***************************************************************************)
EXTENDS PodControl, TLAPS

(***************************************************************************)
(* What is said of a pod by whoever holds its id: it was created once, and *)
(* an attempt that failed was a fault, or the pod is gone for good.        *)
(***************************************************************************)
PodsExist ==
  /\ \A r \in Runs, p \in Pods : <<r, p>> \in rows => pods[p] # "ABSENT"
  /\ \A t \in timers : pods[t.pod] # "ABSENT"
  /\ \A s \in Sweepers : \A p \in jobs[s].hit : pods[p] # "ABSENT"
AttemptsWereFaults ==
  \A t \in timers : t.attempt <= faults + 1 \/ pods[t.pod] = "PURGED"
\* What a clean-up has read of the ledger, and what it makes of it.
IdsAreOfTheRun ==
  \A s \in Sweepers : jobs[s].run # NoRun =>
    \A p \in jobs[s].ids : <<jobs[s].run, p>> \in rows
ListsFirst == \A s \in Sweepers : jobs[s].pc = "list" => jobs[s].hit = {}

Inv ==
  /\ ControlTypeOK /\ PodsExist /\ AttemptsWereFaults /\ IdsAreOfTheRun /\ ListsFirst
  /\ CleanupReachesItsPods /\ CleanupKeepsToItsRun /\ TimerOutlastsErrors

-----------------------------------------------------------------------------
\* No call creates a pod or brings back one that is terminated or gone for
\* good, and only a resume makes one run.
Gone == {"TERMINATED", "PURGED"}
Moves ==
  /\ ProviderTypeOK'
  /\ \A q \in Pods : (pods'[q] = "ABSENT") = (pods[q] = "ABSENT")
  /\ \A q \in Pods : pods[q] = "PURGED" => pods'[q] = "PURGED"
  /\ \A q \in Pods : pods[q] \in Gone => pods'[q] \in Gone

LEMMA ExecuteMoves ==
  ASSUME ProviderTypeOK, NEW p \in Pods, NEW a \in LifecycleActions, Execute(p, a)
  PROVE  /\ Moves
         /\ \A q \in Pods : pods'[q] = "RUNNING" =>
              pods[q] = "RUNNING" \/ (a = "resume" /\ q = p)
         /\ a \in Ends => pods'[p] # "RUNNING"
         /\ a = "terminate" => pods'[p] \in Gone
         /\ pods[p] \in Known
<1>1. pods[p] \in Known
  BY DEF Execute, Accepts, Known, LifecycleActions
<1>2. After(a, pods[p]) \in Known
  BY <1>1 DEF After, Known
<1>3. After(a, pods[p]) = "RUNNING" => a \notin Ends
                                       /\ (pods[p] = "RUNNING" \/ a = "resume")
  BY <1>1 DEF After, Known, LifecycleActions, Ends
<1>4. pods' = [pods EXCEPT ![p] = After(a, pods[p])] /\ up' \subseteq up \union Pods
  BY DEF Execute
<1>5. ProviderTypeOK'
  BY <1>2, <1>4 DEF ProviderTypeOK, PodStatus
<1>6. /\ pods[p] \in Gone => After(a, pods[p]) \in Gone
      /\ a = "terminate" => After(a, pods[p]) \in Gone
  BY <1>1 DEF After, Known, Gone
<1>. QED
  BY <1>1, <1>2, <1>3, <1>4, <1>5, <1>6 DEF Moves, ProviderTypeOK, Known, PodStatus

LEMMA FailureMoves ==
  ASSUME ProviderTypeOK, NEW p \in Pods, NEW a \in Ends, Fails(p, a), faults \in Nat
  PROVE  /\ Moves
         /\ \A q \in Pods : pods'[q] = "RUNNING" => pods[q] = "RUNNING"
         /\ faults' \in Nat
         /\ faults' = faults + 1 \/ (faults' = faults /\ pods[p] \notin Known)
<1>1. a \in LifecycleActions /\ a # "resume"
  BY DEF Ends, LifecycleActions
<1>2. CASE Execute(p, a)
  <2>1. Moves /\ \A q \in Pods : pods'[q] = "RUNNING" => pods[q] = "RUNNING"
    BY <1>1, <1>2, ExecuteMoves
  <2>2. faults' = faults + 1
    BY <1>2 DEF Fails, Execute
  <2>. QED BY <2>1, <2>2
<1>3. CASE UNCHANGED providerVars
  BY <1>1, <1>3 DEF Fails, Moves, ProviderTypeOK, providerVars, Accepts
<1>. QED BY <1>2, <1>3 DEF Fails, CallFails

LEMMA InitEstablishes == ASSUME Init PROVE Inv
<1>. USE DEF Init
<1>1. ControlTypeOK
  BY DEF ControlTypeOK, ProviderTypeOK, PodStatus, Known, Idle, Ends, JobType
<1>. QED
  BY <1>1 DEF Inv, PodsExist, AttemptsWereFaults, IdsAreOfTheRun, ListsFirst, Idle,
     CleanupReachesItsPods, CleanupKeepsToItsRun, TimerOutlastsErrors, Sweepers

-----------------------------------------------------------------------------
(* A step of a run or of the provider. *)

LEMMA RunPreserves ==
  ASSUME Inv, NEW p \in Pods, NEW r \in Runs, NEW a \in Ends,
         RunDeploys(p) \/ Provider(p) \/ RunBinds(r, p) \/ Schedule(p, a)
  PROVE  Inv'
<1>1. CASE RunDeploys(p)
  <2>1. ControlTypeOK'
    BY <1>1 DEF Inv, ControlTypeOK, ProviderTypeOK, RunDeploys, Deploy, keeper, PodStatus, Known
  <2>2. /\ pods[p] = "ABSENT" /\ pods' = [pods EXCEPT ![p] = "RUNNING"]
        /\ UNCHANGED <<rows, jobs, timers, ended, faults>>
    BY <1>1 DEF RunDeploys, Deploy, keeper
  <2>. QED
    BY <2>1, <2>2 DEF Inv, ControlTypeOK, ProviderTypeOK, PodsExist, AttemptsWereFaults, IdsAreOfTheRun, ListsFirst,
       CleanupReachesItsPods, CleanupKeepsToItsRun, TimerOutlastsErrors
<1>2. CASE Provider(p)
  <2>1. ControlTypeOK'
    BY <1>2 DEF Inv, ControlTypeOK, ProviderTypeOK, Provider, Purge, keeper, PodStatus, Known
  <2>2. /\ pods[p] = "TERMINATED" /\ pods' = [pods EXCEPT ![p] = "PURGED"]
        /\ UNCHANGED <<rows, jobs, timers, ended, faults>>
    BY <1>2 DEF Provider, Purge, keeper
  <2>. QED
    BY <2>1, <2>2 DEF Inv, ControlTypeOK, ProviderTypeOK, PodsExist, AttemptsWereFaults, IdsAreOfTheRun, ListsFirst,
       CleanupReachesItsPods, CleanupKeepsToItsRun, TimerOutlastsErrors
<1>3. CASE RunBinds(r, p)
  <2>1. /\ rows' = rows \union {<<r, p>>} /\ pods[p] # "ABSENT"
        /\ UNCHANGED <<pods, up, jobs, timers, ended, sweeps, started, faults>>
    BY <1>3 DEF RunBinds, keeper, providerVars, Known
  <2>2. ControlTypeOK'
    BY <2>1 DEF Inv, ControlTypeOK, ProviderTypeOK
  <2>. QED
    BY <2>1, <2>2 DEF Inv, ControlTypeOK, PodsExist, AttemptsWereFaults, IdsAreOfTheRun, ListsFirst,
       CleanupReachesItsPods, CleanupKeepsToItsRun, TimerOutlastsErrors
<1>4. CASE Schedule(p, a)
  <2>. DEFINE t == [pod |-> p, action |-> a, attempt |-> 1]
  <2>1. /\ timers' = timers \union {t} /\ pods[p] # "ABSENT"
        /\ started' = started + 1
        /\ UNCHANGED <<pods, up, rows, jobs, ended, sweeps, faults>>
    BY <1>4 DEF Schedule, providerVars, Inv, PodsExist
  <2>2. t \in [pod : Pods, action : Ends, attempt : 1..Attempts]
    BY AttemptsAssumption
  <2>3. t.attempt = 1 /\ t.pod = p
    OBVIOUS
  <2>. HIDE DEF t
  <2>4. ControlTypeOK'
    BY <2>1, <2>2 DEF Inv, ControlTypeOK, ProviderTypeOK
  <2>5. AttemptsWereFaults' /\ PodsExist'
    BY <2>1, <2>3 DEF Inv, ControlTypeOK, AttemptsWereFaults, PodsExist
  <2>. QED
    BY <2>1, <2>4, <2>5 DEF Inv, IdsAreOfTheRun, ListsFirst, CleanupReachesItsPods,
       CleanupKeepsToItsRun, TimerOutlastsErrors
<1>. QED BY <1>1, <1>2, <1>3, <1>4

-----------------------------------------------------------------------------
(* A step of a clean-up. *)

\* What one job has to satisfy, the pods being ps and the rows rs.
JobOK(j, ps, rs) ==
  /\ j \in JobType
  /\ \A p \in j.hit : ps[p] # "ABSENT"
  /\ j.run # NoRun => \A p \in j.ids : <<j.run, p>> \in rs
  /\ j.pc = "list" => j.hit = {}
  /\ j.pc \in {"act", "done"} =>
       \A p \in j.hit : /\ ps[p] # "RUNNING" \/ p \in j.revived
                        /\ j.action = "terminate" => ps[p] \in Gone
  /\ \A p \in j.hit \union j.todo :
       p[2] \in Managed /\ (j.run # NoRun => <<j.run, p>> \in rs)

JobsOK ==
  jobs \in [Sweepers -> JobType] /\ \A s \in Sweepers : JobOK(jobs[s], pods, rows)

\* The part of the invariant that is not about clean-ups.
Rest ==
  /\ ProviderTypeOK
  /\ rows \subseteq Runs \X Pods
  /\ timers \subseteq [pod : Pods, action : Ends, attempt : 1..Attempts]
  /\ ended \subseteq [pod : Pods, why : {"acted", "timeout", "exhausted"}]
  /\ sweeps \in Nat /\ started \in Nat /\ faults \in Nat
  /\ \A r \in Runs, p \in Pods : <<r, p>> \in rows => pods[p] # "ABSENT"
  /\ \A t \in timers : pods[t.pod] # "ABSENT"
  /\ AttemptsWereFaults /\ TimerOutlastsErrors

LEMMA InvByJobs == Inv <=> Rest /\ JobsOK
BY DEF Inv, Rest, JobOK, JobsOK, JobType, ControlTypeOK, PodsExist, IdsAreOfTheRun, ListsFirst,
   CleanupReachesItsPods, CleanupKeepsToItsRun, Gone

LEMMA InvByJobsAfter == Rest' /\ JobsOK' => Inv'
BY InvByJobs, PTL

\* A call that a clean-up, a route or a timer makes leaves the rest as it is.
LEMMA CallKeepsRest ==
  ASSUME Rest, Moves, faults' \in Nat, faults' >= faults,
         UNCHANGED <<rows, timers, ended, sweeps, started>>
  PROVE  Rest'
<1>1. \A t \in timers : t.pod \in Pods /\ t.attempt \in Nat
  BY AttemptsAssumption DEF Rest
<1>2. \A e \in ended : e.pod \in Pods
  BY DEF Rest
<1>3. AttemptsWereFaults'
  BY <1>1 DEF Rest, Moves, AttemptsWereFaults
<1>4. TimerOutlastsErrors'
  BY <1>2, AttemptsAssumption DEF Rest, Moves, TimerOutlastsErrors
<1>. QED BY <1>1, <1>3, <1>4 DEF Rest, Moves

\* A job keeps what it has while pods move by calls that resume nothing.
LEMMA CallKeepsJob ==
  ASSUME Moves, NEW j, JobOK(j, pods, rows), UNCHANGED rows,
         \A q \in Pods : pods'[q] = "RUNNING" => pods[q] = "RUNNING"
  PROVE  JobOK(j, pods', rows')
BY DEF JobOK, JobType, Moves

\* A clean-up whose job becomes new, the pods moving as above.
LEMMA JobReplaced ==
  ASSUME JobsOK, Moves, UNCHANGED rows, NEW s \in Sweepers, NEW new,
         \A q \in Pods : pods'[q] = "RUNNING" => pods[q] = "RUNNING",
         jobs' = [jobs EXCEPT ![s] = new], JobOK(new, pods', rows')
  PROVE  JobsOK'
<1>1. new \in JobType
  BY DEF JobOK
<1>2. jobs' \in [Sweepers -> JobType]
  BY <1>1 DEF JobsOK
<1>3. ASSUME NEW x \in Sweepers PROVE JobOK(jobs'[x], pods', rows')
  <2>1. CASE x = s
    BY <2>1 DEF JobsOK
  <2>2. CASE x # s
    <3>1. jobs'[x] = jobs[x] /\ JobOK(jobs[x], pods, rows)
      BY <2>2 DEF JobsOK
    <3>2. JobOK(jobs[x], pods', rows')
      BY <3>1, CallKeepsJob
    <3>. QED BY <3>1, <3>2
  <2>. QED BY <2>1, <2>2
<1>. QED BY <1>2, <1>3 DEF JobsOK

LEMMA NothingMoves == ASSUME ProviderTypeOK, UNCHANGED providerVars PROVE Moves
BY DEF Moves, ProviderTypeOK, providerVars

LEMMA BeginPreserves ==
  ASSUME Inv, NEW s \in Sweepers, Begin(s)
  PROVE  Inv'
<1>1. Rest /\ JobsOK
  BY InvByJobs
<1>2. PICK a \in Ends, r \in Runs \union {NoRun}, stale \in BOOLEAN :
        jobs' = [jobs EXCEPT ![s] = [Idle EXCEPT
                   !.pc = "list", !.action = a, !.run = r, !.stale = stale,
                   !.ids = CleanupPodIds(r)]]
  BY DEF Begin
<1>. DEFINE new == [Idle EXCEPT !.pc = "list", !.action = a, !.run = r,
                                !.stale = stale, !.ids = CleanupPodIds(r)]
<1>3. /\ UNCHANGED <<pods, up, rows, timers, ended, started, faults>>
      /\ sweeps' = sweeps + 1
  BY DEF Begin, providerVars, keeper
<1>4. CleanupPodIds(r) \subseteq Pods
      /\ (r # NoRun => \A p \in CleanupPodIds(r) : <<r, p>> \in rows)
  BY DEF CleanupPodIds
<1>5. JobOK(new, pods', rows')
  BY <1>3, <1>4 DEF Idle, JobType, JobOK, Ends
<1>6. Rest'
  BY <1>1, <1>3 DEF Rest, ProviderTypeOK, AttemptsWereFaults, TimerOutlastsErrors
<1>7. jobs' = [jobs EXCEPT ![s] = new]
  BY <1>2
<1>. HIDE DEF new
<1>8. Moves /\ \A q \in Pods : pods'[q] = "RUNNING" => pods[q] = "RUNNING"
  BY <1>1, <1>3, NothingMoves DEF Rest, providerVars
<1>9. JobsOK'
  BY <1>1, <1>3, <1>5, <1>7, <1>8, JobReplaced
<1>. QED BY <1>6, <1>9, InvByJobsAfter

LEMMA ListPreserves ==
  ASSUME Inv, NEW s \in Sweepers, List(s)
  PROVE  Inv'
<1>1. Rest /\ JobsOK
  BY InvByJobs
<1>2. UNCHANGED <<pods, up, rows, timers, ended, started, sweeps>>
      /\ faults' \in Nat /\ faults' >= faults
  BY <1>1 DEF List, providerVars, keeper, Rest
<1>3. Moves /\ \A q \in Pods : pods'[q] = "RUNNING" => pods[q] = "RUNNING"
  BY <1>1, <1>2, NothingMoves DEF Rest, providerVars
<1>4. Rest'
  BY <1>1, <1>2, <1>3, CallKeepsRest
<1>5. jobs[s] \in JobType /\ JobOK(jobs[s], pods, rows) /\ jobs[s].pc = "list"
  BY <1>1 DEF JobsOK, List
<1>. DEFINE left == {p \in jobs[s].ids : pods[p] \in Known /\ p[2] \in Managed
                                           /\ LongEnoughUp(jobs[s])}
            one == [jobs[s] EXCEPT !.pc = "act", !.todo = left]
            two == [jobs[s] EXCEPT !.pc = "failed"]
<1>6. jobs' = [jobs EXCEPT ![s] = one] \/ jobs' = [jobs EXCEPT ![s] = two]
  BY <1>1 DEF List, JobsOK
<1>7. \A p \in left : p \in jobs[s].ids /\ p[2] \in Managed
  OBVIOUS
<1>8. left \subseteq Pods
  BY <1>5, <1>7 DEF JobType
<1>. HIDE DEF left
<1>9. JobOK(two, pods', rows')
  BY <1>2, <1>5 DEF JobOK, JobType
<1>10. JobOK(one, pods', rows')
  <2>1. /\ one.hit = jobs[s].hit /\ one.todo = left /\ one.run = jobs[s].run
        /\ one.ids = jobs[s].ids /\ one.revived = jobs[s].revived
        /\ one.action = jobs[s].action
        /\ one \in JobType
    BY <1>5, <1>8 DEF JobType
  <2>. HIDE DEF one
  <2>2. jobs[s].hit = {}
    BY <1>5 DEF JobOK
  <2>. QED BY <1>2, <1>5, <1>7, <2>1, <2>2 DEF JobOK
<1>. HIDE DEF one, two
<1>11. JobsOK'
  BY <1>1, <1>2, <1>3, <1>6, <1>9, <1>10, JobReplaced
<1>. QED BY <1>4, <1>11, InvByJobsAfter

\* A call that stops or ends one pod of the list.
LEMMA ActPreserves ==
  ASSUME Inv, NEW s \in Sweepers, NEW p \in Pods, Act(s, p)
  PROVE  Inv'
<1>1. Rest /\ JobsOK
  BY InvByJobs
<1>2. /\ p \in jobs[s].todo /\ jobs[s] \in JobType /\ JobOK(jobs[s], pods, rows)
      /\ jobs[s].pc = "act" /\ jobs[s].action \in Ends
      /\ UNCHANGED <<rows, timers, ended, sweeps, started>>
  BY <1>1 DEF Act, JobsOK, JobType, keeper
<1>3. ProviderTypeOK /\ faults \in Nat /\ jobs[s].action \in LifecycleActions
      /\ jobs[s].action # "resume"
  BY <1>1, <1>2 DEF Rest, Ends, LifecycleActions
<1>4. CASE Execute(p, jobs[s].action) /\ UNCHANGED faults /\ jobs' = Affected(s, p)
  <2>1. /\ Moves /\ pods[p] \in Known /\ pods'[p] # "RUNNING"
        /\ jobs[s].action = "terminate" => pods'[p] \in Gone
        /\ \A q \in Pods : pods'[q] = "RUNNING" => pods[q] = "RUNNING"
    BY <1>2, <1>3, <1>4, ExecuteMoves
  <2>2. Rest'
    BY <1>1, <1>2, <1>3, <1>4, <2>1, CallKeepsRest
  <2>. DEFINE new == [jobs[s] EXCEPT !.todo = @ \ {p}, !.hit = @ \union {p},
                                     !.revived = @ \ {p}]
  <2>3. jobs' = [jobs EXCEPT ![s] = new]
    BY <1>1, <1>4 DEF Affected, JobsOK
  <2>4. /\ new \in JobType /\ new.run = jobs[s].run /\ new.ids = jobs[s].ids
        /\ new.todo = jobs[s].todo \ {p} /\ new.hit = jobs[s].hit \union {p}
        /\ new.revived = jobs[s].revived \ {p} /\ new.pc = "act"
        /\ new.action = jobs[s].action
    BY <1>2 DEF JobType
  <2>. HIDE DEF new
  <2>5. pods'[p] # "ABSENT"
    BY <2>1 DEF Moves, Known
  <2>6. JobOK(jobs[s], pods', rows')
    BY <1>2, <2>1, CallKeepsJob
  <2>7. JobOK(new, pods', rows')
    BY <1>2, <2>1, <2>4, <2>5, <2>6 DEF JobOK
  <2>8. JobsOK'
    BY <1>1, <1>2, <2>1, <2>3, <2>7, JobReplaced
  <2>. QED BY <2>2, <2>8, InvByJobsAfter
<1>5. CASE Fails(p, jobs[s].action) /\ jobs' = [jobs EXCEPT ![s].pc = "failed"]
  <2>1. /\ Moves /\ faults' \in Nat /\ faults' >= faults
        /\ \A q \in Pods : pods'[q] = "RUNNING" => pods[q] = "RUNNING"
    BY <1>2, <1>3, <1>5, FailureMoves
  <2>2. Rest'
    BY <1>1, <1>2, <2>1, CallKeepsRest
  <2>. DEFINE new == [jobs[s] EXCEPT !.pc = "failed"]
  <2>3. jobs' = [jobs EXCEPT ![s] = new]
    BY <1>1, <1>5 DEF JobsOK
  <2>4. JobOK(jobs[s], pods', rows')
    BY <1>2, <2>1, CallKeepsJob
  <2>5. JobOK(new, pods', rows')
    BY <1>2, <2>4 DEF JobOK, JobType
  <2>. HIDE DEF new
  <2>6. JobsOK'
    BY <1>1, <1>2, <2>1, <2>3, <2>5, JobReplaced
  <2>. QED BY <2>2, <2>6, InvByJobsAfter
<1>. QED BY <1>4, <1>5 DEF Act

LEMMA ReturnPreserves ==
  ASSUME Inv, NEW s \in Sweepers, Done(s) \/ Return(s)
  PROVE  Inv'
<1>1. Rest /\ JobsOK
  BY InvByJobs
<1>2. UNCHANGED <<pods, up, rows, timers, ended, started, sweeps, faults>>
  BY DEF Done, Return, providerVars, keeper
<1>3. Moves /\ \A q \in Pods : pods'[q] = "RUNNING" => pods[q] = "RUNNING"
  BY <1>1, <1>2, NothingMoves DEF Rest, providerVars
<1>4. Rest'
  BY <1>1, <1>2, <1>3, CallKeepsRest DEF Rest
<1>5. jobs[s] \in JobType /\ JobOK(jobs[s], pods, rows)
  BY <1>1 DEF JobsOK
<1>. DEFINE done == [jobs[s] EXCEPT !.pc = "done"]
<1>6. (jobs[s].pc = "act" /\ jobs' = [jobs EXCEPT ![s] = done])
      \/ jobs' = [jobs EXCEPT ![s] = Idle]
  BY <1>1 DEF Done, Return, JobsOK
<1>7. JobOK(Idle, pods', rows')
  BY DEF Idle, JobType, JobOK, Ends
<1>8. jobs[s].pc = "act" => JobOK(done, pods', rows')
  BY <1>2, <1>5 DEF JobOK, JobType
<1>. HIDE DEF done
<1>9. JobsOK'
  BY <1>1, <1>2, <1>3, <1>6, <1>7, <1>8, JobReplaced
<1>. QED BY <1>4, <1>9, InvByJobsAfter

-----------------------------------------------------------------------------
(* A call of a run or of a pod route. *)

LEMMA CallPreserves ==
  ASSUME Inv, NEW p \in Pods, NEW a \in LifecycleActions, RunCalls(p, a) \/ PodRoute(p, a)
  PROVE  Inv'
<1>1. Rest /\ JobsOK
  BY InvByJobs
<1>2. /\ Execute(p, a) /\ UNCHANGED <<rows, sweeps, timers, ended, started, faults>>
      /\ jobs' = [s \in Sweepers |->
                    IF a = "resume" THEN [jobs[s] EXCEPT !.revived = @ \union {p}]
                    ELSE jobs[s]]
  BY DEF RunCalls, PodRoute, Revive, keeper
<1>3. /\ Moves
      /\ \A q \in Pods : pods'[q] = "RUNNING" =>
           pods[q] = "RUNNING" \/ (a = "resume" /\ q = p)
  BY <1>1, <1>2, ExecuteMoves DEF Rest
<1>4. Rest'
  BY <1>1, <1>2, <1>3, CallKeepsRest DEF Rest
<1>5. ASSUME NEW s \in Sweepers PROVE JobOK(jobs'[s], pods', rows')
  <2>1. jobs[s] \in JobType /\ JobOK(jobs[s], pods, rows)
    BY <1>1 DEF JobsOK
  <2>2. CASE a # "resume"
    BY <1>2, <1>3, <2>1, <2>2, CallKeepsJob
  <2>3. CASE a = "resume"
    <3>. DEFINE new == [jobs[s] EXCEPT !.revived = @ \union {p}]
    <3>1. /\ new \in JobType /\ new.run = jobs[s].run /\ new.ids = jobs[s].ids
          /\ new.todo = jobs[s].todo /\ new.hit = jobs[s].hit
          /\ new.revived = jobs[s].revived \union {p} /\ new.pc = jobs[s].pc
          /\ new.action = jobs[s].action
      BY <2>1 DEF JobType
    <3>2. jobs'[s] = new
      BY <1>2, <2>3
    <3>. HIDE DEF new
    <3>3. new.hit \subseteq Pods
      BY <3>1 DEF JobType
    <3>4. JobOK(new, pods', rows')
      BY <1>2, <1>3, <2>1, <3>1, <3>3 DEF JobOK, Moves
    <3>. QED BY <3>2, <3>4
  <2>. QED BY <2>2, <2>3
<1>6. JobsOK'
  <2>1. \A s \in Sweepers : jobs'[s] \in JobType
    BY <1>5 DEF JobOK
  <2>. QED BY <1>2, <1>5, <2>1 DEF JobsOK
<1>. QED BY <1>4, <1>6, InvByJobsAfter

-----------------------------------------------------------------------------
(* An attempt of a keep-alive process. *)

LEMMA AttemptPreserves ==
  ASSUME Inv, NEW t \in timers, Attempt(t)
  PROVE  Inv'
<1>1. Rest /\ JobsOK
  BY InvByJobs
<1>2. /\ t \in [pod : Pods, action : Ends, attempt : 1..Attempts]
      /\ t.pod \in Pods /\ t.action \in Ends /\ t.attempt \in 1..Attempts
      /\ t.action \in LifecycleActions /\ t.action # "resume"
      /\ pods[t.pod] # "ABSENT" /\ faults \in Nat /\ ProviderTypeOK
      /\ t.attempt <= faults + 1 \/ pods[t.pod] = "PURGED"
  BY <1>1 DEF Rest, Ends, LifecycleActions, AttemptsWereFaults
<1>3. UNCHANGED <<rows, jobs, sweeps, started>>
  BY DEF Attempt
<1>4. /\ Moves /\ faults' \in Nat /\ faults' >= faults
      /\ \A q \in Pods : pods'[q] = "RUNNING" => pods[q] = "RUNNING"
      /\ \/ Ended(t, "acted") \/ Ended(t, "timeout")
         \/ Retry(t) /\ (faults' = faults + 1 \/ pods[t.pod] \notin Known)
  <2>1. CASE Execute(t.pod, t.action) /\ UNCHANGED faults /\ Ended(t, "acted")
    BY <1>2, <2>1, ExecuteMoves
  <2>2. CASE Fails(t.pod, t.action) /\ (Retry(t) \/ (faults' # faults /\ Ended(t, "timeout")))
    <3>1. /\ Moves /\ faults' \in Nat
          /\ \A q \in Pods : pods'[q] = "RUNNING" => pods[q] = "RUNNING"
          /\ faults' = faults + 1 \/ (faults' = faults /\ pods[t.pod] \notin Known)
      BY <1>2, <2>2, FailureMoves
    <3>. QED BY <1>2, <2>2, <3>1
  <2>. QED BY <2>1, <2>2 DEF Attempt
<1>5. pods[t.pod] \notin Known => pods[t.pod] = "PURGED" /\ pods'[t.pod] = "PURGED"
  BY <1>2, <1>4 DEF ProviderTypeOK, PodStatus, Moves
<1>6. JobsOK'
  <2>1. \A s \in Sweepers : JobOK(jobs[s], pods', rows')
    BY <1>1, <1>3, <1>4, CallKeepsJob DEF JobsOK
  <2>. QED BY <1>1, <1>3, <2>1 DEF JobsOK
<1>7. ASSUME NEW x \in timers
      PROVE  /\ x.pod \in Pods /\ pods'[x.pod] # "ABSENT"
             /\ x.attempt <= faults' + 1 \/ pods'[x.pod] = "PURGED"
  <2>1. x.pod \in Pods /\ x.attempt \in Nat
    BY <1>1, AttemptsAssumption DEF Rest
  <2>. QED BY <1>1, <1>2, <1>4, <2>1 DEF Rest, Moves, AttemptsWereFaults
<1>8. ASSUME NEW e \in ended
      PROVE  e.why = "exhausted" => faults' >= Attempts \/ pods'[e.pod] = "PURGED"
  <2>1. e.pod \in Pods
    BY <1>1 DEF Rest
  <2>. QED BY <1>1, <1>2, <1>4, <2>1, AttemptsAssumption DEF Rest, Moves, TimerOutlastsErrors
<1>9. CASE \E why \in {"acted", "timeout", "exhausted"} :
             /\ Ended(t, why)
             /\ why = "exhausted" => faults' >= Attempts \/ pods'[t.pod] = "PURGED"
  <2>1. PICK why \in {"acted", "timeout", "exhausted"} :
          /\ Ended(t, why)
          /\ why = "exhausted" => faults' >= Attempts \/ pods'[t.pod] = "PURGED"
    BY <1>9
  <2>. DEFINE e == [pod |-> t.pod, why |-> why]
  <2>2. /\ e \in [pod : Pods, why : {"acted", "timeout", "exhausted"}]
        /\ e.pod = t.pod /\ e.why = why
    BY <1>2
  <2>3. timers' = timers \ {t} /\ ended' = ended \union {e}
    BY <2>1 DEF Ended
  <2>. HIDE DEF e
  <2>4. AttemptsWereFaults' /\ \A x \in timers' : pods'[x.pod] # "ABSENT"
    BY <1>7, <2>3 DEF AttemptsWereFaults
  <2>5. TimerOutlastsErrors'
    BY <1>8, <2>1, <2>2, <2>3 DEF TimerOutlastsErrors
  <2>6. Rest'
    BY <1>1, <1>3, <1>4, <2>2, <2>3, <2>4, <2>5 DEF Rest, Moves
  <2>. QED BY <1>6, <2>6, InvByJobsAfter
<1>10. CASE /\ t.attempt < Attempts /\ UNCHANGED ended
            /\ timers' = (timers \ {t}) \union {[t EXCEPT !.attempt = @ + 1]}
            /\ faults' = faults + 1 \/ pods[t.pod] \notin Known
  <2>. DEFINE u == [t EXCEPT !.attempt = @ + 1]
  <2>1. /\ u \in [pod : Pods, action : Ends, attempt : 1..Attempts]
        /\ u.pod = t.pod /\ u.attempt = t.attempt + 1
    BY <1>2, <1>10, AttemptsAssumption
  <2>2. timers' = (timers \ {t}) \union {u}
    BY <1>10
  <2>. HIDE DEF u
  <2>3. u.attempt <= faults' + 1 \/ pods'[u.pod] = "PURGED"
    BY <1>2, <1>4, <1>5, <1>10, <2>1, AttemptsAssumption DEF Moves
  <2>4. pods'[u.pod] # "ABSENT"
    BY <1>2, <1>4, <2>1 DEF Moves
  <2>5. AttemptsWereFaults' /\ \A x \in timers' : pods'[x.pod] # "ABSENT"
    BY <1>7, <2>2, <2>3, <2>4 DEF AttemptsWereFaults
  <2>6. TimerOutlastsErrors'
    BY <1>8, <1>10 DEF TimerOutlastsErrors
  <2>7. Rest'
    BY <1>1, <1>3, <1>4, <1>10, <2>1, <2>2, <2>5, <2>6 DEF Rest, Moves
  <2>. QED BY <1>6, <2>7, InvByJobsAfter
<1>11. CASE Ended(t, "acted") \/ Ended(t, "timeout")
  BY <1>9, <1>11
<1>12. CASE Retry(t) /\ (faults' = faults + 1 \/ pods[t.pod] \notin Known)
  <2>1. CASE t.attempt < Attempts
    BY <1>10, <1>12, <2>1 DEF Retry
  <2>2. CASE ~(t.attempt < Attempts)
    <3>1. t.attempt = Attempts
      BY <1>2, <2>2, AttemptsAssumption
    <3>2. faults' >= Attempts \/ pods'[t.pod] = "PURGED"
      BY <1>2, <1>4, <1>5, <1>12, <3>1, AttemptsAssumption DEF Moves
    <3>. QED BY <1>9, <1>12, <2>2, <3>2 DEF Retry
  <2>. QED BY <2>1, <2>2
<1>. QED BY <1>4, <1>11, <1>12

-----------------------------------------------------------------------------
LEMMA NextPreserves == ASSUME Inv, [Next]_vars PROVE Inv'
<1>1. CASE UNCHANGED vars
  BY <1>1 DEF vars, providerVars, keeper, Inv, ControlTypeOK, ProviderTypeOK, PodsExist,
     AttemptsWereFaults, IdsAreOfTheRun, ListsFirst, CleanupReachesItsPods,
     CleanupKeepsToItsRun, TimerOutlastsErrors
<1>2. ASSUME NEW p \in Pods, RunDeploys(p) \/ Provider(p) PROVE Inv'
  <2>1. p[1] \in Runs /\ "stop" \in Ends
    BY DEF Pods, Ends
  <2>. QED BY <1>2, <2>1, RunPreserves
<1>3. ASSUME NEW r \in Runs, NEW p \in Pods, RunBinds(r, p) PROVE Inv'
  <2>1. "stop" \in Ends
    BY DEF Ends
  <2>. QED BY <1>3, <2>1, RunPreserves
<1>4. ASSUME NEW p \in Pods, NEW a \in Ends, Schedule(p, a) PROVE Inv'
  <2>1. p[1] \in Runs
    BY DEF Pods
  <2>. QED BY <1>4, <2>1, RunPreserves
<1>5. ASSUME NEW s \in Sweepers, Begin(s) \/ Sweep(s) PROVE Inv'
  BY <1>5, BeginPreserves, ListPreserves, ActPreserves, ReturnPreserves DEF Sweep
<1>6. ASSUME NEW p \in Pods, NEW a \in LifecycleActions, RunCalls(p, a) \/ PodRoute(p, a)
      PROVE  Inv'
  BY <1>6, CallPreserves
<1>7. ASSUME NEW t \in timers, Attempt(t) PROVE Inv'
  BY <1>7, AttemptPreserves
<1>. QED BY <1>1, <1>2, <1>3, <1>4, <1>5, <1>6, <1>7 DEF Next

(***************************************************************************)
(* The inductive invariant of the routes, clean-ups and timers, in every   *)
(* state of every behaviour.                                               *)
(***************************************************************************)
THEOREM ControlInvariant == Spec => []Inv
<1>1. Init => Inv
  BY InitEstablishes
<1>2. Inv /\ [Next]_vars => Inv'
  BY NextPreserves
<1>. QED BY <1>1, <1>2, PTL DEF Spec

(***************************************************************************)
(* Every variable keeps its type: jobs, timers and rows only ever name     *)
(* pods of the account (the loop of cleanup, routes.py:53, and             *)
(* apply_runpod_lifecycle, keepalive_timer.py:29).                         *)
(***************************************************************************)
THEOREM ControlIsTyped == Spec => []ControlTypeOK
<1>1. Inv => ControlTypeOK
  BY DEF Inv
<1>. QED BY <1>1, ControlInvariant, PTL

(***************************************************************************)
(* Of the pods that a clean-up which has not raised went through, those it *)
(* terminated are gone, and one that it stopped runs only after a resume   *)
(* by the route or by a run that reuses it (runner.py:160): whatever runs, *)
(* timers, the other clean-up and the provider do between its calls        *)
(* (routes.py:60-72, cleanup.py:12-20).                                    *)
(***************************************************************************)
THEOREM CleanupsReachTheirPods == Spec => []CleanupReachesItsPods
<1>1. Inv => CleanupReachesItsPods
  BY DEF Inv
<1>. QED BY <1>1, ControlInvariant, PTL

(***************************************************************************)
(* A clean-up touches managed pods only, and with a run_id only pods that  *)
(* a row of that run names (routes.py:75, _cleanup_pod_ids).               *)
(***************************************************************************)
THEOREM CleanupsKeepToTheirRun == Spec => []CleanupKeepsToItsRun
<1>1. Inv => CleanupKeepsToItsRun
  BY DEF Inv
<1>. QED BY <1>1, ControlInvariant, PTL

(***************************************************************************)
(* A keep-alive process that exhausts its attempts has met that many       *)
(* errors, or its pod is gone for good (keepalive_timer.py:36-43).         *)
(***************************************************************************)
THEOREM TimersOutlastErrors == Spec => []TimerOutlastsErrors
<1>1. Inv => TimerOutlastsErrors
  BY DEF Inv
<1>. QED BY <1>1, ControlInvariant, PTL
=============================================================================
