----------------------------- MODULE StateStore -----------------------------
(***************************************************************************)
(* The SQLite ledger of state_store.py: the tables runs and resources, and *)
(* of the table events the cleanup failures.  One method is one committed  *)
(* transaction.                                                            *)
(*                                                                         *)
(* The resources table holds two families of rows.  record_resource writes *)
(* the row "run:role:hash", the key <<"own", r, h>> here.                  *)
(* record_remote_resource writes a row whose id is the pod id, the key     *)
(* <<"remote", r, h>> for the pod <<r, h>>; its run_id is NULL, because    *)
(* list_pods does not ask for the env that would hold CRAG_RUN_ID.         *)
(***************************************************************************)
EXTENDS PodProvider

VARIABLES
  ledger,        \* the resources table
  clock,         \* orders created_at: how many rows were ever inserted
  runStatus,     \* the status column of the runs table
  cleanupFailed  \* the rows with a cleanup_*_failed event

storeVars == <<ledger, clock, runStatus, cleanupFailed>>

Keys == {"own", "remote"} \X Runs \X Hashes
RowStatus == Known \cup {"none", "creating", "stop", "terminate"}

Own(r, h) == <<"own", r, h>>
Remote(p) == <<"remote", p[1], p[2]>>

HashOf(k) == k[3]
Exists(k) == ledger[k].at > 0
HasPod(k) == ledger[k].pod # NoPod

StoreTypeOK ==
  /\ ledger \in [Keys -> [pod : Pods \cup {NoPod}, status : RowStatus, at : Nat]]
  /\ clock \in Nat
  /\ runStatus \in [Runs -> {"none", "started", "completed", "failed"}]
  /\ cleanupFailed \subseteq Keys

StoreInit ==
  /\ ledger = [k \in Keys |-> [pod |-> NoPod, status |-> "none", at |-> 0]]
  /\ clock = 0
  /\ runStatus = [r \in Runs |-> "none"]
  /\ cleanupFailed = {}

\* INSERT ... ON CONFLICT(id) DO UPDATE: created_at stays as first written.
Upsert(k, p, s) ==
  /\ ledger' = [ledger EXCEPT ![k] =
                  [pod |-> p, status |-> s,
                   at |-> IF Exists(k) THEN @.at ELSE clock + 1]]
  /\ clock' = IF Exists(k) THEN clock ELSE clock + 1
  /\ UNCHANGED <<runStatus, cleanupFailed>>

MarkResourceStatus(k, s) ==
  /\ ledger' = [ledger EXCEPT ![k].status = s]
  /\ UNCHANGED <<clock, runStatus, cleanupFailed>>

RecordRun(r, s) ==
  /\ runStatus' = [runStatus EXCEPT ![r] = s]
  /\ UNCHANGED <<ledger, clock, cleanupFailed>>

\* Mutant of Newest: ORDER BY created_at without DESC.
Oldest(S) == CHOOSE k \in S : \A j \in S : ledger[k].at <= ledger[j].at

\* list_resources orders by created_at DESC: the row a loop over S meets first.
Newest(S) == CHOOSE k \in S : \A j \in S : ledger[j].at <= ledger[k].at

RowsNaming(h) == {k \in Keys : HashOf(k) = h /\ HasPod(k)}
RowsOfRun(r) == {k \in Keys : k[1] = "own" /\ k[2] = r /\ HasPod(k)}

============================================================================
