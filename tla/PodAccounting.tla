--------------------------- MODULE PodAccounting ---------------------------
(***************************************************************************)
(* What the ledger promises about the pods that are paid for, without      *)
(* saying how: a pod is announced before it is created, a pod that exists  *)
(* may be tracked, and one that is tracked stays so, whatever crashes or   *)
(* calls fail on the way.                                                  *)
(***************************************************************************)
CONSTANT Pod

VARIABLE account

Stage == {"unknown", "announced", "created", "tracked"}

AccountingTypeOK == account \in [Pod -> Stage]

Init == account = [p \in Pod |-> "unknown"]

Move(p, from, to) ==
  /\ account[p] = from
  /\ account' = [account EXCEPT ![p] = to]

Announce(p) == Move(p, "unknown", "announced")
Create(p)   == Move(p, "announced", "created")
Track(p)    == Move(p, "created", "tracked")

Next == \E p \in Pod : Announce(p) \/ Create(p) \/ Track(p)

Spec == Init /\ [][Next]_account

============================================================================
