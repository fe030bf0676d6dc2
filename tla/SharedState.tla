----------------------------- MODULE SharedState -----------------------------
(***************************************************************************)
(* What callers of the server keep in common without a lock of their own:  *)
(* the turn counter in the ledger, the file of template ids, and the       *)
(* dropdown options in memory.  They touch no state of each other.         *)
(***************************************************************************)
EXTENDS TurnCounter, TemplateAdmin, OptionsCache, FiniteSets

vars == <<counterVars, templateVars, optionsVars>>

Init == CounterInit /\ TemplateInit /\ OptionsInit

Next ==
  \/ CounterNext /\ UNCHANGED <<templateVars, optionsVars>>
  \/ TemplateNext /\ UNCHANGED <<counterVars, optionsVars>>
  \/ OptionsNext /\ UNCHANGED <<counterVars, templateVars>>

\* Time passes, and the frontend asks for the nodes again (on every load).
FairSpec ==
  /\ Init /\ [][Next]_vars
  /\ WF_vars(Tick /\ UNCHANGED <<counterVars, templateVars>>)
  /\ WF_vars(Offer /\ UNCHANGED <<counterVars, templateVars>>)

-----------------------------------------------------------------------------
(***************************************************************************)
(* The counter never runs ahead of the turns taken, so that no limit is    *)
(* reached early, and it falls behind by no more than the increments that  *)
(* began beside another.                                                   *)
(***************************************************************************)
TurnsAreCounted ==
  turns <= counted /\ counted <= turns + overlapped

(***************************************************************************)
(* A key that resolves goes on to, and to the same id over all that the    *)
(* script does, be it interrupted and run again, unless the spec file      *)
(* names the key twice or gives it an id, or Runpod has answered an update *)
(* of the id with another: ids are part of the hash by which pods are      *)
(* reused.                                                                 *)
(***************************************************************************)
Plain(k) ==
  \A i \in DOMAIN specs : specs[i].key = k =>
    specs[i].id = Absent /\ \A j \in DOMAIN specs : specs[j].key = k => j = i

IdsAreStable ==
  [][\A k \in Keys : /\ ResolveId(k) # {} => ResolveId(k)' # {}
                     /\ Plain(k) => ResolveId(k) \subseteq ResolveId(k)' \union renamed]_vars

(***************************************************************************)
(* Every template that the script has made is named by the map, or by the  *)
(* script about to write it, or was until a write put another id for it;   *)
(* but for one for each interruption between a save and its write.  (One   *)
(* within the write leaves no map.)                                        *)
(***************************************************************************)
TemplatesAreAccounted ==
  LET written == IF step \in {"open", "write"} THEN result ELSE ids
      named == Range(ids) \union Range(written) \union replaced
  IN  (torn => step = "write") =>
        Cardinality((Elsewhere + 1 .. templates) \ named) <= lost

(***************************************************************************)
(* Once there is a key the nodes offer options some time, though an empty  *)
(* answer is kept like any other.                                          *)
(***************************************************************************)
DropdownsRecover == apiKey ~> offered = "options"
=============================================================================
