-------------------------- MODULE SharedStateProofs --------------------------
(***************************************************************************)
(* What the turn counter and the template script of SharedState promise,   *)
(* for any number of callers, turns, spec files and interruptions.         *)
(***************************************************************************)
EXTENDS SharedState, FiniteSetTheorems, TLAPS

-----------------------------------------------------------------------------
(* The turn counter. *)

(***************************************************************************)
(* A caller that has read owes an increment.  Of the increments that have  *)
(* returned or are owed, all but one began beside another or are in what   *)
(* any owing caller has read, and as much is in the ledger.                *)
(***************************************************************************)
CounterTypeOK ==
  /\ turns \in Nat /\ counted \in Nat /\ overlapped \in Nat
  /\ reading \in [Callers -> Nat \union {None}]

ReadsLagBehind ==
  /\ \A c \in Busy : /\ reading[c] <= counted
                     /\ counted + Cardinality(Busy) <= reading[c] + overlapped + 1
  /\ Busy # {} => counted + Cardinality(Busy) <= turns + overlapped + 1

CounterInv == CounterTypeOK /\ TurnsAreCounted /\ ReadsLagBehind

LEMMA BusyIsFinite ==
  IsFiniteSet(Busy) /\ Cardinality(Busy) \in Nat /\ (Cardinality(Busy) = 0 <=> Busy = {})
<1>1. IsFiniteSet(Busy)
  BY CallersAssumption, FS_Subset DEF Busy
<1>. QED BY <1>1, FS_CardinalityType, FS_EmptySet

LEMMA ReadKeepsCount ==
  ASSUME CounterInv, NEW c \in Callers, TurnRead(c)
  PROVE  CounterInv'
<1>. USE DEF CounterInv, TurnRead
<1>1. CounterTypeOK' /\ TurnsAreCounted'
  BY DEF CounterTypeOK, TurnsAreCounted, Busy
<1>2. Busy' = Busy \union {c} /\ c \notin Busy
  BY DEF CounterTypeOK, Busy, None
<1>3. Cardinality(Busy') = Cardinality(Busy) + 1
  BY <1>2, BusyIsFinite, FS_AddElement
<1>4. \A d \in Busy' : reading'[d] = IF d = c THEN turns ELSE reading[d]
  BY DEF CounterTypeOK, Busy
<1>5. \A d \in Busy : reading[d] \in Nat
  BY DEF CounterTypeOK, Busy
<1>6. ReadsLagBehind'
  <2>1. CASE Busy = {}
    BY <1>2, <1>3, <1>4, <2>1, BusyIsFinite DEF CounterTypeOK, TurnsAreCounted, ReadsLagBehind
  <2>2. CASE Busy # {}
    <3>1. overlapped' = overlapped + 1 /\ UNCHANGED <<turns, counted>>
      BY <2>2
    <3>2. \A d \in Busy' : /\ reading'[d] <= counted
                           /\ counted + Cardinality(Busy) <= reading'[d] + overlapped + 1
      BY <1>2, <1>4, <2>2 DEF TurnsAreCounted, ReadsLagBehind
    <3>3. \A d \in Busy' : reading'[d] \in Nat
      BY <1>2, <1>4, <1>5 DEF CounterTypeOK
    <3>. QED
      BY <1>3, <2>2, <3>1, <3>2, <3>3, BusyIsFinite DEF CounterTypeOK, ReadsLagBehind
  <2>. QED BY <2>1, <2>2
<1>. QED BY <1>1, <1>6

LEMMA WriteKeepsCount ==
  ASSUME CounterInv, NEW c \in Callers, TurnWrite(c)
  PROVE  CounterInv'
<1>. USE DEF CounterInv, TurnWrite
<1>1. c \in Busy /\ \A d \in Busy : reading[d] \in Nat
  BY DEF CounterTypeOK, Busy
<1>2. CounterTypeOK'
  BY <1>1 DEF CounterTypeOK, None
<1>3. Busy' = Busy \ {c} /\ \A d \in Busy' : reading'[d] = reading[d]
  BY DEF CounterTypeOK, Busy, None
<1>4. Cardinality(Busy') = Cardinality(Busy) - 1 /\ Cardinality(Busy) \in Nat \ {0}
  BY <1>1, <1>3, BusyIsFinite, FS_RemoveElement
<1>5. /\ reading[c] <= counted
      /\ counted + Cardinality(Busy) <= reading[c] + overlapped + 1
  BY <1>1 DEF ReadsLagBehind
<1>6. turns' = reading[c] + 1 /\ counted' = counted + 1 /\ UNCHANGED overlapped
  OBVIOUS
<1>7. TurnsAreCounted'
  BY <1>1, <1>4, <1>5, <1>6 DEF CounterTypeOK, TurnsAreCounted
<1>8. ReadsLagBehind'
  BY <1>1, <1>3, <1>4, <1>5, <1>6 DEF CounterTypeOK, ReadsLagBehind
<1>. QED BY <1>2, <1>7, <1>8

(***************************************************************************)
(* No limit of turns is reached early, and the counter falls behind by no  *)
(* more than the increments that overlapped: whatever any finite number of *)
(* callers make of increment_counter between them.                         *)
(***************************************************************************)
THEOREM TurnsStayCounted == FairSpec => []TurnsAreCounted
<1>1. Init => CounterInv
  BY DEF Init, CounterInit, CounterInv, CounterTypeOK, TurnsAreCounted, ReadsLagBehind,
     Busy, None
<1>2. CounterInv /\ [Next]_vars => CounterInv'
  <2>. SUFFICES ASSUME CounterInv, [Next]_vars PROVE CounterInv'
    OBVIOUS
  <2>1. CASE CounterNext
    BY <2>1, ReadKeepsCount, WriteKeepsCount DEF CounterNext
  <2>2. CASE UNCHANGED counterVars
    BY <2>2 DEF counterVars, CounterInv, CounterTypeOK, TurnsAreCounted, ReadsLagBehind,
       Busy
  <2>. QED BY <2>1, <2>2 DEF Next, vars
<1>3. CounterInv => TurnsAreCounted
  BY DEF CounterInv
<1>. QED BY <1>1, <1>2, <1>3, PTL DEF FairSpec

-----------------------------------------------------------------------------
(* The map of template ids. *)

\* A map names templates by ids that are not NoId.
Map(f) == \E D \in SUBSET Keys : f \in [D -> Nat \ {NoId}]

TemplateTypeOK ==
  /\ templates \in Nat /\ specs \in Seq(Entries)
  /\ Map(ids) /\ Map(existing) /\ Map(result)
  /\ step \in {"idle", "save", "open", "write", "done"}
  /\ step \in {"save", "open", "write"} => next \in DOMAIN specs
  /\ lost \in Nat
  /\ torn \in BOOLEAN
  /\ step = "write" => torn
  /\ torn => step \in {"write", "idle"}

Working == step \in {"save", "open", "write"}
Current == specs[next].key

\* A command under way: of a plain key still to be saved the file has the id
\* that was loaded, and what is about to be written differs from the file in
\* the current key alone, whose id, if plain, only Runpod may have changed.
MapFollowsTheScript ==
  /\ Working => \A j \in DOMAIN specs :
       LET k == specs[j].key
       IN  j >= next /\ Plain(k) /\ k \in DOMAIN ids =>
             k \in DOMAIN existing /\ existing[k] = ids[k]
  /\ step = "save" => result = ids
  /\ step \in {"open", "write"} =>
       /\ DOMAIN result = DOMAIN ids \union {Current}
       /\ \A x \in DOMAIN ids : x # Current => result[x] = ids[x]
       /\ Plain(Current) /\ Current \in DOMAIN ids =>
            result[Current] = ids[Current] \/ ids[Current] \in renamed

Written == IF step \in {"open", "write"} THEN result ELSE ids
Unaccounted ==
  (Elsewhere + 1 .. templates) \ (Range(ids) \union Range(Written) \union replaced)
Accounted == (torn /\ step # "write") \/ Cardinality(Unaccounted) <= lost

TemplateInv == TemplateTypeOK /\ MapFollowsTheScript /\ Accounted

\* What a step does to the map: IdsAreStable, key by key.
Stable ==
  \A k \in DOMAIN ids : /\ k \in DOMAIN ids'
                        /\ Plain(k) => ids'[k] = ids[k] \/ ids[k] \in renamed

LEMMA AccountedAsStated == TemplatesAreAccounted <=> Accounted
BY DEF TemplatesAreAccounted, Accounted, Unaccounted, Written

\* What a step may add to the templates without a name: nothing, or one, which
\* is then counted as lost.
LEMMA LostOnesAreCounted ==
  ASSUME TemplateTypeOK, Accounted, TemplateTypeOK', ~torn \/ step = "write",
         \/ Unaccounted' \subseteq Unaccounted /\ lost' >= lost
         \/ (\E x : Unaccounted' \subseteq Unaccounted \union {x}) /\ lost' = lost + 1
  PROVE  Accounted'
<1>1. IsFiniteSet(Unaccounted)
  <2>1. Elsewhere + 1 \in Int /\ templates \in Int
    BY TemplateBoundsAssumption DEF TemplateTypeOK
  <2>2. IsFiniteSet(Elsewhere + 1 .. templates)
    BY <2>1, FS_Interval
  <2>. QED BY <2>2, FS_Subset DEF Unaccounted
<1>2. Cardinality(Unaccounted) \in Nat /\ Cardinality(Unaccounted) <= lost
  BY <1>1, FS_CardinalityType DEF Accounted
<1>3. CASE Unaccounted' \subseteq Unaccounted /\ lost' >= lost
  <2>1. IsFiniteSet(Unaccounted') /\ Cardinality(Unaccounted') <= Cardinality(Unaccounted)
    BY <1>1, <1>3, FS_Subset
  <2>2. Cardinality(Unaccounted') \in Nat
    BY <2>1, FS_CardinalityType
  <2>. QED BY <1>2, <1>3, <2>1, <2>2 DEF Accounted, TemplateTypeOK
<1>4. CASE (\E x : Unaccounted' \subseteq Unaccounted \union {x}) /\ lost' = lost + 1
  <2>1. PICK x : Unaccounted' \subseteq Unaccounted \union {x}
    BY <1>4
  <2>2. /\ IsFiniteSet(Unaccounted \union {x})
        /\ Cardinality(Unaccounted \union {x}) <= Cardinality(Unaccounted) + 1
    BY <1>1, <1>2, FS_AddElement
  <2>3. /\ IsFiniteSet(Unaccounted')
        /\ Cardinality(Unaccounted') <= Cardinality(Unaccounted \union {x})
    BY <2>1, <2>2, FS_Subset
  <2>4. Cardinality(Unaccounted') \in Nat /\ Cardinality(Unaccounted \union {x}) \in Nat
    BY <2>2, <2>3, FS_CardinalityType
  <2>. QED BY <1>2, <1>4, <2>2, <2>3, <2>4 DEF Accounted, TemplateTypeOK
<1>. QED BY <1>3, <1>4

\* One entry more, or one that is there already.
LEMMA WithIsAMap ==
  ASSUME NEW f, Map(f), NEW k \in Keys, NEW v \in Nat \ {NoId}
  PROVE  /\ Map(With(f, k, v)) /\ With(f, k, v)[k] = v
         /\ DOMAIN With(f, k, v) = DOMAIN f \union {k}
         /\ \A x \in DOMAIN f : x # k => With(f, k, v)[x] = f[x]
<1>1. PICK D \in SUBSET Keys : f \in [D -> Nat \ {NoId}]
  BY DEF Map
<1>2. With(f, k, v) \in [D \union {k} -> Nat \ {NoId}]
  BY <1>1 DEF With
<1>3. With(f, k, v) = [x \in DOMAIN f \union {k} |-> IF x = k THEN v ELSE f[x]]
  BY DEF With
<1>4. Map(With(f, k, v))
  BY <1>1, <1>2 DEF Map
<1>. QED BY <1>3, <1>4

\* The script stops: the template that a save has made, or the id that it has
\* been answered, is lost, and counted so.
LEMMA InterruptionKeepsTheMap ==
  ASSUME TemplateInv, Working, NEW cost \in BOOLEAN, Interrupted(cost),
         UNCHANGED <<file, loaded, next>>,
         \/ UNCHANGED templates
         \/ templates' = templates + 1 /\ cost /\ step = "save",
         step # "save" /\ result # ids => cost
  PROVE  TemplateInv'
<1>. USE DEF TemplateInv, Working, file, loaded
<1>1. TemplateTypeOK'
  BY DEF TemplateTypeOK, Interrupted
<1>2. MapFollowsTheScript'
  BY DEF MapFollowsTheScript, Interrupted
<1>3. lost' = (IF cost THEN lost + 1 ELSE lost) /\ lost' >= lost /\ Written' = ids
  BY DEF TemplateTypeOK, Interrupted, Written
<1>4. ASSUME torn PROVE Accounted'
  BY <1>1, <1>4 DEF TemplateTypeOK, Accounted, Interrupted
<1>5. ASSUME ~torn PROVE Accounted'
  <2>1. CASE step = "save" /\ UNCHANGED templates
    <3>1. Written = ids
      BY <2>1 DEF Written
    <3>2. Unaccounted' \subseteq Unaccounted
      BY <1>3, <2>1, <3>1 DEF Unaccounted
    <3>. QED BY <1>1, <1>3, <1>5, <3>2, LostOnesAreCounted
  <2>2. CASE step = "save" /\ templates' = templates + 1 /\ cost
    <3>1. Written = ids
      BY <2>2 DEF Written
    <3>2. (Elsewhere + 1 .. templates') \subseteq
            (Elsewhere + 1 .. templates) \union {templates + 1}
      BY <2>2, TemplateBoundsAssumption DEF TemplateTypeOK
    <3>3. Unaccounted' \subseteq Unaccounted \union {templates + 1}
      BY <1>3, <3>1, <3>2 DEF Unaccounted
    <3>. QED BY <1>1, <1>3, <1>5, <2>2, <3>3, LostOnesAreCounted
  <2>3. CASE step # "save"
    <3>1. UNCHANGED templates /\ Written = result /\ step = "open"
      BY <1>5, <2>3 DEF Written, TemplateTypeOK
    <3>2. CASE result = ids
      <4>1. Unaccounted' \subseteq Unaccounted
        BY <1>3, <3>1, <3>2 DEF Unaccounted
      <4>. QED BY <1>1, <1>3, <1>5, <4>1, LostOnesAreCounted
    <3>3. CASE result # ids
      <4>1. Range(result) \subseteq Range(ids) \union {result[Current]}
        BY <3>1 DEF MapFollowsTheScript, Range
      <4>2. Unaccounted' \subseteq Unaccounted \union {result[Current]}
        BY <1>3, <3>1, <4>1 DEF Unaccounted
      <4>. QED BY <1>1, <1>3, <1>5, <2>3, <3>3, <4>2, LostOnesAreCounted
    <3>. QED BY <3>2, <3>3
  <2>. QED BY <2>1, <2>2, <2>3
<1>. QED BY <1>1, <1>2, <1>4, <1>5

\* A save that is answered: what is to be written names the template, and if
\* it is of a plain key that had an id, it is that one or the update's answer.
LEMMA AnswerKeepsTheMap ==
  ASSUME TemplateInv, step = "save", UNCHANGED <<file, loaded, next, limits>>,
         NEW id \in 1..MaxTemplates, Saves(Input(specs[next]), id),
         result' = With(result, Current, id), step' = "open"
  PROVE  TemplateInv'
<1>. USE DEF TemplateInv, file, loaded, limits
<1>1. /\ specs \in Seq(Entries) /\ next \in DOMAIN specs
      /\ specs[next].key = Current /\ Current \in Keys /\ Map(ids) /\ result = ids /\ ~torn
      /\ templates \in Nat /\ id \in Nat \ {NoId}
  <2>1. specs \in Seq(Entries) /\ next \in DOMAIN specs
    BY DEF TemplateTypeOK
  <2>2. specs[next] \in Entries
    BY <2>1
  <2>3. id \in Nat \ {NoId}
    BY TemplateBoundsAssumption DEF NoId
  <2>. QED BY <2>1, <2>2, <2>3 DEF TemplateTypeOK, MapFollowsTheScript, Current, Entries
<1>2. /\ Map(result') /\ DOMAIN result' = DOMAIN ids \union {Current}
      /\ result'[Current] = id
      /\ \A x \in DOMAIN ids : x # Current => result'[x] = ids[x]
  <2>1. Map(ids) /\ Current \in Keys /\ id \in Nat \ {NoId} /\ result' = With(ids, Current, id)
    BY <1>1
  <2>2. /\ Map(With(ids, Current, id)) /\ With(ids, Current, id)[Current] = id
        /\ DOMAIN With(ids, Current, id) = DOMAIN ids \union {Current}
        /\ \A x \in DOMAIN ids : x # Current => With(ids, Current, id)[x] = ids[x]
    BY ONLY <2>1, WithIsAMap
  <2>. QED BY <2>1, <2>2
<1>3. /\ Current' = Current /\ \A k : Plain(k)' <=> Plain(k)
  BY DEF Current, Plain
<1>4. \/ UNCHANGED account /\ Input(specs[next]) = id
      \/ /\ templates' = templates + 1 /\ id = templates'
         /\ renamed \subseteq renamed'
         /\ Input(specs[next]) # NoId => Input(specs[next]) \in renamed'
  BY DEF Saves, account
<1>5. templates' \in Nat
  BY <1>1, <1>4 DEF account
<1>6. TemplateTypeOK'
  BY <1>1, <1>2, <1>5 DEF TemplateTypeOK, Map
<1>7. Plain(Current) /\ Current \in DOMAIN ids =>
        result'[Current] = ids[Current] \/ ids[Current] \in renamed'
  <2>. SUFFICES ASSUME Plain(Current), Current \in DOMAIN ids
                PROVE  id = ids[Current] \/ ids[Current] \in renamed'
    BY <1>2
  <2>1. specs[next].id = Absent
    BY <1>1 DEF Plain
  <2>2. next >= next
    BY <1>1
  <2>3. Current \in DOMAIN existing /\ existing[Current] = ids[Current]
    BY <1>1, <2>2 DEF MapFollowsTheScript, Working
  <2>4. Input(specs[next]) = ids[Current] /\ ids[Current] # NoId
    BY <1>1, <2>1, <2>3 DEF Input, Map
  <2>. QED BY <1>4, <2>4
<1>8. MapFollowsTheScript'
  BY <1>1, <1>2, <1>3, <1>7 DEF MapFollowsTheScript, Working
<1>9. Accounted'
  <2>1. Written = ids /\ Written' = result' /\ UNCHANGED <<ids, replaced, lost>>
    BY DEF Written
  <2>2. id \in Range(result')
    BY <1>2 DEF Range
  <2>3. (Elsewhere + 1 .. templates') \subseteq (Elsewhere + 1 .. templates) \union {id}
    BY <1>1, <1>4, TemplateBoundsAssumption DEF account
  <2>4. Unaccounted' \subseteq Unaccounted
    BY <2>1, <2>2, <2>3 DEF Unaccounted
  <2>5. lost' >= lost
    BY <2>1 DEF TemplateTypeOK
  <2>. QED BY <1>1, <1>6, <2>4, <2>5, LostOnesAreCounted
<1>. QED BY <1>6, <1>8, <1>9

LEMMA SaveKeepsTheMap ==
  ASSUME TemplateInv, Save
  PROVE  TemplateInv'
<1>. DEFINE given == Input(specs[next])
<1>1. /\ step = "save" /\ Working /\ UNCHANGED <<file, loaded, next>> /\ templates \in Nat
  BY DEF Save, Working, TemplateInv, TemplateTypeOK
<1>2. ASSUME NEW id \in 1..MaxTemplates, Saves(given, id)
      PROVE  /\ UNCHANGED templates \/ templates' = templates + 1
             /\ (templates' # templates) \in BOOLEAN
  BY <1>2 DEF Saves, account
<1>3. ASSUME NEW id \in 1..MaxTemplates, Saves(given, id),
             result' = With(result, specs[next].key, id), step' = "open", UNCHANGED limits
      PROVE  TemplateInv'
  BY <1>1, <1>3, AnswerKeepsTheMap DEF Current
<1>4. ASSUME NEW id \in 1..MaxTemplates, Saves(given, id),
             Interrupted(templates' # templates)
      PROVE  TemplateInv'
  BY <1>1, <1>2, <1>4, InterruptionKeepsTheMap
<1>5. CASE UNCHANGED account /\ Interrupted(FALSE)
  BY <1>1, <1>5, InterruptionKeepsTheMap DEF account
<1>6. CASE step' = "idle" /\ UNCHANGED <<account, result, limits>>
  <2>. USE DEF TemplateInv, file, loaded, account, limits
  <2>1. TemplateTypeOK'
    BY <1>1, <1>6 DEF TemplateTypeOK
  <2>2. MapFollowsTheScript'
    BY <1>6 DEF MapFollowsTheScript, Working
  <2>3. Accounted'
    BY <1>1, <1>6 DEF Accounted, Unaccounted, Written, TemplateTypeOK
  <2>. QED BY <2>1, <2>2, <2>3
<1>. QED BY <1>3, <1>4, <1>5, <1>6 DEF Save

LEMMA WriteKeepsTheMap ==
  ASSUME TemplateInv, Write
  PROVE  TemplateInv' /\ Stable
<1>. USE DEF TemplateInv
<1>1. /\ step = "write" /\ ids' = result /\ torn' = FALSE /\ torn
      /\ replaced' = replaced \union {ids[k] : k \in {x \in DOMAIN ids : ids[x] # result[x]}}
      /\ UNCHANGED <<templates, renamed, specs, existing, result, interruptions, lost>>
      /\ DOMAIN result = DOMAIN ids \union {Current}
      /\ \A x \in DOMAIN ids : x # Current => result[x] = ids[x]
  BY DEF Write, WriteMap, MapFollowsTheScript, TemplateTypeOK, account, loaded, limits
<1>2. /\ Len(specs) \in Nat /\ DOMAIN specs = 1..Len(specs) /\ next \in 1..Len(specs)
      /\ \/ step' = "save" /\ next' = next + 1 /\ next' \in DOMAIN specs
         \/ step' = "done"
  <2>1. Len(specs) \in Nat /\ DOMAIN specs = 1..Len(specs) /\ next \in 1..Len(specs)
    BY <1>1 DEF TemplateTypeOK
  <2>. QED BY <2>1 DEF Write, Advance
<1>3. TemplateTypeOK'
  BY <1>1, <1>2 DEF TemplateTypeOK, Map
<1>4. MapFollowsTheScript'
  <2>. SUFFICES ASSUME step' = "save", NEW j \in DOMAIN specs, j >= next',
                       Plain(specs[j].key), specs[j].key \in DOMAIN result
                PROVE  /\ specs[j].key \in DOMAIN existing
                       /\ existing[specs[j].key] = result[specs[j].key]
    BY <1>1, <1>2 DEF MapFollowsTheScript, Working, Plain
  <2>1. j >= next /\ j # next
    BY <1>2
  <2>2. specs[j].key # Current
    BY <1>2, <2>1 DEF Plain, Current
  <2>3. specs[j].key \in DOMAIN ids /\ result[specs[j].key] = ids[specs[j].key]
    BY <1>1, <2>2
  <2>. QED BY <1>1, <2>1, <2>3 DEF MapFollowsTheScript, Working
<1>5. Accounted'
  <2>1. Written' = result /\ Written = result
    BY <1>1 DEF Written
  <2>2. ASSUME NEW i \in Range(ids) PROVE i \in Range(result) \union replaced'
    <3>1. PICK x \in DOMAIN ids : i = ids[x]
      BY <2>2 DEF Range
    <3>2. CASE ids[x] = result[x]
      BY <1>1, <3>1, <3>2 DEF Range
    <3>3. CASE ids[x] # result[x]
      BY <1>1, <3>1, <3>3
    <3>. QED BY <3>2, <3>3
  <2>3. Unaccounted' \subseteq Unaccounted
    BY <1>1, <2>1, <2>2 DEF Unaccounted
  <2>4. lost' >= lost
    BY <1>1 DEF TemplateTypeOK
  <2>. QED BY <1>1, <1>3, <2>3, <2>4, LostOnesAreCounted
<1>6. Stable
  BY <1>1 DEF Stable, MapFollowsTheScript
<1>. QED BY <1>3, <1>4, <1>5, <1>6

LEMMA ScriptKeepsTheMap ==
  ASSUME TemplateInv, TemplateNext
  PROVE  TemplateInv' /\ Stable
<1>. USE DEF TemplateInv, account, file, loaded, limits
<1>1. CASE Load
  <2>1. specs' \in Seq(Entries) /\ (specs' # <<>> => 1 \in DOMAIN specs')
    <3>1. specs' \in Seq(Entries)
      BY <1>1, SpecFilesAssumption DEF Load
    <3>. QED BY <3>1
  <2>2. TemplateTypeOK'
    BY <1>1, <2>1 DEF Load, TemplateTypeOK, Map
  <2>3. MapFollowsTheScript'
    BY <1>1 DEF Load, MapFollowsTheScript, Working
  <2>4. Accounted'
    BY <1>1 DEF Load, Accounted, Unaccounted, Written
  <2>. QED BY <1>1, <2>2, <2>3, <2>4 DEF Load, Stable
<1>2. CASE Save
  BY <1>2, SaveKeepsTheMap DEF Save, Stable
<1>3. CASE Open
  <2>1. TemplateTypeOK'
    BY <1>3 DEF Open, TemplateTypeOK
  <2>2. MapFollowsTheScript'
    BY <1>3 DEF Open, MapFollowsTheScript, Working, Current, Plain
  <2>3. Accounted'
    BY <1>3 DEF Open, Accounted, Unaccounted, Written, TemplateTypeOK
  <2>. QED BY <1>3, <2>1, <2>2, <2>3 DEF Open, Stable
<1>4. CASE Write
  BY <1>4, WriteKeepsTheMap
<1>5. CASE Exit
  <2>1. TemplateTypeOK'
    BY <1>5 DEF Exit, TemplateTypeOK
  <2>2. MapFollowsTheScript'
    BY <1>5 DEF Exit, MapFollowsTheScript, Working
  <2>3. Accounted'
    BY <1>5 DEF Exit, Accounted, Unaccounted, Written, TemplateTypeOK
  <2>. QED BY <1>5, <2>1, <2>2, <2>3 DEF Exit, Stable
<1>6. CASE CrashScript
  <2>. DEFINE cost == step # "save" /\ result # ids
  <2>1. Working /\ cost \in BOOLEAN /\ Interrupted(cost)
        /\ UNCHANGED <<file, loaded, next, templates>>
    BY <1>6 DEF CrashScript, Working
  <2>2. TemplateInv'
    BY <2>1, InterruptionKeepsTheMap
  <2>. QED BY <2>1, <2>2 DEF Stable
<1>. QED BY <1>1, <1>2, <1>3, <1>4, <1>5, <1>6 DEF TemplateNext

LEMMA MapAtFirst == Init => TemplateInv
<1>. SUFFICES ASSUME Init PROVE TemplateInv
  OBVIOUS
<1>. USE DEF Init, TemplateInit
<1>1. Map(Empty) /\ DOMAIN Empty = {}
  BY DEF Map, Empty
<1>2. TemplateTypeOK
  <2>1. templates \in Nat
    BY TemplateBoundsAssumption
  <2>2. specs \in Seq(Entries)
    OBVIOUS
  <2>3. Map(ids) /\ Map(existing) /\ Map(result)
    BY <1>1
  <2>. QED BY <2>1, <2>2, <2>3 DEF TemplateTypeOK
<1>3. MapFollowsTheScript
  BY DEF MapFollowsTheScript, Working
<1>4. Unaccounted = {}
  BY TemplateBoundsAssumption DEF Unaccounted
<1>5. Accounted
  BY <1>4, FS_EmptySet DEF Accounted
<1>. QED BY <1>2, <1>3, <1>5 DEF TemplateInv

LEMMA StepKeepsTheMap == TemplateInv /\ [Next]_vars => TemplateInv' /\ Stable
<1>. SUFFICES ASSUME TemplateInv, [Next]_vars PROVE TemplateInv' /\ Stable
  OBVIOUS
<1>1. CASE TemplateNext
  BY <1>1, ScriptKeepsTheMap
<1>2. CASE UNCHANGED templateVars
  <2>. USE <1>2 DEF templateVars, account, file, loaded, limits, TemplateInv
  <2>1. TemplateTypeOK'
    BY DEF TemplateTypeOK
  <2>2. MapFollowsTheScript'
    BY DEF MapFollowsTheScript, Working, Current, Plain
  <2>3. Accounted'
    BY DEF Accounted, Unaccounted, Written
  <2>. QED BY <2>1, <2>2, <2>3 DEF Stable
<1>. QED BY <1>1, <1>2 DEF Next, vars

(***************************************************************************)
(* Every template that save_templates has made has its id in the map, or   *)
(* in the script about to write it, or had until a write put another id    *)
(* for it; but for one for each interruption between a save and its write. *)
(* So it is for any spec files, also where they name a key twice or give   *)
(* ids of their own, and whatever ids Runpod answers.                      *)
(***************************************************************************)
THEOREM TemplatesStayAccounted == FairSpec => []TemplatesAreAccounted
<1>1. TemplateInv => TemplatesAreAccounted
  BY AccountedAsStated DEF TemplateInv
<1>. QED BY <1>1, MapAtFirst, StepKeepsTheMap, PTL DEF FairSpec

(***************************************************************************)
(* No key leaves the map, and the id of a key that the spec file names at  *)
(* most once and gives no id (template_admin.py:26) is replaced only when  *)
(* Runpod has answered an update of it with another: so the hashes of      *)
(* pods, which contain it, stay as they are.                               *)
(***************************************************************************)
THEOREM IdsStayStable == FairSpec => IdsAreStable
<1>1. Stable => \A k \in Keys :
                  /\ ResolveId(k) # {} => ResolveId(k)' # {}
                  /\ Plain(k) => ResolveId(k) \subseteq ResolveId(k)' \union renamed
  BY DEF Stable, ResolveId
<1>2. TemplateInv /\ [Next]_vars =>
        [\A k \in Keys : /\ ResolveId(k) # {} => ResolveId(k)' # {}
                         /\ Plain(k) => ResolveId(k) \subseteq ResolveId(k)' \union renamed]_vars
  BY <1>1, StepKeepsTheMap
<1>. QED BY <1>2, MapAtFirst, StepKeepsTheMap, PTL DEF FairSpec, IdsAreStable

=============================================================================
