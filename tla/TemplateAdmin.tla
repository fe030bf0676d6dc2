---------------------------- MODULE TemplateAdmin ----------------------------
(***************************************************************************)
(* save_templates (template_admin.py): the script that saves the templates *)
(* of a spec file one by one, and after each writes the map of their ids,  *)
(* which the server's TemplateResolver reads whenever a node is evaluated. *)
(* The file may name a key twice and give ids of its own.                  *)
(***************************************************************************)
EXTENDS Naturals, Sequences, Functions

CONSTANTS
  Keys,             \* the keys of templates
  Absent,           \* the id of an entry that gives none
  SpecFiles,        \* what the spec file may hold: it is edited between runs
  Elsewhere,        \* templates of the account that the script has not made
  MaxTemplates,     \* bound: templates in the account
  MaxInterruptions  \* bound: crashes and failed calls

NoId == 0           \* an id given as null, and one that is not sent
Entries == [key : Keys, id : Nat \union {Absent}]

ASSUME AbsentAssumption == Absent \notin Nat
ASSUME SpecFilesAssumption == SpecFiles \subseteq Seq(Entries)
ASSUME TemplateBoundsAssumption ==
  {Elsewhere, MaxTemplates, MaxInterruptions} \subseteq Nat

VARIABLES
  templates,     \* the account's templates have the ids 1 to templates
  renamed,       \* history: ids whose update was answered with another id
  ids,           \* what the map file holds, or held before it was truncated
  replaced,      \* history: ids that a write of the map has put others for
  torn,          \* write_text has truncated the file and not yet written it
  specs,         \* the spec file that the script has read
  step, next,    \* where the script is: step "idle", and position in specs
  existing,      \* the map it has loaded
  result,        \* the map it will write
  interruptions, lost   \* the bound, and those that may have cost an id

account == <<templates, renamed>>
file == <<ids, replaced, torn>>
loaded == <<specs, existing>>
limits == <<interruptions, lost>>
templateVars == <<account, file, loaded, step, next, result, limits>>

Empty == [k \in {} |-> NoId]
With(f, k, v) == [x \in DOMAIN f \union {k} |-> IF x = k THEN v ELSE f[x]]

TemplateInit ==
  /\ templates = Elsewhere /\ renamed = {} /\ ids = Empty /\ replaced = {} /\ torn = FALSE
  /\ specs = <<>> /\ step = "idle" /\ next = 1 /\ existing = Empty /\ result = Empty
  /\ interruptions = 0 /\ lost = 0

\* load_id_map: a truncated file is no JSON, and the command ends at once.
Load ==
  /\ step = "idle" /\ ~torn
  /\ specs' \in SpecFiles /\ existing' = ids /\ result' = ids
  /\ step' = (IF specs' = <<>> THEN "done" ELSE "save") /\ next' = 1
  /\ UNCHANGED <<account, file, limits>>

Interrupted(cost) ==
  /\ interruptions < MaxInterruptions /\ interruptions' = interruptions + 1
  /\ lost' = IF cost THEN lost + 1 ELSE lost
  /\ step' = "idle" /\ UNCHANGED result

\* Mutant of Input: the id in the map is not passed on.
InputWithoutId(e) == IF e.id # Absent THEN e.id ELSE NoId
\* The id that the input of saveTemplate names: the entry's own, else that of
\* the map as it was loaded; clean_none leaves a null out.
Input(e) ==
  IF e.id # Absent THEN e.id
  ELSE IF e.key \in DOMAIN existing THEN existing[e.key] ELSE NoId

\* saveTemplate: it updates the template whose id is given, or makes one; what
\* it answers to an update may be another id (test_template_admin.py:18-30).
Saves(given, id) ==
  \/ given = id /\ id \in 1..templates /\ UNCHANGED account
  \/ /\ given \in 0..templates /\ id = templates + 1 /\ templates' = id
     /\ renamed' = IF given = NoId THEN renamed ELSE renamed \union {given}

\* client.save_template, executed and answered, or with the answer lost; or it
\* fails, as it does when no template has the id.  An error ends the command.
Save ==
  /\ step = "save"
  /\ LET given == Input(specs[next])
     IN  \/ \E id \in 1..MaxTemplates :
              /\ Saves(given, id)
              /\ \/ /\ result' = With(result, specs[next].key, id) /\ step' = "open"
                    /\ UNCHANGED limits
                 \/ Interrupted(templates' # templates)
         \/ UNCHANGED account /\ Interrupted(FALSE)
         \/ /\ given \notin 0..templates /\ step' = "idle"
            /\ UNCHANGED <<account, result, limits>>
  /\ UNCHANGED <<file, loaded, next>>

\* write_id_map: open truncates, then the text is written.
Open ==
  /\ step = "open" /\ step' = "write" /\ torn' = TRUE
  /\ UNCHANGED <<account, ids, replaced, loaded, next, result, limits>>

Advance ==
  IF next < Len(specs) THEN step' = "save" /\ next' = next + 1
  ELSE step' = "done" /\ UNCHANGED next

WriteMap(map) ==
  /\ ids' = map
  /\ replaced' = replaced \union {ids[k] : k \in {x \in DOMAIN ids : ids[x] # map[x]}}

\* Mutant of Write: the map is written once, after the loop.
WriteAtEnd ==
  /\ step = "write" /\ torn' = FALSE /\ Advance
  /\ WriteMap(IF next = Len(specs) THEN result ELSE ids)
  /\ UNCHANGED <<account, loaded, result, limits>>
Write ==
  /\ step = "write" /\ torn' = FALSE /\ Advance
  /\ WriteMap(result)
  /\ UNCHANGED <<account, loaded, result, limits>>

Exit ==
  /\ step = "done" /\ step' = "idle"
  /\ UNCHANGED <<account, file, loaded, next, result, limits>>

CrashScript ==
  /\ step \in {"save", "open", "write"}
  /\ Interrupted(step # "save" /\ result # ids)
  /\ UNCHANGED <<account, file, loaded, next>>

\* load_template_id_map and _resolve_id, with a file that is not torn: the id
\* of a key; a key that is not in the map stands for itself.
ResolveId(k) == IF k \in DOMAIN ids THEN {ids[k]} ELSE {}

TemplateNext ==
  Load \/ Save \/ Open \/ Write \/ Exit \/ CrashScript
=============================================================================
