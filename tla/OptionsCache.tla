----------------------------- MODULE OptionsCache -----------------------------
(***************************************************************************)
(* runpod_dropdown_options: the GPU types and data centres that the nodes  *)
(* offer, fetched from Runpod and kept for some time by the server.        *)
(***************************************************************************)
EXTENDS Naturals

CONSTANTS
  TTL,        \* CRAG_RUNPOD_OPTIONS_TTL_SECONDS, in ticks
  MaxOutages  \* bound: fetches that fail, and restarts of the server
ASSUME OptionsAssumption == TTL \in Nat /\ MaxOutages \in Nat

VARIABLES
  apiKey,   \* the server has an API key
  cache,    \* what was fetched last and how long ago, "none" at first
  offered,  \* what the nodes offer: "options", or "text" for a plain field
  outages

optionsVars == <<apiKey, cache, offered, outages>>

NoCache == [options |-> "none", age |-> 0]

OptionsInit ==
  /\ apiKey = FALSE /\ cache = NoCache /\ offered = "text" /\ outages = 0

\* Mutant of Fresh: what was fetched once is kept.
FreshForEver == cache # NoCache
Fresh == cache # NoCache /\ cache.age < TTL

\* fetch_runpod_dropdown_options: every failure is an empty answer.
Fetched(answer) ==
  /\ cache' = [options |-> answer, age |-> 0] /\ offered' = answer

Offer ==
  /\ \/ Fresh /\ offered' = cache.options /\ UNCHANGED <<cache, outages>>
     \/ ~Fresh /\ Fetched(IF apiKey THEN "options" ELSE "text") /\ UNCHANGED outages
     \/ /\ ~Fresh /\ apiKey /\ outages < MaxOutages
        /\ outages' = outages + 1 /\ Fetched("text")
  /\ UNCHANGED apiKey

Tick ==
  /\ cache # NoCache /\ cache.age < TTL
  /\ cache' = [cache EXCEPT !.age = @ + 1]
  /\ UNCHANGED <<apiKey, offered, outages>>

SetKey == ~apiKey /\ apiKey' = TRUE /\ UNCHANGED <<cache, offered, outages>>

Restart ==
  /\ outages < MaxOutages /\ outages' = outages + 1
  /\ cache' = NoCache /\ UNCHANGED <<apiKey, offered>>

OptionsNext == Offer \/ Tick \/ SetKey \/ Restart
=============================================================================
