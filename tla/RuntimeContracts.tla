-------------------------- MODULE RuntimeContracts --------------------------
(***************************************************************************)
(* runtime_contracts.py and the part of specs.py it works on: what a node  *)
(* of the workflow adds to the pods of a deployment.  A contract has an    *)
(* environment, references to secrets, ports and commands.                 *)
(*                                                                         *)
(* A value of the environment is a set of fragments <<kind, what>>, since  *)
(* one string may carry several things that are replaced later, each on    *)
(* its own: "crag" is a placeholder for a service (crag://llm/...),        *)
(* "secret" one that Runpod fills in, "server_env" a shell variable.  The  *)
(* text around them is left out.  Files are left out too.                  *)
(***************************************************************************)
EXTENDS Integers, Sequences, FiniteSets, TLC, SequencesExt

Text(x) == {<<"text", x>>}
Crag(role) == {<<"crag", role>>}

Contract(env, secrets, ports, commands) ==
  [env |-> env, secrets |-> secrets, ports |-> ports, commands |-> commands]

EmptyContract == Contract(<<>>, <<>>, <<>>, <<>>)

SecretRef(name, var, provider) ==
  [name |-> name, var |-> var, provider |-> provider]

\* RuntimeCommand and SSHCommand; what stands for the command's text.
Command(what, phase, order, policy) ==
  [what |-> what, phase |-> phase, order |-> order, policy |-> policy]

\* dict.update and {**old, **new}: what is new wins.
new ## old ==
  [k \in DOMAIN new \union DOMAIN old |->
     IF k \in DOMAIN new THEN new[k] ELSE old[k]]

\* merge_contracts, two at a time: the later contract wins where both set one
\* variable.
MergeContracts(a, b) ==
  Contract(b.env ## a.env, a.secrets \o b.secrets, a.ports \o b.ports,
           a.commands \o b.commands)
a ++ b == MergeContracts(a, b)

WithEnv(contract, values) == [contract EXCEPT !.env = values ## @]

SecretPlaceholder(secret) ==
  {<<IF secret.provider = "server_env" THEN "server_env" ELSE "secret",
     secret.name>>}

\* planner.py contract_env_for_creation: secrets are written last, in order.
VarsOf(secrets) == {secrets[i].var : i \in DOMAIN secrets}
LastFor(var, secrets) ==
  secrets[CHOOSE i \in DOMAIN secrets:
            /\ secrets[i].var = var
            /\ \A j \in DOMAIN secrets: secrets[j].var = var => j <= i]
EnvForCreation(contract) ==
  [var \in VarsOf(contract.secrets) |->
     SecretPlaceholder(LastFor(var, contract.secrets))] ## contract.env

Without(env, keys) == [k \in DOMAIN env \ keys |-> env[k]]

\* The items at the indices I, in their order: [x for x in items if ...].
ItemsAt(items, I) ==
  [n \in 1 .. Cardinality(I) |->
     items[CHOOSE i \in I: Cardinality({j \in I: j <= i}) = n]]

\* Mutant of SortedByOrder: the commands are left as they were contributed.
Unsorted(commands) == commands
\* sorted(commands, key=lambda item: item.order), which is stable.
SortedByOrder(commands) ==
  LET Rank(j) == Cardinality({k \in DOMAIN commands:
                   \/ commands[k].order < commands[j].order
                   \/ commands[k].order = commands[j].order /\ k <= j})
  IN  [i \in DOMAIN commands |->
         commands[CHOOSE j \in DOMAIN commands: Rank(j) = i]]
=============================================================================
