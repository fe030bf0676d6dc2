---------------------------- MODULE MCPodControl ----------------------------
(***************************************************************************)
(* Small instances of PodControl: an agent's pods and a pod of the user's. *)
(***************************************************************************)
EXTENDS PodControl

CONSTANTS agent, foreign
=============================================================================
