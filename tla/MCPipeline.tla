----------------------------- MODULE MCPipeline ----------------------------
(***************************************************************************)
(* Pipeline on a short history: a token is created, then, in the same      *)
(* slot, another one, and a transaction of the first token follows.        *)
(***************************************************************************)
EXTENDS Pipeline

MCSlot == <<1, 1, 2>>
MCParent == <<None, None, 1>>
============================================================================
