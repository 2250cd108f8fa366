------------------------------- MODULE MCPush -------------------------------
(***************************************************************************)
(* Small instances of Push for TLC.                                        *)
(***************************************************************************)
EXTENDS Push, TLC

(* Calls of Enqueue are alike, and so are tokens.                          *)
Interchangeable == Permutations(Callers)

TwoTypes == {"MessageEnqueued", "MessageCancelled"}
=============================================================================
