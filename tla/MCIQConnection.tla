--------------------------- MODULE MCIQConnection ---------------------------
(***************************************************************************)
(* Two endpoints, the first of them preferred.                             *)
(***************************************************************************)
EXTENDS IQConnection

MCPriority == [e \in {"a", "b"} |-> IF e = "a" THEN 1 ELSE 2]
=============================================================================
