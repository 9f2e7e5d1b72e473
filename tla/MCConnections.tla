--------------------------- MODULE MCConnections ----------------------------
(***************************************************************************)
(* Small instances of Connections.  i1 and i2 are inbound, o1 and o2       *)
(* disposable outbound, v1 persistent.  i1, i2 and o1 have one address,    *)
(* like a peer that connects again while its old connection is still       *)
(* registered, or that is dialled meanwhile.                               *)
(***************************************************************************)
EXTENDS Connections

MCHost == [c \in Conn |-> IF c \in {"i1", "i2", "o1"} THEN "H1" ELSE "H2"]

MCAddr == [c \in Conn |->
  CASE c \in {"i1", "i2", "o1"} -> "H1:1" [] c = "o2" -> "H2:1" [] c = "v1" -> "H2:2"]
=============================================================================
