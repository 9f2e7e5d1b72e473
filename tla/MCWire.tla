------------------------------- MODULE MCWire -------------------------------
(***************************************************************************)
(* Small instances of Wire: two nodes and one connection.                  *)
(***************************************************************************)
EXTENDS Wire

Pair == {<<"A", "B">>, <<"B", "A">>}
=============================================================================
