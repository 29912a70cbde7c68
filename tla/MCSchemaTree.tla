---------------------------- MODULE MCSchemaTree ----------------------------
(* Instances of SchemaTree for TLC. *)
EXTENDS SchemaTreeProps

Up == [i \in 1 .. 14 |-> i]
Empty == {<<>>}
Both == {<<>>, Up, Reverse(Up)}
=============================================================================
