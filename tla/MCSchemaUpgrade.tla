-------------------------- MODULE MCSchemaUpgrade ---------------------------
(* A small instance of SchemaUpgrade: two workers of a release with three
   migrations and one of an older release with two. *)
EXTENDS SchemaUpgrade

CONSTANTS w1, w2, old

Releases == [w \in Workers |-> IF w = old THEN 2 ELSE 3]
FirstVersions == 0..3
=============================================================================
