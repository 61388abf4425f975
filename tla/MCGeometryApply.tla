-------------------------- MODULE MCGeometryApply --------------------------
(* One request and a few edits, with crashes and failures at every step.   *)
EXTENDS GeometryApply
=============================================================================
