------------------------------- MODULE MCSse -------------------------------
(***************************************************************************)
(* Instance of Sse: one field line of each kind, a filter of one name, and *)
(* two maps and a value as destinations.  The maps are used with one       *)
(* runtime and the value with another; the maps are interchangeable.       *)
(***************************************************************************)
EXTENDS Sse, TLC

CONSTANTS map1, map2  \* destinations that are mapped structures

MCArgs == {[dst |-> map1, runtime |-> 1], [dst |-> map2, runtime |-> 1],
           [dst |-> "value", runtime |-> 2]}

Symmetry == Permutations({map1, map2})

=============================================================================
