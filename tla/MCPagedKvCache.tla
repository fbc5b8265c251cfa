--------------------------- MODULE MCPagedKvCache ---------------------------
(* Small instances of PagedKvCache. *)
EXTENDS PagedKvCache, TLC

(* The appended rows are only compared and moved. *)
MCSymmetry == Permutations(Values)

=============================================================================
