--------------------------- MODULE MCMetalPagedKv ---------------------------
(* Small instances of MetalPagedKv. *)
EXTENDS MetalPagedKv, TLC

CONSTANT Capacity             \* BOUND on maximum_tokens

MCSymmetry == Permutations(Values)

(* metal_executor.rs, cache_config, with pages of page tokens and a sink of *)
(* at most sink tokens in place of 64 and 128.                              *)
MCCacheConfig(context, retained, page, sink) ==
    LET kept == Lesser(retained, context)
    IN  [maximum_tokens |-> context, page_tokens |-> Lesser(page, context),
         sink_tokens |-> Lesser(kept, sink),
         recent_tokens |-> SaturatingSub(kept, Lesser(kept, sink))]

Shape(maximum, page, sink, recent) ==
    [maximum_tokens |-> maximum, page_tokens |-> page,
     sink_tokens |-> sink, recent_tokens |-> recent]

(* A window aligned with the pages, one that straddles two of them, one     *)
(* shorter than a page, one-token pages, no sink, no window, and the        *)
(* executor's configurations of short contexts, where the pool is clamped.  *)
MCPolicies ==
    {Shape(6, 2, 2, 2), Shape(6, 2, 0, 3), Shape(5, 2, 0, 1),
     Shape(5, 1, 1, 2), Shape(6, 3, 0, 2), Shape(4, 2, 2, 0), Shape(3, 1, 1, 0)}
    \cup {MCCacheConfig(context, retained, 2, 4) :
              context \in 1 .. 3, retained \in 0 .. 3}
    \cup {MCCacheConfig(Capacity, retained, 1, 2) : retained \in {1, 3, 4}}

(* The production shape, scaled down: two pages of sink, four of window and *)
(* a context that is longer.                                                *)
MCProduction == {MCCacheConfig(Capacity, 12, 2, 4)}

=============================================================================
