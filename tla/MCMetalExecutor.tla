--------------------------- MODULE MCMetalExecutor ---------------------------
(* The attention owner alone, as the verifier binaries drive it, with every *)
(* policy of MCMetalPagedKv, and, once an executor has been loaded, the     *)
(* owner in the executor's hands. Pages of three tokens hold a block of two *)
(* drafts.                                                                  *)
EXTENDS MetalExecutor, MCMetalPagedKv

MCExecutorPolicies == {MCCacheConfig(Context, retained, 3, 3) : retained \in {3, 9}}

MCAllPolicies == MCPolicies \cup MCExecutorPolicies

\* Two tokens differ where a sequence has two.
MCPairs == {pair \in Values \X Values : pair[1] # pair[2]}
MCSequences == {<<v>> : v \in Values} \cup MCPairs

=============================================================================
