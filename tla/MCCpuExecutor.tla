--------------------------- MODULE MCCpuExecutor ---------------------------
(* The cache alone under every policy of MCPagedKvCache and, once an        *)
(* executor has been loaded, as the attention state of its session.         *)
EXTENDS CpuExecutor, MCPagedKvCache

(* qwen_default with and without a sink, in pages of two tokens. *)
MCExecutorPolicies ==
    {[maximum_tokens |-> Context, page_tokens |-> 2, sink_tokens |-> sink,
      recent_tokens |-> 2] : sink \in {0, 2}}

MCPrompts == {<<v>> : v \in Values} \cup Values \X Values

=============================================================================
