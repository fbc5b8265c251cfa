--------------------------- MODULE MCCudaExecutor ---------------------------
(* Bounds for CudaExecutor: pages of four tokens, the first of them the     *)
(* sink, a window of one page and so a ring of two slots; blocks of four    *)
(* tokens, the widest a page admits. A session passes three page ends       *)
(* behind the sink, so every slot of the ring is taken twice.               *)
EXTENDS CudaExecutor

MCMaximumTokens == 17
MCPromptLengths == {1, 6, 11}
MCBothModes == {"CompactGreedy", "FullVerifierLogits"}
MCVerifierOnly == {"FullVerifierLogits"}
=============================================================================
