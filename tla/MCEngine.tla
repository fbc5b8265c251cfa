------------------------------ MODULE MCEngine ------------------------------
(***************************************************************************)
(* Engine for TLC: two session ids and two tokens, so a call can be made   *)
(* with the wrong id or a token that was cancelled for another call; an    *)
(* executor that proposes more drafts than the profile admits; a context   *)
(* that a prompt can fill and that ends inside, at and after a block.      *)
(***************************************************************************)
EXTENDS Engine

CONSTANTS s1, s2, t1, t2

MCSessionIds == {s1, s2}
MCTokens == {t1, t2}
=============================================================================
