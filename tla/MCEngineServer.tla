--------------------------- MODULE MCEngineServer ---------------------------
(***************************************************************************)
(* EngineServer for TLC: one token-ID client, one client that streams      *)
(* generations, one that sends everything else.                            *)
(***************************************************************************)
EXTENDS EngineServer, TLC

CONSTANTS s1, s2, tokens, streams, control

MCSessionIds == {s1, s2}
MCOneSession == {s1}
\* Session ids are only compared, so exchanging them changes no safety
\* property.
MCSymmetry == Permutations(MCSessionIds)
MCConnections == {tokens, streams, control}
MCTokenClients == {tokens}
MCStreamClients == {streams}
MCControlClients == {control}
=============================================================================
