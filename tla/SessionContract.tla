--------------------------- MODULE SessionContract ---------------------------
(***************************************************************************)
(* What an engine promises its caller (docs/ENGINE_ABI_V1.md), without the *)
(* executor, the cancellation tokens or the points where a call can stop.  *)
(*                                                                         *)
(* At most one session exists.  It is append-only: an answered prefill or  *)
(* decode extends it by exactly what it answered, and a call that is not   *)
(* answered leaves either the same session or no session at all.           *)
(***************************************************************************)
EXTENDS Naturals

CONSTANTS
  SessionIds,
  NoId,           \* no session is open; not one of SessionIds
  ContextTokens   \* capacity of a session

VARIABLES
  phase,    \* where the engine is in its life
  owner,    \* id of the open session, or NoId
  held,     \* tokens of the open session that have been computed
  answer    \* tokens in the last answer

contractVars == <<phase, owner, held, answer>>

ContractTypeOK ==
  /\ phase \in {"absent", "cold", "ready", "open", "failed", "closed"}
  /\ owner \in SessionIds \cup {NoId}
  /\ held \in 0..ContextTokens
  /\ answer \in Nat

NoOpenSession == owner' = NoId /\ held' = 0

ContractInit ==
  /\ phase = "absent" /\ owner = NoId /\ held = 0 /\ answer = 0

\* A request that changes nothing: refused, already satisfied, or failed
\* before it touched the session.
Refuse ==
  /\ answer' = 0
  /\ UNCHANGED <<phase, owner, held>>

Create ==
  /\ phase = "absent" /\ phase' = "cold"
  /\ answer' = 0 /\ UNCHANGED <<owner, held>>

BecomeReady ==
  /\ phase = "cold" /\ phase' = "ready"
  /\ answer' = 0 /\ UNCHANGED <<owner, held>>

\* The first token is answered; it enters the context when it is fed back.
Open ==
  /\ phase = "ready" /\ phase' = "open"
  /\ owner' \in SessionIds
  /\ held' \in 1..ContextTokens
  /\ answer' = 1

Extend ==
  /\ phase = "open"
  /\ answer' \in Nat \ {0}
  /\ held + answer' <= ContextTokens
  /\ held' = held + answer'
  /\ UNCHANGED <<phase, owner>>

\* reset_session, or the end of a call that went wrong.
Discard ==
  /\ phase \in {"ready", "open", "failed"}
  /\ phase' \in {"ready", "failed"}
  /\ NoOpenSession
  /\ answer' = 0

Close ==
  /\ phase \notin {"absent", "closed"}
  /\ phase' \in {"closed", "failed"}
  /\ NoOpenSession
  /\ answer' = 0

Destroy ==
  /\ phase # "absent" /\ phase' = "absent"
  /\ NoOpenSession
  /\ answer' = 0

ContractNext ==
  \/ Refuse \/ Create \/ BecomeReady \/ Open \/ Extend
  \/ Discard \/ Close \/ Destroy

ContractSpec == ContractInit /\ [][ContractNext]_contractVars
=============================================================================
