---------------------------- MODULE ClientStream ----------------------------
(***************************************************************************)
(* What the client of one streamed chat answer is promised                  *)
(* (src/app/middleware/stream_guard.py: "No byte sent to client yet ->      *)
(* combo fallback is SAFE.  Any byte already sent -> combo fallback is      *)
(* FORBIDDEN, permanently."; src/app/antifreeze.py: afz_guard's contract).  *)
(* Upstream responses are numbered; how many of them were tried before one  *)
(* was heard is not the client's business.                                  *)
(***************************************************************************)
EXTENDS Naturals

VARIABLES
  open,   \* the HTTP response is not finished
  voice   \* the upstream response whose words the client hears, 0 before one

vars == <<open, voice>>

Init == open = TRUE /\ voice = 0

\* Words of a response arrive; whoever speaks first speaks alone.
Hear == open /\ voice' \in Nat \ {0} /\ voice \in {0, voice'} /\ UNCHANGED open

\* The stream ends, whatever the reason; nothing follows.
Close == open /\ open' = FALSE /\ UNCHANGED voice

Next == Hear \/ Close

Spec == Init /\ [][Next]_vars
=============================================================================
