----------------------------- MODULE StreamGuard -----------------------------
(***************************************************************************)
(* One streamed chat answer after its 200: the generator that pumps the     *)
(* upstream response to the client, the emission state that decides whether *)
(* another leaf may still be tried, the deadline ladder, the continuation   *)
(* splice and the force-stop registry (src/app/main.py raw_upstream,        *)
(* egress_stream and their guarded wrappers; src/app/antifreeze.py;         *)
(* src/app/middleware/stream_guard.py).                                     *)
(*                                                                          *)
(* Two lanes.  In "raw" (client and upstream speak one dialect) the         *)
(* generator pulls a chunk, decides and yields it.  In "egress" (Anthropic  *)
(* client, OpenAI upstream) a task drains the upstream into an unbounded    *)
(* queue and the generator reads the queue, so what the pump decides on is  *)
(* what the generator has marked so far, not what it is about to yield.     *)
(*                                                                          *)
(* A chunk of an upstream response is one of                                *)
(*   "prime"   a JSON frame of the scaffolding allowlist,                   *)
(*   "word"    output of the model,                                         *)
(*   "blank"   any other frame (usage, finish_reason),                      *)
(*   "cut"     a finish_reason "length",                                    *)
(*   "banner"  an error of the upstream rendered as assistant text,         *)
(*   "done"    the end marker.                                              *)
(* What the calls of _process_chat_completion do below a generator is       *)
(* ComboFallback's subject; here such a call comes back as a stream, as a   *)
(* plain response, or exhausted.                                            *)
(***************************************************************************)
EXTENDS Integers, Sequences, FiniteSets

CONSTANTS
  Lanes,         \* the lanes a request may take
  ChainLengths,  \* lengths of the combo's chain; 0 for a direct model
  Endless,       \* values of settings.combo_infinite_retry
  KeepAlives,    \* values of tools.sse_keepalive.enabled
  Rungs,         \* attempts of STREAM_DEADLINE_LADDER
  MaxChunks,     \* bound: chunks of one upstream response
  MaxQueue,      \* bound: chunks the drain task is ahead of the generator
  MaxRestarts    \* bound: passes after the first

ASSUME StreamAssumption ==
  /\ Lanes \subseteq {"raw", "egress"}
  /\ ChainLengths \subseteq Nat
  /\ Endless \subseteq BOOLEAN /\ KeepAlives \subseteq BOOLEAN
  /\ Rungs \in Nat \ {0} /\ MaxChunks \in Nat
  /\ MaxQueue \in Nat \ {0} /\ MaxRestarts \in Nat

VARIABLES
  req,        \* the request and the settings it runs under
  pc,         \* where the outermost running generator is
  pos,        \* entry of the chain being tried
  rung,       \* attempt of the deadline ladder
  resp,       \* number of the current upstream response
  up,         \* the upstream response: how it ended, chunks sent, queue
  gen,        \* the generator's own state
  heard,      \* responses whose words reached the client
  marks,      \* end markers that reached the client, 2 for more than one
  opened,     \* the client got a first frame
  registered, \* the stream is in ACTIVE_STREAMS
  restarts,   \* sleeps between passes
  ending      \* how the stream ended

vars == <<req, pc, pos, rung, resp, up, gen, heard, marks, opened, registered,
          restarts, ending>>
place == <<pos, rung, resp, restarts>>
client == <<heard, marks, opened>>

Chunks == {"prime", "word", "blank", "cut", "banner", "done"}
Texts == {"word", "banner"}
Sentinels == {"fallback", "wrap", "retry"}
Fates == {"flows", "eof", "died", "expired", "stalled", "idle"} \cup Sentinels

Flowing == [fate |-> "flows", sent |-> 0, queue |-> <<>>]

\* emit: _emit.emitted.  held: frames wait in _codex_pre_buf.  timed: a first
\* token time is set.  partial: the truncation detector holds text.
Fresh == [emit |-> FALSE, held |-> FALSE, timed |-> FALSE, partial |-> FALSE,
          trunc |-> FALSE, used |-> FALSE, err |-> "none"]

Raw == req.lane = "raw"
HasNext == pos < req.length
MayFallback == ~gen.emit

(* ---- the client boundary ---------------------------------------------- *)

AtMostTwo(n) == IF n < 2 THEN n ELSE 2

\* A frame of the current response reaches the client.
Deliver(word, mark) ==
  /\ heard' = IF word THEN heard \cup {resp} ELSE heard
  /\ marks' = IF mark THEN AtMostTwo(marks + 1) ELSE marks
  /\ opened' = TRUE

\* MUTANT: the finally of afz_guard is lost.
OverRegistered(how) == pc' = "over" /\ ending' = how /\ UNCHANGED registered

\* The generator returns or raises; afz_guard's finally unregisters it.
Over(how) == pc' = "over" /\ ending' = how /\ registered' = FALSE

\* An error frame and the end marker, then the end.
Apologise ==
  /\ Deliver(FALSE, TRUE) /\ Over("apology")
  /\ UNCHANGED <<req, place, up, gen>>

(* ---- the upstream ----------------------------------------------------- *)

Init ==
  /\ req \in [lane : Lanes, length : ChainLengths, endless : Endless,
              keepAlive : KeepAlives, original : BOOLEAN]
  /\ pc = IF req.length = 0 THEN "dial" ELSE "body"
  /\ pos = 1 /\ rung = 1 /\ restarts = 0
  /\ resp = IF req.length = 0 THEN 0 ELSE 1
  /\ up = Flowing /\ gen = Fresh
  /\ heard = {} /\ marks = 0
  /\ opened = (req.lane = "egress")
  /\ registered = TRUE /\ ending = "none"

\* Raw: the next read starts when the last chunk was yielded.
Reading == pc = "body" /\ up.fate = "flows" /\ (Raw => up.queue = <<>>)

Arrive ==
  /\ Reading /\ up.sent < MaxChunks /\ Len(up.queue) < MaxQueue
  /\ \E c \in Chunks :
       up' = [up EXCEPT !.sent = @ + 1, !.queue = Append(@, c)]
  /\ UNCHANGED <<req, pc, place, gen, client, registered, ending>>

EndRead(fate, err) ==
  /\ up' = [up EXCEPT !.fate = fate]
  /\ gen' = [gen EXCEPT !.err = err]
  /\ UNCHANGED <<req, pc, place, client, registered, ending>>

UpstreamEnds == Reading /\ EndRead("eof", gen.err)

\* MUTANT: a death after content looks for another leaf, too.
DeathFateBlind(inBudget) ==
  IF HasNext /\ inBudget THEN "fallback" ELSE IF req.endless THEN "wrap" ELSE "died"

\* _midstream_transport_fallback (egress ends the read by itself once
\* content was emitted).
DeathFate(inBudget) ==
  IF ~MayFallback THEN "died"
  ELSE IF HasNext /\ inBudget THEN "fallback"
  ELSE IF req.endless THEN "wrap"
  ELSE "died"

UpstreamDies ==
  /\ Reading
  /\ \E inBudget \in BOOLEAN : EndRead(DeathFate(inBudget), "died")

\* _deadline_stall_fire: the wall clock of the attempt.
DeadlineFate(inBudget) ==
  IF ~MayFallback THEN "expired"
  ELSE IF HasNext /\ inBudget THEN "fallback"
  ELSE IF rung < Rungs THEN "retry"
  ELSE "stalled"

DeadlineErr == IF MayFallback THEN "stalled" ELSE IF gen.err = "none" THEN "expired" ELSE gen.err

\* MUTANT: once content flows there is no deadline.
FirstByteDeadline ==
  /\ Reading /\ MayFallback
  /\ \E inBudget \in BOOLEAN : EndRead(DeadlineFate(inBudget), DeadlineErr)

DeadlinePasses ==
  /\ Reading
  /\ \E inBudget \in BOOLEAN : EndRead(DeadlineFate(inBudget), DeadlineErr)

\* Egress only: no chunk for GEMINI_EGRESS_MAX_IDLE; the drain is cancelled.
IdleTooLong ==
  /\ Reading /\ ~Raw /\ up.queue = <<>>
  /\ EndRead("idle", IF gen.err = "none" THEN "idle" ELSE gen.err)

(* ---- the generator takes a chunk --------------------------------------- *)

Offered(c) == pc = "body" /\ up.queue # <<>> /\ Head(up.queue) = c

\* A scaffolding frame before the first content waits in the pre-buffer; one
\* with a role in it counts as a first token all the same.
TakePrime ==
  /\ Offered("prime")
  /\ up' = [up EXCEPT !.queue = Tail(@)]
  /\ \E role \in BOOLEAN :
       gen' = [gen EXCEPT !.held = @ \/ ~gen.emit, !.timed = @ \/ role]
  /\ opened' = (opened \/ gen.emit)
  /\ UNCHANGED <<req, pc, place, heard, marks, registered, ending>>

\* Anything else flushes the pre-buffer and commits the stream to this leaf.
Commit(c, first, err) ==
  /\ up' = [up EXCEPT !.queue = Tail(@)]
  /\ gen' = [gen EXCEPT !.emit = TRUE, !.held = FALSE, !.timed = @ \/ first,
               !.partial = @ \/ c \in Texts, !.trunc = @ \/ c = "cut", !.err = err]
  /\ Deliver(c \in Texts, Raw /\ c = "done")
  /\ UNCHANGED <<req, pc, place, registered, ending>>

TakeContent ==
  \E c \in {"word", "blank", "cut", "done"}, first \in BOOLEAN :
    /\ Offered(c) /\ (c = "word" => first) /\ (c \in {"cut", "done"} => ~first)
    /\ Commit(c, first, gen.err)

\* An error rendered as text is looked for until something was emitted.
LeaveBanner ==
  /\ Offered("banner") /\ MayFallback /\ (HasNext \/ req.endless)
  /\ up' = [up EXCEPT !.queue = <<>>, !.fate = IF HasNext THEN "fallback" ELSE "wrap"]
  /\ gen' = [gen EXCEPT !.held = FALSE, !.err = "banner"]
  /\ UNCHANGED <<req, pc, place, client, registered, ending>>

PassBanner ==
  /\ Offered("banner") /\ ~(MayFallback /\ (HasNext \/ req.endless))
  /\ Commit("banner", TRUE, IF gen.emit THEN gen.err ELSE "banner")

(* ---- the response is used up ------------------------------------------- *)

Drained == pc = "body" /\ up.queue = <<>> /\ up.fate # "flows"

\* The outer catcher takes the sentinel: the next entry, ...
Advance ==
  /\ Drained /\ up.fate = "fallback"
  /\ pc' = "dispatch" /\ pos' = pos + 1
  /\ UNCHANGED <<req, rung, resp, restarts, up, gen, client, registered, ending>>

StartOver ==
  /\ restarts < MaxRestarts
  /\ pc' = "dispatch" /\ pos' = 1 /\ restarts' = restarts + 1
  /\ UNCHANGED <<req, rung, resp, up, gen, client, registered, ending>>

\* ... the chain's head after a sleep, ...
Rewind == Drained /\ up.fate = "wrap" /\ StartOver

\* MUTANT: the ladder starts again at every attempt.
RetryLeafFirstRung ==
  /\ Drained /\ up.fate = "retry"
  /\ IF req.length = 0
     THEN /\ pc' = "dial" /\ rung' = 1 /\ gen' = Fresh
          /\ UNCHANGED <<req, pos, resp, restarts, up, client, registered, ending>>
     ELSE Apologise

\* ... or the same leaf under the next deadline.  Only a direct model is dialled
\* again: a combo's response came from the probe and is consumed by now, so
\* reading it raises.
RetryLeaf ==
  /\ Drained /\ up.fate = "retry"
  /\ IF req.length = 0
     THEN /\ pc' = "dial" /\ rung' = rung + 1
          /\ gen' = [Fresh EXCEPT !.partial = gen.partial, !.trunc = gen.trunc, !.used = gen.used]
          /\ UNCHANGED <<req, pos, resp, restarts, up, client, registered, ending>>
     ELSE Apologise

Finished == Drained /\ up.fate \notin Sentinels

\* The zero-output guard: status 200, no token counted, no first token time.
Silent == gen.err \in {"none", "expired"} /\ ~gen.partial /\ ~gen.timed
Stalled == gen.err = "idle" /\ ~gen.timed

\* A last look for another leaf.  Only the raw lane asks for the budget when a
\* response was silent, and only egress never starts over then.
LastFate(inBudget) ==
  IF HasNext
  THEN IF MayFallback /\ (Silent \/ Stalled) /\ (inBudget \/ (Silent /\ ~Raw))
       THEN "fallback" ELSE "none"
  ELSE IF req.endless /\ (Stalled \/ (Silent /\ Raw)) THEN "wrap" ELSE "none"

LookAgain ==
  /\ Finished
  /\ \E inBudget \in BOOLEAN :
       /\ LastFate(inBudget) # "none"
       /\ up' = [up EXCEPT !.fate = LastFate(inBudget)]
  /\ gen' = [gen EXCEPT !.held = FALSE]
  /\ opened' = (opened \/ gen.held)
  /\ UNCHANGED <<req, pc, place, heard, marks, registered, ending>>

\* should_splice_continuation; the flag of a dead transport is set by the raw
\* lane only.
WantsSplice ==
  /\ gen.partial /\ ~gen.used
  /\ gen.trunc \/ (gen.err = "died" /\ Raw /\ req.endless)

EndBody ==
  /\ Finished
  /\ \E inBudget \in BOOLEAN : LastFate(inBudget) = "none"
  /\ gen' = [gen EXCEPT !.held = FALSE, !.used = @ \/ WantsSplice]
  /\ opened' = (opened \/ gen.held)
  /\ pc' = IF WantsSplice THEN "splice" ELSE "close"
  /\ UNCHANGED <<req, place, up, heard, marks, registered, ending>>

(* ---- the continuation --------------------------------------------------- *)

\* _open_continuation_with_retry, with its attempts; the same leaf is asked.
OpenSplice ==
  /\ pc = "splice"
  /\ \/ pc' = "cont" /\ up' = Flowing
     \/ pc' = "close" /\ UNCHANGED up
  /\ UNCHANGED <<req, place, gen, client, registered, ending>>

Splicing == pc = "cont" /\ up.fate = "flows"

SpliceArrives ==
  /\ Splicing /\ up.sent < MaxChunks
  /\ up' = [up EXCEPT !.sent = @ + 1]
  /\ \E c \in {"word", "blank", "done"} : Deliver(c = "word", Raw /\ c = "done")
  /\ UNCHANGED <<req, pc, place, gen, registered, ending>>

EndSplice(fate, err) ==
  /\ Splicing
  /\ up' = [up EXCEPT !.fate = fate] /\ gen' = [gen EXCEPT !.err = err]
  /\ pc' = "close"
  /\ UNCHANGED <<req, place, client, registered, ending>>

\* _continuation_status_guard: an unchanged status and one chunk restore 200.
Restored(err) == IF err = gen.err /\ up.sent > 0 THEN "none" ELSE err

SpliceEnds == EndSplice("eof", Restored(gen.err))

\* In egress the death is written down, and the guard compares the texts.
SpliceDies ==
  \/ Raw /\ EndSplice("died", gen.err)
  \/ ~Raw /\ \E sameText \in BOOLEAN :
       EndSplice("died", IF sameText THEN Restored("died") ELSE "died")

SpliceExpires == EndSplice("expired", Restored(IF gen.err = "none" THEN "expired" ELSE gen.err))

\* The deadline frames, or what the converter says at the end of its source.
Finish ==
  /\ pc = "close"
  /\ IF Raw /\ gen.err \in {"stalled", "expired"}
     THEN Apologise
     ELSE /\ marks' = IF Raw THEN marks ELSE AtMostTwo(marks + 1)
          /\ Over("plain")
          /\ UNCHANGED <<req, place, up, gen, heard, opened>>

(* ---- the nested call and the dial --------------------------------------- *)

\* _process_chat_completion answers with a stream of some later entry ...
NestedStream ==
  /\ pc = "dispatch"
  /\ rung' = 1 /\ up' = Flowing /\ gen' = Fresh
  /\ IF req.length = 0
     THEN pc' = "dial" /\ UNCHANGED <<pos, resp>>
     ELSE pc' = "body" /\ pos' \in pos .. req.length /\ resp' = resp + 1
  /\ UNCHANGED <<req, restarts, client, registered, ending>>

\* ... or with a plain response or an exception.
NestedAnswer == pc = "dispatch" /\ Apologise

\* Exhausted: the sentinel finds its catcher only where the first generator
\* belongs to the original request.
NestedWrap ==
  /\ pc = "dispatch" /\ req.endless
  /\ IF req.original THEN StartOver
     ELSE Over("broken") /\ UNCHANGED <<req, place, up, gen, client>>

Dial ==
  /\ pc = "dial"
  /\ pc' = "body" /\ resp' = resp + 1 /\ up' = Flowing
  /\ UNCHANGED <<req, pos, rung, restarts, gen, client, registered, ending>>

\* Refused (a terminal wall never starts over) or broken.
DialFails == pc = "dial" /\ ((req.endless /\ StartOver) \/ Apologise)

(* ---- the world ----------------------------------------------------------- *)

Hangup ==
  /\ pc # "over" /\ Over("gone")
  /\ UNCHANGED <<req, place, up, gen, client>>

\* The task afz_guard registered runs the whole response; behind the keepalive
\* wrapper it runs until the first frame only.
RegisteredRuns == ~req.keepAlive \/ ~opened

\* force_stop_all
ForceStop ==
  /\ registered
  /\ IF RegisteredRuns THEN Over("stopped")
     ELSE registered' = FALSE /\ UNCHANGED <<pc, ending>>
  /\ UNCHANGED <<req, place, up, gen, client>>

Generator ==
  \/ TakePrime \/ TakeContent \/ LeaveBanner \/ PassBanner
  \/ Advance \/ Rewind \/ RetryLeaf \/ LookAgain \/ EndBody
  \/ OpenSplice \/ Finish
  \/ NestedStream \/ NestedAnswer \/ NestedWrap \/ Dial \/ DialFails

Deadline == DeadlinePasses \/ SpliceExpires

Next ==
  \/ Generator \/ Deadline
  \/ Arrive \/ UpstreamEnds \/ UpstreamDies \/ IdleTooLong
  \/ SpliceArrives \/ SpliceEnds \/ SpliceDies
  \/ Hangup \/ ForceStop

\* The generator is scheduled, the calls it waits for return (ComboFallback,
\* client timeouts), and an attempt's clock runs out.
Spec == Init /\ [][Next]_vars /\ WF_vars(Generator) /\ WF_vars(Deadline)

(* ---- properties ----------------------------------------------------------- *)

PCs == {"dial", "body", "splice", "cont", "close", "dispatch", "over"}
Errs == {"none", "banner", "died", "stalled", "expired", "idle"}

\* Every variable stays in its type, the bounds hold, and the registry holds no
\* stream that is over.
TypeOK ==
  /\ req \in [lane : Lanes, length : ChainLengths, endless : Endless,
              keepAlive : KeepAlives, original : BOOLEAN]
  /\ pc \in PCs /\ pos \in Nat \ {0} /\ rung \in 1 .. Rungs /\ resp \in Nat
  /\ up \in [fate : Fates, sent : 0 .. MaxChunks, queue : Seq(Chunks)]
  /\ gen \in [emit : BOOLEAN, held : BOOLEAN, timed : BOOLEAN, partial : BOOLEAN,
              trunc : BOOLEAN, used : BOOLEAN, err : Errs]
  /\ heard \subseteq 1 .. resp /\ marks \in 0 .. 2 /\ opened \in BOOLEAN
  /\ registered \in BOOLEAN /\ restarts \in 0 .. MaxRestarts
  /\ ending \in {"none", "plain", "apology", "gone", "stopped", "broken"}
  /\ pc = "over" <=> ending # "none"
  /\ pc = "over" => ~registered

\* The raw lane implements ClientStream: through every advance, restart, retry
\* and splice the client hears one upstream response and nothing after the end.
\* (The egress lane is left out: OneVoice shows that there it does not hold.)
Voice == IF Raw /\ heard # {} THEN CHOOSE r \in heard : \A q \in heard : q <= r ELSE 0
CS == INSTANCE ClientStream WITH open <- pc # "over", voice <- Voice
Promise == CS!Spec

\* With never-stop retry off, no chain of failures opens more upstream responses
\* than the chain has entries, or the ladder rungs for a direct model.
OpensAreBounded ==
  ~req.endless => resp <= IF req.length = 0 THEN Rungs ELSE req.length

\* With never-stop retry off every stream ends by itself, whatever the upstream
\* does: also when it says nothing more after its first words.
EveryStreamEnds == ~req.endless ~> pc = "over"

\* stream_guard.py: after the first byte no other leaf speaks.  The egress
\* lane's pump decides before the generator marks what it has read.
OneVoice == \A q, r \in heard : q = r

\* afz_guard: whoever was not cancelled gets an end marker.
EndIsMarked == ending \in {"plain", "apology"} => marks > 0

\* force_stop_all: a stream that is taken out of the registry is cancelled.
ForceStopStops == [][registered /\ ~registered' => pc' = "over"]_vars
=============================================================================
