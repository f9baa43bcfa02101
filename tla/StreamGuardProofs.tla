-------------------------- MODULE StreamGuardProofs --------------------------
(***************************************************************************)
(* What StreamGuard's runs check on two entries and three chunks, for every *)
(* value of the constants: the types, that the raw lane implements          *)
(* ClientStream, and the bound on upstream responses.                       *)
(***************************************************************************)
EXTENDS StreamGuard, TLAPS

(* ---- the inductive invariant ---------------------------------------------- *)

\* The ladder is asked for another attempt only while it has one.
RungLeft == pc = "body" /\ up.fate = "retry" => rung < Rungs

\* The raw lane decides about the next response only between two chunks, so
\* once it holds or delivered a word it is committed: the words are the current
\* response's and no way leads to another one.
Committed ==
  Raw =>
    /\ heard \subseteq {resp}
    /\ heard # {} \/ gen.partial =>
         gen.emit /\ gen.timed /\ up.fate \notin Sentinels /\ pc \notin {"dial", "dispatch"}
    /\ up.queue # <<>> => up.fate = "flows" /\ pc \in {"body", "over"}
    /\ pc \in {"splice", "cont"} => gen.partial

\* Where a request without never-stop retry stands: every response it opened
\* has an entry, or a rung, of its own.
Entries ==
  ~req.endless =>
    /\ up.fate # "wrap"
    /\ req.length = 0 =>
         /\ up.fate # "fallback" /\ pc # "dispatch" /\ resp <= rung
         /\ pc = "dial" => resp < rung
    /\ req.length # 0 =>
         /\ pc # "dial" /\ resp <= pos /\ pos <= req.length
         /\ up.fate = "fallback" /\ pc = "body" => pos < req.length
         /\ pc = "dispatch" => resp < pos

\* A response that is read was opened.
Dialled == pc \in {"body", "splice", "cont", "close"} => resp # 0

TypeInv == TypeOK /\ RungLeft /\ Dialled

IInv == TypeInv /\ Committed /\ Entries

(* ---- types ---------------------------------------------------------------- *)

UpType == [fate : Fates, sent : 0 .. MaxChunks, queue : Seq(Chunks)]
GenType == [emit : BOOLEAN, held : BOOLEAN, timed : BOOLEAN, partial : BOOLEAN,
            trunc : BOOLEAN, used : BOOLEAN, err : Errs]

LEMMA QueueType ==
  ASSUME NEW q \in Seq(Chunks)
  PROVE  /\ <<>> \in Seq(Chunks)
         /\ q # <<>> => Tail(q) \in Seq(Chunks)
         /\ \A c \in Chunks : Append(q, c) \in Seq(Chunks)
  OBVIOUS

\* What a step may make of the upstream response.
LEMMA UpSteps ==
  ASSUME up \in UpType
  PROVE  /\ Flowing \in UpType
         /\ \A f \in Fates : /\ [up EXCEPT !.fate = f] \in UpType
                            /\ [up EXCEPT !.queue = <<>>, !.fate = f] \in UpType
         /\ up.queue # <<>> => [up EXCEPT !.queue = Tail(@)] \in UpType
         /\ up.sent < MaxChunks =>
              /\ [up EXCEPT !.sent = @ + 1] \in UpType
              /\ \A c \in Chunks : [up EXCEPT !.sent = @ + 1, !.queue = Append(@, c)] \in UpType
<1> USE StreamAssumption
<1>1. up.queue \in Seq(Chunks) /\ up.sent \in 0 .. MaxChunks /\ up.fate \in Fates
  BY DEF UpType
<1>2. /\ <<>> \in Seq(Chunks)
      /\ up.queue # <<>> => Tail(up.queue) \in Seq(Chunks)
      /\ \A c \in Chunks : Append(up.queue, c) \in Seq(Chunks)
  BY <1>1, QueueType
<1>3. "flows" \in Fates
  BY DEF Fates
<1>4. Flowing \in UpType
  BY <1>2, <1>3 DEF Flowing, UpType
<1>5. \A f \in Fates : [up EXCEPT !.fate = f] \in UpType
  BY DEF UpType
<1>6. \A f \in Fates : [up EXCEPT !.queue = <<>>, !.fate = f] \in UpType
  BY <1>2 DEF UpType
<1>7. up.queue # <<>> => [up EXCEPT !.queue = Tail(@)] \in UpType
  BY <1>2 DEF UpType
<1>8. ASSUME up.sent < MaxChunks
      PROVE  /\ [up EXCEPT !.sent = @ + 1] \in UpType
             /\ \A c \in Chunks : [up EXCEPT !.sent = @ + 1, !.queue = Append(@, c)] \in UpType
  <2>1. up.sent + 1 \in 0 .. MaxChunks
    BY <1>1, <1>8
  <2> QED
    BY <2>1, <1>2 DEF UpType
<1> QED
  BY <1>4, <1>5, <1>6, <1>7, <1>8

LEMMA OverType ==
  ASSUME NEW how \in {"plain", "apology", "gone", "stopped", "broken"}, Over(how)
  PROVE  /\ pc' \in PCs
         /\ ending' \in {"none", "plain", "apology", "gone", "stopped", "broken"}
         /\ registered' \in BOOLEAN
         /\ pc' = "over" <=> ending' # "none"
         /\ pc' = "over" => ~registered'
<1>1. pc' = "over" /\ ending' = how /\ registered' = FALSE
  BY DEF Over
<1>2. ending' # "none"
  BY <1>1
<1> QED
  BY <1>1, <1>2 DEF PCs

LEMMA DeliverType ==
  ASSUME TypeOK, NEW word, NEW mark, Deliver(word, mark), word => resp # 0
  PROVE  heard' \subseteq 1 .. resp /\ marks' \in 0 .. 2 /\ opened' \in BOOLEAN
<1>1. opened' = TRUE
  BY DEF Deliver
<1>2. marks' \in 0 .. 2
  BY DEF Deliver, AtMostTwo, TypeOK
<1>3. heard' \subseteq 1 .. resp
  BY DEF Deliver, TypeOK
<1> QED
  BY <1>1, <1>2, <1>3

\* The queue's rest and the committed state.
LEMMA CommitType ==
  ASSUME TypeInv, NEW c \in Chunks, NEW first \in BOOLEAN,
         NEW err \in Errs, Offered(c), Commit(c, first, err)
  PROVE  TypeOK'
<1> USE DEF TypeInv, TypeOK
<1>1. up' \in UpType
  <2>1. up \in UpType /\ up.queue # <<>> /\ up' = [up EXCEPT !.queue = Tail(@)]
    BY DEF Commit, Offered, UpType
  <2> QED
    BY <2>1, UpSteps
<1>2. gen' \in GenType
  BY DEF Commit, GenType
<1>3. heard' \subseteq 1 .. resp /\ marks' \in 0 .. 2 /\ opened' \in BOOLEAN
  <2>1. resp # 0
    BY DEF Offered, Dialled
  <2>2. Deliver(c \in Texts, Raw /\ c = "done")
    BY DEF Commit
  <2> QED
    BY <2>1, <2>2, DeliverType
<1>4. UNCHANGED <<req, pc, pos, rung, resp, restarts, registered, ending>>
  BY DEF Commit, place
<1> QED
  BY <1>1, <1>2, <1>3, <1>4 DEF UpType, GenType

LEMMA ApologiseType ==
  ASSUME TypeOK, Apologise
  PROVE  TypeOK' /\ pc' = "over" /\ UNCHANGED up
<1>1. heard' \subseteq 1 .. resp /\ marks' \in 0 .. 2 /\ opened' \in BOOLEAN
  BY DeliverType DEF Apologise
<1>2. Over("apology") /\ UNCHANGED <<req, pos, rung, resp, restarts, up, gen>>
  BY DEF Apologise, place
<1> QED
  BY <1>1, <1>2, OverType DEF TypeOK, Over

LEMMA StartOverType ==
  ASSUME TypeOK, StartOver, pc # "over"
  PROVE  TypeOK' /\ pc' = "dispatch" /\ UNCHANGED <<rung, up>>
<1>1. /\ restarts' \in 0 .. MaxRestarts /\ pos' = 1 /\ pc' = "dispatch"
      /\ UNCHANGED <<req, rung, resp, up, gen, heard, marks, opened, registered, ending>>
  BY StreamAssumption DEF StartOver, TypeOK, client
<1> QED
  BY <1>1 DEF TypeOK, PCs

LEMMA InitIInv == Init => IInv
<1> SUFFICES ASSUME Init PROVE IInv
  OBVIOUS
<1> USE StreamAssumption DEF Init
<1>1. req.length \in Nat
  OBVIOUS
<1>2. TypeOK
  <2>1. up \in UpType
    <3>1. <<>> \in Seq(Chunks)
      OBVIOUS
    <3> QED
      BY <3>1 DEF Flowing, UpType, Fates
  <2>2. gen \in GenType
    BY DEF Fresh, GenType, Errs
  <2>3. /\ pc \in {"dial", "body"} /\ pos = 1 /\ rung = 1 /\ resp \in Nat /\ restarts = 0
        /\ heard = {} /\ marks = 0 /\ ending = "none"
    OBVIOUS
  <2>4. opened \in BOOLEAN /\ registered \in BOOLEAN
    OBVIOUS
  <2> QED
    BY <2>1, <2>2, <2>3, <2>4 DEF TypeOK, UpType, GenType, PCs
<1>3. RungLeft /\ Dialled
  BY DEF RungLeft, Dialled, Flowing
<1>4. Committed
  BY DEF Committed, Flowing, Fresh
<1>5. Entries
  BY <1>1 DEF Entries, Flowing
<1> QED
  BY <1>2, <1>3, <1>4, <1>5 DEF IInv, TypeInv

LEMMA NextType == TypeInv /\ [Next]_vars => TypeOK'
<1> SUFFICES ASSUME TypeInv, [Next]_vars PROVE TypeOK'
  OBVIOUS
<1> USE StreamAssumption DEF TypeInv, TypeOK, place, client, Chunks, Sentinels, Fates, PCs, Errs
<1>1. CASE TakePrime
  <2>1. up' \in UpType
    <3>1. up \in UpType /\ up.queue # <<>> /\ up' = [up EXCEPT !.queue = Tail(@)]
      BY <1>1 DEF TakePrime, Offered, UpType
    <3> QED
      BY <3>1, UpSteps
  <2>2. gen' \in GenType
    BY <1>1 DEF TakePrime, GenType
  <2>3. opened' \in BOOLEAN
    BY <1>1 DEF TakePrime
  <2>4. UNCHANGED <<req, pc, pos, rung, resp, restarts, heard, marks, registered, ending>>
    BY <1>1 DEF TakePrime, place
  <2> QED
    BY <2>1, <2>2, <2>3, <2>4 DEF UpType, GenType
<1>2. CASE TakeContent
  <2>1. PICK c \in {"word", "blank", "cut", "done"}, first \in BOOLEAN :
          Offered(c) /\ Commit(c, first, gen.err)
    BY <1>2 DEF TakeContent
  <2>2. c \in Chunks /\ gen.err \in Errs
    OBVIOUS
  <2> QED
    BY <2>1, <2>2, CommitType
<1>3. CASE LeaveBanner
  <2>1. up' \in UpType
    <3>1. PICK f \in Fates : up' = [up EXCEPT !.queue = <<>>, !.fate = f]
      BY <1>3 DEF LeaveBanner
    <3> QED
      BY <3>1, UpSteps DEF UpType
  <2>2. gen' \in GenType
    BY <1>3 DEF LeaveBanner, GenType
  <2>3. UNCHANGED <<req, pc, pos, rung, resp, restarts, heard, marks, opened, registered, ending>>
    BY <1>3 DEF LeaveBanner, place, client
  <2> QED
    BY <2>1, <2>2, <2>3 DEF UpType, GenType
<1>4. CASE PassBanner
  BY <1>4, CommitType DEF PassBanner
<1>5. CASE Advance
  BY <1>5 DEF Advance, Drained
<1>6. CASE Rewind
  BY <1>6, StartOverType DEF Rewind, Drained
<1>7. CASE RetryLeaf
  <2>1. CASE req.length = 0
    <3>1. gen' \in GenType /\ UNCHANGED up
      <4>1. /\ gen' = [Fresh EXCEPT !.partial = gen.partial, !.trunc = gen.trunc, !.used = gen.used]
            /\ UNCHANGED up
        BY <1>7, <2>1 DEF RetryLeaf
      <4>2. Fresh \in GenType
        BY DEF Fresh, GenType
      <4> QED
        BY <4>1, <4>2 DEF GenType
    <3>2. rung' \in 1 .. Rungs /\ pc' = "dial"
      BY <1>7, <2>1 DEF RetryLeaf, Drained, RungLeft
    <3>3. pc # "over" /\ UNCHANGED <<req, pos, resp, restarts, heard, marks, opened, registered, ending>>
      BY <1>7, <2>1 DEF RetryLeaf, Drained, client
    <3> QED
      BY <3>1, <3>2, <3>3 DEF GenType
  <2>2. CASE req.length # 0
    BY <1>7, <2>2, ApologiseType DEF RetryLeaf
  <2> QED
    BY <2>1, <2>2
<1>8. CASE LookAgain
  <2>1. up' \in UpType
    BY <1>8 DEF LookAgain, LastFate, UpType
  <2>2. gen' \in GenType
    BY <1>8 DEF LookAgain, GenType
  <2>3. opened' \in BOOLEAN
    BY <1>8 DEF LookAgain
  <2>4. UNCHANGED <<req, pc, pos, rung, resp, restarts, heard, marks, registered, ending>>
    BY <1>8 DEF LookAgain, place
  <2> QED
    BY <2>1, <2>2, <2>3, <2>4 DEF UpType, GenType
<1>9. CASE EndBody
  <2>1. gen' \in GenType
    BY <1>9, Zenon DEF EndBody, GenType, WantsSplice
  <2>2. opened' \in BOOLEAN
    BY <1>9 DEF EndBody
  <2>3. UNCHANGED <<req, pos, rung, resp, restarts, up, heard, marks, registered, ending>>
    BY <1>9 DEF EndBody, place
  <2>4. pc = "body" /\ pc' \in {"splice", "close"}
    BY <1>9 DEF EndBody, Finished, Drained
  <2> QED
    BY <2>1, <2>2, <2>3, <2>4 DEF GenType
<1>10. CASE OpenSplice
  <2>1. up' \in UpType
    <3>1. up \in UpType
      BY DEF UpType
    <3>2. up' = Flowing \/ up' = up
      BY <1>10 DEF OpenSplice
    <3> QED
      BY <3>1, <3>2, UpSteps
  <2>2. pc # "over" /\ pc' \in {"cont", "close"}
    BY <1>10 DEF OpenSplice
  <2>3. UNCHANGED <<req, pos, rung, resp, restarts, gen, heard, marks, opened, registered, ending>>
    BY <1>10 DEF OpenSplice, place, client
  <2> QED
    BY <2>1, <2>2, <2>3 DEF UpType
<1>11. CASE Finish
  <2>1. CASE Apologise
    BY <2>1, ApologiseType
  <2>2. CASE ~Apologise
    <3>1. Over("plain") /\ UNCHANGED <<req, pos, rung, resp, restarts, up, gen, heard, opened>>
      BY <1>11, <2>2 DEF Finish, place
    <3>2. marks' \in 0 .. 2
      BY <1>11, <2>2 DEF Finish, AtMostTwo
    <3> QED
      BY <3>1, <3>2, OverType
  <2> QED
    BY <2>1, <2>2
<1>12. CASE NestedStream
  BY <1>12 DEF NestedStream, Flowing, Fresh
<1>13. CASE NestedAnswer
  BY <1>13, ApologiseType DEF NestedAnswer
<1>14. CASE NestedWrap
  <2>1. CASE StartOver
    BY <1>14, <2>1, StartOverType DEF NestedWrap
  <2>2. CASE ~StartOver
    <3>1. Over("broken") /\ UNCHANGED <<req, pos, rung, resp, restarts, up, gen, heard, marks, opened>>
      BY <1>14, <2>2 DEF NestedWrap, place, client
    <3> QED
      BY <3>1, OverType
  <2> QED
    BY <2>1, <2>2
<1>15. CASE Dial
  BY <1>15 DEF Dial, Flowing
<1>16. CASE DialFails
  BY <1>16, StartOverType, ApologiseType DEF DialFails
<1>17. CASE DeadlinePasses
  BY <1>17 DEF DeadlinePasses, Reading, EndRead, DeadlineFate, DeadlineErr
<1>18. CASE SpliceExpires
  BY <1>18 DEF SpliceExpires, Splicing, EndSplice, Restored
<1>19. CASE Arrive
  <2>1. up' \in UpType
    <3>1. up \in UpType /\ up.sent < MaxChunks
      BY <1>19 DEF Arrive, UpType
    <3>2. PICK c \in Chunks : up' = [up EXCEPT !.sent = @ + 1, !.queue = Append(@, c)]
      BY <1>19 DEF Arrive
    <3> QED
      BY <3>1, <3>2, UpSteps
  <2>2. UNCHANGED <<req, pc, pos, rung, resp, restarts, gen, heard, marks, opened, registered, ending>>
    BY <1>19 DEF Arrive, place, client
  <2> QED
    BY <2>1, <2>2 DEF UpType
<1>20. CASE UpstreamEnds
  BY <1>20 DEF UpstreamEnds, Reading, EndRead
<1>21. CASE UpstreamDies
  BY <1>21 DEF UpstreamDies, Reading, EndRead, DeathFate
<1>22. CASE IdleTooLong
  BY <1>22 DEF IdleTooLong, Reading, EndRead
<1>23. CASE SpliceArrives
  <2>1. up' \in UpType
    BY <1>23 DEF SpliceArrives, UpType
  <2>2. heard' \subseteq 1 .. resp /\ marks' \in 0 .. 2 /\ opened' \in BOOLEAN
    BY <1>23, DeliverType DEF SpliceArrives, Splicing, Dialled
  <2>3. UNCHANGED <<req, pc, pos, rung, resp, restarts, gen, registered, ending>>
    BY <1>23 DEF SpliceArrives, place
  <2> QED
    BY <2>1, <2>2, <2>3 DEF UpType
<1>24. CASE SpliceEnds
  BY <1>24 DEF SpliceEnds, Splicing, EndSplice, Restored
<1>25. CASE SpliceDies
  BY <1>25 DEF SpliceDies, Splicing, EndSplice, Restored
<1>26. CASE Hangup
  <2>1. Over("gone") /\ UNCHANGED <<req, pos, rung, resp, restarts, up, gen, heard, marks, opened>>
    BY <1>26 DEF Hangup, place, client
  <2> QED
    BY <2>1, OverType
<1>27. CASE ForceStop
  <2>1. UNCHANGED <<req, pos, rung, resp, restarts, up, gen, heard, marks, opened>>
    BY <1>27 DEF ForceStop, place, client
  <2>2. CASE RegisteredRuns
    BY <1>27, <2>1, <2>2, OverType DEF ForceStop
  <2>3. CASE ~RegisteredRuns
    <3>1. registered' = FALSE /\ UNCHANGED <<pc, ending>>
      BY <1>27, <2>3 DEF ForceStop
    <3>2. registered' \in BOOLEAN /\ ~registered'
      BY <3>1
    <3>3. pc' = pc /\ ending' = ending
      BY <3>1
    <3> QED
      BY <2>1, <3>2, <3>3
  <2> QED
    BY <2>2, <2>3
<1>28. CASE UNCHANGED vars
  BY <1>28 DEF vars
<1> QED
  BY <1>1, <1>2, <1>3, <1>4, <1>5, <1>6, <1>7, <1>8, <1>9, <1>10, <1>11, <1>12, <1>13, <1>14, <1>15, <1>16, <1>17, <1>18, <1>19, <1>20, <1>21, <1>22, <1>23, <1>24, <1>25, <1>26, <1>27, <1>28
     DEF Next, Generator, Deadline

LEMMA RungsStep ==
  ASSUME TypeInv, [Next]_vars
  PROVE  RungLeft' /\ Dialled'
<1> USE StreamAssumption DEF TypeInv, TypeOK, RungLeft, Dialled, Sentinels, place, client
<1>1. CASE TakePrime
  BY <1>1 DEF TakePrime, Offered
<1>2. CASE TakeContent
  BY <1>2 DEF TakeContent, Offered, Commit, Deliver
<1>3. CASE LeaveBanner
  BY <1>3 DEF LeaveBanner, Offered, MayFallback, HasNext
<1>4. CASE PassBanner
  BY <1>4 DEF PassBanner, Offered, Commit, Deliver
<1>5. CASE Advance
  BY <1>5 DEF Advance, Drained
<1>6. CASE Rewind
  BY <1>6 DEF Rewind, Drained, StartOver
<1>7. CASE RetryLeaf
  BY <1>7 DEF RetryLeaf, Drained, Apologise, Deliver, Over, Fresh
<1>8. CASE LookAgain
  BY <1>8 DEF LookAgain, Finished, Drained, LastFate, Silent, Stalled, HasNext, MayFallback
<1>9. CASE EndBody
  BY <1>9 DEF EndBody, Finished, Drained
<1>10. CASE OpenSplice
  BY <1>10 DEF OpenSplice, Flowing
<1>11. CASE Finish
  BY <1>11 DEF Finish, Apologise, Deliver, Over
<1>12. CASE NestedStream
  BY <1>12 DEF NestedStream, Flowing, Fresh
<1>13. CASE NestedAnswer
  BY <1>13 DEF NestedAnswer, Apologise, Deliver, Over
<1>14. CASE NestedWrap
  BY <1>14 DEF NestedWrap, StartOver, Over
<1>15. CASE Dial
  BY <1>15 DEF Dial, Flowing
<1>16. CASE DialFails
  BY <1>16 DEF DialFails, StartOver, Apologise, Deliver, Over
<1>17. CASE DeadlinePasses
  BY <1>17 DEF DeadlinePasses, Reading, EndRead, DeadlineFate, MayFallback, HasNext
<1>18. CASE SpliceExpires
  BY <1>18 DEF SpliceExpires, Splicing, EndSplice
<1>19. CASE Arrive
  BY <1>19 DEF Arrive, Reading
<1>20. CASE UpstreamEnds
  BY <1>20 DEF UpstreamEnds, Reading, EndRead
<1>21. CASE UpstreamDies
  BY <1>21 DEF UpstreamDies, Reading, EndRead, DeathFate, MayFallback, HasNext
<1>22. CASE IdleTooLong
  BY <1>22 DEF IdleTooLong, Reading, EndRead
<1>23. CASE SpliceArrives
  BY <1>23 DEF SpliceArrives, Splicing, Deliver
<1>24. CASE SpliceEnds
  BY <1>24 DEF SpliceEnds, Splicing, EndSplice
<1>25. CASE SpliceDies
  BY <1>25 DEF SpliceDies, Splicing, EndSplice
<1>26. CASE Hangup
  BY <1>26 DEF Hangup, Over
<1>27. CASE ForceStop
  BY <1>27 DEF ForceStop, Over
<1>28. CASE UNCHANGED vars
  BY <1>28 DEF vars
<1> QED
  BY <1>1, <1>2, <1>3, <1>4, <1>5, <1>6, <1>7, <1>8, <1>9, <1>10, <1>11, <1>12, <1>13, <1>14, <1>15, <1>16, <1>17, <1>18, <1>19, <1>20, <1>21, <1>22, <1>23, <1>24, <1>25, <1>26, <1>27, <1>28
     DEF Next, Generator, Deadline

LEMMA EndSpliceCommitted ==
  ASSUME IInv, NEW fate \in {"eof", "died", "expired"}, NEW err, EndSplice(fate, err)
  PROVE  Committed'
<1>1. /\ pc = "cont" /\ pc' = "close" /\ UNCHANGED <<req, resp, heard>>
      /\ up'.fate = fate /\ up'.queue = up.queue /\ up.fate = "flows"
      /\ gen'.emit = gen.emit /\ gen'.timed = gen.timed /\ gen'.partial = gen.partial
  BY DEF EndSplice, Splicing, IInv, TypeInv, TypeOK, place, client
<1>2. Raw => heard \subseteq {resp} /\ gen.partial /\ gen.emit /\ gen.timed /\ up.queue = <<>>
  BY <1>1 DEF IInv, Committed
<1> QED
  BY <1>1, <1>2 DEF Committed, Raw, Sentinels

LEMMA CommittedStep ==
  ASSUME IInv, [Next]_vars
  PROVE  Committed'
<1> USE StreamAssumption DEF IInv, TypeInv, TypeOK, Committed, Dialled, Raw, Sentinels, place, client, Texts
<1>1. CASE TakePrime
  BY <1>1 DEF TakePrime, Offered
<1>2. CASE TakeContent
  BY <1>2 DEF TakeContent, Offered, Commit, Deliver
<1>3. CASE LeaveBanner
  BY <1>3 DEF LeaveBanner, Offered, MayFallback, HasNext
<1>4. CASE PassBanner
  BY <1>4 DEF PassBanner, Offered, Commit, Deliver
<1>5. CASE Advance
  BY <1>5 DEF Advance, Drained
<1>6. CASE Rewind
  BY <1>6 DEF Rewind, Drained, StartOver
<1>7. CASE RetryLeaf
  BY <1>7 DEF RetryLeaf, Drained, Apologise, Deliver, Over, Fresh
<1>8. CASE LookAgain
  BY <1>8 DEF LookAgain, Finished, Drained, LastFate, Silent, Stalled, HasNext, MayFallback
<1>9. CASE EndBody
  <2>1. pc' = "splice" => gen.partial
    BY <1>9 DEF EndBody, WantsSplice
  <2>2. /\ pc' \in {"splice", "close"} /\ UNCHANGED <<req, resp, up, heard>>
        /\ up.fate \notin Sentinels /\ up.queue = <<>>
        /\ gen'.emit = gen.emit /\ gen'.timed = gen.timed /\ gen'.partial = gen.partial
    BY <1>9 DEF EndBody, Finished, Drained
  <2> QED
    BY <2>1, <2>2
<1>10. CASE OpenSplice
  BY <1>10 DEF OpenSplice, Flowing
<1>11. CASE Finish
  BY <1>11 DEF Finish, Apologise, Deliver, Over
<1>12. CASE NestedStream
  BY <1>12 DEF NestedStream, Flowing, Fresh
<1>13. CASE NestedAnswer
  BY <1>13 DEF NestedAnswer, Apologise, Deliver, Over
<1>14. CASE NestedWrap
  BY <1>14 DEF NestedWrap, StartOver, Over
<1>15. CASE Dial
  BY <1>15 DEF Dial, Flowing
<1>16. CASE DialFails
  BY <1>16 DEF DialFails, StartOver, Apologise, Deliver, Over
<1>17. CASE DeadlinePasses
  BY <1>17 DEF DeadlinePasses, Reading, EndRead, DeadlineFate, MayFallback, HasNext
<1>18. CASE SpliceExpires
  <2>1. PICK err : EndSplice("expired", err)
    BY <1>18 DEF SpliceExpires
  <2> QED
    BY <2>1, EndSpliceCommitted DEF Committed, Raw, Sentinels
<1>19. CASE Arrive
  BY <1>19 DEF Arrive, Reading
<1>20. CASE UpstreamEnds
  BY <1>20 DEF UpstreamEnds, Reading, EndRead
<1>21. CASE UpstreamDies
  BY <1>21 DEF UpstreamDies, Reading, EndRead, DeathFate, MayFallback, HasNext
<1>22. CASE IdleTooLong
  BY <1>22 DEF IdleTooLong, Reading, EndRead
<1>23. CASE SpliceArrives
  BY <1>23 DEF SpliceArrives, Splicing, Deliver
<1>24. CASE SpliceEnds
  <2>1. PICK err : EndSplice("eof", err)
    BY <1>24 DEF SpliceEnds
  <2> QED
    BY <2>1, EndSpliceCommitted DEF Committed, Raw, Sentinels
<1>25. CASE SpliceDies
  <2>1. PICK err : EndSplice("died", err)
    BY <1>25 DEF SpliceDies
  <2> QED
    BY <2>1, EndSpliceCommitted DEF Committed, Raw, Sentinels
<1>26. CASE Hangup
  BY <1>26 DEF Hangup, Over
<1>27. CASE ForceStop
  BY <1>27 DEF ForceStop, Over
<1>28. CASE UNCHANGED vars
  BY <1>28 DEF vars
<1> QED
  BY <1>1, <1>2, <1>3, <1>4, <1>5, <1>6, <1>7, <1>8, <1>9, <1>10, <1>11, <1>12, <1>13, <1>14, <1>15, <1>16, <1>17, <1>18, <1>19, <1>20, <1>21, <1>22, <1>23, <1>24, <1>25, <1>26, <1>27, <1>28
     DEF Next, Generator, Deadline

LEMMA EntriesStep ==
  ASSUME IInv, [Next]_vars
  PROVE  Entries'
<1> USE StreamAssumption DEF IInv, TypeInv, TypeOK, Entries, place, client
<1>1. CASE TakePrime
  BY <1>1 DEF TakePrime, Offered
<1>2. CASE TakeContent
  BY <1>2 DEF TakeContent, Offered, Commit, Deliver
<1>3. CASE LeaveBanner
  BY <1>3 DEF LeaveBanner, Offered, MayFallback, HasNext
<1>4. CASE PassBanner
  BY <1>4 DEF PassBanner, Offered, Commit, Deliver
<1>5. CASE Advance
  <2>1. /\ pc = "body" /\ up.fate = "fallback" /\ pc' = "dispatch" /\ pos' = pos + 1
        /\ UNCHANGED <<req, resp, rung, up>>
    BY <1>5 DEF Advance, Drained
  <2>2. CASE req.endless
    BY <2>1, <2>2
  <2>3. CASE ~req.endless
    <3>1. req.length # 0 /\ resp <= pos /\ pos < req.length
      BY <2>1, <2>3
    <3>2. resp \in Nat /\ pos \in Nat /\ req.length \in Nat
      OBVIOUS
    <3>3. resp < pos' /\ resp <= pos' /\ pos' <= req.length
      <4> HIDE DEF TypeOK
      <4> QED BY <2>1, <3>1, <3>2
    <3> QED
      BY <2>1, <2>3, <3>1, <3>3
  <2> QED
    BY <2>2, <2>3
<1>6. CASE Rewind
  BY <1>6 DEF Rewind, Drained, StartOver
<1>7. CASE RetryLeaf
  BY <1>7 DEF RetryLeaf, Drained, Apologise, Deliver, Over, Fresh
<1>8. CASE LookAgain
  BY <1>8 DEF LookAgain, Finished, Drained, LastFate, Silent, Stalled, HasNext, MayFallback
<1>9. CASE EndBody
  BY <1>9 DEF EndBody, Finished, Drained
<1>10. CASE OpenSplice
  BY <1>10 DEF OpenSplice, Flowing
<1>11. CASE Finish
  BY <1>11 DEF Finish, Apologise, Deliver, Over
<1>12. CASE NestedStream
  BY <1>12 DEF NestedStream, Flowing, Fresh
<1>13. CASE NestedAnswer
  BY <1>13 DEF NestedAnswer, Apologise, Deliver, Over
<1>14. CASE NestedWrap
  BY <1>14 DEF NestedWrap, StartOver, Over
<1>15. CASE Dial
  BY <1>15 DEF Dial, Flowing
<1>16. CASE DialFails
  BY <1>16 DEF DialFails, StartOver, Apologise, Deliver, Over
<1>17. CASE DeadlinePasses
  BY <1>17 DEF DeadlinePasses, Reading, EndRead, DeadlineFate, MayFallback, HasNext
<1>18. CASE SpliceExpires
  BY <1>18 DEF SpliceExpires, Splicing, EndSplice
<1>19. CASE Arrive
  BY <1>19 DEF Arrive, Reading
<1>20. CASE UpstreamEnds
  BY <1>20 DEF UpstreamEnds, Reading, EndRead
<1>21. CASE UpstreamDies
  BY <1>21 DEF UpstreamDies, Reading, EndRead, DeathFate, MayFallback, HasNext
<1>22. CASE IdleTooLong
  BY <1>22 DEF IdleTooLong, Reading, EndRead
<1>23. CASE SpliceArrives
  BY <1>23 DEF SpliceArrives, Splicing, Deliver
<1>24. CASE SpliceEnds
  BY <1>24 DEF SpliceEnds, Splicing, EndSplice
<1>25. CASE SpliceDies
  BY <1>25 DEF SpliceDies, Splicing, EndSplice
<1>26. CASE Hangup
  BY <1>26 DEF Hangup, Over
<1>27. CASE ForceStop
  BY <1>27 DEF ForceStop, Over
<1>28. CASE UNCHANGED vars
  BY <1>28 DEF vars
<1> QED
  BY <1>1, <1>2, <1>3, <1>4, <1>5, <1>6, <1>7, <1>8, <1>9, <1>10, <1>11, <1>12, <1>13, <1>14, <1>15, <1>16, <1>17, <1>18, <1>19, <1>20, <1>21, <1>22, <1>23, <1>24, <1>25, <1>26, <1>27, <1>28
     DEF Next, Generator, Deadline

(* ---- the abstract promise -------------------------------------------------- *)

\* Words are only added, and a stream that is over stays as it ended.
Forward ==
  /\ req' = req /\ heard \subseteq heard'
  /\ pc' = "over" => heard' = heard /\ resp' = resp
  /\ pc = "over" => pc' = "over"

LEMMA ForwardStep ==
  ASSUME TypeOK, [Next]_vars
  PROVE  Forward
<1> USE DEF Forward, place, client
<1>1. CASE TakePrime
  BY <1>1 DEF TakePrime, Offered
<1>2. CASE TakeContent
  BY <1>2 DEF TakeContent, Offered, Commit, Deliver
<1>3. CASE LeaveBanner
  BY <1>3 DEF LeaveBanner, Offered
<1>4. CASE PassBanner
  BY <1>4 DEF PassBanner, Offered, Commit, Deliver
<1>5. CASE Advance
  BY <1>5 DEF Advance, Drained
<1>6. CASE Rewind
  BY <1>6 DEF Rewind, Drained, StartOver
<1>7. CASE RetryLeaf
  BY <1>7 DEF RetryLeaf, Drained, Apologise, Deliver, Over
<1>8. CASE LookAgain
  BY <1>8 DEF LookAgain, Finished, Drained
<1>9. CASE EndBody
  BY <1>9 DEF EndBody, Finished, Drained
<1>10. CASE OpenSplice
  BY <1>10 DEF OpenSplice
<1>11. CASE Finish
  BY <1>11 DEF Finish, Apologise, Deliver, Over
<1>12. CASE NestedStream
  BY <1>12 DEF NestedStream
<1>13. CASE NestedAnswer
  BY <1>13 DEF NestedAnswer, Apologise, Deliver, Over
<1>14. CASE NestedWrap
  BY <1>14 DEF NestedWrap, StartOver, Over
<1>15. CASE Dial
  BY <1>15 DEF Dial
<1>16. CASE DialFails
  BY <1>16 DEF DialFails, StartOver, Apologise, Deliver, Over
<1>17. CASE DeadlinePasses
  BY <1>17 DEF DeadlinePasses, Reading, EndRead
<1>18. CASE SpliceExpires
  BY <1>18 DEF SpliceExpires, Splicing, EndSplice
<1>19. CASE Arrive
  BY <1>19 DEF Arrive, Reading
<1>20. CASE UpstreamEnds
  BY <1>20 DEF UpstreamEnds, Reading, EndRead
<1>21. CASE UpstreamDies
  BY <1>21 DEF UpstreamDies, Reading, EndRead
<1>22. CASE IdleTooLong
  BY <1>22 DEF IdleTooLong, Reading, EndRead
<1>23. CASE SpliceArrives
  BY <1>23 DEF SpliceArrives, Splicing, Deliver
<1>24. CASE SpliceEnds
  BY <1>24 DEF SpliceEnds, Splicing, EndSplice
<1>25. CASE SpliceDies
  BY <1>25 DEF SpliceDies, Splicing, EndSplice
<1>26. CASE Hangup
  BY <1>26 DEF Hangup, Over
<1>27. CASE ForceStop
  BY <1>27 DEF ForceStop, Over, TypeOK
<1>28. CASE UNCHANGED vars
  BY <1>28 DEF vars, TypeOK
<1> QED
  BY <1>1, <1>2, <1>3, <1>4, <1>5, <1>6, <1>7, <1>8, <1>9, <1>10, <1>11, <1>12, <1>13, <1>14, <1>15, <1>16, <1>17, <1>18, <1>19, <1>20, <1>21, <1>22, <1>23, <1>24, <1>25, <1>26, <1>27, <1>28
     DEF Next, Generator, Deadline

LEMMA VoiceIs ==
  ASSUME IInv
  PROVE  /\ Raw /\ heard # {} => Voice = resp /\ resp \in Nat \ {0}
         /\ ~(Raw /\ heard # {}) => Voice = 0
<1>1. ASSUME Raw /\ heard # {}
      PROVE  heard = {resp} /\ resp \in Nat \ {0}
  <2>1. heard \subseteq {resp} /\ heard # {} /\ heard \subseteq 1 .. resp /\ resp \in Nat
    BY <1>1 DEF IInv, TypeInv, TypeOK, Committed
  <2>2. heard = {resp} /\ resp \in 1 .. resp
    BY <2>1
  <2> QED
    BY <2>1, <2>2
<1>2. ASSUME Raw /\ heard # {}
      PROVE  Voice = resp
  BY <1>1, <1>2 DEF Voice
<1> QED
  BY <1>1, <1>2 DEF Voice

\* Every step maps to words of the one voice, to the end, or to a stutter.
LEMMA StepMaps ==
  ASSUME IInv, IInv', [Next]_vars
  PROVE  [CS!Next]_(CS!vars)
<1>1. Forward
  BY ForwardStep DEF IInv, TypeInv
<1>2. /\ Raw /\ heard # {} => Voice = resp /\ heard = {resp} /\ resp \in Nat \ {0}
      /\ ~(Raw /\ heard # {}) => Voice = 0
  BY VoiceIs DEF IInv, Committed
<1>3. /\ (Raw /\ heard # {})' => Voice' = resp' /\ heard' = {resp'} /\ resp' \in Nat \ {0}
      /\ ~(Raw /\ heard # {})' => Voice' = 0
  <2>1. ASSUME (Raw /\ heard # {})'
        PROVE  heard' = {resp'} /\ resp' \in Nat \ {0}
    <3>1. /\ heard' \subseteq {resp'} /\ heard' # {}
          /\ heard' \subseteq 1 .. resp' /\ resp' \in Nat
      BY <2>1 DEF IInv, TypeInv, TypeOK, Committed
    <3>2. heard' = {resp'} /\ resp' \in 1 .. resp'
      BY <3>1
    <3> QED
      BY <3>1, <3>2
  <2>2. (Raw /\ heard # {})' => Voice' = resp'
    BY <2>1 DEF Voice
  <2>3. ~(Raw /\ heard # {})' => Voice' = 0
    BY DEF Voice
  <2> QED
    BY <2>1, <2>2, <2>3
<1>4. Raw' = Raw
  BY <1>1 DEF Forward, Raw
<1>5. CASE pc' = "over"
  <2>1. Voice' = Voice
    BY <1>1, <1>2, <1>3, <1>4, <1>5 DEF Forward
  <2> QED
    BY <1>5, <2>1 DEF CS!Next, CS!Close, CS!vars
<1>6. CASE pc' # "over"
  <2>1. pc # "over"
    BY <1>1, <1>6 DEF Forward
  <2>2. CASE Raw /\ heard' # {}
    <3>1. Voice' \in Nat \ {0} /\ Voice \in {0, Voice'}
      BY <1>1, <1>2, <1>3, <1>4, <2>2 DEF Forward
    <3> QED
      BY <1>6, <2>1, <3>1 DEF CS!Next, CS!Hear
  <2>3. CASE ~(Raw /\ heard' # {})
    <3>1. Voice' = 0 /\ Voice = 0
      BY <1>1, <1>2, <1>3, <1>4, <2>3 DEF Forward
    <3> QED
      BY <1>6, <2>1, <3>1 DEF CS!vars
  <2> QED
    BY <2>2, <2>3
<1> QED
  BY <1>5, <1>6

(* ---- theorems ---------------------------------------------------------------- *)

LEMMA Inductive == Spec => []IInv
<1>1. Init => IInv
  BY InitIInv
<1>2. IInv /\ [Next]_vars => IInv'
  BY NextType, RungsStep, CommittedStep, EntriesStep DEF IInv, TypeInv
<1> QED
  BY <1>1, <1>2, PTL DEF Spec

\* Every variable stays in its type, the bounds hold, and no stream that is over
\* is left in the registry, whatever lanes, settings and bounds are chosen.
THEOREM TypeCorrect == Spec => []TypeOK
<1>1. IInv => TypeOK
  BY DEF IInv, TypeInv
<1> QED
  BY <1>1, Inductive, PTL

\* raw_upstream_guarded, the ladder, the fallbacks and the splice implement
\* ClientStream: the client of the raw lane hears one upstream response, and
\* nothing after the end, for chains and responses of any length.
THEOREM PromiseTheorem == Spec => Promise
<1>1. Init => CS!Init
  <2>1. ASSUME Init PROVE pc # "over" /\ Voice = 0
    BY <2>1 DEF Init, Voice
  <2> QED
    BY <2>1 DEF CS!Init
<1>2. IInv /\ IInv' /\ [Next]_vars => [CS!Next]_(CS!vars)
  BY StepMaps
<1> QED
  BY <1>1, <1>2, Inductive, PTL DEF Spec, Promise, CS!Spec

\* With never-stop retry off no chain of failures opens more responses than the
\* request has entries, or the ladder rungs.
THEOREM OpensTheorem == Spec => []OpensAreBounded
<1>1. IInv => OpensAreBounded
  <2> SUFFICES ASSUME IInv, ~req.endless
               PROVE  resp <= IF req.length = 0 THEN Rungs ELSE req.length
    BY DEF OpensAreBounded
  <2>1. resp \in Nat /\ rung \in 1 .. Rungs /\ pos \in Nat /\ req.length \in Nat /\ Rungs \in Nat
    BY StreamAssumption DEF IInv, TypeInv, TypeOK
  <2>2. CASE req.length = 0
    <3>1. resp <= rung
      BY <2>2 DEF IInv, Entries
    <3> QED
      BY <2>1, <2>2, <3>1
  <2>3. CASE req.length # 0
    <3>1. resp <= pos /\ pos <= req.length
      BY <2>3 DEF IInv, Entries
    <3> QED
      BY <2>1, <2>3, <3>1
  <2> QED
    BY <2>2, <2>3
<1> QED
  BY <1>1, Inductive, PTL
=============================================================================
