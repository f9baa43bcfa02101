---------------------------- MODULE OutcomeLedger ----------------------------
(***************************************************************************)
(* The end of an attempt, src/app/observability.py log_request.  A stream   *)
(* may report its end more than once: the generator's finally block, the    *)
(* cancellation guard around it, a watchdog.  A registry from request ids   *)
(* to positions of the console log is what makes several reports one end:   *)
(* one verdict to the ban ladder and the breaker, corrected at most once    *)
(* when a provisional success turns out to be a failure, and one usage row. *)
(*                                                                         *)
(* The positions are into a list that is trimmed from its head, cleared and *)
(* filtered.  Only log_request's own trimming moves them along: `lost`      *)
(* collects the ids whose position something else made wrong, and the       *)
(* invariants are about the others.                                         *)
(*                                                                         *)
(* A report's words stand for its tokens, and the amounts of a usage row    *)
(* are left out: booked counts the rows.                                    *)
(***************************************************************************)
EXTENDS Integers, SequencesExt, Subsequences

CONSTANTS
  Attempts,   \* calls of an upstream; one that opens a request names its id
  Stamps,     \* the ids a retry can read off the clock
  NoId,       \* the owner of a row that ends nothing
  NonUsage,   \* attempts of the authenticity provider
  Reports,    \* what a caller passes to log_request
  Cap,        \* rows the console holds (10000)
  RegCap,     \* ends the registry holds (5000)
  RegDrop,    \* how many of the oldest it drops when it overflows (500)
  MaxReports  \* bound: reports altogether

ASSUME LedgerAssumption ==
  /\ NonUsage \subseteq Attempts
  /\ NoId \notin Attempts \cup Stamps
  /\ Reports \subseteq [status : {"ok", "bad", "blank", "gone"}, words : Nat, first : BOOLEAN]
  /\ {Cap, RegCap, RegDrop, MaxReports} \subseteq Nat \ {0}
  /\ RegDrop <= RegCap

VARIABLES
  console,   \* console_logs
  registry,  \* _terminal_end_registry: a dict keeps the order of insertion
  inflight,  \* the ids of _INFLIGHT_REQUESTS
  id,        \* per attempt, its request_id (NoId before it has begun)
  booked,    \* per attempt, its rows in usage_events
  said,      \* history: per attempt, the reports as log_request reads them
  heard,     \* history: per attempt, the verdicts the ladder and the breaker got
  lost       \* history: the ids whose position in the console went wrong

ledger == <<console, registry, inflight, id, booked, said, heard, lost>>

Ids == Attempts \cup Stamps
Statuses == {"ok", "bad", "blank", "gone"}
Rows == [who : Ids \cup {NoId}, status : Statuses \cup {"note"}, words : Nat]

-----------------------------------------------------------------------------
(* The console and the registry.                                            *)

Note == [who |-> NoId, status |-> "note", words |-> 0]
Row(i, e) == [who |-> i, status |-> e.status, words |-> e.words]
Trimmed(s) == IF Len(s) > Cap THEN Tail(s) ELSE s

Registered == {entry.key : entry \in ToSet(registry)}
At(i) == (CHOOSE entry \in ToSet(registry) : entry.key = i).at

\* The report finds a row where the registry says the id's end is.
Known(i) == i \in Registered /\ At(i) <= Len(console)

\* A dict assignment: a known key keeps its place in the order.
Put(i, n) ==
  IF i \in Registered
  THEN [k \in DOMAIN registry |->
          IF registry[k].key = i THEN [key |-> i, at |-> n] ELSE registry[k]]
  ELSE Append(registry, [key |-> i, at |-> n])

\* MUTANT: the registry is cut to its bound before the entry that fills it.
BoundedLate(r) == IF Len(r) > RegCap + 1 THEN SubSeq(r, RegDrop + 1, Len(r)) ELSE r

Bounded(r) == IF Len(r) > RegCap THEN SubSeq(r, RegDrop + 1, Len(r)) ELSE r

\* MUTANT: the head's position goes, the others stay where they were.
ShiftedNot(r) == Keep(r, {k \in DOMAIN r : r[k].at > 1})

\* log_request's own trimming: every position moves down, the head's goes.
Shifted(r) ==
  LET kept == Keep(r, {k \in DOMAIN r : r[k].at > 1})
  IN  [k \in DOMAIN kept |-> [kept[k] EXCEPT !.at = @ - 1]]

\* Every other writer trims the list and leaves the registry alone.
AppendNote ==
  /\ console' = Trimmed(Append(console, Note))
  /\ lost' = IF Len(console) = Cap THEN lost \cup Registered ELSE lost

-----------------------------------------------------------------------------
(* Attempts begin.                                                          *)

LedgerInit ==
  /\ console = <<>> /\ registry = <<>>
  /\ inflight = {} /\ lost = {}
  /\ id = [a \in Attempts |-> NoId]
  /\ booked = [a \in Attempts |-> 0]
  /\ said = [a \in Attempts |-> <<>>]
  /\ heard = [a \in Attempts |-> <<>>]

\* log_request_start: a fresh id, a start row, a slot of the live strip.
Start(a) ==
  /\ id[a] = NoId
  /\ id' = [id EXCEPT ![a] = a]
  /\ inflight' = inflight \cup {a}
  /\ AppendNote
  /\ UNCHANGED <<registry, booked, said, heard>>

\* A retry names itself after the clock, whose low 24 bits it drops: two
\* retries within 16.7 ms get the same id.  It logs no start.
Retry(a) ==
  /\ id[a] = NoId
  /\ \E s \in Stamps : id' = [id EXCEPT ![a] = s]
  /\ UNCHANGED <<console, registry, inflight, booked, said, heard, lost>>

-----------------------------------------------------------------------------
(* log_request.                                                             *)

\* A success without a token, a first token or an error is an empty answer.
Read(e) ==
  IF e.status = "ok" /\ e.words = 0 /\ ~e.first THEN [e EXCEPT !.status = "bad"] ELSE e

Tell(a, e) ==
  heard' = IF a \in NonUsage THEN heard ELSE [heard EXCEPT ![a] = Append(@, e.status)]

\* The usage row, and the slot of the live strip that is freed with it: an
\* error whose text is only white space yields neither.
Book(a, e) ==
  IF e.status = "blank"
  THEN UNCHANGED <<booked, inflight>>
  ELSE /\ booked' = IF a \in NonUsage THEN booked ELSE [booked EXCEPT ![a] = @ + 1]
       /\ inflight' = inflight \ {id[a]}

\* The first report of an id: a row, a position, a verdict and a booking.
First(a, e) ==
  LET reg  == Put(id[a], Len(console) + 1)
      full == Len(console) = Cap
      kept == Bounded(reg)
      gone == {entry.key : entry \in ToSet(reg) \ ToSet(kept)}
      head == {entry.key : entry \in {x \in ToSet(kept) : full /\ x.at = 1}}
  IN /\ ~Known(id[a])
     /\ console' = Trimmed(Append(console, Row(id[a], e)))
     /\ registry' = IF full THEN Shifted(kept) ELSE kept
     /\ lost' = lost \cup gone \cup head
     /\ Tell(a, e)
     /\ Book(a, e)

\* The words are out and the client hung up on a finished answer.
LateDisconnect(row, e) ==
  row.status = "ok" /\ e.status = "gone" /\ (row.words > 0 \/ e.words > 0)

\* A provisional success turns out to be a failure.
Corrects(row, e) == row.status = "ok" /\ e.status # "ok" /\ ~LateDisconnect(row, e)

\* A success with more tokens: the verdict stands.
Upgrades(row, e) == row.status = "ok" /\ e.status = "ok" /\ e.words > row.words

\* Another report of a known id replaces the row or is dropped; a correction
\* is told to the ladder and the breaker as well.  A row that belongs to
\* another id by now is the other's loss.
Amend(a, e) ==
  LET n == At(id[a])
      row == console[n]
  IN /\ Known(id[a])
     /\ IF Corrects(row, e) THEN Tell(a, e) ELSE UNCHANGED heard
     /\ IF Corrects(row, e) \/ Upgrades(row, e)
        THEN /\ console' = [console EXCEPT ![n] = Row(id[a], e)]
             /\ lost' = lost \cup ({row.who} \ {id[a], NoId})
        ELSE UNCHANGED <<console, lost>>
     /\ UNCHANGED <<registry, booked, inflight>>

SaidSoFar == FoldFunction(LAMBDA p, n : Len(p) + n, 0, said)

Log(a) ==
  /\ id[a] # NoId
  /\ SaidSoFar < MaxReports
  /\ \E report \in Reports :
       LET e == Read(report) IN
       /\ said' = [said EXCEPT ![a] = Append(@, e)]
       /\ First(a, e) \/ Amend(a, e)
  /\ UNCHANGED id

-----------------------------------------------------------------------------
(* Everyone else who writes the console.                                    *)

\* The degenerate-output guard, the cache tracker, the request path.
OtherRow ==
  /\ AppendNote
  /\ UNCHANGED <<registry, inflight, id, booked, said, heard>>

\* The administrator clears the log.
Clear ==
  /\ console' = <<>>
  /\ lost' = lost \cup Registered
  /\ UNCHANGED <<registry, inflight, id, booked, said, heard>>

\* The error analysis is done with the rows that carry an error.
IsError(row) == row.status \in {"bad", "blank", "gone"}

Analyze ==
  /\ \E row \in ToSet(console) : IsError(row)
  /\ console' = Keep(console, {k \in DOMAIN console : ~IsError(console[k])})
  /\ lost' = lost \cup Registered
  /\ UNCHANGED <<registry, inflight, id, booked, said, heard>>

\* inflight_snapshot prunes what has been out for ten minutes.
Prune ==
  /\ \E i \in inflight : inflight' = inflight \ {i}
  /\ UNCHANGED <<console, registry, id, booked, said, heard, lost>>

LedgerNext ==
  \/ \E a \in Attempts : Start(a) \/ Retry(a) \/ Log(a)
  \/ OtherRow \/ Clear \/ Analyze \/ Prune

LedgerSpec == LedgerInit /\ [][LedgerNext]_ledger

-----------------------------------------------------------------------------
(* Properties.                                                              *)

\* The console stays within its bound and the registry within its own, with
\* at most one position per id.
LedgerTypeOK ==
  /\ console \in Seq(Rows) /\ Len(console) <= Cap
  /\ registry \in Seq([key : Ids, at : 1..Cap]) /\ Len(registry) <= RegCap
  /\ IsInjective([k \in DOMAIN registry |-> registry[k].key])
  /\ inflight \subseteq Attempts /\ lost \subseteq Ids
  /\ id \in [Attempts -> Ids \cup {NoId}]
  /\ booked \in [Attempts -> Nat]
  /\ said \in [Attempts -> Seq([status : Statuses, words : Nat, first : BOOLEAN])]
  /\ heard \in [Attempts -> Seq(Statuses)]

\* The attempts whose end the registry can tell: nobody shares their id and
\* nothing but log_request moved the rows.
Tracked ==
  {a \in Attempts : /\ said[a] # <<>> /\ id[a] \notin lost
                    /\ \A b \in Attempts \ {a} : id[b] # id[a]}

\* The reports p of a call that overturn its first one: failures, unless they
\* are a client that left after words had been out.
Overturning(p) ==
  {j \in 2..Len(p) :
     /\ p[1].status = "ok" /\ p[j].status # "ok"
     /\ p[j].status = "gone" =>
          /\ p[j].words = 0
          /\ \A k \in 1..(j - 1) : p[k].status = "ok" => p[k].words = 0}

\* However often and in whatever order the finalizers of an attempt report,
\* with other attempts' reports and the trimming of the console in between,
\* the ladder and the breaker hear its first report and, if that was a
\* success, the first failure that overturns it; nothing else.
OneVerdict ==
  \A a \in Tracked \ NonUsage :
    LET p == said[a] IN
    heard[a] =
      <<p[1].status>> \o
      IF Overturning(p) = {} THEN <<>>
      ELSE <<p[CHOOSE j \in Overturning(p) : \A k \in Overturning(p) : j <= k].status>>

\* An attempt that has ended is one usage row and no longer in flight; only
\* a failure without a text to show is neither, and stays on the live strip.
OneBooking ==
  \A a \in Tracked :
    IF said[a][1].status = "blank"
    THEN booked[a] = 0
    ELSE booked[a] = (IF a \in NonUsage THEN 0 ELSE 1) /\ id[a] \notin inflight

\* An attempt ends once, however many finalizers log_request hears from: for
\* those who judge the model and for those who count its use.
OneEnd == OneVerdict /\ OneBooking

\* Every position of the registry is the row of that id's end, as the comment
\* on _terminal_end_registry has it.
IndexPointsHome ==
  \A entry \in ToSet(registry) :
    entry.at <= Len(console) /\ console[entry.at].who = entry.key

\* Attempts have ids of their own, as the comment where a retry's is made
\* says.
IdsDiffer == \A x, y \in Attempts : x # y /\ id[x] # NoId => id[x] # id[y]
=============================================================================
