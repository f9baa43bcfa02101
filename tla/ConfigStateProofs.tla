------------------------- MODULE ConfigStateProofs -------------------------
(***************************************************************************)
(* Theorems about ConfigState, for every set of providers, rows, requests, *)
(* tabs and jobs and every bound.                                          *)
(***************************************************************************)
EXTENDS ConfigState, SequenceTheorems, TLAPS

USE BoundsAssumption, RowsAssumption DEF Gens

\* What a request relies on while it stands at the lock.
Standing ==
    \A r \in Requests :
        /\ frame[r].gen <= gen
        /\ frame[r].phase \in {"wait", "refresh"} => OAuth \in At(r).content.rows

IInv == TypeOK /\ Standing /\ RefreshIsCurrent

Types == /\ gen \in Gens
         /\ snap \in [Gens -> Snapshot]
         /\ bans \in [Gens -> SUBSET Leaves]
         /\ frame \in [Requests -> Frame]
         /\ queue \in Seq(Requests)
         /\ tab \in [Tabs -> Copy]
         /\ job \in [Jobs -> Copy]
         /\ newest \in 0..MaxTokens
         /\ gone \in SUBSET Conns

-----------------------------------------------------------------------------
(* The operators.                                                          *)

\* A restored view is a view, has every row of the writer's, and keeps the
\* writer's token if the writer has the OAuth row.
LEMMA RestoredIsContent ==
    ASSUME Types, NEW new \in Content, NEW deleted
    PROVE  /\ Restored(new, deleted) \in Content
           /\ new.rows \subseteq Restored(new, deleted).rows
           /\ OAuth \in new.rows => Restored(new, deleted).tok = new.tok
<1>1. Live \in Content
  BY DEF Types, Live, Snapshot
<1> QED
  BY <1>1 DEF Restored, RowsOf, Content

\* The line without one of its requests: it stands in it no longer, the
\* others still do.
LEMMA DroppedOK ==
    ASSUME queue \in Seq(Requests),
           \A i, j \in 1..Len(queue) : queue[i] = queue[j] => i = j,
           NEW k \in 1..Len(queue)
    PROVE  /\ Dropped(k) \in Seq(Requests)
           /\ \A i, j \in 1..Len(Dropped(k)) : Dropped(k)[i] = Dropped(k)[j] => i = j
           /\ \A r \in Requests :
                (\E i \in 1..Len(Dropped(k)) : Dropped(k)[i] = r)
                  <=> r # queue[k] /\ \E i \in 1..Len(queue) : queue[i] = r
           /\ k # 1 => Dropped(k) # <<>> /\ Head(Dropped(k)) = Head(queue)
<1> DEFINE n == Len(queue)
<1>0. n \in Nat /\ n >= 1 /\ queue \in [1..n -> Requests]
  OBVIOUS
<1>1. /\ Dropped(k) \in [1..(n - 1) -> Requests]
      /\ \A j \in 1..(n - 1) : Dropped(k)[j] = IF j < k THEN queue[j] ELSE queue[j + 1]
  BY <1>0 DEF Dropped
<1>2. Dropped(k) \in Seq(Requests) /\ Len(Dropped(k)) = n - 1
  <2>1. n - 1 \in Nat
    BY <1>0
  <2>2. Dropped(k) \in Seq(Requests)
    BY <1>1, <2>1, SeqDef
  <2>3. DOMAIN Dropped(k) = 1..(n - 1)
    BY <1>1
  <2> QED
    BY <2>1, <2>2, <2>3, LenProperties
<1>3. ASSUME NEW i \in 1..(n - 1), NEW j \in 1..(n - 1), Dropped(k)[i] = Dropped(k)[j]
      PROVE  i = j
  BY <1>0, <1>1, <1>3
<1>4. ASSUME NEW r \in Requests, NEW i \in 1..(n - 1), Dropped(k)[i] = r
      PROVE  r # queue[k] /\ \E m \in 1..n : queue[m] = r
  BY <1>0, <1>1, <1>4
<1>5. ASSUME NEW r \in Requests, NEW m \in 1..n, queue[m] = r, r # queue[k]
      PROVE  \E i \in 1..(n - 1) : Dropped(k)[i] = r
  <2>1. CASE m < k
    BY <1>0, <1>1, <1>5, <2>1
  <2>2. CASE m > k
    <3>1. m - 1 \in 1..(n - 1) /\ Dropped(k)[m - 1] = queue[m]
      BY <1>0, <1>1, <2>2
    <3> QED
      BY <3>1, <1>5
  <2> QED
    BY <1>5, <2>1, <2>2, <1>0
<1>6. k # 1 => Dropped(k) # <<>> /\ Head(Dropped(k)) = Head(queue)
  BY <1>0, <1>1, <1>2
<1> QED
  BY <1>2, <1>3, <1>4, <1>5, <1>6

\* The line after its head has left.
LEMMA TailOK ==
    ASSUME queue \in Seq(Requests), queue # <<>>,
           \A i, j \in 1..Len(queue) : queue[i] = queue[j] => i = j
    PROVE  /\ Tail(queue) \in Seq(Requests)
           /\ \A i, j \in 1..Len(Tail(queue)) : Tail(queue)[i] = Tail(queue)[j] => i = j
           /\ \A r \in Requests :
                (\E i \in 1..Len(Tail(queue)) : Tail(queue)[i] = r)
                  <=> r # Head(queue) /\ \E i \in 1..Len(queue) : queue[i] = r
<1> DEFINE n == Len(queue)
<1>0. n \in Nat /\ n >= 1 /\ queue \in [1..n -> Requests] /\ Head(queue) = queue[1]
  OBVIOUS
<1>1. /\ Tail(queue) \in Seq(Requests)
      /\ Len(Tail(queue)) = n - 1
      /\ \A j \in 1..(n - 1) : Tail(queue)[j] = queue[j + 1]
  BY <1>0
<1>2. ASSUME NEW r \in Requests, NEW m \in 1..n, queue[m] = r, r # Head(queue)
      PROVE  \E i \in 1..(n - 1) : Tail(queue)[i] = r
  <2>1. m - 1 \in 1..(n - 1) /\ Tail(queue)[m - 1] = queue[m]
    BY <1>0, <1>1, <1>2
  <2> QED
    BY <2>1, <1>2
<1> QED
  BY <1>0, <1>1, <1>2

\* A commit: the next generation holds the restored view, and the contents of
\* the earlier ones are those of the writer's array.
LEMMA CommitOK ==
    ASSUME Types,
           NEW base \in [Gens -> Snapshot], NEW new \in Content,
           NEW borrowed \in BOOLEAN, NEW deleted, NEW dict \in Gens,
           Commit(base, new, borrowed, deleted, dict)
    PROVE  /\ gen + 1 \in Gens /\ gen' = gen + 1
           /\ snap' \in [Gens -> Snapshot]
           /\ \A g \in 0..gen : snap'[g].content = base[g].content
           /\ snap'[gen + 1] = [content |-> Restored(new, deleted),
                                sealed |-> FALSE, dict |-> dict]
           /\ Live' = Restored(new, deleted)
<1> DEFINE full == Restored(new, deleted)
           s == base[gen].sealed \/ borrowed \/ OAuth \in full.rows \ new.rows
<1>1. full \in Content
  BY RestoredIsContent
<1>2. gen \in Gens /\ gen + 1 \in Gens /\ gen' = gen + 1 /\ gen # gen + 1
  BY DEF Types, Commit
<1>3. snap' = [base EXCEPT ![gen].sealed = s,
                           ![gen + 1] = [content |-> full, sealed |-> FALSE, dict |-> dict]]
  BY DEF Commit
<1>4. s \in BOOLEAN
  BY <1>2 DEF Snapshot
<1> HIDE DEF full, s
<1>5. snap' \in [Gens -> Snapshot]
  BY <1>1, <1>2, <1>3, <1>4 DEF Snapshot
<1>6. \A g \in 0..gen : snap'[g].content = base[g].content
  BY <1>2, <1>3 DEF Snapshot
<1>7. snap'[gen + 1] = [content |-> full, sealed |-> FALSE, dict |-> dict]
  BY <1>2, <1>3
<1>8. Live' = full
  BY <1>2, <1>7 DEF Live
<1> QED
  BY <1>2, <1>5, <1>6, <1>7, <1>8 DEF full

\* The live view and its bans have their types.
LEMMA LiveOK ==
    ASSUME Types
    PROVE  /\ Live \in Content
           /\ LiveBans \in SUBSET Leaves
           /\ snap[gen].dict \in Gens
BY DEF Types, Live, LiveBans, Snapshot

\* A step that leaves the token and the rows of every snapshot as they are.
SnapshotsKept ==
    \A g \in 0..gen :
        OAuth \in snap[g].content.rows =>
            /\ OAuth \in (snap[g].content.rows)'
            /\ (snap[g].content.tok)' = snap[g].content.tok

\* What is common to all steps that do not touch the requests.
LEMMA WriterStep ==
    ASSUME IInv, Types', gen <= gen', SnapshotsKept, UNCHANGED <<frame, queue>>
    PROVE  IInv'
<1>1. LineOK'
  BY DEF IInv, TypeOK, LineOK
<1>2. \A r \in Requests : frame[r].gen \in 0..gen
  BY DEF IInv, TypeOK, Standing, Frame
<1>3. Standing'
  <2> SUFFICES ASSUME NEW r \in Requests
               PROVE  /\ frame'[r].gen <= gen'
                      /\ frame'[r].phase \in {"wait", "refresh"} =>
                           OAuth \in (At(r).content.rows)'
    BY DEF Standing
  <2>1. frame'[r].gen <= gen'
    BY <1>2 DEF Types, IInv, TypeOK
  <2>2. ASSUME frame[r].phase \in {"wait", "refresh"}
        PROVE  OAuth \in (At(r).content.rows)'
    BY <1>2, <2>2 DEF IInv, Standing, SnapshotsKept, At
  <2> QED
    BY <2>1, <2>2
<1>4. RefreshIsCurrent'
  BY <1>2 DEF IInv, Standing, RefreshIsCurrent, SnapshotsKept, At, HoldsLock
<1> QED
  BY <1>1, <1>3, <1>4 DEF IInv, TypeOK, Types

\* get_mutable_config followed by a commit.
LEMMA CommitCopyOK ==
    ASSUME Types, NEW base \in [Gens -> Snapshot], NEW new \in Content,
           NEW copied \in SUBSET Leaves, CommitCopy(base, new, copied)
    PROVE  /\ gen + 1 \in Gens /\ gen' = gen + 1
           /\ snap' \in [Gens -> Snapshot]
           /\ bans' \in [Gens -> SUBSET Leaves]
           /\ \A g \in 0..gen : snap'[g].content = base[g].content
           /\ Live' = Restored(new, None)
<1>1. gen + 1 \in Gens
  BY DEF CommitCopy, Commit, Types
<1>2. Commit(base, new, FALSE, None, gen + 1) /\ bans' = [bans EXCEPT ![gen + 1] = copied]
  BY DEF CommitCopy
<1> QED
  BY <1>1, <1>2, CommitOK DEF Types

-----------------------------------------------------------------------------
(* The steps of the writers.                                               *)

LEMMA ImportStep ==
    ASSUME IInv, NEW c \in Conns, Import(c)
    PROVE  IInv'
<1> DEFINE new == [provs |-> Live.provs \cup {provider[c]},
                   rows |-> Live.rows \cup {c},
                   tok |-> IF c = OAuth THEN newest + 1 ELSE Live.tok]
<1>1. Types
  BY DEF IInv, TypeOK, Types
<1>2. newest' \in 0..MaxTokens /\ new \in Content
  BY <1>1, LiveOK DEF Types, Import, Content
<1>3. CommitCopy(snap, new, LiveBans)
  BY DEF Import
<1> HIDE DEF new
<1>4. /\ gen' \in Gens /\ gen <= gen'
      /\ snap' \in [Gens -> Snapshot] /\ bans' \in [Gens -> SUBSET Leaves]
      /\ \A g \in 0..gen : snap'[g].content = snap[g].content
  <2> DEFINE copied == LiveBans
  <2>1. /\ snap \in [Gens -> Snapshot] /\ gen \in Gens
        /\ copied \in SUBSET Leaves /\ CommitCopy(snap, new, copied)
    BY <1>1, <1>3, LiveOK DEF Types
  <2> HIDE DEF copied
  <2>2. /\ gen + 1 \in Gens /\ gen' = gen + 1
        /\ snap' \in [Gens -> Snapshot] /\ bans' \in [Gens -> SUBSET Leaves]
        /\ \A g \in 0..gen : snap'[g].content = snap[g].content
    BY <1>1, <1>2, <2>1, CommitCopyOK
  <2> QED
    BY <2>1, <2>2
<1>5. Types' /\ SnapshotsKept /\ UNCHANGED <<frame, queue>>
  BY <1>1, <1>2, <1>4 DEF Types, SnapshotsKept, Import
<1> QED
  BY <1>4, <1>5, WriterStep

LEMMA JobStep ==
    ASSUME IInv, NEW j \in Jobs, JobStart(j) \/ JobCommit(j) \/ JobGivesUp(j)
    PROVE  IInv'
<1>1. Types /\ EmptyCopy \in Copy
  BY DEF IInv, TypeOK, Types, EmptyCopy, EmptyContent, Copy, Content
<1>2. CASE JobStart(j)
  <2>1. job' \in [Jobs -> Copy]
    BY <1>1, <1>2, LiveOK DEF JobStart, Types, Copy
  <2>2. Types' /\ SnapshotsKept /\ gen <= gen' /\ UNCHANGED <<frame, queue>>
    BY <1>1, <1>2, <2>1 DEF Types, SnapshotsKept, JobStart
  <2> QED
    BY <2>2, WriterStep
<1>3. CASE JobCommit(j)
  <2>1. job[j].content \in Content /\ job[j].bans \in SUBSET Leaves
    BY <1>1 DEF Types, Copy
  <2>2. CommitCopy(snap, job[j].content, job[j].bans)
    BY <1>3 DEF JobCommit
  <2>3. /\ gen' \in Gens /\ gen <= gen'
        /\ snap' \in [Gens -> Snapshot] /\ bans' \in [Gens -> SUBSET Leaves]
        /\ \A g \in 0..gen : snap'[g].content = snap[g].content
    <3>1. snap \in [Gens -> Snapshot] /\ gen \in Gens
      BY <1>1 DEF Types
    <3> DEFINE base == snap
               new == job[j].content
               copied == job[j].bans
    <3>2. CommitCopy(base, new, copied) /\ new \in Content /\ copied \in SUBSET Leaves
      BY <2>1, <2>2
    <3> HIDE DEF new, copied
    <3>3. /\ gen + 1 \in Gens /\ gen' = gen + 1
          /\ snap' \in [Gens -> Snapshot] /\ bans' \in [Gens -> SUBSET Leaves]
          /\ \A g \in 0..gen : snap'[g].content = snap[g].content
      BY <1>1, <3>1, <3>2, CommitCopyOK
    <3> QED
      BY <3>1, <3>3
  <2>4. Types' /\ SnapshotsKept /\ UNCHANGED <<frame, queue>>
    BY <1>1, <1>3, <2>3 DEF Types, SnapshotsKept, JobCommit
  <2> QED
    BY <2>3, <2>4, WriterStep
<1>4. CASE JobGivesUp(j)
  <2>1. Types' /\ SnapshotsKept /\ gen <= gen' /\ UNCHANGED <<frame, queue>>
    BY <1>1, <1>4 DEF Types, SnapshotsKept, JobGivesUp
  <2> QED
    BY <2>1, WriterStep
<1> QED
  BY <1>2, <1>3, <1>4

LEMMA TabLoadStep ==
    ASSUME IInv, NEW t \in Tabs, TabLoad(t)
    PROVE  IInv'
<1>1. Types
  BY DEF IInv, TypeOK, Types
<1>2. tab' \in [Tabs -> Copy]
  BY <1>1, LiveOK DEF TabLoad, Types, Copy
<1>3. Types' /\ SnapshotsKept /\ gen <= gen' /\ UNCHANGED <<frame, queue>>
  BY <1>1, <1>2 DEF Types, SnapshotsKept, TabLoad
<1> QED
  BY <1>3, WriterStep

\* What a tab posts and what the guard makes of it are views.
LEMMA MergedIsContent ==
    ASSUME Types, NEW held \in Content, NEW deleted
    PROVE  /\ Without(held, deleted) \in Content
           /\ Merged(Without(held, deleted), deleted) \in Content
<1> DEFINE body == Without(held, deleted)
<1>1. body \in Content
  BY DEF Without, Content
<1> HIDE DEF body
<1>2. Merged(body, deleted) \in Content
  BY <1>1, LiveOK DEF Merged, Content
<1> QED
  BY <1>1, <1>2 DEF body

LEMMA TabSaveStep ==
    ASSUME IInv, NEW t \in Tabs, NEW deleted, TabSave(t, deleted)
    PROVE  IInv'
<1> DEFINE body == Without(tab[t].content, deleted)
           merged == Merged(body, deleted)
           borrowed == OAuth \in merged.rows \ body.rows
<1>1. Types /\ tab[t].content \in Content
  BY DEF IInv, TypeOK, Types, Copy
<1>2. body \in Content /\ merged \in Content
  BY <1>1, MergedIsContent
<1>3. /\ Commit(snap, merged, borrowed, deleted, snap[gen].dict)
      /\ UNCHANGED bans
      /\ tab' = [tab EXCEPT ![t].content = body]
      /\ gone' \subseteq gone \cup Conns
      /\ UNCHANGED <<frame, queue, job, newest>>
  BY DEF TabSave, SavedBans
<1> HIDE DEF body, merged
<1>4. /\ gen' \in Gens /\ gen <= gen'
      /\ snap' \in [Gens -> Snapshot]
      /\ \A g \in 0..gen : snap'[g].content = snap[g].content
  <2>1. /\ snap \in [Gens -> Snapshot] /\ gen \in Gens
        /\ snap[gen].dict \in Gens /\ borrowed \in BOOLEAN
    BY <1>1, LiveOK DEF Types
  <2> DEFINE dict == snap[gen].dict
  <2>2. dict \in Gens /\ Commit(snap, merged, borrowed, deleted, dict)
    BY <1>3, <2>1
  <2> HIDE DEF borrowed, dict
  <2>3. /\ gen + 1 \in Gens /\ gen' = gen + 1
        /\ snap' \in [Gens -> Snapshot]
        /\ \A g \in 0..gen : snap'[g].content = snap[g].content
    BY <1>1, <1>2, <2>1, <2>2, CommitOK
  <2> QED
    BY <2>1, <2>3
<1>5. Types' /\ SnapshotsKept
  BY <1>1, <1>2, <1>3, <1>4 DEF Types, SnapshotsKept, Copy
<1> QED
  BY <1>3, <1>4, <1>5, WriterStep

-----------------------------------------------------------------------------
(* The steps of a request.                                                 *)

LEMMA FrameOK ==
    ASSUME Types, NEW r \in Requests
    PROVE  /\ frame[r] \in Frame /\ At(r) \in Snapshot
           /\ Read(r) \in Secret /\ IdleFrame \in Frame
<1>1. frame[r] \in Frame
  BY DEF Types
<1>2. At(r) \in Snapshot
  BY <1>1 DEF Types, At, Frame
<1>3. Read(r) \in Secret
  BY <1>2 DEF Read, Snapshot, Content, Secret
<1>4. IdleFrame \in Frame
  BY DEF IdleFrame, NoSecret, Phases, Frame, Secret
<1> QED
  BY <1>1, <1>2, <1>3, <1>4

\* A step of a request that stands in no line before and after.
LEMMA FreeStep ==
    ASSUME IInv, NEW r \in Requests, Types', gen <= gen', SnapshotsKept,
           UNCHANGED queue,
           \A q \in Requests \ {r} : frame'[q] = frame[q],
           frame[r].phase \in {"idle", "run"},
           frame'[r].phase \in {"idle", "run"}, frame'[r].gen <= gen'
    PROVE  IInv'
<1>0. gen \in Gens /\ gen' \in Gens
  BY DEF Types, IInv, TypeOK
<1>1. LineOK'
  <2>1. ASSUME NEW q \in Requests
        PROVE  frame'[q].phase \in {"wait", "refresh"}
                 <=> \E i \in 1..Len(queue) : queue[i] = q
    BY DEF IInv, TypeOK, LineOK
  <2>2. \A i, j \in 1..Len(queue) : queue[i] = queue[j] => i = j
    BY DEF IInv, TypeOK, LineOK
  <2> QED
    BY <2>1, <2>2 DEF LineOK
<1>2. \A q \in Requests : frame[q].gen \in 0..gen
  BY DEF IInv, TypeOK, Standing, Frame
<1>3. Standing'
  <2> SUFFICES ASSUME NEW q \in Requests
               PROVE  /\ frame'[q].gen <= gen'
                      /\ frame'[q].phase \in {"wait", "refresh"} =>
                           OAuth \in (At(q).content.rows)'
    BY DEF Standing
  <2>1. frame'[q].gen <= gen'
    BY <1>0, <1>2
  <2>2. ASSUME frame'[q].phase \in {"wait", "refresh"}
        PROVE  OAuth \in (At(q).content.rows)'
    BY <1>2, <2>2 DEF IInv, Standing, SnapshotsKept, At
  <2> QED
    BY <2>1, <2>2
<1>4. RefreshIsCurrent'
  BY <1>2 DEF IInv, Standing, RefreshIsCurrent, SnapshotsKept, At, HoldsLock
<1> QED
  BY <1>1, <1>3, <1>4 DEF IInv, TypeOK, Types

LEMMA BeginStep ==
    ASSUME IInv, NEW r \in Requests, Begin(r)
    PROVE  IInv'
<1>1. Types
  BY DEF IInv, TypeOK, Types
<1>2. /\ frame' \in [Requests -> Frame]
      /\ frame'[r].phase = "run" /\ frame'[r].gen = gen
  BY <1>1, FrameOK DEF Begin, Types, Frame, IdleFrame, Phases
<1>3. Types' /\ SnapshotsKept /\ gen' = gen
  BY <1>1, <1>2 DEF Types, Begin, SnapshotsKept
<1>4. /\ \A q \in Requests \ {r} : frame'[q] = frame[q]
      /\ frame[r].phase = "idle" /\ UNCHANGED queue /\ gen \in Gens
  BY <1>1 DEF Begin, Types
<1> QED
  BY <1>2, <1>3, <1>4, FreeStep

LEMMA LeaveOK ==
    ASSUME Types, NEW r \in Requests, Leave(r)
    PROVE  /\ frame' \in [Requests -> Frame]
           /\ frame'[r].phase = "idle" /\ frame'[r].gen = 0
           /\ \A q \in Requests \ {r} : frame'[q] = frame[q]
BY FrameOK DEF Leave, Types, IdleFrame

LEMMA EndStep ==
    ASSUME IInv, NEW r \in Requests, NEW banned \in SUBSET Leaves, End(r, banned)
    PROVE  IInv'
<1>1. Types /\ Leave(r)
  BY DEF IInv, TypeOK, Types, End
<1>2. bans' \in [Gens -> SUBSET Leaves]
  BY <1>1 DEF End, Types
<1>3. Types' /\ SnapshotsKept /\ gen' = gen
  BY <1>1, <1>2, LeaveOK DEF Types, End, SnapshotsKept
<1>4. frame[r].phase = "run" /\ UNCHANGED queue /\ gen \in Gens
  BY <1>1 DEF End, Types
<1> QED
  BY <1>1, <1>3, <1>4, LeaveOK, FreeStep

LEMMA DisableStep ==
    ASSUME IInv, NEW r \in Requests, NEW l \in Leaves, Disable(r, l)
    PROVE  IInv'
<1> DEFINE g == frame[r].gen
           new == snap[g].content
           full == Restored(new, None)
           base == [snap EXCEPT ![g].content = full, ![g].sealed = TRUE]
           dict == snap[g].dict
<1>1. /\ Types /\ Leave(r) /\ snap \in [Gens -> Snapshot] /\ gen \in Gens
      /\ g \in Gens /\ g <= gen /\ snap[g] \in Snapshot
  BY FrameOK DEF IInv, TypeOK, Types, Frame, Standing, Disable
<1>2. new \in Content /\ dict \in Gens
  BY <1>1 DEF Snapshot
<1>3. /\ full \in Content /\ new.rows \subseteq full.rows
      /\ OAuth \in new.rows => full.tok = new.tok
  BY <1>1, <1>2, RestoredIsContent
<1>4. /\ Commit(base, new, FALSE, None, dict)
      /\ bans' = [bans EXCEPT ![dict] = @ \cup {l}]
      /\ UNCHANGED <<queue, tab, job, newest, gone>>
      /\ frame[r].phase = "run"
  BY DEF Disable, At
<1> HIDE DEF full
<1>5. /\ base \in [Gens -> Snapshot]
      /\ \A h \in Gens : base[h].content = IF h = g THEN full ELSE snap[h].content
  BY <1>1, <1>3 DEF Snapshot
<1>6. bans' \in [Gens -> SUBSET Leaves]
  BY <1>1, <1>2, <1>4 DEF Types
<1> HIDE DEF base, dict
<1>7. /\ gen' = gen + 1 /\ gen' \in Gens /\ snap' \in [Gens -> Snapshot]
      /\ \A h \in 0..gen : snap'[h].content = base[h].content
  BY <1>1, <1>2, <1>4, <1>5, CommitOK
<1>8. SnapshotsKept
  <2> SUFFICES ASSUME NEW h \in 0..gen, OAuth \in snap[h].content.rows
               PROVE  /\ OAuth \in snap'[h].content.rows
                      /\ snap'[h].content.tok = snap[h].content.tok
    BY DEF SnapshotsKept
  <2>1. h \in Gens /\ snap'[h].content = base[h].content
    BY <1>1, <1>7 DEF Gens
  <2>2. base[h].content = IF h = g THEN full ELSE snap[h].content
    BY <1>5, <2>1
  <2>3. CASE h = g
    BY <1>3, <2>1, <2>2, <2>3
  <2>4. CASE h # g
    BY <2>1, <2>2, <2>4
  <2> QED
    BY <2>3, <2>4
<1>9. Types'
  BY <1>1, <1>4, <1>6, <1>7, LeaveOK DEF Types
<1> QED
  BY <1>1, <1>4, <1>7, <1>8, <1>9, LeaveOK, FreeStep

\* A request joins the line at its end.
LEMMA AppendOK ==
    ASSUME queue \in Seq(Requests), NEW r \in Requests,
           \A i, j \in 1..Len(queue) : queue[i] = queue[j] => i = j,
           \A i \in 1..Len(queue) : queue[i] # r
    PROVE  /\ Append(queue, r) \in Seq(Requests)
           /\ \A i, j \in 1..Len(Append(queue, r)) :
                Append(queue, r)[i] = Append(queue, r)[j] => i = j
           /\ \A q \in Requests :
                (\E i \in 1..Len(Append(queue, r)) : Append(queue, r)[i] = q)
                  <=> q = r \/ \E i \in 1..Len(queue) : queue[i] = q
           /\ Append(queue, r) # <<>>
           /\ queue # <<>> => Head(Append(queue, r)) = Head(queue)
<1> DEFINE n == Len(queue)
           longer == Append(queue, r)
<1>1. /\ n \in Nat /\ longer \in Seq(Requests) /\ Len(longer) = n + 1
      /\ longer[n + 1] = r
      /\ \A i \in 1..n : longer[i] = queue[i] /\ longer[i] # r
  OBVIOUS
<1>2. ASSUME NEW i \in 1..(n + 1), NEW j \in 1..(n + 1), longer[i] = longer[j]
      PROVE  i = j
  <2>1. CASE i = n + 1 /\ j = n + 1
    BY <2>1
  <2>2. CASE i \in 1..n /\ j \in 1..n
    BY <1>1, <1>2, <2>2
  <2>3. CASE i = n + 1 /\ j \in 1..n
    BY <1>1, <1>2, <2>3
  <2>4. CASE i \in 1..n /\ j = n + 1
    BY <1>1, <1>2, <2>4
  <2> QED
    BY <1>1, <2>1, <2>2, <2>3, <2>4
<1>3. ASSUME NEW q \in Requests
      PROVE  (\E i \in 1..(n + 1) : longer[i] = q) <=> q = r \/ \E i \in 1..n : queue[i] = q
  <2>1. \A i \in 1..(n + 1) : i \in 1..n \/ i = n + 1
    BY <1>1
  <2>2. n + 1 \in 1..(n + 1) /\ \A i \in 1..n : i \in 1..(n + 1)
    BY <1>1
  <2> QED
    BY <1>1, <2>1, <2>2
<1>4. queue # <<>> => Head(longer) = Head(queue)
  BY <1>1
<1> QED
  BY <1>1, <1>2, <1>3, <1>4

\* Only the head of the line refreshes.
LEMMA OneRefresh ==
    ASSUME IInv, NEW r \in Requests, HoldsLock(r)
    PROVE  \A q \in Requests \ {r} : frame[q].phase # "refresh"
BY DEF IInv, RefreshIsCurrent, HoldsLock

\* The request that holds the lock is done with it.
LEMMA ReleaseStep ==
    ASSUME IInv, NEW r \in Requests, HoldsLock(r), Released, Types', gen <= gen',
           \A g \in 0..gen : OAuth \in snap[g].content.rows =>
                                OAuth \in (snap[g].content.rows)',
           \A q \in Requests \ {r} : frame'[q] = frame[q],
           frame'[r].phase = "run", frame'[r].gen = frame[r].gen
    PROVE  IInv'
<1>1. /\ gen \in Gens /\ gen' \in Gens /\ queue \in Seq(Requests) /\ queue # <<>>
      /\ Head(queue) = r
      /\ \A i, j \in 1..Len(queue) : queue[i] = queue[j] => i = j
      /\ \A q \in Requests : frame[q].phase \in {"wait", "refresh"}
                                <=> \E i \in 1..Len(queue) : queue[i] = q
  BY DEF IInv, TypeOK, LineOK, HoldsLock, Types
<1>2. LineOK'
  <2>1. ASSUME NEW q \in Requests
        PROVE  frame'[q].phase \in {"wait", "refresh"}
                 <=> \E i \in 1..Len(Tail(queue)) : Tail(queue)[i] = q
    BY <1>1, TailOK
  <2> QED
    BY <1>1, <2>1, TailOK DEF LineOK, Released
<1>3. \A q \in Requests : frame[q].gen \in 0..gen
  BY <1>1 DEF IInv, TypeOK, Standing, Frame
<1>4. Standing'
  <2> SUFFICES ASSUME NEW q \in Requests
               PROVE  /\ frame'[q].gen <= gen'
                      /\ frame'[q].phase \in {"wait", "refresh"} =>
                           OAuth \in (At(q).content.rows)'
    BY DEF Standing
  <2>1. frame'[q].gen <= gen'
    BY <1>1, <1>3
  <2>2. ASSUME frame'[q].phase \in {"wait", "refresh"}
        PROVE  OAuth \in (At(q).content.rows)'
    BY <1>3, <2>2 DEF IInv, Standing, At
  <2> QED
    BY <2>1, <2>2
<1>5. RefreshIsCurrent'
  BY OneRefresh DEF RefreshIsCurrent
<1> QED
  BY <1>2, <1>4, <1>5 DEF IInv, TypeOK, Types

LEMMA NeedTokenStep ==
    ASSUME IInv, NEW r \in Requests, NeedToken(r)
    PROVE  IInv'
<1>1. /\ Types /\ frame[r].phase = "run" /\ OAuth \in At(r).content.rows
      /\ queue \in Seq(Requests)
      /\ \A i, j \in 1..Len(queue) : queue[i] = queue[j] => i = j
      /\ \A q \in Requests : frame[q].phase \in {"wait", "refresh"}
                                <=> \E i \in 1..Len(queue) : queue[i] = q
      /\ queue' = Append(queue, r)
      /\ UNCHANGED <<gen, snap, bans, tab, job, newest, gone>>
  BY DEF IInv, TypeOK, Types, LineOK, NeedToken
<1>2. \A i \in 1..Len(queue) : queue[i] # r
  BY <1>1
<1>3. /\ frame' \in [Requests -> Frame]
      /\ frame'[r].phase = "wait" /\ frame'[r].gen = frame[r].gen
      /\ \A q \in Requests \ {r} : frame'[q] = frame[q]
  <2>1. /\ frame \in [Requests -> Frame]
        /\ [frame[r] EXCEPT !.phase = "wait", !.stored = Read(r)] \in Frame
    <3>1. frame[r] \in Frame /\ Read(r) \in Secret
      BY <1>1, FrameOK
    <3>2. [frame[r] EXCEPT !.phase = "wait", !.stored = Read(r)] \in Frame
      BY <3>1 DEF Frame, Phases
    <3> QED
      BY <1>1, <3>2 DEF Types
  <2>2. frame' = [frame EXCEPT ![r] = [frame[r] EXCEPT !.phase = "wait", !.stored = Read(r)]]
    BY <2>1 DEF NeedToken
  <2> QED
    BY <2>1, <2>2 DEF Frame
<1>4. Types'
  BY <1>1, <1>2, <1>3, AppendOK DEF Types
<1>5. LineOK'
  <2>1. ASSUME NEW q \in Requests
        PROVE  frame'[q].phase \in {"wait", "refresh"}
                 <=> \E i \in 1..Len(queue') : queue'[i] = q
    BY <1>1, <1>2, <1>3, AppendOK
  <2>2. \A i, j \in 1..Len(queue') : queue'[i] = queue'[j] => i = j
    BY <1>1, <1>2, AppendOK
  <2> QED
    BY <2>1, <2>2 DEF LineOK
<1>6. Standing'
  BY <1>1, <1>3 DEF IInv, Standing, At
<1>7. RefreshIsCurrent'
  <2> SUFFICES ASSUME NEW q \in Requests, frame'[q].phase = "refresh"
               PROVE  HoldsLock(q)' /\ frame'[q].stored.tok = (At(q).content.tok)'
    BY DEF RefreshIsCurrent
  <2>1. q # r /\ frame'[q] = frame[q] /\ frame[q].phase = "refresh"
    BY <1>3
  <2>2. HoldsLock(q) /\ frame[q].stored.tok = At(q).content.tok
    BY <2>1 DEF IInv, RefreshIsCurrent
  <2>3. queue' # <<>> /\ Head(queue') = Head(queue)
    BY <1>1, <1>2, <2>2, AppendOK DEF HoldsLock
  <2> QED
    BY <1>1, <2>1, <2>2, <2>3 DEF HoldsLock, At
<1> QED
  BY <1>4, <1>5, <1>6, <1>7 DEF IInv, TypeOK, Types

LEMMA CoalesceStep ==
    ASSUME IInv, NEW r \in Requests, Coalesce(r)
    PROVE  IInv'
<1>1. /\ Types /\ HoldsLock(r) /\ Released /\ queue \in Seq(Requests) /\ queue # <<>>
      /\ \A i, j \in 1..Len(queue) : queue[i] = queue[j] => i = j
      /\ UNCHANGED <<gen, snap, bans, tab, job, newest, gone>>
  BY DEF IInv, TypeOK, Types, LineOK, Coalesce, HoldsLock
<1>2. /\ frame' \in [Requests -> Frame]
      /\ frame'[r].phase = "run" /\ frame'[r].gen = frame[r].gen
      /\ \A q \in Requests \ {r} : frame'[q] = frame[q]
  <2>1. /\ frame \in [Requests -> Frame]
        /\ [frame[r] EXCEPT !.phase = "run", !.got = Read(r)] \in Frame
    BY <1>1, FrameOK DEF Frame, Phases, Types
  <2>2. frame' = [frame EXCEPT ![r] = [frame[r] EXCEPT !.phase = "run", !.got = Read(r)]]
    BY <2>1 DEF Coalesce
  <2> QED
    BY <2>1, <2>2 DEF Frame
<1>3. Types'
  BY <1>1, <1>2, TailOK DEF Types, Released
<1>4. gen \in Gens
  BY <1>1 DEF Types
<1> QED
  BY <1>1, <1>2, <1>3, <1>4, ReleaseStep

LEMMA RefreshFailsStep ==
    ASSUME IInv, NEW r \in Requests, RefreshFails(r)
    PROVE  IInv'
<1>1. /\ Types /\ HoldsLock(r) /\ Released /\ queue \in Seq(Requests) /\ queue # <<>>
      /\ \A i, j \in 1..Len(queue) : queue[i] = queue[j] => i = j
      /\ UNCHANGED <<gen, snap, bans, tab, job, newest, gone>>
  BY DEF IInv, TypeOK, Types, LineOK, RefreshFails, HoldsLock, RefreshIsCurrent
<1>2. /\ frame' \in [Requests -> Frame]
      /\ frame'[r].phase = "run" /\ frame'[r].gen = frame[r].gen
      /\ \A q \in Requests \ {r} : frame'[q] = frame[q]
  <2>1. frame[r] \in Frame /\ frame[r].stored \in Secret
    BY <1>1, FrameOK DEF Frame
  <2>2. frame' = [frame EXCEPT ![r] = [frame[r] EXCEPT !.phase = "run", !.got = frame[r].stored]]
    BY <1>1 DEF RefreshFails, Types
  <2>3. [frame[r] EXCEPT !.phase = "run", !.got = frame[r].stored] \in Frame
    BY <2>1 DEF Frame, Phases
  <2>4. frame \in [Requests -> Frame]
    BY <1>1 DEF Types
  <2> QED
    BY <2>1, <2>2, <2>3, <2>4 DEF Frame
<1>3. Types'
  BY <1>1, <1>2, TailOK DEF Types, Released
<1>4. gen \in Gens
  BY <1>1 DEF Types
<1> QED
  BY <1>1, <1>2, <1>3, <1>4, ReleaseStep

LEMMA SendRefreshStep ==
    ASSUME IInv, NEW r \in Requests, SendRefresh(r)
    PROVE  IInv'
<1>1. /\ Types /\ HoldsLock(r) /\ frame[r].phase = "wait" /\ frame[r].stored = Read(r)
      /\ UNCHANGED <<gen, snap, bans, queue, tab, job, newest, gone>>
  BY DEF IInv, TypeOK, Types, SendRefresh, Coalesced
<1>2. /\ frame' \in [Requests -> Frame]
      /\ frame'[r].phase = "refresh" /\ frame'[r].gen = frame[r].gen
      /\ frame'[r].stored = frame[r].stored
      /\ \A q \in Requests \ {r} : frame'[q] = frame[q]
  BY <1>1, FrameOK DEF SendRefresh, Types, Frame, Phases
<1>3. Types'
  BY <1>1, <1>2 DEF Types
<1>4. LineOK'
  <2>1. \A q \in Requests : frame'[q].phase \in {"wait", "refresh"}
                               <=> frame[q].phase \in {"wait", "refresh"}
    BY <1>1, <1>2
  <2> QED
    BY <1>1, <2>1 DEF IInv, TypeOK, LineOK
<1>5. Standing'
  BY <1>1, <1>2 DEF IInv, Standing, At
<1>6. RefreshIsCurrent'
  <2>1. frame'[r].stored.tok = (At(r).content.tok)' /\ HoldsLock(r)'
    BY <1>1, <1>2 DEF Read, At, HoldsLock
  <2> QED
    BY <1>2, <2>1, <1>1, OneRefresh DEF RefreshIsCurrent
<1> QED
  BY <1>3, <1>4, <1>5, <1>6 DEF IInv, TypeOK, Types

LEMMA RefreshedStep ==
    ASSUME IInv, NEW r \in Requests, NEW saved \in BOOLEAN, Refreshed(r, saved)
    PROVE  IInv'
<1> DEFINE g == frame[r].gen
           base == [snap EXCEPT ![g].content.tok = newest + 1, ![g].sealed = FALSE]
           live == [Live EXCEPT !.tok = newest + 1]
           copied == LiveBans
           commits == saved /\ OAuth \in Live.rows
<1>1. /\ Types /\ HoldsLock(r) /\ Released /\ queue \in Seq(Requests) /\ queue # <<>>
      /\ \A i, j \in 1..Len(queue) : queue[i] = queue[j] => i = j
      /\ UNCHANGED <<tab, job, gone>>
      /\ newest' = newest + 1 /\ newest + 1 \in 0..MaxTokens
      /\ gen \in Gens /\ snap \in [Gens -> Snapshot] /\ bans \in [Gens -> SUBSET Leaves]
  BY DEF IInv, TypeOK, Types, LineOK, Refreshed, HoldsLock, RefreshIsCurrent, Honoured
<1>2. g \in Gens /\ snap[g] \in Snapshot
  BY <1>1, FrameOK DEF Frame
<1>3. /\ base \in [Gens -> Snapshot]
      /\ \A h \in Gens : base[h].content.rows = snap[h].content.rows
  <2>1. [snap[g] EXCEPT !.content.tok = newest + 1, !.sealed = FALSE] \in Snapshot
    BY <1>1, <1>2 DEF Snapshot, Content
  <2>2. [snap[g] EXCEPT !.content.tok = newest + 1, !.sealed = FALSE].content.rows
          = snap[g].content.rows
    BY <1>2 DEF Snapshot, Content
  <2>3. base = [snap EXCEPT ![g] = [snap[g] EXCEPT !.content.tok = newest + 1,
                                                   !.sealed = FALSE]]
    BY <1>1, <1>2
  <2> HIDE DEF base
  <2> QED
    BY <1>1, <1>2, <2>1, <2>2, <2>3
<1>4. live \in Content /\ copied \in SUBSET Leaves
  BY <1>1, LiveOK DEF Content
<1>5. /\ frame' \in [Requests -> Frame]
      /\ frame'[r].phase = "run" /\ frame'[r].gen = frame[r].gen
      /\ \A q \in Requests \ {r} : frame'[q] = frame[q]
  BY <1>1, FrameOK DEF Refreshed, Types, Frame, Phases, Secret
<1>6. IF commits THEN CommitCopy(base, live, copied)
      ELSE snap' = base /\ UNCHANGED <<gen, bans>>
  BY DEF Refreshed
<1> HIDE DEF base, live, copied, commits
<1>7. /\ gen' \in Gens /\ gen <= gen' /\ snap' \in [Gens -> Snapshot]
      /\ bans' \in [Gens -> SUBSET Leaves]
      /\ \A h \in 0..gen : snap'[h].content.rows = snap[h].content.rows
  <2>1. CASE commits
    <3>1. CommitCopy(base, live, copied)
      BY <1>6, <2>1
    <3>2. /\ gen + 1 \in Gens /\ gen' = gen + 1
          /\ snap' \in [Gens -> Snapshot] /\ bans' \in [Gens -> SUBSET Leaves]
          /\ \A h \in 0..gen : snap'[h].content = base[h].content
      BY <1>1, <1>3, <1>4, <3>1, CommitCopyOK
    <3> QED
      BY <1>1, <1>3, <3>2
  <2>2. CASE ~commits
    <3>1. snap' = base /\ gen' = gen /\ bans' = bans
      BY <1>6, <2>2
    <3> QED
      BY <1>1, <1>3, <3>1
  <2> QED
    BY <2>1, <2>2
<1>8. Types'
  BY <1>1, <1>5, <1>7, TailOK DEF Types, Released
<1> QED
  BY <1>1, <1>5, <1>7, <1>8, ReleaseStep

LEMMA CancelStep ==
    ASSUME IInv, NEW r \in Requests, Cancel(r)
    PROVE  IInv'
<1>1. /\ Types /\ Leave(r) /\ queue \in Seq(Requests)
      /\ \A i, j \in 1..Len(queue) : queue[i] = queue[j] => i = j
      /\ \A q \in Requests : frame[q].phase \in {"wait", "refresh"}
                                <=> \E i \in 1..Len(queue) : queue[i] = q
      /\ newest' \in 0..MaxTokens
      /\ UNCHANGED <<gen, snap, bans, tab, job, gone>>
  BY DEF IInv, TypeOK, Types, LineOK, Cancel, Honoured
<1>2. PICK k \in 1..Len(queue) : queue[k] = r /\ queue' = Dropped(k)
  BY DEF Cancel
<1>3. Types'
  BY <1>1, <1>2, LeaveOK, DroppedOK DEF Types
<1>4. LineOK'
  <2>1. ASSUME NEW q \in Requests
        PROVE  frame'[q].phase \in {"wait", "refresh"}
                 <=> \E i \in 1..Len(Dropped(k)) : Dropped(k)[i] = q
    <3>1. (\E i \in 1..Len(Dropped(k)) : Dropped(k)[i] = q)
            <=> q # r /\ \E i \in 1..Len(queue) : queue[i] = q
      BY <1>1, <1>2, DroppedOK
    <3>2. frame'[r].phase = "idle" /\ (q # r => frame'[q] = frame[q])
      BY <1>1, LeaveOK
    <3> QED
      BY <1>1, <3>1, <3>2
  <2> QED
    BY <1>1, <1>2, <2>1, DroppedOK DEF LineOK
<1>5. Standing'
  <2>1. /\ frame'[r].phase = "idle" /\ frame'[r].gen = 0 /\ gen \in Nat
        /\ \A q \in Requests \ {r} : frame'[q] = frame[q]
    BY <1>1, LeaveOK DEF Types
  <2> QED
    BY <1>1, <2>1 DEF IInv, Standing, At
<1>6. RefreshIsCurrent'
  <2> SUFFICES ASSUME NEW q \in Requests, frame'[q].phase = "refresh"
               PROVE  HoldsLock(q)' /\ frame'[q].stored.tok = (At(q).content.tok)'
    BY DEF RefreshIsCurrent
  <2>1. q # r /\ frame'[q] = frame[q] /\ frame[q].phase = "refresh"
    BY <1>1, LeaveOK
  <2>2. HoldsLock(q) /\ frame[q].stored.tok = At(q).content.tok
    BY <2>1 DEF IInv, RefreshIsCurrent
  <2>3. k # 1
    BY <1>1, <1>2, <2>1, <2>2 DEF HoldsLock
  <2>4. queue' # <<>> /\ Head(queue') = Head(queue)
    BY <1>1, <1>2, <2>3, DroppedOK
  <2> QED
    BY <1>1, <2>1, <2>2, <2>4 DEF HoldsLock, At
<1> QED
  BY <1>3, <1>4, <1>5, <1>6 DEF IInv, TypeOK, Types

-----------------------------------------------------------------------------
(* The inductive invariant.                                                *)

LEMMA InitInv == Init => IInv
<1> SUFFICES ASSUME Init PROVE IInv
  OBVIOUS
<1>1. /\ EmptyContent \in Content /\ EmptyCopy \in Copy /\ IdleFrame \in Frame
      /\ [provs |-> {provider[c] : c \in InitRows}, rows |-> InitRows, tok |-> 0] \in Content
  BY DEF EmptyContent, EmptyCopy, Content, Copy, IdleFrame, NoSecret, Frame, Secret, Phases
<1>2. snap \in [Gens -> Snapshot]
  <2> DEFINE first == [provs |-> {provider[c] : c \in InitRows}, rows |-> InitRows, tok |-> 0]
             at(g) == IF g = 0 THEN first ELSE EmptyContent
  <2>1. 0 \in Gens /\ \A g \in Gens : at(g) \in Content
    BY <1>1
  <2>2. snap = [g \in Gens |-> [content |-> at(g), sealed |-> FALSE, dict |-> 0]]
    BY DEF Init
  <2> HIDE DEF at
  <2> QED
    BY <2>1, <2>2 DEF Snapshot
<1>3. Types
  <2>1. gen \in Gens /\ newest \in 0..MaxTokens
    BY DEF Init
  <2>2. bans \in [Gens -> SUBSET Leaves] /\ gone \in SUBSET Conns
    BY DEF Init
  <2>3. frame \in [Requests -> Frame] /\ tab \in [Tabs -> Copy] /\ job \in [Jobs -> Copy]
    BY <1>1 DEF Init
  <2>4. queue \in Seq(Requests)
    BY DEF Init
  <2> QED
    BY <1>2, <2>1, <2>2, <2>3, <2>4 DEF Types
<1>4. \A r \in Requests : frame[r].phase = "idle" /\ frame[r].gen = 0
  BY DEF Init, IdleFrame
<1>5. LineOK
  BY <1>4 DEF Init, LineOK
<1>6. Standing /\ RefreshIsCurrent
  BY <1>4 DEF Init, Standing, RefreshIsCurrent
<1> QED
  BY <1>3, <1>5, <1>6 DEF IInv, TypeOK, Types

LEMMA NextInv == IInv /\ [Next]_vars => IInv'
<1> SUFFICES ASSUME IInv, [Next]_vars PROVE IInv'
  OBVIOUS
<1>1. ASSUME NEW r \in Requests, RequestStep(r) PROVE IInv'
  <2>1. CASE \E saved \in (IF DiskMayFail THEN BOOLEAN ELSE {TRUE}) : Refreshed(r, saved)
    BY <2>1, RefreshedStep
  <2>2. CASE \E banned \in SUBSET Leaves : End(r, banned)
    BY <2>2, EndStep
  <2>3. CASE \E l \in Leaves : Disable(r, l)
    BY <2>3, DisableStep
  <2> QED
    BY <1>1, <2>1, <2>2, <2>3, BeginStep, NeedTokenStep, CoalesceStep,
       SendRefreshStep, RefreshFailsStep, CancelStep DEF RequestStep
<1>2. CASE UNCHANGED vars
  <2>1. Types' /\ SnapshotsKept /\ UNCHANGED <<frame, queue>> /\ gen <= gen'
    BY <1>2 DEF vars, IInv, TypeOK, Types, SnapshotsKept
  <2> QED
    BY <2>1, WriterStep
<1> QED
  BY <1>1, <1>2, ImportStep, JobStep, TabLoadStep, TabSaveStep DEF Next

LEMMA Invariance == Spec => []IInv
BY InitInv, NextInv, PTL DEF Spec

\* Every variable keeps its type, and the line at the refresh lock is in order:
\* it holds the requests that wait or refresh, each once, whatever was
\* cancelled, failed or committed meanwhile.
THEOREM TypeCorrect == Spec => []TypeOK
<1>1. IInv => TypeOK
  BY DEF IInv
<1> QED
  BY <1>1, Invariance, PTL

\* A refresh in flight was sent by the holder of the lock with the token its
\* snapshot holds: the re-check in ensure_fresh_token is enough within a
\* snapshot, for any number of requests, commits and cancellations.
THEOREM RefreshTheorem == Spec => []RefreshIsCurrent
<1>1. IInv => RefreshIsCurrent
  BY DEF IInv
<1> QED
  BY <1>1, Invariance, PTL

-----------------------------------------------------------------------------
(* What commits keep.                                                      *)

\* The rows and entries of the live view that a commit of a view keeps.
LEMMA RestoredKeeps ==
    ASSUME Types, NEW new \in Content, NEW deleted
    PROVE  /\ new.rows \subseteq Restored(new, deleted).rows
           /\ \A p \in Live.provs \ Restored(new, deleted).provs :
                 p # deleted => RowsOf(Live.rows, p) = {}
           /\ \A p \in Live.provs \ Restored(new, deleted).provs : p \notin new.provs
BY DEF Restored

\* A commit that announces no deletion loses no provider that has rows.
LEMMA CommitKeepsProviders ==
    ASSUME Types, NEW new \in Content, Live' = Restored(new, None)
    PROVE  \A p \in Live.provs \ (Live.provs)' : RowsOf(Live.rows, p) = {}
<1>1. \A p \in Live.provs : p # None
  BY LiveOK, NoneAssumption DEF Content
<1> QED
  BY <1>1, RestoredKeeps

\* What a login, a refreshed token and a save put in place of the live view.
LEMMA ImportLive ==
    ASSUME IInv, NEW c \in Conns, Import(c)
    PROVE  \E new \in Content : Live.rows \subseteq new.rows /\ Live' = Restored(new, None)
<1> DEFINE new == [provs |-> Live.provs \cup {provider[c]},
                   rows |-> Live.rows \cup {c},
                   tok |-> IF c = OAuth THEN newest + 1 ELSE Live.tok]
           copied == LiveBans
<1>1. /\ Types /\ gen \in Gens /\ snap \in [Gens -> Snapshot]
      /\ Live \in Content /\ copied \in SUBSET Leaves
  BY LiveOK DEF IInv, TypeOK, Types
<1>2. newest + 1 \in 0..MaxTokens
  BY <1>1 DEF Types, Import
<1>3. new \in Content /\ Live.rows \subseteq new.rows
  BY <1>1, <1>2 DEF Content
<1>4. CommitCopy(snap, new, copied)
  BY DEF Import
<1> HIDE DEF new, copied
<1>5. Live' = Restored(new, None)
  BY <1>1, <1>3, <1>4, CommitCopyOK
<1> QED
  BY <1>3, <1>5

LEMMA RefreshedLive ==
    ASSUME IInv, NEW r \in Requests, NEW saved \in BOOLEAN, Refreshed(r, saved)
    PROVE  \/ \E new \in Content : Live.rows \subseteq new.rows /\ Live' = Restored(new, None)
           \/ (Live.provs)' = Live.provs /\ (Live.rows)' = Live.rows
<1> DEFINE g == frame[r].gen
           base == [snap EXCEPT ![g].content.tok = newest + 1, ![g].sealed = FALSE]
           live == [Live EXCEPT !.tok = newest + 1]
           copied == LiveBans
           commits == saved /\ OAuth \in Live.rows
<1>1. /\ Types /\ gen \in Gens /\ snap \in [Gens -> Snapshot]
      /\ Live \in Content /\ copied \in SUBSET Leaves
  BY LiveOK DEF IInv, TypeOK, Types
<1>2. newest + 1 \in 0..MaxTokens /\ g \in Gens /\ snap[g] \in Snapshot
  BY <1>1, FrameOK DEF Types, Refreshed, Honoured, Frame
<1>3. live \in Content /\ Live.rows \subseteq live.rows
  BY <1>1, <1>2 DEF Content
<1>4. /\ base \in [Gens -> Snapshot]
      /\ base[gen].content.provs = snap[gen].content.provs
      /\ base[gen].content.rows = snap[gen].content.rows
  <2> DEFINE mine == [snap[g] EXCEPT !.content.tok = newest + 1, !.sealed = FALSE]
  <2>1. /\ mine \in Snapshot
        /\ mine.content.provs = snap[g].content.provs
        /\ mine.content.rows = snap[g].content.rows
    BY <1>1, <1>2 DEF Snapshot, Content
  <2>2. base = [snap EXCEPT ![g] = mine]
    BY <1>1, <1>2
  <2> HIDE DEF base, mine
  <2> QED
    BY <1>1, <1>2, <2>1, <2>2
<1>5. IF commits THEN CommitCopy(base, live, copied)
      ELSE snap' = base /\ UNCHANGED <<gen, bans>>
  BY DEF Refreshed
<1> HIDE DEF base, live, copied, commits
<1>6. CASE commits
  <2>1. Live' = Restored(live, None)
    BY <1>1, <1>3, <1>4, <1>5, <1>6, CommitCopyOK
  <2> QED
    BY <1>3, <2>1
<1>7. CASE ~commits
  BY <1>4, <1>5, <1>7 DEF Live
<1> QED
  BY <1>6, <1>7

LEMMA TabSaveLive ==
    ASSUME IInv, NEW t \in Tabs, NEW deleted, TabSave(t, deleted)
    PROVE  \E new \in Content :
              /\ Live' = Restored(new, deleted)
              /\ Live.rows \ new.rows \subseteq gone'
              /\ RowsOf(Live.rows, deleted) \subseteq gone'
<1> DEFINE body == Without(tab[t].content, deleted)
           merged == Merged(body, deleted)
           borrowed == OAuth \in merged.rows \ body.rows
           dict == snap[gen].dict
<1>1. /\ Types /\ gen \in Gens /\ snap \in [Gens -> Snapshot] /\ Live \in Content
  BY LiveOK DEF IInv, TypeOK, Types
<1>2. merged \in Content
  BY <1>1, MergedIsContent DEF Types, Copy
<1>3. Commit(snap, merged, borrowed, deleted, dict)
  BY DEF TabSave, SavedBans
<1>4. borrowed \in BOOLEAN /\ dict \in Gens
  BY <1>1, LiveOK
<1>5. \A c \in Live.rows : c = deleted \/ provider[c] = deleted => c \in gone'
  BY <1>1 DEF TabSave, Content
<1>6. \A c \in Live.rows : c # deleted /\ provider[c] # deleted => c \in merged.rows
  BY DEF Merged
<1> HIDE DEF merged, borrowed, dict
<1>7. Live' = Restored(merged, deleted)
  BY <1>1, <1>2, <1>3, <1>4, CommitOK
<1>8. /\ Live.rows \ merged.rows \subseteq gone'
      /\ RowsOf(Live.rows, deleted) \subseteq gone'
  BY <1>5, <1>6 DEF RowsOf
<1> QED
  BY <1>2, <1>7, <1>8

LEMMA ProvidersStep ==
    ASSUME IInv, [Next]_vars
    PROVE  \A p \in Live.provs \ (Live.provs)' : RowsOf(Live.rows, p) \subseteq gone'
<1>1. Types
  BY DEF IInv, TypeOK, Types
<1>2. /\ gen \in Gens /\ snap \in [Gens -> Snapshot] /\ Live \in Content
      /\ LiveBans \in SUBSET Leaves
  BY <1>1, LiveOK DEF Types
<1>3. ASSUME UNCHANGED <<gen, snap>> PROVE Live' = Live
  BY <1>3 DEF Live
<1>4. ASSUME NEW c \in Conns, Import(c)
      PROVE  \A p \in Live.provs \ (Live.provs)' : RowsOf(Live.rows, p) = {}
  BY <1>1, <1>4, ImportLive, CommitKeepsProviders
<1>5. ASSUME NEW j \in Jobs, JobCommit(j)
      PROVE  \A p \in Live.provs \ (Live.provs)' : RowsOf(Live.rows, p) = {}
  <2> DEFINE new == job[j].content
             copied == job[j].bans
  <2>1. new \in Content /\ copied \in SUBSET Leaves
    BY <1>1 DEF Types, Copy
  <2>2. CommitCopy(snap, new, copied)
    BY <1>5 DEF JobCommit
  <2> HIDE DEF new, copied
  <2>3. Live' = Restored(new, None)
    BY <1>1, <1>2, <2>1, <2>2, CommitCopyOK
  <2> QED
    BY <1>1, <2>1, <2>3, CommitKeepsProviders
<1>6. ASSUME NEW r \in Requests, NEW saved \in BOOLEAN, Refreshed(r, saved)
      PROVE  \A p \in Live.provs \ (Live.provs)' : RowsOf(Live.rows, p) = {}
  BY <1>1, <1>6, RefreshedLive, CommitKeepsProviders
<1>7. ASSUME NEW r \in Requests, NEW l \in Leaves, Disable(r, l)
      PROVE  \A p \in Live.provs \ (Live.provs)' : RowsOf(Live.rows, p) = {}
  <2> DEFINE g == frame[r].gen
             new == snap[g].content
             full == Restored(new, None)
             base == [snap EXCEPT ![g].content = full, ![g].sealed = TRUE]
             dict == snap[g].dict
  <2>1. g \in Gens /\ snap[g] \in Snapshot /\ new \in Content /\ dict \in Gens
    BY <1>1, <1>2, FrameOK DEF Frame, Snapshot
  <2>2. full \in Content
    BY <1>1, <2>1, RestoredIsContent
  <2>3. Commit(base, new, FALSE, None, dict)
    BY <1>7 DEF Disable
  <2> HIDE DEF full
  <2>4. base \in [Gens -> Snapshot]
    BY <1>2, <2>1, <2>2 DEF Snapshot
  <2> HIDE DEF base, new, dict
  <2>5. Live' = Restored(new, None)
    BY <1>1, <2>1, <2>3, <2>4, CommitOK
  <2> QED
    BY <1>1, <2>1, <2>5, CommitKeepsProviders
<1>8. ASSUME NEW t \in Tabs, NEW deleted, TabSave(t, deleted)
      PROVE  \A p \in Live.provs \ (Live.provs)' : RowsOf(Live.rows, p) \subseteq gone'
  <2>1. PICK new \in Content : /\ Live' = Restored(new, deleted)
                               /\ RowsOf(Live.rows, deleted) \subseteq gone'
    BY <1>8, TabSaveLive
  <2>2. \A p \in Live.provs \ (Live.provs)' : p # deleted => RowsOf(Live.rows, p) = {}
    BY <1>1, <2>1, RestoredKeeps
  <2> QED
    BY <2>1, <2>2
<1>9. CASE UNCHANGED <<gen, snap>>
  BY <1>3, <1>9
<1> QED
  <2>1. CASE \E r \in Requests : RequestStep(r)
    BY <2>1, <1>6, <1>7, <1>9
       DEF RequestStep, Begin, NeedToken, Coalesce, SendRefresh, RefreshFails, Cancel, End
  <2>2. CASE UNCHANGED vars
    BY <2>2, <1>9 DEF vars
  <2>3. CASE \E j \in Jobs : JobStart(j) \/ JobCommit(j) \/ JobGivesUp(j)
    BY <2>3, <1>5, <1>9 DEF JobStart, JobGivesUp
  <2>4. CASE \E t \in Tabs : TabLoad(t)
    BY <2>4, <1>9 DEF TabLoad
  <2> QED
    BY <2>1, <2>2, <2>3, <2>4, <1>4, <1>8 DEF Next

\* Whatever is committed, by whom and from how old a view, a provider with
\* connections leaves the live view only when an administrator deletes it.
THEOREM ProvidersTheorem == Spec => ProvidersKept
<1>1. IInv /\ [Next]_vars =>
        [\A p \in Live.provs \ (Live.provs)' : RowsOf(Live.rows, p) \subseteq gone']_vars
  BY ProvidersStep
<1> QED
  BY <1>1, Invariance, PTL DEF Spec, ProvidersKept

LEMMA RowsStep ==
    ASSUME IInv, [Next]_vars
    PROVE  StaleCommit \/ Live.rows \ (Live.rows)' \subseteq gone'
<1>1. Types
  BY DEF IInv, TypeOK, Types
<1>2. ASSUME UNCHANGED <<gen, snap>> PROVE (Live.rows)' = Live.rows
  BY <1>2 DEF Live
<1>3. ASSUME NEW c \in Conns, Import(c) PROVE Live.rows \subseteq (Live.rows)'
  BY <1>1, <1>3, ImportLive, RestoredKeeps
<1>4. ASSUME NEW r \in Requests, NEW saved \in BOOLEAN, Refreshed(r, saved)
      PROVE  Live.rows \subseteq (Live.rows)'
  BY <1>1, <1>4, RefreshedLive, RestoredKeeps
<1>5. ASSUME NEW t \in Tabs, NEW deleted, TabSave(t, deleted)
      PROVE  Live.rows \ (Live.rows)' \subseteq gone'
  <2>1. PICK new \in Content : /\ Live' = Restored(new, deleted)
                               /\ Live.rows \ new.rows \subseteq gone'
    BY <1>5, TabSaveLive
  <2> QED
    BY <1>1, <2>1, RestoredKeeps
<1> QED
  <2>1. CASE \E r \in Requests : RequestStep(r)
    BY <2>1, <1>2, <1>4
       DEF RequestStep, StaleCommit, Begin, NeedToken, Coalesce, SendRefresh,
           RefreshFails, Cancel, End
  <2>2. CASE UNCHANGED vars
    BY <2>2, <1>2 DEF vars
  <2>3. CASE \E j \in Jobs : JobStart(j) \/ JobCommit(j) \/ JobGivesUp(j)
    BY <2>3, <1>2 DEF StaleCommit, JobStart, JobGivesUp
  <2>4. CASE \E t \in Tabs : TabLoad(t)
    BY <2>4, <1>2 DEF TabLoad
  <2> QED
    BY <2>1, <2>2, <2>3, <2>4, <1>3, <1>5 DEF Next

\* A connection row leaves the live view only when an administrator deletes it,
\* or with the commit of a view that was held across an await.
THEOREM RowsTheorem == Spec => RowsKept
<1>1. IInv /\ [Next]_vars =>
        [StaleCommit \/ Live.rows \ (Live.rows)' \subseteq gone']_vars
  BY RowsStep
<1> QED
  BY <1>1, Invariance, PTL DEF Spec, RowsKept

\* A commit of a copy shows the bans of the copy.
LEMMA CopyBans ==
    ASSUME Types, NEW base, DOMAIN base = Gens, NEW new, NEW copied,
           CommitCopy(base, new, copied)
    PROVE  LiveBans' = copied
<1> DEFINE full == Restored(new, None)
           s == base[gen].sealed \/ FALSE \/ OAuth \in full.rows \ new.rows
<1>1. gen + 1 \in Gens /\ gen' = gen + 1
  BY DEF Types, CommitCopy, Commit
<1>2. snap' = [base EXCEPT ![gen].sealed = s,
                           ![gen + 1] = [content |-> full, sealed |-> FALSE, dict |-> gen + 1]]
  BY DEF CommitCopy, Commit
<1> HIDE DEF full, s
<1>3. snap'[gen + 1].dict = gen + 1
  BY <1>1, <1>2
<1>4. bans'[gen + 1] = copied
  BY <1>1 DEF CommitCopy, Types
<1> QED
  BY <1>1, <1>3, <1>4 DEF LiveBans

LEMMA BansStep ==
    ASSUME IInv, [Next]_vars
    PROVE  StaleCommit \/ LiveBans \subseteq LiveBans'
<1>1. Types /\ snap \in [Gens -> Snapshot] /\ gen \in Gens /\ snap[gen].dict \in Gens
  BY LiveOK DEF IInv, TypeOK, Types
<1>2. ASSUME UNCHANGED <<gen, snap, bans>> PROVE LiveBans \subseteq LiveBans'
  BY <1>2 DEF LiveBans
<1>3. ASSUME NEW r \in Requests, NEW banned \in SUBSET Leaves, End(r, banned)
      PROVE  LiveBans \subseteq LiveBans'
  <2>1. bans' = [bans EXCEPT ![At(r).dict] = bans[At(r).dict] \cup banned]
        /\ UNCHANGED <<gen, snap>>
    BY <1>3 DEF End
  <2> QED
    BY <2>1, <1>1 DEF LiveBans, Types
<1>4. ASSUME NEW c \in Conns, Import(c)
      PROVE  LiveBans' = LiveBans
  <2>1. DOMAIN snap = Gens
    BY <1>1
  <2> QED
    BY <1>1, <1>4, <2>1, CopyBans DEF Import
<1>5. ASSUME NEW r \in Requests, NEW saved \in BOOLEAN, Refreshed(r, saved)
      PROVE  LiveBans' = LiveBans
  <2> DEFINE g == frame[r].gen
             base == [snap EXCEPT ![g].content.tok = newest + 1, ![g].sealed = FALSE]
             live == [Live EXCEPT !.tok = newest + 1]
  <2>1. DOMAIN base = Gens /\ base[gen].dict = snap[gen].dict
    BY <1>1 DEF Snapshot
  <2>2. \/ CommitCopy(base, live, LiveBans)
        \/ snap' = base /\ UNCHANGED <<gen, bans>>
    BY <1>5 DEF Refreshed
  <2> HIDE DEF base, live
  <2>3. CASE CommitCopy(base, live, LiveBans)
    BY <1>1, <2>1, <2>3, CopyBans
  <2>4. CASE snap' = base /\ UNCHANGED <<gen, bans>>
    BY <2>1, <2>4 DEF LiveBans
  <2> QED
    BY <2>2, <2>3, <2>4
<1>6. ASSUME NEW t \in Tabs, NEW deleted, TabSave(t, deleted)
      PROVE  LiveBans' = LiveBans
  <2> DEFINE body == Without(tab[t].content, deleted)
             merged == Merged(body, deleted)
             borrowed == OAuth \in merged.rows \ body.rows
             dict == snap[gen].dict
  <2>1. merged \in Content
    BY <1>1, MergedIsContent DEF Types, Copy
  <2>2. Commit(snap, merged, borrowed, deleted, dict) /\ bans' = bans
    BY <1>6 DEF TabSave, SavedBans
  <2>3. borrowed \in BOOLEAN /\ dict \in Gens
    BY <1>1
  <2> HIDE DEF merged, borrowed, dict
  <2> DEFINE next == [content |-> Restored(merged, deleted), sealed |-> FALSE,
                      dict |-> dict]
  <2>4. gen' = gen + 1 /\ snap'[gen + 1] = next
    BY <1>1, <2>1, <2>2, <2>3, CommitOK
  <2> QED
    BY <2>2, <2>4 DEF LiveBans, dict
<1> QED
  <2>1. CASE \E r \in Requests : RequestStep(r)
    BY <2>1, <1>2, <1>3, <1>5
       DEF RequestStep, StaleCommit, Begin, NeedToken, Coalesce, SendRefresh,
           RefreshFails, Cancel
  <2>2. CASE UNCHANGED vars
    BY <2>2, <1>2 DEF vars
  <2>3. CASE \E j \in Jobs : JobStart(j) \/ JobCommit(j) \/ JobGivesUp(j)
    BY <2>3, <1>2 DEF StaleCommit, JobStart, JobGivesUp
  <2>4. CASE \E t \in Tabs : TabLoad(t)
    BY <2>4, <1>2 DEF TabLoad
  <2> QED
    BY <2>1, <2>2, <2>3, <2>4, <1>4, <1>6 DEF Next

\* The bans that requests see are carried through every login, refresh and save:
\* only the commit of a view that was held across an await loses one.
THEOREM BansTheorem == Spec => BansKept
<1>1. IInv /\ [Next]_vars => [StaleCommit \/ LiveBans \subseteq LiveBans']_vars
  BY BansStep
<1> QED
  BY <1>1, Invariance, PTL DEF Spec, BansKept
=============================================================================
