---------------------------- MODULE ConfigState ----------------------------
(***************************************************************************)
(* The live configuration of the router and everyone who holds a view of   *)
(* it: app/config_state.py, main._replace_runtime_config with the merge    *)
(* guards of main.update_config, and the token refresh of app/oauth.py.    *)
(*                                                                         *)
(* get_config hands every reader of one generation the SAME object; a      *)
(* commit makes the next generation and its object.  Requests keep the     *)
(* object they started with across awaits, dashboard tabs and background   *)
(* jobs keep copies for as long as they like, and any of them may later    *)
(* write.  A view is the set of provider entries and connection rows, the  *)
(* version of the token of one OAuth connection, and the ban dictionary,   *)
(* which is shared by reference except where a path deep-copies the view.  *)
(* The authorisation server rotates: a refresh consumes the version it is  *)
(* given.                                                                  *)
(***************************************************************************)
EXTENDS Integers, Sequences

CONSTANTS
    Providers,
    Conns,         \* connection rows
    provider,      \* the provider of each row
    OAuth,         \* the row whose token is refreshed
    InitRows,      \* the rows of the configuration at boot
    Leaves,        \* what may be banned
    Requests,
    Tabs,          \* dashboard tabs
    Jobs,          \* auto_register and discover tasks
    AutoDisable,   \* whether the ban ladder may disable a model
    DiskMayFail,   \* whether _persist_config_snapshot may raise
    MaxCommits,    \* bound on the generations of the configuration
    MaxTokens,     \* bound on the versions of the token
    None

ASSUME RowsAssumption ==
    /\ provider \in [Conns -> Providers]
    /\ OAuth \in Conns
    /\ InitRows \subseteq Conns
ASSUME SettingsAssumption == AutoDisable \in BOOLEAN /\ DiskMayFail \in BOOLEAN
ASSUME BoundsAssumption == MaxCommits \in Nat /\ MaxTokens \in Nat
ASSUME NoneAssumption == None \notin Conns \cup Providers

Gens == 0..MaxCommits

\* What a view says, apart from bans.
Content == [provs : SUBSET Providers, rows : SUBSET Conns, tok : 0..MaxTokens]

\* get_config's object of a generation: its content, whether the secrets of
\* the OAuth row have been encrypted in it, and the ban dictionary it shares.
Snapshot == [content : Content, sealed : BOOLEAN, dict : Gens]

\* A copy by value: the JSON of a tab, the deep copy of a job.
Copy == [held : BOOLEAN, content : Content, bans : SUBSET Leaves]

\* A secret as a request reads it.
Secret == [tok : 0..MaxTokens, sealed : BOOLEAN]

Phases == {"idle", "run", "wait", "refresh"}

Frame == [phase : Phases, gen : Gens, stored : Secret, got : Secret]

VARIABLES
    gen,      \* the current generation
    snap,     \* the object of each generation
    bans,     \* the ban dictionaries, named for the generation that made them
    frame,    \* the requests
    queue,    \* the provider's refresh lock: its holder, then its waiters
    tab,      \* the copies of the dashboard tabs
    job,      \* the copies of the background jobs
    newest,   \* the version the authorisation server honours
    gone      \* the rows an administrator deleted and nobody added again

vars == <<gen, snap, bans, frame, queue, tab, job, newest, gone>>

EmptyContent == [provs |-> {}, rows |-> {}, tok |-> 0]
EmptyCopy == [held |-> FALSE, content |-> EmptyContent, bans |-> {}]
NoSecret == [tok |-> 0, sealed |-> FALSE]
IdleFrame == [phase |-> "idle", gen |-> 0, stored |-> NoSecret, got |-> NoSecret]

Live == snap[gen].content
LiveBans == bans[snap[gen].dict]

RowsOf(rows, p) == {c \in rows : provider[c] = p}

Init ==
    /\ gen = 0
    /\ snap = [g \in Gens |->
                 [content |-> IF g = 0
                              THEN [provs |-> {provider[c] : c \in InitRows},
                                    rows |-> InitRows, tok |-> 0]
                              ELSE EmptyContent,
                  sealed |-> FALSE, dict |-> 0]]
    /\ bans = [g \in Gens |-> {}]
    /\ frame = [r \in Requests |-> IdleFrame]
    /\ queue = <<>>
    /\ tab = [t \in Tabs |-> EmptyCopy]
    /\ job = [j \in Jobs |-> EmptyCopy]
    /\ newest = 0
    /\ gone = {}

-----------------------------------------------------------------------------
(* The commit: _replace_runtime_config, replace_config and the snapshot    *)
(* that reconfigure_breaker takes at its end.                              *)

\* Mutant: the writer's view is taken as it is.
RestoredNone(new, deleted) == new

\* The stale-view guard: a provider with rows in the live view that the
\* writer does not have comes back, unless the writer says it deletes it.
Restored(new, deleted) ==
    LET missing == {p \in Live.provs \ new.provs :
                       p # deleted /\ RowsOf(Live.rows, p) # {}}
        back == {c \in Live.rows \ new.rows : provider[c] \in missing}
    IN [provs |-> new.provs \cup missing,
        rows |-> new.rows \cup back,
        tok |-> IF OAuth \in back THEN Live.tok ELSE new.tok]

\* The next generation.  base is the array of snapshots with whatever the
\* writer did to the object it passes in; borrowed says that the OAuth row in
\* `new' is the live snapshot's own.  Rows that come back are that snapshot's
\* own too, and replace_config encrypts the rows it is given where they are.
Commit(base, new, borrowed, deleted, dict) ==
    LET full == Restored(new, deleted)
    IN /\ gen < MaxCommits
       /\ gen' = gen + 1
       /\ snap' = [base EXCEPT
                     ![gen].sealed = @ \/ borrowed \/ OAuth \in full.rows \ new.rows,
                     ![gen + 1] = [content |-> full, sealed |-> FALSE, dict |-> dict]]

\* get_mutable_config, then a commit: the new view has bans of its own.
CommitCopy(base, new, copied) ==
    /\ Commit(base, new, FALSE, None, gen + 1)
    /\ bans' = [bans EXCEPT ![gen + 1] = copied]

-----------------------------------------------------------------------------
(* Requests.                                                               *)

At(r) == snap[frame[r].gen]

Read(r) == [tok |-> At(r).content.tok, sealed |-> At(r).sealed]

Leave(r) == frame' = [frame EXCEPT ![r] = IdleFrame]

\* A pass over the chain starts from the current snapshot.
Begin(r) ==
    /\ frame[r].phase = "idle"
    /\ frame' = [frame EXCEPT ![r] = [IdleFrame EXCEPT !.phase = "run", !.gen = gen]]
    /\ UNCHANGED <<gen, snap, bans, queue, tab, job, newest, gone>>

\* The pass ends; if it failed, the ban goes into the dictionary of the
\* snapshot it started from.
End(r, banned) ==
    /\ frame[r].phase = "run"
    /\ bans' = [bans EXCEPT ![At(r).dict] = @ \cup banned]
    /\ Leave(r)
    /\ UNCHANGED <<gen, snap, queue, tab, job, newest, gone>>

\* The ladder disables the model: the request's own snapshot is what
\* _handle_action commits, and replace_config encrypts it where it is.
Disable(r, l) ==
    /\ AutoDisable
    /\ frame[r].phase = "run"
    /\ bans' = [bans EXCEPT ![At(r).dict] = @ \cup {l}]
    /\ LET g == frame[r].gen
           full == Restored(snap[g].content, None)
       IN Commit([snap EXCEPT ![g].content = full, ![g].sealed = TRUE],
                 snap[g].content, FALSE, None, snap[g].dict)
    /\ Leave(r)
    /\ UNCHANGED <<queue, tab, job, newest, gone>>

-----------------------------------------------------------------------------
(* ensure_fresh_token.                                                     *)

\* The stored token has expired, or the upstream answered 401.
NeedToken(r) ==
    /\ frame[r].phase = "run"
    /\ OAuth \in At(r).content.rows
    /\ frame' = [frame EXCEPT ![r].phase = "wait", ![r].stored = Read(r)]
    /\ queue' = Append(queue, r)
    /\ UNCHANGED <<gen, snap, bans, tab, job, newest, gone>>

HoldsLock(r) == queue # <<>> /\ Head(queue) = r

\* Mutant: whoever gets the lock sends the token it read before waiting.
CoalescedNever(r) == FALSE

\* A refresh that another request made in the same snapshot is used.
Coalesced(r) == Read(r) # frame[r].stored

\* Mutant: the lock stays taken.
ReleasedNever == queue' = queue

\* `async with' gives the lock to the next waiter.
Released == queue' = Tail(queue)

Coalesce(r) ==
    /\ frame[r].phase = "wait" /\ HoldsLock(r)
    /\ Coalesced(r)
    /\ frame' = [frame EXCEPT ![r].phase = "run", ![r].got = Read(r)]
    /\ Released
    /\ UNCHANGED <<gen, snap, bans, tab, job, newest, gone>>

SendRefresh(r) ==
    /\ frame[r].phase = "wait" /\ HoldsLock(r)
    /\ ~Coalesced(r)
    /\ frame' = [frame EXCEPT ![r].phase = "refresh"]
    /\ UNCHANGED <<gen, snap, bans, queue, tab, job, newest, gone>>

\* The server honours the newest version, in clear, and only that one.
Honoured(s) == ~s.sealed /\ s.tok = newest /\ newest < MaxTokens

\* The answer: the token goes to the live row, if it is still there and the
\* file can be written, and into the snapshot of the request.
Refreshed(r, saved) ==
    /\ frame[r].phase = "refresh"
    /\ Honoured(frame[r].stored)
    /\ newest' = newest + 1
    /\ LET base == [snap EXCEPT ![frame[r].gen].content.tok = newest + 1,
                                ![frame[r].gen].sealed = FALSE]
           live == [Live EXCEPT !.tok = newest + 1]
       IN IF saved /\ OAuth \in Live.rows
          THEN CommitCopy(base, live, LiveBans)
          ELSE /\ snap' = base
               /\ UNCHANGED <<gen, bans>>
    /\ frame' = [frame EXCEPT ![r].phase = "run",
                              ![r].got = [tok |-> newest + 1, sealed |-> FALSE]]
    /\ Released
    /\ UNCHANGED <<tab, job, gone>>

\* Any failure: the stored token is used as it is.
RefreshFails(r) ==
    /\ frame[r].phase = "refresh"
    /\ frame' = [frame EXCEPT ![r].phase = "run", ![r].got = frame[r].stored]
    /\ Released
    /\ UNCHANGED <<gen, snap, bans, tab, job, newest, gone>>

\* The line without its i-th request.
Dropped(i) == [j \in 1..(Len(queue) - 1) |-> IF j < i THEN queue[j] ELSE queue[j + 1]]

\* The client hangs up, before or after the server has seen the refresh.
Cancel(r) ==
    /\ frame[r].phase \in {"wait", "refresh"}
    /\ \/ UNCHANGED newest
       \/ /\ frame[r].phase = "refresh"
          /\ Honoured(frame[r].stored)
          /\ newest' = newest + 1
    /\ Leave(r)
    /\ \E i \in 1..Len(queue) : queue[i] = r /\ queue' = Dropped(i)
    /\ UNCHANGED <<gen, snap, bans, tab, job, gone>>

-----------------------------------------------------------------------------
(* Writers that hold copies.                                               *)

\* oauth._save_connection: a login adds a row, or replaces it.
Import(c) ==
    /\ newest < MaxTokens
    /\ newest' = IF c = OAuth THEN newest + 1 ELSE newest
    /\ CommitCopy(snap, [provs |-> Live.provs \cup {provider[c]},
                         rows |-> Live.rows \cup {c},
                         tok |-> IF c = OAuth THEN newest + 1 ELSE Live.tok],
                  LiveBans)
    /\ gone' = gone \ {c}
    /\ UNCHANGED <<frame, queue, tab, job>>

\* auto_register and discover copy the view, then wait for the network.
JobStart(j) ==
    /\ ~job[j].held
    /\ job' = [job EXCEPT ![j] = [held |-> TRUE, content |-> Live, bans |-> LiveBans]]
    /\ UNCHANGED <<gen, snap, bans, frame, queue, tab, newest, gone>>

JobCommit(j) ==
    /\ job[j].held
    /\ CommitCopy(snap, job[j].content, job[j].bans)
    /\ job' = [job EXCEPT ![j] = EmptyCopy]
    /\ UNCHANGED <<frame, queue, tab, newest, gone>>

\* No model matched: nothing is written.
JobGivesUp(j) ==
    /\ job[j].held
    /\ job' = [job EXCEPT ![j] = EmptyCopy]
    /\ UNCHANGED <<gen, snap, bans, frame, queue, tab, newest, gone>>

TabLoad(t) ==
    /\ tab' = [tab EXCEPT ![t] = [held |-> TRUE, content |-> Live, bans |-> LiveBans]]
    /\ UNCHANGED <<gen, snap, bans, frame, queue, job, newest, gone>>

\* Mutant: rows that the tab does not know are dropped.
MergedBody(body, deleted) == body

\* _apply_connections_stale_save_guard: rows of the live view that the tab
\* does not know are kept, unless it deletes them; a row it knows is written
\* with the token the tab has.
Merged(body, deleted) ==
    LET kept == {c \in Live.rows : c # deleted /\ provider[c] # deleted}
    IN [provs |-> body.provs \cup {provider[c] : c \in kept},
        rows |-> body.rows \cup kept,
        tok |-> IF OAuth \in body.rows THEN body.tok ELSE Live.tok]

\* The view of the tab once it has deleted a row or a provider (or nothing).
Without(body, deleted) ==
    [body EXCEPT !.provs = @ \ {deleted},
                 !.rows = {c \in @ : c # deleted /\ provider[c] # deleted}]

\* Mutant: the tab's copy of the bans is saved with the rest.
SavedBansOfTab(t, new, borrowed, deleted) ==
    /\ Commit(snap, new, borrowed, deleted, gen + 1)
    /\ bans' = [bans EXCEPT ![gen + 1] = tab[t].bans]

\* The live dictionary is carried over by reference.
SavedBans(t, new, borrowed, deleted) ==
    /\ Commit(snap, new, borrowed, deleted, snap[gen].dict)
    /\ UNCHANGED bans

\* update_config: the tab posts its whole view.
TabSave(t, deleted) ==
    /\ tab[t].held
    /\ deleted = None \/ deleted \in tab[t].content.provs \cup tab[t].content.rows
    /\ LET body == Without(tab[t].content, deleted)
           merged == Merged(body, deleted)
           cut == {c \in Conns : c = deleted \/ provider[c] = deleted}
       IN /\ SavedBans(t, merged, OAuth \in merged.rows \ body.rows, deleted)
          /\ tab' = [tab EXCEPT ![t].content = body]
          /\ gone' = gone \cup (cut \cap Live.rows)
    /\ UNCHANGED <<frame, queue, job, newest>>

-----------------------------------------------------------------------------
RequestStep(r) ==
    \/ Begin(r) \/ NeedToken(r) \/ Coalesce(r) \/ SendRefresh(r)
    \/ RefreshFails(r) \/ Cancel(r)
    \/ \E saved \in (IF DiskMayFail THEN BOOLEAN ELSE {TRUE}) : Refreshed(r, saved)
    \/ \E banned \in SUBSET Leaves : End(r, banned)
    \/ \E l \in Leaves : Disable(r, l)

Next ==
    \/ \E r \in Requests : RequestStep(r)
    \/ \E c \in Conns : Import(c)
    \/ \E j \in Jobs : JobStart(j) \/ JobCommit(j) \/ JobGivesUp(j)
    \/ \E t \in Tabs : TabLoad(t)
    \/ \E t \in Tabs, d \in Conns \cup Providers \cup {None} : TabSave(t, d)

Spec == Init /\ [][Next]_vars

\* The event loop runs whoever holds the lock, and every refresh call has a
\* timeout, so it is answered or fails.
Fairness ==
    \A r \in Requests :
        /\ WF_vars(Coalesce(r) \/ SendRefresh(r))
        /\ WF_vars(RefreshFails(r) \/ \E saved \in BOOLEAN : Refreshed(r, saved))

FairSpec == Spec /\ Fairness

-----------------------------------------------------------------------------
(* Properties.                                                             *)

\* The line at the lock: each request that waits or refreshes stands in it
\* once, and nobody else does, whoever hung up and whatever failed.
LineOK ==
    /\ \A r \in Requests :
          frame[r].phase \in {"wait", "refresh"} <=> \E i \in 1..Len(queue) : queue[i] = r
    /\ \A i, j \in 1..Len(queue) : queue[i] = queue[j] => i = j

TypeOK ==
    /\ gen \in Gens
    /\ snap \in [Gens -> Snapshot]
    /\ bans \in [Gens -> SUBSET Leaves]
    /\ frame \in [Requests -> Frame]
    /\ queue \in Seq(Requests)
    /\ tab \in [Tabs -> Copy]
    /\ job \in [Jobs -> Copy]
    /\ newest \in 0..MaxTokens
    /\ gone \in SUBSET Conns
    /\ LineOK

\* A refresh in flight was sent by the holder of the provider's lock with the
\* token its snapshot still holds: nobody else refreshed in that snapshot in
\* between, however long it waited (ensure_fresh_token).
RefreshIsCurrent ==
    \A r \in Requests :
        frame[r].phase = "refresh" =>
            /\ HoldsLock(r)
            /\ frame[r].stored.tok = At(r).content.tok

\* Whoever commits whatever view, however old, a provider that has connections
\* leaves the live view only because an administrator deleted every one of
\* them (the guard of _replace_runtime_config).
ProvidersKept ==
    [][\A p \in Live.provs \ (Live.provs)' : RowsOf(Live.rows, p) \subseteq gone']_vars

\* A commit of a view that was taken before an await: the deep copy of a job,
\* the snapshot of a request that disables a model.
StaleCommit ==
    \/ \E j \in Jobs : JobCommit(j)
    \/ \E r \in Requests, l \in Leaves : Disable(r, l)

\* These aside, no commit loses a row: not the save of a stale tab, a login, or
\* a refreshed token.  (The guards of update_config and the copy of
\* get_mutable_config.)
RowsKept == [][StaleCommit \/ Live.rows \ (Live.rows)' \subseteq gone']_vars

\* ... and none loses a ban that later requests would have seen.
BansKept == [][StaleCommit \/ LiveBans \subseteq LiveBans']_vars

\* A request that waits for the refresh lock, or for the refresh, goes on.
WaitersServed ==
    \A r \in Requests :
        frame[r].phase \in {"wait", "refresh"} ~> frame[r].phase \in {"run", "idle"}

\* "All existing code that reads api_key/password gets plaintext."
\* (config_state.get_config)
ReadsArePlaintext == \A r \in Requests : ~frame[r].got.sealed
=============================================================================
