------------------------------ MODULE ViewRefresh ------------------------------
(***************************************************************************)
(* The TUI's cached view of one backend, over its change feed: the feed    *)
(* task and the other refreshes (tui/src/app/mod.rs), and the order in     *)
(* which their results are folded in (state.rs).                           *)
(*                                                                         *)
(* Revisions are only compared with each other: the refreshes in flight    *)
(* stand in the order of their revisions, and each keeps whether a later   *)
(* one was folded in before it.                                            *)
(***************************************************************************)
EXTENDS Naturals, SequencesExt

CONSTANTS Unread,        \* what a refresh has not read yet
          MaxBoard,      \* changes of the workspace
          MaxObserved,   \* writes of the agent-state cache
          MaxFlying,     \* refreshes in flight
          Nothing,       \* the agent states of a read that failed
          Happens        \* "create", "attach", "fail" (one read does)

Boards == [changes : 0..MaxBoard, here : BOOLEAN]

ASSUME RefreshAssumption == /\ {MaxBoard, MaxObserved, MaxFlying} \subseteq Nat
                            /\ {Unread, Nothing} \cap Nat = {} /\ Unread # Nothing
                            /\ Happens \subseteq {"create", "attach", "fail"}

VARIABLES board,     \* the backend's workspace: how often it changed, and
                     \* whether the session this TUI created is in it
          observed,  \* its agent states: how often the cache was written
          owed,      \* of the change feed
          bumped,    \* of the change feed
          feeding,   \* the feed task waits for a refresh of its own
          flying,    \* refreshes in flight, in the order of their revisions
          viewed,    \* the agent states read after an attach, before they get one
          shown,     \* the cached view: a snapshot and agent states
          created,   \* the session just created: unborn, awaited, selected, dropped
          skipped,   \* ghost: a read failed ("no", "last", "before": and a
                     \* refresh has begun since); one failure
          missing,   \* ghost: it was missing at some moment since it is awaited
          watched    \* ghost: the agent states the user has seen by attaching

backend == <<board, observed, owed, bumped>>
viewOf == <<feeding, flying, viewed, shown, created, watched>>
refreshVars == <<backend, viewOf, missing, skipped>>

Feed == INSTANCE ChangeFeed WITH
          Content <- Boards \X (0..MaxObserved), content <- <<board, observed>>

NoBoard == [changes |-> Unread, here |-> FALSE]

RefreshInit ==
  /\ board = [changes |-> 0, here |-> FALSE] /\ observed = 0
  /\ owed = TRUE /\ bumped = FALSE /\ feeding = FALSE /\ flying = << >> /\ viewed = Unread
  /\ shown = [snapshot |-> NoBoard, states |-> Unread]
  /\ created = "unborn" /\ missing = FALSE /\ watched = 0
  /\ skipped = "no"
-----------------------------------------------------------------------------
(* The backend, and its change feed: Feed!Change(<<b, o>>), with the two   *)
(* halves of the content written apart for TLC. Every change but one is    *)
(* owed to the feed: ReadFresh.                                            *)
ContentIs(b, o) == board' = b /\ observed' = o /\ owed' = TRUE /\ UNCHANGED bumped

(* The session this TUI created comes and goes only where it creates one.  *)
Mutate(b) == /\ board.changes < MaxBoard
             /\ b => "create" \in Happens
             /\ ContentIs([changes |-> board.changes + 1, here |-> b], observed)
             /\ missing' = (missing \/ ~b)
             /\ UNCHANGED <<viewOf, skipped>>

Observe == /\ observed < MaxObserved
           /\ ContentIs(board, observed + 1)
           /\ UNCHANGED <<viewOf, missing, skipped>>

Advance == /\ owed /\ Feed!Bump
           /\ UNCHANGED <<viewOf, missing, skipped>>
-----------------------------------------------------------------------------
(* A refresh takes its revision and then reads the two halves.             *)
NewRefresh(kind) == [kind |-> kind, snapshot |-> NoBoard, states |-> Unread,
                     early |-> FALSE, old |-> FALSE, oldStates |-> FALSE]

LoopBusy == \E i \in DOMAIN flying : flying[i].kind = "loop"

Begun == skipped' = IF skipped = "last" THEN "before" ELSE skipped

BeginRefresh(kind) == /\ Len(flying) < MaxFlying
                      /\ flying' = Append(flying, NewRefresh(kind))
                      /\ Begun

(* The change-feed task, one refresh after the other.                      *)
FeedWakes == /\ ~feeding
             /\ Feed!Wake /\ feeding' = TRUE
             /\ BeginRefresh("feed")
             /\ UNCHANGED <<viewed, shown, created, missing, watched>>

(* spawn_backend_view_refresh, and refresh_backend_view, which holds up    *)
(* the event loop.                                                         *)
RefreshAfterEdit == /\ ~LoopBusy
                    /\ \E kind \in {"forced", "loop"} : BeginRefresh(kind)
                    /\ UNCHANGED <<backend, feeding, viewed, shown,
                                   created, missing, watched>>

ReadSnapshot(i) == /\ flying[i].snapshot = NoBoard /\ flying[i].kind # "viewed"
                   /\ flying' = [flying EXCEPT ![i].snapshot = board]
                   /\ UNCHANGED <<backend, feeding, viewed, shown,
                                  created, missing, watched, skipped>>

ReadStates(i) == /\ flying[i].states = Unread
                 /\ flying' = [flying EXCEPT ![i].states = observed]
                 /\ UNCHANGED <<backend, feeding, viewed, shown,
                                created, missing, watched, skipped>>

(* A read of the agent states that fails gives none, or, on the event      *)
(* loop, leaves the ones shown.                                            *)
StatesFail(i) ==
  /\ "fail" \in Happens /\ skipped = "no" /\ skipped' = "last"
  /\ flying[i].states = Unread /\ flying[i].kind # "viewed"
  /\ flying' = [flying EXCEPT ![i].states = Nothing]
  /\ UNCHANGED <<backend, feeding, viewed, shown, created, missing, watched>>

Done(i) == feeding' = (feeding /\ flying[i].kind # "feed")

(* Every refresh before the i-th that is still in flight is now older than *)
(* what is shown.                                                          *)
Superseded(i, snapshot, states) ==
  RemoveAt([j \in DOMAIN flying |->
              IF j < i THEN [flying[j] EXCEPT !.old = @ \/ snapshot, !.oldStates = @ \/ states]
              ELSE flying[j]], i)

(* A snapshot that cannot be had is skipped, and not asked for again; on   *)
(* the event loop the states read with it are shown all the same.          *)
FetchFails(i) ==
  LET f == flying[i]
      showsStates == f.kind = "loop" /\ f.states # Nothing
  IN /\ "fail" \in Happens /\ skipped = "no" /\ skipped' = "last"
     /\ f.kind # "viewed" /\ f.snapshot = NoBoard /\ f.states # Unread
     /\ flying' = Superseded(i, FALSE, showsStates) /\ Done(i)
     /\ shown' = IF showsStates THEN [shown EXCEPT !.states = f.states] ELSE shown
     /\ UNCHANGED <<backend, viewed, created, missing, watched>>
-----------------------------------------------------------------------------
(* After an attach: the service reads the agents afresh and writes them to *)
(* its cache without a word to the feed, and the result takes its revision *)
(* once it is back.                                                        *)
ReadFresh == /\ "attach" \in Happens /\ viewed = Unread /\ observed < MaxObserved
             /\ observed' = observed + 1 /\ viewed' = observed + 1
             /\ UNCHANGED <<board, owed, bumped, feeding, flying, shown, created,
                            missing, watched, skipped>>

TakeRevision == /\ viewed # Unread /\ Len(flying) < MaxFlying
                /\ flying' = Append(flying, [NewRefresh("viewed") EXCEPT !.states = viewed])
                /\ viewed' = Unread
                /\ UNCHANGED <<backend, feeding, shown, created,
                               missing, watched, skipped>>

(* Wrong on purpose: the viewed states do not move agent_states_revision.  *)
FoldViewedOnly(i) ==
  /\ flying[i].kind = "viewed" /\ ~LoopBusy
  /\ flying' = RemoveAt(flying, i)
  /\ IF flying[i].oldStates THEN UNCHANGED <<shown, watched>>
     ELSE /\ shown' = [shown EXCEPT !.states = flying[i].states]
          /\ watched' = flying[i].states
  /\ UNCHANGED <<backend, feeding, viewed, created, missing, skipped>>

FoldViewed(i) ==
  /\ flying[i].kind = "viewed" /\ ~LoopBusy
  /\ IF flying[i].oldStates
     THEN flying' = RemoveAt(flying, i) /\ UNCHANGED <<shown, watched>>
     ELSE /\ flying' = Superseded(i, FALSE, TRUE)
          /\ shown' = [shown EXCEPT !.states = flying[i].states]
          /\ watched' = flying[i].states
  /\ UNCHANGED <<backend, feeding, viewed, created, missing, skipped>>

(* PendingSession::settle: found, given up, or too early to tell.          *)
SettleAnyway(f) == IF f.snapshot.here THEN "selected" ELSE "dropped"
Settle(f) == IF f.snapshot.here THEN "selected" ELSE IF f.early THEN "awaited" ELSE "dropped"

(* Wrong on purpose: a refresh is folded in however old it is.             *)
NeverOld(f) == FALSE
IsOld(f) == f.old

(* BackendChanged; an answer on the event loop itself settles nothing.     *)
Fold(i) ==
  LET f == flying[i]
      keeps == f.oldStates \/ (f.kind = "loop" /\ f.states = Nothing)
  IN /\ f.kind # "viewed" /\ f.snapshot # NoBoard /\ f.states # Unread
     /\ f.kind = "loop" \/ ~LoopBusy
     /\ IF IsOld(f)
        THEN flying' = RemoveAt(flying, i) /\ UNCHANGED <<shown, created>>
        ELSE /\ flying' = Superseded(i, TRUE, ~keeps)
             /\ shown' = [snapshot |-> f.snapshot,
                          states |-> IF keeps THEN shown.states ELSE f.states]
             /\ created' = IF created = "awaited" /\ f.kind # "loop" THEN Settle(f) ELSE created
     /\ Done(i)
     /\ UNCHANGED <<backend, viewed, missing, watched, skipped>>

(* SessionCreated: select the session once a refresh that took its         *)
(* revision from here on has come back; and ask for one.                   *)
SessionCreated ==
  /\ "create" \in Happens /\ created = "unborn" /\ board.changes > 0 /\ ~LoopBusy
  /\ created' = "awaited" /\ missing' = ~board.here
  /\ Len(flying) < MaxFlying
  /\ flying' = Append([i \in DOMAIN flying |-> [flying[i] EXCEPT !.early = TRUE]],
                      NewRefresh("forced"))
  /\ Begun
  /\ UNCHANGED <<backend, feeding, viewed, shown, watched>>

RefreshNext == \/ \E b \in BOOLEAN : Mutate(b)
               \/ Observe \/ Advance
               \/ FeedWakes \/ RefreshAfterEdit \/ ReadFresh \/ TakeRevision \/ SessionCreated
               \/ \E i \in DOMAIN flying : \/ ReadSnapshot(i) \/ ReadStates(i)
                                           \/ FetchFails(i) \/ StatesFail(i)
                                           \/ FoldViewed(i) \/ Fold(i)

(* The feed advances when it owes to, the feed task wakes, refreshes are   *)
(* answered and folded in.                                                 *)
RefreshFairness ==
  /\ WF_refreshVars(Advance) /\ SF_refreshVars(FeedWakes)
  /\ WF_refreshVars(\E i \in DOMAIN flying : ReadSnapshot(i) \/ ReadStates(i))
  /\ WF_refreshVars(\E i \in DOMAIN flying : Fold(i) \/ FoldViewed(i))
  /\ WF_refreshVars(TakeRevision)

RefreshSpec == RefreshInit /\ [][RefreshNext]_refreshVars /\ RefreshFairness
-----------------------------------------------------------------------------
RefreshTypeOK ==
  /\ board \in Boards /\ observed \in 0..MaxObserved
  /\ Len(flying) <= MaxFlying
  /\ feeding <=> \E i \in DOMAIN flying : flying[i].kind = "feed"
  /\ created \in {"unborn", "awaited", "selected", "dropped"}
  /\ shown.states \in 0..MaxObserved \cup {Unread, Nothing}

(* Whatever overtakes what: once the backend's state stays as it is, the   *)
(* TUI comes to show it, and keeps showing it, unless a read failed and    *)
(* nothing has made the TUI ask again since. Not with "attach": the states  *)
(* read after one take their revision when they are back, so that they can *)
(* replace newer ones, and the read itself wakes nobody.                   *)
ViewConverges ==
  <>[](skipped = "last" \/ shown = [snapshot |-> board, states |-> observed])

(* A session just created is given up only if it was really gone from the  *)
(* backend: a refresh that set out earlier and lacks it proves nothing.    *)
CreatedIsNotDropped == created = "dropped" => missing

(* "Older cache reads still in flight must not overwrite it": after an     *)
(* attach, the agent states are never again shown as they were before it.  *)
WatchedStatesStay == watched > 0 => shown.states = Nothing \/ shown.states >= watched
=============================================================================
