----------------------------- MODULE ReviewView -----------------------------
(***************************************************************************)
(* The TUI's review of one session over the calls of ReviewFiles: opening, *)
(* the in-place refresh, the reviewed key, comments and Apply, and the     *)
(* poll that picks up marks set elsewhere (tui/src/app/review.rs, the      *)
(* review updates of state.rs, background.rs).  A key handler awaits its   *)
(* call on the event loop, so nothing else is handled meanwhile; opening,  *)
(* refreshing and polling are spawned tasks whose answers are events.      *)
(* reviewed_gen is only ever compared with the value a poll was spawned    *)
(* with, so the poll keeps whether it is still current.                    *)
(***************************************************************************)
EXTENDS ReviewFiles

CONSTANTS Ui, Opener, Refresher,  \* callers of the TUI; the others are the
                                  \* server's clients and the review CLI
          ForeignOps              \* and these are the requests they make

ASSUME ViewAssumption == /\ {Ui, Opener, Refresher} \subseteq Caller
                         /\ Ui # Opener /\ Ui # Refresher /\ Opener # Refresher

VARIABLES view,        \* the modal, the diff and marks it shows, a draft open
          refreshing,  \* review_refresh_in_flight
          poll,        \* the marks poll in flight: what it read, still current
          own          \* ghost: toggles this view was acknowledged, unchanged since

screen == <<view, refreshing, poll, own>>
viewVars == <<reviewVars, screen>>

ClosedView == [modal |-> "none", diff |-> NoDiff, reviewed |-> {}, draft |-> FALSE]
NoPoll == [pc |-> "idle", marks |-> NoMarks, fresh |-> FALSE]
NothingOwn == [f \in File |-> "any"]
Shown == {f \in File : view.diff[f] # Absent}
LoopFree == calls[Ui].pc = "idle"
IsOpen == view.modal = "review"

ViewInit == /\ ReviewInit
            /\ view = ClosedView /\ poll = NoPoll /\ refreshing = FALSE
            /\ own = NothingOwn

(* next_reviewed_gen: a poll spawned before is dropped.                    *)
NoBump(p) == p
Bump(p) == [p EXCEPT !.fresh = FALSE]
-----------------------------------------------------------------------------
(* handle_open_review: the spinner, and the compose off the event loop.    *)
OpenReview == /\ LoopFree /\ view.modal = "none"
              /\ BeginView(Opener, "open", NoDiff)
              /\ view' = [ClosedView EXCEPT !.modal = "loading"]
              /\ UNCHANGED <<refreshing, poll, own>>

(* Another event may replace the spinner's modal.                          *)
LeaveModal == /\ LoopFree /\ view.modal # "none" /\ ~view.draft
              /\ view' = ClosedView /\ own' = NothingOwn
              /\ UNCHANGED <<reviewVars, refreshing, poll>>

(* ReviewPrepared, and ReviewOpenFailed when the diff is empty.            *)
Prepared ==
  LET k == calls[Opener]
      opens == view.modal = "loading" /\ k.diff # NoDiff
  IN /\ LoopFree /\ k.pc = "done"
     /\ Answered(Opener)
     /\ view' = IF opens THEN [modal |-> "review", diff |-> k.diff, draft |-> FALSE,
                               reviewed |-> LivePaths(k.seen, k.diff)]
                ELSE IF view.modal = "loading" THEN ClosedView ELSE view
     /\ poll' = IF opens THEN Bump(poll) ELSE poll
     /\ UNCHANGED <<refreshing, own>>

OpenFailed == /\ LoopFree /\ Fail(Opener)
              /\ view' = IF view.modal = "loading" THEN ClosedView ELSE view
              /\ UNCHANGED <<refreshing, poll, own>>
-----------------------------------------------------------------------------
(* spawn_review_refresh, one at a time: the key, a turn that ended, Apply. *)
Refresh == /\ LoopFree /\ IsOpen /\ ~view.draft /\ ~refreshing
           /\ BeginView(Refresher, "refresh", view.diff)
           /\ refreshing' = TRUE
           /\ UNCHANGED <<view, poll, own>>

(* ReviewRefreshed: folded in if a review of the session is still open and *)
(* no draft is, otherwise discarded.                                       *)
Refreshed ==
  LET k == calls[Refresher]
      folds == k.pc = "done" /\ IsOpen /\ ~view.draft
  IN /\ LoopFree
     /\ Answered(Refresher)
     /\ refreshing' = FALSE
     /\ view' = IF folds THEN [view EXCEPT !.diff = k.diff,
                                           !.reviewed = LivePaths(k.seen, k.diff)]
                ELSE view
     /\ poll' = IF folds THEN Bump(poll) ELSE poll
     /\ own' = IF folds THEN NothingOwn ELSE own

(* Wrong on purpose: a refresh that fails leaves the flag up.              *)
FailedUnnoticed == /\ LoopFree /\ Fail(Refresher)
                   /\ UNCHANGED <<view, refreshing, poll, own>>

RefreshFailed == /\ LoopFree /\ Fail(Refresher)
                 /\ refreshing' = FALSE
                 /\ UNCHANGED <<view, poll, own>>
-----------------------------------------------------------------------------
(* The reviewed key: the direction comes from what the view shows.         *)
ToggleKey == /\ IsOpen /\ ~view.draft
             /\ \E f \in Shown : BeginMark(Ui, "set", [NoMarks EXCEPT ![f] = AnyContent],
                                           f \notin view.reviewed)
             /\ UNCHANGED screen

ToggleAcked ==
  LET k == calls[Ui]
      f == CHOOSE g \in File : k.sel[g] # Unset
  IN /\ Stands(Ui, Marking, "done")
     /\ Answered(Ui)
     /\ view' = [view EXCEPT !.reviewed = IF k.on THEN @ \cup {f} ELSE @ \ {f}]
     /\ poll' = Bump(poll)
     /\ own' = [own EXCEPT ![f] = IF (marks[f] # Unset) = k.on
                                  THEN IF k.on THEN "on" ELSE "off" ELSE "any"]
     /\ UNCHANGED <<refreshing>>

DraftKey == /\ LoopFree /\ IsOpen
            /\ view' = [view EXCEPT !.draft = ~@]
            /\ UNCHANGED <<reviewVars, refreshing, poll, own>>

CommentKey == /\ IsOpen
              /\ \/ /\ view.draft
                    /\ \E id \in Comment : FileOf[id] \in Shown /\ BeginComment(Ui, "add", id)
                    /\ view' = [view EXCEPT !.draft = FALSE]
                 \/ /\ ~view.draft /\ UNCHANGED view
                    /\ \/ \E id \in Comment : BeginComment(Ui, "delete", id)
                       \/ BeginApply(Ui)
              /\ UNCHANGED <<refreshing, poll, own>>

UiStep == (Step(Ui) \/ Fail(Ui)) /\ UNCHANGED screen
-----------------------------------------------------------------------------
(* spawn_reviewed_marks_poll and ReviewedMarksPolled.                      *)
PollTick == /\ LoopFree /\ IsOpen /\ poll.pc = "idle"
            /\ poll' = [NoPoll EXCEPT !.pc = "asked", !.fresh = TRUE]
            /\ UNCHANGED <<reviewVars, view, refreshing, own>>

PollRead == /\ poll.pc = "asked"
            /\ poll' = [poll EXCEPT !.pc = "read", !.marks = marks]
            /\ UNCHANGED <<reviewVars, view, refreshing, own>>

PollFails == /\ poll.pc = "asked"
             /\ poll' = NoPoll
             /\ UNCHANGED <<reviewVars, view, refreshing, own>>

(* Wrong on purpose: only what is marked elsewhere is folded in.           *)
FoldedMarksOnly(ms) == view.reviewed \cup (LivePaths(ms, view.diff) \cap Shown)

(* fold_marks: a mark pinned to other content is left as the view shows it.*)
Folded(ms) == (view.reviewed \cup (LivePaths(ms, view.diff) \cap Shown))
                \ {f \in Shown : ms[f] = Unset}

PollDelivered == /\ LoopFree /\ poll.pc = "read"
                 /\ poll' = NoPoll
                 /\ view' = IF IsOpen /\ poll.fresh
                            THEN [view EXCEPT !.reviewed = Folded(poll.marks)] ELSE view
                 /\ UNCHANGED <<reviewVars, refreshing, own>>
-----------------------------------------------------------------------------
(* The rest of the world: other frontends and the CLI, the worktree, the   *)
(* agent. What they do to a file's mark ends what this view knows of it.   *)
Foreign(c) == c \notin {Ui, Opener, Refresher}

Others ==
  /\ \/ \E c \in Caller : /\ Foreign(c)
                          /\ (RequestArrives(c) /\ calls'[c].op \in ForeignOps) \/ Step(c) \/ Fail(c) \/ Answered(c)
     \/ Step(Opener) \/ Step(Refresher)
     \/ \E f \in File : Touch(f)
     \/ AgentMoves
  /\ own' = [f \in File |-> IF marks'[f] # marks[f] THEN "any" ELSE own[f]]
  /\ UNCHANGED <<view, refreshing, poll>>

ViewNext == \/ OpenReview \/ LeaveModal \/ Prepared \/ OpenFailed
            \/ Refresh \/ Refreshed \/ RefreshFailed
            \/ ToggleKey \/ ToggleAcked \/ DraftKey \/ CommentKey \/ UiStep
            \/ PollTick \/ PollRead \/ PollFails \/ PollDelivered
            \/ Others

(* The event loop ticks and handles what it is sent; a spawned read ends,  *)
(* and does not fail every time.                                           *)
PollFairness == WF_viewVars(PollTick) /\ SF_viewVars(PollRead) /\ WF_viewVars(PollDelivered)

ViewSpec == ViewInit /\ [][ViewNext]_viewVars /\ PollFairness
-----------------------------------------------------------------------------
ViewTypeOK == /\ ReviewTypeOK
              /\ view \in [modal : {"none", "loading", "review"}, diff : Diff,
                           reviewed : SUBSET File, draft : BOOLEAN]
              /\ poll \in [pc : {"idle", "asked", "read"},
                           marks : [File -> Content \cup {Unset}], fresh : BOOLEAN]
              /\ own \in [File -> {"any", "on", "off"}]
              /\ refreshing <=> calls[Refresher].pc # "idle"

(* A poll never takes back what the view has just been told it did: only a *)
(* change made elsewhere since, or a refresh, may show the file otherwise. *)
PollKeepsOwnMarks ==
  [][poll.pc = "read" /\ poll'.pc = "idle" /\ view' # view =>
       \A f \in File : /\ own[f] = "on" /\ f \in view.reviewed => f \in view'.reviewed
                       /\ own[f] = "off" /\ f \in view'.reviewed => f \in view.reviewed
    ]_viewVars

(* A failed poll is only late: once the view stays open and the marks stay *)
(* as they are, pinned to what is on screen, the view comes to show them.  *)
Settled(R) == /\ IsOpen /\ LoopFree
              /\ \A f \in File : IF f \in R THEN marks[f] # Unset /\ view.diff[f] = marks[f]
                                 ELSE marks[f] = Unset
ViewCatchesUp ==
  \A R \in SUBSET File : <>[]Settled(R) => <>[](view.reviewed = R)
=============================================================================
