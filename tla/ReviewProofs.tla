---------------------------- MODULE ReviewProofs ----------------------------
(***************************************************************************)
(* Proofs about a review: the comments and the reviewed marks that calls   *)
(* of several programs change (ReviewFiles), and the TUI's view over them  *)
(* (ReviewView), for any callers, files, comments and number of calls in   *)
(* flight; and about the TUI's view of a backend (ViewRefresh), which is   *)
(* part of both runs that ServicesProofs and FollowersProofs are about.    *)
(*                                                                         *)
(* MarksInv carries the marks (a view's call that may prune knows of every *)
(* mark it must keep), and with it they implement MarkTable; NotesInv the  *)
(* comments, ViewInv the view of a review and the poll of the marks.       *)
(* BoardInv says what each refresh of the board's view is worth while it   *)
(* is in flight, FeedInv which of them the feed task waits for.            *)
(***************************************************************************)
EXTENDS ReviewView, ViewRefresh, FiniteSetTheorems, SequenceTheorems, TLAPS

Statuses == Pending \cup {"none", "Applied"}
ReviewCalls ==
  [op : {"none", "apply", "add", "delete"} \cup Views \cup Marking,
   pc : {"idle", "compose", "load", "save", "marks", "lock", "write", "decide", "applied",
         "done", "same"},
   sel : Selection, on : BOOLEAN, id : Comment \cup {Unset},
   prev : Diff, diff : Diff, whole : BOOLEAN, since : SUBSET File,
   list : [Comment -> Statuses], seen : [File -> Content \cup {Unset}]]

FilesTyped ==
  /\ tree \in Trees /\ agent \in AgentStates
  /\ comments \in [Comment -> Statuses] /\ marks \in [File -> Content \cup {Unset}]
  /\ flock \in Caller \cup {Unset}
  /\ kept \subseteq File /\ left \subseteq Comment /\ told \subseteq Comment
  /\ calls \in [Caller -> ReviewCalls]

Composed == {"load", "save", "marks", "lock", "write"}

(* A view's call that may prune composed the whole diff: a mark that has   *)
(* matched the tree ever since is in it as it is pinned, or was set since. *)
KnowsKept(k) ==
  k.op \in Views /\ k.pc \in Composed /\ k.whole =>
    \A f \in kept : f \in k.since \/ k.diff[f] = marks[f]

(* Where a call may stand, and what it knows of the marks there.           *)
MarkShape(k) ==
  /\ k.pc \in {"lock", "write"} => k.op \in Views \cup Marking
  /\ k.pc = "marks" => k.op \in Views
  /\ k.pc \in {"load", "save"} => k.op \notin Marking
  /\ k.op \in Views /\ k.pc \in {"lock", "write"} => k.whole
  /\ k.pc = "write" => k.seen = marks
  /\ k.op \in Marking /\ k.pc \in {"lock", "write"} => k.sel \in [File -> Content \cup {Unset}]
  /\ KnowsKept(k)

MarksInv ==
  /\ FilesTyped
  /\ \A c \in Caller : flock = c <=> calls[c].pc = "write"
  /\ \A c \in Caller : MarkShape(calls[c])
  /\ \A f \in kept : marks[f] # Unset /\ marks[f] = tree[f]

LEMMA NoDiffType == NoDiff \in Diff
  BY DEF NoDiff, Diff

LEMMA TreeType == ASSUME FilesTyped PROVE tree \in Diff /\ tree \in [File -> Content \cup {Absent}]
  BY DEF FilesTyped, Trees, Diff

LEMMA EmptyTypes == /\ NoMarks \in [File -> Content \cup {Unset}] /\ NoMarks \in Selection
                  /\ NoComments \in [Comment -> Statuses]
  BY DEF NoMarks, Selection, NoComments, Statuses

LEMMA NoReviewCall == NoCall \in ReviewCalls /\ NoCall.pc = "idle" /\ NoCall.op = "none"
  BY NoDiffType, EmptyTypes DEF NoCall, ReviewCalls

LEMMA CallIs == ASSUME FilesTyped, NEW c \in Caller
                PROVE  calls[c] \in ReviewCalls
  BY DEF FilesTyped

(* A call moves outside of the lock, and leaves tree and marks.            *)
LEMMA OutsideKeeps ==
  ASSUME MarksInv, NEW c \in Caller, NEW k \in ReviewCalls, calls' = [calls EXCEPT ![c] = k],
         calls[c].pc # "write", k.pc # "write", MarkShape(k),
         UNCHANGED <<tree, agent, marks, flock, kept>>,
         comments' \in [Comment -> Statuses], left' \subseteq Comment, told' \subseteq Comment
  PROVE  MarksInv'
<1>1. calls \in [Caller -> ReviewCalls]
  BY DEF MarksInv, FilesTyped
<1>2. FilesTyped'
  BY <1>1 DEF MarksInv, FilesTyped
<1>3. \A d \in Caller : MarkShape(calls[d])'
  BY <1>1 DEF MarksInv, MarkShape, KnowsKept
<1> QED  BY <1>1, <1>2, <1>3 DEF MarksInv

(* A request that arrives has read nothing.                                *)
Arriving(r) ==
  /\ r \in ReviewCalls /\ r.since = {}
  /\ r.pc = "compose" \/ (r.pc = "load" /\ r.op \in {"add", "delete"})

LEMMA BeginMarks ==
  ASSUME MarksInv, NEW c \in Caller, NEW r, Begin(c, r), Arriving(r)
  PROVE  MarksInv'
<1>1. /\ calls' = [calls EXCEPT ![c] = r] /\ calls[c].pc = "idle" /\ UNCHANGED files
  BY DEF Begin, Becomes
<1>2. MarkShape(r) /\ r.pc # "write" /\ r \in ReviewCalls
  BY DEF Arriving, MarkShape, KnowsKept, Composed, Views, Marking
<1> QED  BY <1>1, <1>2, OutsideKeeps DEF files, MarksInv, FilesTyped

LEMMA ArrivingView ==
  ASSUME NEW op \in Views, NEW prev \in Diff
  PROVE  Arriving([NoCall EXCEPT !.op = op, !.pc = "compose", !.prev = prev])
  BY NoReviewCall DEF Arriving, ReviewCalls, NoCall

LEMMA ArrivingMark ==
  ASSUME NEW op \in Marking, NEW sel \in Selection, NEW on \in BOOLEAN
  PROVE  Arriving([NoCall EXCEPT !.op = op, !.pc = "compose", !.sel = sel, !.on = on])
  BY NoReviewCall DEF Arriving, ReviewCalls, NoCall

LEMMA ArrivingApply == Arriving([NoCall EXCEPT !.op = "apply", !.pc = "compose"])
  BY NoReviewCall DEF Arriving, ReviewCalls, NoCall

LEMMA ArrivingComment ==
  ASSUME NEW op \in {"add", "delete"}, NEW id \in Comment
  PROVE  Arriving([NoCall EXCEPT !.op = op, !.pc = "load", !.id = id])
  BY NoReviewCall DEF Arriving, ReviewCalls, NoCall

LEMMA EndMarks ==
  ASSUME MarksInv, NEW c \in Caller, Fail(c) \/ Answered(c) PROVE MarksInv'
<1>1. /\ calls' = [calls EXCEPT ![c] = NoCall]
      /\ flock' = IF flock = c THEN Unset ELSE flock
      /\ UNCHANGED <<tree, agent, comments, marks, kept, left, told>>
  <2>1. CASE Answered(c)
    BY <2>1, CallIs DEF Answered, Becomes, files, MarksInv, FilesTyped
  <2>2. CASE Fail(c)
    BY <2>2 DEF Fail, Becomes
  <2> QED  BY <2>1, <2>2
<1>2. calls \in [Caller -> ReviewCalls] /\ flock \in Caller \cup {Unset} /\ Unset \notin Caller
  BY ReviewAssumption DEF MarksInv, FilesTyped
<1>3. FilesTyped'
  BY <1>1, <1>2, NoReviewCall DEF MarksInv, FilesTyped
<1>4. MarkShape(NoCall)'
  BY NoReviewCall DEF MarkShape, KnowsKept, Views, Marking, Composed
<1>5. \A d \in Caller : MarkShape(calls[d])'
  BY <1>1, <1>2, <1>4 DEF MarksInv, MarkShape, KnowsKept
<1>6. \A d \in Caller : flock' = d <=> calls'[d].pc = "write"
  BY <1>1, <1>2, NoReviewCall DEF MarksInv
<1> QED  BY <1>1, <1>3, <1>5, <1>6 DEF MarksInv

(* What a composition sees is a diff, and the tree if it is whole.         *)
ComposesTo(c, k) ==
  /\ calls' = [calls EXCEPT ![c] = k]
  /\ k.op \in {"none", calls[c].op} /\ k.pc \in {"idle", "same", "lock", "load"}
  /\ k.pc = "idle" => calls[c].op \in Marking
  /\ k.pc = "same" => calls[c].op = "refresh" /\ k.op = "refresh"
  /\ k.pc = "lock" => /\ calls[c].op \in Marking /\ k.op = calls[c].op
                      /\ k.sel \in [File -> Content \cup {Unset}]
                      /\ \A f \in File : k.sel[f] = Unset <=> calls[c].sel[f] = Unset
  /\ k.pc = "load" => /\ k.op = calls[c].op /\ k.op \notin Marking
                      /\ k.whole => k.diff = tree

LEMMA ComposeMarks ==
  ASSUME MarksInv, NEW c \in Caller, Compose(c)
  PROVE  /\ MarksInv'
         /\ \E k \in ReviewCalls : ComposesTo(c, k)
<1>0. /\ calls[c] \in ReviewCalls /\ tree \in Diff /\ tree \in [File -> Content \cup {Absent}]
      /\ FilesTyped /\ calls[c].pc = "compose"
  BY CallIs, TreeType DEF MarksInv, Compose
<1>1. PICK whole \in BOOLEAN, gone \in SUBSET File :
       LET seen == [f \in File |-> IF f \in gone THEN Absent ELSE tree[f]]
           read == [calls[c] EXCEPT !.diff = seen, !.whole = whole]
           pinned == [f \in File |-> IF calls[c].sel[f] = Unset THEN Unset ELSE seen[f]]
       IN /\ whole => gone = {}
          /\ CASE calls[c].op \in Marking ->
                    Becomes(c, IF Resolves(calls[c].sel, seen)
                               THEN [calls[c] EXCEPT !.pc = "lock", !.sel = pinned]
                               ELSE NoCall)
               [] calls[c].op = "refresh" /\ seen = calls[c].prev ->
                    Becomes(c, [NoCall EXCEPT !.op = "refresh", !.pc = "same"])
               [] OTHER -> Becomes(c, [read EXCEPT !.pc = "load"])
  BY DEF Compose
<1> DEFINE seen == [f \in File |-> IF f \in gone THEN Absent ELSE tree[f]]
           pinned == [f \in File |-> IF calls[c].sel[f] = Unset THEN Unset ELSE seen[f]]
           read == [calls[c] EXCEPT !.diff = seen, !.whole = whole, !.pc = "load"]
           locks == [calls[c] EXCEPT !.pc = "lock", !.sel = pinned]
           same == [NoCall EXCEPT !.op = "refresh", !.pc = "same"]
<1>2. seen \in Diff /\ (whole => seen = tree)
  <2>1. seen \in [File -> Content \cup {Absent}]
    BY <1>0
  <2>2. \A f \in File : seen[f] \in Version[f] \cup {Absent}
    BY <1>0 DEF Diff
  <2>3. whole => seen = tree
    BY <1>0, <1>1
  <2> QED  BY <2>1, <2>2, <2>3 DEF Diff
<1>3. \/ calls[c].op \in Marking /\ Resolves(calls[c].sel, seen) /\ calls' = [calls EXCEPT ![c] = locks]
      \/ calls[c].op \in Marking /\ calls' = [calls EXCEPT ![c] = NoCall]
      \/ calls[c].op = "refresh" /\ calls' = [calls EXCEPT ![c] = same]
      \/ calls[c].op \notin Marking /\ calls' = [calls EXCEPT ![c] = read]
  <2>1. CASE calls[c].op \in Marking
    BY <1>1, <2>1 DEF Becomes
  <2>2. CASE calls[c].op \notin Marking /\ calls[c].op = "refresh" /\ seen = calls[c].prev
    BY <1>1, <2>2 DEF Becomes
  <2>3. CASE calls[c].op \notin Marking /\ ~(calls[c].op = "refresh" /\ seen = calls[c].prev)
    <3>1. Becomes(c, [[calls[c] EXCEPT !.diff = seen, !.whole = whole] EXCEPT !.pc = "load"])
      BY <1>1, <2>3
    <3>2. [[calls[c] EXCEPT !.diff = seen, !.whole = whole] EXCEPT !.pc = "load"] = read
      BY <1>0 DEF ReviewCalls
    <3> QED  BY <2>3, <3>1, <3>2 DEF Becomes
  <2> QED  BY <2>1, <2>2, <2>3
<1>4. ASSUME Resolves(calls[c].sel, seen)
      PROVE  /\ pinned \in Selection /\ pinned \in [File -> Content \cup {Unset}]
             /\ \A f \in File : pinned[f] = Unset <=> calls[c].sel[f] = Unset
  <2>1. ASSUME NEW f \in File, calls[c].sel[f] # Unset
        PROVE  seen[f] \in Content /\ seen[f] # Unset
    <3>1. seen[f] # Absent /\ seen[f] \in Content \cup {Absent}
      BY <1>2, <1>4, <2>1 DEF Resolves, Diff
    <3> QED  BY <3>1, ReviewAssumption
  <2> HIDE DEF seen
  <2> QED  BY <2>1 DEF Selection
<1> HIDE DEF seen, pinned
<1>5. /\ read \in ReviewCalls /\ read.pc = "load" /\ read.op = calls[c].op /\ read.whole = whole
      /\ read.diff = seen
  BY <1>0, <1>2 DEF ReviewCalls
<1>6. /\ same \in ReviewCalls /\ same.pc = "same" /\ same.op = "refresh"
  BY NoReviewCall DEF ReviewCalls, Views, NoCall
<1>7. Resolves(calls[c].sel, seen) =>
         /\ locks \in ReviewCalls /\ locks.pc = "lock" /\ locks.op = calls[c].op
         /\ locks.sel = pinned
  BY <1>0, <1>4 DEF ReviewCalls
<1> HIDE DEF read, same, locks
<1>8. PICK k \in ReviewCalls : ComposesTo(c, k)
  BY <1>2, <1>3, <1>4, <1>5, <1>6, <1>7, NoReviewCall DEF ComposesTo
<1>9. MarkShape(k)
  BY <1>8 DEF ComposesTo, MarksInv, MarkShape, KnowsKept, Composed, Views, Marking
<1>10. MarksInv'
  BY <1>0, <1>8, <1>9, OutsideKeeps DEF ComposesTo, Compose, files, FilesTyped
<1> QED  BY <1>8, <1>10

(* The moves of a call that keep what it has composed.                     *)
LEMMA LoadMoves ==
  ASSUME MarksInv, NEW c \in Caller, LoadComments(c) \/ LoadMarks(c)
  PROVE  MarksInv'
<1>0. /\ calls[c] \in ReviewCalls /\ marks \in [File -> Content \cup {Unset}]
      /\ comments \in [Comment -> Statuses] /\ MarkShape(calls[c]) /\ FilesTyped
      /\ UNCHANGED files /\ calls[c].pc \in {"load", "marks"}
  BY CallIs DEF MarksInv, FilesTyped, LoadComments, LoadMarks
<1>1. CASE LoadComments(c)
  <2> DEFINE k == [calls[c] EXCEPT !.pc = "save", !.list = comments]
  <2>1. /\ k \in ReviewCalls /\ k.pc = "save" /\ k.op = calls[c].op /\ k.whole = calls[c].whole
        /\ k.diff = calls[c].diff /\ k.since = calls[c].since /\ calls' = [calls EXCEPT ![c] = k]
    BY <1>0, <1>1 DEF ReviewCalls, LoadComments, Becomes
  <2> HIDE DEF k
  <2>2. MarkShape(k)
    BY <1>0, <1>1, <2>1 DEF LoadComments, MarkShape, KnowsKept, Composed
  <2> QED  BY <1>0, <2>1, <2>2, OutsideKeeps DEF files, FilesTyped
<1>2. CASE LoadMarks(c) /\ CanPrune(c) /\ Invalidated(marks, c) # {}
  <2> DEFINE k == [calls[c] EXCEPT !.pc = "lock"]
  <2>1. /\ k \in ReviewCalls /\ k.pc = "lock" /\ k.op = calls[c].op /\ k.whole = calls[c].whole
        /\ k.diff = calls[c].diff /\ k.since = calls[c].since /\ calls' = [calls EXCEPT ![c] = k]
    BY <1>0, <1>2 DEF ReviewCalls, LoadMarks, Becomes
  <2> HIDE DEF k
  <2>2. MarkShape(k)
    BY <1>0, <1>2, <2>1 DEF LoadMarks, CanPrune, MarkShape, KnowsKept, Composed, Views, Marking
  <2> QED  BY <1>0, <2>1, <2>2, OutsideKeeps DEF files, FilesTyped
<1>3. CASE LoadMarks(c) /\ ~(CanPrune(c) /\ Invalidated(marks, c) # {})
  <2> DEFINE k == Snapshot(calls[c], marks)
  <2>1. /\ k \in ReviewCalls /\ k.pc = "done" /\ calls' = [calls EXCEPT ![c] = k]
    BY <1>0, <1>3, EmptyTypes DEF ReviewCalls, Snapshot, LoadMarks, Becomes
  <2> HIDE DEF k
  <2>2. MarkShape(k)
    BY <2>1 DEF MarkShape, KnowsKept, Composed
  <2> QED  BY <1>0, <2>1, <2>2, OutsideKeeps DEF files, FilesTyped
<1> QED  BY <1>1, <1>2, <1>3

LEMMA SavedList ==
  ASSUME FilesTyped, NEW c \in Caller
  PROVE  LET k == calls[c]
             gone == IF k.op \in Views /\ CanPrune(c) THEN Orphans(k.list, k.diff) ELSE {}
             rest == [id \in Comment |-> IF id \in gone THEN "none" ELSE k.list[id]]
         IN  /\ Reanchored(rest, k.diff) \in [Comment -> Statuses]
             /\ \A id \in Comment : Reanchored(rest, k.diff)[id] = "none"
                                      <=> k.list[id] = "none" \/ id \in gone
             /\ [k.list EXCEPT ![k.id] = "Staged"] \in [Comment -> Statuses]
             /\ [k.list EXCEPT ![k.id] = "none"] \in [Comment -> Statuses]
<1>1. calls[c].list \in [Comment -> Statuses]
  BY CallIs DEF ReviewCalls
<1> QED  BY <1>1 DEF Reanchored, Statuses, Pending

LEMMA SaveMarks ==
  ASSUME MarksInv, NEW c \in Caller, SaveComments(c)
  PROVE  /\ MarksInv'
         /\ \E k \in ReviewCalls :
              /\ calls' = [calls EXCEPT ![c] = k]
              /\ k.pc \in {"marks", "decide", "idle"}
              /\ k.pc = "marks" => k.op \in Views /\ k.op = calls[c].op
              /\ k.pc = "decide" => k.op = "apply" /\ k.op = calls[c].op /\ k.list = comments'
              /\ k.pc = "idle" => k = NoCall
<1> DEFINE k == calls[c]
           gone == IF k.op \in Views /\ CanPrune(c) THEN Orphans(k.list, k.diff) ELSE {}
           rest == [id \in Comment |-> IF id \in gone THEN "none" ELSE k.list[id]]
           list == IF k.op = "add" THEN [k.list EXCEPT ![k.id] = "Staged"]
                   ELSE IF k.op = "delete" THEN [k.list EXCEPT ![k.id] = "none"]
                   ELSE Reanchored(rest, k.diff)
           forView == [k EXCEPT !.pc = "marks", !.list = list]
           decides == [k EXCEPT !.pc = "decide", !.list = list]
<1>0. /\ k \in ReviewCalls /\ k.pc = "save" /\ MarkShape(k) /\ FilesTyped
  BY CallIs DEF MarksInv, SaveComments
<1>1. list \in [Comment -> Statuses]
  BY <1>0, SavedList
<1>2. /\ comments' = list /\ UNCHANGED <<tree, agent, marks, flock, kept>>
      /\ left' \subseteq Comment /\ told' \subseteq Comment
      /\ \/ k.op \in Views /\ calls' = [calls EXCEPT ![c] = forView]
         \/ k.op = "apply" /\ calls' = [calls EXCEPT ![c] = decides]
         \/ calls' = [calls EXCEPT ![c] = NoCall]
  <2>1. /\ comments' = list /\ UNCHANGED <<tree, agent, marks, flock, kept>>
        /\ left' = (left \cap {id \in Comment : list[id] # "none"})
                     \cup {id \in {k.id} \cap Comment : k.op = "add" /\ IsOrphaned(id, tree)}
        /\ told' = told \cap {id \in Comment : list[id] # "none"}
        /\ Becomes(c, CASE k.op \in Views -> forView
                        [] k.op = "apply" -> decides
                        [] OTHER -> NoCall)
    BY DEF SaveComments
  <2> HIDE DEF list, forView, decides
  <2>2. \/ k.op \in Views /\ calls' = [calls EXCEPT ![c] = forView]
        \/ k.op = "apply" /\ calls' = [calls EXCEPT ![c] = decides]
        \/ calls' = [calls EXCEPT ![c] = NoCall]
    <3>1. CASE k.op \in Views
      <4>1. k.op # "apply"
        BY <3>1 DEF Views
      <4> QED  BY <2>1, <3>1, <4>1 DEF Becomes
    <3>2. CASE k.op \notin Views
      BY <2>1, <3>2 DEF Becomes
    <3> QED  BY <3>1, <3>2
  <2> QED  BY <1>0, <2>1, <2>2 DEF FilesTyped
<1> HIDE DEF list
<1>3. /\ forView \in ReviewCalls /\ forView.pc = "marks" /\ forView.op = k.op
      /\ forView.whole = k.whole /\ forView.diff = k.diff /\ forView.since = k.since
      /\ decides \in ReviewCalls /\ decides.pc = "decide" /\ decides.op = k.op /\ decides.list = list
  BY <1>0, <1>1 DEF ReviewCalls
<1> HIDE DEF forView, decides
<1>4. k.op \in Views => MarkShape(forView)
  BY <1>0, <1>3 DEF MarkShape, KnowsKept, Composed
<1>5. MarkShape(decides) /\ MarkShape(NoCall)
  BY <1>3, NoReviewCall DEF MarkShape, KnowsKept, Composed
<1>6. MarksInv'
  BY <1>0, <1>1, <1>2, <1>3, <1>4, <1>5, NoReviewCall, OutsideKeeps
<1> QED  BY <1>2, <1>3, <1>6, NoReviewCall

LEMMA ApplyMarks ==
  ASSUME MarksInv, NEW c \in Caller, NotDelivered(c) \/ Deliver(c) \/ MarkApplied(c)
  PROVE  MarksInv'
<1>0. /\ calls[c] \in ReviewCalls /\ FilesTyped /\ calls[c].pc \in {"decide", "applied"}
      /\ UNCHANGED <<tree, agent, marks, flock, kept>>
  BY CallIs DEF MarksInv, NotDelivered, Deliver, MarkApplied, Stands, files
<1>1. /\ comments' \in [Comment -> Statuses] /\ left' \subseteq Comment /\ told' \subseteq Comment
  <2>1. CASE NotDelivered(c)
    BY <1>0, <2>1 DEF NotDelivered, files, FilesTyped
  <2>2. CASE Deliver(c)
    BY <1>0, <2>2 DEF Deliver, Staged, FilesTyped
  <2>3. CASE MarkApplied(c)
    BY <1>0, <2>3 DEF MarkApplied, FilesTyped, ReviewCalls, Statuses, Pending
  <2> QED  BY <2>1, <2>2, <2>3
<1>2. PICK k \in ReviewCalls : calls' = [calls EXCEPT ![c] = k] /\ k.pc \in {"idle", "applied"}
  <2>1. /\ [calls[c] EXCEPT !.pc = "applied"] \in ReviewCalls
        /\ [calls[c] EXCEPT !.pc = "applied"].pc = "applied"
    BY <1>0 DEF ReviewCalls
  <2> QED  BY <2>1, NoReviewCall DEF NotDelivered, Deliver, MarkApplied, MovesTo, Becomes
<1>3. MarkShape(k)
  BY <1>2 DEF MarkShape, KnowsKept, Composed
<1> QED  BY <1>0, <1>1, <1>2, <1>3, OutsideKeeps

LEMMA LockTakes == ASSUME MarksInv, NEW c \in Caller, LockMarks(c) PROVE MarksInv'
<1> DEFINE k == [calls[c] EXCEPT !.pc = "write", !.seen = marks]
<1>0. /\ calls[c] \in ReviewCalls /\ MarkShape(calls[c]) /\ calls[c].pc = "lock"
      /\ marks \in [File -> Content \cup {Unset}] /\ calls \in [Caller -> ReviewCalls]
      /\ flock = Unset /\ flock' = c /\ calls' = [calls EXCEPT ![c] = k]
      /\ UNCHANGED <<tree, agent, comments, marks, kept, left, told>>
  BY CallIs DEF MarksInv, FilesTyped, LockMarks, FlockFree, Becomes
<1>1. /\ k \in ReviewCalls /\ k.pc = "write" /\ k.op = calls[c].op /\ k.whole = calls[c].whole
      /\ k.diff = calls[c].diff /\ k.since = calls[c].since /\ k.seen = marks
      /\ k.sel = calls[c].sel
  BY <1>0 DEF ReviewCalls
<1> HIDE DEF k
<1>2. MarkShape(k)
  BY <1>0, <1>1 DEF MarkShape, KnowsKept, Composed
<1>3. FilesTyped'
  BY <1>0, <1>1 DEF MarksInv, FilesTyped
<1>4. \A d \in Caller : MarkShape(calls[d])'
  BY <1>0, <1>2 DEF MarksInv, MarkShape, KnowsKept
<1>5. \A d \in Caller : flock' = d <=> calls'[d].pc = "write"
  BY <1>0, <1>1, ReviewAssumption DEF MarksInv
<1> QED  BY <1>0, <1>3, <1>4, <1>5 DEF MarksInv

LEMMA WriteGives ==
  ASSUME MarksInv, NEW c \in Caller, calls[c].pc = "write"
  PROVE  /\ calls[c].op \in Views \cup Marking /\ calls[c].seen = marks
         /\ Pruned(c) \in [File -> Content \cup {Unset}]
         /\ \A f \in File : Pruned(c)[f] # marks[f] => Pruned(c)[f] = Unset
         /\ calls[c].op \in Marking => /\ Marked(calls[c]) \in [File -> Content \cup {Unset}]
                                       /\ \A f \in File : calls[c].sel[f] = Unset =>
                                            Marked(calls[c])[f] = marks[f]
<1>1. /\ MarkShape(calls[c]) /\ marks \in [File -> Content \cup {Unset}]
      /\ calls[c].op \in Views \cup Marking /\ calls[c].seen = marks
  BY DEF MarksInv, FilesTyped, MarkShape
<1>2. /\ Pruned(c) \in [File -> Content \cup {Unset}]
      /\ \A f \in File : Pruned(c)[f] # marks[f] => Pruned(c)[f] = Unset
  BY <1>1 DEF Pruned
<1>3. ASSUME calls[c].op \in Marking
      PROVE  /\ Marked(calls[c]) \in [File -> Content \cup {Unset}]
             /\ \A f \in File : calls[c].sel[f] = Unset => Marked(calls[c])[f] = marks[f]
  BY <1>1, <1>3 DEF Marked, MarkShape
<1> QED  BY <1>1, <1>2, <1>3

LEMMA MarksWritten == ASSUME MarksInv, NEW c \in Caller, WriteMarks(c) PROVE MarksInv'
<1> DEFINE k == calls[c]
           new == IF k.op \in Views THEN Pruned(c) ELSE Marked(k)
           set == {f \in File : new[f] # k.seen[f]}
           mine == IF k.op \in Views THEN Snapshot(k, new) ELSE [k EXCEPT !.pc = "done", !.seen = NoMarks]
           theirs(d) == IF calls[d].op \in Views /\ calls[d].pc # "done" /\ k.op \in Marking
                        THEN [calls[d] EXCEPT !.since = @ \cup set] ELSE calls[d]
<1>0. /\ k \in ReviewCalls /\ k.pc = "write" /\ FilesTyped /\ calls \in [Caller -> ReviewCalls]
      /\ flock = c /\ Unset \notin Caller
  BY CallIs, ReviewAssumption DEF MarksInv, FilesTyped, WriteMarks
<1>1. /\ k.op \in Views \cup Marking /\ k.seen = marks
      /\ new \in [File -> Content \cup {Unset}]
      /\ \A f \in File : k.op \in Views /\ new[f] # marks[f] => new[f] = Unset
  BY <1>0, WriteGives DEF Views, Marking
<1>2. /\ marks' = new /\ flock' = Unset /\ UNCHANGED <<tree, agent, comments, left, told>>
      /\ kept' = {f \in File : /\ new[f] # Unset
                               /\ IF new[f] = marks[f] THEN f \in kept ELSE new[f] = tree[f]}
      /\ calls' = [d \in Caller |-> IF d = c THEN mine ELSE theirs(d)]
  BY DEF WriteMarks
<1> HIDE DEF new
<1>3. set \in SUBSET File
  OBVIOUS
<1>4. mine \in ReviewCalls /\ mine.pc = "done"
  BY <1>0, <1>1, EmptyTypes DEF ReviewCalls, Snapshot
<1>5. ASSUME NEW d \in Caller
      PROVE  /\ theirs(d) \in ReviewCalls
             /\ \E since \in SUBSET File :
                  /\ theirs(d) = [calls[d] EXCEPT !.since = since] /\ calls[d].since \subseteq since
                  /\ calls[d].op \in Views /\ calls[d].pc # "done" /\ k.op \in Marking
                       => set \subseteq since
  <2>1. calls[d] \in ReviewCalls
    BY <1>0
  <2>2. CASE calls[d].op \in Views /\ calls[d].pc # "done" /\ k.op \in Marking
    <3>1. calls[d].since \cup set \in SUBSET File
      BY <2>1 DEF ReviewCalls
    <3> QED  BY <2>1, <2>2, <3>1 DEF ReviewCalls
  <2>3. CASE ~(calls[d].op \in Views /\ calls[d].pc # "done" /\ k.op \in Marking)
    <3>1. theirs(d) = calls[d] /\ calls[d].since \in SUBSET File
          /\ calls[d] = [calls[d] EXCEPT !.since = calls[d].since]
      BY <2>1, <2>3 DEF ReviewCalls
    <3> QED  BY <2>1, <2>3, <3>1
  <2> QED  BY <2>2, <2>3
<1> HIDE DEF set, mine, theirs
<1>6. FilesTyped'
  BY <1>0, <1>1, <1>2, <1>4, <1>5 DEF FilesTyped
<1>7. \A d \in Caller : flock' = d <=> calls'[d].pc = "write"
  <2> SUFFICES ASSUME NEW d \in Caller PROVE calls'[d].pc # "write"
    BY <1>0, <1>2
  <2>1. CASE d = c
    BY <1>2, <1>4, <2>1
  <2>2. CASE d # c
    <3>1. calls[d].pc # "write" /\ calls[d] \in ReviewCalls
      BY <1>0, <2>2 DEF MarksInv
    <3>2. theirs(d).pc = calls[d].pc
      BY <1>5, <3>1 DEF ReviewCalls
    <3> QED  BY <1>2, <2>2, <3>1, <3>2
  <2> QED  BY <2>1, <2>2
<1>8. \A f \in kept' : marks'[f] # Unset /\ marks'[f] = tree'[f]
  BY <1>2 DEF MarksInv
<1>9. ASSUME NEW d \in Caller PROVE MarkShape(calls[d])'
  <2>1. CASE d = c
    BY <1>2, <1>4, <2>1 DEF MarkShape, KnowsKept, Composed
  <2>2. CASE d # c
    <3>1. calls[d].pc # "write" /\ calls[d] \in ReviewCalls /\ MarkShape(calls[d]) /\ calls'[d] = theirs(d)
      BY <1>0, <1>2, <2>2 DEF MarksInv
    <3>2. PICK since \in SUBSET File :
                  /\ theirs(d) = [calls[d] EXCEPT !.since = since] /\ calls[d].since \subseteq since
                  /\ calls[d].op \in Views /\ calls[d].pc # "done" /\ k.op \in Marking
                       => set \subseteq since
      BY <1>5
    <3>3. /\ calls'[d].op = calls[d].op /\ calls'[d].pc = calls[d].pc /\ calls'[d].whole = calls[d].whole
          /\ calls'[d].diff = calls[d].diff /\ calls'[d].sel = calls[d].sel /\ calls'[d].since = since
      BY <3>1, <3>2 DEF ReviewCalls
    <3>4. ASSUME calls[d].op \in Views, calls[d].pc \in Composed, calls[d].whole, NEW f \in kept'
          PROVE  f \in since \/ calls[d].diff[f] = marks'[f]
      <4>0. calls[d].pc # "done" /\ f \in File
        BY <1>2, <3>4 DEF Composed
      <4>1. CASE new[f] = marks[f]
        BY <1>2, <3>1, <3>2, <3>4, <4>1 DEF MarkShape, KnowsKept
      <4>2. CASE new[f] # marks[f]
        <5>1. new[f] # Unset
          BY <1>2, <3>4
        <5>2. k.op \in Marking /\ f \in set
          BY <1>1, <4>0, <4>2, <5>1 DEF set
        <5> QED  BY <3>2, <3>4, <4>0, <5>2
      <4> QED  BY <4>1, <4>2
    <3>5. KnowsKept(calls[d])'
      BY <3>3, <3>4 DEF KnowsKept
    <3> QED  BY <3>1, <3>3, <3>5 DEF MarkShape
  <2> QED  BY <2>1, <2>2
<1> QED  BY <1>6, <1>7, <1>8, <1>9 DEF MarksInv

LEMMA TouchMarks == ASSUME MarksInv, NEW f \in File, Touch(f) PROVE MarksInv'
<1>1. PICK v \in Version[f] \ {tree[f]} :
             /\ tree' = [tree EXCEPT ![f] = v]
             /\ kept' = kept \ {f}
             /\ left' = left \cup {id \in Comment : /\ v = Absent /\ FileOf[id] = f
                                                    /\ comments[id] # "none"}
             /\ UNCHANGED <<agent, comments, marks, flock, told, calls>>
  BY DEF Touch
<1>2. tree \in Trees /\ tree \in [File -> Content \cup {Absent}]
  BY TreeType DEF MarksInv, FilesTyped
<1>3. v \in Content \cup {Absent}
  BY DEF Content
<1>4. tree' \in [File -> Content \cup {Absent}] /\ \A g \in File : tree'[g] \in Version[g]
  BY <1>1, <1>2, <1>3 DEF Trees
<1>5. tree' \in Trees
  BY <1>4 DEF Trees, Diff
<1>6. FilesTyped'
  BY <1>1, <1>5 DEF MarksInv, FilesTyped
<1>7. \A d \in Caller : MarkShape(calls[d])'
  BY <1>1 DEF MarksInv, MarkShape, KnowsKept
<1>8. \A g \in kept' : marks'[g] # Unset /\ marks'[g] = tree'[g]
  BY <1>1, <1>2 DEF MarksInv, FilesTyped
<1> QED  BY <1>1, <1>6, <1>7, <1>8 DEF MarksInv

LEMMA AgentMarks == ASSUME MarksInv, AgentMoves PROVE MarksInv'
  BY DEF AgentMoves, MarksInv, FilesTyped, MarkShape, KnowsKept

LEMMA StepMarks == ASSUME MarksInv, NEW c \in Caller, Step(c) PROVE MarksInv'
  BY ComposeMarks, LoadMoves, SaveMarks, LockTakes, MarksWritten, ApplyMarks DEF Step

LEMMA RequestMarks == ASSUME MarksInv, NEW c \in Caller, RequestArrives(c) PROVE MarksInv'
<1>1. ASSUME NEW prev \in {NoDiff, tree}, NEW op \in Views, BeginView(c, op, prev) PROVE MarksInv'
  <2>1. prev \in Diff
    BY NoDiffType, TreeType DEF MarksInv
  <2> QED  BY <1>1, <2>1, ArrivingView, BeginMarks DEF BeginView
<1>2. ASSUME NEW sel \in Pins, NEW op \in Marking, NEW on \in BOOLEAN, BeginMark(c, op, sel, on)
      PROVE  MarksInv'
  <2>1. sel \in Selection
    BY ReviewAssumption
  <2> QED  BY <1>2, <2>1, ArrivingMark, BeginMarks DEF BeginMark
<1>3. ASSUME BeginApply(c) PROVE MarksInv'
  BY <1>3, ArrivingApply, BeginMarks DEF BeginApply
<1>4. ASSUME NEW id \in Comment, NEW op \in {"add", "delete"}, BeginComment(c, op, id) PROVE MarksInv'
  BY <1>4, ArrivingComment, BeginMarks DEF BeginComment
<1> QED  BY <1>1, <1>2, <1>3, <1>4 DEF RequestArrives, Views

LEMMA MarksInit == ReviewInit => MarksInv
<1> SUFFICES ASSUME ReviewInit PROVE MarksInv
  OBVIOUS
<1>1. FilesTyped
  BY NoReviewCall, EmptyTypes, ReviewAssumption DEF ReviewInit, FilesTyped
<1>2. \A c \in Caller : MarkShape(calls[c])
  BY NoReviewCall DEF ReviewInit, MarkShape, KnowsKept, Views, Marking, Composed
<1>3. \A c \in Caller : flock = c <=> calls[c].pc = "write"
  BY NoReviewCall, ReviewAssumption DEF ReviewInit
<1> QED  BY <1>1, <1>2, <1>3 DEF ReviewInit, MarksInv

LEMMA MarksNext == MarksInv /\ [FilesNext]_reviewVars => MarksInv'
<1> SUFFICES ASSUME MarksInv, [FilesNext]_reviewVars PROVE MarksInv'
  OBVIOUS
<1>1. CASE UNCHANGED reviewVars
  BY <1>1 DEF reviewVars, files, MarksInv, FilesTyped, MarkShape, KnowsKept
<1>2. CASE FilesNext
  BY <1>2, RequestMarks, StepMarks, EndMarks, TouchMarks, AgentMarks DEF FilesNext
<1> QED  BY <1>1, <1>2

LEMMA MarksInvariance == FilesSpec => []MarksInv
  BY MarksInit, MarksNext, PTL DEF FilesSpec

(* The two files and the calls on them are well formed, and the holder of  *)
(* the marks' flock is the one caller between its read and its write.      *)
THEOREM ReviewTypeCorrect == FilesSpec => []ReviewTypeOK
<1>1. MarksInv => ReviewTypeOK
  BY DEF MarksInv, FilesTyped, ReviewTypeOK, Statuses
<1> QED  BY <1>1, MarksInvariance, PTL

(* Who writes the marks, and what it may change.                           *)
LEMMA KeptStay ==
  ASSUME MarksInv, [FilesNext]_reviewVars, NEW f \in kept, marks'[f] # marks[f]
  PROVE  \E c \in Caller : calls[c].op \in Marking /\ calls[c].pc = "write" /\ calls[c].sel[f] # Unset
<1>1. PICK c \in Caller : WriteMarks(c)
  <2>1. marks' # marks
    OBVIOUS
  <2>2. ASSUME NEW c \in Caller, RequestArrives(c) PROVE marks' = marks
    BY <2>2 DEF RequestArrives, BeginView, BeginMark, BeginApply, BeginComment, Begin, files
  <2>3. ASSUME NEW c \in Caller, Step(c), ~WriteMarks(c) PROVE marks' = marks
    BY <2>3 DEF Step, Compose, LoadComments, SaveComments, LoadMarks, LockMarks, NotDelivered,
                Deliver, MarkApplied, files
  <2>4. ASSUME NEW c \in Caller, Fail(c) \/ Answered(c) PROVE marks' = marks
    BY <2>4 DEF Fail, Answered, files
  <2>5. ASSUME NEW g \in File, Touch(g) PROVE marks' = marks
    BY <2>5 DEF Touch
  <2>6. AgentMoves \/ UNCHANGED reviewVars => marks' = marks
    BY DEF AgentMoves, reviewVars, files
  <2> QED  BY <2>1, <2>2, <2>3, <2>4, <2>5, <2>6 DEF FilesNext
<1>2. /\ calls[c].pc = "write" /\ f \in File
      /\ marks' = IF calls[c].op \in Views THEN Pruned(c) ELSE Marked(calls[c])
  BY <1>1 DEF WriteMarks, MarksInv, FilesTyped
<1>3. /\ calls[c].op \in Views \cup Marking /\ calls[c].seen = marks /\ MarkShape(calls[c])
      /\ calls[c].op \in Marking /\ calls[c].sel[f] = Unset => Marked(calls[c])[f] = marks[f]
  BY <1>2, WriteGives DEF MarksInv
<1>4. CASE calls[c].op \in Views
  <2>1. Pruned(c)[f] # calls[c].seen[f] /\ f \in Invalidated(marks, c)
    BY <1>2, <1>3, <1>4 DEF Pruned
  <2>2. f \notin calls[c].since /\ ~Holds(calls[c].diff, f, marks[f]) /\ marks[f] # Unset
    BY <2>1 DEF Invalidated, InvalidatedAtAnyAge
  <2>3. f \in calls[c].since \/ calls[c].diff[f] = marks[f]
    BY <1>2, <1>3, <1>4 DEF MarkShape, KnowsKept, Composed
  <2> QED  BY <2>2, <2>3 DEF Holds
<1>5. CASE calls[c].op \in Marking
  <2>1. calls[c].op \notin Views
    BY <1>5 DEF Views, Marking
  <2> QED  BY <1>2, <1>3, <1>5, <2>1
<1> QED  BY <1>3, <1>4, <1>5

(* A reviewed mark survives as long as the file is as it was when marked:  *)
(* a view that prunes on an older diff, or on one that misses files, never *)
(* takes it, and a mark of another file never loses it, for any number of  *)
(* callers, files and calls in flight.                                     *)
THEOREM ReviewedMarksSurvive == FilesSpec => MarksSurvive
<1>1. MarksInv /\ [FilesNext]_reviewVars =>
        [\A f \in kept : marks'[f] # marks[f] =>
           \E c \in Caller : calls[c].op \in Marking /\ calls[c].pc = "write"
                             /\ calls[c].sel[f] # Unset]_reviewVars
  BY KeptStay
<1> QED  BY <1>1, MarksInvariance, PTL DEF FilesSpec, MarksSurvive

-----------------------------------------------------------------------------
(* The marks as the table that MarkTable promises.                         *)

LEMMA NothingAsked ==
  ASSUME NEW k, k.op \notin Marking \/ k.pc \notin {"lock", "write"}
  PROVE  Asked(k) = Table!NoRequest
BY DEF Asked, Table!NoRequest, NoMarks

(* A call that asks for nothing from here on has dropped its request.      *)
LEMMA AskedNoMore ==
  ASSUME MarksInv, NEW c \in Caller, NEW k, calls' = [calls EXCEPT ![c] = k],
         k.op \notin Marking \/ k.pc \notin {"lock", "write"}, UNCHANGED <<tree, marks, kept>>
  PROVE  Table!Drop(c)
<1>1. calls \in [Caller -> ReviewCalls]
  BY DEF MarksInv, FilesTyped
<1>2. Asked(k) = Table!NoRequest
  BY NothingAsked
<1>3. [d \in Caller |-> Asked(calls'[d])] =
        [[d \in Caller |-> Asked(calls[d])] EXCEPT ![c] = Table!NoRequest]
  BY <1>1, <1>2
<1> QED  BY <1>3 DEF Table!Drop, Asked

(* A call asks for the files of its selection, as they are in the tree.    *)
LEMMA AskedToMark ==
  ASSUME MarksInv, NEW c \in Caller, Compose(c)
  PROVE  Table!Ask(c) \/ Table!Drop(c)
<1>0. /\ calls \in [Caller -> ReviewCalls] /\ calls[c].pc = "compose" /\ UNCHANGED <<tree, marks, kept>>
      /\ calls[c].on \in BOOLEAN
  BY CallIs DEF MarksInv, FilesTyped, Compose, files, ReviewCalls
<1>1. PICK whole \in BOOLEAN, gone \in SUBSET File :
       LET seen == [f \in File |-> IF f \in gone THEN Absent ELSE tree[f]]
           read == [calls[c] EXCEPT !.diff = seen, !.whole = whole]
           pinned == [f \in File |-> IF calls[c].sel[f] = Unset THEN Unset ELSE seen[f]]
       IN CASE calls[c].op \in Marking ->
                 Becomes(c, IF Resolves(calls[c].sel, seen)
                            THEN [calls[c] EXCEPT !.pc = "lock", !.sel = pinned]
                            ELSE NoCall)
            [] calls[c].op = "refresh" /\ seen = calls[c].prev ->
                 Becomes(c, [NoCall EXCEPT !.op = "refresh", !.pc = "same"])
            [] OTHER -> Becomes(c, [read EXCEPT !.pc = "load"])
  BY DEF Compose
<1> DEFINE seen == [f \in File |-> IF f \in gone THEN Absent ELSE tree[f]]
           S == {f \in File : calls[c].sel[f] # Unset}
           pinned == [f \in File |-> IF calls[c].sel[f] = Unset THEN Unset ELSE seen[f]]
           k == [calls[c] EXCEPT !.pc = "lock", !.sel = pinned]
<1>2. CASE calls[c].op \in Marking /\ Resolves(calls[c].sel, seen)
  <2>1. calls' = [calls EXCEPT ![c] = k]
    BY <1>1, <1>2 DEF Becomes, Marking
  <2>2. k.op = calls[c].op /\ k.on = calls[c].on /\ k.pc = "lock" /\ k.sel = pinned
    BY <1>0, CallIs DEF MarksInv, ReviewCalls
  <2>3. \A f \in S : seen[f] = tree[f] /\ tree[f] # Absent
    BY <1>2 DEF Resolves
  <2>4. pinned = [f \in File |-> IF f \in S THEN tree[f] ELSE Unset] /\ S \in SUBSET {f \in File : tree[f] # Absent}
    BY <2>3
  <2>5. Asked(k) = [op |-> calls[c].op, on |-> calls[c].on, pin |-> pinned]
    BY <1>2, <2>2 DEF Asked
  <2>6. Asked(calls[c]) = Table!NoRequest
    BY <1>0, NothingAsked
  <2> HIDE DEF k, S
  <2>7. [d \in Caller |-> Asked(calls'[d])] =
          [[d \in Caller |-> Asked(calls[d])] EXCEPT ![c] =
             [op |-> calls[c].op, on |-> calls[c].on, pin |-> pinned]]
    BY <1>0, <2>1, <2>5
  <2> HIDE DEF pinned
  <2>8. calls[c].op \in {"set", "toggle"}
    BY <1>2 DEF Marking
  <2>9. [d \in Caller |-> Asked(calls[d])]' =
          [[d \in Caller |-> Asked(calls[d])] EXCEPT ![c] =
             [op |-> calls[c].op, on |-> calls[c].on,
              pin |-> [f \in File |-> IF f \in S THEN tree[f] ELSE Unset]]]
    BY <2>4, <2>7 DEF Asked
  <2> QED  BY <1>0, <2>4, <2>6, <2>8, <2>9 DEF Table!Ask
<1>3. CASE ~(calls[c].op \in Marking /\ Resolves(calls[c].sel, seen))
  <2>1. PICK j : /\ calls' = [calls EXCEPT ![c] = j]
                 /\ j.op \notin Marking \/ j.pc \notin {"lock", "write"}
    <3>1. CASE calls[c].op \in Marking
      <4>1. calls' = [calls EXCEPT ![c] = NoCall]
        BY <1>1, <1>3, <3>1 DEF Becomes, Marking
      <4> QED  BY <4>1, NoReviewCall
    <3>2. CASE calls[c].op \notin Marking
      <4> DEFINE same == [NoCall EXCEPT !.op = "refresh", !.pc = "same"]
                 load == [[calls[c] EXCEPT !.diff = seen, !.whole = whole] EXCEPT !.pc = "load"]
      <4>1. same.pc = "same" /\ load.pc = "load"
        BY <1>0, CallIs DEF MarksInv, ReviewCalls, NoCall
      <4>2. calls' = [calls EXCEPT ![c] = same] \/ calls' = [calls EXCEPT ![c] = load]
        BY <1>1, <3>2 DEF Becomes
      <4> HIDE DEF same, load
      <4> QED  BY <4>1, <4>2
    <3> QED  BY <3>1, <3>2
  <2> QED  BY <1>0, <2>1, AskedNoMore
<1> QED  BY <1>2, <1>3

(* A request is carried out when its marks are written, and a view's write *)
(* prunes nothing that has matched the tree ever since it was marked.      *)
LEMMA WrittenAtOnce ==
  ASSUME MarksInv, NEW c \in Caller, WriteMarks(c)
  PROVE  Table!Mark(c) \/ \E F \in SUBSET File : Table!Prune(F)
<1>0. /\ calls \in [Caller -> ReviewCalls] /\ calls[c].pc = "write" /\ calls[c].seen = marks
      /\ calls[c].op \in Views \cup Marking /\ MarkShape(calls[c])
      /\ marks \in [File -> Content \cup {Unset}] /\ kept \subseteq File
      /\ \A f \in kept : marks[f] # Unset
  BY WriteGives DEF MarksInv, FilesTyped, WriteMarks
<1> DEFINE new == IF calls[c].op \in Views THEN Pruned(c) ELSE Marked(calls[c])
<1>1. /\ marks' = new /\ UNCHANGED tree
      /\ kept' = {f \in File : /\ new[f] # Unset
                               /\ IF new[f] = marks[f] THEN f \in kept ELSE new[f] = tree[f]}
  BY DEF WriteMarks
<1>2. \A d \in Caller \ {c} : Asked(calls'[d]) = Asked(calls[d])
  <2> SUFFICES ASSUME NEW d \in Caller \ {c} PROVE Asked(calls'[d]) = Asked(calls[d])
    OBVIOUS
  <2>1. PICK since : calls'[d] \in {calls[d], [calls[d] EXCEPT !.since = since]}
    <3> DEFINE more == calls[d].since \cup {f \in File : new[f] # calls[c].seen[f]}
    <3>1. calls'[d] = calls[d] \/ calls'[d] = [calls[d] EXCEPT !.since = more]
      BY DEF WriteMarks
    <3> HIDE DEF more
    <3> QED  BY <3>1
  <2>2. calls[d] \in ReviewCalls
    BY <1>0
  <2>3. /\ calls'[d].op = calls[d].op /\ calls'[d].pc = calls[d].pc
        /\ calls'[d].on = calls[d].on /\ calls'[d].sel = calls[d].sel
    BY <2>1, <2>2 DEF ReviewCalls
  <2> QED  BY <2>3 DEF Asked
<1>3. Asked(calls'[c]) = Table!NoRequest
  <2>1. calls'[c].pc = "done"
    BY <1>0, CallIs DEF WriteMarks, Snapshot, MarksInv, ReviewCalls
  <2> QED  BY <2>1, NothingAsked
<1>4. [d \in Caller |-> Asked(calls'[d])] =
        [[d \in Caller |-> Asked(calls[d])] EXCEPT ![c] = Table!NoRequest]
  BY <1>2, <1>3
<1>5. CASE calls[c].op \in Marking
  <2>1. calls[c].op \notin Views
    BY <1>5 DEF Views, Marking
  <2>2. Asked(calls[c]) = [op |-> calls[c].op, on |-> calls[c].on, pin |-> calls[c].sel]
    BY <1>0, <1>5 DEF Asked
  <2>3. Asked(calls[c]) # Table!NoRequest
    BY <1>5, <2>2 DEF Table!NoRequest, Marking
  <2>4. new = [f \in File |-> IF Asked(calls[c]).pin[f] = Unset THEN marks[f]
                              ELSE IF Table!Wanted(Asked(calls[c]), f) THEN Asked(calls[c]).pin[f] ELSE Unset]
    BY <1>0, <2>1, <2>2 DEF Marked, Table!Wanted
  <2> HIDE DEF new
  <2> QED  BY <1>1, <1>4, <2>3, <2>4 DEF Table!Mark, Asked
<1>6. CASE calls[c].op \in Views
  <2> DEFINE F == Invalidated(marks, c)
  <2>1. F \in SUBSET File /\ new = [f \in File |-> IF f \in F THEN Unset ELSE marks[f]]
    BY <1>0, <1>6 DEF Pruned, Invalidated, InvalidatedAtAnyAge
  <2>2. F \cap kept = {}
    <3> SUFFICES ASSUME NEW f \in kept, f \in F PROVE FALSE
      OBVIOUS
    <3>1. f \notin calls[c].since /\ ~Holds(calls[c].diff, f, marks[f]) /\ marks[f] # Unset
      BY DEF Invalidated, InvalidatedAtAnyAge
    <3>2. f \in calls[c].since \/ calls[c].diff[f] = marks[f]
      BY <1>0, <1>6 DEF MarkShape, KnowsKept, Composed
    <3> QED  BY <3>1, <3>2 DEF Holds
  <2> HIDE DEF F, new
  <2>3. kept' = kept
    BY <1>0, <1>1, <2>1, <2>2
  <2>4. Asked(calls[c]) = Table!NoRequest
    BY <1>6, NothingAsked DEF Views, Marking
  <2>5. [d \in Caller |-> Asked(calls'[d])] = [d \in Caller |-> Asked(calls[d])]
    BY <1>4, <2>4
  <2>6. Table!Prune(F)
    BY <1>1, <2>1, <2>2, <2>3, <2>5 DEF Table!Prune, Asked
  <2> QED  BY <2>1, <2>6
<1> QED  BY <1>0, <1>5, <1>6

LEMMA TableStep == MarksInv /\ [FilesNext]_reviewVars => [Table!TableNext]_(Table!tableVars)
<1> SUFFICES ASSUME MarksInv, [FilesNext]_reviewVars
             PROVE  Table!TableNext \/ UNCHANGED Table!tableVars
  OBVIOUS
<1>0. calls \in [Caller -> ReviewCalls]
  BY DEF MarksInv, FilesTyped
<1>1. CASE UNCHANGED <<tree, marks, kept, calls>>
  BY <1>1 DEF Table!tableVars, Asked
<1>2. ASSUME NEW c \in Caller, NEW k, calls' = [calls EXCEPT ![c] = k],
             k.op \notin Marking \/ k.pc \notin {"lock", "write"}, UNCHANGED <<tree, marks, kept>>
      PROVE  Table!TableNext
  BY <1>2, AskedNoMore DEF Table!TableNext
<1>3. ASSUME NEW c \in Caller, RequestArrives(c) PROVE Table!TableNext
  <2>1. PICK r : Begin(c, r) /\ r.pc \in {"compose", "load"}
    <3>1. ASSUME NEW op \in Views, NEW prev, BeginView(c, op, prev)
          PROVE  \E r : Begin(c, r) /\ r.pc \in {"compose", "load"}
      <4> DEFINE r == [NoCall EXCEPT !.op = op, !.pc = "compose", !.prev = prev]
      <4>1. Begin(c, r) /\ r.pc = "compose"
        BY <3>1 DEF BeginView, NoCall
      <4> HIDE DEF r
      <4> QED  BY <4>1
    <3>2. ASSUME NEW op, NEW sel, NEW on, BeginMark(c, op, sel, on)
          PROVE  \E r : Begin(c, r) /\ r.pc \in {"compose", "load"}
      <4> DEFINE r == [NoCall EXCEPT !.op = op, !.pc = "compose", !.sel = sel, !.on = on]
      <4>1. Begin(c, r) /\ r.pc = "compose"
        BY <3>2 DEF BeginMark, NoCall
      <4> HIDE DEF r
      <4> QED  BY <4>1
    <3>3. ASSUME BeginApply(c) PROVE \E r : Begin(c, r) /\ r.pc \in {"compose", "load"}
      <4> DEFINE r == [NoCall EXCEPT !.op = "apply", !.pc = "compose"]
      <4>1. Begin(c, r) /\ r.pc = "compose"
        BY <3>3 DEF BeginApply, NoCall
      <4> HIDE DEF r
      <4> QED  BY <4>1
    <3>4. ASSUME NEW id, NEW op, BeginComment(c, op, id)
          PROVE  \E r : Begin(c, r) /\ r.pc \in {"compose", "load"}
      <4> DEFINE r == [NoCall EXCEPT !.op = op, !.pc = "load", !.id = id]
      <4>1. Begin(c, r) /\ r.pc = "load"
        BY <3>4 DEF BeginComment, NoCall
      <4> HIDE DEF r
      <4> QED  BY <4>1
    <3> QED  BY <1>3, <3>1, <3>2, <3>3, <3>4 DEF RequestArrives, Views
  <2>2. calls' = [calls EXCEPT ![c] = r] /\ UNCHANGED <<tree, marks, kept>>
    BY <2>1 DEF Begin, Becomes, files
  <2> QED  BY <1>2, <2>1, <2>2
<1>4. ASSUME NEW c \in Caller, Step(c) PROVE Table!TableNext \/ UNCHANGED Table!tableVars
  <2>0. calls[c] \in ReviewCalls /\ MarkShape(calls[c])
    BY <1>0 DEF MarksInv
  <2>1. CASE Compose(c)
    BY <2>1, AskedToMark DEF Table!TableNext
  <2>2. CASE LoadComments(c)
    <3> DEFINE k == [calls[c] EXCEPT !.pc = "save", !.list = comments]
    <3>1. calls' = [calls EXCEPT ![c] = k] /\ k.pc = "save" /\ UNCHANGED <<tree, marks, kept>>
      BY <2>0, <2>2 DEF LoadComments, Becomes, files, ReviewCalls
    <3> HIDE DEF k
    <3> QED  BY <1>2, <3>1
  <2>3. CASE SaveComments(c)
    <3>1. PICK list : calls' = [calls EXCEPT ![c] =
             CASE calls[c].op \in Views -> [calls[c] EXCEPT !.pc = "marks", !.list = list]
               [] calls[c].op = "apply" -> [calls[c] EXCEPT !.pc = "decide", !.list = list]
               [] OTHER -> NoCall]
      BY <2>3 DEF SaveComments, Becomes
    <3> DEFINE k == CASE calls[c].op \in Views -> [calls[c] EXCEPT !.pc = "marks", !.list = list]
                      [] calls[c].op = "apply" -> [calls[c] EXCEPT !.pc = "decide", !.list = list]
                      [] OTHER -> NoCall
    <3>2. k.pc \in {"marks", "decide", "idle"}
      BY <2>0, NoReviewCall DEF ReviewCalls, Views
    <3>3. calls' = [calls EXCEPT ![c] = k] /\ UNCHANGED <<tree, marks, kept>>
      BY <2>3, <3>1 DEF SaveComments
    <3> HIDE DEF k
    <3> QED  BY <1>2, <3>2, <3>3
  <2>4. CASE LoadMarks(c)
    <3> DEFINE lock == [calls[c] EXCEPT !.pc = "lock"]
               done == Snapshot(calls[c], marks)
    <3>1. /\ calls' = [calls EXCEPT ![c] = lock] \/ calls' = [calls EXCEPT ![c] = done]
          /\ UNCHANGED <<tree, marks, kept>> /\ calls[c].op \in Views
      BY <2>0, <2>4 DEF LoadMarks, Becomes, files, MarkShape
    <3>2. lock.op \notin Marking /\ done.pc = "done"
      BY <2>0, <3>1 DEF ReviewCalls, Snapshot, Views, Marking
    <3> HIDE DEF lock, done
    <3> QED  BY <1>2, <3>1, <3>2
  <2>5. CASE LockMarks(c)
    <3> DEFINE k == [calls[c] EXCEPT !.pc = "write", !.seen = marks]
    <3>1. /\ calls' = [calls EXCEPT ![c] = k] /\ calls[c].pc = "lock" /\ UNCHANGED <<tree, marks, kept>>
          /\ k.op = calls[c].op /\ k.pc = "write" /\ k.on = calls[c].on /\ k.sel = calls[c].sel
      BY <2>0, <2>5 DEF LockMarks, Becomes, ReviewCalls
    <3> HIDE DEF k
    <3>2. Asked(k) = Asked(calls[c])
      BY <3>1 DEF Asked
    <3>3. [d \in Caller |-> Asked(calls'[d])] = [d \in Caller |-> Asked(calls[d])]
      BY <1>0, <3>1, <3>2
    <3> QED  BY <3>1, <3>3 DEF Table!tableVars, Asked
  <2>6. CASE WriteMarks(c)
    BY <2>6, WrittenAtOnce DEF Table!TableNext
  <2>7. CASE NotDelivered(c) \/ MarkApplied(c)
    <3>1. calls' = [calls EXCEPT ![c] = NoCall] /\ UNCHANGED <<tree, marks, kept>>
      BY <2>7 DEF NotDelivered, MarkApplied, Becomes, files
    <3> QED  BY <1>2, <3>1, NoReviewCall
  <2>8. CASE Deliver(c)
    <3> DEFINE k == [calls[c] EXCEPT !.pc = "applied"]
    <3>1. calls' = [calls EXCEPT ![c] = k] /\ k.pc = "applied" /\ UNCHANGED <<tree, marks, kept>>
      BY <2>0, <2>8 DEF Deliver, MovesTo, Becomes, ReviewCalls
    <3> HIDE DEF k
    <3> QED  BY <1>2, <3>1
  <2> QED  BY <1>4, <2>1, <2>2, <2>3, <2>4, <2>5, <2>6, <2>7, <2>8 DEF Step
<1>5. ASSUME NEW c \in Caller, Fail(c) \/ Answered(c) PROVE Table!TableNext
  <2>1. calls' = [calls EXCEPT ![c] = NoCall] /\ UNCHANGED <<tree, marks, kept>>
    BY <1>5 DEF Fail, Answered, Becomes, files
  <2> QED  BY <1>2, <2>1, NoReviewCall
<1>6. ASSUME NEW f \in File, Touch(f) PROVE Table!TableNext
  BY <1>6 DEF Touch, Table!TableNext, Table!Edited, Asked
<1> QED
  BY <1>1, <1>3, <1>4, <1>5, <1>6 DEF FilesNext, AgentMoves, reviewVars, files

(* The reviewed marks implement MarkTable, for any callers, files and      *)
(* calls in flight: under the flock each set or toggle is carried out in   *)
(* one step on the marks as they are then, pinned to the files as they     *)
(* were when it was resolved, and a view's prune, whatever its diff, takes *)
(* none that has matched the tree since it was set.                        *)
THEOREM MarksImplementTable == FilesSpec => MarksAreATable
<1>1. ReviewInit => Table!TableInit
  <2> SUFFICES ASSUME ReviewInit PROVE Table!TableInit
    OBVIOUS
  <2>1. \A c \in Caller : Asked(calls[c]) = Table!NoRequest
    BY NoReviewCall, NothingAsked DEF ReviewInit
  <2>2. [c \in Caller |-> Asked(calls[c])] = [c \in Caller |-> Table!NoRequest]
    BY <2>1
  <2>3. tree \in Table!Trees
    BY DEF ReviewInit, Trees, Diff, Table!Trees
  <2> QED  BY <2>2, <2>3 DEF ReviewInit, Table!TableInit, NoMarks
<1> QED
  BY <1>1, TableStep, MarksInvariance, PTL DEF FilesSpec, MarksAreATable, Table!TableSpec

-----------------------------------------------------------------------------
Saving == Views \cup {"apply", "add", "delete"}

(* Where a call that rewrites the comments may stand: what it is about to  *)
(* save is the list as it is, and what its diff misses has been out of the *)
(* tree.                                                                   *)
NotesShape(k) ==
  /\ k.pc = "compose" => k.op \in Saving \cup Marking
  /\ k.pc \in {"load", "save", "marks", "decide", "applied"} => k.op \in Saving
  /\ k.pc \in {"save", "decide", "applied"} => k.list = comments
  /\ k.op \in Views /\ k.pc \in {"load", "save"} /\ k.whole =>
       \A id \in Comment : comments[id] # "none" /\ IsOrphaned(id, k.diff) => id \in left

OneWriter == \A c, d \in Writers : c = d
OutIsLeft == \A id \in Comment : comments[id] # "none" /\ IsOrphaned(id, tree) => id \in left

NotesInv == /\ MarksInv /\ OneWriter /\ OutIsLeft
            /\ \A c \in Caller : NotesShape(calls[c])

(* A call moves and leaves the comments.                                   *)
LEMMA MoveNotes ==
  ASSUME NotesInv, MarksInv', NEW c \in Caller, NEW k, calls' = [calls EXCEPT ![c] = k],
         k.op \in {"none", calls[c].op}, NotesShape(k), UNCHANGED <<tree, comments, left>>
  PROVE  NotesInv'
<1>0. calls \in [Caller -> ReviewCalls]
  BY DEF NotesInv, MarksInv, FilesTyped
<1>1. Writers' \subseteq Writers
  BY <1>0 DEF Writers, Views
<1>2. OneWriter'
  BY <1>1 DEF NotesInv, OneWriter
<1>3. \A d \in Caller : NotesShape(calls[d])'
  BY <1>0 DEF NotesInv, NotesShape, IsOrphaned
<1>4. OutIsLeft'
  BY DEF NotesInv, OutIsLeft, IsOrphaned
<1> QED  BY <1>2, <1>3, <1>4 DEF NotesInv

LEMMA IdleNotes == NotesShape(NoCall)
  BY NoReviewCall DEF NotesShape, Views

(* With one writer at a time a call that begins is the only one.           *)
LEMMA BeginNotes ==
  ASSUME MaxWriters = 1, IsFiniteSet(Caller), NotesInv, MarksInv', NEW c \in Caller, NEW r,
         Begin(c, r), Arriving(r), r.op \in Saving \cup Marking, r.pc = "load" => r.op \notin Views
  PROVE  NotesInv'
<1>0. /\ calls \in [Caller -> ReviewCalls] /\ calls' = [calls EXCEPT ![c] = r] /\ UNCHANGED files
      /\ r.op \in Marking \/ Cardinality(Writers) < 1
  BY DEF NotesInv, MarksInv, FilesTyped, Begin, Becomes
<1>1. OneWriter'
  <2>1. CASE r.op \in Marking
    <3>1. Writers' \subseteq Writers
      BY <1>0, <2>1 DEF Writers, Views, Marking
    <3> QED  BY <3>1 DEF NotesInv, OneWriter
  <2>2. CASE Cardinality(Writers) < 1
    <3>1. IsFiniteSet(Writers)
      BY FS_Subset DEF Writers
    <3>2. Cardinality(Writers) = 0
      BY <2>2, <3>1, FS_CardinalityType
    <3>3. Writers = {}
      BY <3>1, <3>2, FS_EmptySet
    <3>4. Writers' \subseteq {c}
      BY <1>0, <3>3 DEF Writers
    <3> QED  BY <3>4 DEF OneWriter
  <2> QED  BY <1>0, <2>1, <2>2
<1>2. NotesShape(r)
  BY DEF NotesShape, Arriving, Saving
<1>3. \A d \in Caller : NotesShape(calls[d])'
  BY <1>0, <1>2 DEF NotesInv, NotesShape, IsOrphaned, files
<1>4. OutIsLeft'
  BY <1>0 DEF NotesInv, OutIsLeft, IsOrphaned, files
<1> QED  BY <1>1, <1>3, <1>4 DEF NotesInv

LEMMA RequestNotes ==
  ASSUME MaxWriters = 1, IsFiniteSet(Caller), NotesInv, NEW c \in Caller, RequestArrives(c)
  PROVE  NotesInv'
<1>0. MarksInv' /\ MarksInv
  BY RequestMarks DEF NotesInv
<1>1. ASSUME NEW prev \in {NoDiff, tree}, NEW op \in Views, BeginView(c, op, prev) PROVE NotesInv'
  <2> DEFINE r == [NoCall EXCEPT !.op = op, !.pc = "compose", !.prev = prev]
  <2>1. Arriving(r)
    <3>1. prev \in Diff
      BY <1>0, NoDiffType, TreeType DEF MarksInv
    <3> QED  BY <3>1, ArrivingView
  <2>2. r.op = op /\ r.pc = "compose" /\ Begin(c, r)
    BY <1>1 DEF NoCall, BeginView
  <2> HIDE DEF r
  <2> QED  BY <1>0, <2>1, <2>2, BeginNotes DEF Saving
<1>2. ASSUME NEW sel \in Pins, NEW op \in Marking, NEW on \in BOOLEAN, BeginMark(c, op, sel, on)
      PROVE  NotesInv'
  <2> DEFINE r == [NoCall EXCEPT !.op = op, !.pc = "compose", !.sel = sel, !.on = on]
  <2>1. Arriving(r)
    BY ReviewAssumption, ArrivingMark
  <2>2. r.op = op /\ r.pc = "compose" /\ Begin(c, r)
    BY <1>2 DEF NoCall, BeginMark
  <2> HIDE DEF r
  <2> QED  BY <1>0, <2>1, <2>2, BeginNotes
<1>3. ASSUME BeginApply(c) PROVE NotesInv'
  <2> DEFINE r == [NoCall EXCEPT !.op = "apply", !.pc = "compose"]
  <2>1. Arriving(r) /\ r.op = "apply" /\ r.pc = "compose" /\ Begin(c, r)
    BY <1>3, ArrivingApply DEF NoCall, BeginApply
  <2> HIDE DEF r
  <2> QED  BY <1>0, <2>1, BeginNotes DEF Saving
<1>4. ASSUME NEW id \in Comment, NEW op \in {"add", "delete"}, BeginComment(c, op, id) PROVE NotesInv'
  <2> DEFINE r == [NoCall EXCEPT !.op = op, !.pc = "load", !.id = id]
  <2>1. Arriving(r) /\ r.op = op /\ r.pc = "load" /\ Begin(c, r)
    BY <1>4, ArrivingComment DEF NoCall, BeginComment
  <2> HIDE DEF r
  <2> QED  BY <1>0, <2>1, BeginNotes DEF Saving, Views
<1> QED  BY <1>1, <1>2, <1>3, <1>4 DEF RequestArrives, Views

(* The other calls rewrite nothing while one is at work.                   *)
LEMMA OthersRest ==
  ASSUME NotesInv, NEW c \in Writers, NEW d \in Caller \ {c}
  PROVE  /\ d \notin Writers
         /\ calls[d].pc \notin {"load", "save", "marks", "decide", "applied"}
         /\ calls[d].op \notin Views
<1>1. d \notin Writers
  BY DEF NotesInv, OneWriter
<1>2. calls[d].op \notin Saving
  BY <1>1 DEF Writers, Saving
<1> QED  BY <1>1, <1>2 DEF NotesInv, NotesShape, Saving

(* The writer of the comments is done with them.                           *)
LEMMA WriterLeaves ==
  ASSUME NotesInv, MarksInv', NEW c \in Writers, NEW k, calls' = [calls EXCEPT ![c] = k],
         k.op \in {"none", calls[c].op}, NotesShape(k)', OutIsLeft'
  PROVE  NotesInv'
<1>0. calls \in [Caller -> ReviewCalls] /\ c \in Caller
  BY DEF NotesInv, MarksInv, FilesTyped, Writers
<1>1. Writers' \subseteq Writers
  BY <1>0 DEF Writers, Views
<1>2. OneWriter'
  BY <1>1 DEF NotesInv, OneWriter
<1>3. ASSUME NEW d \in Caller PROVE NotesShape(calls[d])'
  <2>1. CASE d = c
    BY <1>0, <2>1 DEF NotesShape, IsOrphaned
  <2>2. CASE d # c
    <3>1. /\ calls[d].pc \notin {"load", "save", "marks", "decide", "applied"}
          /\ calls[d].op \notin Views /\ NotesShape(calls[d]) /\ calls'[d] = calls[d]
      BY <1>0, <2>2, OthersRest DEF NotesInv
    <3> QED  BY <3>1 DEF NotesShape
  <2> QED  BY <2>1, <2>2
<1> QED  BY <1>2, <1>3 DEF NotesInv

(* What is saved: nothing but what a delete names, or what a whole diff    *)
(* misses, is gone from it.                                                *)
LEMMA WhatIsSaved ==
  ASSUME NotesInv, NEW c \in Caller, SaveComments(c), NEW id \in Comment
  PROVE  /\ comments[id] # "none" /\ comments'[id] = "none" =>
              id \in left \/ (Stands(c, {"delete"}, "save") /\ calls[c].id = id)
         /\ comments'[id] # "none" =>
              comments[id] # "none" \/ (calls[c].op = "add" /\ calls[c].id = id)
<1> DEFINE k == calls[c]
           gone == IF k.op \in Views /\ CanPrune(c) THEN Orphans(k.list, k.diff) ELSE {}
           rest == [i \in Comment |-> IF i \in gone THEN "none" ELSE k.list[i]]
<1>1. /\ k.pc = "save" /\ k.list = comments /\ k.list \in [Comment -> Statuses]
      /\ k.op \in Views /\ k.whole =>
           \A i \in Comment : comments[i] # "none" /\ IsOrphaned(i, k.diff) => i \in left
  BY CallIs DEF NotesInv, MarksInv, NotesShape, SaveComments, ReviewCalls
<1>2. Reanchored(rest, k.diff)[id] = "none" <=> k.list[id] = "none" \/ id \in gone
  BY SavedList DEF NotesInv, MarksInv
<1>3. comments' = IF k.op = "add" THEN [k.list EXCEPT ![k.id] = "Staged"]
                  ELSE IF k.op = "delete" THEN [k.list EXCEPT ![k.id] = "none"]
                  ELSE Reanchored(rest, k.diff)
  BY DEF SaveComments
<1>4. id \in gone => k.op \in Views /\ k.whole /\ IsOrphaned(id, k.diff)
  BY DEF CanPrune, Orphans
<1> HIDE DEF gone, rest
<1>5. CASE k.op = "add"
  BY <1>1, <1>3, <1>5
<1>6. CASE k.op = "delete"
  BY <1>1, <1>3, <1>6 DEF Stands
<1>7. CASE k.op \notin {"add", "delete"}
  BY <1>1, <1>2, <1>3, <1>4, <1>7
<1> QED  BY <1>5, <1>6, <1>7

LEMMA SaveNotes == ASSUME NotesInv, NEW c \in Caller, SaveComments(c) PROVE NotesInv'
<1>0. /\ MarksInv /\ MarksInv' /\ calls[c] \in ReviewCalls /\ calls[c].pc = "save"
      /\ NotesShape(calls[c])
  BY SaveMarks, CallIs DEF NotesInv, MarksInv, SaveComments
<1>1. c \in Writers
  BY <1>0 DEF NotesShape, Writers, Saving
<1>2. PICK k \in ReviewCalls :
              /\ calls' = [calls EXCEPT ![c] = k]
              /\ k.pc \in {"marks", "decide", "idle"}
              /\ k.pc = "marks" => k.op \in Views /\ k.op = calls[c].op
              /\ k.pc = "decide" => k.op = "apply" /\ k.op = calls[c].op /\ k.list = comments'
              /\ k.pc = "idle" => k = NoCall
  BY <1>0, SaveMarks
<1>3. k.op \in {"none", calls[c].op} /\ NotesShape(k)'
  BY <1>2, NoReviewCall DEF NotesShape, Saving, Views
<1>4. ASSUME NEW id \in Comment, comments'[id] # "none", IsOrphaned(id, tree)' PROVE id \in left'
  <2>1. /\ left' = (left \cap {i \in Comment : comments'[i] # "none"})
                     \cup {i \in {calls[c].id} \cap Comment :
                             calls[c].op = "add" /\ IsOrphaned(i, tree)}
        /\ tree' = tree
    BY DEF SaveComments
  <2>2. IsOrphaned(id, tree)
    BY <1>4, <2>1 DEF IsOrphaned
  <2>3. comments[id] # "none" \/ (calls[c].op = "add" /\ calls[c].id = id)
    BY <1>4, WhatIsSaved
  <2>4. CASE comments[id] # "none"
    BY <1>4, <2>1, <2>2, <2>4 DEF NotesInv, OutIsLeft
  <2>5. CASE calls[c].op = "add" /\ calls[c].id = id
    BY <2>1, <2>2, <2>5
  <2> QED  BY <2>3, <2>4, <2>5
<1>5. OutIsLeft'
  BY <1>4 DEF OutIsLeft
<1> QED  BY <1>0, <1>1, <1>2, <1>3, <1>5, WriterLeaves

LEMMA AppliedNotes ==
  ASSUME NotesInv, NEW c \in Caller, MarkApplied(c)
  PROVE  /\ NotesInv'
         /\ \A id \in Comment : comments'[id] = "none" <=> comments[id] = "none"
<1>0. /\ MarksInv /\ MarksInv' /\ calls[c] \in ReviewCalls /\ calls[c].pc = "applied"
      /\ NotesShape(calls[c]) /\ calls' = [calls EXCEPT ![c] = NoCall] /\ UNCHANGED <<tree, left>>
  BY ApplyMarks, CallIs DEF NotesInv, MarksInv, MarkApplied, Stands, Becomes
<1>1. c \in Writers /\ calls[c].list = comments
  BY <1>0 DEF NotesShape, Writers, Saving
<1>2. \A id \in Comment : comments'[id] = "none" <=> comments[id] = "none"
  BY <1>1 DEF MarkApplied, Pending
<1>3. NotesShape(NoCall)'
  BY NoReviewCall DEF NotesShape, Views
<1>4. OutIsLeft'
  BY <1>0, <1>2 DEF NotesInv, OutIsLeft, IsOrphaned
<1> QED  BY <1>0, <1>1, <1>2, <1>3, <1>4, NoReviewCall, WriterLeaves

LEMMA CallNotes ==
  ASSUME NotesInv, NEW c \in Caller, Step(c) \/ Fail(c) \/ Answered(c)
  PROVE  NotesInv'
<1>0. /\ MarksInv /\ MarksInv' /\ calls[c] \in ReviewCalls /\ calls \in [Caller -> ReviewCalls]
      /\ NotesShape(calls[c])
  BY StepMarks, EndMarks, CallIs DEF NotesInv, MarksInv, FilesTyped
<1>1. CASE Compose(c)
  <2>1. PICK k \in ReviewCalls : ComposesTo(c, k)
    BY <1>0, <1>1, ComposeMarks
  <2>2. NotesShape(k)
    BY <1>0, <1>1, <2>1 DEF ComposesTo, Compose, NotesShape, NotesInv, OutIsLeft
  <2> QED  BY <1>0, <1>1, <2>1, <2>2, MoveNotes DEF ComposesTo, Compose, files
<1>2. CASE LoadComments(c)
  <2> DEFINE k == [calls[c] EXCEPT !.pc = "save", !.list = comments]
  <2>1. /\ k.pc = "save" /\ k.op = calls[c].op /\ k.whole = calls[c].whole /\ calls[c].pc = "load"
        /\ k.diff = calls[c].diff /\ k.list = comments /\ calls' = [calls EXCEPT ![c] = k]
    BY <1>0, <1>2 DEF ReviewCalls, LoadComments, Becomes
  <2> HIDE DEF k
  <2>2. NotesShape(k)
    BY <1>0, <2>1 DEF NotesShape
  <2> QED  BY <1>0, <1>2, <2>1, <2>2, MoveNotes DEF LoadComments, files
<1>3. CASE LoadMarks(c) \/ LockMarks(c)
  <2> DEFINE waits == [calls[c] EXCEPT !.pc = "lock"]
             ends == Snapshot(calls[c], marks)
             holds == [calls[c] EXCEPT !.pc = "write", !.seen = marks]
  <2>0. /\ waits.op = calls[c].op /\ waits.pc = "lock" /\ ends.op = calls[c].op /\ ends.pc = "done"
        /\ holds.op = calls[c].op /\ holds.pc = "write"
    BY <1>0 DEF Snapshot, ReviewCalls
  <2>1. PICK k \in {waits, ends, holds} : calls' = [calls EXCEPT ![c] = k]
    BY <1>3 DEF LoadMarks, LockMarks, Becomes
  <2> HIDE DEF waits, ends, holds
  <2>2. NotesShape(k)
    BY <2>0, <2>1 DEF NotesShape
  <2> QED  BY <1>0, <1>3, <2>0, <2>1, <2>2, MoveNotes DEF LoadMarks, LockMarks, files
<1>4. CASE NotDelivered(c) \/ Fail(c) \/ Answered(c)
  <2>1. calls' = [calls EXCEPT ![c] = NoCall] /\ UNCHANGED <<tree, comments, left>>
    BY <1>4 DEF NotDelivered, Fail, Answered, Becomes, files
  <2> QED  BY <1>0, <2>1, NoReviewCall, IdleNotes, MoveNotes
<1>5. CASE Deliver(c)
  <2> DEFINE k == [calls[c] EXCEPT !.pc = "applied"]
  <2>1. /\ k.pc = "applied" /\ k.op = calls[c].op /\ k.list = calls[c].list /\ calls[c].pc = "decide"
        /\ calls' = [calls EXCEPT ![c] = k]
    BY <1>0, <1>5 DEF ReviewCalls, Deliver, MovesTo, Becomes, Stands
  <2> HIDE DEF k
  <2>2. NotesShape(k)
    BY <1>0, <2>1 DEF NotesShape
  <2> QED  BY <1>0, <1>5, <2>1, <2>2, MoveNotes DEF Deliver
<1>6. CASE WriteMarks(c)
  <2>1. \A d \in Caller : /\ calls'[d] = calls[d] \/ calls'[d].pc = "done"
                             \/ \E s : calls'[d] = [calls[d] EXCEPT !.since = s]
                          /\ calls'[d].op = calls[d].op
    BY <1>0, <1>6 DEF WriteMarks, Snapshot, ReviewCalls
  <2>2. Writers' = Writers
    BY <2>1 DEF Writers
  <2>3. UNCHANGED <<tree, comments, left>>
    BY <1>6 DEF WriteMarks
  <2>4. ASSUME NEW d \in Caller PROVE NotesShape(calls[d])'
    <3>0. NotesShape(calls[d]) /\ calls[d] \in ReviewCalls
      BY <1>0 DEF NotesInv
    <3>1. CASE calls'[d] = calls[d]
      BY <2>3, <3>0, <3>1 DEF NotesShape, IsOrphaned
    <3>2. CASE calls'[d].pc = "done"
      BY <3>2 DEF NotesShape
    <3>3. ASSUME NEW s, calls'[d] = [calls[d] EXCEPT !.since = s] PROVE NotesShape(calls[d])'
      <4>1. /\ calls'[d].op = calls[d].op /\ calls'[d].pc = calls[d].pc
            /\ calls'[d].list = calls[d].list /\ calls'[d].whole = calls[d].whole
            /\ calls'[d].diff = calls[d].diff
        BY <3>0, <3>3 DEF ReviewCalls
      <4> QED  BY <2>3, <3>0, <4>1 DEF NotesShape, IsOrphaned
    <3> QED  BY <2>1, <3>1, <3>2, <3>3
  <2>5. OneWriter' /\ OutIsLeft'
    BY <2>2, <2>3 DEF NotesInv, OneWriter, OutIsLeft, IsOrphaned
  <2> QED  BY <1>0, <2>4, <2>5 DEF NotesInv
<1>7. CASE SaveComments(c) \/ MarkApplied(c)
  BY <1>7, SaveNotes, AppliedNotes
<1> QED  BY <1>1, <1>2, <1>3, <1>4, <1>5, <1>6, <1>7 DEF Step

LEMMA TouchNotes == ASSUME NotesInv, NEW f \in File, Touch(f) PROVE NotesInv'
<1>0. MarksInv'
  BY TouchMarks DEF NotesInv
<1>1. PICK v \in Version[f] \ {tree[f]} :
             /\ tree' = [tree EXCEPT ![f] = v]
             /\ left' = left \cup {id \in Comment : /\ v = Absent /\ FileOf[id] = f
                                                    /\ comments[id] # "none"}
             /\ UNCHANGED <<comments, calls>>
  BY DEF Touch
<1>2. tree \in [File -> Content \cup {Absent}] /\ FileOf \in [Comment -> File]
  BY TreeType, ReviewAssumption DEF NotesInv, MarksInv
<1>3. OutIsLeft'
  BY <1>1, <1>2 DEF NotesInv, OutIsLeft, IsOrphaned
<1>4. OneWriter'
  BY <1>1 DEF NotesInv, OneWriter, Writers
<1>5. \A d \in Caller : NotesShape(calls[d])'
  BY <1>1 DEF NotesInv, NotesShape, IsOrphaned
<1> QED  BY <1>0, <1>3, <1>4, <1>5 DEF NotesInv

LEMMA RestNotes == ASSUME NotesInv, MarksInv', UNCHANGED <<tree, comments, left, calls>> PROVE NotesInv'
  BY DEF NotesInv, OneWriter, Writers, OutIsLeft, IsOrphaned, NotesShape

LEMMA NotesInit == ReviewInit => NotesInv
<1> SUFFICES ASSUME ReviewInit PROVE NotesInv
  OBVIOUS
<1>1. \A c \in Caller : calls[c] = NoCall
  BY DEF ReviewInit
<1>2. OneWriter
  BY <1>1, NoReviewCall DEF OneWriter, Writers, Views
<1>3. OutIsLeft
  BY DEF ReviewInit, OutIsLeft, NoComments
<1> QED  BY <1>1, <1>2, <1>3, MarksInit, IdleNotes DEF NotesInv

(* The comments change when they are saved, and the two savings lose none. *)
LEMMA DropsCaused ==
  ASSUME NotesInv, [FilesNext]_reviewVars,
         NEW id \in Comment, comments[id] # "none", comments'[id] = "none"
  PROVE  id \in left \/ \E c \in Caller : Stands(c, {"delete"}, "save") /\ calls[c].id = id
<1>1. PICK c \in Caller : SaveComments(c) \/ MarkApplied(c)
  <2>1. comments' # comments
    OBVIOUS
  <2> QED
    BY <2>1 DEF FilesNext, reviewVars, files, RequestArrives, BeginView, BeginMark, BeginApply,
         BeginComment, Begin, Step, Compose, LoadComments, LoadMarks, LockMarks, WriteMarks,
         NotDelivered, Deliver, Fail, Answered, Touch, AgentMoves
<1>2. ~MarkApplied(c)
  BY AppliedNotes
<1> QED  BY <1>1, <1>2, WhatIsSaved

(* A comment disappears from the file only when somebody deletes it, or    *)
(* after its file was out of the diff since it was written: for any        *)
(* comments and files, as long as the calls that rewrite the comments come *)
(* one at a time (two of them lose each other's changes, for the load and  *)
(* the save are not under a lock).                                         *)
THEOREM CommentsHaveCause ==
  ASSUME MaxWriters = 1, IsFiniteSet(Caller)
  PROVE  FilesSpec => CommentsDroppedForCause
<1>1. NotesInv /\ [FilesNext]_reviewVars => NotesInv'
  <2> SUFFICES ASSUME NotesInv, [FilesNext]_reviewVars PROVE NotesInv'
    OBVIOUS
  <2>0. MarksInv'
    BY MarksNext DEF NotesInv
  <2>1. CASE UNCHANGED reviewVars
    BY <2>0, <2>1, RestNotes DEF reviewVars, files
  <2>2. CASE AgentMoves
    BY <2>0, <2>2, RestNotes DEF AgentMoves
  <2>3. ASSUME NEW f \in File, Touch(f) PROVE NotesInv'
    BY <2>3, TouchNotes
  <2>4. ASSUME NEW c \in Caller, RequestArrives(c) \/ Step(c) \/ Fail(c) \/ Answered(c) PROVE NotesInv'
    BY <2>4, RequestNotes, CallNotes
  <2> QED  BY <2>1, <2>2, <2>3, <2>4 DEF FilesNext
<1>2. NotesInv /\ [FilesNext]_reviewVars =>
        [\A id \in Comment : comments[id] # "none" /\ comments'[id] = "none" =>
           id \in left \/ \E c \in Caller : Stands(c, {"delete"}, "save") /\ calls[c].id = id
        ]_reviewVars
  BY DropsCaused
<1> QED  BY <1>1, <1>2, NotesInit, PTL DEF FilesSpec, CommentsDroppedForCause

-----------------------------------------------------------------------------
(* The TUI's view over these calls.  The event loop's own call is on one   *)
(* file or on none, and never a view's.                                    *)
UiShape(k) ==
  /\ k.op \notin Views
  /\ k.op \in Marking /\ k.pc # "idle" => \E f \in File : \A g \in File : k.sel[g] # Unset <=> g = f

(* Between its write and its answer the view knows nothing of that file.   *)
Exempt(f) == Stands(Ui, Marking, "done") /\ calls[Ui].sel[f] # Unset

Agrees(f, ms) == /\ own[f] = "on" => ms[f] # Unset
                 /\ own[f] = "off" => ms[f] = Unset

(* What the view was acknowledged is so, and so in what a poll has read    *)
(* that is still current.                                                  *)
OwnInv == \A f \in File : Exempt(f) \/ /\ Agrees(f, marks)
                                       /\ poll.pc = "read" /\ poll.fresh => Agrees(f, poll.marks)

ViewTyped == /\ view \in [modal : {"none", "loading", "review"}, diff : Diff,
                          reviewed : SUBSET File, draft : BOOLEAN]
             /\ poll \in [pc : {"idle", "asked", "read"},
                          marks : [File -> Content \cup {Unset}], fresh : BOOLEAN]
             /\ own \in [File -> {"any", "on", "off"}]
             /\ refreshing \in BOOLEAN

(* One refresh is in flight when the view says so.                         *)
RefreshInv == /\ refreshing <=> calls[Refresher].pc # "idle"
              /\ calls[Refresher].pc # "idle" => calls[Refresher].op = "refresh"

ViewInv == MarksInv /\ ViewTyped /\ UiShape(calls[Ui]) /\ OwnInv /\ RefreshInv

LEMMA ClosedTyped == /\ ClosedView \in [modal : {"none", "loading", "review"}, diff : Diff,
                                        reviewed : SUBSET File, draft : BOOLEAN]
                     /\ NoPoll \in [pc : {"idle", "asked", "read"},
                                    marks : [File -> Content \cup {Unset}], fresh : BOOLEAN]
                     /\ NothingOwn \in [File -> {"any", "on", "off"}]
  BY NoDiffType, EmptyTypes DEF ClosedView, NoPoll, NothingOwn

LEMMA Callers == /\ Ui \in Caller /\ Opener \in Caller /\ Refresher \in Caller
                 /\ Ui # Opener /\ Ui # Refresher /\ Opener # Refresher
  BY ViewAssumption

LEMMA ToggleArrives ==
  ASSUME NEW f \in File, NEW on \in BOOLEAN
  PROVE  LET sel == [NoMarks EXCEPT ![f] = AnyContent]
             r == [NoCall EXCEPT !.op = "set", !.pc = "compose", !.sel = sel, !.on = on]
         IN  Arriving(r) /\ UiShape(r)
<1> DEFINE sel == [NoMarks EXCEPT ![f] = AnyContent]
           r == [NoCall EXCEPT !.op = "set", !.pc = "compose", !.sel = sel, !.on = on]
<1>1. sel \in Selection /\ (\A g \in File : sel[g] # Unset <=> g = f)
  BY ReviewAssumption DEF NoMarks, Selection
<1>2. r.op = "set" /\ r.sel = sel
  BY DEF NoCall
<1> HIDE DEF sel
<1>3. Arriving(r)
  BY <1>1, ArrivingMark DEF Marking
<1>4. UiShape(r)
  BY <1>1, <1>2 DEF UiShape, Views
<1> QED  BY <1>3, <1>4 DEF sel

(* The keys of the view are requests like any other's.                     *)
LEMMA ViewMarks == ASSUME MarksInv, ViewTyped, [ViewNext]_viewVars PROVE MarksInv'
<1>1. CASE UNCHANGED viewVars
  BY <1>1 DEF viewVars, reviewVars, files, MarksInv, FilesTyped, MarkShape, KnowsKept
<1>2. CASE OpenReview \/ Refresh
  <2>1. PICK c \in Caller, op \in Views, prev \in Diff : BeginView(c, op, prev)
    BY <1>2, Callers, NoDiffType DEF OpenReview, Refresh, ViewTyped, Views
  <2> QED  BY <2>1, ArrivingView, BeginMarks DEF BeginView
<1>3. CASE ToggleKey
  <2>1. PICK f \in File, on \in BOOLEAN : BeginMark(Ui, "set", [NoMarks EXCEPT ![f] = AnyContent], on)
    BY <1>3 DEF ToggleKey, Shown
  <2> QED  BY <2>1, Callers, ToggleArrives, BeginMarks DEF BeginMark
<1>4. CASE CommentKey
  <2>1. RequestArrives(Ui)
    BY <1>4 DEF CommentKey, RequestArrives
  <2> QED  BY <2>1, Callers, RequestMarks
<1>5. CASE Prepared \/ OpenFailed \/ Refreshed \/ RefreshFailed \/ ToggleAcked
  BY <1>5, Callers, EndMarks DEF Prepared, OpenFailed, Refreshed, RefreshFailed, ToggleAcked
<1>6. CASE LeaveModal \/ DraftKey \/ PollTick \/ PollRead \/ PollFails \/ PollDelivered
  <2>1. UNCHANGED reviewVars
    BY <1>6 DEF LeaveModal, DraftKey, PollTick, PollRead, PollFails, PollDelivered
  <2> QED  BY <2>1 DEF reviewVars, files, MarksInv, FilesTyped, MarkShape, KnowsKept
<1>7. CASE UiStep
  BY <1>7, Callers, StepMarks, EndMarks DEF UiStep
<1>8. CASE Others
  BY <1>8, Callers, RequestMarks, StepMarks, EndMarks, TouchMarks, AgentMarks DEF Others
<1> QED  BY <1>1, <1>2, <1>3, <1>4, <1>5, <1>6, <1>7, <1>8 DEF ViewNext

LEMMA LiveType == ASSUME NEW ms, NEW diff PROVE LivePaths(ms, diff) \in SUBSET File
  BY DEF LivePaths

LEMMA AckedFile ==
  ASSUME UiShape(calls[Ui]), Stands(Ui, Marking, "done")
  PROVE  LET g == CHOOSE g \in File : calls[Ui].sel[g] # Unset
         IN  g \in File /\ \A f \in File : calls[Ui].sel[f] # Unset <=> f = g
  BY DEF UiShape, Stands

LEMMA ViewTypes ==
  ASSUME MarksInv, ViewTyped, UiShape(calls[Ui]), [ViewNext]_viewVars
  PROVE  ViewTyped'
<1> USE DEF ViewTyped
<1>1. CASE UNCHANGED viewVars \/ UiStep \/ ToggleKey
  BY <1>1 DEF viewVars, screen, UiStep, ToggleKey
<1>2. CASE OpenReview \/ LeaveModal \/ Refresh \/ OpenFailed \/ RefreshFailed
  BY <1>2, ClosedTyped DEF OpenReview, LeaveModal, Refresh, OpenFailed, RefreshFailed
<1>3. CASE Prepared
  <2>1. calls[Opener].diff \in Diff
    BY CallIs, Callers DEF MarksInv, ReviewCalls
  <2>2. LivePaths(calls[Opener].seen, calls[Opener].diff) \in SUBSET File
    BY LiveType
  <2> QED  BY <1>3, <2>1, <2>2, ClosedTyped DEF Prepared, Bump
<1>4. CASE Refreshed
  <2>1. calls[Refresher].diff \in Diff
    BY CallIs, Callers DEF MarksInv, ReviewCalls
  <2>2. LivePaths(calls[Refresher].seen, calls[Refresher].diff) \in SUBSET File
    BY LiveType
  <2> QED  BY <1>4, <2>1, <2>2, ClosedTyped DEF Refreshed, Bump
<1>5. CASE ToggleAcked
  <2> DEFINE g == CHOOSE g \in File : calls[Ui].sel[g] # Unset
             seen == IF calls[Ui].on THEN view.reviewed \cup {g} ELSE view.reviewed \ {g}
  <2>0. /\ view' = [view EXCEPT !.reviewed = seen] /\ poll' = Bump(poll) /\ UNCHANGED refreshing
        /\ \E x \in {"any", "on", "off"} : own' = [own EXCEPT ![g] = x]
    BY <1>5 DEF ToggleAcked
  <2>1. g \in File
    BY <1>5, AckedFile DEF ToggleAcked
  <2> HIDE DEF g
  <2> QED  BY <2>0, <2>1 DEF Bump
<1>6. CASE DraftKey \/ CommentKey
  BY <1>6 DEF DraftKey, CommentKey
<1>7. CASE PollTick \/ PollRead \/ PollFails
  BY <1>7, ClosedTyped DEF PollTick, PollRead, PollFails, MarksInv, FilesTyped, NoPoll
<1>8. CASE PollDelivered
  <2>1. Folded(poll.marks) \in SUBSET File
    BY LiveType DEF Folded
  <2> QED  BY <1>8, <2>1, ClosedTyped DEF PollDelivered
<1>9. CASE Others
  BY <1>9 DEF Others
<1> QED  BY <1>1, <1>2, <1>3, <1>4, <1>5, <1>6, <1>7, <1>8, <1>9 DEF ViewNext

(* A view's call goes on until it is answered, or fails.                   *)
LEMMA ViewsGoOn ==
  ASSUME MarksInv, NEW c \in Caller, calls[c].op \in Views, Step(c)
  PROVE  calls'[c].op = calls[c].op /\ calls'[c].pc # "idle"
<1>0. /\ calls[c] \in ReviewCalls /\ calls \in [Caller -> ReviewCalls] /\ MarkShape(calls[c])
      /\ calls[c].op \notin Marking /\ calls[c].op # "apply"
  BY CallIs DEF MarksInv, FilesTyped, Views, Marking
<1>1. CASE Compose(c)
  <2>1. PICK k \in ReviewCalls : ComposesTo(c, k)
    BY <1>1, ComposeMarks
  <2> QED  BY <1>0, <2>1 DEF ComposesTo
<1>2. CASE LoadComments(c)
  BY <1>0, <1>2 DEF LoadComments, Becomes, ReviewCalls
<1>3. CASE SaveComments(c)
  <2>1. \E l : calls' = [calls EXCEPT ![c] = [calls[c] EXCEPT !.pc = "marks", !.list = l]]
    BY <1>0, <1>3 DEF SaveComments, Becomes
  <2> QED  BY <1>0, <2>1 DEF ReviewCalls
<1>4. CASE LoadMarks(c)
  <2> DEFINE waits == [calls[c] EXCEPT !.pc = "lock"]
             ends == Snapshot(calls[c], marks)
  <2>0. /\ waits.op = calls[c].op /\ waits.pc = "lock" /\ ends.op = calls[c].op /\ ends.pc = "done"
    BY <1>0 DEF Snapshot, ReviewCalls
  <2>1. PICK k \in {waits, ends} : calls' = [calls EXCEPT ![c] = k]
    BY <1>4 DEF LoadMarks, Becomes
  <2> QED  BY <1>0, <2>0, <2>1
<1>5. CASE LockMarks(c)
  BY <1>0, <1>5 DEF LockMarks, Becomes, ReviewCalls
<1>6. CASE WriteMarks(c)
  BY <1>0, <1>6 DEF WriteMarks, Snapshot, ReviewCalls
<1> QED  BY <1>0, <1>1, <1>2, <1>3, <1>4, <1>5, <1>6 DEF Step, NotDelivered, Deliver, MarkApplied, Stands

(* What another caller does to a call: a mark it sets is noted in a view's.*)
LEMMA OthersLeave ==
  ASSUME MarksInv, NEW c \in Caller, NEW d \in Caller \ {c},
         RequestArrives(c) \/ Step(c) \/ Fail(c) \/ Answered(c)
  PROVE  /\ calls'[d].op = calls[d].op /\ calls'[d].pc = calls[d].pc
         /\ calls[d].op \notin Views => calls'[d] = calls[d]
<1>0. calls \in [Caller -> ReviewCalls] /\ calls[d] \in ReviewCalls
  BY DEF MarksInv, FilesTyped
<1>1. CASE WriteMarks(c)
  BY <1>0, <1>1 DEF WriteMarks, ReviewCalls
<1>2. CASE ~WriteMarks(c)
  <2>1. \E k : calls' = [calls EXCEPT ![c] = k]
    BY <1>2 DEF RequestArrives, BeginView, BeginMark, BeginApply, BeginComment, Begin, Becomes,
       Step, Compose, LoadComments, SaveComments, LoadMarks, LockMarks, NotDelivered, Deliver,
       MarkApplied, MovesTo, Fail, Answered
  <2> QED  BY <1>0, <2>1
<1> QED  BY <1>1, <1>2

(* The step of the event loop's own call: it changes the mark of the file  *)
(* it is on, and is then about to be answered.                             *)
LEMMA UiMoves ==
  ASSUME MarksInv, UiShape(calls[Ui]), Step(Ui) \/ Fail(Ui)
  PROVE  /\ UiShape(calls[Ui])'
         /\ \A f \in File : Exempt(f)' \/ (~Exempt(f) /\ marks'[f] = marks[f])
<1>0. /\ calls[Ui] \in ReviewCalls /\ calls \in [Caller -> ReviewCalls] /\ MarkShape(calls[Ui])
      /\ marks \in [File -> Content \cup {Unset}]
  BY CallIs, Callers DEF MarksInv, FilesTyped
<1>1. \A f \in File : ~Exempt(f)
  BY DEF Exempt, Stands, Step, Compose, LoadComments, SaveComments, LoadMarks, LockMarks, WriteMarks,
     NotDelivered, Deliver, MarkApplied, Fail
<1>2. UiShape(NoCall)
  BY NoReviewCall DEF UiShape, Views, Marking
<1>3. CASE Compose(Ui)
  <2>1. PICK k \in ReviewCalls : ComposesTo(Ui, k)
    BY <1>3, Callers, ComposeMarks
  <2>3. UiShape(k)
    BY <1>3, <2>1 DEF ComposesTo, UiShape, Compose, Views, Marking
  <2> QED  BY <1>0, <1>1, <1>3, <2>1, <2>3, Callers DEF ComposesTo, Compose, files
<1>4. CASE LoadComments(Ui)
  BY <1>0, <1>1, <1>4, Callers DEF LoadComments, Becomes, UiShape, ReviewCalls, files
<1>5. CASE SaveComments(Ui)
  <2>1. calls' = [calls EXCEPT ![Ui] = NoCall]
          \/ \E l : calls' = [calls EXCEPT ![Ui] = [calls[Ui] EXCEPT !.pc = "decide", !.list = l]]
    <3>1. calls[Ui].op \notin Views
      BY DEF UiShape
    <3> QED  BY <1>5, <3>1 DEF SaveComments, Becomes
  <2>2. UiShape(calls[Ui])'
    <3>1. ASSUME NEW l PROVE LET k == [calls[Ui] EXCEPT !.pc = "decide", !.list = l]
                             IN  k.op = calls[Ui].op /\ k.sel = calls[Ui].sel
      BY <1>0 DEF ReviewCalls
    <3>2. calls[Ui].op \notin Marking
      BY <1>0, <1>5 DEF SaveComments, MarkShape
    <3>3. calls'[Ui] = NoCall \/ calls'[Ui].op = calls[Ui].op
      BY <1>0, <2>1, <3>1, Callers
    <3> QED  BY <1>2, <3>2, <3>3 DEF UiShape
  <2> QED  BY <1>1, <1>5, <2>2 DEF SaveComments
<1>6. CASE LoadMarks(Ui)
  BY <1>0, <1>6 DEF LoadMarks, MarkShape, UiShape
<1>7. CASE LockMarks(Ui)
  BY <1>0, <1>1, <1>7, Callers DEF LockMarks, Becomes, UiShape, ReviewCalls
<1>8. CASE WriteMarks(Ui)
  <2>1. /\ calls[Ui].pc = "write" /\ calls[Ui].op \in Marking /\ marks' = Marked(calls[Ui])
        /\ calls'[Ui] = [calls[Ui] EXCEPT !.pc = "done", !.seen = NoMarks]
    BY <1>0, <1>8, Callers DEF WriteMarks, MarkShape, UiShape
  <2>2. calls'[Ui].op = calls[Ui].op /\ calls'[Ui].pc = "done" /\ calls'[Ui].sel = calls[Ui].sel
    BY <1>0, <2>1 DEF ReviewCalls
  <2>3. \A f \in File : calls[Ui].sel[f] = Unset => marks'[f] = marks[f]
    BY <2>1, Callers, WriteGives
  <2> QED  BY <1>1, <2>1, <2>2, <2>3 DEF UiShape, Exempt, Stands
<1>9. CASE NotDelivered(Ui) \/ MarkApplied(Ui) \/ Fail(Ui)
  <2>1. calls' = [calls EXCEPT ![Ui] = NoCall] /\ UNCHANGED marks
    BY <1>9 DEF NotDelivered, MarkApplied, Fail, Becomes, files
  <2> QED  BY <1>0, <1>1, <1>2, <2>1, Callers
<1>10. CASE Deliver(Ui)
  BY <1>0, <1>1, <1>10, Callers DEF Deliver, MovesTo, Becomes, Stands, UiShape, Views, Marking, ReviewCalls
<1> QED  BY <1>3, <1>4, <1>5, <1>6, <1>7, <1>8, <1>9, <1>10 DEF Step

(* The event loop's own call, and what is known of its file, rest while    *)
(* neither the marks nor what was acknowledged changes.                    *)
LEMMA OwnRests ==
  ASSUME ViewInv, UNCHANGED <<marks, own>>, calls'[Ui] = calls[Ui],
         poll'.pc = "read" /\ poll'.fresh => \/ poll.pc = "read" /\ poll.fresh /\ poll'.marks = poll.marks
                                             \/ poll'.marks = marks
  PROVE  UiShape(calls[Ui])' /\ OwnInv'
<1>1. UiShape(calls[Ui])'
  BY DEF ViewInv, UiShape
<1>2. \A f \in File : Exempt(f)' <=> Exempt(f)
  BY DEF Exempt, Stands
<1>3. OwnInv'
  BY <1>2 DEF ViewInv, OwnInv, Agrees
<1> QED  BY <1>1, <1>3

LEMMA OwnForgotten ==
  ASSUME ViewInv, \A f \in File : own'[f] = "any" \/ (own'[f] = own[f] /\ marks'[f] = marks[f]),
         calls'[Ui] = calls[Ui], poll'.pc = "read" /\ poll'.fresh => poll' = poll
  PROVE  UiShape(calls[Ui])' /\ OwnInv'
<1>1. UiShape(calls[Ui])'
  BY DEF ViewInv, UiShape
<1>2. \A f \in File : Exempt(f)' <=> Exempt(f)
  BY DEF Exempt, Stands
<1>3. OwnInv'
  BY <1>2 DEF ViewInv, OwnInv, Agrees
<1> QED  BY <1>1, <1>3

(* A request of the event loop begins where it had none.                   *)
LEMMA OwnBegins ==
  ASSUME ViewInv, NEW r, Begin(Ui, r), UiShape(r), r.pc \in {"compose", "load"},
         UNCHANGED <<own, poll>>
  PROVE  UiShape(calls[Ui])' /\ OwnInv'
<1>1. /\ calls[Ui].pc = "idle" /\ calls'[Ui] = r /\ UNCHANGED marks
  BY Callers DEF Begin, Becomes, files, ViewInv, MarksInv, FilesTyped
<1>2. UiShape(calls[Ui])'
  BY <1>1 DEF UiShape
<1>3. \A f \in File : ~Exempt(f)
  BY <1>1 DEF Exempt, Stands
<1>4. OwnInv'
  BY <1>1, <1>3 DEF ViewInv, OwnInv, Agrees
<1> QED  BY <1>2, <1>4

LEMMA OwnNext ==
  ASSUME ViewInv, [ViewNext]_viewVars
  PROVE  UiShape(calls[Ui])' /\ OwnInv'
<1>0. /\ MarksInv /\ calls \in [Caller -> ReviewCalls] /\ ViewTyped /\ UiShape(calls[Ui])
  BY DEF ViewInv, MarksInv, FilesTyped
<1>1. CASE UNCHANGED viewVars
  BY <1>1, OwnRests DEF viewVars, reviewVars, files, screen
<1>2. CASE OpenReview \/ Refresh
  <2>1. calls'[Ui] = calls[Ui] /\ UNCHANGED <<marks, own, poll>>
    BY <1>0, <1>2, Callers DEF OpenReview, Refresh, BeginView, Begin, Becomes, files
  <2> QED  BY <2>1, OwnRests
<1>3. CASE LeaveModal
  <2>1. calls'[Ui] = calls[Ui] /\ UNCHANGED poll /\ \A f \in File : own'[f] = "any"
    BY <1>3 DEF LeaveModal, reviewVars, NothingOwn
  <2> QED  BY <2>1, OwnForgotten
<1>4. CASE Prepared
  <2>1. /\ calls'[Ui] = calls[Ui] /\ UNCHANGED <<marks, own>>
        /\ poll' = Bump(poll) \/ poll' = poll
    BY <1>0, <1>4, Callers DEF Prepared, Answered, Becomes, files
  <2>2. poll'.pc = "read" /\ poll'.fresh => poll' = poll
    BY <1>0, <2>1 DEF Bump, ViewTyped
  <2> QED  BY <2>1, <2>2, OwnRests
<1>5. CASE Refreshed
  <2>1. /\ calls'[Ui] = calls[Ui] /\ UNCHANGED marks
        /\ poll' = Bump(poll) \/ poll' = poll
        /\ own' = NothingOwn \/ own' = own
    BY <1>0, <1>5, Callers DEF Refreshed, Answered, Becomes, files
  <2>2. poll'.pc = "read" /\ poll'.fresh => poll' = poll
    BY <1>0, <2>1 DEF Bump, ViewTyped
  <2>3. \A f \in File : own'[f] = "any" \/ (own'[f] = own[f] /\ marks'[f] = marks[f])
    BY <2>1 DEF NothingOwn
  <2> QED  BY <2>1, <2>2, <2>3, OwnForgotten
<1>6. CASE OpenFailed \/ RefreshFailed
  <2>1. calls'[Ui] = calls[Ui] /\ UNCHANGED <<marks, own, poll>>
    BY <1>0, <1>6, Callers DEF OpenFailed, RefreshFailed, Fail, Becomes
  <2> QED  BY <2>1, OwnRests
<1>7. CASE ToggleKey
  <2>1. PICK f \in File, on \in BOOLEAN : BeginMark(Ui, "set", [NoMarks EXCEPT ![f] = AnyContent], on)
    BY <1>7 DEF ToggleKey, Shown
  <2> DEFINE r == [NoCall EXCEPT !.op = "set", !.pc = "compose",
                                 !.sel = [NoMarks EXCEPT ![f] = AnyContent], !.on = on]
  <2>2. UiShape(r) /\ r.pc = "compose" /\ Begin(Ui, r)
    BY <2>1, ToggleArrives DEF BeginMark, NoCall
  <2> HIDE DEF r
  <2> QED  BY <1>7, <2>2, OwnBegins DEF ToggleKey, screen
<1>8. CASE ToggleAcked
  <2> DEFINE g == CHOOSE g \in File : calls[Ui].sel[g] # Unset
             x == IF (marks[g] # Unset) = calls[Ui].on
                  THEN IF calls[Ui].on THEN "on" ELSE "off" ELSE "any"
  <2>1. /\ calls' = [calls EXCEPT ![Ui] = NoCall] /\ UNCHANGED marks /\ poll' = Bump(poll)
        /\ own' = [own EXCEPT ![g] = x] /\ Stands(Ui, Marking, "done")
    BY <1>8 DEF ToggleAcked, Answered, Becomes, files
  <2>2. g \in File /\ \A f \in File : calls[Ui].sel[f] # Unset <=> f = g
    BY <1>0, <2>1, AckedFile
  <2>3. x = "on" => marks[g] # Unset
    OBVIOUS
  <2>4. x = "off" => marks[g] = Unset
    OBVIOUS
  <2> HIDE DEF g, x
  <2>5. ~poll'.fresh
    BY <1>0, <2>1 DEF Bump, ViewTyped
  <2>6. ASSUME NEW f \in File PROVE Agrees(f, marks)'
    <3>1. CASE f = g
      <4>1. own'[f] = x
        BY <1>0, <2>1, <2>2, <3>1 DEF ViewTyped
      <4> QED  BY <2>1, <2>3, <2>4, <3>1, <4>1 DEF Agrees
    <3>2. CASE f # g
      <4>1. own'[f] = own[f]
        BY <1>0, <2>1, <2>2, <3>2 DEF ViewTyped
      <4>2. ~Exempt(f)
        BY <2>2, <3>2 DEF Exempt
      <4> QED  BY <2>1, <4>1, <4>2 DEF ViewInv, OwnInv, Agrees
    <3> QED  BY <3>1, <3>2
  <2>7. OwnInv'
    BY <2>5, <2>6 DEF OwnInv
  <2>8. UiShape(calls[Ui])'
    BY <1>0, <2>1, Callers, NoReviewCall DEF UiShape, Views
  <2> QED  BY <2>7, <2>8
<1>9. CASE DraftKey
  BY <1>9, OwnRests DEF DraftKey, reviewVars, files
<1>10. CASE CommentKey
  <2>1. UNCHANGED <<own, poll>>
    BY <1>10 DEF CommentKey
  <2>2. ASSUME NEW id \in Comment, NEW op \in {"add", "delete"}, BeginComment(Ui, op, id)
        PROVE  UiShape(calls[Ui])' /\ OwnInv'
    <3> DEFINE r == [NoCall EXCEPT !.op = op, !.pc = "load", !.id = id]
    <3>1. r.op = op /\ r.pc = "load" /\ Begin(Ui, r)
      BY <2>2 DEF NoCall, BeginComment
    <3> HIDE DEF r
    <3>2. UiShape(r)
      BY <3>1 DEF UiShape, Views, Marking
    <3> QED  BY <2>1, <3>1, <3>2, OwnBegins
  <2>3. ASSUME BeginApply(Ui) PROVE UiShape(calls[Ui])' /\ OwnInv'
    <3> DEFINE r == [NoCall EXCEPT !.op = "apply", !.pc = "compose"]
    <3>1. r.op = "apply" /\ r.pc = "compose" /\ Begin(Ui, r)
      BY <2>3 DEF NoCall, BeginApply
    <3> HIDE DEF r
    <3>2. UiShape(r)
      BY <3>1 DEF UiShape, Views, Marking
    <3> QED  BY <2>1, <3>1, <3>2, OwnBegins
  <2> QED  BY <1>10, <2>2, <2>3 DEF CommentKey
<1>11. CASE UiStep
  <2>1. UNCHANGED <<own, poll>> /\ (Step(Ui) \/ Fail(Ui))
    BY <1>11 DEF UiStep, screen
  <2>2. /\ UiShape(calls[Ui])'
        /\ \A f \in File : Exempt(f)' \/ (~Exempt(f) /\ marks'[f] = marks[f])
    BY <1>0, <2>1, UiMoves
  <2> QED  BY <2>1, <2>2 DEF ViewInv, OwnInv, Agrees
<1>12. CASE PollTick \/ PollRead \/ PollFails \/ PollDelivered
  <2>1. calls'[Ui] = calls[Ui] /\ UNCHANGED <<marks, own>>
    BY <1>12 DEF PollTick, PollRead, PollFails, PollDelivered, reviewVars, files
  <2>2. poll'.pc = "read" => poll'.marks = marks
    <3>1. CASE PollTick
      BY <3>1 DEF PollTick, NoPoll
    <3>2. CASE PollRead
      BY <1>0, <3>2 DEF PollRead, ViewTyped
    <3>3. CASE PollFails \/ PollDelivered
      BY <3>3 DEF PollFails, PollDelivered, NoPoll
    <3> QED  BY <1>12, <3>1, <3>2, <3>3
  <2> QED  BY <2>1, <2>2, OwnRests
<1>13. CASE Others
  <2>1. calls'[Ui] = calls[Ui]
    <3>1. CASE Step(Opener) \/ Step(Refresher)
      BY <1>0, <3>1, Callers, OthersLeave DEF UiShape
    <3>2. ASSUME NEW c \in Caller, Foreign(c), RequestArrives(c) \/ Step(c) \/ Fail(c) \/ Answered(c)
          PROVE  calls'[Ui] = calls[Ui]
      BY <1>0, <3>2, Callers, OthersLeave DEF UiShape, Foreign
    <3>3. CASE (\E f \in File : Touch(f)) \/ AgentMoves
      BY <3>3 DEF Touch, AgentMoves
    <3> QED  BY <1>13, <3>1, <3>2, <3>3 DEF Others
  <2>2. /\ UNCHANGED poll
        /\ \A f \in File : own'[f] = "any" \/ (own'[f] = own[f] /\ marks'[f] = marks[f])
    BY <1>13 DEF Others
  <2> QED  BY <2>1, <2>2, OwnForgotten
<1> QED  BY <1>1, <1>2, <1>3, <1>4, <1>5, <1>6, <1>7, <1>8, <1>9, <1>10, <1>11, <1>12, <1>13
         DEF ViewNext

LEMMA RefreshKept ==
  ASSUME ViewInv, [ViewNext]_viewVars
  PROVE  RefreshInv'
<1>0. /\ MarksInv /\ calls \in [Caller -> ReviewCalls] /\ RefreshInv /\ NoCall.pc = "idle"
  BY NoReviewCall DEF ViewInv, MarksInv, FilesTyped
<1> USE DEF RefreshInv
<1>1. CASE UNCHANGED <<refreshing, calls>>
  BY <1>0, <1>1
<1>2. CASE \E r : Begin(Ui, r) /\ UNCHANGED refreshing
  BY <1>0, <1>2, Callers DEF Begin, Becomes
<1>3. CASE OpenReview
  BY <1>0, <1>3, Callers DEF OpenReview, BeginView, Begin, Becomes
<1>4. CASE Prepared \/ OpenFailed \/ ToggleAcked
  BY <1>0, <1>4, Callers DEF Prepared, OpenFailed, ToggleAcked, Answered, Fail, Becomes
<1>5. CASE Refresh
  <2>1. PICK prev \in Diff :
          Begin(Refresher, [NoCall EXCEPT !.op = "refresh", !.pc = "compose", !.prev = prev])
    BY <1>5 DEF Refresh, BeginView, ViewInv, ViewTyped
  <2>2. calls'[Refresher].op = "refresh" /\ calls'[Refresher].pc = "compose"
    BY <1>0, <2>1, Callers DEF Begin, Becomes, NoCall
  <2> QED  BY <1>5, <2>2 DEF Refresh
<1>6. CASE Refreshed \/ RefreshFailed
  BY <1>0, <1>6, Callers DEF Refreshed, RefreshFailed, Answered, Fail, Becomes
<1>7. CASE UiStep
  <2>1. calls'[Refresher].op = calls[Refresher].op /\ calls'[Refresher].pc = calls[Refresher].pc
    BY <1>0, <1>7, Callers, OthersLeave DEF UiStep
  <2> QED  BY <1>0, <1>7, <2>1 DEF UiStep, screen
<1>8. CASE Others
  <2>1. \/ calls'[Refresher].op = calls[Refresher].op /\ calls'[Refresher].pc = calls[Refresher].pc
        \/ Step(Refresher)
    <3>1. CASE Step(Opener)
      BY <1>0, <3>1, Callers, OthersLeave
    <3>2. ASSUME NEW c \in Caller, Foreign(c), RequestArrives(c) \/ Step(c) \/ Fail(c) \/ Answered(c)
          PROVE  calls'[Refresher].op = calls[Refresher].op /\ calls'[Refresher].pc = calls[Refresher].pc
      BY <1>0, <3>2, Callers, OthersLeave DEF Foreign
    <3>3. CASE (\E f \in File : Touch(f)) \/ AgentMoves
      BY <3>3 DEF Touch, AgentMoves
    <3> QED  BY <1>8, <3>1, <3>2, <3>3 DEF Others
  <2>2. CASE Step(Refresher)
    <3>1. calls[Refresher].pc # "idle"
      BY <2>2 DEF Step, Compose, LoadComments, SaveComments, LoadMarks, LockMarks, WriteMarks,
         NotDelivered, Deliver, MarkApplied, Stands
    <3>2. calls'[Refresher].op = "refresh" /\ calls'[Refresher].pc # "idle"
      BY <1>0, <2>2, <3>1, Callers, ViewsGoOn DEF Views
    <3> QED  BY <1>0, <1>8, <3>1, <3>2 DEF Others
  <2> QED  BY <1>0, <1>8, <2>1, <2>2 DEF Others
<1>9. CASE ToggleKey \/ CommentKey
  BY <1>2, <1>9 DEF ToggleKey, CommentKey, BeginMark, BeginComment, BeginApply, screen
<1>10. CASE \/ LeaveModal \/ DraftKey \/ PollTick \/ PollRead \/ PollFails \/ PollDelivered
            \/ UNCHANGED viewVars
  BY <1>1, <1>10 DEF LeaveModal, DraftKey, PollTick, PollRead, PollFails, PollDelivered, viewVars,
     screen, reviewVars
<1> QED  BY <1>3, <1>4, <1>5, <1>6, <1>7, <1>8, <1>9, <1>10 DEF ViewNext

LEMMA ViewInvInit == ViewInit => ViewInv
<1> SUFFICES ASSUME ViewInit PROVE ViewInv
  OBVIOUS
<1>1. MarksInv /\ ViewTyped
  BY MarksInit, ClosedTyped DEF ViewInit, ViewTyped
<1>2. \A c \in Caller : calls[c] = NoCall
  BY DEF ViewInit, ReviewInit
<1>3. UiShape(calls[Ui]) /\ RefreshInv
  BY <1>2, Callers, NoReviewCall DEF ViewInit, UiShape, RefreshInv, Views
<1>4. OwnInv
  BY DEF ViewInit, NothingOwn, NoPoll, OwnInv, Agrees
<1> QED  BY <1>1, <1>3, <1>4 DEF ViewInv

LEMMA ViewInvNext == ViewInv /\ [ViewNext]_viewVars => ViewInv'
<1> SUFFICES ASSUME ViewInv, [ViewNext]_viewVars PROVE ViewInv'
  OBVIOUS
<1>1. MarksInv' /\ ViewTyped'
  BY ViewMarks, ViewTypes DEF ViewInv
<1> QED  BY <1>1, OwnNext, RefreshKept DEF ViewInv

LEMMA ViewInvariance == ViewSpec => []ViewInv
BY ViewInvInit, ViewInvNext, PTL DEF ViewSpec

LEMMA ViewInvType == ViewInv => ViewTypeOK
BY DEF ViewInv, ViewTyped, RefreshInv, MarksInv, FilesTyped, ReviewTypeOK, Statuses, ViewTypeOK

(* The view, its poll and its refresh are well formed over well-formed     *)
(* files, and the refresh flag is up exactly while a refresh is in flight. *)
THEOREM ViewTypeCorrect == ViewSpec => []ViewTypeOK
BY ViewInvType, ViewInvariance, PTL

LEMMA PollKeeps ==
  ASSUME ViewInv, [ViewNext]_viewVars, poll.pc = "read", poll'.pc = "idle", view' # view, NEW f \in File
  PROVE  /\ own[f] = "on" /\ f \in view.reviewed => f \in view'.reviewed
         /\ own[f] = "off" /\ f \in view'.reviewed => f \in view.reviewed
<1>0. ViewTyped /\ OwnInv
  BY DEF ViewInv
<1>1. PollDelivered
  BY <1>0 DEF ViewNext, viewVars, screen, OpenReview, LeaveModal, Prepared, OpenFailed, Refresh,
     Refreshed, RefreshFailed, ToggleKey, ToggleAcked, DraftKey, CommentKey, UiStep, PollTick,
     PollRead, PollFails, Others, Bump, ViewTyped
<1>2. /\ poll.fresh /\ calls[Ui].pc = "idle"
      /\ view'.reviewed = Folded(poll.marks)
  BY <1>0, <1>1 DEF PollDelivered, LoopFree, ViewTyped
<1>3. Agrees(f, poll.marks)
  BY <1>0, <1>2 DEF OwnInv, Exempt, Stands
<1>4. f \in Folded(poll.marks) <=>
         /\ f \in view.reviewed \/ (f \in LivePaths(poll.marks, view.diff) /\ f \in Shown)
         /\ ~(f \in Shown /\ poll.marks[f] = Unset)
  BY DEF Folded
<1>5. f \in LivePaths(poll.marks, view.diff) => poll.marks[f] # Unset
  BY DEF LivePaths, Holds
<1> QED  BY <1>2, <1>3, <1>4, <1>5 DEF Agrees

(* A poll of the marks never takes back what the view has just been told   *)
(* it did, however late its answer comes and whoever else sets marks.      *)
THEOREM PollsKeepOwnMarks == ViewSpec => PollKeepsOwnMarks
<1>1. ViewInv /\ [ViewNext]_viewVars =>
        [poll.pc = "read" /\ poll'.pc = "idle" /\ view' # view =>
           \A f \in File : /\ own[f] = "on" /\ f \in view.reviewed => f \in view'.reviewed
                           /\ own[f] = "off" /\ f \in view'.reviewed => f \in view.reviewed
        ]_viewVars
  BY PollKeeps
<1> QED  BY <1>1, ViewInvariance, PTL DEF ViewSpec, PollKeepsOwnMarks
-----------------------------------------------------------------------------
(* The TUI's view of the sessions, and the refreshes in flight.            *)

States == 0..MaxObserved \cup {Unread, Nothing}
Refreshes == [kind : {"feed", "forced", "loop", "viewed"}, snapshot : Boards \cup {NoBoard},
              states : States, early : BOOLEAN, old : BOOLEAN, oldStates : BOOLEAN]

BoardTyped ==
  /\ board \in Boards /\ observed \in 0..MaxObserved /\ watched \in 0..MaxObserved
  /\ flying \in Seq(Refreshes) /\ viewed \in 0..MaxObserved \cup {Unread}
  /\ shown \in [snapshot : Boards \cup {NoBoard}, states : States]
  /\ created \in {"unborn", "awaited", "selected", "dropped"} /\ missing \in BOOLEAN

(* What a refresh in flight is worth: unless it is superseded, its states  *)
(* are not older than what was watched; if it began after the creation,    *)
(* its snapshot lacks the session only if the session was missing.         *)
Worth(f) ==
  /\ f.kind = "viewed" => f.states \in Nat
  /\ f.states \in Nat => f.states <= observed /\ (f.oldStates \/ watched <= f.states)
  /\ f.kind = "loop" => ~f.oldStates
  /\ created = "awaited" /\ ~f.early /\ f.snapshot # NoBoard /\ ~f.snapshot.here => missing

(* One after an attach in the order of the revisions has read no older     *)
(* states; and the event loop waits for one refresh at a time.             *)
InBoardOrder ==
  \A i, j \in DOMAIN flying :
    /\ i < j /\ flying[i].kind = "viewed" /\ flying[j].states \in Nat =>
         flying[i].states <= flying[j].states
    /\ flying[i].kind = "loop" /\ flying[j].kind = "loop" => i = j

(* Of the read after an attach that is back but has no revision yet.       *)
ViewedLast ==
  viewed # Unread => /\ watched <= viewed /\ viewed <= observed
                     /\ \A i \in DOMAIN flying : flying[i].kind = "viewed" => flying[i].states <= viewed

ShownWell ==
  /\ watched <= observed
  /\ watched > 0 => shown.states = Nothing \/ (shown.states \in Nat /\ watched <= shown.states)
  /\ created = "awaited" /\ ~board.here => missing
  /\ created = "dropped" => missing

BoardInv == /\ BoardTyped /\ (\A i \in DOMAIN flying : Worth(flying[i]))
           /\ InBoardOrder /\ ViewedLast /\ ShownWell

(* What is left of a sequence without one of its members.                  *)
LEMMA Removed ==
  ASSUME NEW S, NEW s \in Seq(S), NEW i \in 1..Len(s)
  PROVE  /\ RemoveAt(s, i) \in Seq(S) /\ Len(RemoveAt(s, i)) = Len(s) - 1
         /\ \A k \in 1..Len(s)-1 : RemoveAt(s, i)[k] = IF k < i THEN s[k] ELSE s[k+1]
<1> DEFINE a == SubSeq(s, 1, i-1)
           b == SubSeq(s, i+1, Len(s))
<1>1. /\ a \in Seq(S) /\ Len(a) = i-1 /\ \A k \in 1..i-1 : a[k] = s[k]
  BY SubSeqProperties
<1>2. /\ b \in Seq(S) /\ Len(b) = Len(s) - i /\ \A k \in 1..Len(s)-i : b[k] = s[k+i]
  BY SubSeqProperties
<1>4. RemoveAt(s, i) = a \o b
  BY DEF RemoveAt
<1> HIDE DEF a, b
<1>3. /\ a \o b \in Seq(S) /\ Len(a \o b) = (i-1) + (Len(s) - i)
      /\ \A k \in 1..(i-1) + (Len(s) - i) : (a \o b)[k] = IF k <= i-1 THEN a[k] ELSE b[k-(i-1)]
  <2>1. /\ a \o b \in Seq(S) /\ Len(a \o b) = Len(a) + Len(b)
        /\ \A k \in 1..Len(a) + Len(b) : (a \o b)[k] = IF k <= Len(a) THEN a[k] ELSE b[k-Len(a)]
    BY <1>1, <1>2, ConcatProperties
  <2> QED  BY <1>1, <1>2, <2>1
<1>5. (i-1) + (Len(s) - i) = Len(s) - 1
  OBVIOUS
<1>6. ASSUME NEW k \in 1..Len(s)-1
      PROVE  (a \o b)[k] = IF k < i THEN s[k] ELSE s[k+1]
  <2>1. CASE k < i
    BY <1>1, <1>3, <1>5, <2>1
  <2>2. CASE ~(k < i)
    <3>1. (a \o b)[k] = b[k-(i-1)]
      BY <1>3, <1>5, <2>2
    <3>2. k-(i-1) \in 1..Len(s)-i /\ (k-(i-1))+i = k+1
      BY <2>2
    <3> QED  BY <1>2, <2>2, <3>1, <3>2
  <2> QED  BY <2>1, <2>2
<1> QED  BY <1>3, <1>4, <1>5, <1>6

(* The refreshes in flight once the i-th is answered: the others, those    *)
(* before it superseded if its states are shown.                           *)
Was(i, k) == IF k < i THEN k ELSE k+1

Without(s, i, states) ==
  /\ s \in Seq(Refreshes) /\ Len(s) = Len(flying) - 1
  /\ \A k \in 1..Len(s) :
       LET f == flying[Was(i, k)]
       IN /\ s[k].kind = f.kind /\ s[k].snapshot = f.snapshot /\ s[k].states = f.states
          /\ s[k].early = f.early
          /\ s[k].oldStates = (f.oldStates \/ (states /\ Was(i, k) < i))

LEMMA AnswerLeaves ==
  ASSUME BoardTyped, NEW i \in DOMAIN flying, NEW snapshot \in BOOLEAN, NEW states \in BOOLEAN
  PROVE  /\ Without(RemoveAt(flying, i), i, FALSE)
         /\ Without(Superseded(i, snapshot, states), i, states)
<1>1. flying \in Seq(Refreshes) /\ i \in 1..Len(flying)
  BY DEF BoardTyped
<1>2. Without(RemoveAt(flying, i), i, FALSE)
  <2>0. /\ RemoveAt(flying, i) \in Seq(Refreshes) /\ Len(RemoveAt(flying, i)) = Len(flying) - 1
        /\ \A k \in 1..Len(flying)-1 :
             RemoveAt(flying, i)[k] = IF k < i THEN flying[k] ELSE flying[k+1]
    BY <1>1, Removed
  <2>1. ASSUME NEW k \in 1..Len(flying)-1
        PROVE  flying[Was(i, k)] \in Refreshes /\ RemoveAt(flying, i)[k] = flying[Was(i, k)]
    <3>1. Was(i, k) \in 1..Len(flying)
      BY <1>1 DEF Was
    <3> QED  BY <1>1, <2>0, <3>1 DEF Was
  <2> QED  BY <1>1, <2>0, <2>1 DEF Without, Refreshes
<1> DEFINE m(j) == IF j < i THEN [flying[j] EXCEPT !.old = flying[j].old \/ snapshot,
                                                   !.oldStates = flying[j].oldStates \/ states]
                   ELSE flying[j]
           t == [j \in DOMAIN flying |-> m(j)]
<1>3. ASSUME NEW j \in DOMAIN flying
      PROVE  /\ m(j) \in Refreshes /\ m(j).kind = flying[j].kind
             /\ m(j).snapshot = flying[j].snapshot /\ m(j).states = flying[j].states
             /\ m(j).early = flying[j].early
             /\ m(j).oldStates = (flying[j].oldStates \/ (states /\ j < i))
  <2>1. flying[j] \in Refreshes
    BY <1>1
  <2> QED  BY <2>1 DEF Refreshes
<1>4. Superseded(i, snapshot, states) = RemoveAt(t, i)
  BY DEF Superseded
<1> HIDE DEF m
<1>5. t \in Seq(Refreshes) /\ Len(t) = Len(flying) /\ \A j \in 1..Len(flying) : t[j] = m(j)
  <2>1. t \in [1..Len(flying) -> Refreshes]
    BY <1>1, <1>3
  <2> QED  BY <1>1, <2>1
<1> HIDE DEF t
<1>6. Without(RemoveAt(t, i), i, states)
  <2>0. /\ RemoveAt(t, i) \in Seq(Refreshes) /\ Len(RemoveAt(t, i)) = Len(flying) - 1
        /\ \A k \in 1..Len(flying)-1 :
             RemoveAt(t, i)[k] = IF k < i THEN t[k] ELSE t[k+1]
    BY <1>1, <1>5, Removed
  <2>1. ASSUME NEW k \in 1..Len(flying)-1
        PROVE  Was(i, k) \in 1..Len(flying) /\ RemoveAt(t, i)[k] = m(Was(i, k))
    <3>1. Was(i, k) \in 1..Len(flying)
      BY <1>1 DEF Was
    <3> QED  BY <1>1, <1>5, <2>0, <3>1 DEF Was
  <2> QED  BY <1>1, <1>3, <1>5, <2>0, <2>1 DEF Without
<1> QED  BY <1>2, <1>4, <1>6

LEMMA FlyingIs ==
  ASSUME BoardInv, NEW i \in DOMAIN flying
  PROVE  /\ flying[i] \in Refreshes /\ Worth(flying[i])
         /\ i \in 1..Len(flying) /\ Len(flying) \in Nat /\ DOMAIN flying = 1..Len(flying)
  BY DEF BoardInv, BoardTyped

(* An answer, of whatever kind, leaves the others worth what they were.    *)
LEMMA AnswerKeeps ==
  ASSUME BoardInv, NEW i \in DOMAIN flying, NEW states \in BOOLEAN, Without(flying', i, states),
         UNCHANGED <<board, observed, viewed, missing>>,
         states => \A k \in DOMAIN flying : flying[k].kind = "loop" => k = i,
         watched' = watched \/ (states /\ flying[i].kind = "viewed" /\ watched' = flying[i].states),
         created' \in {created, "selected", "dropped"},
         shown' \in [snapshot : Boards \cup {NoBoard}, states : States],
         ShownWell'
  PROVE  BoardInv'
<1>0. /\ Len(flying') = Len(flying) - 1 /\ flying' \in Seq(Refreshes)
      /\ Len(flying) \in Nat /\ i \in 1..Len(flying)
      /\ DOMAIN flying = 1..Len(flying) /\ DOMAIN flying' = 1..Len(flying')
  BY DEF Without, BoardInv, BoardTyped
<1>1. ASSUME NEW k \in DOMAIN flying'
      PROVE  LET j == Was(i, k)
             IN  /\ j \in DOMAIN flying /\ j # i
                 /\ flying'[k].kind = flying[j].kind /\ flying'[k].snapshot = flying[j].snapshot
                 /\ flying'[k].states = flying[j].states /\ flying'[k].early = flying[j].early
                 /\ flying'[k].oldStates = (flying[j].oldStates \/ (states /\ j < i))
  BY <1>0 DEF Without, Was
<1>2. watched' \in 0..MaxObserved /\ watched' <= observed
  <2>1. flying[i].kind = "viewed" => flying[i].states \in 0..MaxObserved /\ flying[i].states <= observed
    BY FlyingIs, RefreshAssumption DEF Worth, Refreshes, States
  <2> QED  BY <2>1 DEF BoardInv, BoardTyped, ShownWell
<1>3. BoardTyped'
  BY <1>0, <1>2 DEF BoardInv, BoardTyped
<1>4. ASSUME NEW k \in DOMAIN flying' PROVE Worth(flying[k])'
  <2> DEFINE j == Was(i, k)
  <2>1. j \in DOMAIN flying /\ j # i /\ Worth(flying[j]) /\ flying[j] \in Refreshes
    BY <1>1, <1>4, FlyingIs
  <2>2. flying'[k].states \in Nat => flying'[k].oldStates \/ watched' <= flying'[k].states
    <3>1. CASE watched' = watched
      BY <1>1, <1>4, <2>1, <3>1 DEF Worth
    <3>2. CASE states /\ flying[i].kind = "viewed" /\ watched' = flying[i].states
      <4>1. CASE j < i
        BY <1>1, <1>4, <3>2, <4>1
      <4>2. CASE ~(j < i)
        <5>1. i < j
          BY <1>0, <2>1, <4>2
        <5> QED  BY <1>1, <1>4, <2>1, <3>2, <5>1 DEF BoardInv, InBoardOrder
      <4> QED  BY <4>1, <4>2
    <3> QED  BY <3>1, <3>2
  <2>3. flying'[k].kind = "loop" => ~flying'[k].oldStates
    BY <1>1, <1>4, <2>1 DEF Worth
  <2>4. created' = "awaited" => created = "awaited"
    OBVIOUS
  <2> QED  BY <1>1, <1>4, <2>1, <2>2, <2>3, <2>4 DEF Worth
<1>5. InBoardOrder'
  <2>1. ASSUME NEW k \in DOMAIN flying', NEW l \in DOMAIN flying'
        PROVE  (k < l => Was(i, k) < Was(i, l)) /\ (Was(i, k) = Was(i, l) => k = l)
    BY <1>0 DEF Was
  <2> QED  BY <1>1, <2>1 DEF BoardInv, InBoardOrder
<1>6. ViewedLast'
  <2>1. ASSUME viewed # Unread PROVE watched' <= viewed
    BY <2>1 DEF BoardInv, ViewedLast
  <2> QED  BY <1>1, <2>1 DEF BoardInv, ViewedLast
<1> QED  BY <1>3, <1>4, <1>5, <1>6 DEF BoardInv

(* A refresh that begins has read nothing yet, or what was viewed.         *)
LEMMA BeginKeeps ==
  ASSUME BoardInv, NEW f \in Refreshes, NEW s \in Seq(Refreshes),
         flying' = Append(s, f), Len(s) = Len(flying),
         \A k \in DOMAIN flying :
            /\ s[k].kind = flying[k].kind /\ s[k].snapshot = flying[k].snapshot
            /\ s[k].states = flying[k].states /\ s[k].oldStates = flying[k].oldStates
            /\ s[k].early = flying[k].early \/ s[k].early,
         \/ created' = created /\ missing' = missing
         \/ created' = "awaited" /\ missing' = ~board.here /\ \A k \in DOMAIN flying : s[k].early,
         f.snapshot = NoBoard, ~f.oldStates,
         \/ f.kind # "viewed" /\ f.states = Unread /\ viewed' = viewed
         \/ f.kind = "viewed" /\ viewed # Unread /\ f.states = viewed /\ viewed' = Unread,
         f.kind = "loop" => \A k \in DOMAIN flying : flying[k].kind # "loop",
         UNCHANGED <<board, observed, watched, shown>>
  PROVE  BoardInv'
<1>0. /\ flying' \in Seq(Refreshes) /\ Len(flying') = Len(flying) + 1 /\ Len(flying) \in Nat
      /\ DOMAIN flying = 1..Len(flying) /\ DOMAIN flying' = 1..Len(flying)+1
      /\ \A k \in DOMAIN flying : flying'[k] = s[k]
      /\ flying'[Len(flying)+1] = f
  <2>1. flying \in Seq(Refreshes)
    BY DEF BoardInv, BoardTyped
  <2> QED  BY <2>1, AppendProperties
<1>1. BoardTyped'
  BY <1>0 DEF BoardInv, BoardTyped
<1>2. Worth(f)'
  BY RefreshAssumption DEF BoardInv, BoardTyped, ViewedLast, Worth
<1>3. ASSUME NEW k \in DOMAIN flying PROVE Worth(flying[k])'
  BY <1>0, <1>3, FlyingIs DEF Worth
<1>4. ASSUME NEW k \in DOMAIN flying' PROVE Worth(flying[k])'
  BY <1>0, <1>2, <1>3, <1>4
<1>5. InBoardOrder'
  <2>1. ASSUME NEW k \in DOMAIN flying, flying[k].kind = "viewed", f.states \in Nat
        PROVE  flying[k].states <= f.states
    BY <2>1, RefreshAssumption DEF BoardInv, ViewedLast
  <2>2. ASSUME NEW k \in DOMAIN flying', NEW l \in DOMAIN flying'
        PROVE  /\ k < l /\ flying'[k].kind = "viewed" /\ flying'[l].states \in Nat =>
                    flying'[k].states <= flying'[l].states
               /\ flying'[k].kind = "loop" /\ flying'[l].kind = "loop" => k = l
    <3>1. CASE k \in DOMAIN flying /\ l \in DOMAIN flying
      BY <1>0, <3>1 DEF BoardInv, InBoardOrder
    <3>2. CASE k \in DOMAIN flying /\ l = Len(flying)+1
      BY <1>0, <2>1, <3>2
    <3>3. CASE k = Len(flying)+1 /\ l \in DOMAIN flying
      BY <1>0, <3>3
    <3>4. CASE k = Len(flying)+1 /\ l = Len(flying)+1
      BY <3>4
    <3> QED  BY <1>0, <3>1, <3>2, <3>3, <3>4
  <2> QED  BY <2>2 DEF InBoardOrder
<1>6. ViewedLast'
  BY <1>0 DEF BoardInv, ViewedLast
<1>7. ShownWell'
  BY DEF BoardInv, ShownWell
<1> QED  BY <1>1, <1>4, <1>5, <1>6, <1>7 DEF BoardInv

(* What a refresh reads is the backend's at that moment.                   *)
LEMMA ReadKeeps ==
  ASSUME BoardInv, NEW i \in DOMAIN flying, NEW f \in Refreshes,
         flying' = [flying EXCEPT ![i] = f],
         f.kind = flying[i].kind, f.oldStates = flying[i].oldStates, f.early = flying[i].early,
         f.snapshot \in {flying[i].snapshot, board},
         \/ f.states = flying[i].states
         \/ flying[i].kind # "viewed" /\ f.states \in {observed, Nothing},
         UNCHANGED <<board, observed, viewed, watched, shown, created, missing>>
  PROVE  BoardInv'
<1>0. /\ flying' \in Seq(Refreshes) /\ DOMAIN flying' = DOMAIN flying
      /\ flying'[i] = f /\ \A k \in DOMAIN flying : k # i => flying'[k] = flying[k]
  BY DEF BoardInv, BoardTyped
<1>1. BoardTyped'
  BY <1>0 DEF BoardInv, BoardTyped
<1>2. Worth(f)'
  BY FlyingIs, RefreshAssumption DEF BoardInv, BoardTyped, ShownWell, Worth
<1>3. ASSUME NEW k \in DOMAIN flying, k # i PROVE Worth(flying[k])'
  BY <1>0, <1>3, FlyingIs DEF Worth
<1>4. InBoardOrder'
  <2>1. ASSUME NEW k \in DOMAIN flying, flying[k].kind = "viewed", f.states = observed
        PROVE  flying[k].states <= f.states
    BY <2>1, FlyingIs DEF Worth
  <2>2. ASSUME NEW k \in DOMAIN flying, NEW l \in DOMAIN flying
        PROVE  /\ k < l /\ flying'[k].kind = "viewed" /\ flying'[l].states \in Nat =>
                    flying'[k].states <= flying'[l].states
               /\ flying'[k].kind = "loop" /\ flying'[l].kind = "loop" => k = l
    <3>1. CASE k # i /\ l # i
      BY <1>0, <3>1 DEF BoardInv, InBoardOrder
    <3>2. CASE k # i /\ l = i
      BY <1>0, <2>1, <3>2, RefreshAssumption DEF BoardInv, InBoardOrder
    <3>3. CASE k = i /\ l # i
      BY <1>0, <3>3 DEF BoardInv, InBoardOrder
    <3>4. CASE k = i /\ l = i
      <4>1. i \in Nat
        BY FlyingIs
      <4> QED  BY <3>4, <4>1
    <3> QED  BY <3>1, <3>2, <3>3, <3>4
  <2> QED  BY <1>0, <2>2 DEF InBoardOrder
<1>5. ViewedLast'
  BY <1>0 DEF BoardInv, ViewedLast
<1>6. ShownWell'
  BY DEF BoardInv, ShownWell
<1> QED  BY <1>0, <1>1, <1>2, <1>3, <1>4, <1>5, <1>6 DEF BoardInv

(* What changes at the backend only adds to what it was.                   *)
LEMMA BackendKeeps ==
  ASSUME BoardInv, board' \in Boards, observed' \in 0..MaxObserved, observed <= observed',
         \/ viewed' = viewed
         \/ viewed = Unread /\ observed < observed' /\ viewed' = observed',
         missing' \in BOOLEAN, missing => missing', created = "awaited" /\ ~board'.here => missing',
         UNCHANGED <<flying, watched, shown, created>>
  PROVE  BoardInv'
<1>1. BoardTyped'
  BY DEF BoardInv, BoardTyped
<1>2. ASSUME NEW k \in DOMAIN flying PROVE Worth(flying[k])'
  BY <1>2, FlyingIs DEF Worth, BoardInv, BoardTyped
<1>3. InBoardOrder'
  BY DEF BoardInv, InBoardOrder
<1>4. ViewedLast'
  <2>1. ASSUME NEW k \in DOMAIN flying, flying[k].kind = "viewed"
        PROVE  flying[k].states \in Nat /\ flying[k].states <= observed
    BY <2>1, FlyingIs DEF Worth
  <2>2. viewed # Unread => viewed \in 0..MaxObserved
    BY DEF BoardInv, BoardTyped
  <2> QED  BY <2>1, <2>2 DEF BoardInv, BoardTyped, ViewedLast, ShownWell
<1>5. ShownWell'
  BY DEF BoardInv, BoardTyped, ShownWell
<1> QED  BY <1>1, <1>2, <1>3, <1>4, <1>5 DEF BoardInv

LEMMA NewIs ==
  ASSUME NEW kind \in {"feed", "forced", "loop", "viewed"}, NEW states \in States
  PROVE  LET f == [NewRefresh(kind) EXCEPT !.states = states]
         IN  /\ f \in Refreshes /\ f.kind = kind /\ f.states = states
             /\ f.snapshot = NoBoard /\ ~f.oldStates
             /\ NewRefresh(kind) \in Refreshes /\ NewRefresh(kind).kind = kind
             /\ NewRefresh(kind).states = Unread
             /\ NewRefresh(kind).snapshot = NoBoard /\ ~NewRefresh(kind).oldStates
  BY DEF NewRefresh, Refreshes, States

LEMMA BoardInvInit == RefreshInit => BoardInv
<1> SUFFICES ASSUME RefreshInit PROVE BoardInv
  OBVIOUS
<1>1. BoardTyped
  <2>1. flying \in Seq(Refreshes)
    BY DEF RefreshInit
  <2>2. board \in Boards /\ 0 \in 0..MaxObserved
    BY RefreshAssumption DEF RefreshInit, Boards
  <2>3. shown \in [snapshot : Boards \cup {NoBoard}, states : States]
    <3>1. NoBoard \in Boards \cup {NoBoard} /\ Unread \in States
      BY DEF States
    <3> QED  BY <3>1 DEF RefreshInit
  <2> QED  BY <2>1, <2>2, <2>3 DEF RefreshInit, BoardTyped
<1>2. flying = << >> /\ DOMAIN flying = {}
  BY DEF RefreshInit
<1> QED
  BY <1>1, <1>2, RefreshAssumption DEF RefreshInit, BoardInv, InBoardOrder, ViewedLast, ShownWell

LEMMA BoardStep == BoardInv /\ [RefreshNext]_refreshVars => BoardInv'
<1> SUFFICES ASSUME BoardInv, [RefreshNext]_refreshVars PROVE BoardInv'
  OBVIOUS
<1> USE DEF backend, viewOf
<1>0. /\ BoardTyped /\ flying \in Seq(Refreshes) /\ DOMAIN flying = 1..Len(flying)
      /\ board \in Boards /\ observed \in 0..MaxObserved /\ observed \in Nat
      /\ \A k \in DOMAIN flying : flying[k] \in Refreshes /\ Worth(flying[k])
      /\ shown \in [snapshot : Boards \cup {NoBoard}, states : States]
  BY DEF BoardInv, BoardTyped
<1>a. MaxObserved \in Nat /\ MaxBoard \in Nat /\ Unread \notin Nat /\ Nothing \notin Nat /\ Unread # Nothing
  BY RefreshAssumption
<1>b. missing' = missing => /\ missing' \in BOOLEAN /\ (missing => missing')
                            /\ (created = "awaited" /\ ~board.here => missing')
  BY DEF BoardInv, BoardTyped, ShownWell
<1>1. ASSUME NEW b \in BOOLEAN, Mutate(b) PROVE BoardInv'
  <2>1. board' = [changes |-> board.changes + 1, here |-> b] /\ board' \in Boards
    BY <1>0, <1>a, <1>1 DEF Mutate, ContentIs, Boards
  <2>2. missing \in BOOLEAN /\ missing' = (missing \/ ~b) /\ observed' = observed
    BY <1>0, <1>1 DEF Mutate, ContentIs, BoardTyped
  <2>3. missing' \in BOOLEAN /\ (missing => missing') /\ (~b => missing')
    BY <2>2
  <2>4. board'.here = b
    BY <2>1
  <2>5. UNCHANGED <<viewed, flying, watched, shown, created>>
    BY <1>1 DEF Mutate
  <2> QED  BY <1>0, <2>1, <2>2, <2>3, <2>4, <2>5, BackendKeeps
<1>2. CASE Observe
  BY <1>0, <1>a, <1>b, <1>2, BackendKeeps DEF Observe, ContentIs
<1>3. CASE Advance
  <2>1. UNCHANGED <<board, observed, viewed, missing, flying, watched, shown, created>>
    BY <1>3 DEF Advance, Feed!Bump
  <2> QED  BY <1>0, <1>b, <2>1, BackendKeeps
<1>4. CASE FeedWakes
  <2>1. /\ flying' = Append(flying, NewRefresh("feed"))
        /\ UNCHANGED <<board, observed, viewed, shown, created, missing, watched>>
    BY <1>4 DEF FeedWakes, BeginRefresh, Feed!Wake
  <2>2. Unread \in States
    BY DEF States
  <2> QED  BY <1>0, <2>1, <2>2, NewIs, BeginKeeps
<1>5. CASE RefreshAfterEdit
  <2>1. PICK kind \in {"forced", "loop"} : flying' = Append(flying, NewRefresh(kind))
    BY <1>5 DEF RefreshAfterEdit, BeginRefresh
  <2>2. /\ UNCHANGED <<board, observed, viewed, shown, created, missing, watched>>
        /\ \A k \in DOMAIN flying : flying[k].kind # "loop"
    BY <1>5 DEF RefreshAfterEdit, LoopBusy
  <2>3. Unread \in States
    BY DEF States
  <2> QED  BY <1>0, <2>1, <2>2, <2>3, NewIs, BeginKeeps
<1>6. CASE ReadFresh
  <2>1. /\ observed' = observed + 1 /\ viewed' = observed' /\ viewed = Unread
        /\ observed' \in 0..MaxObserved
        /\ UNCHANGED <<board, flying, shown, created, missing, watched>>
    BY <1>0, <1>a, <1>6 DEF ReadFresh
  <2> QED  BY <1>0, <1>b, <2>1, BackendKeeps
<1>7. CASE TakeRevision
  <2>1. /\ flying' = Append(flying, [NewRefresh("viewed") EXCEPT !.states = viewed])
        /\ viewed # Unread /\ viewed' = Unread /\ viewed \in States
        /\ UNCHANGED <<board, observed, shown, created, missing, watched>>
    BY <1>0, <1>7 DEF TakeRevision, BoardTyped, States
  <2> QED  BY <1>0, <2>1, NewIs, BeginKeeps
<1>8. CASE SessionCreated
  <2> DEFINE m(k) == [flying[k] EXCEPT !.early = TRUE]
             s == [k \in DOMAIN flying |-> m(k)]
  <2>1. ASSUME NEW k \in DOMAIN flying
        PROVE  /\ m(k) \in Refreshes /\ m(k).kind = flying[k].kind
               /\ m(k).snapshot = flying[k].snapshot /\ m(k).states = flying[k].states
               /\ m(k).oldStates = flying[k].oldStates /\ m(k).early
    BY <1>0 DEF Refreshes
  <2>2. /\ flying' = Append(s, NewRefresh("forced"))
        /\ created' = "awaited" /\ missing' = ~board.here
        /\ UNCHANGED <<board, observed, viewed, shown, watched>>
    BY <1>8 DEF SessionCreated
  <2> HIDE DEF m
  <2>3. s \in Seq(Refreshes) /\ Len(s) = Len(flying) /\ \A k \in DOMAIN flying : s[k] = m(k)
    <3>1. s \in [1..Len(flying) -> Refreshes]
      BY <1>0, <2>1
    <3> QED  BY <1>0, <3>1
  <2> HIDE DEF s
  <2>4. Unread \in States
    BY DEF States
  <2>5. /\ NewRefresh("forced") \in Refreshes /\ NewRefresh("forced").kind = "forced"
        /\ NewRefresh("forced").states = Unread
        /\ NewRefresh("forced").snapshot = NoBoard /\ ~NewRefresh("forced").oldStates
    BY <2>4, NewIs
  <2>6. \A k \in DOMAIN flying :
           /\ s[k].kind = flying[k].kind /\ s[k].snapshot = flying[k].snapshot
           /\ s[k].states = flying[k].states /\ s[k].oldStates = flying[k].oldStates
           /\ s[k].early
    BY <2>1, <2>3
  <2> QED  BY <1>0, <2>2, <2>3, <2>5, <2>6, BeginKeeps
<1>9. ASSUME NEW i \in DOMAIN flying, ReadSnapshot(i) PROVE BoardInv'
  <2> DEFINE f == [flying[i] EXCEPT !.snapshot = board]
  <2>1. /\ f \in Refreshes /\ f.kind = flying[i].kind /\ f.oldStates = flying[i].oldStates
        /\ f.early = flying[i].early /\ f.snapshot = board /\ f.states = flying[i].states
    BY <1>0, <1>9 DEF Refreshes
  <2>2. /\ flying' = [flying EXCEPT ![i] = f]
        /\ UNCHANGED <<board, observed, viewed, watched, shown, created, missing>>
    BY <1>9 DEF ReadSnapshot
  <2> HIDE DEF f
  <2> QED  BY <1>9, <2>1, <2>2, ReadKeeps
<1>10. ASSUME NEW i \in DOMAIN flying, ReadStates(i) \/ StatesFail(i) PROVE BoardInv'
  <2>1. flying[i].kind # "viewed"
    BY <1>0, <1>a, <1>10 DEF ReadStates, StatesFail, Worth
  <2>2. PICK states \in {observed, Nothing} :
             flying' = [flying EXCEPT ![i] = [flying[i] EXCEPT !.states = states]]
    BY <1>10 DEF ReadStates, StatesFail
  <2>3. UNCHANGED <<board, observed, viewed, watched, shown, created, missing>>
    BY <1>10 DEF ReadStates, StatesFail
  <2> DEFINE f == [flying[i] EXCEPT !.states = states]
  <2>4. /\ f \in Refreshes /\ f.kind = flying[i].kind /\ f.oldStates = flying[i].oldStates
        /\ f.early = flying[i].early /\ f.snapshot = flying[i].snapshot /\ f.states = states
    BY <1>0, <1>10, <2>2 DEF Refreshes, States
  <2>5. flying' = [flying EXCEPT ![i] = f]
    BY <2>2
  <2> HIDE DEF f
  <2> QED  BY <1>10, <2>1, <2>2, <2>3, <2>4, <2>5, ReadKeeps
<1>11. ASSUME NEW i \in DOMAIN flying, FetchFails(i) PROVE BoardInv'
  <2> DEFINE showsStates == flying[i].kind = "loop" /\ flying[i].states # Nothing
  <2>1. showsStates \in BOOLEAN
    OBVIOUS
  <2>2. /\ flying' = Superseded(i, FALSE, showsStates) /\ flying[i].states # Unread
        /\ shown' = IF showsStates THEN [shown EXCEPT !.states = flying[i].states] ELSE shown
        /\ UNCHANGED <<board, observed, viewed, created, missing, watched>>
    BY <1>11 DEF FetchFails
  <2>3. Without(flying', i, showsStates)
    BY <1>0, <2>1, <2>2, AnswerLeaves
  <2>4. showsStates => \A k \in DOMAIN flying : flying[k].kind = "loop" => k = i
    BY DEF BoardInv, InBoardOrder
  <2>5. showsStates => flying[i].states \in Nat /\ watched <= flying[i].states
    BY <1>0, <2>2 DEF Worth, Refreshes, States
  <2>6. /\ shown' \in [snapshot : Boards \cup {NoBoard}, states : States]
        /\ shown'.states = IF showsStates THEN flying[i].states ELSE shown.states
    BY <1>0, <2>2 DEF Refreshes
  <2>7. ShownWell'
    BY <2>2, <2>5, <2>6 DEF BoardInv, ShownWell
  <2> HIDE DEF showsStates
  <2> QED  BY <2>1, <2>2, <2>3, <2>4, <2>6, <2>7, AnswerKeeps
<1>12. ASSUME NEW i \in DOMAIN flying, FoldViewed(i) PROVE BoardInv'
  <2>1. /\ flying[i].kind = "viewed" /\ flying[i].states \in Nat /\ flying[i].states <= observed
        /\ \A k \in DOMAIN flying : flying[k].kind # "loop"
        /\ UNCHANGED <<board, observed, viewed, created, missing>>
    BY <1>0, <1>12 DEF FoldViewed, LoopBusy, Worth
  <2>2. CASE flying[i].oldStates
    <3>1. flying' = RemoveAt(flying, i) /\ UNCHANGED <<shown, watched>>
      BY <1>12, <2>2 DEF FoldViewed
    <3>2. Without(flying', i, FALSE)
      BY <1>0, <3>1, AnswerLeaves
    <3>3. ShownWell'
      BY <2>1, <3>1 DEF BoardInv, ShownWell
    <3> QED  BY <1>0, <2>1, <3>1, <3>2, <3>3, AnswerKeeps
  <2>3. CASE ~flying[i].oldStates
    <3>1. /\ flying' = Superseded(i, FALSE, TRUE)
          /\ shown' = [shown EXCEPT !.states = flying[i].states]
          /\ watched' = flying[i].states
      BY <1>12, <2>3 DEF FoldViewed
    <3>2. Without(flying', i, TRUE)
      BY <1>0, <3>1, AnswerLeaves
    <3>3. /\ shown' \in [snapshot : Boards \cup {NoBoard}, states : States]
          /\ shown'.states = flying[i].states
      BY <1>0, <3>1 DEF Refreshes
    <3>4. ShownWell'
      BY <2>1, <3>1, <3>3 DEF BoardInv, ShownWell
    <3> QED  BY <2>1, <3>1, <3>2, <3>3, <3>4, AnswerKeeps
  <2> QED  BY <2>2, <2>3
<1>13. ASSUME NEW i \in DOMAIN flying, Fold(i) PROVE BoardInv'
  <2> DEFINE f == flying[i]
             keeps == f.oldStates \/ (f.kind = "loop" /\ f.states = Nothing)
             states == ~keeps
  <2>1. /\ f.kind # "viewed" /\ f.snapshot # NoBoard /\ f.states # Unread
        /\ f.kind = "loop" \/ \A k \in DOMAIN flying : flying[k].kind # "loop"
        /\ UNCHANGED <<board, observed, viewed, missing, watched>>
    BY <1>13 DEF Fold, LoopBusy
  <2>2. CASE IsOld(f)
    <3>1. flying' = RemoveAt(flying, i) /\ UNCHANGED <<shown, created>>
      BY <1>13, <2>2 DEF Fold
    <3>2. Without(flying', i, FALSE)
      BY <1>0, <3>1, AnswerLeaves
    <3>3. ShownWell'
      BY <2>1, <3>1 DEF BoardInv, ShownWell
    <3> QED  BY <1>0, <2>1, <3>1, <3>2, <3>3, AnswerKeeps
  <2>3. CASE ~IsOld(f)
    <3>0. states \in BOOLEAN
      OBVIOUS
    <3>1. /\ flying' = Superseded(i, TRUE, states)
          /\ shown' = [snapshot |-> f.snapshot, states |-> IF keeps THEN shown.states ELSE f.states]
          /\ created' = IF created = "awaited" /\ f.kind # "loop" THEN Settle(f) ELSE created
      BY <1>13, <2>3 DEF Fold
    <3>2. Without(flying', i, states)
      BY <1>0, <3>0, <3>1, AnswerLeaves
    <3>3. /\ shown' \in [snapshot : Boards \cup {NoBoard}, states : States]
          /\ shown'.states = IF keeps THEN shown.states ELSE f.states
      BY <1>0, <3>1 DEF Refreshes
    <3>4. /\ created' \in {created, "selected", "dropped"}
          /\ created' = "dropped" => missing
      BY <1>0, <2>1, <3>1 DEF Settle, Worth, BoardInv, ShownWell
    <3>5. ~keeps => f.states = Nothing \/ (f.states \in Nat /\ watched <= f.states)
      BY <1>0, <2>1 DEF Worth, Refreshes, States
    <3>6. ShownWell'
      BY <2>1, <3>3, <3>4, <3>5 DEF BoardInv, ShownWell
    <3>7. states => \A k \in DOMAIN flying : flying[k].kind = "loop" => k = i
      BY <2>1 DEF BoardInv, InBoardOrder
    <3> HIDE DEF states, keeps
    <3> QED  BY <2>1, <3>0, <3>2, <3>3, <3>4, <3>6, <3>7, AnswerKeeps
  <2> QED  BY <2>2, <2>3
<1>14. CASE UNCHANGED refreshVars
  BY <1>0, <1>b, <1>14, BackendKeeps DEF refreshVars
<1> QED
  BY <1>1, <1>2, <1>3, <1>4, <1>5, <1>6, <1>7, <1>8, <1>9, <1>10, <1>11, <1>12, <1>13, <1>14
  DEF RefreshNext

LEMMA BoardInvariance == RefreshSpec => []BoardInv
  BY BoardInvInit, BoardStep, PTL DEF RefreshSpec

(* The feed task has one refresh of its own in flight, or none and waits   *)
(* for the feed.                                                           *)
FeedInv ==
  /\ Len(flying) <= MaxFlying /\ feeding \in BOOLEAN
  /\ feeding <=> \E i \in DOMAIN flying : flying[i].kind = "feed"
  /\ \A i, j \in DOMAIN flying : flying[i].kind = "feed" /\ flying[j].kind = "feed" => i = j

(* A refresh begins.                                                       *)
LEMMA FeedBegins ==
  ASSUME BoardTyped, FeedInv, NEW f \in Refreshes, NEW s \in Seq(Refreshes), Len(s) = Len(flying),
         \A i \in DOMAIN flying : s[i].kind = flying[i].kind,
         flying' = Append(s, f), Len(flying) < MaxFlying,
         IF f.kind = "feed" THEN ~feeding /\ feeding' = TRUE ELSE UNCHANGED feeding
  PROVE  FeedInv'
<1>1. /\ Len(flying) \in Nat /\ DOMAIN flying = 1..Len(flying) /\ MaxFlying \in Nat
  BY RefreshAssumption DEF BoardTyped
<1>2. /\ Len(flying') = Len(flying) + 1 /\ DOMAIN flying' = 1..Len(flying) + 1
      /\ flying'[Len(flying) + 1] = f
      /\ \A i \in 1..Len(flying) : flying'[i].kind = flying[i].kind
  BY <1>1
<1>3. Len(flying') <= MaxFlying /\ feeding' \in BOOLEAN
  <2>1. Len(flying') <= MaxFlying
    BY <1>1, <1>2
  <2>2. feeding' \in BOOLEAN
    BY Zenon DEF FeedInv
  <2> QED  BY <2>1, <2>2
<1>4. CASE f.kind = "feed"
  <2>1. \A i \in 1..Len(flying) : flying'[i].kind # "feed"
    BY <1>1, <1>2, <1>4 DEF FeedInv
  <2>2. Len(flying) + 1 \in DOMAIN flying' /\ flying'[Len(flying) + 1].kind = "feed"
    BY <1>1, <1>2, <1>4
  <2>3. \A i \in DOMAIN flying' : flying'[i].kind = "feed" => i = Len(flying) + 1
    BY <1>1, <1>2, <2>1
  <2>4. feeding'
    BY <1>4
  <2> QED  BY <1>3, <2>2, <2>3, <2>4 DEF FeedInv
<1>5. CASE f.kind # "feed"
  <2>1. \A i \in DOMAIN flying' : flying'[i].kind = "feed" => i \in DOMAIN flying /\ flying[i].kind = "feed"
    BY <1>1, <1>2, <1>5
  <2>2. \A i \in DOMAIN flying : i \in DOMAIN flying' /\ flying'[i].kind = flying[i].kind
    BY <1>1, <1>2
  <2>3. feeding' = feeding
    BY <1>5
  <2> QED  BY <1>3, <2>1, <2>2, <2>3 DEF FeedInv
<1> QED  BY <1>4, <1>5

(* A refresh ends, and with the feed task's own its wait.                  *)
LEMMA FeedEnds ==
  ASSUME BoardTyped, FeedInv, NEW i \in DOMAIN flying, NEW states \in BOOLEAN,
         Without(flying', i, states), feeding' \in BOOLEAN,
         feeding' <=> feeding /\ flying[i].kind # "feed"
  PROVE  FeedInv'
<1>1. /\ Len(flying) \in Nat /\ DOMAIN flying = 1..Len(flying) /\ i \in 1..Len(flying)
      /\ MaxFlying \in Nat
  BY RefreshAssumption DEF BoardTyped
<1>2. /\ Len(flying') = Len(flying) - 1 /\ DOMAIN flying' = 1..Len(flying) - 1
  BY <1>1 DEF Without
<1>3. \A k \in DOMAIN flying' : /\ Was(i, k) \in DOMAIN flying \ {i}
                               /\ flying'[k].kind = flying[Was(i, k)].kind
  BY <1>1, <1>2 DEF Without, Was
<1>4. \A k, l \in DOMAIN flying' : Was(i, k) = Was(i, l) => k = l
  BY <1>1, <1>2 DEF Was
<1>5. \A j \in DOMAIN flying \ {i} : \E k \in DOMAIN flying' : Was(i, k) = j
  <2> SUFFICES ASSUME NEW j \in DOMAIN flying \ {i} PROVE \E k \in DOMAIN flying' : Was(i, k) = j
    OBVIOUS
  <2>1. CASE j < i
    BY <1>1, <1>2, <2>1 DEF Was
  <2>2. CASE j > i
    <3>1. j - 1 \in DOMAIN flying' /\ Was(i, j - 1) = j
      BY <1>1, <1>2, <2>2 DEF Was
    <3> QED  BY <3>1
  <2> QED  BY <1>1, <2>1, <2>2
<1>6. feeding' <=> \E j \in DOMAIN flying \ {i} : flying[j].kind = "feed"
  BY DEF FeedInv
<1>7. Len(flying') <= MaxFlying
  BY <1>1, <1>2 DEF FeedInv
<1>8. ASSUME feeding' PROVE \E k \in DOMAIN flying' : flying'[k].kind = "feed"
  <2>1. PICK j \in DOMAIN flying \ {i} : flying[j].kind = "feed"
    BY <1>6, <1>8
  <2>2. PICK k \in DOMAIN flying' : Was(i, k) = j
    BY <1>5, <2>1
  <2>3. flying'[k].kind = "feed"
    BY <1>3, <2>1, <2>2
  <2> QED  BY <2>3
<1>9. ASSUME NEW k \in DOMAIN flying', flying'[k].kind = "feed" PROVE feeding'
  <2>1. Was(i, k) \in DOMAIN flying \ {i} /\ flying[Was(i, k)].kind = "feed"
    BY <1>3, <1>9
  <2> QED  BY <1>6, <2>1
<1>10. ASSUME NEW k \in DOMAIN flying', NEW l \in DOMAIN flying',
              flying'[k].kind = "feed", flying'[l].kind = "feed"
       PROVE  k = l
  <2>1. /\ Was(i, k) \in DOMAIN flying /\ flying[Was(i, k)].kind = "feed"
        /\ Was(i, l) \in DOMAIN flying /\ flying[Was(i, l)].kind = "feed"
    BY <1>3, <1>10
  <2>2. Was(i, k) = Was(i, l)
    BY <2>1 DEF FeedInv
  <2> QED  BY <1>4, <2>2
<1> QED  BY <1>7, <1>8, <1>9, <1>10 DEF FeedInv

LEMMA FeedStep == BoardInv /\ FeedInv /\ [RefreshNext]_refreshVars => FeedInv'
<1> SUFFICES ASSUME BoardInv, FeedInv, [RefreshNext]_refreshVars PROVE FeedInv'
  OBVIOUS
<1>0. /\ BoardTyped /\ flying \in Seq(Refreshes) /\ DOMAIN flying = 1..Len(flying)
      /\ Len(flying) \in Nat
  BY DEF BoardInv, BoardTyped
<1>1. CASE UNCHANGED <<feeding, flying>>
  BY <1>1 DEF FeedInv
<1>a. \A kind \in {"feed", "forced", "loop", "viewed"} :
        NewRefresh(kind) \in Refreshes /\ NewRefresh(kind).kind = kind
  BY NewIs DEF States
<1>2. CASE FeedWakes
  BY <1>0, <1>a, <1>2, FeedBegins DEF FeedWakes, BeginRefresh
<1>3. CASE RefreshAfterEdit
  <2>1. PICK kind \in {"forced", "loop"} : BeginRefresh(kind)
    BY <1>3 DEF RefreshAfterEdit
  <2> QED  BY <1>0, <1>a, <1>3, <2>1, FeedBegins DEF RefreshAfterEdit, BeginRefresh
<1>4. CASE TakeRevision
  <2> DEFINE f == [NewRefresh("viewed") EXCEPT !.states = viewed]
  <2>1. /\ flying' = Append(flying, f) /\ Len(flying) < MaxFlying /\ UNCHANGED feeding
        /\ viewed \in States
    BY <1>0, <1>4 DEF TakeRevision, BoardTyped, States
  <2>2. f \in Refreshes /\ f.kind = "viewed"
    BY <2>1, NewIs
  <2> HIDE DEF f
  <2> QED  BY <1>0, <2>1, <2>2, FeedBegins
<1>5. CASE SessionCreated
  <2> DEFINE m(k) == [flying[k] EXCEPT !.early = TRUE]
             s == [k \in DOMAIN flying |-> m(k)]
  <2>1. ASSUME NEW k \in DOMAIN flying
        PROVE  m(k) \in Refreshes /\ m(k).kind = flying[k].kind
    <3>1. flying[k] \in Refreshes
      BY <1>0
    <3> QED  BY <3>1 DEF Refreshes
  <2>2. /\ flying' = Append(s, NewRefresh("forced")) /\ Len(flying) < MaxFlying
        /\ UNCHANGED feeding
    BY <1>5 DEF SessionCreated
  <2> HIDE DEF m
  <2>3. s \in Seq(Refreshes) /\ Len(s) = Len(flying) /\ \A k \in DOMAIN flying : s[k] = m(k)
    <3>1. s \in [1..Len(flying) -> Refreshes]
      BY <1>0, <2>1
    <3> QED  BY <1>0, <3>1
  <2> HIDE DEF s
  <2> QED  BY <1>0, <1>a, <2>1, <2>2, <2>3, FeedBegins
<1>6. ASSUME NEW i \in DOMAIN flying, ReadSnapshot(i) \/ ReadStates(i) \/ StatesFail(i) PROVE FeedInv'
  <2>0. flying[i] \in Refreshes
    BY <1>0
  <2>1. PICK f \in Refreshes : f.kind = flying[i].kind /\ flying' = [flying EXCEPT ![i] = f]
    <3>1. CASE ReadSnapshot(i)
      <4> DEFINE f == [flying[i] EXCEPT !.snapshot = board]
      <4>1. f \in Refreshes /\ f.kind = flying[i].kind
        BY <1>0, <2>0 DEF Refreshes, BoardTyped
      <4>2. flying' = [flying EXCEPT ![i] = f]
        BY <3>1 DEF ReadSnapshot
      <4> HIDE DEF f
      <4> QED  BY <4>1, <4>2
    <3>2. CASE ReadStates(i) \/ StatesFail(i)
      <4>1. PICK states \in {observed, Nothing} :
                 flying' = [flying EXCEPT ![i] = [flying[i] EXCEPT !.states = states]]
        BY <3>2 DEF ReadStates, StatesFail
      <4> DEFINE f == [flying[i] EXCEPT !.states = states]
      <4>2. f \in Refreshes /\ f.kind = flying[i].kind
        BY <1>0, <2>0, <4>1 DEF Refreshes, BoardTyped, States
      <4>3. flying' = [flying EXCEPT ![i] = f]
        BY <4>1
      <4> HIDE DEF f
      <4> QED  BY <4>2, <4>3
    <3> QED  BY <1>6, <3>1, <3>2
  <2>2. UNCHANGED feeding
    BY <1>6 DEF ReadSnapshot, ReadStates, StatesFail
  <2>3. /\ Len(flying') = Len(flying) /\ DOMAIN flying' = DOMAIN flying
        /\ \A k \in DOMAIN flying : flying'[k].kind = flying[k].kind
    BY <1>0, <1>6, <2>1
  <2> QED  BY <2>2, <2>3 DEF FeedInv
<1>7. ASSUME NEW i \in DOMAIN flying, FetchFails(i) \/ FoldViewed(i) \/ Fold(i) PROVE FeedInv'
  <2>0. \A snapshot, states \in BOOLEAN : /\ Without(RemoveAt(flying, i), i, FALSE)
                                         /\ Without(Superseded(i, snapshot, states), i, states)
    BY <1>0, AnswerLeaves
  <2>1. \/ flying' = RemoveAt(flying, i)
        \/ \E snapshot, states \in BOOLEAN : flying' = Superseded(i, snapshot, states)
    <3>1. CASE FetchFails(i)
      <4> DEFINE states == flying[i].kind = "loop" /\ flying[i].states # Nothing
      <4>1. flying' = Superseded(i, FALSE, states) /\ states \in BOOLEAN
        BY <3>1 DEF FetchFails
      <4> HIDE DEF states
      <4> QED  BY <4>1
    <3>2. CASE FoldViewed(i)
      BY <3>2 DEF FoldViewed
    <3>3. CASE Fold(i)
      <4> DEFINE states == ~(flying[i].oldStates \/ (flying[i].kind = "loop" /\ flying[i].states = Nothing))
      <4>1. /\ flying' = RemoveAt(flying, i) \/ flying' = Superseded(i, TRUE, states)
            /\ states \in BOOLEAN
        BY <3>3 DEF Fold
      <4> HIDE DEF states
      <4> QED  BY <4>1
    <3> QED  BY <1>7, <3>1, <3>2, <3>3
  <2>2. \E states \in BOOLEAN : Without(flying', i, states)
    BY <2>0, <2>1
  <2>3. feeding' \in BOOLEAN /\ (feeding' <=> feeding /\ flying[i].kind # "feed")
    <3>0. feeding \in BOOLEAN
      BY DEF FeedInv
    <3>1. Done(i) \/ (UNCHANGED feeding /\ flying[i].kind = "viewed")
      <4>1. CASE FetchFails(i)
        BY <4>1, Zenon DEF FetchFails
      <4>2. CASE FoldViewed(i)
        BY <4>2, Zenon DEF FoldViewed
      <4>3. CASE Fold(i)
        BY <4>3, Zenon DEF Fold
      <4> QED  BY <1>7, <4>1, <4>2, <4>3
    <3>2. CASE Done(i)
      BY <3>0, <3>2, Zenon DEF Done
    <3>3. CASE UNCHANGED feeding /\ flying[i].kind = "viewed"
      BY <3>0, <3>3
    <3> QED  BY <3>1, <3>2, <3>3
  <2> QED  BY <1>0, <2>2, <2>3, FeedEnds
<1> QED
  BY <1>1, <1>2, <1>3, <1>4, <1>5, <1>6, <1>7
     DEF RefreshNext, Mutate, Observe, Advance, ReadFresh, refreshVars, viewOf

LEMMA FeedInvInit == RefreshInit => FeedInv
<1> SUFFICES ASSUME RefreshInit PROVE FeedInv
  OBVIOUS
<1>1. flying = << >> /\ feeding = FALSE /\ MaxFlying \in Nat
  BY RefreshAssumption DEF RefreshInit
<1>2. Len(flying) <= MaxFlying /\ DOMAIN flying = {}
  BY <1>1
<1> QED  BY <1>1, <1>2, Zenon DEF FeedInv

LEMMA RefreshInvType == BoardInv /\ FeedInv => RefreshTypeOK
BY DEF BoardInv, BoardTyped, FeedInv, RefreshTypeOK, States

(* The view's types; and the feed task waits exactly while a refresh of    *)
(* its own is in flight, of which there is one at most.                    *)
THEOREM RefreshTypeCorrect == RefreshSpec => []RefreshTypeOK
BY BoardInvInit, BoardStep, FeedInvInit, FeedStep, RefreshInvType, PTL DEF RefreshSpec


(* Whatever refreshes overtake each other, however many are in flight and  *)
(* however often sessions come and go: PendingSession::settle gives up the *)
(* session just created only if the backend was without it at some moment  *)
(* since.                                                                  *)
THEOREM CreatedSessionsStay == RefreshSpec => []CreatedIsNotDropped
<1>1. BoardInv => CreatedIsNotDropped
  BY DEF BoardInv, ShownWell, CreatedIsNotDropped
<1> QED  BY <1>1, BoardInvariance, PTL

(* Once the user has watched a session, the view never again shows agent   *)
(* states from before: the revisions of agent_states_revision are enough   *)
(* against every read that was in flight.                                  *)
THEOREM WatchedIsWatched == RefreshSpec => []WatchedStatesStay
<1>1. BoardInv => WatchedStatesStay
  BY DEF BoardInv, ShownWell, WatchedStatesStay
<1> QED  BY <1>1, BoardInvariance, PTL
=============================================================================
