---------------------------- MODULE ReviewFiles ----------------------------
(***************************************************************************)
(* The two files a session's review keeps beside the diff: the comments    *)
(* (comment/mod.rs) and the reviewed marks (reviewed.rs), and the calls of *)
(* api.rs that read the diff and then change them.  A call is a sequence   *)
(* of awaits and any two may be in flight, in the TUI, in the server and   *)
(* in the review CLI.  The comments are loaded, changed and saved with no  *)
(* lock; the marks are updated under a flock.                              *)
(*                                                                         *)
(* A file's content in the diff stands for its hunks and for their hash.   *)
(* marked_at and composed_at are only compared with each other, so a call  *)
(* keeps which files were marked since it began, not the two stamps.       *)
(***************************************************************************)
EXTENDS Naturals, FiniteSets

CONSTANTS Caller,
          File,
          Version,     \* the contents each file takes in the diff, Absent too
          Absent,      \* the content of a file that is not in the diff
          Comment,
          FileOf,      \* the file a comment is on
          Fits,        \* the contents in which its snippet is still found
          Pins,        \* the selections callers mark, file by file
          AnyContent,  \* a file selected whatever its content
          Unset,
          Partial,     \* compositions may miss files that are there
          Ops,         \* the requests that arrive
          AgentStates, \* ready, prompt (waiting for input), stopped
          MaxCalls,    \* calls in flight
          MaxWriters   \* of which that rewrite the comments

Content == (UNION {Version[f] : f \in File}) \ {Absent}
Diff == {d \in [File -> Content \cup {Absent}] :
           \A f \in File : d[f] \in Version[f] \cup {Absent}}
Selection == [File -> Content \cup {AnyContent, Unset}]

Trees == {d \in Diff : \A f \in File : d[f] \in Version[f]}

NoMarks == [f \in File |-> Unset]

ASSUME ReviewAssumption ==
  /\ {Unset, AnyContent} \cap Content = {} /\ Absent # Unset /\ AnyContent # Unset
  /\ FileOf \in [Comment -> File] /\ Fits \in [Comment -> SUBSET Content]
  /\ Pins \subseteq Selection \ {NoMarks} /\ Unset \notin Caller /\ "ready" \in AgentStates

VARIABLES tree,      \* git: what the diff of the worktree holds, file by file
          agent,     \* the session's agent: ready, at a prompt, or stopped
          comments,  \* <session>.json of the comments: the status, or none
          marks,     \* <session>.json of the marks: the content pinned, or Unset
          flock,     \* <session>.lock of the marks
          kept,      \* ghost: files whose mark has matched the tree ever since
          left,      \* ghost: comments whose file was out of the tree since
          told,      \* ghost: comments that were in a brief the agent was sent
          calls      \* per caller: where it stands and what it has read

files == <<tree, agent, comments, marks, flock, kept, left, told>>
reviewVars == <<files, calls>>

Pending == {"Staged", "Drifted"}
NoDiff == [f \in File |-> Absent]
NoComments == [id \in Comment |-> "none"]
NoCall == [op |-> "none", pc |-> "idle", sel |-> NoMarks, on |-> FALSE, id |-> Unset,
           prev |-> NoDiff, diff |-> NoDiff, whole |-> FALSE, since |-> {},
           list |-> NoComments, seen |-> NoMarks]

ReviewInit == /\ tree \in Trees
              /\ agent = "ready"
              /\ comments = NoComments /\ marks = NoMarks
              /\ flock = Unset
              /\ kept = {} /\ left = {} /\ told = {}
              /\ calls = [c \in Caller |-> NoCall]
-----------------------------------------------------------------------------
(* is_orphaned and prune_orphaned, reanchor_comments, holds, live_paths.   *)
IsOrphaned(id, diff) == diff[FileOf[id]] = Absent

Orphans(list, diff) == {id \in Comment : list[id] \in Pending /\ IsOrphaned(id, diff)}

Reanchored(list, diff) ==
  [id \in Comment |-> IF list[id] \notin Pending THEN list[id]
                      ELSE IF diff[FileOf[id]] \in Fits[id] THEN "Staged" ELSE "Drifted"]

Holds(diff, f, mark) == mark # Unset /\ diff[f] = mark
LivePaths(ms, diff) == {f \in File : Holds(diff, f, ms[f])}

(* invalidated: a mark is judged only if it was set before the composition *)
(* began.                                                                  *)
InvalidatedAtAnyAge(ms, c) == {f \in File : ms[f] # Unset /\ ~Holds(calls[c].diff, f, ms[f])}
Invalidated(ms, c) == InvalidatedAtAnyAge(ms, c) \ calls[c].since

(* absence_is_authoritative: nothing keyed on a file is deleted unless the *)
(* composition was whole.                                                  *)
CanPruneAlways(c) == TRUE
CanPrune(c) == calls[c].whole
-----------------------------------------------------------------------------
Stands(c, ops, pc) == calls[c].op \in ops /\ calls[c].pc = pc
Becomes(c, r) == calls' = [calls EXCEPT ![c] = r]
MovesTo(c, pc) == Becomes(c, [calls[c] EXCEPT !.pc = pc])
Views == {"open", "refresh"}
Marking == {"set", "toggle"}
Writers == {c \in Caller : calls[c].op \in Views \cup {"apply", "add", "delete"}}

(* A request arrives. Every writer of the comments counts against the      *)
(* bound, from the composition it starts with to its last save.            *)
Begin(c, r) == /\ calls[c].pc = "idle"
               /\ r.op \in Ops
               /\ Cardinality({d \in Caller : calls[d].pc # "idle"}) < MaxCalls
               /\ r.op \in Marking \/ Cardinality(Writers) < MaxWriters
               /\ Becomes(c, r)
               /\ UNCHANGED files

BeginView(c, op, prev) == Begin(c, [NoCall EXCEPT !.op = op, !.pc = "compose", !.prev = prev])
BeginMark(c, op, sel, on) ==
  /\ op = "toggle" => ~on
  /\ Begin(c, [NoCall EXCEPT !.op = op, !.pc = "compose", !.sel = sel, !.on = on])
BeginApply(c) == Begin(c, [NoCall EXCEPT !.op = "apply", !.pc = "compose"])
BeginComment(c, op, id) ==
  /\ (op = "add") <=> (comments[id] = "none")
  /\ Begin(c, [NoCall EXCEPT !.op = op, !.pc = "load", !.id = id])
-----------------------------------------------------------------------------
(* resolve_selection: every file asked for is in the diff, with the hash   *)
(* it was asked for with.                                                  *)
Resolves(sel, diff) == \A f \in File : sel[f] # Unset =>
                         diff[f] # Absent /\ (sel[f] = AnyContent \/ diff[f] = sel[f])

(* compose_review_diff: the whole diff, or one that misses files (degraded *)
(* to HEAD, or the untracked half incomplete). A refresh that finds what   *)
(* it was shown before answers Unset.                                       *)
Compose(c) ==
  /\ calls[c].pc = "compose"
  /\ \E whole \in BOOLEAN, gone \in SUBSET File :
       LET seen == [f \in File |-> IF f \in gone THEN Absent ELSE tree[f]]
           read == [calls[c] EXCEPT !.diff = seen, !.whole = whole]
           pinned == [f \in File |-> IF calls[c].sel[f] = Unset THEN Unset ELSE seen[f]]
       IN /\ whole \/ Partial
          /\ whole => gone = {}
          /\ ~whole => \A f \in gone : tree[f] # Absent
          /\ CASE calls[c].op \in Marking ->
                    Becomes(c, IF Resolves(calls[c].sel, seen)
                               THEN [calls[c] EXCEPT !.pc = "lock", !.sel = pinned]
                               ELSE NoCall)
               [] calls[c].op = "refresh" /\ seen = calls[c].prev ->
                    Becomes(c, [NoCall EXCEPT !.op = "refresh", !.pc = "same"])
               [] OTHER -> Becomes(c, [read EXCEPT !.pc = "load"])
  /\ UNCHANGED files

LoadComments(c) ==
  /\ calls[c].pc = "load"
  /\ Becomes(c, [calls[c] EXCEPT !.pc = "save", !.list = comments])
  /\ UNCHANGED files

(* snapshot_from_raw drops the orphans, if the diff proves they are, and   *)
(* saves the rest re-anchored; apply_comments only re-anchors; add and     *)
(* delete save the list they loaded with one comment more or less.         *)
SaveComments(c) ==
  LET k == calls[c]
      gone == IF k.op \in Views /\ CanPrune(c) THEN Orphans(k.list, k.diff) ELSE {}
      rest == [id \in Comment |-> IF id \in gone THEN "none" ELSE k.list[id]]
      list == IF k.op = "add" THEN [k.list EXCEPT ![k.id] = "Staged"]
              ELSE IF k.op = "delete" THEN [k.list EXCEPT ![k.id] = "none"]
              ELSE Reanchored(rest, k.diff)
  IN /\ k.pc = "save"
     /\ comments' = list
     /\ left' = (left \cap {id \in Comment : list[id] # "none"})
                  \cup {id \in {k.id} \cap Comment : k.op = "add" /\ IsOrphaned(id, tree)}
     /\ told' = told \cap {id \in Comment : list[id] # "none"}
     /\ Becomes(c, CASE k.op \in Views -> [k EXCEPT !.pc = "marks", !.list = list]
                     [] k.op = "apply" -> [k EXCEPT !.pc = "decide", !.list = list]
                     [] OTHER -> NoCall)
     /\ UNCHANGED <<tree, agent, marks, flock, kept>>
-----------------------------------------------------------------------------
(* The rest of snapshot_from_raw: an unlocked read of the marks, and the   *)
(* lock only when there is one to prune.                                   *)
Snapshot(k, ms) == [k EXCEPT !.pc = "done", !.seen = ms, !.list = NoComments, !.since = {}]

LoadMarks(c) ==
  /\ calls[c].pc = "marks"
  /\ Becomes(c, IF CanPrune(c) /\ Invalidated(marks, c) # {}
                THEN [calls[c] EXCEPT !.pc = "lock"]
                ELSE Snapshot(calls[c], marks))
  /\ UNCHANGED files

(* ReviewedStore::update, up to the read under the flock and from there.   *)
FlockIgnored == TRUE
FlockFree == flock = Unset

LockMarks(c) ==
  /\ calls[c].pc = "lock" /\ FlockFree
  /\ flock' = c
  /\ Becomes(c, [calls[c] EXCEPT !.pc = "write", !.seen = marks])
  /\ UNCHANGED <<tree, agent, comments, marks, kept, left, told>>

(* set and toggle: a mark pinned to other content is pinned again.         *)
Marked(k) ==
  LET wanted(f) == IF k.op = "toggle" THEN k.seen[f] # k.sel[f] ELSE k.on
  IN [f \in File |-> IF k.sel[f] = Unset THEN k.seen[f]
                     ELSE IF wanted(f) THEN k.sel[f] ELSE Unset]

Pruned(c) == [f \in File |-> IF f \in Invalidated(calls[c].seen, c) THEN Unset
                             ELSE calls[c].seen[f]]

WriteMarks(c) ==
  LET k == calls[c]
      new == IF k.op \in Views THEN Pruned(c) ELSE Marked(k)
      set == {f \in File : new[f] # k.seen[f]}
  IN /\ k.pc = "write"
     /\ marks' = new /\ flock' = Unset
     /\ kept' = {f \in File : /\ new[f] # Unset
                              /\ IF new[f] = marks[f] THEN f \in kept ELSE new[f] = tree[f]}
     /\ calls' = [d \in Caller |->
                    IF d = c THEN IF k.op \in Views THEN Snapshot(k, new)
                                  ELSE [k EXCEPT !.pc = "done", !.seen = NoMarks]
                    ELSE IF calls[d].op \in Views /\ calls[d].pc # "done" /\ k.op \in Marking
                         THEN [calls[d] EXCEPT !.since = @ \cup set]
                         ELSE calls[d]]
     /\ UNCHANGED <<tree, agent, comments, left, told>>
-----------------------------------------------------------------------------
(* apply_comments after its first save. Orphans are not in the brief, and  *)
(* one drifted comment that is blocks it. The prompt is held while the     *)
(* agent waits for input, and deferred if it stays there or is stopped.    *)
Staged(c) == {id \in Comment : /\ calls[c].list[id] \in Pending
                               /\ ~(CanPrune(c) /\ IsOrphaned(id, calls[c].diff))}
Blocked(c) == \E id \in Staged(c) : calls[c].list[id] = "Drifted"

NotDelivered(c) ==
  /\ Stands(c, {"apply"}, "decide")
  /\ Staged(c) = {} \/ Blocked(c) \/ agent # "ready"
  /\ Becomes(c, NoCall)
  /\ UNCHANGED files

Deliver(c) ==
  /\ Stands(c, {"apply"}, "decide")
  /\ Staged(c) # {} /\ ~Blocked(c) /\ agent = "ready"
  /\ told' = told \cup Staged(c)
  /\ MovesTo(c, "applied")
  /\ UNCHANGED <<tree, agent, comments, marks, flock, kept, left>>

(* Every comment not yet applied is marked, on the list saved before.      *)
MarkApplied(c) ==
  /\ Stands(c, {"apply"}, "applied")
  /\ comments' = [id \in Comment |-> IF calls[c].list[id] \in Pending THEN "Applied"
                                     ELSE calls[c].list[id]]
  /\ told' = told \cap {id \in Comment : comments'[id] # "none"}
  /\ Becomes(c, NoCall)
  /\ UNCHANGED <<tree, agent, marks, flock, kept, left>>
-----------------------------------------------------------------------------
(* An error of git, tmux or the disk, or the process ends; the kernel      *)
(* releases its flock.                                                     *)
Fail(c) == /\ calls[c].pc \notin {"idle", "done", "same"}
           /\ flock' = IF flock = c THEN Unset ELSE flock
           /\ Becomes(c, NoCall)
           /\ UNCHANGED <<tree, agent, comments, marks, kept, left, told>>

Answered(c) == calls[c].pc \in {"done", "same"} /\ Becomes(c, NoCall) /\ UNCHANGED files

(* The agent, or the user in another window, edits, commits and reverts.   *)
Touch(f) == \E v \in Version[f] \ {tree[f]} :
             /\ tree' = [tree EXCEPT ![f] = v]
             /\ kept' = kept \ {f}
             /\ left' = left \cup {id \in Comment : /\ v = Absent /\ FileOf[id] = f
                                                    /\ comments[id] # "none"}
             /\ UNCHANGED <<agent, comments, marks, flock, told, calls>>

AgentMoves == \E a \in AgentStates \ {agent} :
                agent' = a /\ UNCHANGED <<tree, comments, marks, flock, kept, left, told, calls>>

Step(c) == \/ Compose(c) \/ LoadComments(c) \/ SaveComments(c) \/ LoadMarks(c)
           \/ LockMarks(c) \/ WriteMarks(c)
           \/ NotDelivered(c) \/ Deliver(c) \/ MarkApplied(c)

RequestArrives(c) ==
  \/ BeginView(c, "open", NoDiff)
  \/ \E prev \in {NoDiff, tree} : BeginView(c, "refresh", prev)
  \/ \E sel \in Pins, op \in Marking, on \in BOOLEAN : BeginMark(c, op, sel, on)
  \/ BeginApply(c)
  \/ \E id \in Comment, op \in {"add", "delete"} : BeginComment(c, op, id)

FilesNext == \/ \E c \in Caller : RequestArrives(c) \/ Step(c) \/ Fail(c) \/ Answered(c)
             \/ \E f \in File : Touch(f)
             \/ AgentMoves
FilesSpec == ReviewInit /\ [][FilesNext]_reviewVars
-----------------------------------------------------------------------------
ReviewTypeOK ==
  /\ tree \in Trees /\ agent \in AgentStates
  /\ comments \in [Comment -> Pending \cup {"none", "Applied"}]
  /\ marks \in [File -> Content \cup {Unset}]
  /\ flock \in Caller \cup {Unset}
  /\ \A c \in Caller : flock = c <=> calls[c].pc = "write"

(* What a call on the marks is still to do, once it has resolved what it   *)
(* was asked for.                                                          *)
Asked(k) == IF k.op \in Marking /\ k.pc \in {"lock", "write"}
            THEN [op |-> k.op, on |-> k.on, pin |-> k.sel]
            ELSE [op |-> "none", on |-> FALSE, pin |-> NoMarks]

Table == INSTANCE MarkTable WITH asked <- [c \in Caller |-> Asked(calls[c])]

(* The marks behave as one table that each call changes in a single step,  *)
(* whoever else is between its read and its write.                         *)
MarksAreATable == Table!TableSpec

(* A mark survives as long as the file is as it was when it was marked:    *)
(* nothing but a call on that very file touches it, not a prune that works *)
(* on an older or a partial diff, and not a call on another file that read *)
(* the marks before it was set.                                            *)
MarksSurvive ==
  [][\A f \in kept : marks'[f] # marks[f] =>
       \E c \in Caller : calls[c].op \in Marking /\ calls[c].pc = "write"
                         /\ calls[c].sel[f] # Unset]_reviewVars

(* A comment disappears from the file only when somebody deletes it, or    *)
(* after its file was out of the diff at some moment since it was written. *)
(* (Calls that rewrite the comments one at a time: together they lose      *)
(* each other's changes.)                                                  *)
CommentsDroppedForCause ==
  [][\A id \in Comment : comments[id] # "none" /\ comments'[id] = "none" =>
       id \in left \/ \E c \in Caller : Stands(c, {"delete"}, "save") /\ calls[c].id = id
    ]_reviewVars

(* "Mark the delivered comments applied": a comment recorded as Applied    *)
(* was in a brief the agent was told to read.                              *)
AppliedMeansDelivered == \A id \in Comment : comments[id] = "Applied" => id \in told
=============================================================================
