------------------------------ MODULE BaseEdits ------------------------------
(***************************************************************************)
(* The base of a session's review: set_session_base, and the deletion of   *)
(* its parent, move the session in state.json at once and then, with no    *)
(* lock held, have the code host's CLI move the review; sweeps of the host *)
(* write the base they were told, unless a sweep that began later already  *)
(* has.  What sweeps do about providers is in CodeHost, whom an edit may   *)
(* move where is in StackTopology.                                         *)
(***************************************************************************)
EXTENDS Naturals

CONSTANTS Base,       \* branches a review may have for its base
          NoBase,
          Editor,     \* callers
          Sweep,      \* sweeps in flight at a time, of any instance
          MaxEdits,   \* edits of the base
          MaxBaseTrouble  \* what fails, and what others do at the host

ASSUME BaseAssumption == /\ NoBase \notin Base
                         /\ MaxEdits \in Nat /\ MaxBaseTrouble \in Nat

VARIABLES hinted,  \* the base the session's local hint stands for
          review,  \* state.json: whether pr_number is set, pr_base_branch
          hosted,  \* external: the base the review has at the host, if any
          sweep,   \* per sweep: pc, answer, who began before it, whether a
                   \* later one has been applied
          edit,    \* per caller: the base its CLI call is setting, or NoBase
          edits, baseTrouble,
          wanted   \* ghost: the last edit's base, if the session had a
                   \* review to move and nothing failed or got in its way

baseVars == <<hinted, review, hosted, sweep, edit, edits, baseTrouble, wanted>>

NoSweep == [pc |-> "idle", answer |-> NoBase, found |-> FALSE, older |-> {}, late |-> FALSE]
NoReview == [number |-> FALSE, base |-> NoBase]

BaseInit == /\ hinted \in Base /\ hosted \in Base \cup {NoBase}
            /\ review = NoReview
            /\ sweep = [k \in Sweep |-> NoSweep]
            /\ edit = [e \in Editor |-> NoBase]
            /\ edits = 0 /\ baseTrouble = 0
            /\ wanted = NoBase

(* The parent the session is shown under, and cascades with.               *)
ShownBase == IF review.base # NoBase THEN review.base ELSE hinted

Editing == {e \in Editor : edit[e] # NoBase}
-----------------------------------------------------------------------------
(* The state's part of an edit: the hint, and the mirror where there is    *)
(* one, which outranks it.                                                 *)
Moved(b) == /\ hinted' = b
            /\ review' = [review EXCEPT !.base = IF @ = NoBase THEN NoBase ELSE b]

(* Wrong on purpose: without a recorded base, no review is moved.          *)
HasKnownReview == review.number /\ review.base # NoBase

(* pr_retarget_for_set_base goes by the number: a host may not say the     *)
(* base.                                                                   *)
HasReview == review.number

(* The CLI call that is to follow, if there is a review to move.           *)
Follow(e, b, moves) ==
  /\ edits < MaxEdits /\ edits' = edits + 1
  /\ edit' = [edit EXCEPT ![e] = IF moves THEN b ELSE NoBase]

(* set_session_base, unless it would change nothing.                       *)
SetBase(e, b) ==
  /\ edit[e] = NoBase
  /\ hinted # b \/ review.base \notin {NoBase, b}
  /\ Moved(b) /\ Follow(e, b, HasReview)
  /\ wanted' = IF review.number /\ Editing = {} THEN b ELSE NoBase
  /\ UNCHANGED <<hosted, sweep, baseTrouble>>

(* remove_session_retargeting_children, for a child of the deleted one.    *)
ParentDeleted(e, b) ==
  /\ edit[e] = NoBase /\ b # ShownBase
  /\ Moved(b) /\ Follow(e, b, review.number /\ review.base # NoBase)
  /\ wanted' = IF edit'[e] = b /\ Editing = {} THEN b ELSE NoBase
  /\ UNCHANGED <<hosted, sweep, baseTrouble>>

(* try_retarget_review_base, done and reported.                            *)
Retargeted(e) == /\ edit[e] # NoBase /\ hosted # NoBase
                 /\ hosted' = edit[e]
                 /\ edit' = [edit EXCEPT ![e] = NoBase]
                 /\ UNCHANGED <<hinted, review, sweep, edits, baseTrouble, wanted>>
-----------------------------------------------------------------------------
SweepBegun(k) == sweep[k].pc # "idle"

(* A sweep is over; sweeps that began before it are late if it counts.     *)
Over(k, counts) ==
  sweep' = [j \in Sweep |->
    IF j = k THEN NoSweep
    ELSE [sweep[j] EXCEPT !.older = @ \ {k}, !.late = @ \/ (counts /\ j \in sweep[k].older)]]

StartSweep(k) ==
  /\ ~SweepBegun(k)
  /\ sweep' = [sweep EXCEPT ![k] = [NoSweep EXCEPT !.pc = "ask", !.older = {j \in Sweep : SweepBegun(j)}]]
  /\ UNCHANGED <<hinted, review, hosted, edit, edits, baseTrouble, wanted>>

(* The host's answer: no review, or one, with its base or without.         *)
AskHost(k) ==
  /\ sweep[k].pc = "ask"
  /\ \E a \in {hosted, NoBase} :
       sweep' = [sweep EXCEPT ![k] = [@ EXCEPT !.pc = "apply", !.answer = a,
                                               !.found = (hosted # NoBase)]]
  /\ UNCHANGED <<hinted, review, hosted, edit, edits, baseTrouble, wanted>>

(* apply_pr_results_at_epoch: the base as answered, an edit or not.        *)
ApplySweep(k) ==
  /\ sweep[k].pc = "apply"
  /\ review' = IF sweep[k].late THEN review
               ELSE [number |-> sweep[k].found, base |-> sweep[k].answer]
  /\ Over(k, ~sweep[k].late)
  /\ UNCHANGED <<hinted, hosted, edit, edits, baseTrouble, wanted>>

SweepStep(k) == StartSweep(k) \/ AskHost(k) \/ ApplySweep(k)
-----------------------------------------------------------------------------
BaseTroubled == baseTrouble < MaxBaseTrouble /\ baseTrouble' = baseTrouble + 1

(* The CLI fails, is given up after its timeout though the host may have   *)
(* heard it, or the program ends first.                                    *)
RetargetFails(e) ==
  /\ edit[e] # NoBase
  /\ IF hosted = NoBase THEN UNCHANGED <<hosted, baseTrouble>>
     ELSE BaseTroubled /\ hosted' \in {hosted, edit[e]}
  /\ edit' = [edit EXCEPT ![e] = NoBase] /\ wanted' = NoBase
  /\ UNCHANGED <<hinted, review, sweep, edits>>

(* A query fails: nothing about the review changes.                        *)
SweepFails(k) ==
  /\ BaseTroubled /\ sweep[k].pc = "ask"
  /\ Over(k, FALSE)
  /\ UNCHANGED <<hinted, review, hosted, edit, edits, wanted>>

(* Others open the review, move it, or close it for a new one.             *)
HostChanges == /\ BaseTroubled
               /\ hosted' \in Base \ {hosted} /\ wanted' = NoBase
               /\ UNCHANGED <<hinted, review, sweep, edit, edits>>

BaseNext ==
  \/ \E e \in Editor : \/ \E b \in Base : SetBase(e, b) \/ ParentDeleted(e, b)
                       \/ Retargeted(e) \/ RetargetFails(e)
  \/ \E k \in Sweep : SweepStep(k) \/ SweepFails(k)
  \/ HostChanges

(* A CLI call is bounded by a timeout, and the loop sweeps again and again.*)
BaseFairness == /\ \A e \in Editor : WF_baseVars(Retargeted(e) \/ RetargetFails(e))
                /\ \A k \in Sweep : WF_baseVars(SweepStep(k))

BaseSpec == BaseInit /\ [][BaseNext]_baseVars /\ BaseFairness
-----------------------------------------------------------------------------
BaseTypeOK ==
  /\ hinted \in Base /\ hosted \in Base \cup {NoBase}
  /\ review \in [number : BOOLEAN, base : Base \cup {NoBase}]
  /\ edit \in [Editor -> Base \cup {NoBase}] /\ wanted \in Base \cup {NoBase}
  /\ edits \in 0..MaxEdits /\ baseTrouble \in 0..MaxBaseTrouble
  /\ sweep \in [Sweep -> [pc : {"idle", "ask", "apply"}, answer : Base \cup {NoBase},
                         found : BOOLEAN, older : SUBSET Sweep, late : BOOLEAN]]
  /\ \A k \in Sweep : k \notin sweep[k].older

(* An edit that moved the review is what the stack shows in the end, also  *)
(* when a sweep had put the old base back, and whoever deleted or edited   *)
(* before.                                                                 *)
EditLasts == <>[](wanted # NoBase => ShownBase = wanted)

(* set_session_base has reported that the review was moved: "only this     *)
(* makes it survive the next PR sync".                                     *)
EditSurvivesSync == wanted # NoBase /\ Editing = {} => ShownBase = wanted
=============================================================================
