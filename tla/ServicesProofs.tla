--------------------------- MODULE ServicesProofs ---------------------------
(***************************************************************************)
(* Proofs about the two stores that processes share beside the state file, *)
(* for any threads, edits, processes and checks; and, with ReviewProofs,   *)
(* the types of all parts of the run of the services.                      *)
(*                                                                         *)
(* The configuration (ConfigStore): it is well typed, and no change of it  *)
(* in memory is kept from the change feed, however holds and edits nest.   *)
(*                                                                         *)
(* The PR metadata (CodeHost): it is the provider's that was asked, never  *)
(* older than its check, and an approval is of the head it is shown for.   *)
(***************************************************************************)
EXTENDS ReviewProofs, MCServices

-----------------------------------------------------------------------------
(* The configuration store.                                                *)

Place == {"idle", "lock", "save", "stat", "commit", "notify", "run",
          "state", "load", "restat", "swap", "same", "differs"}
Config == SUBSET (Edit \cup HandEdit)
Op == [pc : Place, edit : Edit \cup {Nobody}, holds : BOOLEAN,
       read : Config, seen : 0..MaxWrites]

Holders == {t \in Thread : thread[t].holds}

(* Where a thread can stand while it holds the listeners; one that is      *)
(* about to drop its hold has one; and one that is to edit has an edit.    *)
OpShape(o) == /\ o.holds => o.pc \in {"lock", "save", "stat", "commit", "notify", "run", "state"}
              /\ o.pc = "state" => o.holds
              /\ o.pc = "lock" => o.edit \in Edit

(* The depth of the deferral is the number of threads that hold it.        *)
HoldsCounted == /\ IsFiniteSet(Holders)
                /\ deferral.holds = Cardinality(Holders)

IInv == /\ ConfigTypeOK
        /\ \A t \in Thread : OpShape(thread[t])
        /\ HoldsCounted
        /\ NoConfigWakeLost
-----------------------------------------------------------------------------
LEMMA NoOpType == NoOp \in Op /\ OpShape(NoOp) /\ NoOp.pc = "idle" /\ NoOp.holds = FALSE
  BY ConfigAssumption DEF NoOp, Op, Place, Config, OpShape

LEMMA ThreadType == ASSUME ConfigTypeOK
                    PROVE  thread \in [Thread -> Op]
  BY DEF ConfigTypeOK, Op, Place, Config

LEMMA StartType ==
  ASSUME NEW e \in Edit, NEW holds \in BOOLEAN
  PROVE  LET p == [NoOp EXCEPT !.pc = "lock", !.edit = e, !.holds = holds]
         IN  p \in Op /\ p.pc = "lock" /\ p.holds = holds /\ p.edit = e
  BY NoOpType DEF Op, Place

LEMMA AfterType ==
  ASSUME NEW t \in Thread, thread[t] \in Op
  PROVE  /\ After(t) \in Op /\ OpShape(After(t))
         /\ After(t).holds = thread[t].holds
         /\ After(t).pc \in {"state", "idle"}
  <1>1. CASE thread[t].holds
    <2>1. After(t) = [thread[t] EXCEPT !.pc = "state", !.edit = Nobody]
      BY <1>1 DEF After
    <2> QED  BY <1>1, <2>1 DEF Op, Place, OpShape
  <1>2. CASE ~thread[t].holds
    <2>1. After(t) = NoOp  BY <1>2 DEF After
    <2>2. thread[t].holds = FALSE  BY <1>2 DEF Op
    <2> QED  BY <2>1, <2>2, NoOpType
  <1> QED  BY <1>1, <1>2
-----------------------------------------------------------------------------
(* A step that gives one thread a new record, and no hold more or less.    *)
LEMMA SameHolders ==
  ASSUME thread \in [Thread -> Op], NEW t \in Thread, NEW r \in Op,
         ThreadIs(t, r), r.holds = thread[t].holds
  PROVE  Holders' = Holders
  BY DEF Holders, ThreadIs

LEMMA OthersStay ==
  ASSUME thread \in [Thread -> Op], NEW t \in Thread, NEW r \in Op, ThreadIs(t, r)
  PROVE  /\ thread' \in [Thread -> Op] /\ thread'[t] = r
         /\ \A u \in Thread \ {t} : thread'[u] = thread[u]
  BY DEF ThreadIs

(* Somebody holds the listeners as long as the deferral is not over.       *)
LEMMA SomebodyHolds ==
  ASSUME HoldsCounted, deferral.holds # 0
  PROVE  \E t \in Thread : thread[t].holds
  <1>1. Holders # {}  BY FS_EmptySet DEF HoldsCounted
  <1> QED  BY <1>1 DEF Holders
-----------------------------------------------------------------------------
(* The steps that move one thread, and neither wake nor change anything.   *)
LEMMA QuietStep ==
  ASSUME IInv, NEW t \in Thread, NEW r \in Op, ThreadIs(t, r),
         r.holds = thread[t].holds, OpShape(r),
         thread[t].pc \in {"notify", "run", "differs"} => r.pc \in {"notify", "run", "differs"},
         UNCHANGED <<config, woken, deferral>>
  PROVE  /\ thread' \in [Thread -> Op]
         /\ \A u \in Thread : OpShape(thread'[u])
         /\ HoldsCounted' /\ NoConfigWakeLost'
  <1>1. thread \in [Thread -> Op]  BY ThreadType DEF IInv
  <1>2. /\ thread' \in [Thread -> Op] /\ thread'[t] = r
        /\ \A u \in Thread \ {t} : thread'[u] = thread[u]
    BY <1>1, OthersStay
  <1>3. Holders' = Holders  BY <1>1, SameHolders
  <1>4. \A u \in Thread : OpShape(thread'[u])  BY <1>2 DEF IInv
  <1>5. HoldsCounted'  BY <1>3 DEF IInv, HoldsCounted
  <1>6. NoConfigWakeLost'
    <2>1. \A u \in Thread : thread'[u].holds = thread[u].holds  BY <1>2
    <2> QED  BY <1>2, <2>1 DEF IInv, NoConfigWakeLost
  <1> QED  BY <1>2, <1>4, <1>5, <1>6
-----------------------------------------------------------------------------
LEMMA InitOK == ConfigInit => IInv
  <1> SUFFICES ASSUME ConfigInit PROVE IInv  OBVIOUS
  <1>1. ConfigTypeOK
    <2>1. thread \in [Thread -> Op]  BY NoOpType DEF ConfigInit
    <2> QED  BY <2>1, ConfigAssumption DEF ConfigInit, ConfigTypeOK, Op, Place, Config
  <1>2. \A t \in Thread : OpShape(thread[t])  BY NoOpType DEF ConfigInit
  <1>3. HoldsCounted
    <2>1. Holders = {}  BY NoOpType DEF ConfigInit, Holders
    <2> QED  BY <2>1, FS_EmptySet DEF ConfigInit, HoldsCounted
  <1> QED  BY <1>1, <1>2, <1>3 DEF IInv, NoConfigWakeLost, ConfigInit

(* Everything but the threads keeps its type.                              *)
RestTypeOK == /\ {disk, config, woken} \subseteq Config
              /\ mtime \in 0..MaxWrites /\ lastMtime \in 0..MaxWrites
              /\ rwlock \in Thread \cup {Nobody} /\ reloader \in Thread \cup {Nobody}
              /\ deferral \in [holds : Nat, pending : BOOLEAN]

LEMMA TypeParts == ConfigTypeOK <=> RestTypeOK /\ thread \in [Thread -> Op]
  BY DEF ConfigTypeOK, RestTypeOK, Op, Place, Config

(* A quiet step in which the rest keeps its type preserves the invariant.  *)
LEMMA QuietOK ==
  ASSUME IInv, NEW t \in Thread, NEW r \in Op, ThreadIs(t, r),
         r.holds = thread[t].holds, OpShape(r),
         thread[t].pc \in {"notify", "run", "differs"} => r.pc \in {"notify", "run", "differs"},
         UNCHANGED <<config, woken, deferral>>, RestTypeOK'
  PROVE  IInv'
  <1>1. /\ thread' \in [Thread -> Op]
        /\ \A u \in Thread : OpShape(thread'[u])
        /\ HoldsCounted' /\ NoConfigWakeLost'
    BY QuietStep
  <1>2. ConfigTypeOK'  BY <1>1 DEF ConfigTypeOK, RestTypeOK, Op, Place, Config
  <1> QED  BY <1>1, <1>2 DEF IInv
-----------------------------------------------------------------------------
LEMMA StartEditOK ==
  ASSUME IInv, NEW t \in Thread, NEW e \in Edit, NEW holds \in BOOLEAN, StartEdit(t, e, holds)
  PROVE  IInv'
  <1> DEFINE r == [NoOp EXCEPT !.pc = "lock", !.edit = e, !.holds = holds]
  <1>1. thread \in [Thread -> Op] /\ RestTypeOK  BY TypeParts DEF IInv
  <1>2. r \in Op /\ r.pc = "lock" /\ r.holds = holds /\ r.edit = e  BY StartType
  <1>3. thread' = [thread EXCEPT ![t] = r]  BY DEF StartEdit, ThreadIs
  <1>4. thread[t].pc = "idle"  BY DEF StartEdit, At
  <1> HIDE DEF r
  <1>5. thread[t].holds = FALSE  BY <1>1, <1>4 DEF IInv, OpShape, Op
  <1>6. OpShape(r)  BY <1>2 DEF OpShape
  <1>7. CASE ~holds
    <2>1. RestTypeOK'  BY <1>1, <1>7 DEF StartEdit, RestTypeOK
    <2> QED  BY <1>2, <1>3, <1>4, <1>5, <1>6, <1>7, <2>1, QuietOK DEF StartEdit, ThreadIs
  <1>8. CASE holds
    <2>1. deferral' = [deferral EXCEPT !.holds = deferral.holds + 1]  BY <1>8 DEF StartEdit
    <2>2. RestTypeOK'  BY <1>1, <2>1 DEF StartEdit, RestTypeOK
    <2>3. deferral'.holds = deferral.holds + 1 /\ deferral'.pending = deferral.pending
      BY <1>1, <2>1 DEF RestTypeOK
    <2>4. ConfigTypeOK'  BY <1>1, <1>2, <1>3, <2>2 DEF ConfigTypeOK, RestTypeOK, Op, Place, Config
    <2>5. Holders' = Holders \cup {t} /\ t \notin Holders
      BY <1>1, <1>2, <1>3, <1>5, <1>8 DEF Holders
    <2>6. HoldsCounted'
      BY <2>3, <2>5, FS_AddElement DEF IInv, HoldsCounted
    <2>7. \A u \in Thread : OpShape(thread'[u])  BY <1>1, <1>3, <1>6 DEF IInv
    <2>8. NoConfigWakeLost'
      <3>1. \A u \in Thread : /\ thread[u].holds => thread'[u].holds
                              /\ thread[u].pc \in {"notify", "run", "differs"} =>
                                  thread'[u].pc = thread[u].pc
        BY <1>1, <1>3, <1>4, <1>5
      <3>2. woken' = woken /\ config' = config  BY DEF StartEdit
      <3>3. SUFFICES ASSUME woken # config PROVE NoConfigWakeLost'
        BY <3>2 DEF NoConfigWakeLost
      <3>4. CASE deferral.pending /\ \E u \in Thread : thread[u].holds
        BY <2>3, <3>1, <3>4 DEF NoConfigWakeLost
      <3>5. CASE \E u \in Thread : thread[u].pc \in {"notify", "run", "differs"}
        BY <3>1, <3>5 DEF NoConfigWakeLost
      <3> QED  BY <3>3, <3>4, <3>5 DEF IInv, NoConfigWakeLost
    <2> QED  BY <2>4, <2>6, <2>7, <2>8 DEF IInv
  <1> QED  BY <1>7, <1>8

LEMMA CopyConfigOK ==
  ASSUME IInv, NEW t \in Thread, CopyConfig(t)
  PROVE  IInv'
  <1> DEFINE c == config \cup {thread[t].edit}
             r == [thread[t] EXCEPT !.pc = "save", !.read = c]
  <1>1. thread \in [Thread -> Op] /\ RestTypeOK  BY TypeParts DEF IInv
  <1>2. thread[t].pc = "lock"  BY DEF CopyConfig, At
  <1>3. RestTypeOK'  BY <1>1 DEF CopyConfig, RestTypeOK
  <1>4. CASE ThreadIs(t, After(t))
    BY <1>1, <1>2, <1>3, <1>4, AfterType, QuietOK DEF CopyConfig
  <1>5. CASE ThreadIs(t, r)
    <2>1. c \in Config  BY <1>1, <1>2 DEF IInv, OpShape, RestTypeOK, Config
    <2> HIDE DEF c
    <2>2. r \in Op /\ r.pc = "save" /\ r.holds = thread[t].holds
      <3>1. thread[t] \in Op /\ "save" \in Place  BY <1>1 DEF Place
      <3> QED  BY <2>1, <3>1 DEF Op
    <2> HIDE DEF r
    <2>3. OpShape(r)  BY <2>2 DEF OpShape
    <2> QED  BY <1>2, <1>3, <1>5, <2>2, <2>3, QuietOK DEF CopyConfig
  <1> QED  BY <1>4, <1>5 DEF CopyConfig

LEMMA SaveOK ==
  ASSUME IInv, NEW t \in Thread, SaveToDisk(t) \/ SaveFails(t)
  PROVE  IInv'
  <1>1. thread \in [Thread -> Op] /\ RestTypeOK  BY TypeParts DEF IInv
  <1>2. thread[t].pc = "save"  BY DEF SaveToDisk, SaveFails, At
  <1>3. CASE SaveToDisk(t)
    <2> DEFINE r == [thread[t] EXCEPT !.pc = "stat"]
    <2>1. r \in Op /\ r.pc = "stat" /\ r.holds = thread[t].holds  BY <1>1 DEF Op, Place
    <2>2. ThreadIs(t, r) /\ UNCHANGED <<config, woken, deferral>>
      BY <1>3 DEF SaveToDisk, Goto
    <2>3. RestTypeOK'
      <3>1. thread[t].read \in Config  BY <1>1 DEF Op
      <3>2. mtime + 1 \in 0..MaxWrites  BY <1>1, <1>3, ConfigAssumption DEF RestTypeOK, SaveToDisk
      <3> QED  BY <1>1, <1>3, <3>1, <3>2 DEF SaveToDisk, RestTypeOK
    <2> HIDE DEF r
    <2>4. OpShape(r)  BY <2>1 DEF OpShape
    <2> QED  BY <1>2, <2>1, <2>2, <2>3, <2>4, QuietOK
  <1>4. CASE SaveFails(t)
    <2>1. RestTypeOK'  BY <1>1, <1>4 DEF SaveFails, RestTypeOK
    <2>2. thread[t] \in Op  BY <1>1
    <2> QED  BY <1>2, <1>4, <2>1, <2>2, AfterType, QuietOK DEF SaveFails
  <1> QED  BY <1>3, <1>4

LEMMA StatSavedOK ==
  ASSUME IInv, NEW t \in Thread, StatSaved(t)
  PROVE  IInv'
  <1> DEFINE r == [thread[t] EXCEPT !.pc = "commit"]
  <1>1. thread \in [Thread -> Op] /\ RestTypeOK  BY TypeParts DEF IInv
  <1>2. thread[t].pc = "stat"  BY DEF StatSaved, At
  <1>3. r \in Op /\ r.pc = "commit" /\ r.holds = thread[t].holds  BY <1>1 DEF Op, Place
  <1>4. ThreadIs(t, r) /\ UNCHANGED <<config, woken, deferral>>  BY DEF StatSaved, Goto
  <1>5. RestTypeOK'  BY <1>1 DEF StatSaved, RestTypeOK
  <1> HIDE DEF r
  <1>6. OpShape(r)  BY <1>3 DEF OpShape
  <1> QED  BY <1>2, <1>3, <1>4, <1>5, <1>6, QuietOK

(* A thread that is on its way to run the listeners settles the matter.    *)
LEMMA OnItsWay ==
  ASSUME IInv, NEW t \in Thread, NEW r \in Op, ThreadIs(t, r),
         r.holds = thread[t].holds, OpShape(r),
         r.pc \in {"notify", "run", "differs"},
         UNCHANGED deferral, RestTypeOK'
  PROVE  IInv'
  <1>1. thread \in [Thread -> Op]  BY TypeParts DEF IInv
  <1>2. /\ thread' \in [Thread -> Op] /\ thread'[t] = r
        /\ \A u \in Thread \ {t} : thread'[u] = thread[u]
    BY <1>1, OthersStay
  <1>3. Holders' = Holders  BY <1>1, SameHolders
  <1>4. ConfigTypeOK'  BY <1>2 DEF ConfigTypeOK, RestTypeOK, Op, Place, Config
  <1>5. \A u \in Thread : OpShape(thread'[u])  BY <1>2 DEF IInv
  <1>6. HoldsCounted'  BY <1>3 DEF IInv, HoldsCounted
  <1>7. NoConfigWakeLost'  BY <1>2 DEF NoConfigWakeLost
  <1> QED  BY <1>4, <1>5, <1>6, <1>7 DEF IInv

LEMMA CommitOK ==
  ASSUME IInv, NEW t \in Thread, Commit(t)
  PROVE  IInv'
  <1> DEFINE r == [thread[t] EXCEPT !.pc = "notify"]
  <1>1. thread \in [Thread -> Op] /\ RestTypeOK  BY TypeParts DEF IInv
  <1>2. thread[t].pc = "commit"  BY DEF Commit, At
  <1>3. r \in Op /\ r.pc = "notify" /\ r.holds = thread[t].holds  BY <1>1 DEF Op, Place
  <1>4. ThreadIs(t, r) /\ UNCHANGED deferral  BY DEF Commit, Goto
  <1>5. RestTypeOK'
    <2>1. thread[t].read \in Config  BY <1>1 DEF Op
    <2> QED  BY <1>1, <2>1 DEF Commit, RestTypeOK
  <1> HIDE DEF r
  <1>6. OpShape(r)  BY <1>3 DEF OpShape
  <1> QED  BY <1>3, <1>4, <1>5, <1>6, OnItsWay

LEMMA NotifyOK ==
  ASSUME IInv, NEW t \in Thread, Notify(t)
  PROVE  IInv'
  <1>1. thread \in [Thread -> Op] /\ RestTypeOK  BY TypeParts DEF IInv
  <1>2. CASE deferral.holds > 0
    <2>1. deferral' = [deferral EXCEPT !.pending = TRUE]  BY <1>2 DEF Notify
    <2>2. deferral'.holds = deferral.holds /\ deferral'.pending = TRUE
      BY <1>1, <2>1 DEF RestTypeOK
    <2>3. RestTypeOK'  BY <1>1, <2>1 DEF Notify, RestTypeOK
    <2>4. thread[t] \in Op  BY <1>1
    <2>5. /\ After(t) \in Op /\ OpShape(After(t))
          /\ After(t).holds = thread[t].holds
      BY <2>4, AfterType
    <2>6. ThreadIs(t, After(t))  BY <1>2 DEF Notify
    <2>7. /\ thread' \in [Thread -> Op] /\ thread'[t] = After(t)
          /\ \A u \in Thread \ {t} : thread'[u] = thread[u]
      BY <1>1, <2>5, <2>6, OthersStay
    <2>8. Holders' = Holders  BY <1>1, <2>5, <2>6, SameHolders
    <2>9. ConfigTypeOK'  BY <2>3, <2>7 DEF ConfigTypeOK, RestTypeOK, Op, Place, Config
    <2>10. \A u \in Thread : OpShape(thread'[u])  BY <2>5, <2>7 DEF IInv
    <2>11. HoldsCounted'  BY <2>2, <2>8 DEF IInv, HoldsCounted
    <2>12. \E u \in Thread : thread'[u].holds
      <3>1. deferral.holds # 0  BY <1>1, <1>2 DEF RestTypeOK
      <3>2. PICK u \in Thread : thread[u].holds  BY <3>1, SomebodyHolds DEF IInv
      <3>3. thread'[u].holds = thread[u].holds  BY <2>5, <2>7
      <3> QED  BY <3>2, <3>3
    <2> QED  BY <2>2, <2>9, <2>10, <2>11, <2>12 DEF IInv, NoConfigWakeLost
  <1>3. CASE ~(deferral.holds > 0)
    <2> DEFINE r == [thread[t] EXCEPT !.pc = "run"]
    <2>1. r \in Op /\ r.pc = "run" /\ r.holds = thread[t].holds  BY <1>1 DEF Op, Place
    <2>2. ThreadIs(t, r) /\ UNCHANGED deferral  BY <1>3 DEF Notify, Goto
    <2>3. RestTypeOK'  BY <1>1, <1>3 DEF Notify, RestTypeOK
    <2> HIDE DEF r
    <2>4. OpShape(r)  BY <2>1 DEF OpShape
    <2> QED  BY <2>1, <2>2, <2>3, <2>4, OnItsWay
  <1> QED  BY <1>2, <1>3

LEMMA RunListenersOK ==
  ASSUME IInv, NEW t \in Thread, RunListeners(t)
  PROVE  IInv'
  <1>1. thread \in [Thread -> Op] /\ RestTypeOK  BY TypeParts DEF IInv
  <1>2. RestTypeOK'  BY <1>1 DEF RunListeners, RestTypeOK
  <1>3. thread[t] \in Op  BY <1>1
  <1>4. /\ After(t) \in Op /\ OpShape(After(t))
        /\ After(t).holds = thread[t].holds
    BY <1>3, AfterType
  <1>5. ThreadIs(t, After(t))
    <2>1. CASE thread[t].holds  BY <2>1 DEF RunListeners
    <2>2. CASE ~thread[t].holds  BY <2>2 DEF RunListeners, After
    <2> QED  BY <2>1, <2>2
  <1>6. /\ thread' \in [Thread -> Op] /\ thread'[t] = After(t)
        /\ \A u \in Thread \ {t} : thread'[u] = thread[u]
    BY <1>1, <1>4, <1>5, OthersStay
  <1>7. Holders' = Holders  BY <1>1, <1>4, <1>5, SameHolders
  <1>8. ConfigTypeOK'  BY <1>2, <1>6 DEF ConfigTypeOK, RestTypeOK, Op, Place, Config
  <1>9. \A u \in Thread : OpShape(thread'[u])  BY <1>4, <1>6 DEF IInv
  <1>10. HoldsCounted'  BY <1>7 DEF IInv, HoldsCounted, RunListeners
  <1>11. NoConfigWakeLost'  BY DEF NoConfigWakeLost, RunListeners
  <1> QED  BY <1>8, <1>9, <1>10, <1>11 DEF IInv

(* The last hold takes a pending change with it to the listeners; an       *)
(* earlier one leaves it to those that are still open.                     *)
LEMMA DropHoldOK ==
  ASSUME IInv, NEW t \in Thread, DropHold(t)
  PROVE  IInv'
  <1> DEFINE r == IF deferral.pending /\ deferral.holds = 1 THEN [NoOp EXCEPT !.pc = "run"] ELSE NoOp
  <1>1. thread \in [Thread -> Op] /\ RestTypeOK  BY TypeParts DEF IInv
  <1>2. thread[t].pc = "state"  BY DEF DropHold, At
  <1>3. t \in Holders  BY <1>2 DEF IInv, OpShape, Holders
  <1>4. r \in Op /\ OpShape(r) /\ r.holds = FALSE
    BY NoOpType DEF Op, Place, OpShape
  <1>5. deferral.pending /\ deferral.holds = 1 => r.pc = "run"
    BY NoOpType DEF Op
  <1>6. thread' = [thread EXCEPT ![t] = r]  BY DEF DropHold, ThreadIs
  <1> HIDE DEF r
  <1>7. /\ thread' \in [Thread -> Op] /\ thread'[t] = r
        /\ \A u \in Thread \ {t} : thread'[u] = thread[u]
    BY <1>1, <1>4, <1>6
  <1>8. Holders' = Holders \ {t}  BY <1>4, <1>7 DEF Holders
  <1>9. IsFiniteSet(Holders) /\ deferral.holds = Cardinality(Holders)  BY DEF IInv, HoldsCounted
  <1>10. /\ IsFiniteSet(Holders \ {t})
         /\ Cardinality(Holders \ {t}) = Cardinality(Holders) - 1
    BY <1>3, <1>9, FS_RemoveElement
  <1>11. Cardinality(Holders \ {t}) \in Nat  BY <1>10, FS_CardinalityType
  <1>12. deferral' = [holds |-> deferral.holds - 1,
                     pending |-> deferral.pending /\ deferral.holds > 1]
    BY DEF DropHold, Released
  <1>13. /\ deferral'.holds = deferral.holds - 1
         /\ deferral'.pending = (deferral.pending /\ deferral.holds > 1)
         /\ deferral' \in [holds : Nat, pending : BOOLEAN]
    BY <1>1, <1>9, <1>10, <1>11, <1>12 DEF RestTypeOK
  <1>14. HoldsCounted'  BY <1>8, <1>9, <1>10, <1>13 DEF HoldsCounted
  <1>15. RestTypeOK'  BY <1>1, <1>13 DEF DropHold, RestTypeOK
  <1>16. ConfigTypeOK'  BY <1>7, <1>15 DEF ConfigTypeOK, RestTypeOK, Op, Place, Config
  <1>17. \A u \in Thread : OpShape(thread'[u])  BY <1>4, <1>7 DEF IInv
  <1>18. NoConfigWakeLost'
    <2>1. woken' = woken /\ config' = config  BY DEF DropHold
    <2>2. SUFFICES ASSUME woken # config PROVE NoConfigWakeLost'
      BY <2>1 DEF NoConfigWakeLost
    <2>3. CASE deferral.pending /\ deferral.holds = 1
      BY <1>5, <1>7, <2>3 DEF NoConfigWakeLost
    <2>4. CASE deferral.pending /\ deferral.holds # 1
      <3>1. deferral.holds > 1
        <4>1. deferral.holds \in Nat  BY <1>1 DEF RestTypeOK
        <4> QED  BY <1>9, <1>10, <1>11, <2>4, <4>1
      <3>2. deferral'.pending = TRUE  BY <1>13, <2>4, <3>1
      <3>3. deferral'.holds # 0  BY <1>9, <1>10, <1>11, <1>13, <3>1
      <3>4. Holders' # {}  BY <1>8, <1>9, <1>10, <1>13, <3>3, FS_EmptySet
      <3>5. \E u \in Thread : thread'[u].holds  BY <3>4 DEF Holders
      <3> QED  BY <3>2, <3>5 DEF NoConfigWakeLost
    <2>5. CASE \E u \in Thread : thread[u].pc \in {"notify", "run", "differs"}
      <3>1. PICK u \in Thread : thread[u].pc \in {"notify", "run", "differs"}  BY <2>5
      <3>2. thread'[u].pc = thread[u].pc  BY <1>2, <1>7, <3>1
      <3> QED  BY <3>1, <3>2 DEF NoConfigWakeLost
    <2> QED  BY <2>2, <2>3, <2>4, <2>5 DEF IInv, NoConfigWakeLost
  <1> QED  BY <1>14, <1>16, <1>17, <1>18 DEF IInv
-----------------------------------------------------------------------------
LEMMA ReadsOK ==
  ASSUME IInv, NEW t \in Thread, StatFile(t) \/ LoadFromDisk(t) \/ StatLoaded(t)
  PROVE  IInv'
  <1>1. thread \in [Thread -> Op] /\ RestTypeOK  BY TypeParts DEF IInv
  <1>2. thread[t] \in Op /\ OpShape(thread[t])  BY <1>1 DEF IInv
  <1>3. RestTypeOK'  BY <1>1 DEF StatFile, LoadFromDisk, StatLoaded, RestTypeOK
  <1>4. UNCHANGED <<config, woken, deferral>>  BY DEF StatFile, LoadFromDisk, StatLoaded
  <1>5. thread[t].pc \in {"idle", "load", "restat"}  BY DEF StatFile, LoadFromDisk, StatLoaded, At
  <1>6. thread[t].holds = FALSE  BY <1>2, <1>5 DEF OpShape, Op
  <1>7. ASSUME NEW r \in Op, ThreadIs(t, r), r.holds = FALSE,
               r.pc \in {"load", "restat", "swap", "idle"}
        PROVE  IInv'
    <2>1. OpShape(r)  BY <1>7 DEF OpShape
    <2> QED  BY <1>3, <1>4, <1>5, <1>6, <1>7, <2>1, QuietOK
  <1>8. CASE StatFile(t)
    <2> DEFINE r == [thread[t] EXCEPT !.pc = "load"]
    <2>1. r \in Op /\ r.pc = "load" /\ r.holds = FALSE  BY <1>2, <1>6 DEF Op, Place
    <2>2. ThreadIs(t, r)  BY <1>8 DEF StatFile, Goto
    <2> HIDE DEF r
    <2> QED  BY <1>7, <2>1, <2>2
  <1>9. CASE LoadFromDisk(t) /\ ThreadIs(t, NoOp)
    BY <1>7, <1>9, NoOpType
  <1>10. CASE LoadFromDisk(t) /\ ThreadIs(t, [thread[t] EXCEPT !.pc = "restat", !.read = disk])
    <2> DEFINE r == [thread[t] EXCEPT !.pc = "restat", !.read = disk]
    <2>1. disk \in Config  BY <1>1 DEF RestTypeOK
    <2>2. r \in Op /\ r.pc = "restat" /\ r.holds = FALSE  BY <1>2, <1>6, <2>1 DEF Op, Place
    <2>3. ThreadIs(t, r)  BY <1>10
    <2> HIDE DEF r
    <2> QED  BY <1>7, <2>2, <2>3
  <1>11. CASE StatLoaded(t)
    <2> DEFINE r == [thread[t] EXCEPT !.pc = "swap", !.seen = mtime]
    <2>1. mtime \in 0..MaxWrites  BY <1>1 DEF RestTypeOK
    <2>2. r \in Op /\ r.pc = "swap" /\ r.holds = FALSE  BY <1>2, <1>6, <2>1 DEF Op, Place
    <2>3. ThreadIs(t, r)  BY <1>11 DEF StatLoaded
    <2> HIDE DEF r
    <2> QED  BY <1>7, <2>2, <2>3
  <1> QED  BY <1>8, <1>9, <1>10, <1>11 DEF LoadFromDisk

(* A reload that installs what memory held already changes nothing; one    *)
(* that installs something else is on its way to the listeners.            *)
LEMMA SwapOK ==
  ASSUME IInv, NEW t \in Thread, Swap(t)
  PROVE  IInv'
  <1>1. thread \in [Thread -> Op] /\ RestTypeOK  BY TypeParts DEF IInv
  <1>2. thread[t] \in Op /\ OpShape(thread[t])  BY <1>1 DEF IInv
  <1>3. thread[t].pc = "swap"  BY DEF Swap, At
  <1>4. thread[t].read \in Config  BY <1>2 DEF Op
  <1>5. RestTypeOK'  BY <1>1, <1>4 DEF Swap, RestTypeOK
  <1>6. thread[t].holds = FALSE  BY <1>2, <1>3 DEF OpShape, Op
  <1>7. CASE config = thread[t].read
    <2> DEFINE r == [thread[t] EXCEPT !.pc = "same"]
    <2>1. r \in Op /\ r.pc = "same" /\ r.holds = FALSE  BY <1>2, <1>6 DEF Op, Place
    <2>2. ThreadIs(t, r) /\ UNCHANGED <<config, woken, deferral>>  BY <1>7 DEF Swap, Goto
    <2> HIDE DEF r
    <2>3. OpShape(r)  BY <2>1 DEF OpShape
    <2> QED  BY <1>3, <1>5, <1>6, <2>1, <2>2, <2>3, QuietOK
  <1>8. CASE config # thread[t].read
    <2> DEFINE r == [thread[t] EXCEPT !.pc = "differs"]
    <2>1. r \in Op /\ r.pc = "differs" /\ r.holds = FALSE  BY <1>2, <1>6 DEF Op, Place
    <2>2. ThreadIs(t, r) /\ UNCHANGED deferral  BY <1>8 DEF Swap, Goto
    <2> HIDE DEF r
    <2>3. OpShape(r)  BY <2>1 DEF OpShape
    <2> QED  BY <1>5, <1>6, <2>1, <2>2, <2>3, OnItsWay
  <1> QED  BY <1>7, <1>8

LEMMA RecordReloadedOK ==
  ASSUME IInv, NEW t \in Thread, RecordReloaded(t)
  PROVE  IInv'
  <1>1. thread \in [Thread -> Op] /\ RestTypeOK  BY TypeParts DEF IInv
  <1>2. thread[t] \in Op /\ OpShape(thread[t])  BY <1>1 DEF IInv
  <1>3. thread[t].pc \in {"same", "differs"}  BY DEF RecordReloaded
  <1>4. thread[t].seen \in 0..MaxWrites  BY <1>2 DEF Op
  <1>5. RestTypeOK'  BY <1>1, <1>4 DEF RecordReloaded, RestTypeOK
  <1>6. thread[t].holds = FALSE  BY <1>2, <1>3 DEF OpShape, Op
  <1>7. UNCHANGED <<config, woken, deferral>>  BY DEF RecordReloaded
  <1>8. CASE thread[t].pc = "differs"
    <2> DEFINE r == [NoOp EXCEPT !.pc = "notify"]
    <2>1. r \in Op /\ r.pc = "notify" /\ r.holds = FALSE  BY NoOpType DEF Op, Place
    <2>2. ThreadIs(t, r)  BY <1>8 DEF RecordReloaded, At
    <2> HIDE DEF r
    <2>3. OpShape(r)  BY <2>1 DEF OpShape
    <2> QED  BY <1>5, <1>6, <1>7, <2>1, <2>2, <2>3, OnItsWay
  <1>9. CASE thread[t].pc = "same"
    <2>1. ThreadIs(t, NoOp)  BY <1>9 DEF RecordReloaded, At
    <2> QED  BY <1>5, <1>6, <1>7, <1>9, <2>1, NoOpType, QuietOK
  <1> QED  BY <1>3, <1>8, <1>9

LEMMA EditByHandOK ==
  ASSUME IInv, NEW h \in HandEdit, EditByHand(h)
  PROVE  IInv'
  <1>1. thread \in [Thread -> Op] /\ RestTypeOK  BY TypeParts DEF IInv
  <1>2. mtime + 1 \in 0..MaxWrites  BY <1>1, ConfigAssumption DEF RestTypeOK, EditByHand
  <1>3. RestTypeOK'  BY <1>1, <1>2 DEF EditByHand, RestTypeOK, Config
  <1>4. ConfigTypeOK'  BY <1>1, <1>3 DEF EditByHand, ConfigTypeOK, RestTypeOK, Op, Place, Config
  <1> QED  BY <1>4 DEF EditByHand, IInv, HoldsCounted, Holders, NoConfigWakeLost
-----------------------------------------------------------------------------
LEMMA StutterOK == ASSUME IInv, UNCHANGED configVars
                   PROVE  IInv'
  BY DEF configVars, IInv, ConfigTypeOK, HoldsCounted, Holders, NoConfigWakeLost

LEMMA Inductive == IInv /\ [ConfigNext]_configVars => IInv'
  <1> SUFFICES ASSUME IInv, [ConfigNext]_configVars PROVE IInv'  OBVIOUS
  <1>1. ASSUME NEW t \in Thread, NEW e \in Edit, NEW holds \in BOOLEAN, StartEdit(t, e, holds)
        PROVE  IInv'
    BY <1>1, StartEditOK
  <1>2. ASSUME NEW t \in Thread,
               \/ CopyConfig(t) \/ SaveToDisk(t) \/ SaveFails(t) \/ StatSaved(t) \/ Commit(t)
               \/ Notify(t) \/ RunListeners(t) \/ DropHold(t)
        PROVE  IInv'
    BY <1>2, CopyConfigOK, SaveOK, StatSavedOK, CommitOK, NotifyOK, RunListenersOK, DropHoldOK
  <1>3. ASSUME NEW t \in Thread,
               StatFile(t) \/ LoadFromDisk(t) \/ StatLoaded(t) \/ Swap(t) \/ RecordReloaded(t)
        PROVE  IInv'
    BY <1>3, ReadsOK, SwapOK, RecordReloadedOK
  <1>4. ASSUME NEW h \in HandEdit, EditByHand(h) PROVE IInv'
    BY <1>4, EditByHandOK
  <1>5. CASE UNCHANGED configVars  BY <1>5, StutterOK
  <1> QED  BY <1>1, <1>2, <1>3, <1>4, <1>5 DEF ConfigNext

LEMMA Invariance == ConfigSpec => []IInv
  BY InitOK, Inductive, PTL DEF ConfigSpec

(* Every step of every edit and reload keeps the store well typed; the     *)
(* depth of a deferral never falls below zero.                             *)
THEOREM ConfigTypeCorrect == ConfigSpec => []ConfigTypeOK
  <1>1. IInv => ConfigTypeOK  BY DEF IInv
  <1> QED  BY <1>1, Invariance, PTL

(* However many threads edit under holds that nest, while others reload    *)
(* and the file changes by hand: a change of the configuration in memory   *)
(* is not kept from the listeners (notify_listeners, DeferredListeners).   *)
THEOREM ConfigWakes == ConfigSpec => []NoConfigWakeLost
  <1>1. IInv => NoConfigWakeLost  BY DEF IInv
  <1> QED  BY <1>1, Invariance, PTL

-----------------------------------------------------------------------------
(* The code host and the metadata of a session's PR.                       *)

Versions == 0..MaxVersion
Times == 0..MaxClock
Meta == [by : Provider \cup {None}, seen : Versions,
         approval : Versions \cup {None}, stale : BOOLEAN]
CheckRec == [pc : {"idle", "snapshot", "ask", "apply"},
             proc : Process \cup {None}, at : Times,
             began : [Session -> Versions],
             by : Provider \cup {None}, current : BOOLEAN,
             answer : [Session -> Versions \cup {None, Failed}],
             approved : SUBSET Session]

(* What a check has by the time it stands where it stands.                 *)
Started == {r \in CheckRec :
              /\ r.pc # "idle" => r.proc \in Process
              /\ r.pc \in {"ask", "apply"} => r.by \in Provider
              /\ r.pc = "apply" => \A s \in Session : r.answer[s] # None}

(* HostTypeOK but for the checks.                                          *)
HostRestOK == /\ file \in Provider /\ mem \in [Process -> Provider]
              /\ fence \in [Process -> Check \cup {None, "switch"}]
              /\ host \in [Session -> Versions] /\ clock \in Times
              /\ meta \in [Session -> Meta]
              /\ stamp \in [Session -> Times \cup {None}] /\ torn \in BOOLEAN
              /\ floor \in [Session -> Versions]

TInv == HostRestOK /\ check \in [Check -> Started]

LEMMA TInvType == TInv => HostTypeOK
  BY DEF TInv, Started, HostTypeOK, HostRestOK, Meta, CheckRec, Versions, Times

LEMMA NoMetaType == NoMeta \in Meta
  BY HostAssumption DEF NoMeta, Meta, Versions

LEMMA UnseenType == Unseen \in [Session -> Versions]
  BY HostAssumption DEF Unseen, Versions

LEMMA NoCheckType == NoCheck \in CheckRec /\ NoCheck \in Started /\ NoCheck.pc = "idle"
  <1>1. NoAnswer \in [Session -> Versions \cup {None, Failed}]  BY DEF NoAnswer
  <1>2. 0 \in Times  BY HostAssumption DEF Times
  <1>3. NoCheck \in CheckRec  BY <1>1, <1>2, UnseenType DEF NoCheck, CheckRec
  <1>4. NoCheck.pc = "idle"  BY DEF NoCheck
  <1> QED  BY <1>3, <1>4 DEF Started

LEMMA InitType == HostInit => TInv
  <1> SUFFICES ASSUME HostInit PROVE TInv  OBVIOUS
  <1>1. check \in [Check -> Started]  BY NoCheckType DEF HostInit
  <1>2. host \in [Session -> Versions]  BY DEF HostInit, Versions
  <1>3. meta \in [Session -> Meta]  BY NoMetaType DEF HostInit
  <1>4. clock \in Times /\ floor \in [Session -> Versions]
    BY HostAssumption DEF HostInit, Times, Versions
  <1>5. HostRestOK  BY <1>2, <1>3, <1>4 DEF HostInit, HostRestOK
  <1> QED  BY <1>1, <1>5 DEF TInv
-----------------------------------------------------------------------------
(* A check that gets a new record, with the rest well typed, is well typed.*)
LEMMA CheckIsType ==
  ASSUME check \in [Check -> Started], NEW k \in Check, NEW r \in Started, CheckIs(k, r),
         HostRestOK'
  PROVE  TInv'
  BY DEF CheckIs, TInv

LEMMA StartCheckType ==
  ASSUME TInv, NEW k \in Check, NEW p \in Process, StartCheck(k, p)
  PROVE  TInv'
  <1>1. HostRestOK /\ check \in [Check -> Started]  BY DEF TInv
  <1>2. PICK now \in {clock, clock + 1} \cap Times :
          /\ clock' = now
          /\ CheckIs(k, [NoCheck EXCEPT !.pc = "snapshot", !.proc = p, !.at = now, !.began = host])
    BY DEF StartCheck, Times
  <1> DEFINE r == [NoCheck EXCEPT !.pc = "snapshot", !.proc = p, !.at = now, !.began = host]
  <1>3. r \in Started  BY <1>1, NoCheckType DEF CheckRec, Started, HostRestOK
  <1>4. CheckIs(k, r)  BY <1>2
  <1> HIDE DEF r
  <1>5. HostRestOK'  BY <1>1, <1>2 DEF StartCheck, HostRestOK
  <1> QED  BY <1>1, <1>3, <1>4, <1>5, CheckIsType

LEMMA SnapshotType ==
  ASSUME TInv, NEW k \in Check, ProviderSnapshot(k)
  PROVE  TInv'
  <1> DEFINE h == mem[check[k].proc]
             r == [check[k] EXCEPT !.pc = "ask", !.by = h, !.current = TRUE]
  <1>1. HostRestOK /\ check \in [Check -> Started]  BY DEF TInv
  <1>2. check[k] \in Started /\ check[k].pc = "snapshot"  BY <1>1 DEF ProviderSnapshot
  <1>3. h \in Provider  BY <1>1, <1>2 DEF Started, HostRestOK
  <1>4. CheckIs(k, r)  BY DEF ProviderSnapshot
  <1> HIDE DEF h
  <1>5. r \in Started  BY <1>2, <1>3 DEF Started, CheckRec
  <1> HIDE DEF r
  <1>6. HostRestOK'  BY <1>1 DEF ProviderSnapshot, HostRestOK
  <1> QED  BY <1>1, <1>4, <1>5, <1>6, CheckIsType

LEMMA AskType ==
  ASSUME TInv, NEW k \in Check, NEW s \in Session, Ask(k, s)
  PROVE  TInv'
  <1>1. HostRestOK /\ check \in [Check -> Started]  BY DEF TInv
  <1>2. check[k] \in Started /\ check[k].pc = "ask"  BY <1>1 DEF Ask
  <1>3. PICK a \in {host[s], Failed}, approved \in BOOLEAN :
          CheckIs(k, [check[k] EXCEPT !.answer[s] = a,
                        !.approved = IF approved THEN @ \cup {s} ELSE @])
    BY DEF Ask
  <1> DEFINE r == [check[k] EXCEPT !.answer[s] = a,
                     !.approved = IF approved THEN @ \cup {s} ELSE @]
  <1>4. CheckIs(k, r)  BY <1>3
  <1>5. a \in Versions \cup {Failed}  BY <1>1 DEF HostRestOK
  <1>6. r \in Started  BY <1>2, <1>5 DEF Started, CheckRec
  <1> HIDE DEF r
  <1>7. HostRestOK'  BY <1>1 DEF Ask, HostRestOK
  <1> QED  BY <1>1, <1>4, <1>6, <1>7, CheckIsType

LEMMA FencedType ==
  ASSUME TInv, NEW k \in Check, Fenced(k)
  PROVE  TInv'
  <1> DEFINE r == [check[k] EXCEPT !.pc = "apply"]
  <1>1. HostRestOK /\ check \in [Check -> Started]  BY DEF TInv
  <1>2. check[k] \in Started /\ check[k].pc = "ask" /\ \A s \in Session : check[k].answer[s] # None
    BY <1>1 DEF Fenced
  <1>3. HostRestOK'  BY <1>1, <1>2 DEF Fenced, HostRestOK, Locked
  <1>4. r \in Started  BY <1>2 DEF Started, CheckRec
  <1>5. CheckIs(k, r) \/ CheckIs(k, NoCheck)  BY DEF Fenced
  <1> HIDE DEF r
  <1> QED  BY <1>1, <1>3, <1>4, <1>5, NoCheckType, CheckIsType

(* The stored summary is a head's version, or there is none.               *)
LEMMA ApprovalType ==
  ASSUME TInv, NEW k \in Check, NEW s \in Session, check[k].answer[s] \in Versions
  PROVE  /\ Approval(k, s).approval \in {check[k].answer[s], None}
         /\ Approval(k, s).stale \in BOOLEAN
  BY DEF Approval

LEMMA ObservedType ==
  ASSUME TInv, NEW k \in Check, NEW s \in Session, check[k].answer[s] \in Versions
  PROVE  Observed(k, s) \in Meta
  <1>1. check[k].by \in Provider \cup {None}  BY DEF TInv, Started, CheckRec
  <1>2. CASE check[k].answer[s] = 0  BY <1>2, NoMetaType DEF Observed
  <1>3. CASE check[k].answer[s] # 0  BY <1>1, <1>3, ApprovalType DEF Observed, Meta
  <1> QED  BY <1>2, <1>3

LEMMA SucceededAnswer ==
  ASSUME TInv, NEW k \in Check, check[k].pc = "apply", NEW s \in Succeeded(k)
  PROVE  s \in Session /\ check[k].answer[s] \in Versions
  BY DEF TInv, Started, CheckRec, Succeeded, Accepted

LEMMA ApplyType ==
  ASSUME TInv, NEW k \in Check, Apply(k)
  PROVE  TInv'
  <1>1. HostRestOK /\ check \in [Check -> Started]  BY DEF TInv
  <1>2. check[k] \in Started /\ check[k].pc = "apply"  BY <1>1 DEF Apply
  <1>3. check[k].at \in Times /\ check[k].began \in [Session -> Versions]
    BY <1>2 DEF Started, CheckRec
  <1>4. meta' \in [Session -> Meta]
    <2>1. ASSUME NEW s \in Session
          PROVE  [meta[s] EXCEPT !.stale = meta[s].approval # None] \in Meta
      BY <1>1 DEF HostRestOK, Meta
    <2>2. \A s \in Session : s \in Succeeded(k) => Observed(k, s) \in Meta
      BY <1>2, SucceededAnswer, ObservedType
    <2> QED  BY <1>1, <2>1, <2>2 DEF Apply, HostRestOK
  <1>5. stamp' \in [Session -> Times \cup {None}]  BY <1>1, <1>3 DEF Apply, HostRestOK
  <1>6. floor' \in [Session -> Versions]  BY <1>1, <1>3 DEF Apply, HostRestOK
  <1>7. fence' \in [Process -> Check \cup {None, "switch"}]
    BY <1>1 DEF Apply, Locked, HostRestOK
  <1>8. HostRestOK'  BY <1>1, <1>4, <1>5, <1>6, <1>7 DEF Apply, HostRestOK
  <1>9. CheckIs(k, NoCheck)  BY DEF Apply
  <1> QED  BY <1>1, <1>8, <1>9, NoCheckType, CheckIsType

LEMMA AdoptType ==
  ASSUME TInv, NEW p \in Process, NEW h \in Provider, Adopt(p, h), file' \in Provider
  PROVE  TInv'
  <1>1. HostRestOK /\ check \in [Check -> Started]  BY DEF TInv
  <1>2. HostRestOK'  BY <1>1 DEF Adopt, Locked, HostRestOK
  <1>3. \A k \in Check : [check[k] EXCEPT !.current = FALSE] \in Started
    BY <1>1, ZenonT(30) DEF Started, CheckRec
  <1>4. check' \in [Check -> Started]  BY <1>1, <1>3 DEF Adopt
  <1> QED  BY <1>2, <1>4 DEF TInv

LEMMA FaultsType ==
  ASSUME TInv, NEW p \in Process, StoreFails(p) \/ Crash(p)
  PROVE  TInv'
  <1>1. HostRestOK /\ check \in [Check -> Started]  BY DEF TInv
  <1>2. HostRestOK'  BY <1>1 DEF StoreFails, Crash, Locked, HostRestOK
  <1>3. check' \in [Check -> Started]  BY <1>1, NoCheckType DEF StoreFails, Crash
  <1> QED  BY <1>2, <1>3 DEF TInv

LEMMA PushType == ASSUME TInv, Push
                  PROVE  TInv'
  <1>1. HostRestOK /\ check \in [Check -> Started]  BY DEF TInv
  <1>2. PICK s \in Session : /\ host[s] < MaxVersion /\ clock < MaxClock
                            /\ host' = [host EXCEPT ![s] = host[s] + 1] /\ clock' = clock + 1
    BY DEF Push
  <1>3. host[s] + 1 \in Versions /\ clock + 1 \in Times
    BY <1>1, <1>2, HostAssumption DEF HostRestOK, Versions, Times
  <1> QED  BY <1>1, <1>2, <1>3 DEF Push, HostRestOK, TInv

LEMMA OthersType ==
  ASSUME TInv, NEW p \in Process, SaveConfig(p) \/ InvalidateReviewMetadata(p)
  PROVE  TInv'
  <1>1. HostRestOK /\ check \in [Check -> Started]  BY DEF TInv
  <1>2. floor' \in [Session -> Versions]
    BY <1>1, HostAssumption DEF SaveConfig, InvalidateReviewMetadata, HostRestOK, Versions
  <1>3. meta' \in [Session -> Meta]
    BY <1>1, NoMetaType DEF SaveConfig, InvalidateReviewMetadata, HostRestOK
  <1> QED  BY <1>1, <1>2, <1>3 DEF SaveConfig, InvalidateReviewMetadata, Locked, HostRestOK, TInv

LEMMA TypeStep == TInv /\ [HostNext]_hostVars => TInv'
  <1> SUFFICES ASSUME TInv, [HostNext]_hostVars PROVE TInv'  OBVIOUS
  <1>1. ASSUME NEW k \in Check, NEW p \in Process, StartCheck(k, p) PROVE TInv'
    BY <1>1, StartCheckType
  <1>2. ASSUME NEW k \in Check, NEW s \in Session, Ask(k, s) PROVE TInv'
    BY <1>2, AskType
  <1>3. ASSUME NEW k \in Check, ProviderSnapshot(k) \/ Fenced(k) \/ Apply(k) PROVE TInv'
    BY <1>3, SnapshotType, FencedType, ApplyType
  <1>4. ASSUME NEW p \in Process, Switch(p) \/ Reload(p) PROVE TInv'
    BY <1>4, AdoptType DEF Switch, Reload, TInv, HostRestOK
  <1>5. ASSUME NEW p \in Process,
               SaveConfig(p) \/ InvalidateReviewMetadata(p) \/ StoreFails(p) \/ Crash(p)
        PROVE  TInv'
    BY <1>5, OthersType, FaultsType
  <1>6. CASE Push  BY <1>6, PushType
  <1>7. CASE UNCHANGED hostVars  BY <1>7 DEF hostVars, TInv, HostRestOK
  <1> QED  BY <1>1, <1>2, <1>3, <1>4, <1>5, <1>6, <1>7 DEF HostNext

LEMMA TypeInvariance == HostSpec => []TInv
  BY InitType, TypeStep, PTL DEF HostSpec

(* Checks, switches, reloads, failed writes and restarts, in any order,    *)
(* keep the metadata, the stamps and the fence well typed.                 *)
THEOREM HostTypeCorrect == HostSpec => []HostTypeOK
  BY TypeInvariance, TInvType, PTL
-----------------------------------------------------------------------------
(* A session that a check changes has what was observed; any other keeps   *)
(* the head and the approval it had.                                       *)
LEMMA ApplyEffect ==
  ASSUME TInv, NEW k \in Check, Apply(k), NEW s \in Session
  PROVE  /\ s \in Succeeded(k) => meta'[s] = Observed(k, s)
         /\ s \notin Succeeded(k) =>
              /\ meta'[s].by = meta[s].by /\ meta'[s].seen = meta[s].seen
              /\ meta'[s].approval = meta[s].approval
  <1>1. meta[s] \in Meta  BY DEF TInv, HostRestOK
  <1>2. CASE s \notin Accepted(k)  BY <1>1, <1>2 DEF Apply, Succeeded
  <1>3. CASE s \in Succeeded(k)  BY <1>3 DEF Apply, Succeeded
  <1>4. CASE s \in Accepted(k) /\ s \notin Succeeded(k)
    <2>1. meta'[s] = [meta[s] EXCEPT !.stale = meta[s].approval # None]
      BY <1>4 DEF Apply
    <2> QED  BY <1>1, <1>4, <2>1 DEF Meta
  <1> QED  BY <1>2, <1>3, <1>4

LEMMA ObservedParts ==
  ASSUME TInv, NEW k \in Check, NEW s \in Session, check[k].answer[s] \in Versions
  PROVE  LET m == Observed(k, s)
         IN  /\ m.seen = check[k].answer[s]
             /\ m.by \in {None, check[k].by}
             /\ m.approval \in {None, m.seen}
  <1>1. CASE check[k].answer[s] = 0  BY <1>1 DEF Observed, NoMeta
  <1>2. CASE check[k].answer[s] # 0  BY <1>2, ApprovalType DEF Observed
  <1> QED  BY <1>1, <1>2

LEMMA ApprovalStep ==
  ASSUME TInv, ApprovalOfThisHead, [HostNext]_hostVars
  PROVE  ApprovalOfThisHead'
  <1>1. ASSUME NEW k \in Check, Apply(k)
        PROVE  ApprovalOfThisHead'
    <2> SUFFICES ASSUME NEW s \in Session
                 PROVE  meta'[s].approval \in {None, meta'[s].seen}
      BY DEF ApprovalOfThisHead
    <2>1. CASE s \in Succeeded(k)
      <3>1. check[k].pc = "apply"  BY <1>1 DEF Apply
      <3>2. check[k].answer[s] \in Versions  BY <2>1, <3>1, SucceededAnswer
      <3> QED  BY <1>1, <2>1, <3>2, ApplyEffect, ObservedParts
    <2>2. CASE s \notin Succeeded(k)  BY <1>1, <2>2, ApplyEffect DEF ApprovalOfThisHead
    <2> QED  BY <2>1, <2>2
  <1>2. ASSUME NEW p \in Process, InvalidateReviewMetadata(p)
        PROVE  ApprovalOfThisHead'
    BY <1>2 DEF InvalidateReviewMetadata, NoMeta, ApprovalOfThisHead
  <1>3. CASE UNCHANGED meta  BY <1>3 DEF ApprovalOfThisHead
  <1>4. \/ \E k \in Check : Apply(k)
        \/ \E p \in Process : InvalidateReviewMetadata(p)
        \/ UNCHANGED meta
    BY DEF HostNext, hostVars, StartCheck, Ask, ProviderSnapshot, Fenced, Switch, Reload,
           Adopt, SaveConfig, StoreFails, Crash, Push
  <1> QED  BY <1>1, <1>2, <1>3, <1>4

(* An approval summary is shown only with the head it was given for, fresh *)
(* or stale (apply_approval_observation).                                  *)
THEOREM ApprovalsOfTheirHead == HostSpec => []ApprovalOfThisHead
  <1>1. HostInit => ApprovalOfThisHead  BY DEF HostInit, NoMeta, ApprovalOfThisHead
  <1>2. TInv /\ ApprovalOfThisHead /\ [HostNext]_hostVars => ApprovalOfThisHead'
    BY ApprovalStep
  <1> QED  BY <1>1, <1>2, TypeInvariance, PTL DEF HostSpec
-----------------------------------------------------------------------------
(* Some process has the provider the file has: who wrote it last, or has   *)
(* read it since.                                                          *)
SomebodyIsUpToDate == Process # {} => \E p \in Process : mem[p] = file

(* A check that is about to write holds the lock of its process, whose     *)
(* provider is still the one it asked.                                     *)
FenceHeld == \A k \in Check :
               check[k].pc = "apply" => /\ fence[check[k].proc] = k
                                        /\ mem[check[k].proc] = check[k].by

PInv == TInv /\ SomebodyIsUpToDate /\ FenceHeld /\ MetadataOfProvider

LEMMA InitProvider == HostInit => PInv
  <1> SUFFICES ASSUME HostInit PROVE PInv  OBVIOUS
  <1>1. TInv  BY InitType
  <1>2. SomebodyIsUpToDate /\ FenceHeld
    BY NoCheckType DEF HostInit, SomebodyIsUpToDate, FenceHeld
  <1>3. MetadataOfProvider  BY DEF HostInit, NoMeta, MetadataOfProvider
  <1> QED  BY <1>1, <1>2, <1>3 DEF PInv

LEMMA UpToDateStep ==
  ASSUME TInv, SomebodyIsUpToDate, [HostNext]_hostVars
  PROVE  SomebodyIsUpToDate'
  <1>1. mem \in [Process -> Provider]  BY DEF TInv, HostRestOK
  <1>2. ASSUME NEW p \in Process, mem' = [mem EXCEPT ![p] = file']
        PROVE  SomebodyIsUpToDate'
    BY <1>1, <1>2 DEF SomebodyIsUpToDate
  <1>3. ASSUME NEW p \in Process, Switch(p) \/ Reload(p) \/ Crash(p)
        PROVE  SomebodyIsUpToDate'
    BY <1>2, <1>3 DEF Switch, Reload, Adopt, Crash
  <1>4. ASSUME NEW p \in Process, SaveConfig(p)
        PROVE  SomebodyIsUpToDate'
    BY <1>4 DEF SaveConfig, SomebodyIsUpToDate
  <1>5. CASE UNCHANGED <<file, mem>>  BY <1>5 DEF SomebodyIsUpToDate
  <1>6. \/ \E p \in Process : Switch(p) \/ Reload(p) \/ Crash(p) \/ SaveConfig(p)
        \/ UNCHANGED <<file, mem>>
    BY DEF HostNext, hostVars, StartCheck, Ask, ProviderSnapshot, Fenced, Apply,
           InvalidateReviewMetadata, StoreFails, Push
  <1> QED  BY <1>3, <1>4, <1>5, <1>6

(* A step of one check that is not about to write afterwards.              *)
LEMMA FenceOfOthers ==
  ASSUME TInv, FenceHeld, NEW k \in Check, NEW r, CheckIs(k, r), r.pc # "apply",
         UNCHANGED <<mem, fence>>
  PROVE  FenceHeld'
  <1>1. \A l \in Check : check'[l] = IF l = k THEN r ELSE check[l]
    BY DEF TInv, CheckIs
  <1> QED  BY <1>1 DEF FenceHeld

LEMMA ReadingStep ==
  ASSUME TInv, FenceHeld, NEW k \in Check,
         \/ \E p \in Process : StartCheck(k, p)
         \/ \E s \in Session : Ask(k, s)
         \/ ProviderSnapshot(k)
  PROVE  FenceHeld'
  <1>1. check[k] \in CheckRec  BY DEF TInv, Started
  <1>2. ASSUME NEW p \in Process, StartCheck(k, p) PROVE FenceHeld'
    <2>1. PICK now \in Times :
            CheckIs(k, [NoCheck EXCEPT !.pc = "snapshot", !.proc = p, !.at = now, !.began = host])
      BY <1>2 DEF StartCheck, Times
    <2>2. [NoCheck EXCEPT !.pc = "snapshot", !.proc = p, !.at = now, !.began = host].pc = "snapshot"
      BY NoCheckType DEF CheckRec
    <2> QED  BY <1>2, <2>1, <2>2, FenceOfOthers DEF StartCheck
  <1>3. ASSUME NEW s \in Session, Ask(k, s) PROVE FenceHeld'
    <2>1. PICK a \in {host[s], Failed}, approved \in BOOLEAN :
            CheckIs(k, [check[k] EXCEPT !.answer[s] = a,
                          !.approved = IF approved THEN @ \cup {s} ELSE @])
      BY <1>3 DEF Ask
    <2> DEFINE r == [check[k] EXCEPT !.answer[s] = a,
                       !.approved = IF approved THEN @ \cup {s} ELSE @]
    <2>2. r.pc = "ask"  BY <1>1, <1>3 DEF CheckRec, Ask
    <2>3. CheckIs(k, r)  BY <2>1
    <2> HIDE DEF r
    <2> QED  BY <1>3, <2>2, <2>3, FenceOfOthers DEF Ask
  <1>4. CASE ProviderSnapshot(k)
    <2> DEFINE h == mem[check[k].proc]
               r == [check[k] EXCEPT !.pc = "ask", !.by = h, !.current = TRUE]
    <2>1. CheckIs(k, r)  BY <1>4 DEF ProviderSnapshot
    <2> HIDE DEF h
    <2>2. r.pc = "ask"  BY <1>1 DEF CheckRec
    <2> HIDE DEF r
    <2> QED  BY <1>4, <2>1, <2>2, FenceOfOthers DEF ProviderSnapshot
  <1> QED  BY <1>2, <1>3, <1>4

LEMMA FencedStep ==
  ASSUME TInv, FenceHeld, NEW k \in Check, Fenced(k)
  PROVE  FenceHeld'
  <1>1. check \in [Check -> Started] /\ fence \in [Process -> Check \cup {None, "switch"}]
    BY DEF TInv, HostRestOK
  <1>2. check[k] \in CheckRec /\ check[k].pc = "ask" /\ check[k].proc \in Process
    BY <1>1 DEF Fenced, Started
  <1> DEFINE p == check[k].proc
             r == [check[k] EXCEPT !.pc = "apply"]
  <1>3. r.pc = "apply" /\ r.proc = p /\ r.by = check[k].by  BY <1>2 DEF CheckRec
  <1>4. fence[p] = None  BY DEF Fenced
  <1>5. CASE IsCurrent(k)
    <2>1. fence' = [fence EXCEPT ![p] = k] /\ check' = [check EXCEPT ![k] = r] /\ mem' = mem
      BY <1>5 DEF Fenced, Locked, CheckIs
    <2>2. mem[p] = check[k].by  BY <1>5 DEF IsCurrent
    <2> HIDE DEF r, p
    <2>3. ASSUME NEW l \in Check, check'[l].pc = "apply"
          PROVE  fence'[check'[l].proc] = l /\ mem'[check'[l].proc] = check'[l].by
      <3>1. CASE l = k  BY <1>1, <1>2, <1>3, <2>1, <2>2, <3>1 DEF p
      <3>2. CASE l # k
        <4>1. check'[l] = check[l]  BY <1>1, <2>1, <3>2
        <4>2. fence[check[l].proc] = l  BY <2>3, <4>1 DEF FenceHeld
        <4>3. check[l].proc # p  BY <1>4, <4>2, HostAssumption
        <4> QED  BY <1>1, <2>1, <2>3, <4>1, <4>3 DEF FenceHeld
      <3> QED  BY <3>1, <3>2
    <2> QED  BY <2>3 DEF FenceHeld
  <1>6. CASE ~IsCurrent(k)
    BY <1>6, NoCheckType, FenceOfOthers DEF Fenced
  <1> QED  BY <1>5, <1>6

LEMMA ApplyStep ==
  ASSUME TInv, FenceHeld, NEW k \in Check, Apply(k)
  PROVE  FenceHeld'
  <1>1. check \in [Check -> Started] /\ fence \in [Process -> Check \cup {None, "switch"}]
    BY DEF TInv, HostRestOK
  <1>2. fence[check[k].proc] = k  BY DEF Apply, FenceHeld
  <1>3. ASSUME NEW l \in Check, check'[l].pc = "apply"
        PROVE  fence'[check'[l].proc] = l /\ mem'[check'[l].proc] = check'[l].by
    <2>1. l # k /\ check'[l] = check[l]  BY <1>1, <1>3, NoCheckType DEF Apply, CheckIs
    <2>2. fence[check[l].proc] = l  BY <1>3, <2>1 DEF FenceHeld
    <2>3. check[l].proc # check[k].proc  BY <1>2, <2>1, <2>2
    <2> QED  BY <1>1, <1>3, <2>1, <2>3 DEF FenceHeld, Apply, Locked
  <1> QED  BY <1>3 DEF FenceHeld

(* Nobody is about to write in a process whose lock is free, or held by a  *)
(* switch.                                                                 *)
LEMMA AdoptStep ==
  ASSUME TInv, FenceHeld, NEW p \in Process, NEW h \in Provider, Adopt(p, h)
  PROVE  FenceHeld'
  <1>1. /\ check \in [Check -> Started] /\ fence \in [Process -> Check \cup {None, "switch"}]
        /\ mem \in [Process -> Provider]
    BY DEF TInv, HostRestOK
  <1>2. \A l \in Check : /\ check'[l].pc = check[l].pc /\ check'[l].proc = check[l].proc
                         /\ check'[l].by = check[l].by
    BY <1>1 DEF Adopt, Started, CheckRec
  <1>3. \A l \in Check : check[l].pc = "apply" => check[l].proc # p
    BY HostAssumption DEF Adopt, FenceHeld
  <1>4. \A q \in Process \ {p} : mem'[q] = mem[q] /\ fence'[q] = fence[q]
    BY <1>1 DEF Adopt, Locked
  <1>5. \A l \in Check : check[l].pc = "apply" => check[l].proc \in Process
    BY <1>1 DEF Started
  <1> QED  BY <1>2, <1>3, <1>4, <1>5 DEF FenceHeld

LEMMA ProcessStep ==
  ASSUME TInv, FenceHeld, NEW p \in Process,
         InvalidateReviewMetadata(p) \/ StoreFails(p) \/ Crash(p)
  PROVE  FenceHeld'
  <1>1. /\ check \in [Check -> Started] /\ fence \in [Process -> Check \cup {None, "switch"}]
        /\ mem \in [Process -> Provider]
    BY DEF TInv, HostRestOK
  <1>2. \A q \in Process \ {p} : mem'[q] = mem[q] /\ fence'[q] = fence[q]
    BY <1>1 DEF InvalidateReviewMetadata, StoreFails, Crash, Locked
  <1>3. ASSUME NEW l \in Check, check'[l].pc = "apply"
        PROVE  check'[l] = check[l] /\ check[l].proc \in Process \ {p}
    <2>1. check'[l] = check[l]
      BY <1>1, <1>3, NoCheckType DEF InvalidateReviewMetadata, StoreFails, Crash
    <2>2. fence[check[l].proc] = l /\ check[l].proc \in Process
      BY <1>1, <1>3, <2>1 DEF FenceHeld, Started
    <2>3. CASE InvalidateReviewMetadata(p)
      BY <2>1, <2>2, <2>3, HostAssumption DEF InvalidateReviewMetadata
    <2>4. CASE StoreFails(p)
      BY <1>1, <1>3, <2>1, <2>2, <2>4, NoCheckType DEF StoreFails
    <2>5. CASE Crash(p)
      BY <1>1, <1>3, <2>1, <2>2, <2>5, NoCheckType DEF Crash
    <2> QED  BY <2>1, <2>3, <2>4, <2>5
  <1> QED  BY <1>2, <1>3 DEF FenceHeld

LEMMA FenceStep ==
  ASSUME TInv, FenceHeld, [HostNext]_hostVars
  PROVE  FenceHeld'
  <1>1. ASSUME NEW k \in Check,
               \/ \E p \in Process : StartCheck(k, p)
               \/ \E s \in Session : Ask(k, s)
               \/ ProviderSnapshot(k) \/ Fenced(k) \/ Apply(k)
        PROVE  FenceHeld'
    BY <1>1, ReadingStep, FencedStep, ApplyStep
  <1>2. ASSUME NEW p \in Process, Switch(p) \/ Reload(p) PROVE FenceHeld'
    BY <1>2, AdoptStep DEF Switch, Reload, TInv, HostRestOK
  <1>3. ASSUME NEW p \in Process, InvalidateReviewMetadata(p) \/ StoreFails(p) \/ Crash(p)
        PROVE  FenceHeld'
    BY <1>3, ProcessStep
  <1>4. CASE UNCHANGED <<check, fence, mem>>  BY <1>4 DEF FenceHeld
  <1>5. ASSUME (\E p \in Process : SaveConfig(p)) \/ Push \/ UNCHANGED hostVars
        PROVE  UNCHANGED <<check, fence, mem>>
    BY <1>5 DEF SaveConfig, Push, hostVars
  <1> QED  BY <1>1, <1>2, <1>3, <1>4, <1>5 DEF HostNext

(* The four ways in which metadata of another provider is accounted for.   *)
LEMMA MetadataStep ==
  ASSUME PInv, [HostNext]_hostVars
  PROVE  MetadataOfProvider'
  <1>1. /\ mem \in [Process -> Provider] /\ check \in [Check -> Started]
        /\ fence \in [Process -> Check \cup {None, "switch"}] /\ TInv
    BY DEF PInv, TInv, HostRestOK
  <1> DEFINE Accounted == torn \/ \E p \in Process : mem[p] # file \/ fence[p] = "switch"
  <1>2. \A s \in Session : meta[s].by \in {None, file} \/ Accounted
    BY DEF PInv, MetadataOfProvider
  <1>3. SUFFICES \A s \in Session : meta'[s].by \in {None, file'} \/ Accounted'
    BY DEF MetadataOfProvider
  <1>4. ASSUME UNCHANGED <<meta, file>>, Accounted => Accounted'
        PROVE  \A s \in Session : meta'[s].by \in {None, file'} \/ Accounted'
    BY <1>2, <1>4
  <1>5. ASSUME NEW k \in Check,
               \/ \E p \in Process : StartCheck(k, p)
               \/ \E s \in Session : Ask(k, s)
               \/ ProviderSnapshot(k)
        PROVE  UNCHANGED <<meta, file, torn, mem, fence>>
    BY <1>5 DEF StartCheck, Ask, ProviderSnapshot
  <1>6. ASSUME NEW k \in Check, Fenced(k)
        PROVE  UNCHANGED <<meta, file>> /\ (Accounted => Accounted')
    BY <1>1, <1>6, HostAssumption DEF Fenced, Locked
  <1>7. ASSUME NEW k \in Check, Apply(k)
        PROVE  \A s \in Session : meta'[s].by \in {None, file'} \/ Accounted'
    <2> DEFINE p == check[k].proc
    <2>1. check[k].pc = "apply" /\ p \in Process  BY <1>1, <1>7 DEF Apply, Started
    <2>2. fence[p] = k /\ mem[p] = check[k].by  BY <2>1 DEF PInv, FenceHeld
    <2>3. Accounted => Accounted'
      BY <1>1, <1>7, <2>1, <2>2, HostAssumption DEF Apply, Locked
    <2>4. UNCHANGED <<file, mem>>  BY <1>7 DEF Apply
    <2>5. ASSUME NEW s \in Session
          PROVE  meta'[s].by \in {None, file} \/ Accounted \/ mem[p] # file
      <3>1. CASE s \in Succeeded(k)
        <4>1. check[k].answer[s] \in Versions  BY <1>1, <2>1, <3>1, SucceededAnswer
        <4> QED  BY <1>1, <1>7, <2>2, <3>1, <4>1, ApplyEffect, ObservedParts
      <3>2. CASE s \notin Succeeded(k)  BY <1>1, <1>2, <1>7, <3>2, ApplyEffect
      <3> QED  BY <3>1, <3>2
    <2> QED  BY <2>1, <2>3, <2>4, <2>5
  <1>8. ASSUME NEW p \in Process, Switch(p) \/ Reload(p)
        PROVE  Accounted'
    <2>1. fence' = [fence EXCEPT ![p] = "switch"]
      BY <1>8 DEF Switch, Reload, Adopt, Locked
    <2> QED  BY <1>1, <2>1
  <1>9. ASSUME NEW p \in Process, SaveConfig(p)
        PROVE  Accounted'
    <2>1. PICK q \in Process : mem[q] = file  BY <1>9 DEF PInv, SomebodyIsUpToDate
    <2> QED  BY <1>9, <2>1 DEF SaveConfig
  <1>10. ASSUME NEW p \in Process, InvalidateReviewMetadata(p)
         PROVE  \A s \in Session : meta'[s].by = None
    BY <1>10 DEF InvalidateReviewMetadata, NoMeta
  <1>11. ASSUME NEW p \in Process, StoreFails(p) \/ Crash(p)
         PROVE  UNCHANGED <<meta, file>> /\ (Accounted => Accounted')
    <2>1. UNCHANGED <<meta, file>>  BY <1>11 DEF StoreFails, Crash
    <2>2. ASSUME Accounted PROVE Accounted'
      <3>1. torn => torn'  BY <1>11 DEF StoreFails, Crash
      <3>2. fence[p] = "switch" => torn'  BY <1>11 DEF StoreFails, Crash
      <3>3. mem[p] # file => torn' \/ mem'[p] # file'  BY <1>11 DEF StoreFails, Crash
      <3>4. \A q \in Process \ {p} : mem'[q] = mem[q] /\ fence'[q] = fence[q]
        BY <1>1, <1>11 DEF StoreFails, Crash, Locked
      <3> QED  BY <2>1, <2>2, <3>1, <3>2, <3>3, <3>4
    <2> QED  BY <2>1, <2>2
  <1>12. ASSUME Push \/ UNCHANGED hostVars
         PROVE  UNCHANGED <<meta, file, torn, mem, fence>>
    BY <1>12 DEF Push, hostVars
  <1> HIDE DEF Accounted
  <1>13. ASSUME UNCHANGED <<meta, file, torn, mem, fence>>
         PROVE  \A s \in Session : meta'[s].by \in {None, file'} \/ Accounted'
    BY <1>4, <1>13 DEF Accounted
  <1> QED  BY <1>4, <1>5, <1>6, <1>7, <1>8, <1>9, <1>10, <1>11, <1>12, <1>13 DEF HostNext

(* Metadata fetched from one code host is not left for the configured      *)
(* other one to interpret, however switches and reloads of several         *)
(* processes meet the checks (review_provider_lock, the provider epoch).   *)
THEOREM MetadataIsAccountedFor == HostSpec => []MetadataOfProvider
  <1>1. PInv /\ TInv' /\ [HostNext]_hostVars => PInv'
    BY UpToDateStep, FenceStep, MetadataStep DEF PInv
  <1>2. PInv => MetadataOfProvider  BY DEF PInv
  <1> QED  BY <1>1, <1>2, InitProvider, TypeInvariance, PTL DEF HostSpec
-----------------------------------------------------------------------------
(* Versions grow with the clock: what a running check has seen of a        *)
(* session, what was applied before it, and any two that run together.     *)
Running(k) == check[k].pc # "idle"

OnTime(k, s) ==
  /\ check[k].at <= clock /\ check[k].began[s] <= host[s]
  /\ check[k].at = clock => check[k].began[s] = host[s]
  /\ stamp[s] # None /\ stamp[s] <= check[k].at => floor[s] <= check[k].began[s]
  /\ check[k].answer[s] \in Versions => check[k].began[s] <= check[k].answer[s]

InTheirOrder(k, l, s) == check[k].at <= check[l].at => check[k].began[s] <= check[l].began[s]

Applied(s) == /\ floor[s] <= host[s] /\ floor[s] <= meta[s].seen
              /\ stamp[s] = None => floor[s] = 0
              /\ stamp[s] # None => stamp[s] <= clock

OInv == \A s \in Session :
          /\ Applied(s)
          /\ \A k \in Check : Running(k) => OnTime(k, s)
          /\ \A k, l \in Check : Running(k) /\ Running(l) => InTheirOrder(k, l, s)

LEMMA InitOrder == HostInit => OInv
  BY NoCheckType, HostAssumption
  DEF HostInit, OInv, Applied, Running, NoMeta, InTheirOrder

LEMMA Numbers ==
  ASSUME TInv
  PROVE  /\ clock \in Nat
         /\ \A s \in Session : /\ host[s] \in Nat /\ floor[s] \in Nat /\ meta[s].seen \in Nat
                               /\ stamp[s] # None => stamp[s] \in Nat
         /\ \A k \in Check : /\ check[k].at \in Nat
                             /\ \A s \in Session : check[k].began[s] \in Nat
  BY HostAssumption DEF TInv, HostRestOK, Meta, Started, CheckRec, Versions, Times

(* What a step leaves of a check that still runs after it: when it began,  *)
(* and its answers, to which the host's present version may be added.      *)
Kept(k) == Running(k)' => /\ Running(k)
                          /\ check'[k].at = check[k].at /\ check'[k].began = check[k].began
                          /\ \A s \in Session : check'[k].answer[s] \in
                                                 {check[k].answer[s], host[s], Failed}

LEMMA CalmStep ==
  ASSUME TInv, OInv, \A k \in Check : Kept(k),
         UNCHANGED <<host, clock, meta, stamp, floor>>
  PROVE  OInv'
  <1>1. ASSUME NEW s \in Session, NEW k \in Check, Running(k)'
        PROVE  OnTime(k, s)'
    <2>1. Running(k) /\ OnTime(k, s)  BY <1>1 DEF Kept, OInv
    <2>2. Failed \notin Versions  BY HostAssumption DEF Versions
    <2> QED  BY <1>1, <2>1, <2>2 DEF Kept, OnTime
  <1>2. ASSUME NEW s \in Session, NEW k \in Check, NEW l \in Check, Running(k)', Running(l)'
        PROVE  InTheirOrder(k, l, s)'
    <2>1. InTheirOrder(k, l, s)  BY <1>2 DEF Kept, OInv
    <2> QED  BY <1>2, <2>1 DEF Kept, InTheirOrder
  <1>3. \A s \in Session : Applied(s)'  BY DEF OInv, Applied
  <1> QED  BY <1>1, <1>2, <1>3 DEF OInv

LEMMA KeptByOne ==
  ASSUME TInv, NEW k \in Check, NEW r, CheckIs(k, r), check[k].pc # "idle",
         r.pc # "idle" => /\ r.at = check[k].at /\ r.began = check[k].began
                          /\ \A s \in Session : r.answer[s] \in
                                                 {check[k].answer[s], host[s], Failed}
  PROVE  \A l \in Check : Kept(l)
  <1>1. \A l \in Check : check'[l] = IF l = k THEN r ELSE check[l]
    BY DEF TInv, CheckIs
  <1> QED  BY <1>1 DEF Kept, Running

LEMMA ReadingOrder ==
  ASSUME TInv, OInv, NEW k \in Check,
         (\E s \in Session : Ask(k, s)) \/ ProviderSnapshot(k) \/ Fenced(k)
  PROVE  OInv'
  <1>1. check[k] \in CheckRec  BY DEF TInv, Started
  <1>2. ASSUME NEW s \in Session, Ask(k, s) PROVE OInv'
    <2>1. PICK a \in {host[s], Failed}, approved \in BOOLEAN :
            CheckIs(k, [check[k] EXCEPT !.answer[s] = a,
                          !.approved = IF approved THEN @ \cup {s} ELSE @])
      BY <1>2 DEF Ask
    <2> DEFINE r == [check[k] EXCEPT !.answer[s] = a,
                       !.approved = IF approved THEN @ \cup {s} ELSE @]
    <2>2. r.at = check[k].at /\ r.began = check[k].began  BY <1>1 DEF CheckRec
    <2>3. \A u \in Session : r.answer[u] = IF u = s THEN a ELSE check[k].answer[u]
      BY <1>1 DEF CheckRec
    <2>4. CheckIs(k, r)  BY <2>1
    <2> HIDE DEF r
    <2> QED  BY <1>2, <2>2, <2>3, <2>4, KeptByOne, CalmStep DEF Ask
  <1>3. CASE ProviderSnapshot(k)
    <2> DEFINE h == mem[check[k].proc]
               r == [check[k] EXCEPT !.pc = "ask", !.by = h, !.current = TRUE]
    <2>1. CheckIs(k, r)  BY <1>3 DEF ProviderSnapshot
    <2> HIDE DEF h
    <2>2. r.at = check[k].at /\ r.began = check[k].began /\ r.answer = check[k].answer
      BY <1>1 DEF CheckRec
    <2> HIDE DEF r
    <2> QED  BY <1>3, <2>1, <2>2, KeptByOne, CalmStep DEF ProviderSnapshot
  <1>4. CASE Fenced(k)
    <2> DEFINE r == [check[k] EXCEPT !.pc = "apply"]
    <2>1. r.at = check[k].at /\ r.began = check[k].began /\ r.answer = check[k].answer
      BY <1>1 DEF CheckRec
    <2>2. CheckIs(k, r) \/ CheckIs(k, NoCheck)  BY <1>4 DEF Fenced
    <2> HIDE DEF r
    <2> QED  BY <1>4, <2>1, <2>2, NoCheckType, KeptByOne, CalmStep DEF Fenced
  <1> QED  BY <1>2, <1>3, <1>4

LEMMA ProcessOrder ==
  ASSUME TInv, OInv, NEW p \in Process,
         Switch(p) \/ Reload(p) \/ SaveConfig(p) \/ StoreFails(p) \/ Crash(p)
  PROVE  OInv'
  <1>1. check \in [Check -> Started]  BY DEF TInv
  <1>2. ASSUME NEW k \in Check, check'[k] \in {check[k], NoCheck, [check[k] EXCEPT !.current = FALSE]}
        PROVE  Kept(k)
    BY <1>1, <1>2, NoCheckType DEF Kept, Running, Started, CheckRec
  <1>3. ASSUME NEW k \in Check
        PROVE  check'[k] \in {check[k], NoCheck, [check[k] EXCEPT !.current = FALSE]}
    <2>1. CASE Switch(p) \/ Reload(p)  BY <2>1 DEF Switch, Reload, Adopt
    <2>2. CASE SaveConfig(p)  BY <2>2 DEF SaveConfig
    <2>3. CASE StoreFails(p) \/ Crash(p)  BY <2>3 DEF StoreFails, Crash
    <2> QED  BY <2>1, <2>2, <2>3
  <1> QED  BY <1>2, <1>3, CalmStep DEF Switch, Reload, Adopt, SaveConfig, StoreFails, Crash

LEMMA StartOrder ==
  ASSUME TInv, OInv, NEW k \in Check, NEW p \in Process, StartCheck(k, p)
  PROVE  OInv'
  <1>1. check \in [Check -> Started]  BY DEF TInv
  <1>2. PICK now \in {clock, clock + 1} :
          /\ clock' = now
          /\ CheckIs(k, [NoCheck EXCEPT !.pc = "snapshot", !.proc = p, !.at = now, !.began = host])
    BY DEF StartCheck
  <1> DEFINE r == [NoCheck EXCEPT !.pc = "snapshot", !.proc = p, !.at = now, !.began = host]
  <1>3. r.at = now /\ r.began = host /\ r.answer = NoAnswer
    BY NoCheckType DEF CheckRec, NoCheck
  <1>4. CheckIs(k, r)  BY <1>2
  <1> HIDE DEF r
  <1>5. \A l \in Check : check'[l] = IF l = k THEN r ELSE check[l]  BY <1>1, <1>4 DEF CheckIs
  <1>6. UNCHANGED <<host, meta, stamp, floor>>  BY DEF StartCheck
  <1>7. ASSUME NEW s \in Session PROVE Applied(s)'
    BY <1>2, <1>6, Numbers DEF OInv, Applied
  <1>8. ASSUME NEW s \in Session, NEW l \in Check, Running(l)'
        PROVE  OnTime(l, s)'
    <2>1. CASE l = k
      <3>1. NoAnswer[s] \notin Versions  BY HostAssumption DEF NoAnswer, Versions
      <3>2. floor[s] <= host[s]  BY DEF OInv, Applied
      <3> QED  BY <1>2, <1>3, <1>5, <1>6, <2>1, <3>1, <3>2, Numbers DEF OnTime
    <2>2. CASE l # k
      <3>1. check'[l] = check[l] /\ OnTime(l, s)  BY <1>5, <1>8, <2>2 DEF OInv, Running
      <3> QED  BY <1>2, <1>6, <3>1, Numbers DEF OnTime
    <2> QED  BY <2>1, <2>2
  <1>9. ASSUME NEW s \in Session, NEW l \in Check, NEW m \in Check, Running(l)', Running(m)'
        PROVE  InTheirOrder(l, m, s)'
    <2>1. CASE l # k /\ m # k
      BY <1>5, <1>9, <2>1 DEF OInv, Running, InTheirOrder
    <2>2. CASE l = k /\ m = k  BY <1>3, <1>5, <2>2, Numbers, <1>6 DEF InTheirOrder
    <2>3. CASE l # k /\ m = k
      <3>1. OnTime(l, s) /\ check'[l] = check[l]  BY <1>5, <1>9, <2>3 DEF OInv, Running
      <3> QED  BY <1>3, <1>5, <2>3, <3>1 DEF OnTime, InTheirOrder
    <2>4. CASE l = k /\ m # k
      <3>1. OnTime(m, s) /\ check'[m] = check[m]  BY <1>5, <1>9, <2>4 DEF OInv, Running
      <3>2. now <= check[m].at => check[m].at = clock
        BY <1>2, <3>1, Numbers DEF OnTime
      <3> QED  BY <1>3, <1>5, <2>4, <3>1, <3>2, Numbers DEF OnTime, InTheirOrder
    <2> QED  BY <2>1, <2>2, <2>3, <2>4
  <1> QED  BY <1>7, <1>8, <1>9 DEF OInv

LEMMA PushOrder == ASSUME TInv, OInv, Push
                   PROVE  OInv'
  <1>1. PICK u \in Session : host' = [host EXCEPT ![u] = host[u] + 1] /\ clock' = clock + 1
    BY DEF Push
  <1>2. UNCHANGED <<meta, stamp, floor, check>>  BY DEF Push
  <1>3. \A s \in Session : host'[s] \in {host[s], host[s] + 1}
    BY <1>1 DEF TInv, HostRestOK
  <1>4. ASSUME NEW s \in Session PROVE Applied(s)'
    BY <1>1, <1>2, <1>3, Numbers DEF OInv, Applied
  <1>5. ASSUME NEW s \in Session, NEW k \in Check, Running(k)'
        PROVE  OnTime(k, s)'
    <2>1. OnTime(k, s)  BY <1>2, <1>5 DEF OInv, Running
    <2> QED  BY <1>1, <1>2, <1>3, <2>1, Numbers DEF OnTime
  <1>6. ASSUME NEW s \in Session, NEW k \in Check, NEW l \in Check, Running(k)', Running(l)'
        PROVE  InTheirOrder(k, l, s)'
    BY <1>2, <1>6 DEF OInv, Running, InTheirOrder
  <1> QED  BY <1>4, <1>5, <1>6 DEF OInv

LEMMA InvalidateOrder == ASSUME TInv, OInv, NEW p \in Process, InvalidateReviewMetadata(p)
                         PROVE  OInv'
  <1>1. /\ \A s \in Session : meta'[s].seen = 0 /\ stamp'[s] = None /\ floor'[s] = 0
        /\ UNCHANGED <<host, clock, check>>
    BY DEF InvalidateReviewMetadata, NoMeta
  <1>2. ASSUME NEW s \in Session PROVE Applied(s)'
    BY <1>1, Numbers DEF Applied
  <1>3. ASSUME NEW s \in Session, NEW k \in Check, Running(k)'
        PROVE  OnTime(k, s)'
    <2>1. OnTime(k, s)  BY <1>1, <1>3 DEF OInv, Running
    <2> QED  BY <1>1, <2>1 DEF OnTime
  <1>4. ASSUME NEW s \in Session, NEW k \in Check, NEW l \in Check, Running(k)', Running(l)'
        PROVE  InTheirOrder(k, l, s)'
    BY <1>1, <1>4 DEF OInv, Running, InTheirOrder
  <1> QED  BY <1>2, <1>3, <1>4 DEF OInv

(* An accepted check began no earlier than what was applied before it, and *)
(* brings what the host had after it began.                                *)
LEMMA ApplyOrder ==
  ASSUME TInv, OInv, NEW k \in Check, Apply(k)
  PROVE  OInv'
  <1>1. check[k].pc = "apply" /\ Running(k)  BY DEF Apply, Running
  <1>2. UNCHANGED <<host, clock>>  BY DEF Apply
  <1>3. \A l \in Check : Running(l)' => l # k /\ Running(l) /\ check'[l] = check[l]
    BY NoCheckType DEF Apply, CheckIs, TInv, Running
  <1>4. ASSUME NEW s \in Session, s \notin Succeeded(k)
        PROVE  stamp'[s] = stamp[s] /\ floor'[s] = floor[s] /\ meta'[s].seen = meta[s].seen
    BY <1>4, ApplyEffect DEF Apply
  <1>5. ASSUME NEW s \in Session, s \in Succeeded(k)
        PROVE  /\ stamp'[s] = check[k].at /\ floor'[s] = check[k].began[s]
               /\ meta'[s].seen = check[k].answer[s] /\ check[k].began[s] <= check[k].answer[s]
               /\ check[k].answer[s] \in Nat
    <2>1. check[k].answer[s] \in Versions  BY <1>1, <1>5, SucceededAnswer
    <2>2. OnTime(k, s) /\ Applied(s)  BY <1>1 DEF OInv
    <2>3. meta'[s].seen = check[k].answer[s]  BY <1>5, <2>1, ApplyEffect, ObservedParts
    <2>4. stamp[s] # None => stamp[s] <= check[k].at
      BY <1>5 DEF Succeeded, Accepted, InOrder
    <2>5. floor[s] <= check[k].began[s]
      BY <2>2, <2>4, Numbers DEF OnTime, Applied
    <2>6. floor'[s] = IF check[k].began[s] > floor[s] THEN check[k].began[s] ELSE floor[s]
      BY <1>5 DEF Apply
    <2>7. floor'[s] = check[k].began[s]  BY <2>5, <2>6, Numbers
    <2>8. stamp'[s] = check[k].at  BY <1>5 DEF Apply
    <2>9. check[k].answer[s] \in Nat  BY <2>1 DEF Versions
    <2> QED  BY <2>1, <2>2, <2>3, <2>7, <2>8, <2>9 DEF OnTime
  <1>6. ASSUME NEW s \in Session PROVE Applied(s)'
    <2>1. OnTime(k, s) /\ Applied(s)  BY <1>1 DEF OInv
    <2>2. CASE s \notin Succeeded(k)  BY <1>2, <1>4, <2>1, <2>2 DEF Applied
    <2>3. CASE s \in Succeeded(k)
      <3>1. check[k].at # None  BY Numbers, HostAssumption
      <3> QED  BY <1>2, <1>5, <2>1, <2>3, <3>1, Numbers DEF Applied, OnTime
    <2> QED  BY <2>2, <2>3
  <1>7. ASSUME NEW s \in Session, NEW l \in Check, Running(l)'
        PROVE  OnTime(l, s)'
    <2>1. Running(l) /\ check'[l] = check[l]  BY <1>3, <1>7
    <2>2. OnTime(l, s) /\ InTheirOrder(k, l, s)  BY <1>1, <2>1 DEF OInv
    <2>3. CASE s \notin Succeeded(k)  BY <1>2, <1>4, <2>1, <2>2, <2>3 DEF OnTime
    <2>4. CASE s \in Succeeded(k)  BY <1>2, <1>5, <2>1, <2>2, <2>4 DEF OnTime, InTheirOrder
    <2> QED  BY <2>3, <2>4
  <1>8. ASSUME NEW s \in Session, NEW l \in Check, NEW m \in Check, Running(l)', Running(m)'
        PROVE  InTheirOrder(l, m, s)'
    BY <1>3, <1>8 DEF OInv, InTheirOrder
  <1> QED  BY <1>6, <1>7, <1>8 DEF OInv

LEMMA OrderStep ==
  ASSUME TInv, OInv, [HostNext]_hostVars
  PROVE  OInv'
  <1>1. ASSUME NEW k \in Check,
               \/ \E p \in Process : StartCheck(k, p)
               \/ \E s \in Session : Ask(k, s)
               \/ ProviderSnapshot(k) \/ Fenced(k) \/ Apply(k)
        PROVE  OInv'
    BY <1>1, StartOrder, ReadingOrder, ApplyOrder
  <1>2. ASSUME NEW p \in Process,
               \/ Switch(p) \/ Reload(p) \/ SaveConfig(p)
               \/ InvalidateReviewMetadata(p) \/ StoreFails(p) \/ Crash(p)
        PROVE  OInv'
    BY <1>2, ProcessOrder, InvalidateOrder
  <1>3. CASE Push  BY <1>3, PushOrder
  <1>4. CASE UNCHANGED hostVars
    BY <1>4 DEF hostVars, OInv, Applied, Running, OnTime, InTheirOrder
  <1> QED  BY <1>1, <1>2, <1>3, <1>4 DEF HostNext

(* A slower check that started earlier never puts back what a later one    *)
(* has shown (accept_pr_check), in one process or across processes.        *)
THEOREM MetadataNeverGoesBack == HostSpec => []NoOlderThanItsCheck
  <1>1. OInv /\ TInv => NoOlderThanItsCheck
    BY Numbers DEF OInv, Applied, NoOlderThanItsCheck
  <1>2. TInv /\ OInv /\ [HostNext]_hostVars => OInv'  BY OrderStep
  <1> QED  BY <1>1, <1>2, InitOrder, TypeInvariance, PTL DEF HostSpec
-----------------------------------------------------------------------------
(* The parts side by side.                                                 *)

(* The part a behaviour is of keeps its invariant: the others stand still. *)
ServicesInv == /\ part = "config" => IInv
               /\ part = "host" => TInv
               /\ part = "view" => BoardInv /\ FeedInv
               /\ part \in {"marks", "notes"} => MarksInv

LEMMA ServicesInvInit == ServicesInit => ServicesInv
BY InitOK, InitType, BoardInvInit, FeedInvInit, MarksInit DEF ServicesInit, ServicesInv

LEMMA ServicesInvNext == ServicesInv /\ [ServicesNext]_servicesVars => ServicesInv'
<1> SUFFICES ASSUME ServicesInv, [ServicesNext]_servicesVars PROVE ServicesInv'
  OBVIOUS
<1>0. /\ part' = part
      /\ ServicesNext \/ UNCHANGED <<configVars, hostVars, refreshVars, reviewVars>>
  BY DEF ServicesNext, servicesVars
<1>1. ASSUME part = "config" PROVE IInv'
  <2>1. [ConfigNext]_configVars
    BY <1>0, <1>1 DEF ServicesNext
  <2>2. CASE ConfigNext
    BY <1>1, <2>2, Inductive DEF ServicesInv
  <2>3. CASE UNCHANGED configVars
    BY <1>1, <2>3, StutterOK DEF ServicesInv
  <2> QED  BY <2>1, <2>2, <2>3
<1>2. ASSUME part = "host" PROVE TInv'
  <2>1. [HostNext]_hostVars
    BY <1>0, <1>2 DEF ServicesNext
  <2> QED  BY <1>2, <2>1, TypeStep DEF ServicesInv
<1>3. ASSUME part = "view" PROVE BoardInv' /\ FeedInv'
  <2>1. [RefreshNext]_refreshVars
    BY <1>0, <1>3 DEF ServicesNext
  <2> QED  BY <1>3, <2>1, BoardStep, FeedStep DEF ServicesInv
<1>4. ASSUME part \in {"marks", "notes"} PROVE MarksInv'
  <2>1. [FilesNext]_reviewVars
    BY <1>0, <1>4 DEF ServicesNext
  <2> QED  BY <1>4, <2>1, MarksNext DEF ServicesInv
<1> QED  BY <1>0, <1>1, <1>2, <1>3, <1>4 DEF ServicesInv

(* What the run of the services checks of the types holds of every part    *)
(* for all values of the constants.                                        *)
THEOREM ServicesTypeCorrect == ServicesSpec => []ServicesTypeOK
<1>1. ServicesInv => ServicesTypeOK
  <2>1. MarksInv => ReviewTypeOK
    BY DEF MarksInv, FilesTyped, ReviewTypeOK, Statuses
  <2>2. IInv => ConfigTypeOK
    BY DEF IInv
  <2> QED  BY <2>1, <2>2, TInvType, RefreshInvType DEF ServicesInv, ServicesTypeOK
<1> QED  BY <1>1, ServicesInvInit, ServicesInvNext, PTL DEF ServicesSpec
=============================================================================
