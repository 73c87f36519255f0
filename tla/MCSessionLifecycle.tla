------------------------ MODULE MCSessionLifecycle ------------------------
(***************************************************************************)
(* The workloads SessionLifecycle is checked on, small ones side by side.  *)
(*   Race: two calls in flight on one session.                             *)
(*   Creation: a creation racing a second call on the session it makes.    *)
(*   Serial: one call at a time, two sessions; nothing fails but agents.   *)
(*   Repair: one call at a time, calls dropped and processes killed midway.*)
(***************************************************************************)
EXTENDS SessionLifecycle, TLC

CONSTANTS s1, s2, o1, o2

Race == [sessions |-> {s1}, born |-> {s1},
         kinds |-> AllKinds \ {"create", "remove", "cascade"},
         faults |-> {"exit", "tmux", "abandon"}, alone |-> FALSE]
Creation == [sessions |-> {s1}, born |-> {},
             kinds |-> AllKinds \ {"fresh", "recover", "remove", "reconcile"},
             faults |-> {"exit", "tmux", "store"}, alone |-> FALSE]
Serial == [sessions |-> {s1, s2}, born |-> {s1}, kinds |-> AllKinds,
           faults |-> {"exit"}, alone |-> TRUE]
Repair == [sessions |-> {s1}, born |-> {}, kinds |-> AllKinds,
           faults |-> {"exit", "store", "abandon"}, alone |-> TRUE]

Scenarios == {Race, Creation, Serial, Repair}

(* Hibernation racing an attach.                                           *)
Waking == {[Race EXCEPT !.kinds = {"attach", "hibernate"}, !.faults = {}]}

Symmetric == Permutations(Op)
===========================================================================
