---------------------------- MODULE SharedState ----------------------------
(***************************************************************************)
(* What StateStore promises the rest of the program: although several      *)
(* processes and several calls of one process mutate state.json, it        *)
(* behaves as one shared value that each mutation updates in a single      *)
(* indivisible step, between the call and its return.  A refused mutation  *)
(* leaves no trace, an acknowledged one is never undone by another call,   *)
(* and a crash can cut a call short but never applies it twice.            *)
(***************************************************************************)
EXTENDS AppStateData

CONSTANTS Task,     \* the callers
          NoJob     \* a caller that asked for nothing

VARIABLES shared,   \* the one value
          phase,    \* per caller: idle, pending or committed
          want      \* per caller: the update it asked for

vars == <<shared, phase, want>>

Init == /\ shared = NewState
        /\ phase = [t \in Task |-> "idle"]
        /\ want = [t \in Task |-> NoJob]

Invoke(t) == /\ phase[t] = "idle"
             /\ phase' = [phase EXCEPT ![t] = "pending"]
             /\ \E u \in Update : want' = [want EXCEPT ![t] = u]
             /\ UNCHANGED shared

Commit(t) == /\ phase[t] = "pending"
             /\ phase' = [phase EXCEPT ![t] = "committed"]
             /\ shared' = Apply(shared, want[t])
             /\ UNCHANGED want

(* Ok(..): the update is in the shared value before the caller hears.      *)
Acknowledge(t) == /\ phase[t] = "committed"
                  /\ phase' = [phase EXCEPT ![t] = "idle"]
                  /\ want' = [want EXCEPT ![t] = NoJob]
                  /\ UNCHANGED shared

(* Err(..): the update was not applied and never will be.                  *)
Refuse(t) == /\ phase[t] = "pending"
             /\ phase' = [phase EXCEPT ![t] = "idle"]
             /\ want' = [want EXCEPT ![t] = NoJob]
             /\ UNCHANGED shared

(* A process dies with the callers T.                                      *)
Crash(T) == /\ phase' = [t \in Task |-> IF t \in T THEN "idle" ELSE phase[t]]
            /\ want' = [t \in Task |-> IF t \in T THEN NoJob ELSE want[t]]
            /\ UNCHANGED shared

InFlight == {t \in Task : phase[t] # "idle"}

Next == \/ \E t \in Task : Invoke(t) \/ Commit(t) \/ Acknowledge(t) \/ Refuse(t)
        \/ \E T \in SUBSET InFlight : Crash(T)

Spec == Init /\ [][Next]_vars
===========================================================================
