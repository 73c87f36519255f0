----------------------------- MODULE MCServices -----------------------------
(***************************************************************************)
(* What several threads, processes or tasks share, one at a time: the      *)
(* parts have no variable in common, and the one a behaviour is of is      *)
(* chosen at its start.                                                    *)
(*   config: ConfigStore, the threads of one process and hand edits.       *)
(*   host: CodeHost, two processes, two checks of the code host.           *)
(*   marks: ReviewFiles, two files whose reviewed marks change, compositions*)
(*     may be partial.                                                     *)
(*   view: ViewRefresh, refreshes that overtake each other while a session *)
(*     is created and another one attached.                                *)
(*   notes: ReviewFiles, a comment on a file that leaves the diff and comes*)
(*     back; calls that rewrite the comments one at a time.                *)
(***************************************************************************)
EXTENDS ConfigStore, CodeHost, ViewRefresh, ReviewFiles, TLC

CONSTANTS f1, f2, v1, v2, w1, k1

VARIABLE part

(* The constants that are functions or sets of functions.                  *)
TwoFiles == f1 :> {v1, v2, Absent} @@ f2 :> {w1}
OneOrTwo == {f1 :> AnyContent @@ f2 :> Unset, f1 :> v1 @@ f2 :> AnyContent}
NoteOn == k1 :> f1
Anchor == k1 :> {v1}

servicesVars == <<part, configVars, hostVars, refreshVars, reviewVars>>

ServicesInit == /\ part \in {"config", "host", "view", "marks", "notes"}
                /\ ConfigInit /\ HostInit /\ RefreshInit /\ ReviewInit
                /\ part # "host" => host = Unseen
                /\ part = "marks" => tree[f1] # Absent
                /\ part \notin {"marks", "notes"} => tree[f1] = v1

Only(ops) == \A c \in Caller : calls'[c].op \in ops \cup {"none"}

ServicesNext ==
  /\ UNCHANGED part
  /\ \/ /\ part = "config" /\ UNCHANGED <<hostVars, refreshVars, reviewVars>>
        /\ ConfigNext
     \/ /\ part = "host" /\ UNCHANGED <<configVars, refreshVars, reviewVars>>
        /\ HostNext
     \/ /\ part = "view" /\ UNCHANGED <<configVars, hostVars, reviewVars>>
        /\ RefreshNext
     \/ /\ part = "marks" /\ UNCHANGED <<configVars, hostVars, refreshVars>>
        /\ FilesNext /\ Only({"open", "set", "toggle"}) /\ UNCHANGED agent /\ tree'[f1] # Absent
     \/ /\ part = "notes" /\ UNCHANGED <<configVars, hostVars, refreshVars>>
        /\ FilesNext /\ Only({"open", "refresh", "apply", "add", "delete"})

ServicesSpec == ServicesInit /\ [][ServicesNext]_servicesVars

Symmetric == Permutations(Process) \cup Permutations(Check) \cup Permutations(Provider)
-----------------------------------------------------------------------------
ServicesTypeOK ==
  /\ part = "config" => ConfigTypeOK
  /\ part = "host" => HostTypeOK
  /\ part = "view" => RefreshTypeOK
  /\ part \in {"marks", "notes"} => ReviewTypeOK
=============================================================================
