------------------------------ MODULE AutoPull ------------------------------
(***************************************************************************)
(* The project pull loop (git/auto_pull.rs, spawn_project_pull_loop of     *)
(* api.rs) on one repository: fetch, compare main with origin/main, look   *)
(* whether main is checked out and clean, and then move the branch or say  *)
(* why not.  Every git command is a step of its own; several instances of  *)
(* the program pull the same repository while its user works in it.        *)
(*                                                                         *)
(* The history of main at the remote is a line; a local main is how far up *)
(* that line it is, and whether it has commits of its own.                 *)
(***************************************************************************)
EXTENDS Naturals

CONSTANTS Process,
          MaxRemote,   \* commits main gains at the remote
          MaxPullTrouble   \* failed git commands and things the user does

ASSUME PullAssumption == MaxRemote \in Nat /\ MaxPullTrouble \in Nat

VARIABLES main,     \* refs/heads/main
          remote,   \* main at the remote
          fetched,  \* refs/remotes/origin/main
          checkout, \* main is checked out at the repo path, elsewhere, nowhere
          dirty,    \* the checkout at the repo path has uncommitted changes
          pullTrouble,
          pull,     \* per process: where its pull stands, what it has seen
          badge     \* per process: pull_status

repo == <<main, remote, fetched, checkout, dirty>>
pullVars == <<repo, pullTrouble, pull, badge>>

Upstream(n) == [up |-> n, own |-> FALSE]
NoPull == [pc |-> "fetch", local |-> Upstream(0), origin |-> 0, here |-> FALSE,
           action |-> "none", outcome |-> "none"]

PullInit == /\ main = Upstream(0) /\ remote = 0 /\ fetched = 0
            /\ checkout \in {"here", "elsewhere", "nowhere"} /\ dirty \in BOOLEAN
            /\ pullTrouble = 0
            /\ pull = [p \in Process |-> NoPull]
            /\ badge = [p \in Process |-> "none"]
-----------------------------------------------------------------------------
PullAt(p, pc) == pull[p].pc = pc
PullIs(p, r) == pull' = [pull EXCEPT ![p] = r]
Ends(p, outcome) == PullIs(p, [NoPull EXCEPT !.pc = "report", !.outcome = outcome])

Fetch(p) == /\ PullAt(p, "fetch")
            /\ fetched' = remote
            /\ PullIs(p, [pull[p] EXCEPT !.pc = "local"])
            /\ UNCHANGED <<main, remote, checkout, dirty, pullTrouble, badge>>

ReadLocal(p) == /\ PullAt(p, "local")
                /\ PullIs(p, [pull[p] EXCEPT !.pc = "origin", !.local = main])
                /\ UNCHANGED <<repo, pullTrouble, badge>>

ReadOrigin(p) == /\ PullAt(p, "origin")
                 /\ PullIs(p, [pull[p] EXCEPT !.pc = "relation", !.origin = fetched])
                 /\ UNCHANGED <<repo, pullTrouble, badge>>

(* classify_relation, on the two commits read: equal, or an ancestor, or   *)
(* neither; and whether HEAD is main, asked for in any case.               *)
Classify(p) ==
  /\ PullAt(p, "relation")
  /\ LET local == pull[p].local
         behind == ~local.own /\ local.up < pull[p].origin
     IN IF local = Upstream(pull[p].origin) THEN Ends(p, "uptodate")
        ELSE IF ~behind THEN Ends(p, "diverged")
        ELSE PullIs(p, [pull[p] EXCEPT !.pc = "head"])
  /\ UNCHANGED <<repo, pullTrouble, badge>>

HeadIsBranch(p) ==
  /\ PullAt(p, "head")
  /\ PullIs(p, [pull[p] EXCEPT !.pc = "probe", !.here = (checkout = "here")])
  /\ UNCHANGED <<repo, pullTrouble, badge>>

(* decide_pull_action. worktree list names the checkout at the repo path   *)
(* as well.                                                                *)
Decide(p, blocked) ==
  IF pull[p].here
  THEN IF blocked THEN Ends(p, "dirty") ELSE PullIs(p, [pull[p] EXCEPT !.pc = "act", !.action = "merge"])
  ELSE IF blocked THEN Ends(p, "worktree") ELSE PullIs(p, [pull[p] EXCEPT !.pc = "act", !.action = "ref"])

Probe(p) ==
  /\ PullAt(p, "probe")
  /\ Decide(p, IF pull[p].here THEN dirty ELSE checkout # "nowhere")
  /\ UNCHANGED <<repo, pullTrouble, badge>>

(* git update-ref with the commit that was read, whatever main is by now.  *)
UpdateRef(p) ==
  /\ PullAt(p, "act") /\ pull[p].action = "ref"
  /\ main' = Upstream(pull[p].origin)
  /\ Ends(p, "advanced")
  /\ UNCHANGED <<remote, fetched, checkout, dirty, pullTrouble, badge>>

(* Wrong on purpose: nothing is ever merged.                               *)
NeverMergeable == FALSE

(* git merge --ff-only origin/main, in what is checked out by now: git     *)
(* refuses what is no fast-forward, and may refuse over local changes.     *)
Mergeable == ~main.own /\ main.up <= fetched

MergeFfOnly(p) ==
  /\ PullAt(p, "act") /\ pull[p].action = "merge"
  /\ \/ /\ checkout = "here" /\ Mergeable
        /\ main' = Upstream(fetched) /\ Ends(p, "advanced")
     \/ /\ checkout = "here" /\ (~Mergeable \/ dirty)
        /\ UNCHANGED main /\ Ends(p, "softfail")
     \/ /\ checkout # "here"        \* the branch checked out instead
        /\ UNCHANGED main /\ \E o \in {"advanced", "softfail"} : Ends(p, o)
  /\ UNCHANGED <<remote, fetched, checkout, dirty, pullTrouble, badge>>

(* The outcome becomes the project's status; the loop ticks again.         *)
Report(p) == /\ PullAt(p, "report")
             /\ badge' = [badge EXCEPT ![p] = pull[p].outcome]
             /\ PullIs(p, NoPull)
             /\ UNCHANGED <<repo, pullTrouble>>

PullStep(p) == \/ Fetch(p) \/ ReadLocal(p) \/ ReadOrigin(p) \/ Classify(p)
               \/ HeadIsBranch(p) \/ Probe(p) \/ UpdateRef(p) \/ MergeFfOnly(p)
               \/ Report(p)
-----------------------------------------------------------------------------
PullTroubled == pullTrouble < MaxPullTrouble /\ pullTrouble' = pullTrouble + 1

(* A git command fails: no relation is "diverged", an unknown HEAD is not  *)
(* main, and what cannot be probed blocks.                                 *)
GitFails(p) ==
  /\ PullTroubled
  /\ \/ pull[p].pc \in {"fetch", "local", "origin", "act"} /\ Ends(p, "softfail")
     \/ PullAt(p, "relation") /\ Ends(p, "diverged")
     \/ PullAt(p, "head") /\ PullIs(p, [pull[p] EXCEPT !.pc = "probe", !.here = FALSE])
     \/ PullAt(p, "probe") /\ Decide(p, TRUE)
  /\ UNCHANGED <<repo, badge>>

RemoteMoves == /\ remote < MaxRemote /\ remote' = remote + 1
               /\ UNCHANGED <<main, fetched, checkout, dirty, pullTrouble, pull, badge>>

(* The user commits on main, drops the commit, or pushes it; checks main   *)
(* out here, elsewhere, or something else; leaves changes or cleans up.    *)
UserWorks ==
  /\ PullTroubled
  /\ \/ checkout # "nowhere" /\ main' = [main EXCEPT !.own = ~main.own]
        /\ UNCHANGED <<remote, fetched, checkout, dirty>>
     \/ main.own /\ main.up = remote /\ remote < MaxRemote
        /\ main' = Upstream(remote + 1) /\ remote' = remote + 1 /\ fetched' = remote'
        /\ UNCHANGED <<checkout, dirty>>
     \/ checkout' \in {"here", "elsewhere", "nowhere"} \ {checkout}
        /\ UNCHANGED <<main, remote, fetched, dirty>>
     \/ dirty' = ~dirty /\ UNCHANGED <<main, remote, fetched, checkout>>
  /\ UNCHANGED <<pull, badge>>

PullNext == \/ \E p \in Process : PullStep(p) \/ GitFails(p)
            \/ RemoteMoves \/ UserWorks

(* The loop ticks for as long as the program runs.                         *)
PullFairness == \A p \in Process : WF_pullVars(PullStep(p))

PullSpec == PullInit /\ [][PullNext]_pullVars /\ PullFairness
-----------------------------------------------------------------------------
Outcomes == {"dirty", "diverged", "worktree", "uptodate", "advanced", "softfail"}

(* main is never ahead of what was fetched, nor is what a pull has seen.   *)
PullTypeOK ==
  /\ remote \in 0..MaxRemote /\ fetched \in 0..remote
  /\ main \in [up : 0..fetched, own : BOOLEAN]
  /\ checkout \in {"here", "elsewhere", "nowhere"} /\ dirty \in BOOLEAN
  /\ pullTrouble \in 0..MaxPullTrouble
  /\ badge \in [Process -> Outcomes \cup {"none"}]
  /\ pull \in [Process -> [pc : {"fetch", "local", "origin", "relation", "head", "probe",
                                "act", "report"},
                          local : [up : 0..fetched, own : BOOLEAN], origin : 0..fetched,
                          here : BOOLEAN, action : {"none", "ref", "merge"},
                          outcome : Outcomes \cup {"none"}]]
  /\ \A p \in Process : PullAt(p, "act") => pull[p].action # "none"

(* Why main cannot be fast-forwarded, if it cannot.                        *)
Obstacle == IF main.own THEN "diverged"
           ELSE IF main.up = remote THEN "uptodate"
           ELSE IF checkout = "here" /\ dirty THEN "dirty"
           ELSE IF checkout = "elsewhere" THEN "worktree"
           ELSE "nothing"

(* Once the user and the remote rest and git works, main is pulled up or   *)
(* each instance's badge says why not, for good, also when another         *)
(* instance's late update-ref has put main back, or a failed probe had     *)
(* raised a badge.                                                         *)
PullSettles == <>[](\A p \in Process : badge[p] = Obstacle)
=============================================================================
