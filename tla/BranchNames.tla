----------------------------- MODULE BranchNames -----------------------------
(***************************************************************************)
(* reconcile_session_branches (api.rs, branch_reconcile.rs): every sweep   *)
(* of the code host begins with a pass over a project's sessions that      *)
(* adopts the branches which agents and users renamed in the worktrees.  A *)
(* pass reads the records once, lists the worktrees, asks git about the    *)
(* stored names one by one, and writes what it decided in one mutation;    *)
(* meanwhile the renaming goes on, and other instances make passes too.    *)
(***************************************************************************)
EXTENDS Naturals

CONSTANTS Tree,    \* sessions, each with its worktree
          Name,    \* branch names
          Trunk,   \* the project's main branch
          Poller,  \* instances of the program
          MaxGit   \* what users do, and git commands that fail

ASSUME NamesAssumption == /\ Trunk \in Name /\ "HEAD" \notin Name /\ MaxGit \in Nat
                          /\ Tree \cap {"read", "list", "refs"} = {}

VARIABLES named,     \* state.json: a session's branch
          head,      \* what a worktree has checked out; "HEAD" if detached
          local,     \* refs/heads
          published, \* refs/remotes/origin
          gitOps,
          pass       \* per instance: its pass, and what that has seen

gitRefs == <<head, local, published>>
nameVars == <<named, gitRefs, gitOps, pass>>

Unlisted == [t \in Tree |-> "HEAD"]
NoPass == [pc |-> "read", seen |-> Unlisted, live |-> Unlisted, todo |-> {}, adopt |-> {}]

(* Sessions as created: each on its own branch, published or not.          *)
NamesInit == /\ named \in [Tree -> Name \ {Trunk}] /\ head = named
             /\ \A t, u \in Tree : named[t] = named[u] => t = u
             /\ local = {Trunk} \cup {named[t] : t \in Tree}
             /\ published \in {{Trunk}, local}
             /\ gitOps = 0
             /\ pass = [p \in Poller |-> NoPass]
-----------------------------------------------------------------------------
AtStep(p, pc) == pass[p].pc = pc
PassIs(p, r) == pass' = [pass EXCEPT ![p] = r]

ReadRecords(p) == /\ AtStep(p, "read")
                  /\ PassIs(p, [NoPass EXCEPT !.pc = "list", !.seen = named])
                  /\ UNCHANGED <<named, gitRefs, gitOps>>

(* decide_branch_reconcile but for the refs: another branch is checked out *)
(* which is not main's, nor that of another session of the snapshot.       *)
Candidate(p, t, live) == /\ live[t] \notin {pass[p].seen[t], "HEAD", Trunk}
                         /\ \A u \in Tree \ {t} : pass[p].seen[u] # live[t]

ListWorktrees(p) ==
  /\ AtStep(p, "list")
  /\ PassIs(p, [pass[p] EXCEPT !.pc = "refs", !.live = head,
                               !.todo = {t \in Tree : Candidate(p, t, head)}])
  /\ UNCHANGED <<named, gitRefs, gitOps>>

(* Wrong on purpose: a ref of the new name keeps it from being adopted.    *)
NewName(p, t) == pass[p].live[t]

(* The name whose refs keep a session as it is.                            *)
OldName(p, t) == pass[p].seen[t]

KeptAsIs(p, t) == [pass[p] EXCEPT !.pc = "refs", !.todo = @ \ {t}]

(* ref_exists_cli, for the local ref and then for origin's: a ref that is  *)
(* there settles it.                                                       *)
LocalRef(p, t) ==
  /\ AtStep(p, "refs") /\ t \in pass[p].todo
  /\ PassIs(p, IF OldName(p, t) \in local THEN KeptAsIs(p, t)
               ELSE [pass[p] EXCEPT !.pc = t])
  /\ UNCHANGED <<named, gitRefs, gitOps>>

RemoteRef(p, t) ==
  /\ AtStep(p, t)
  /\ PassIs(p, IF OldName(p, t) \in published THEN KeptAsIs(p, t)
               ELSE [KeptAsIs(p, t) EXCEPT !.adopt = @ \cup {t}])
  /\ UNCHANGED <<named, gitRefs, gitOps>>

(* Each name is adopted only over the one the decision was based on.       *)
AdoptNames(p) ==
  /\ AtStep(p, "refs") /\ pass[p].todo = {}
  /\ named' = [t \in Tree |-> IF t \in pass[p].adopt /\ named[t] = pass[p].seen[t]
                              THEN pass[p].live[t] ELSE named[t]]
  /\ PassIs(p, NoPass)
  /\ UNCHANGED <<gitRefs, gitOps>>

PassStep(p) == \/ ReadRecords(p) \/ ListWorktrees(p) \/ AdoptNames(p)
               \/ \E t \in Tree : LocalRef(p, t) \/ RemoteRef(p, t)
-----------------------------------------------------------------------------
GitOp == gitOps < MaxGit /\ gitOps' = gitOps + 1

(* No list ends the pass; a ref that cannot be asked for counts as there.  *)
ListOrRefFails(p) ==
  /\ GitOp
  /\ \/ AtStep(p, "list") /\ PassIs(p, NoPass)
     \/ \E t \in pass[p].todo : /\ AtStep(p, "refs") \/ AtStep(p, t)
                                /\ PassIs(p, KeptAsIs(p, t))
  /\ UNCHANGED <<named, gitRefs>>

(* In a worktree: git branch -m, a switch to a branch nobody has checked   *)
(* out, old or new, or to a commit.                                        *)
RenameBranch(t, b) == /\ head[t] \in local \ {Trunk} /\ b \notin local
                      /\ local' = (local \ {head[t]}) \cup {b}
                      /\ head' = [head EXCEPT ![t] = b]
                      /\ UNCHANGED published

SwitchTo(t, b) == /\ \A u \in Tree : head[u] # b
                  /\ local' = local \cup ({b} \ {"HEAD"})
                  /\ head' = [head EXCEPT ![t] = b]
                  /\ UNCHANGED published

(* Anywhere: a branch is deleted, pushed, or deleted at the remote.        *)
RefChanges(b) == /\ UNCHANGED head
                 /\ \/ /\ b \in local \ {Trunk} /\ \A t \in Tree : head[t] # b
                       /\ local' = local \ {b} /\ UNCHANGED published
                    \/ /\ b \in local \cup published
                       /\ published' = (published \ {b}) \cup ({b} \ published)
                       /\ UNCHANGED local

GitUsed == /\ GitOp
           /\ \/ \E t \in Tree, b \in Name : RenameBranch(t, b)
              \/ \E t \in Tree, b \in Name \cup {"HEAD"} : SwitchTo(t, b)
              \/ \E b \in Name : RefChanges(b)
           /\ UNCHANGED <<named, pass>>

NamesNext == \/ \E p \in Poller : PassStep(p) \/ ListOrRefFails(p)
             \/ GitUsed

(* The poll loop makes pass after pass.                                    *)
NamesFairness == \A p \in Poller : WF_nameVars(PassStep(p))

NamesSpec == NamesInit /\ [][NamesNext]_nameVars /\ NamesFairness
-----------------------------------------------------------------------------
Heads == [Tree -> Name \cup {"HEAD"}]

NamesTypeOK ==
  /\ named \in [Tree -> Name] /\ head \in Heads
  /\ local \subseteq Name /\ published \subseteq Name /\ gitOps \in 0..MaxGit
  /\ pass \in [Poller -> [pc : {"read", "list", "refs"} \cup Tree, seen : Heads, live : Heads,
                         todo : SUBSET Tree, adopt : SUBSET Tree]]

(* A session whose branch is gone, here and at the remote, and whose       *)
(* worktree is on another one that is its to take.                         *)
Renamed(t) == /\ head[t] \notin {named[t], Trunk, "HEAD"}
              /\ named[t] \notin local \cup published
              /\ \A u \in Tree \ {t} : named[u] # head[t]

(* Once the renaming is over, each session comes to have the name its      *)
(* branch has, whatever passes were under way, and none is taken back.     *)
NamesFollow == <>[](\A t \in Tree : ~Renamed(t))
=============================================================================
