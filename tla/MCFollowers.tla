----------------------------- MODULE MCFollowers -----------------------------
(***************************************************************************)
(* What has to follow a change made elsewhere: a frontend its backend, a   *)
(* background loop the repositories and the code host.  The parts have no  *)
(* variable in common, and the one a behaviour is of is chosen at its      *)
(* start.                                                                  *)
(*   review: ReviewView, the TUI's review and one other client.            *)
(*   clone: CloneJobs, two requests to two servers, a user making          *)
(*     directories.                                                        *)
(*   poller: RemotePoller, the remote backend's change feed.               *)
(*   refresh: ViewRefresh, the TUI's view over a change feed; where a read *)
(*     fails, one thing changes.                                           *)
(*   pull: AutoPull, two programs pulling one repository.                  *)
(*   names: BranchNames, two programs, two sessions whose branches are     *)
(*     renamed.                                                            *)
(*   base: BaseEdits, one caller, two sweeps.                              *)
(* Each part has the fairness of its own module, for its own behaviours.   *)
(***************************************************************************)
EXTENDS ReviewView, CloneJobs, RemotePoller, ViewRefresh,
        AutoPull, BranchNames, BaseEdits

CONSTANTS f1, v1, v2, Cli, t1, t2, n1, n2, main0

VARIABLE part

frontends == <<viewVars, cloneVars, pollerVars, refreshVars>>
loops == <<pullVars, nameVars, baseVars>>
followVars == <<part, frontends, loops>>

(* The constants that are functions or sets of functions.                  *)
OneFile == [f \in {f1} |-> {v1, v2}]
PinIt == {[f \in {f1} |-> AnyContent]}
NoComment == [x \in {} |-> x]

(* The poller of another part's behaviours rests: it owes nobody a wake.   *)
PollerRests == /\ stored = 0 /\ moved = FALSE
               /\ server = [gen |-> 0, owed |-> 0, restarts |-> 0, push |-> TRUE]
               /\ poller = [pc |-> "wait", gen |-> 0, new |-> FALSE, push |-> TRUE,
                            hash |-> 0, connected |-> TRUE]

FollowInit == /\ part \in {"review", "clone", "poller", "refresh", "pull", "names", "base"}
              /\ ViewInit /\ CloneInit /\ RefreshInit /\ PullInit /\ NamesInit /\ BaseInit
              /\ part # "review" => tree[f1] = v1
              /\ dirty => part = "pull" /\ checkout = "here"
              /\ part # "pull" => checkout = "nowhere"
              /\ part # "names" => named[t1] = n1 /\ named[t2] = n2 /\ published = local
              /\ part # "base" => hinted = main0 /\ hosted = NoBase
              /\ IF part = "poller" THEN PollerInit ELSE PollerRests

On(p, A) == part = p /\ A

FollowNext ==
  /\ UNCHANGED part
  /\ \/ On("review", UNCHANGED <<cloneVars, pollerVars, refreshVars, loops>> /\ ViewNext)
     \/ On("clone", UNCHANGED <<viewVars, pollerVars, refreshVars, loops>> /\ CloneNext)
     \/ On("poller", UNCHANGED <<viewVars, cloneVars, refreshVars, loops>> /\ PollerNext)
     \/ On("refresh", UNCHANGED <<viewVars, cloneVars, pollerVars, loops>> /\ RefreshNext
                     /\ (skipped' = "no" \/ board'.changes + observed' < 2))
     \/ On("pull", UNCHANGED <<frontends, nameVars, baseVars>> /\ PullNext)
     \/ On("names", UNCHANGED <<frontends, pullVars, baseVars>> /\ NamesNext)
     \/ On("base", UNCHANGED <<frontends, pullVars, nameVars>> /\ BaseNext)

(* The fairness of the parts' own specifications.                          *)
FollowFairness ==
  /\ WF_viewVars(On("review", PollTick)) /\ SF_viewVars(On("review", PollRead))
  /\ WF_viewVars(On("review", PollDelivered))
  /\ \A r \in Request : WF_cloneVars(On("clone", Poll(r))) /\ WF_cloneVars(On("clone", TaskStep(r)))
  /\ SF_pollerVars(On("poller", WaitForChange)) /\ SF_pollerVars(On("poller", PollHashes))
  /\ WF_refreshVars(On("refresh", Advance)) /\ SF_refreshVars(On("refresh", FeedWakes))
  /\ WF_refreshVars(On("refresh", \E i \in DOMAIN flying : ReadSnapshot(i) \/ ReadStates(i)))
  /\ WF_refreshVars(On("refresh", \E i \in DOMAIN flying : Fold(i) \/ FoldViewed(i)))
  /\ WF_refreshVars(On("refresh", TakeRevision))
  /\ \A p \in Process : WF_pullVars(On("pull", PullStep(p)))
  /\ \A p \in Poller : WF_nameVars(On("names", PassStep(p)))
  /\ \A e \in Editor : WF_baseVars(On("base", Retargeted(e) \/ RetargetFails(e)))
  /\ \A k \in Sweep : WF_baseVars(On("base", SweepStep(k)))

FollowSpec == FollowInit /\ [][FollowNext]_followVars /\ FollowFairness
-----------------------------------------------------------------------------
FollowTypeOK == /\ part = "review" => ViewTypeOK
                /\ part = "clone" => CloneTypeOK
                /\ part = "poller" => PollerTypeOK
                /\ part = "refresh" => RefreshTypeOK
                /\ part = "pull" => PullTypeOK
                /\ part = "names" => NamesTypeOK
                /\ part = "base" => BaseTypeOK

(* Once the backend stays as it is, the TUI comes to show it for good,     *)
(* unless the last snapshot it asked for could not be had.                 *)
RefreshConverges == part = "refresh" => ViewConverges

(* Once the user, the remote and git rest, each program's badge of a       *)
(* repository says for good what keeps main from origin/main, or that      *)
(* nothing does.                                                           *)
BadgeComesTrue == part = "pull" => PullSettles
=============================================================================
