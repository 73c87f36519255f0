----------------------------- MODULE RemotePoller -----------------------------
(***************************************************************************)
(* The change feed of a remote backend: the server's generation and its    *)
(* /changes route, and the client's poller (client/src/poller.rs), which   *)
(* waits for the generation, hashes what the server answers, and advances  *)
(* a generation of its own.  Requests fail, the server stores a change     *)
(* before it announces it, restarts and then counts from zero again, and   *)
(* an old server has no /changes.                                          *)
(***************************************************************************)
EXTENDS Naturals

CONSTANTS Forgotten,    \* no generation is remembered
          MaxChanges,
          MaxRestarts,
          PollFaults    \* the requests that may fail: "wait", "hashes"

ASSUME PollerAssumption == /\ MaxChanges \in Nat /\ MaxRestarts \in Nat /\ Forgotten \notin Nat
                           /\ PollFaults \subseteq {"wait", "hashes"}

VARIABLES stored,   \* the server's content: how often it changed
          server,   \* its generation, announcements owed, restarts, /changes
          poller,   \* where it stands, what it remembers
          moved     \* its generation watch moved since the frontend looked

pollerVars == <<stored, server, poller, moved>>

PollerInit ==
  /\ stored = 0 /\ moved = FALSE
  /\ \E push \in BOOLEAN : server = [gen |-> 0, owed |-> 0, restarts |-> 0, push |-> push]
  /\ poller = [pc |-> "wait", gen |-> Forgotten, new |-> FALSE, push |-> TRUE,
               hash |-> Forgotten, connected |-> FALSE]

(* A mutation is stored, and then the generation advances.                 *)
Store == /\ stored < MaxChanges
         /\ stored' = stored + 1
         /\ server' = [server EXCEPT !.owed = @ + 1]
         /\ UNCHANGED <<poller, moved>>

Announce == /\ server.owed > 0
            /\ server' = [server EXCEPT !.owed = @ - 1, !.gen = @ + 1]
            /\ UNCHANGED <<stored, poller, moved>>

Restart == /\ server.restarts < MaxRestarts
           /\ server' = [server EXCEPT !.gen = 0, !.owed = 0, !.restarts = @ + 1]
           /\ UNCHANGED <<stored, poller, moved>>

(* wait_for_change: the server answers with its generation when it is not  *)
(* the one asked about, when it moves, and at the latest after             *)
(* CHANGE_WAIT_SECS; a server without the route says 404.                  *)
WaitForChange ==
  /\ poller.pc = "wait"
  /\ poller' = IF ~poller.push THEN [poller EXCEPT !.pc = "hashes"]
               ELSE IF ~server.push THEN [poller EXCEPT !.pc = "hashes", !.push = FALSE]
               ELSE [poller EXCEPT !.pc = "hashes", !.gen = server.gen,
                                   !.new = poller.gen # server.gen]
  /\ UNCHANGED <<stored, server, moved>>

(* A failed request forgets the generation and degrades the connection.    *)
RequestFails ==
  /\ poller.pc \in PollFaults /\ (poller.pc = "wait" => poller.push)
  /\ poller' = [poller EXCEPT !.pc = "wait", !.gen = Forgotten, !.new = FALSE, !.connected = FALSE]
  /\ UNCHANGED <<stored, server, moved>>

(* poll_hashes, and whether the frontend is woken.                         *)
GenerationMoved == ~poller.connected \/ poller.new
AnythingMoved == GenerationMoved \/ poller.hash # stored

PollHashes ==
  /\ poller.pc = "hashes"
  /\ poller' = [poller EXCEPT !.pc = "wait", !.new = FALSE, !.hash = stored, !.connected = TRUE]
  /\ moved' = (moved \/ AnythingMoved)
  /\ UNCHANGED <<stored, server>>

FrontendLooks == moved /\ moved' = FALSE /\ UNCHANGED <<stored, server, poller>>

PollerNext == \/ Store \/ Announce \/ Restart
              \/ WaitForChange \/ RequestFails \/ PollHashes \/ FrontendLooks

(* Requests that are made again and again do not fail every time.          *)
PollerFairness == SF_pollerVars(WaitForChange) /\ SF_pollerVars(PollHashes)

PollerSpec == PollerInit /\ [][PollerNext]_pollerVars /\ PollerFairness
-----------------------------------------------------------------------------
PollerTypeOK ==
  /\ stored \in 0..MaxChanges /\ moved \in BOOLEAN
  /\ server \in [gen : Nat, owed : Nat, restarts : 0..MaxRestarts, push : BOOLEAN]
  /\ poller \in [pc : {"wait", "hashes"}, gen : Nat \cup {Forgotten}, new : BOOLEAN,
                 push : BOOLEAN, hash : 0..MaxChanges \cup {Forgotten}, connected : BOOLEAN]

(* The poller implements the change feed: the frontend is owed a wake      *)
(* while what was hashed last is not what the server has.  Generations are *)
(* not enough for that: a restarted server may have come back to the one   *)
(* that is remembered, and may never announce what it had stored.          *)
Promise == INSTANCE ChangeFeed WITH
          Content <- 0..MaxChanges, content <- stored,
          owed <- poller.hash # stored, bumped <- moved

PollerIsChangeFeed == Promise!FeedSpec
=============================================================================
