------------------------------ MODULE CodeHost ------------------------------
(***************************************************************************)
(* Pull-request metadata and the code-host provider (api.rs): checks of    *)
(* the host, started by the poll loop, by `refresh-pr` and by frontends;   *)
(* switches of the provider, and hot reloads of a switch made elsewhere,   *)
(* in processes that share config.toml and state.json.  Inside a process   *)
(* review_provider_lock and the provider epoch fence the checks; between   *)
(* processes only the stamp stored with the metadata does.                 *)
(*                                                                         *)
(* What a host knows of a branch is a version: 0 while it has no PR, one   *)
(* more with every push.  The epoch is only compared with the value a      *)
(* check took, so a check keeps whether it is still current.  A mutation   *)
(* of state.json is one step (StateStore says why).                        *)
(***************************************************************************)
EXTENDS Naturals

CONSTANTS Process, Check, Session, Provider,
          None,
          Failed,       \* the answer of a query that failed
          MaxVersion,   \* pushes to a branch
          MaxClock,     \* the last instant at which a check starts or
                        \* somebody pushes
          Faults        \* "crash"; "store": a write of state.json fails

ASSUME HostAssumption == /\ None \notin Process \cup Check \cup Provider \cup Nat
                         /\ Failed \notin Nat \cup {None} /\ "switch" \notin Check \cup {None}
                         /\ MaxVersion \in Nat /\ MaxClock \in Nat

VARIABLES file,    \* code_host_provider in config.toml
          mem,     \* per process: the provider in its config store
          fence,   \* per process: who holds review_provider_lock
          host,    \* external: the version the code host has of a branch
          clock,   \* the wall clock, read when a check starts
          meta,    \* state.json: the review metadata of a session
          stamp,   \* state.json: pr_checked_at, or None
          torn,    \* ghost: a switch or a reload was cut short and not repeated
          floor,   \* ghost: the newest version the host had when a check
                   \* began that has been applied since
          check    \* per check: where it stands and what it has read

hostVars == <<file, mem, fence, host, clock, meta, stamp, torn, floor, check>>

NoMeta == [by |-> None, seen |-> 0, approval |-> None, stale |-> FALSE]
NoAnswer == [s \in Session |-> None]
Unseen == [s \in Session |-> 0]
NoCheck == [pc |-> "idle", proc |-> None, at |-> 0, began |-> Unseen, by |-> None,
            current |-> FALSE, answer |-> NoAnswer, approved |-> {}]

HostInit ==
  /\ file \in Provider
  /\ mem = [p \in Process |-> file]
  /\ fence = [p \in Process |-> None]
  /\ host \in [Session -> (0..1) \cap (0..MaxVersion)] /\ clock = 0   \* with a PR or without
  /\ meta = [s \in Session |-> NoMeta] /\ stamp = [s \in Session |-> None]
  /\ torn = FALSE /\ floor = [s \in Session |-> 0]
  /\ check = [k \in Check |-> NoCheck]

CheckIs(k, r) == check' = [check EXCEPT ![k] = r]
Locked(p, t) == fence' = [fence EXCEPT ![p] = t]
-----------------------------------------------------------------------------
(* fetch_pr_status stamps the check before anything else, and takes the    *)
(* provider and the epoch under the lock.                                  *)
StartCheck(k, p) ==
  /\ check[k].pc = "idle"
  /\ \E now \in {clock, clock + 1} \cap 0..MaxClock :
       /\ clock' = now
       /\ CheckIs(k, [NoCheck EXCEPT !.pc = "snapshot", !.proc = p, !.at = now, !.began = host])
  /\ UNCHANGED <<file, mem, fence, host, meta, stamp, torn, floor>>

ProviderSnapshot(k) ==
  LET p == check[k].proc
  IN /\ check[k].pc = "snapshot" /\ fence[p] = None
     /\ CheckIs(k, [check[k] EXCEPT !.pc = "ask", !.by = mem[p], !.current = TRUE])
     /\ UNCHANGED <<file, mem, fence, host, clock, meta, stamp, torn, floor>>

(* One query per session, each whenever it gets its turn: the PR as the    *)
(* host has it then, with or without an approval summary of that head, or  *)
(* a failure (the CLI missing is one for every session).                   *)
Ask(k, s) ==
  /\ check[k].pc = "ask" /\ check[k].answer[s] = None
  /\ \E a \in {host[s], Failed}, approved \in BOOLEAN :
       /\ approved => a \notin {0, Failed}
       /\ CheckIs(k, [check[k] EXCEPT !.answer[s] = a,
                        !.approved = IF approved THEN @ \cup {s} ELSE @])
  /\ UNCHANGED <<file, mem, fence, host, clock, meta, stamp, torn, floor>>

(* apply_pr_results_at_epoch, under the lock: refused after a switch, and  *)
(* after a switch there and back.                                          *)
NeverFenced(k) == TRUE
IsCurrent(k) == mem[check[k].proc] = check[k].by /\ check[k].current

Fenced(k) ==
  LET p == check[k].proc
  IN /\ check[k].pc = "ask" /\ \A s \in Session : check[k].answer[s] # None
     /\ fence[p] = None
     /\ IF IsCurrent(k) THEN Locked(p, k) /\ CheckIs(k, [check[k] EXCEPT !.pc = "apply"])
                        ELSE UNCHANGED fence /\ CheckIs(k, NoCheck)
     /\ UNCHANGED <<file, mem, host, clock, meta, stamp, torn, floor>>

(* pr_check_is_current: no check that started later has been applied.      *)
AnyOrder(k, s) == TRUE
InOrder(k, s) == stamp[s] = None \/ stamp[s] <= check[k].at

Accepted(k) == {s \in Session : InOrder(k, s)}
Succeeded(k) == {s \in Accepted(k) : check[k].answer[s] # Failed}

(* apply_approval_observation: the new summary, or the stored one if it is *)
(* of the same head, which is then stale.                                  *)
ApprovalOfAnyHead(k, s) ==
  IF s \in check[k].approved THEN [approval |-> check[k].answer[s], stale |-> FALSE]
  ELSE [approval |-> meta[s].approval, stale |-> meta[s].approval # None]

Approval(k, s) ==
  LET head == check[k].answer[s] IN
  IF s \in check[k].approved THEN [approval |-> head, stale |-> FALSE]
  ELSE IF meta[s].by = check[k].by /\ meta[s].approval = head
       THEN [approval |-> head, stale |-> TRUE]
       ELSE [approval |-> None, stale |-> FALSE]

Observed(k, s) ==
  IF check[k].answer[s] = 0 THEN NoMeta
  ELSE [by |-> check[k].by, seen |-> check[k].answer[s],
        approval |-> Approval(k, s).approval, stale |-> Approval(k, s).stale]

Apply(k) ==
  LET p == check[k].proc
  IN /\ check[k].pc = "apply"
     /\ meta' = [s \in Session |->
                   IF s \notin Accepted(k) THEN meta[s]
                   ELSE IF s \in Succeeded(k) THEN Observed(k, s)
                   ELSE [meta[s] EXCEPT !.stale = meta[s].approval # None]]
     /\ stamp' = [s \in Session |-> IF s \in Succeeded(k) THEN check[k].at ELSE stamp[s]]
     /\ floor' = [s \in Session |->
                    IF s \in Succeeded(k) /\ check[k].began[s] > floor[s]
                    THEN check[k].began[s] ELSE floor[s]]
     /\ Locked(p, None) /\ CheckIs(k, NoCheck)
     /\ UNCHANGED <<file, mem, host, clock, torn>>
-----------------------------------------------------------------------------
(* update_code_host_config and reload_config: the config is committed or   *)
(* re-read, and a change of provider bumps the epoch and, still under the  *)
(* lock, empties the metadata of every session.                            *)
Adopt(p, h) == /\ fence[p] = None
               /\ mem' = [mem EXCEPT ![p] = h]
               /\ IF mem[p] = h THEN UNCHANGED <<fence, check>>
                  ELSE /\ Locked(p, "switch")
                       /\ check' = [k \in Check |-> IF check[k].proc = p
                                                    THEN [check[k] EXCEPT !.current = FALSE]
                                                    ELSE check[k]]
               /\ UNCHANGED <<host, clock, meta, stamp, torn, floor>>

Switch(p) == \E h \in Provider : h # mem[p] /\ Adopt(p, h) /\ file' = h
Reload(p) == file # mem[p] /\ Adopt(p, file) /\ UNCHANGED file

(* Any other setting saved from memory writes the provider it holds.       *)
SaveConfig(p) == /\ file # mem[p]
                 /\ file' = mem[p]
                 /\ UNCHANGED <<mem, fence, host, clock, meta, stamp, torn, floor, check>>

InvalidateReviewMetadata(p) ==
  /\ fence[p] = "switch"
  /\ Locked(p, None)
  /\ meta' = [s \in Session |-> NoMeta] /\ stamp' = [s \in Session |-> None]
  /\ floor' = [s \in Session |-> 0] /\ torn' = FALSE
  /\ UNCHANGED <<file, mem, host, clock, check>>
-----------------------------------------------------------------------------
(* A push; it is not at the very instant at which a check started.         *)
Push == \E s \in Session :
          /\ host[s] < MaxVersion /\ clock < MaxClock
          /\ host' = [host EXCEPT ![s] = @ + 1] /\ clock' = clock + 1
          /\ UNCHANGED <<file, mem, fence, meta, stamp, torn, floor, check>>

(* A write of state.json fails, or the process ends and starts again; its  *)
(* config is then the file's.                                              *)
StoreFails(p) ==
  /\ "store" \in Faults /\ fence[p] # None
  /\ check' = [k \in Check |-> IF fence[p] = k THEN NoCheck ELSE check[k]]
  /\ torn' = (torn \/ fence[p] = "switch")
  /\ Locked(p, None)
  /\ UNCHANGED <<file, mem, host, clock, meta, stamp, floor>>

Crash(p) == /\ "crash" \in Faults
            /\ torn' = (torn \/ fence[p] = "switch" \/ mem[p] # file)
            /\ mem' = [mem EXCEPT ![p] = file]
            /\ Locked(p, None)
            /\ check' = [k \in Check |-> IF check[k].proc = p THEN NoCheck ELSE check[k]]
            /\ UNCHANGED <<file, host, clock, meta, stamp, floor>>

HostNext == \/ \E k \in Check : \/ \E p \in Process : StartCheck(k, p)
                                \/ \E s \in Session : Ask(k, s)
                                \/ ProviderSnapshot(k) \/ Fenced(k) \/ Apply(k)
            \/ \E p \in Process : \/ Switch(p) \/ Reload(p) \/ SaveConfig(p)
                                  \/ InvalidateReviewMetadata(p)
                                  \/ StoreFails(p) \/ Crash(p)
            \/ Push

HostSpec == HostInit /\ [][HostNext]_hostVars
-----------------------------------------------------------------------------
HostTypeOK ==
  /\ file \in Provider /\ mem \in [Process -> Provider]
  /\ fence \in [Process -> Check \cup {None, "switch"}]
  /\ host \in [Session -> 0..MaxVersion] /\ clock \in 0..MaxClock
  /\ meta \in [Session -> [by : Provider \cup {None}, seen : 0..MaxVersion,
                           approval : 0..MaxVersion \cup {None}, stale : BOOLEAN]]
  /\ stamp \in [Session -> 0..MaxClock \cup {None}] /\ torn \in BOOLEAN
  /\ floor \in [Session -> 0..MaxVersion]
  /\ check \in [Check -> [pc : {"idle", "snapshot", "ask", "apply"},
                          proc : Process \cup {None}, at : 0..MaxClock,
                          began : [Session -> 0..MaxVersion],
                          by : Provider \cup {None}, current : BOOLEAN,
                          answer : [Session -> 0..MaxVersion \cup {None, Failed}],
                          approved : SUBSET Session]]

(* Metadata of one provider is never left for another to interpret: it is  *)
(* the configured provider's, or some process has still to notice the      *)
(* switch or to finish it, and will empty it; unless a process ended, or   *)
(* could not write, before it did.                                         *)
MetadataOfProvider ==
  \A s \in Session : meta[s].by \in {None, file} \/ torn
                     \/ \E p \in Process : mem[p] # file \/ fence[p] = "switch"

(* However checks overlap, in one process or in several, the metadata is   *)
(* at least as fresh as the host was when any applied check began.         *)
NoOlderThanItsCheck == \A s \in Session : meta[s].seen >= floor[s]

(* The approvals stored are of the head stored with them.                  *)
ApprovalOfThisHead == \A s \in Session : meta[s].approval \in {None, meta[s].seen}
=============================================================================
