------------------------------ MODULE ChangeFeed ------------------------------
(***************************************************************************)
(* What a backend's change feed promises a frontend (BackendChangeFeed of  *)
(* backend/mod.rs): "its generation counter advances whenever the          *)
(* backend's observable state changes".  It may advance without reason, it *)
(* never misses a change; RemotePoller is shown to implement it and        *)
(* ViewRefresh is built on it.                                             *)
(***************************************************************************)
CONSTANT Content

VARIABLES content,  \* what the backend would answer if it were asked
          owed,     \* it has changed since the generation last advanced
          bumped    \* the generation has advanced since the frontend looked

feedVars == <<content, owed, bumped>>

FeedInit == content \in Content /\ owed \in BOOLEAN /\ bumped = FALSE

Change(c) == content' = c /\ owed' = TRUE /\ UNCHANGED bumped
Bump == bumped' = TRUE /\ owed' = FALSE /\ UNCHANGED content
Wake == bumped /\ bumped' = FALSE /\ UNCHANGED <<content, owed>>

FeedNext == (\E c \in Content : Change(c)) \/ Bump \/ Wake

FeedSpec == FeedInit /\ [][FeedNext]_feedVars /\ WF_feedVars(owed /\ Bump)
=============================================================================
