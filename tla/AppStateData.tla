--------------------------- MODULE AppStateData ---------------------------
(***************************************************************************)
(* The contents of state.json, cut down to what the store's properties     *)
(* tell apart.  An AppState assigns a value to every field.  A field is    *)
(* client-visible unless it is in Hidden (the stamps client_visible blanks *)
(* before it compares), and one field is the anonymous install id, which   *)
(* is written once and never replaced.                                     *)
(***************************************************************************)
CONSTANTS Field,      \* what state.json records
          Hidden,     \* bookkeeping fields blanked by client_visible
          InstallId,  \* the install-id field
          Value,      \* what a mutation can store in a field
          Unset       \* the default of every field

ASSUME FieldAssumption == /\ InstallId \in Field
                          /\ Hidden \subseteq Field
                          /\ InstallId \notin Hidden
                          /\ Unset \notin Value

AppState == [Field -> Value \cup {Unset}]

(* AppState::new: what is read when the file does not exist.               *)
NewState == [f \in Field |-> Unset]

(* client_visible: the state without its bookkeeping stamps.               *)
ClientVisible(s) == [f \in Field \ Hidden |-> s[f]]

(* Wrong on purpose: set_install_id without its guard.                     *)
ApplyBlindly(s, u) == [s EXCEPT ![u.field] = u.value]

(* A closure handed to mutate stores one value in one field; on the        *)
(* install id it is set_install_id_if_absent, which keeps an existing id.  *)
Update == [field : Field, value : Value]

Apply(s, u) ==
  IF u.field = InstallId /\ s[InstallId] # Unset
  THEN s
  ELSE [s EXCEPT ![u.field] = u.value]
===========================================================================
