----------------------------- MODULE EditedConfig -----------------------------
(***************************************************************************)
(* What editConfig promises to its callers: the configuration is edited    *)
(* as a whole or not at all.  Nothing is said of sections.                 *)
(***************************************************************************)
EXTENDS ConfigEdits

CONSTANT Requests  \* the edits that are asked for

VARIABLES
  store,  \* the configuration
  asked   \* the edit that was asked for last, None before the first

Edit(e) ==
  /\ asked' = e
  /\ store' = IF Accepted(store, e) THEN Mutate(store, e) ELSE store

Init == store \in Configs /\ Valid(store) /\ asked = None

Next == \E e \in Requests : Edit(e)

Spec == Init /\ [][Next]_<<store, asked>>
=============================================================================
