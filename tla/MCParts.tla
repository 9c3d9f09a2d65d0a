------------------------------- MODULE MCParts -------------------------------
(***************************************************************************)
(* The three parts of internal/runtime/runtime.go that Runtime takes in    *)
(* larger steps, each at the grain of its own code: the supervisor, the    *)
(* pidfile and the policy routes.  They share no variable, so a behaviour  *)
(* of the three is any interleaving of a behaviour of each, and it is      *)
(* enough to look at one of them moving while the others rest: "part" says *)
(* which one.                                                              *)
(***************************************************************************)
EXTENDS Supervisor, Pidfile, Routes

CONSTANTS h1, h2, l1, l2, l3, p1, p2

OneHandler == {h1}
TwoHandlers == {h1, h2}
ThreeLoops == {l1, l2, l3}
TwoPids == {p1, p2}
TwoConfigs == {"old", "new"}

VARIABLE part

(* A failed spawn or write does not meet a stranger, which would hold the  *)
(* one pid that the corpse of that sing-box leaves free, nor a crash.      *)
OneTrouble == faults' = 0 \/ (Strangers' = {} /\ crashes' = 0)

PartsInit ==
  /\ SupInit /\ Init /\ RouteInit
  /\ part \in {"supervisor", "pidfile", "routes"}

PartsNext ==
  /\ UNCHANGED part
  /\ \/ part = "supervisor" /\ SupNext /\ UNCHANGED <<vars, routeVars>>
     \/ part = "pidfile" /\ Next /\ OneTrouble /\ UNCHANGED <<supVars, routeVars>>
     \/ part = "routes" /\ RouteNext /\ UNCHANGED <<supVars, vars>>

PartsSpec ==
  /\ PartsInit
  /\ [][PartsNext]_<<part, supVars, vars, routeVars>>
  /\ Fairness
=============================================================================
