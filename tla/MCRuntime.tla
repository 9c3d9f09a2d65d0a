------------------------------ MODULE MCRuntime ------------------------------
(* Instances of Runtime.  The sets below are given to its constants by the *)
(* configurations: who calls, what can be called, what can be configured.  *)
EXTENDS Runtime, TLC

CONSTANTS h1, h2, l1, p1, p2, p3

OneHandler == {h1}
TwoHandlers == {h1, h2}
OneLoop == {l1}
TwoPids == {p1, p2}
ThreePids == {p1, p2, p3}

AllModes == {"off", "tproxy", "kill"}
KillOnly == {"kill"}
TproxyOnly == {"tproxy"}

AllRequests == {"start", "stop", "pause", "resume", "restart", "reload", "mutate", "cleanup",
                "enable", "disable"}
Racing == {"start", "stop", "mutate"}
Reviving == {"restart", "reload", "disable", "enable"}
StartStop == {"start", "stop"}

(* What happens after operations have overlapped is the business of other  *)
(* runs than the serial one.                                               *)
WhileSerial == serial

(* At most one mishap in a behaviour: a failure, a death or a restart.      *)
OneMishap ==
  budget.faults + budget.deaths + budget.restarts >= MaxFaults + MaxDeaths + MaxRestarts - 1

(* Handlers and pids are interchangeable.                                  *)
Symmetry == Permutations(Pids) \cup Permutations(Handlers)
=============================================================================
