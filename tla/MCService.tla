----------------------------- MODULE MCService -----------------------------
(* An instance of Service: a goroutine serving a start beside the signal   *)
(* goroutine, and the process of the init script.                          *)
EXTENDS Service

CONSTANTS h1, l1, p1, p2

MCHandlers == {h1, Signal, Sweeper}
MCLoops == {l1}
MCPids == {p1, p2}
MCModes == {"kill"}
MCRequests == {"start"}
=============================================================================
