----------------------------- MODULE MCTunnels -----------------------------
(* The instances of Tunnels that TLC checks.                               *)
EXTENDS Tunnels

\* Two connections of one process, or one of each of two: both may get the same
\* key only if the processes differ.
MCProcs == 1 .. 2
MCConns == 1 .. 2
MCKeys == 1 .. 2

\* Two CONNECTs of one key and a data request, or of two keys.
MCMaxReq == 3
=============================================================================
