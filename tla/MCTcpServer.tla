---------------------------- MODULE MCTcpServer ----------------------------
(* The instances of TcpServer that TLC checks.                             *)
EXTENDS TcpServer

\* With one slot every send can find its queue full.
MCDataQueueSize == 1

\* Two blocks each way: one in a loop's hand, one in the queue before it.
MCMaxIn == 2
MCMaxBlocks == 2

\* Liveness: a block each way, so that both ends can be at work when one of
\* them dies.
LiveMaxIn == 1
LiveMaxBlocks == 1
=============================================================================
