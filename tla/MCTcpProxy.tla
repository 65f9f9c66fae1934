----------------------------- MODULE MCTcpProxy -----------------------------
(* The instance of TcpProxy that TLC checks.                               *)
EXTENDS TcpProxy

\* With one slot every push can find the queue full, also the nil of destroy.
MCDataQueueSize == 1

\* Three blocks in each direction: one in a goroutine's hand, one in the
\* queue, one waiting in front of it.
MCMaxIn == 3
MCMaxOut == 3
=============================================================================
