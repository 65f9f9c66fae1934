---------------------------- MODULE MCTcpClient ----------------------------
(* The instances of TcpClient that TLC checks.                             *)
EXTENDS TcpClient

\* With one slot every send can find its channel full.
MCDataQueueSize == 1

\* Two requests: the second one fresh, or the first one sent again.
MCMaxReq == 2

\* Two blocks: both up, both down, or one each way.  The second one up may find
\* sendQ full when nobody empties it any more.
MCMaxBlocks == 2
MCMaxIn == 2
MCMaxOut == 2
=============================================================================
