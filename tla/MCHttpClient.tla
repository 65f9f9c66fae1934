---------------------------- MODULE MCHttpClient ----------------------------
(* The instances of HttpClient that TLC checks.                            *)
EXTENDS HttpClient

\* With one slot every send can find its channel full.
MCDataQueueSize == 1

\* Two blocks up, two down, a poll beside the two data requests, and one
\* response that breaks: order, loss and the idle tunnel.
MCMaxPush == 2
MCMaxBlocks == 2
MCMaxSeq == 3
MCMaxBroken == 1

\* For the polls: room for more than three responses, many requests, three of
\* them with data, nothing sent down.
PollsDataQueueSize == 2
PollsMaxPush == 3
PollsMaxBlocks == 0
PollsMaxSeq == 8
PollsMaxBroken == 0

\* For liveness: one block each way.
LiveMaxPush == 1
LiveMaxBlocks == 1
=============================================================================
