# eTunnel in TLA+

eTunnel carries TCP connections over HTTP. The client process accepts a
connection, opens a tunnel with a CONNECT request and moves the connection's
bytes up in request bodies and down in response bodies; the server process dials
the target and does the reverse. Both processes read a TOML file when they start and log through
seelog; the two libraries are in the repository and are part of the program.
eTunnel itself has no tests and no design documents: the code is the reference,
and the models are translated from it. Paths below are relative to
`src/src/proxy/`, or to `src/src/` where they begin with `common/`, `apps/` or
`third/`.

## The system

| component | state | operations | talks to |
|---|---|---|---|
| `tcpProxy` (`et_tcp_proxy.go`) | `connAlive`, `sendQ`, `sendQsync`, `recvQ`, the connection | `sendLoop`, `recvLoop` (goroutines), `pushData`, `popData`, `isAlive`, `destroy` | the connection; its owner, `tcpServer` or `tcpClient` |
| `httpClient` (`et_http_client.go`) | `alive`, `seq`, `sendQ`, `sendQsync`, `sendNop`, `respQ`, `recvQ` | `newHTTPClient`, `processLoop`, `recvLoop` (goroutines), `pushTCPRequest`, `popTCPResponse`, `destroy` | the server, by HTTP; its owner `tcpServer` |
| `tcpServer`, `clientServer` (`et_tcp_server.go`) | one `httpClient`, one `tcpProxy` per connection | accept loop; `sendLoop`, `recvLoop`, `checkLoop`, `destroy` | both |
| `tcpClient` (`et_tcp_client.go`) | `seqNumber`, `keeyAliveTimestamp`, `reqQueue`, `reqQueueSync`, `resQueue`, `lock` | `pushHTTPRequest`, `processLoop`, `responseLoop`, `checkLoop`, `destroy` | its `tcpProxy`; the handlers; `tcpClientMgr` by a callback |
| `proxyServer` (`et_http_server.go`) | `tcpClientMgr` | `ServeHTTP` (one goroutine per request), `addTCPClient`, `deleteTCPClient` | `tcpClient`, `httpWrapper` |
| `httpWrapper` (`et_http_wrapper.go`) | a request and its `ResponseWriter` | `popData`, `startResponse`, `setErrorHappened`, `pushData` | net/http |
| main program and configuration (`common/et_base_main.go`, `common/et_config.go`, `common/et_config_check.go`, `apps/eTunnel/eTunnel.go`) | the command line `C`, the configuration `G`, the environment of the daemon | `BaseMain`, `ParseCommandAndFile`, `app_main` | toml, seelog, `NewProxyServer` or `NewClientServer` |
| toml (`third/toml`) | the lexer's input, position, stack of states and items; the parser's mapping, types, implicit tables and context | `lex*` state functions, `parse`, `Decode` | the configuration |
| seelog (`third/seelog`) | `Current`; of each logger its configuration, `msgQueue`, `closed`; of a file its handle, name and size; of a buffer its data | reading of a document; `Infof` and its like, `ReplaceLogger`; the loop of an asynchronous logger; the periodic flush; `Write`, `Close` of the writers | every component logs; the file system |

What is hard in it: every object is shared by four to six goroutines that meet
in bounded channels and in plain fields without a lock; a channel is closed or
fed a nil to wake a reader; aliveness is a flag in one object, a flag *or* a
non-empty queue in another, a clock in a third; the way down exists only while a
request is open, so the client must always have a poll outstanding; the
transport may repeat a request, lose one forever, or break a body; teardown
goes through calls that can block. The configuration file is read three times by
two processes into one variable; the log outlives loggers, processes and days,
in files that are renamed and removed while any call of the file system may
fail. `PROJECT.json` lists each hazard at its line and the properties that look
at it.

What makes each component correct:

- `tcpProxy`: both streams in order and without a gap up to their end, `isAlive`
  not FALSE before everything that was read was popped, `destroy` ends and wakes
  everyone.
- `httpClient`: the same for its streams, a poll outstanding while it is alive,
  few polls.
- `tcpServer`: what goes in at one end comes out at the other, and the death of
  one end brings down the other.
- `tcpClient`: a repeated request handled once, the target's stream cut into
  responses without loss, every response ended, no handler's `ResponseWriter`
  used after its return, and everything ended by `destroy`.
- `proxyServer` and `clientServer`: a request meets the tunnel of its own
  connection, a tunnel is reachable as long as it lives and forgotten when its
  client is gone, and the failure of one leaves the others alone.
- keep-alive: a tunnel that is only idle lives, one whose client is gone dies.
- start: what is written in the file is what the process goes on with, in the
  daemon as in the process that forked it, or it ends with an error.
- seelog: a message that its document means is in the files once and in order,
  or its failure was reported; old files stay within `maxrolls`.

## The modules

| module | models | builds on |
|---|---|---|
| `TcpProxy` | one `tcpProxy`, its two goroutines, its owner's calls, the remote end | |
| `TcpProxyProofs` | its theorems | `TcpProxy`, `QueueFacts` |
| `HttpClient` | one `httpClient` from `newHTTPClient` to `destroy`, with the server and the network as the external side | implements `Tunnel` |
| `HttpClientProofs` | its theorems, among them that it implements `Tunnel` | `HttpClient`, `QueueFacts` |
| `Tunnel` | abstract: what an `httpClient` promises its owner | |
| `TcpServer` | the client process's end of one tunnel | `TcpProxy`, `Tunnel` |
| `TcpServerProofs` | its theorems | `TcpServer`, `QueueFacts`; `TcpProxyProofs` for its `tcpProxy` |
| `TcpClient` | the server process's end of one tunnel and the handlers of `ServeHTTP` that serve it | `TcpProxy` |
| `TcpClientProofs` | its theorems | `TcpClient`, `QueueFacts`, `TcpProxyProofs` |
| `ProxyServer` | the server process with all its tunnels: `ServeHTTP`, the map, `onDestroy` | |
| `ClientServer` | client processes with all their connections: the accept loop, `newTCPServer` | |
| `Tunnels` | the two over HTTP: who sends which request, and who is gone | `ProxyServer`, `ClientServer` |
| `TunnelsProofs` | the theorems of `ProxyServer`, and those of the two together | `Tunnels` |
| `KeepAlive` | `ConnectionTimeoutSec` and `KeepAliveTimeSec` of a server against each other, in seconds | |
| `TomlLexer`, `TomlParser`, `TomlDecode` | the lexer, one state function a step; the parser, one item or one name of a table a step; the decoding into `G` | each on the one before |
| `Startup` | a process from its command line to its first tunnel | `TomlDecode`, `KeepAlive` |
| `StartupProofs` | the theorems of `Startup` and of `KeepAlive` | `Startup`, `QueueFacts` |
| `LogDocument` | what a seelog document means, or why it is refused; the configuration of its loggers | |
| `RollingFile` | the rolling file writer and the buffer before it, as functions | |
| `Loggers` | loggers of a configuration, their replacement, queues and loops, processes and days | `RollingFile`; `MCLoggers` takes the configurations from `LogDocument` |
| `LoggersProofs` | its theorems | `Loggers`, `QueueFacts` |
| `QueueFacts` | lemmas on sequences, and on least and greatest naturals, that the proofs share | |
| `MC...` | the instances that TLC checks | |

How the code becomes actions:

- A goroutine or a call has a label (`sendPc`, `popPc`, `destroyPc`, ...). A step
  runs from one access to shared state to the next: a test of `isAlive`, a
  channel operation, a read or write of the connection, an HTTP exchange. Two
  accesses share a step where no other goroutine can tell (`conn.Close` and
  `close(sendQsync)` in `destroy`; the two reads of `tcpProxy.isAlive`, because
  `connAlive` never becomes TRUE again).
- A buffered channel is a sequence; `AfterSend(q, x)` is the set of its values
  after a send, empty while it is full, so that the sender waits. A channel that
  is only ever closed is a Boolean. A `select` is a disjunction; one with
  `default` is a step that looks first and waits in a second step.
- A block is its number in its stream; a nil block is 0. How the stream is cut
  into blocks is left open, and `dummyFilter`, the only filter in use, changes
  nothing. A request is its `seq` number (`HttpClient`) or its handler
  (`TcpClient`); a response is the number of its request.
- The clock of `tcpClient.isAlive` is the flag `recent`, cleared by a step of
  the clock at any moment and set by an accepted request; the other timers
  (`popData`, the ticks of the check loops) may fire at any moment.
- The loop variables of `TcpClient` and `TcpServer` call the actions of `TcpProxy`
  and `Tunnel` (`T!PushData`, `H!PopCall`, ...): a loop that called waits until
  the called action is back at `"idle"`.
- The unsynchronised fields are sequentially consistent in the models. They are
  single words, written once in one direction and read in loops around channel
  operations, which order them.
- `ProxyServer` and `Tunnels` look at tunnels from outside: a `tcpClient` is alive,
  dead or destroyed, which is what `TcpClient` and `KeepAlive` give of it.
- Text is a sequence of characters in the TOML modules only, because what the
  lexer does with a text is its control. Two characters stand for one of several
  bytes (`Wide` and `More`), since `backup` is about widths. Words that the program
  fixes (`Server`, `ConnectionTimeoutSec`) are single letters.
- The parser's nested maps are one function of paths, and its context is the path of the
  table that values go into. `setValue` walks the names of the context from the top each
  time; it gets to the same table until `establishContext` names another, which the
  model walks name by name (`EnterImplicit`, then `EnterTable` or `EnterArrayTable`).
- What runs without another goroutine in between is a function of one state to
  the next: the state functions of the lexer (`LexStep`), an item in the parser
  (`ParseStep`), a call of `Dispatch` with everything below it (`RollingFile`). The
  functions carry a record of the state through the branches of the code, errors
  included. A queue that is flushed is a step for each message; the lock of the queue,
  which is held meanwhile, is `Flushing`, and for a loop that is about to sleep
  `QueueIsFree`.
- The files of a log are a function from names to sequences of messages. `deleteOldRolls`
  deletes from the head of a sorted list; the model gives the same files as a set, those
  with `maxRolls` newer ones. By date the writer's file ends the list, whatever its name:
  `GoodWriter` of `LoggersProofs` shows that it is the newest as well.
- A document of seelog is the tree of its elements. Formats are names, and a
  message is its number: the models say where a message is, not how it looks.

What is left outside, as nondeterministic environment: the remote end of a TCP
connection (sends, ends, resets; need not read), the network (a response body
may break, a request may fail or be lost, a repeated GET may arrive), the other
process, the clock, an operator who saves the configuration file between two
reads of it, the end of a process at any step, and the file system, in which
`mkdir`, `create`, `list`, `rename`, `remove` or `write` may fail.

### Names that begin with another definition's name

Some modules hold a variant of a definition with a suffix, such as
`AfterSend_DropOldest` or `TooOld_OneMore`. No specification uses them: each is
the definition with a plausible mistake, and the properties listed with it in
`PROJECT.json` ("mutants") are violated when it takes the place of the original.

## The runs

The queues of a tunnel have capacity 1 in the runs: with one slot every send can
meet a full queue, which with 100 takes a hundred blocks and shows nothing else.
Only `http_client_polls` has capacity 2: with one slot there is no room for more
than three responses, and `FewPolls` would hold whatever `recvLoop` does. Symmetry
is not used: blocks, requests and messages are numbered because their order
matters. Deadlock is not checked: every one of these objects ends, and a
goroutine that is stuck is what the liveness properties are about.

| run | asks | bounds |
|---|---|---|
| `tcp_proxy` | order, loss, wake-up and end of one `tcpProxy`: `PoppedInOrder`, `WrittenInOrder`, `DrainBeforeDead`, `NoSpuriousNil`, `DestroyWakesPopper`, `DestroyStopsSendLoop` | 3 blocks each way: in hand, in the queue, waiting before it |
| `http_client` | `RequestsInOrder`, `ResponsesInOrder`, `PollOutstanding`, and `TunnelSpec`: it implements `Tunnel` | 2 blocks each way, 3 requests, 1 broken response |
| `http_client_polls` | `FewPolls`: at most three polls open or asked for | capacity 2, 8 requests, 3 with data |
| `http_client_live` | `ServerGetsRequest`, `Delivery`, `DestroyStopsProcessLoop` | 1 block each way, 3 requests, 1 broken response |
| `tcp_server` | `UpInOrder`, `UpIsDrained`, `DownInOrder` | 2 blocks each way: in a hand and in the queue before it |
| `tcp_server_live` | `Teardown`, `DestroyStopsLoops` | 1 block each way, so that both ends can be at work when one dies |
| `tcp_client` | `UplinkInOrder`, `ReturnedIsUnused`, `DownlinkInOrder` | 2 requests, new or repeated, 2 blocks in any directions; timeout of the tunnel |
| `tcp_client_live` | `StartedIsFinished`, `AcceptedIsAnswered`, `DestroyStopsLoops` | the same without the timeout: data for a response, for the one after it and for none; a second request that finds `sendQ` full for ever |
| `tunnels` | `Reachable`, `NoCrossTalk`, `ZombieIsAddedLate`, `DesertedIsForgotten` | 2 client processes, 2 connections, 2 keys, 3 requests: two CONNECTs of one key and a request, or of two keys |
| `tunnels_crash` | violated: `FailureIsLocal` | the same |
| `startup` | `KeyIsKept`, `FileIsMeant`, `ServedIsWritten`, `AnnouncedIsServed`, `IdleSurvives`, `StartIsDecided`, `GoneIsDestroyed` | some 2600 starts: every way to write each field, 8 command lines, all documents of three of eleven statements and one of four where the context is no table, all values of up to three of eight characters; one edit; 1 to 6 and 1 to 2 seconds, 2 requests queued |
| `loggers` | `DocumentIsMeant`, `LogIsKept`, `OldFilesAreBounded`, `LoggedIsWritten` | 61 documents with five calls of different level, function, file and size, of one of which the place is unknown; six of them also with a second logger, a second process, two midnights and a call that fails; a queue that is flushed at 2 messages |

Each bound is a constant of the module, tested in the guard of the action that
would exceed it (blocks sent or pushed, requests sent, responses broken). Two
requests are enough for `tcpClient` because each of its loops looks at one
request and at whether there is another one; three for `httpClient` because one
is being sent, one queued and one read.

### What the passing runs show

**The data path** is sound: through every interleaving, timeout, reset and
concurrent `destroy` no block is repeated, reordered or lost in the middle, with
one exception that `ResponsesInOrder` names: an error while a response body is
read is taken for its end (`et_http_client.go:183`), so that its blocks are missing
while the tunnel goes on. A repeated GET never reaches the target twice, the
responses are released in time, and a live tunnel always has a request open or
asked for, and never more than three polls.

**The teardown** is not. `Teardown`, `DestroyStopsLoops` and `AcceptedIsAnswered`
are conditional, as are `DestroyStopsProcessLoop` and `StartedIsFinished`, and their
conditions name every place where a goroutine can be
stuck for ever; without any one that occurs in its bounds TLC finds the property
violated:

- `DestroyBlocked`: a tunnel dies with a full `recvQ`; `recvLoop` of `tcpServer` ends,
  `httpClient.destroy` blocks in `recvQ <- nil`, `tcpProxy.destroy`, the next line, is
  never reached, and the accepted connection stays open although the log said
  "will destroy" (`et_tcp_server.go:93`).
- `Revived`: a write fails while `recvLoop` of the `tcpProxy` has a block in hand;
  `sendLoop` of `tcpServer` sees `isAlive()` FALSE and ends; then the block reaches
  `recvQ`, `isAlive()` is TRUE again, now for ever, and `checkLoop` never destroys
  the tunnel (`et_tcp_server.go:98`).
- `UpBlocked`, `DownBlocked`: a loop that pushes to a queue nobody empties. They
  take a second block in one direction and do not occur in `tcp_server_live`, which
  so shows its properties without them for one block each way.
- `ProcBlocked`, and `procPc \in {"exit", "done"}` in `AcceptedIsAnswered`: when the
  connection to the target dies, `processLoop` of `tcpClient` leaves its loop
  (`et_tcp_client.go:123`) without looking at `reqQueue` again. A request queued by
  then is never answered; its handler and, at the other end, `processLoop` of
  `httpClient` in `Do`, which has no timeout, wait for ever.
- `Jammed`, in `DestroyStopsProcessLoop`: after `destroy` the owner may pop no more
  (`et_tcp_server.go:81`). Then `recvLoop` of `httpClient` blocks at a full `recvQ`,
  `respQ` fills behind it, and `processLoop` blocks at `respQ` for ever
  (`et_http_client.go:105`, `:165`).
- `ClientsRead`, in all three liveness properties of `tcpClient`: a client that does
  not read its response holds `responseLoop` in `Write` (`et_tcp_client.go:158`), and
  with it the responses that wait in `resQueue` and, when that is full, `processLoop`.
  `AcceptedIsAnswered` needs it for more requests than the two of the run.

**The tunnels** do not disturb one another in the map, with two exceptions:
CONNECTs of one key that overlap (`raced` in `Reachable`), where the second
replaces the first and either's end removes the entry of the other; and a
`tcpClient` that is destroyed before its handler adds it, which stays in the map
(`ZombieIsAddedLate` says that no other order leaves one there).

**The start.** `IdleSurvives` gives what the checks of the configuration do not
ask: an idle tunnel is safe only if `ConnectionTimeoutSec` is at least twice
`KeepAliveTimeSec` and the client's delay. `GoneIsDestroyed` holds because blocks do
not renew the timestamp. `FileIsMeant` compares what lexer and parser make of a file with
what the file was written for, field by field; from there on the other properties speak
of the parser's mapping, for any file. Their exceptions are the flaws of the start: a value whose key is the name of an implicit table is dropped
(`third/toml/parse.go:344`); names joined by dots confuse the marks of such tables
(`parse.go:372`), up to a context that is no table, where the program exits with a message
of its own bug (`parse.go:326`); keys that differ in case compete at random
(`third/toml/decode.go:231`); a daemon merges the file it reads into what its
parent's file had set when the two differ; and the lexer has loops without an
exit, which `LexerIsStuck` describes: a blank before a table name
(`third/toml/lex.go:263`), a multi-line string that is not ended, and a backup over
a character of several bytes (`lex.go:145`). The command line's `logconf` is not
checked, and the error of `ListenAndServe` ends the process with code 0
(`apps/eTunnel/eTunnel.go:18`).

A backslash that `stripEscapedWhitespace` leaves of an escaped one before a newline makes
an escape that the lexer has not looked at (`parse.go:407`): it ends the process where it is
none.

**The log.** The repository says little of what a seelog configuration means: `doc.go:108`
explains one example, and the rest is in a wiki; the code is the reference here, too.
The documents of `MCLoggers` state for each the calls that must be in the file,
and `DocumentIsMeant` compares. The example of `doc.go` is among them with what the code
makes of it, which is not what `doc.go` says: its exception has `filepattern="test*"`,
and "For files starting with 'test' this logger prohibits all levels below 'error'"
(`third/seelog/doc.go:132`), but the code matches the pattern against the full path
(`third/seelog/common_exception.go:79`), which begins with a slash. The exception meets no
file, and such a file logs everything. (`MCLoggers` has the letter x for the word, and a
rolling file for the plain one, because a rolling file is what the model follows.) Two
more surprises: an
`asynctimer` with interval 0 is accepted and makes a nil logger
(`third/seelog/log.go:85`), and `levels` together with one of `minlevel` and
`maxlevel` is accepted and the other one ignored (`third/seelog/cfg_parser.go:308`).
`Loggers` itself knows a
document only by what `LoggerOf` makes of it: which calls have an unused level, which
pass, which are too big for the buffer. `LogIsKept` excepts a buffer that refuses: once a flush has failed, bufio takes
nothing more and nobody looks at its error
(`third/seelog/writers_bufferedwriter.go:113`). `OldFilesAreBounded` shows how the
limit is kept: every roll removes all that is too old, so that a failed removal
is made good by the next one; a process that starts on a new day begins a file
without a roll. `LoggedIsWritten` excepts a buffer without a period.

### What the violated run shows

`FailureIsLocal`: `newTCPServer` never returns nil. When a CONNECT fails,
`newHTTPClient` returns a nil interface (`et_http_client.go:50`), the loops started
at `et_tcp_server.go:59` call it, and the process panics with all its tunnels;
`clientServer.Start` says of such a connection "else { tcp_conn.Close()"
(`et_tcp_server.go:45`).

## Fairness

Go's scheduler runs every goroutine that can run, so each loop and each call
that has begun has weak fairness, separately; a blocked channel operation is
disabled. Strong fairness is never needed, since a channel of these has one
reader, or one writer whose place no one takes. None is given to: the remote
ends of connections; `conn.Write`, which may block on a peer that does not
read until the connection is closed at this end; `Do`, which has no timeout; the
client's next request; the `Write` of a response, which waits for its client to read;
the network; the clock of `ConnectionTimeoutSec`.
`HttpClient`'s liveness assumes of its surroundings two things. The owner goes on calling
`popTCPResponse` as long as the tunnel is alive; after `destroy` a call that it made goes
on, but it need not make another one, because `tcpServer.recvLoop` ends with
`isAlive` (`et_tcp_server.go:81`). And the server finishes the response that `recvLoop`
reads (`ServerFinish`): `StartedIsFinished` of `TcpClient` shows it of a response that is
read; of one that nobody reads it is not assumed. That a response ends at all takes a
target that pauses: `responseLoop` ends it when it finds `recvQ` empty, and in
`TcpClient` the target has `MaxIn` blocks. `KeepAlive` has strong fairness of the clock,
which is disabled while a step that takes no time is due. In `Startup` a process
goes on until it serves or exits. In `Loggers` each loop, each ticker and each call that flushes a queue
has weak fairness, stated on the queue and the buffer that it serves; the file system has
none, and no process has to stop or to start.

## What is proved

Every theorem holds for all values of the constants, from the one assumption of
its module (`TcpProxyAssumption`, `HttpClientAssumption`, ...: the sizes are
naturals, the capacity of a queue is not zero; in `KeepAliveAssumption` the
configurations are those that pass the checks; `ServedIdleSurvives` needs that only of the
client's delay and the queues). TLC evaluates these assumptions in the runs, and checked the
properties on small instances before.

**`TcpProxyProofs`**

- `TypeCorrect`: `Spec => []TypeOK`, with both queues within `DataQueueSize`. `TypeOK` is
  inductive as it stands; no run repeats it.
- `PoppedInOrderCorrect`: what was popped, what `recvQ` holds without nils and the
  block in `recvLoop`'s hand are together 1, 2, ..., `read`. A nil of `destroy`
  may stand anywhere in `recvQ`, which is why the invariant (`RecvQInv`) speaks of
  the blocks in `recvQ`, not of its positions.
- `WrittenInOrderCorrect`: what was written, the block in `sendLoop`'s hand and
  `sendQ` are together 1, 2, ..., `pushed`, until a write fails and `sendLoop` ends.
- `DrainBeforeDeadCorrect`: from the first and from what clears `connAlive`.
- `NoSpuriousNilCorrect`: the only source of a nil is `destroy`, which cleared
  `connAlive` before (`NilInv`).

The lemmas on `recvQ` and on types hold for steps of `AnyNext`, in which the owner
may push any block, so that they can be used for a `tcpProxy` inside another module;
those on `sendQ` for steps of `OrderedNext`, in which the owner pushes the blocks in
order.

**`HttpClientProofs`**

- `RequestsInOrderCorrect`: what the server got, the block in `processLoop`'s hand
  and `sendQ` are together 1, 2, ..., `pushed`, until a request fails; then
  `processLoop` takes no other (`RequestInv`).
- `PollOutstandingCorrect`: `recvLoop` is the only one to empty `respQ`, and asks for
  a poll when it finds it empty; the nil that ends it comes after `alive` is cleared
  (`ResponseInv`).
- `ResponsesInOrderCorrect`: the stream of the server is, in this order, what was
  popped, `recvQ`, the block in `recvLoop`'s hand and the bodies of the responses still
  to be read (`StreamInv`). That a response that `recvLoop` is through with gets
  no block any more is what makes this inductive: `respQ` holds the responses one after the
  other, from the one behind `recvLoop`'s to the last request (`PositionInv`), and
  `recvLoop` ends one only when the server has finished it or it broke.
- `FewPollsCorrect`: when `recvLoop` asks for a poll, at most one response waits in
  `respQ`, so there are at most two, and three while it has asked (`PollInv`).
- `TunnelSpecCorrect`: `Spec => TunnelSpec`. The block on its way is the one in `processLoop`'s
  hand, and the last block received the greatest that was ever in `recvQ`; what `Tunnel`
  does not know (requests, responses, polls) are stutters. `TunnelStep` has a step per
  action; `StreamInv` shows that a block that `recvLoop` pushes is a later one than all
  before it, which is what `Tunnel` asks for.

**`TcpServerProofs`**: `UpInOrderCorrect`, `UpIsDrainedCorrect`, `DownInOrderCorrect`.
The invariant chains the queues of a direction: what the `tcpProxy` read was popped,
but for `RecvQInv`; what was popped was pushed, but for a block in `sendLoop`'s hand
(`UpInv`); what was pushed reached the server, but for `sendQ` of the tunnel and
the block on its way (`TunnelInv`); and `DownInv` for the way down. The steps of the
`tcpProxy` are those of `TcpProxyProofs`, whose lemmas are cited through an instance.

**`TcpClientProofs`**: `ReturnedIsUnusedCorrect`. A request is in one place at most, of
`reqQueue`, `resQueue` and the hands of the two loops, and its handler waits for as long
as it is in one (`PlaceInv`). `UplinkInOrderCorrect` and `DownlinkInOrderCorrect` are
the two streams, with requests that arrive again at any time:

- The way up. At most one accepted request is unanswered, and it has the last
  seq number accepted (`SeqInv`, `BusyInv`), so that a copy of it is refused; what was
  pushed to the `tcpProxy` is all that was sent, but for the block of that request, or
  of one that is still to be accepted (`PushInv`). Its steps push in order, and the
  lemmas of `TcpProxyProofs` on `sendQ` follow.
- The way down. The requests with `responseLoop`, in `resQueue` and in `processLoop`'s
  hand follow each other in the order of their seq numbers, and no later one has
  got a block (`OrderInv`). Every block that was popped is in one response, but for
  the one in `responseLoop`'s hand, and the blocks of an earlier response come before
  those of a later one (`BlockInv`).

**`TunnelsProofs`**, for the server process by itself: `ReachableCorrect`,
`ZombieIsAddedLateCorrect` and `TypeCorrect`. The invariant says which `tcpClient` an entry
of the map may name (`EntryInv`), how the life of a `tcpClient` and the label of its
handler go together (`LifeInv`), and that without a race the handler between lookup and
add is alone with its key and finds no entry there (`AloneInv`).

Among clients: `NoCrossTalkCorrect`, for the connections of one process and of several,
which may have chosen one `connKey`. A process counts its connections, so that two of
its own differ in their keys (`KeysDiffer`); a request has the key of its connection
(`SenderInv`), and what a lookup finds was made for the key it looked for (`FoundInv`). So a
wrong tunnel is that of another process with an equal key. A CONNECT that
finds it is refused. A data request finds it only when its own tunnel is destroyed or two
CONNECTs of the key overlapped: a connection that sends data had its tunnel made
(`MadeInv`), a tunnel that was made stays made (`PastStays`), and by `Reachable` it is what
the map has under its key (`DataInv`). `ServerIsProxyServer` is the theorem that composition needs: every
step of `Tunnels` is a step of `ProxyServer` or leaves its variables alone. With it
the theorems of the server process hold among clients, too (`TunnelsReachable`,
`TunnelsZombieIsAddedLate`).

**`StartupProofs`**, for every command line and every file, whatever bytes it has:
`KeyIsKeptCorrect`, `ServedIsWrittenCorrect`, `AnnouncedIsServedCorrect` and
`ServedIdleSurvives`; for `KeepAlive` by itself, `IdleSurvivesCorrect` and `TypeCorrect`.

- `IdleInv` accounts for the age of the timestamp, less the time in blocked calls: two
  waits of a response and the client's delay at most.
- The parser (`ParserInv`, with a lemma for each operator up to `ParseStepInv`). Both
  parts of `KeyIsKept` hold all the time (`Kept`, `DefinedOnce`), because every mark is
  that of an implicit table that the text has not defined since (`MarksInv`): a value that
  is dropped, or a table that is defined once more, shares its mark with such a table. That
  a new element of an array takes no value's place needs `PathsInv`: the paths that the
  text defines end in a name, those of elements in a number. The lexer is left
  open: the parser may be given any items.
- The parser is deterministic (`ParsedUnique`), by a least step at which two runs of one
  text would differ. So the daemon and `app_main` get the mapping that their parent got from
  the same file, and without two keys for a field they get the same values (`OneValue`). A
  file that was accepted once, from an empty configuration, has a value for each field
  (`CheckedValues`), so that nothing is left of what `G` was before.
  `AcceptedInv` carries that from one reader to the next.
- Every configuration that gets as far as `Serve` has two positive times (`CheckedConfig`,
  with `NumberType`: what is read of digits is a number), which is what `KeepAlive`
  assumes of its configurations. `StartInv` holds the parts together.

**`LoggersProofs`**: `LogIsKeptCorrect` and `OldFilesAreBoundedCorrect`, for every
configuration (the files by size and by date, any `maxsize`, `maxrolls` and buffer) and
any number of messages, faults, midnights and processes. The proof goes up from the files:

- Of a set of names: all but the `maxRolls` newest go, so that at most as many stay
  (`KeptAreFew`), and of the names newer than a given one as many stay as there were, up to
  `maxRolls` (`KeptAreMany`). Without the second a later roll could bring a file that was
  rightly deleted to have fewer than `maxRolls` newer ones.
- Of the files: what a change of them may do (`Goes`). Every message stays, or it is
  `Behind`: its file is gone, `maxRolls` old files came after it, and all that they hold is
  newer. Being behind is for ever, as long as what is written is newer still.
- Of a receiver: each call of `RollingFile`, with any fault, keeps it well (`Well`: the
  order of the files, the buffer after them, the file that is open is the newest, one that
  is shut will not be written) and does what `Calls` says; `CallsTwice` composes calls.
  `Bounded` is the part about numbers: a call that does not roll begins no file but the
  current one.
- Of the loggers: `Inv`. Messages grow from the files through the buffer to the queue
  (`Queued`); a logger that does not serve, the one replaced or the one to come, has
  nothing in its queue, and in its buffer only what it will never write (`IsIdle`), so that
  two loggers with the same files do not disturb their order (`Replaced`). That is what
  makes `ReplaceLogger` safe: it sets `Current` when the old logger has flushed its queue
  and its buffer and closed its file, and not before. A message whose file was deleted is
  older than all in memory (`Away`, in `Complete`). `FewFiles` is `OldFilesAreBounded` with
  the file of the day counted.

A buffer whose flush has failed keeps its messages and its ticker goes on; the theorems
show that it writes nothing any more, also when its logger is replaced.

Each invariant is proved along the same lines: an initial state has it; each
step changes the variables it speaks of in one of few ways (a lemma per queue or
per group of steps); in each way it is preserved.

Only model-checked: all liveness (a leads-to under fairness is out of the prover's reach);
`FileIsMeant` and `DocumentIsMeant`, which compare what the code makes of a text
or a document with what it was written for. Such a comparison says what recursive
definitions (the lexer's steps over a text, the constraints of a tree) compute for the
inputs that are listed, and there is no shorter statement of that for all inputs.

## Not modelled

- `encryptFilter` (`et_data_encrypt.go`): never instantiated, and the identity.
- `common/et_util.go`: the clock, which is a flag in `TcpClient` and time in `KeepAlive`,
  and an unused helper.
- The ticker that `popData` never stops (`et_tcp_proxy.go:141`), a leak of timers
  without effect on the order of events; `Setsid` and the debug servers of the main
  program.
- toml: the encoder, decoding into types other than structs of strings and integers,
  struct tags, metadata. eTunnel uses none of them.
- toml: characters of three and four bytes in the lexer, and years, dates and numbers
  beyond what is compared (a float is its text, and none is out of range).
- seelog, within what is modelled: the flush after a critical message
  (`third/seelog/logger.go:249`; the program logs none as critical); a write of a part of
  a chunk, after which bufio would keep the rest; and sizes in bytes: `maxsize` and
  `size` count messages, each of one unit, and a big one is one that does not fit in the
  buffer.
- seelog: the XML decoder, formatting, archives of old files, the connection, SMTP,
  console and plain file writers, custom receivers, `SetContext` and the cache of
  call sites. Formatting and the other writers change no state that a property looks
  at; archives and the rest are not configured by eTunnel's own files. Two processes
  that write to one file, as parent and daemon do for a moment, are not modelled either.
- Go's memory model beyond sequential consistency, see "How the code becomes actions".

## What is left

1. `EndToEnd`: `TcpServer` and `TcpClient` over a network of requests as an
   implementation of a pair of FIFO streams. The product of the two is beyond TLC even
   with one block, so it needs an abstract `Pipe` that `TcpProxy` implements, as
   `HttpClient` implements `Tunnel`.
2. The plain file and console writers of seelog, and archives, if a configuration
   should use them.
