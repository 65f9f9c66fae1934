------------------------------- MODULE Loggers --------------------------------
(***************************************************************************)
(* The log of a process: src/src/third/seelog/log.go, logger.go and        *)
(* behavior_*.go.                                                          *)
(*                                                                         *)
(* A process makes a logger when it reads its configuration, and another   *)
(* one when it reads it again; ReplaceLogger puts the new one in the place *)
(* of the old.  Both loggers have the same configuration and write to the  *)
(* same files.  The package functions hold a mutex, so that Infof and      *)
(* ReplaceLogger exclude one another; what runs beside them is the loop of *)
(* a logger that is not sync, which takes messages from its queue, and the *)
(* periodic flush of a buffer.  The process may stop at any time, and      *)
(* flushes nothing then; the next one finds the files.                     *)
(*                                                                         *)
(* A logger is made from a document, as LogDocument says.  One that is in  *)
(* error is refused, and the program ends.                                 *)
(*                                                                         *)
(* The loggers that sleep between two messages (asynctimer, adaptive) are  *)
(* the loop: a step may wait for as long as it likes.                      *)
(***************************************************************************)
EXTENDS RollingFile

CONSTANTS
    Instances,      \* records [outcome, conf, means, faults, days, starts]: what came of a
                    \* document and the configuration of its loggers (LogDocument!LoggerOf),
                    \* what it was meant for, and the bounds of faults of the file system,
                    \* midnights and processes one after the other
    MaxLogged,      \* bound: calls of Infof and its like
    MaxQueueSize    \* the queue is flushed at this length

ASSUME LoggersAssumption ==
    /\ MaxLogged \in Nat /\ MaxQueueSize \in Nat
    /\ \A i \in Instances :
          /\ i.outcome \in {"logger", "refused", "nil"}
          /\ i.conf.rolling \in {"size", "date"} /\ i.conf.async \in BOOLEAN
          /\ i.conf.maxSize \in Int /\ i.conf.maxRolls \in Int /\ i.conf.buffer \in Nat
          /\ i.faults \in Nat /\ i.days \in Nat /\ i.starts \in Nat

VARIABLES
    instance,   \* the configuration, what was meant, and the bounds
    day,        \* the clock
    disk,       \* the files: a sequence of messages for each name
    writers,    \* of each logger, its rolling writer
    buffers,    \* of each logger, its buffer
    queues,     \* of each logger, msgQueue
    loops,      \* of each logger, processItem: "look", "falling" asleep, "asleep" or "ended"
    closed,     \* the loggers that are closed
    current,    \* the logger of the package functions
    pc,         \* of the package functions: "refused", "nil", "idle", "full" (Infof), or
                \* "flush", "close", "closing", "closed", "current" (ReplaceLogger)
    logged,     \* messages logged so far
    reported,   \* messages whose failure was reported
    lost,       \* messages that a process had not written when it stopped
    begun,      \* files begun without a roll since the last roll
    faults, starts

process == <<writers, buffers, queues, loops, closed, current, pc>>
files == <<disk, reported, begun, faults>>
vars == <<instance, day, process, files, logged, lost, starts>>

conf == instance.conf
Generations == {1, 2}
Faults == {"none"} \cup
    IF faults = instance.faults THEN {} ELSE {"mkdir", "create", "list", "rename", "remove", "write"}

\* NewAsyncLoopLogger starts its loop; a sync logger has none.
NewLoop == IF conf.async THEN "look" ELSE "ended"

\* The first message of a logger that is nil panics, and the program ends as well.
Init ==
    /\ instance \in Instances
    /\ pc = IF instance.outcome = "logger" THEN "idle" ELSE instance.outcome
    /\ writers = [g \in Generations |-> NewWriter]
    /\ buffers = [g \in Generations |-> NewBuffer]
    /\ queues = [g \in Generations |-> <<>>]
    /\ loops = [g \in Generations |-> NewLoop]
    /\ closed = {} /\ current = 1
    /\ disk = <<>> /\ reported = {} /\ lost = {}
    /\ day = 0 /\ logged = 0 /\ begun = 0 /\ faults = 0 /\ starts = 1

NewLoggers ==
    /\ writers' = [g \in Generations |-> NewWriter]
    /\ buffers' = [g \in Generations |-> NewBuffer]
    /\ queues' = [g \in Generations |-> <<>>]
    /\ loops' = [g \in Generations |-> NewLoop]
    /\ closed' = {} /\ current' = 1 /\ pc' = "idle"

-----------------------------------------------------------------------------
(* Receivers                                                               *)

Receiver(g) ==
    [w |-> writers[g], buf |-> buffers[g], disk |-> disk, reported |-> reported,
     ok |-> TRUE, rolled |-> FALSE]

\* What the calls of a step have made of g's receiver.  A fault that met no call is none.
Becomes(g, out, fault) ==
    /\ writers' = [writers EXCEPT ![g] = out.w]
    /\ buffers' = [buffers EXCEPT ![g] = out.buf]
    /\ disk' = out.disk
    /\ reported' = out.reported
    /\ begun' = IF out.rolled THEN 0
                ELSE begun + Cardinality(DOMAIN out.disk \ DOMAIN disk)
    /\ faults' = IF fault = "none" THEN faults ELSE faults + 1

\* processLogMsg
Process(r, m, fault) == IF m \in conf.passes THEN Dispatch(conf, day, r, m, fault) ELSE r

\* The lock of the queue: a loop has it until it sleeps, and a package function while it
\* flushes the queue.
QueueIsFree(g) == loops[g] # "falling"
Flushing(g) == g = current /\ pc \in {"full", "flush", "closing"}

Awake(g) == IF loops[g] = "asleep" THEN "look" ELSE loops[g]

\* processQueueElement
TakeElement(g) == queues[g] # <<>> /\ queues' = [queues EXCEPT ![g] = Tail(@)]

ProcessElement(g) ==
    /\ TakeElement(g)
    /\ \E fault \in Faults : Becomes(g, Process(Receiver(g), Head(queues[g]), fault), fault)

-----------------------------------------------------------------------------
(* Infof and its like                                                      *)

LogUnused ==
    /\ logged + 1 \in conf.unused
    /\ logged' = logged + 1
    /\ UNCHANGED <<files, process>>

LogNow ==
    /\ ~conf.async /\ logged + 1 \notin conf.unused
    /\ logged' = logged + 1
    /\ \E fault \in Faults :
         Becomes(current, Process(Receiver(current), logged + 1, fault), fault)
    /\ UNCHANGED <<queues, loops, closed, current, pc>>

Push_Unheard ==
    /\ logged' = logged + 1
    /\ queues' = [queues EXCEPT ![current] = Append(@, logged + 1)]
    /\ UNCHANGED <<loops, files, writers, buffers, closed, current>>
\* PushBack and Broadcast.
Push ==
    /\ logged' = logged + 1
    /\ queues' = [queues EXCEPT ![current] = Append(@, logged + 1)]
    /\ loops' = [loops EXCEPT ![current] = Awake(current)]
    /\ UNCHANGED <<files, writers, buffers, closed, current>>

\* addMsgToQueue: a queue that is full is flushed first.
AddMsgToQueue ==
    /\ conf.async /\ logged + 1 \notin conf.unused /\ QueueIsFree(current)
    /\ IF Len(queues[current]) < MaxQueueSize THEN Push /\ UNCHANGED pc
       ELSE pc' = "full" /\ UNCHANGED <<files, writers, buffers, queues, loops, closed, current, logged>>

\* The program logs nothing as critical, and so the flush that follows such a message is none.
Log ==
    /\ pc = "idle" /\ logged < MaxLogged
    /\ LogUnused \/ LogNow \/ AddMsgToQueue
    /\ UNCHANGED <<instance, day, lost, starts>>

\* flushQueue
FlushQueue ==
    /\ Flushing(current) /\ ProcessElement(current)
    /\ UNCHANGED <<instance, day, loops, closed, current, pc, logged, lost, starts>>

AddFlushed ==
    /\ pc = "full" /\ queues[current] = <<>> /\ Push /\ pc' = "idle"
    /\ UNCHANGED <<instance, day, lost, starts>>

-----------------------------------------------------------------------------
(* ReplaceLogger                                                           *)

\* Flush: the queue, then the buffer.
ReplaceFlush ==
    /\ pc = "idle" /\ current = 1 /\ QueueIsFree(1)
    /\ pc' = "flush"
    /\ UNCHANGED <<instance, day, files, writers, buffers, queues, loops, closed, current, logged, lost, starts>>

ReplaceFlushed ==
    /\ pc = "flush" /\ queues[1] = <<>>
    /\ \E fault \in Faults : Becomes(1, DispatcherFlush(conf, day, Receiver(1), fault), fault)
    /\ pc' = "close"
    /\ UNCHANGED <<instance, day, queues, loops, closed, current, logged, lost, starts>>

\* Close flushes again, and closes the file.
ReplaceClose ==
    /\ pc = "close" /\ QueueIsFree(1)
    /\ pc' = "closing"
    /\ UNCHANGED <<instance, day, files, writers, buffers, queues, loops, closed, current, logged, lost, starts>>

CloseFile ==
    /\ pc = "closing" /\ queues[1] = <<>>
    /\ \E fault \in Faults :
         Becomes(1, DispatcherClose(conf, day, DispatcherFlush(conf, day, Receiver(1), fault), "none"), fault)
    /\ pc' = "closed"
    /\ UNCHANGED <<instance, day, queues, loops, closed, current, logged, lost, starts>>

\* The Broadcast is without the lock: a loop that is about to sleep does not hear it.
ReplaceClosed ==
    /\ pc = "closed"
    /\ closed' = {1}
    /\ loops' = [loops EXCEPT ![1] = Awake(1)]
    /\ pc' = "current"
    /\ UNCHANGED <<instance, day, files, writers, buffers, queues, current, logged, lost, starts>>

ReplaceCurrent ==
    /\ pc = "current"
    /\ current' = 2 /\ pc' = "idle"
    /\ UNCHANGED <<instance, day, files, writers, buffers, queues, loops, closed, logged, lost, starts>>

ReplaceLogger ==
    ReplaceFlush \/ ReplaceFlushed \/ ReplaceClose \/ CloseFile \/ ReplaceClosed \/ ReplaceCurrent

-----------------------------------------------------------------------------
(* The loop of a logger, and the periodic flush                            *)

LoopEnds(g) ==
    /\ loops[g] = "look" /\ g \in closed
    /\ loops' = [loops EXCEPT ![g] = "ended"] /\ UNCHANGED queues

LoopFindsNothing(g) ==
    /\ loops[g] = "look" /\ ~Flushing(g) /\ g \notin closed /\ queues[g] = <<>>
    /\ loops' = [loops EXCEPT ![g] = "falling"] /\ UNCHANGED queues

\* Wait: from here on a Broadcast is heard.
LoopSleeps(g) ==
    /\ loops[g] = "falling"
    /\ loops' = [loops EXCEPT ![g] = "asleep"] /\ UNCHANGED queues

MayTake(g) == loops[g] = "look" /\ ~Flushing(g) /\ g \notin closed

Loop(g) ==
    /\ \/ /\ LoopEnds(g) \/ LoopFindsNothing(g) \/ LoopSleeps(g)
          /\ UNCHANGED <<files, writers, buffers>>
       \/ MayTake(g) /\ ProcessElement(g) /\ UNCHANGED loops
    /\ UNCHANGED <<instance, day, closed, current, pc, logged, lost, starts>>

\* flushBuffer.  The goroutine outlives its logger.
FlushPeriodically(g) ==
    /\ conf.periodic /\ buffers[g].data # <<>>
    /\ \E fault \in Faults : Becomes(g, FlushInner(conf, day, Receiver(g), fault), fault)
    /\ UNCHANGED <<instance, day, queues, loops, closed, current, pc, logged, lost, starts>>

\* What the loop and the ticker of g do with its queue and its buffer.
Takes(g) ==
    \/ LoopEnds(g) \/ LoopFindsNothing(g) \/ LoopSleeps(g)
    \/ MayTake(g) /\ TakeElement(g) /\ UNCHANGED loops
Empties(g) ==
    /\ conf.periodic /\ buffers[g].data # <<>> /\ ~buffers[g].err
    /\ buffers' = [buffers EXCEPT ![g].data = <<>>]

-----------------------------------------------------------------------------
(* The world                                                               *)

\* Rolling by size does not look at the clock.
Midnight ==
    /\ conf.rolling = "date" /\ day < instance.days
    /\ day' = day + 1
    /\ UNCHANGED <<instance, process, files, logged, lost, starts>>

\* The process exits or dies, and is started again.
Restart ==
    /\ pc \notin {"refused", "nil"} /\ starts < instance.starts
    /\ starts' = starts + 1
    /\ lost' = lost \cup ((1 .. logged) \ (OnDisk(disk) \cup reported))
    /\ NewLoggers
    /\ UNCHANGED <<instance, day, files, logged>>

Next ==
    \/ Log \/ FlushQueue \/ AddFlushed \/ ReplaceLogger
    \/ \E g \in Generations : Loop(g) \/ FlushPeriodically(g)
    \/ Midnight \/ Restart

\* A goroutine that can run is run, and a ticker ticks: what they do is told by the queue and
\* the buffer that they serve.
Fairness ==
    \A g \in Generations :
        /\ WF_queues(Flushing(g) /\ TakeElement(g))
        /\ WF_<<queues, loops>>(Takes(g))
        /\ WF_buffers(Empties(g))

Spec == Init /\ [][Next]_vars
FairSpec == Spec /\ Fairness

-----------------------------------------------------------------------------
(* Properties                                                              *)

OldFiles == {n \in DOMAIN disk : n # CurrentName(conf, day)}
InMemory == UNION {ToSet(queues[g]) \cup ToSet(buffers[g].data) : g \in Generations}

\* bufio says nothing of what it refuses after a flush has failed.
Refusing == \E g \in Generations : buffers[g].err

\* deleteOldRolls may take the file of m only while maxRolls newer ones stay.
IsRolledAway(m) ==
    /\ conf.maxRolls > 0
    /\ Cardinality({n \in OldFiles : \A k \in ToSet(disk[n]) : k > m}) >= conf.maxRolls

\* The messages that are for the file.
Due == conf.passes \ conf.unused

\* A document is refused if and only if it is in error; the one that makes a nil logger is
\* an asynctimer without an interval; and a logger lets those calls pass to its file that the
\* document means for it.
DocumentIsMeant ==
    /\ {pc, instance.means.outcome} \cap {"refused", "nil"} # {} => pc = instance.means.outcome
    /\ Due = instance.means.calls

\* The files hold the messages that are for them and no other, in the order they were
\* logged, across buffers, queues, loggers, rolls and processes, each once; and a
\* message that is not in them is still on its way, or its failure was reported, or its
\* process stopped first, or its file was an old one of which maxRolls newer ones remain.
\* A buffer that refuses is excepted.
LogIsKept ==
    /\ InOrder(conf, disk)
    /\ OnDisk(disk) \cup reported \subseteq Due
    /\ \A m \in (1 .. logged) \cap Due :
          m \in OnDisk(disk) \cup InMemory \cup reported \cup lost \/ IsRolledAway(m) \/ Refusing

\* Old files do not pile up, whatever fails and however often the program starts: there are
\* at most maxRolls of them, and those that a failed removal or rename has left, those
\* that were begun without a roll, and the one whose roll is due since midnight.
OldFilesAreBounded ==
    conf.maxRolls > 0 =>
        Cardinality(OldFiles) <=
            conf.maxRolls + faults + IF conf.rolling = "size" THEN 0 ELSE begun + 1

\* A buffer without a period may keep its messages, and so may one whose flush has failed.
MayStay(m) ==
    \E g \in Generations :
        m \in ToSet(buffers[g].data) /\ (buffers[g].err \/ ~conf.periodic)

\* Every message leaves the memory of the process, if it runs on: the loop is woken for it,
\* the loop of a logger that is replaced leaves nothing behind, and a buffer is flushed in
\* time.
LoggedIsWritten == []<>(\A m \in InMemory : MayStay(m))
=============================================================================
