----------------------------- MODULE RollingFile -----------------------------
(***************************************************************************)
(* The file of a logger: src/src/third/seelog/writers_rollingfilewriter.go *)
(* and, before it, src/src/third/seelog/writers_bufferedwriter.go.         *)
(*                                                                         *)
(* A receiver is a record [w, buf, disk, reported, ok, rolled]: the rolling *)
(* writer, its buffer, the files, the messages whose failure was reported, *)
(* what the last call returned and whether a call has rolled the file.  A  *)
(* file is named by a number: by size, 0 is the current file and the others *)
(* are its postfixes; by date, a file is named by its day.  A file is the  *)
(* sequence of its messages; messages are numbered as they are logged.     *)
(*                                                                         *)
(* A fault is a call of the file system that fails: "none", "mkdir",       *)
(* "create", "list", "rename", "remove" or "write".                        *)
(***************************************************************************)
EXTENDS Integers, Sequences, FiniteSetsExt, SequencesExt

NewWriter == [file |-> "nil", name |-> 0, size |-> 0]
NewBuffer == [data |-> <<>>, err |-> FALSE]

\* Of the configuration c: rolling by "size" or "date", at maxSize, keeping maxRolls
\* old files; a buffer of buffer messages, if it is not 0; big messages do not fit in it.
CurrentName(c, day) == IF c.rolling = "size" THEN 0 ELSE day

\* The files, among them the one of this name: an empty one, if there was none.
Begun(disk, name) ==
    IF name \in DOMAIN disk THEN disk
    ELSE [n \in DOMAIN disk \cup {name} |-> IF n = name THEN <<>> ELSE disk[n]]

\* createFileAndFolderIfNeeded.  Without a folder the handle is what it was.
Create(c, day, r, fault) ==
    LET name == CurrentName(c, day) IN
    IF fault = "mkdir" THEN [r EXCEPT !.ok = FALSE]
    ELSE IF fault = "create"
    THEN [r EXCEPT !.ok = FALSE, !.w = [file |-> "nil", name |-> name, size |-> r.w.size]]
    ELSE LET with == Begun(r.disk, name) IN
         [r EXCEPT !.w = [file |-> "open", name |-> name, size |-> Len(with[name])], !.disk = with]

NeedsToRoll(c, day, w) == IF c.rolling = "size" THEN w.size >= c.maxSize ELSE w.name # day

\* getSortedLogHistory: the files that are not the current one.
History(r) == DOMAIN r.disk \ {r.w.name}

\* The name under which the current file joins them: by size, the next postfix.
RolledName(c, r) ==
    IF c.rolling # "size" THEN r.w.name
    ELSE IF History(r) = {} THEN 1 ELSE Max(History(r)) + 1

\* The last rename: by size the current file becomes the newest of the old ones.
Renamed(c, r, name) ==
    IF c.rolling # "size" THEN r.disk
    ELSE [n \in (DOMAIN r.disk \ {r.w.name}) \cup {name} |->
            IF n = name THEN r.disk[r.w.name] ELSE r.disk[n]]

Newer(names, n) == {m \in names : m > n}

TooOld_OneMore(c, names, fault) ==
    {n \in names : c.maxRolls > 0 /\ Cardinality(Newer(names, n)) >= c.maxRolls - 1}
TooOld_OneLess(c, names, fault) ==
    {n \in names : c.maxRolls > 0 /\ Cardinality(Newer(names, n)) > c.maxRolls}

\* deleteOldRolls: all but the maxRolls newest, of which the writer's own file is the last;
\* the oldest first.  A file that cannot be removed stays.
TooOld(c, names, fault) ==
    {n \in names :
        /\ c.maxRolls > 0 /\ Cardinality(Newer(names, n)) >= c.maxRolls
        /\ fault = "remove" => \E m \in names : m < n}
RemoveFiles(disk, names) == [n \in DOMAIN disk \ names |-> disk[n]]

Shut(r) == [r EXCEPT !.w.file = "shut"]
Rolled(r, files) == [Shut(r) EXCEPT !.disk = files, !.rolled = TRUE]

\* The branch of Write for a full or an old file.  When a step of it fails the handle
\* is closed and is not nil, so that it is closed again at every later call.
Roll(c, day, r, fault) ==
    LET name == RolledName(c, r)
        old == TooOld(c, History(r) \cup {name}, fault)
    IN IF r.w.file = "shut" THEN [r EXCEPT !.ok = FALSE]
       ELSE IF fault = "list" \/ (fault = "rename" /\ c.rolling = "size")
       THEN [Shut(r) EXCEPT !.ok = FALSE]
       ELSE Create(c, day, Rolled(r, RemoveFiles(Renamed(c, r, name), old)), fault)

\* Write, of the rolling writer: opens its file if it has none, rolls it if need be, and
\* writes a chunk of messages, as one.  An error ends it.
Opened(c, day, r, fault) == IF r.w.file = "nil" THEN Create(c, day, r, fault) ELSE r

RolledIfNeeded(c, day, r, fault) ==
    IF r.ok /\ NeedsToRoll(c, day, r.w) THEN Roll(c, day, r, fault) ELSE r

Grown(r, chunk) == [r EXCEPT !.w.size = @ + Len(chunk)]

WriteChunk(r, chunk, fault) ==
    IF ~r.ok THEN r
    ELSE IF fault = "write" THEN Grown([r EXCEPT !.ok = FALSE], chunk)
    ELSE Grown([r EXCEPT !.disk[r.w.name] = @ \o chunk], chunk)

RollingWrite(c, day, r, chunk, fault) ==
    WriteChunk(RolledIfNeeded(c, day, Opened(c, day, [r EXCEPT !.ok = TRUE], fault), fault),
               chunk, fault)

\* Close, of the rolling writer: a handle that is closed already stays.
RollingClose(r) == IF r.w.file = "open" THEN [r EXCEPT !.w.file = "nil"] ELSE r

-----------------------------------------------------------------------------
(* The buffer                                                              *)

\* bufio's Flush: once it has failed it fails always, and keeps what it has.
Emptied(out) ==
    IF out.ok THEN [out EXCEPT !.buf.data = <<>>] ELSE [out EXCEPT !.buf.err = TRUE]

FlushInner(c, day, r, fault) ==
    IF r.buf.err THEN [r EXCEPT !.ok = FALSE]
    ELSE IF r.buf.data = <<>> THEN [r EXCEPT !.ok = TRUE]
    ELSE Emptied(RollingWrite(c, day, r, r.buf.data, fault))

\* Write, of the buffered writer: a big message passes the buffer by, another one goes to
\* bufio's Write, whose result is not looked at.
WriteBigChunk(c, day, r, m, fault) == IF r.ok THEN RollingWrite(c, day, r, <<m>>, fault) ELSE r

BufferWrite(r, m) == IF r.ok /\ ~r.buf.err THEN [r EXCEPT !.buf.data = Append(@, m)] ELSE r

BufferedWrite(c, day, r, m, fault) ==
    IF m \in c.big
    THEN WriteBigChunk(c, day, FlushInner(c, day, r, fault), m,
                       IF r.buf.data = <<>> THEN fault ELSE "none")
    ELSE BufferWrite(IF Len(r.buf.data) >= c.buffer THEN FlushInner(c, day, r, fault)
                     ELSE [r EXCEPT !.ok = TRUE], m)

\* Dispatch: an error is reported.
Report(r, m) == IF r.ok THEN r ELSE [r EXCEPT !.reported = @ \cup {m}]

Dispatch(c, day, r, m, fault) ==
    Report(IF c.buffer = 0 THEN RollingWrite(c, day, r, <<m>>, fault)
           ELSE BufferedWrite(c, day, r, m, fault), m)

\* Flush, of the dispatcher: its writers may be buffers, and say nothing.
DispatcherFlush(c, day, r, fault) == IF c.buffer = 0 THEN r ELSE FlushInner(c, day, r, fault)

\* Close, of the dispatcher.
DispatcherClose(c, day, r, fault) == RollingClose(DispatcherFlush(c, day, r, fault))

-----------------------------------------------------------------------------
\* File a was begun before file b: by size the current file is the newest.
Older(c, a, b) == IF c.rolling = "size" THEN a # 0 /\ (b = 0 \/ a < b) ELSE a < b

OnDisk(disk) == UNION {ToSet(disk[n]) : n \in DOMAIN disk}

\* The files, from the oldest to the newest, hold greater and greater messages.
InOrder(c, disk) ==
    /\ \A n \in DOMAIN disk : \A i, j \in DOMAIN disk[n] : i < j => disk[n][i] < disk[n][j]
    /\ \A a, b \in DOMAIN disk : Older(c, a, b) =>
          \A k \in ToSet(disk[a]), l \in ToSet(disk[b]) : k < l
=============================================================================
