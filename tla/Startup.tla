------------------------------- MODULE Startup -------------------------------
(***************************************************************************)
(* The start of eTunnel: src/src/common/et_base_main.go,                   *)
(* src/src/common/et_config.go and src/src/apps/eTunnel/eTunnel.go, down   *)
(* to the first tunnel of a server, which KeepAlive models.                *)
(*                                                                         *)
(* ParseCommandAndFile is called by the process that is started, by the    *)
(* daemon it forks, and by the daemon's app_main again; each reads the     *)
(* file anew, and the last two decode it into one common.G.  Processes do  *)
(* not overlap in anything they share, so the variables are those of the   *)
(* process that goes on.                                                   *)
(***************************************************************************)
EXTENDS KeepAlive, TomlDecode

CONSTANTS
    Starts,     \* the command lines, each with the configuration file there is
    Saved,      \* what an operator may replace that file by
    MaxEdits,   \* bound: how often
    Meaning,    \* of some files, the values they give to each field
    GoodLogs    \* the names of the files seelog makes a logger from

VARIABLES
    command,    \* common.C
    file,       \* the configuration file
    edits,      \* how often it was replaced
    daemon,     \* __CANCEL_DAEMON__ is set: this is the daemon
    announced,  \* "Start daemon succ" was printed
    call,       \* who called ParseCommandAndFile: "base" or "app"
    stage,      \* "command", "parse", "parsed", "serving" or "exit"
    code,       \* exit code
    parser      \* of toml.Decode

tunnelVars == <<alive, connAlive, gone, reqs, ress, respPc, limit, waited, age, stalled, away>>
startVars == <<command, file, edits, daemon, announced, call, stage, code, parser>>
startupVars == <<G, tunnelVars, startVars>>

NoFile == <<"none">>
NoParser == NewParser(<<>>)

StartupInit ==
    /\ \E s \in Starts : command = s.command /\ file = s.file
    /\ edits = 0 /\ daemon = FALSE /\ announced = FALSE /\ call = "base" /\ stage = "command"
    /\ code = 0 /\ parser = NoParser
    /\ G = ZeroConfig /\ Fresh

Exit(c) ==
    /\ stage' = "exit" /\ code' = c
    /\ UNCHANGED <<G, tunnelVars, command, file, edits, daemon, announced, call, parser>>

-----------------------------------------------------------------------------
(* ParseCommandAndFile                                                     *)

BadCommand ==
    \/ command.type \notin {"server", "client"}
    \/ command.type = "client" /\ ~command.dest

ReadFile ==
    /\ stage = "command"
    /\ IF command.version THEN Exit(0)
       ELSE IF BadCommand \/ file = NoFile THEN Exit(-1)
       ELSE /\ stage' = "parse" /\ parser' = NewParser(file)
            /\ UNCHANGED <<G, tunnelVars, command, file, edits, daemon, announced, call, code>>

Parse ==
    /\ stage = "parse" /\ ~ParseEnded(parser) /\ parser' = ParseStep(parser)
    /\ UNCHANGED <<G, tunnelVars, command, file, edits, daemon, announced, call, stage, code>>

\* The check tags: of the sections of both types, whichever is started.
CheckStruct(s, v) ==
    \A f \in DOMAIN Fields[s] :
        IF Fields[s][f].type = "String" THEN v[f] # <<>> ELSE v[f] > 0
Check_InTheDaemon(g) ==
    daemon => \A s \in DOMAIN Fields : CheckStruct(s, g[s])
Check(g) == \A s \in DOMAIN Fields : CheckStruct(s, g[s])

Section == IF command.type = "server" THEN "Server" ELSE "Client"

WithLogConf_Both(g) ==
    IF command.logconf = <<>> THEN g
    ELSE [g EXCEPT !.Server.LogConfigFile = command.logconf, !.Client.LogConfigFile = command.logconf]
\* The option logconf takes the place of the file's, once the file's is checked.
WithLogConf(g) ==
    IF command.logconf = <<>> THEN g ELSE [g EXCEPT ![Section].LogConfigFile = command.logconf]

\* The rest of ParseCommandAndFile, once toml.parse is through.
DecodeFile ==
    /\ stage = "parse" /\ ParseEnded(parser)
    /\ \/ parser.mode = "error" /\ Exit(-1)
       \/ parser.mode = "bug" /\ Exit(1)
       \/ parser.mode = "done" /\ Mismatch(parser.mapping) /\ Exit(-1)
       \/ /\ parser.mode = "done" /\ ~Mismatch(parser.mapping)
          /\ \E g \in Decoded(parser.mapping, G) :
                IF ~Check(g) \/ WithLogConf(g)[Section].LogConfigFile \notin GoodLogs
                THEN Exit(-1)
                ELSE /\ G' = WithLogConf(g) /\ stage' = "parsed"
                     /\ UNCHANGED <<tunnelVars, command, file, edits, daemon, announced, call,
                                    code, parser>>

-----------------------------------------------------------------------------
(* BaseMain and app_main                                                   *)

Fork_WithoutEnv ==
    /\ stage = "parsed" /\ call = "base" /\ ~daemon /\ ~command.foreground
    /\ stage' = "command" /\ announced' = TRUE /\ G' = ZeroConfig /\ parser' = NoParser
    /\ UNCHANGED <<tunnelVars, command, file, edits, daemon, call, code>>
\* The daemon starts with the same arguments and nothing else of its parent's.
Fork ==
    /\ stage = "parsed" /\ call = "base" /\ ~daemon /\ ~command.foreground
    /\ stage' = "command" /\ daemon' = TRUE /\ announced' = TRUE
    /\ G' = ZeroConfig /\ parser' = NoParser
    /\ UNCHANGED <<tunnelVars, command, file, edits, call, code>>

\* ForkExec fails, with the descriptor of a file that was not opened for one.
ForkFails ==
    /\ stage = "parsed" /\ call = "base" /\ ~daemon /\ ~command.foreground
    /\ Exit(-1)

AppMain ==
    /\ stage = "parsed" /\ call = "base" /\ (daemon \/ command.foreground)
    /\ call' = "app" /\ stage' = "command" /\ parser' = NoParser
    /\ UNCHANGED <<G, tunnelVars, command, file, edits, daemon, announced, code>>

\* ListenAndServe, or Start of the clientServer.  The file is of no more use.
Serve ==
    /\ stage = "parsed" /\ call = "app" /\ stage' = "serving"
    /\ parser' = NoParser /\ file' = NoFile
    /\ UNCHANGED <<G, tunnelVars, command, edits, daemon, announced, call, code>>

\* The address is in use: the error is not looked at, and main returns.
ListenFails == stage = "parsed" /\ call = "app" /\ Exit(0)

\* An operator saves the file, between two of its readers.
Edit ==
    /\ stage = "command" /\ file \in Saved /\ edits < MaxEdits /\ edits' = edits + 1
    /\ file' \in Saved \ {file}
    /\ UNCHANGED <<G, tunnelVars, command, daemon, announced, call, stage, code, parser>>

Starting == ReadFile \/ Parse \/ DecodeFile \/ Fork \/ ForkFails \/ AppMain \/ Serve \/ ListenFails

\* The first tunnel of a server.
Tunnel(A) ==
    /\ stage = "serving" /\ command.type = "server" /\ alive
    /\ A /\ UNCHANGED startVars

TunnelStep ==
    \/ Tunnel(Request) \/ Tunnel(Process) \/ Tunnel(Start) \/ Tunnel(Block) \/ Tunnel(Written)
    \/ Tunnel(NoBlock) \/ Tunnel(TargetDies) \/ Tunnel(ClientDies) \/ Tunnel(CheckLoop)
    \/ Tunnel(Tick)

StartupNext == Starting \/ Edit \/ TunnelStep

\* The process runs; the fairness of the tunnel is KeepAlive's.
StartupFairness ==
    /\ WF_startupVars(Starting)
    /\ WF_startupVars(Tunnel(Process))
    /\ WF_startupVars(Tunnel(Start \/ NoBlock))
    /\ WF_startupVars(Tunnel(CheckLoop))
    /\ SF_startupVars(Tunnel(Tick))

StartupSpec == StartupInit /\ [][StartupNext]_startupVars /\ StartupFairness

-----------------------------------------------------------------------------
(* Properties                                                              *)

Same(v, w) == v.type = w.type /\ v.val = w.val
SameMark(path, q) == Mark(path) = Mark(q)

\* A file that is accepted loses nothing: the value of every key is in the mapping
\* and no path is defined twice.  But the mark of an implicit table, which is kept
\* under the names with dots between them, lets through what it was not made for:
\* a value of that name is dropped, and a table of that name, in another element of
\* an array or by a name with a dot in it, may be defined twice.
KeyIsKept ==
    parser.mode = "done" =>
        /\ \A i \in DOMAIN parser.said :
              \/ Same(parser.mapping[parser.said[i].path], parser.said[i].v)
              \/ \E q \in parser.made : SameMark(parser.said[i].path, q)
        /\ \A i, j \in DOMAIN parser.said :
              i < j /\ parser.said[i].path = parser.said[j].path =>
                 \E q \in parser.made : q # parser.said[i].path /\ SameMark(parser.said[i].path, q)

\* What the mapping has for a field.
ValuesFor(mapping, s, f) == {mapping[at].val : at \in Keys(mapping, s, f)}

\* A file that is accepted means what it says, for every field and in whatever way it is
\* written: the lexer and the parser hand over its values and no other.
FileIsMeant ==
    parser.mode = "done" /\ ~Mismatch(parser.mapping) /\ file \in DOMAIN Meaning =>
        \A s \in DOMAIN Fields : \A f \in DOMAIN Fields[s] :
            ValuesFor(parser.mapping, s, f) = Meaning[file][s][f]

\* A process goes on with what its file says for every field, except for the log's file,
\* which the option logconf replaces in the section of the type that is started; and a
\* field the file says nothing of is left from an earlier file.
ServedIsWritten ==
    stage = "parsed" =>
        \A s \in DOMAIN Fields : \A f \in DOMAIN Fields[s] :
            IF s = Section /\ f = "LogConfigFile" /\ command.logconf # <<>>
            THEN G[s][f] = command.logconf
            ELSE \/ G[s][f] \in ValuesFor(parser.mapping, s, f)
                 \/ ValuesFor(parser.mapping, s, f) = {} /\ edits > 0

\* A file with two keys for one field: any process may take the other one.
Ambiguous(mapping) ==
    \E s \in DOMAIN Fields : \E f \in DOMAIN Fields[s] : Cardinality(Keys(mapping, s, f)) > 1

\* When the start of the daemon was announced, the daemon does not refuse what its
\* parent accepted, unless the file was saved in between or has two keys for a field.
AnnouncedIsServed ==
    announced /\ stage = "exit" => code = 0 \/ edits > 0 \/ Ambiguous(parser.mapping)

\* A start comes to an end: the process serves or it exits, unless the lexer goes
\* on for ever.
StartIsDecided == <>(stage \in {"serving", "exit"} \/ LexerIsStuck(parser.lx))
=============================================================================
