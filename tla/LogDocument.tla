----------------------------- MODULE LogDocument ------------------------------
(***************************************************************************)
(* The configuration of a logger: src/src/third/seelog/cfg_parser.go, with *)
(* the constraints, exceptions and filters that it makes.                  *)
(*                                                                         *)
(* A document is the tree of its elements: a record [name, attrs, children] *)
(* whose attrs are a function of the attributes that are there.  The value *)
(* of "levels" is the sequence of the names in its list, and a pattern is  *)
(* the sequence of its characters; "!" stands for the ones that a pattern  *)
(* may not have.  Other values are strings.  A call of the logger is a     *)
(* record [level, func, path, valid, size]: its function and the full path *)
(* of its file, if runtime.Caller tells them (valid), as sequences of      *)
(* characters.                                                             *)
(*                                                                         *)
(* The model follows one of the files that a document names, "log".        *)
(***************************************************************************)
EXTENDS Integers, FiniteSets, Sequences, SequencesExt

\* strconv: what is not in its domain is not a number.
Number == [s \in {"-1", "0", "1", "2", "3", "9"} |->
             CASE s = "-1" -> -1 [] s = "0" -> 0 [] s = "1" -> 1 [] s = "2" -> 2
               [] s = "3" -> 3 [] s = "9" -> 9]

Has(node, attr) == attr \in DOMAIN node.attrs
HasIn(node, attr, values) == Has(node, attr) /\ node.attrs[attr] \in values
MayHaveIn(node, attr, values) == Has(node, attr) => node.attrs[attr] \in values
Numbers(from) == {s \in DOMAIN Number : Number[s] >= from}
NumberOf(node, attr) == IF Has(node, attr) THEN Number[node.attrs[attr]] ELSE 0

\* checkUnexpectedAttribute
Only(node, attrs) == DOMAIN node.attrs \subseteq attrs

Section(doc, name) == SelectSeq(doc.children, LAMBDA child : child.name = name)

\* checkExpectedElements: of seelog, where each is optional, and of a list of elements.
AtMostOneOfEach(doc, names) ==
    /\ \A i \in DOMAIN doc.children : doc.children[i].name \in names
    /\ \A name \in names : Len(Section(doc, name)) <= 1
SomeOf(node, name) ==
    node.children # <<>> /\ \A i \in DOMAIN node.children : node.children[i].name = name

-----------------------------------------------------------------------------
(* Levels                                                                  *)

Levels == <<"trace", "debug", "info", "warn", "error", "critical">>
LevelNumber(level) == CHOOSE i \in DOMAIN Levels : Levels[i] = level

\* parseLevels
KnownLevels(list) == ToSet(list) \subseteq ToSet(Levels) \cup {"off"}

MinLevel(node) == IF Has(node, "minlevel") THEN node.attrs.minlevel ELSE "trace"
MaxLevel(node) == IF Has(node, "maxlevel") THEN node.attrs.maxlevel ELSE "critical"

IsOff(node) ==
    \/ HasIn(node, "levels", {<<"off">>})
    \/ HasIn(node, "minlevel", {"off"}) /\ ~Has(node, "maxlevel")

\* getConstraints: whether there is no error, and the levels allowed.
GoodConstraints(node) ==
    /\ ~{"levels", "minlevel", "maxlevel"} \subseteq DOMAIN node.attrs
    /\ IF IsOff(node) THEN TRUE
       ELSE IF Has(node, "levels")
       THEN /\ KnownLevels(node.attrs.levels)
            /\ "off" \in ToSet(node.attrs.levels) => ToSet(node.attrs.levels) = {"off"}
       ELSE /\ {MinLevel(node), MaxLevel(node)} \subseteq ToSet(Levels)
            /\ LevelNumber(MinLevel(node)) <= LevelNumber(MaxLevel(node))

Constraints(node) ==
    IF IsOff(node) THEN {}
    ELSE IF Has(node, "levels") THEN ToSet(node.attrs.levels) \ {"off"}
    ELSE {Levels[i] : i \in LevelNumber(MinLevel(node)) .. LevelNumber(MaxLevel(node))}

-----------------------------------------------------------------------------
(* Exceptions                                                              *)

Star == <<"*">>

\* splitPattern: asterisks side by side are one.
SplitPattern(pattern) ==
    FoldLeft(LAMBDA parts, c :
               IF parts = <<>> THEN <<<<c>>>>
               ELSE IF c = "*" THEN IF Last(parts) = Star THEN parts ELSE Append(parts, Star)
               ELSE IF Last(parts) = Star THEN Append(parts, <<c>>)
               ELSE Append(Front(parts), Append(Last(parts), c)),
             <<>>, pattern)

Rest(s, n) == SubSeq(s, n + 1, Len(s))

RECURSIVE StringMatchesPattern(_, _), FoundAfterStar(_, _)
StringMatchesPattern(parts, s) ==
    IF parts = <<>> THEN s = <<>>
    ELSE IF parts[1] # Star
    THEN IsPrefix(parts[1], s) /\ StringMatchesPattern(Tail(parts), Rest(s, Len(parts[1])))
    ELSE Len(parts) = 1 \/ FoundAfterStar(parts, s)

\* The part behind an asterisk is looked for behind its last find, so that finds which
\* overlap are not tried.
FoundAfterStar(parts, s) ==
    LET part == parts[2]
        found == {i \in 0 .. Len(s) - Len(part) : SubSeq(s, i + 1, i + Len(part)) = part}
    IN IF found = {} THEN FALSE
       ELSE LET rest == Rest(s, (CHOOSE i \in found : \A j \in found : i <= j) + Len(part))
            IN StringMatchesPattern(Rest(parts, 2), rest) \/ FoundAfterStar(parts, rest)

PatternOf(node, attr) == SplitPattern(IF Has(node, attr) THEN node.attrs[attr] ELSE Star)
GoodPattern(node, attr) == Has(node, attr) => "!" \notin ToSet(node.attrs[attr])

\* NewLogLevelException
Exception(node) ==
    [func |-> PatternOf(node, "funcpattern"), file |-> PatternOf(node, "filepattern"),
     levels |-> Constraints(node)]

GoodException(node) ==
    /\ Only(node, {"minlevel", "maxlevel", "levels", "funcpattern", "filepattern"})
    /\ GoodConstraints(node)
    /\ GoodPattern(node, "funcpattern") /\ GoodPattern(node, "filepattern")

Distinct_AsWritten(nodes) ==
    \A i, j \in DOMAIN nodes : i # j => nodes[i].attrs # nodes[j].attrs
\* checkDistinctExceptions
Distinct(nodes) ==
    \A i, j \in DOMAIN nodes :
        i # j => \/ PatternOf(nodes[i], "funcpattern") # PatternOf(nodes[j], "funcpattern")
                 \/ PatternOf(nodes[i], "filepattern") # PatternOf(nodes[j], "filepattern")

\* getExceptions
GoodExceptions(node) ==
    /\ Only(node, {}) /\ SomeOf(node, "exception")
    /\ \A i \in DOMAIN node.children : GoodException(node.children[i])
    /\ Distinct(node.children)

Exceptions(doc) ==
    FlattenSeq([i \in DOMAIN Section(doc, "exceptions") |->
        LET nodes == Section(doc, "exceptions")[i].children
        IN [j \in DOMAIN nodes |-> Exception(nodes[j])]])

Matches(exception, call) ==
    /\ StringMatchesPattern(exception.func, call.func)
    /\ StringMatchesPattern(exception.file, call.path)

\* IsAllowed: the first exception that matches decides, for a call whose place is known.
IsAllowed(conf, call) ==
    LET hits == SelectSeq(conf.exceptions, LAMBDA e : call.valid /\ Matches(e, call))
    IN call.level \in IF hits = <<>> THEN conf.general ELSE Head(hits).levels

\* fillUnusedLevels: nothing allows them anywhere.
UnusedLevels(conf) ==
    ToSet(Levels) \ (conf.general \cup UNION {e.levels : e \in ToSet(conf.exceptions)})

-----------------------------------------------------------------------------
(* Formats                                                                 *)

\* getFormats.  "bad" stands for the formats that NewFormatter refuses.
GoodFormats(node) ==
    /\ Only(node, {}) /\ SomeOf(node, "format")
    /\ \A i \in DOMAIN node.children :
          /\ DOMAIN node.children[i].attrs = {"id", "format"}
          /\ node.children[i].attrs.format # "bad"

FormatIds(doc) ==
    UNION {{f.attrs.id : f \in ToSet(node.children)} : node \in ToSet(Section(doc, "formats"))}

Predefined ==
    {"std:xml-debug", "std:xml-debug-short", "std:xml", "std:xml-short", "std:json-debug",
     "std:json-debug-short", "std:json", "std:json-short", "std:debug", "std:debug-short", "std:fast"}

\* getCurrentFormat
GoodFormatId(node, ids) == MayHaveIn(node, "formatid", ids \cup Predefined)
FormatOf(node, parent) == IF Has(node, "formatid") THEN node.attrs.formatid ELSE parent

-----------------------------------------------------------------------------
(* Receivers                                                               *)

\* The attributes that the createX functions allow and ask for.  A custom receiver
\* is refused: the program registers none.
MayHave ==
    [splitter |-> {"formatid"}, filter |-> {"formatid", "levels"},
     file |-> {"formatid", "path"}, console |-> {"formatid"},
     smtp |-> {"formatid", "senderaddress", "sendername", "hostname", "hostport", "username",
               "password", "subject"},
     conn |-> {"formatid", "addr", "net", "reconnectonmsg", "tls", "insecureskipverify"},
     rollingfile |-> {"formatid", "type", "filename", "maxsize", "maxrolls", "archivetype",
                      "archivepath", "namemode", "datepattern"},
     buffered |-> {"formatid", "size", "flushperiod"}]
MustHave ==
    [splitter |-> {}, filter |-> {"levels"}, file |-> {"path"}, console |-> {},
     smtp |-> MayHave.smtp \ {"formatid", "subject"}, conn |-> {"addr", "net"},
     rollingfile |-> {"type", "filename"}, buffered |-> {"size"}]
WithChildren == {"splitter", "filter", "smtp", "buffered"}

GoodRollingFile(node) ==
    /\ HasIn(node, "type", {"size", "date"})
    /\ IF node.attrs.type = "size" THEN HasIn(node, "maxsize", DOMAIN Number) /\ ~Has(node, "datepattern")
                                   ELSE Has(node, "datepattern") /\ ~Has(node, "maxsize")
    /\ MayHaveIn(node, "maxrolls", DOMAIN Number)
    /\ MayHaveIn(node, "archivetype", {"none", "zip"})
    /\ MayHaveIn(node, "namemode", {"prefix", "postfix"})

\* Only the first child is looked at, and used.
GoodBuffered(node, format) ==
    /\ HasIn(node, "size", Numbers(1))
    /\ MayHaveIn(node, "flushperiod", Numbers(0))
    /\ node.children[1].name \notin {"splitter", "filter"}
    /\ FormatOf(node.children[1], format) = format

SmtpChildren == [recipient |-> {"address"}, cacertdirpath |-> {"path"}, header |-> {"name", "value"}]
GoodSmtp(node) ==
    /\ HasIn(node, "hostport", DOMAIN Number)
    /\ \A child \in ToSet(node.children) :
          child.name \in DOMAIN SmtpChildren /\ SmtpChildren[child.name] \subseteq DOMAIN child.attrs

GoodConn(node) ==
    /\ MayHaveIn(node, "reconnectonmsg", {"true", "false"})
    /\ MayHaveIn(node, "tls", {"true", "false"})
    /\ HasIn(node, "tls", {"true"}) => MayHaveIn(node, "insecureskipverify", {"true", "false"})

RECURSIVE GoodReceiver(_, _, _)
GoodReceiver(node, parent, ids) ==
    /\ node.name \in DOMAIN MayHave
    /\ Only(node, MayHave[node.name]) /\ MustHave[node.name] \subseteq DOMAIN node.attrs
    /\ (node.children # <<>>) = (node.name \in WithChildren)
    /\ GoodFormatId(node, ids)
    /\ node.name = "filter" => KnownLevels(node.attrs.levels)
    /\ node.name = "rollingfile" => GoodRollingFile(node)
    /\ node.name = "conn" => GoodConn(node)
    /\ IF node.name = "smtp" THEN GoodSmtp(node)
       ELSE \A i \in DOMAIN node.children :
                GoodReceiver(node.children[i], FormatOf(node, parent), ids)
    /\ node.name = "buffered" => GoodBuffered(node, FormatOf(node, parent))

\* getOutputsTree
GoodOutputs(node, ids) ==
    /\ Only(node, {"formatid"}) /\ GoodFormatId(node, ids)
    /\ node.children # <<>>
    /\ \A i \in DOMAIN node.children :
          GoodReceiver(node.children[i], FormatOf(node, "default"), ids)

\* createRollingFileWriter, where levels come through the filters around it.
RollingFile(node, levels) ==
    [levels |-> levels, filename |-> node.attrs.filename, rolling |-> node.attrs.type,
     maxSize |-> NumberOf(node, "maxsize"), maxRolls |-> NumberOf(node, "maxrolls"),
     buffer |-> 0, periodic |-> FALSE]

\* The rolling files below an element, as its splitters, filters and buffers make them.
RECURSIVE RollingFiles(_, _)
RollingFiles(node, levels) ==
    CASE node.name = "rollingfile" -> {RollingFile(node, levels)}
      [] node.name \in {"outputs", "splitter"} ->
            UNION {RollingFiles(child, levels) : child \in ToSet(node.children)}
      [] node.name = "filter" ->
            UNION {RollingFiles(child, levels \cap ToSet(node.attrs.levels)) :
                    child \in ToSet(node.children)}
      [] node.name = "buffered" ->
            {[f EXCEPT !.buffer = NumberOf(node, "size"),
                       !.periodic = NumberOf(node, "flushperiod") > 0] :
                f \in RollingFiles(node.children[1], levels)}
      [] OTHER -> {}

NoFile ==
    [levels |-> {}, filename |-> "log", rolling |-> "size", maxSize |-> 1, maxRolls |-> 0,
     buffer |-> 0, periodic |-> FALSE]
Followed(doc) ==
    LET files == {f \in UNION {RollingFiles(node, ToSet(Levels)) :
                                node \in ToSet(Section(doc, "outputs"))} : f.filename = "log"}
    IN IF files = {} THEN NoFile ELSE CHOOSE f \in files : TRUE

-----------------------------------------------------------------------------
(* The document                                                            *)

TypeOf(doc) == IF Has(doc, "type") THEN doc.attrs.type ELSE "asyncloop"

\* The longest interval and the highest count of an adaptive logger, as the model has them.
AdaptiveMax == 3

\* getloggerTypeFromStringData, and the checks of NewAsyncAdaptiveLogger.
GoodType(doc) ==
    \/ TypeOf(doc) \in {"sync", "asyncloop"}
    \/ TypeOf(doc) = "asynctimer" /\ HasIn(doc, "asyncinterval", Numbers(0))
    \/ /\ TypeOf(doc) = "adaptive"
       /\ HasIn(doc, "mininterval", Numbers(1))
       /\ HasIn(doc, "maxinterval", Numbers(0) \ Numbers(AdaptiveMax + 1))
       /\ HasIn(doc, "critmsgcount", Numbers(1) \ Numbers(AdaptiveMax + 1))

GoodDocument(doc) ==
    /\ doc.name = "seelog"
    /\ Only(doc, {"minlevel", "maxlevel", "levels", "type", "asyncinterval", "mininterval",
                  "maxinterval", "critmsgcount"})
    /\ AtMostOneOfEach(doc, {"outputs", "formats", "exceptions"})
    /\ GoodConstraints(doc)
    /\ \A node \in ToSet(Section(doc, "exceptions")) : GoodExceptions(node)
    /\ \A node \in ToSet(Section(doc, "formats")) : GoodFormats(node)
    /\ \A node \in ToSet(Section(doc, "outputs")) : GoodOutputs(node, FormatIds(doc))
    /\ GoodType(doc)

\* createLoggerFromFullConfig: the error of NewAsyncTimerLogger is not looked at, and there
\* is a logger of its type that is nil.
Outcome(doc) ==
    IF ~GoodDocument(doc) THEN "refused"
    ELSE IF TypeOf(doc) = "asynctimer" /\ NumberOf(doc, "asyncinterval") = 0 THEN "nil"
    ELSE "logger"

Configuration(doc) ==
    Followed(doc) @@
    [async |-> TypeOf(doc) # "sync", general |-> Constraints(doc), exceptions |-> Exceptions(doc)]

\* newCommonLogger: the configuration of a logger, and of every call of it whether its level
\* is unused, whether the constraints and exceptions, and then the filters, let its message
\* pass (processLogMsg), and whether the message is too big for the buffer.
Configured(doc, calls) ==
    LET c == Configuration(doc) IN
    [async |-> c.async, rolling |-> c.rolling, maxSize |-> c.maxSize, maxRolls |-> c.maxRolls,
     buffer |-> c.buffer, periodic |-> c.periodic,
     unused |-> {m \in DOMAIN calls : calls[m].level \in UnusedLevels(c)},
     big |-> {m \in DOMAIN calls : calls[m].size > c.buffer},
     passes |-> {m \in DOMAIN calls : IsAllowed(c, calls[m]) /\ calls[m].level \in c.levels}]
NoConfiguration ==
    [async |-> FALSE, rolling |-> "size", maxSize |-> 1, maxRolls |-> 0, buffer |-> 0,
     periodic |-> FALSE, unused |-> {}, big |-> {}, passes |-> {}]

\* What LoggerFromConfigAsFile makes of a document.
LoggerOf(doc, calls) ==
    [outcome |-> Outcome(doc),
     conf |-> IF Outcome(doc) = "logger" THEN Configured(doc, calls) ELSE NoConfiguration]
=============================================================================
