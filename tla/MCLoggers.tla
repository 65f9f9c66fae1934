------------------------------ MODULE MCLoggers -------------------------------
EXTENDS Loggers, LogDocument

E(name, attrs, children) == [name |-> name, attrs |-> attrs, children |-> children]
None == <<>>
Rolling(type) == "type" :> type @@ "filename" :> "log"
SizeFile(maxSize, maxRolls) ==
    E("rollingfile", Rolling("size") @@ "maxsize" :> maxSize @@ "maxrolls" :> maxRolls, <<>>)
DateFile(maxRolls) ==
    E("rollingfile", Rolling("date") @@ "datepattern" :> "p" @@ "maxrolls" :> maxRolls, <<>>)
Other == E("rollingfile", ("type" :> "size") @@ ("filename" :> "err") @@ ("maxsize" :> "1"), <<>>)
Console == E("console", None, <<>>)
Filter(levels, children) == E("filter", "levels" :> levels, children)
Buffered(size, period, children) ==
    E("buffered", "size" :> size @@ (IF period = "" THEN None ELSE "flushperiod" :> period), children)
Outputs(children) == E("outputs", None, children)
Exc(attrs) == E("exception", attrs, <<>>)
ExceptionsOf(children) == E("exceptions", None, children)
FormatsOf(ids) == E("formats", None, [i \in DOMAIN ids |-> E("format", "id" :> ids[i] @@ "format" :> "f", <<>>)])
Seelog(attrs, children) == E("seelog", attrs, children)
Sync(children) == Seelog("type" :> "sync", children)
Async(children) == Seelog("type" :> "asyncloop", children)

Call(level, func, name, size) ==
    [level |-> level, func |-> func, path |-> <<"/">> \o name, valid |-> TRUE, size |-> size]
Unknown == [Call("info", <<"e">>, <<"e">>, 1) EXCEPT !.valid = FALSE]
MCCalls ==
    <<Call("info", <<"a">>, <<"x">>, 1), Call("warn", <<"a", "b">>, <<"x">>, 1),
      Call("error", <<"b">>, <<"x", "y", "x">>, 3), Call("info", <<"a", "b">>, <<"x", "y", "x">>, 1),
      Unknown>>

\* How the log of a document that means everything fares in time.
Instance(document, means, f, d, s) ==
    LoggerOf(document, MCCalls) @@ [means |-> means, faults |-> f, days |-> d, starts |-> s]
Lives(document, f, d, s) ==
    Instance(document, [outcome |-> "logger", calls |-> DOMAIN MCCalls], f, d, s)
LongLives ==
    {Lives(Sync(<<FormatsOf(<<"main">>),
                  E("outputs", "formatid" :> "main",
                    <<Filter(<<"debug", "trace", "info", "warn", "error">>, <<DateFile("1")>>),
                      Filter(<<"warn", "error">>, <<Other>>)>>)>>), 1, 2, 2),
     Lives(Sync(<<Outputs(<<SizeFile("1", "1")>>)>>), 1, 0, 2),
     Lives(Async(<<Outputs(<<SizeFile("2", "1")>>)>>), 1, 0, 2),
     Lives(Sync(<<Outputs(<<Buffered("2", "1", <<SizeFile("2", "1")>>)>>)>>), 1, 0, 2),
     Lives(Seelog("type" :> "asynctimer" @@ "asyncinterval" :> "1",
                  <<Outputs(<<Buffered("1", "9", <<DateFile("0")>>)>>)>>), 1, 2, 2),
     Lives(Seelog(None, <<Outputs(<<Buffered("2", "0", <<SizeFile("1", "-1")>>)>>)>>), 1, 0, 2)}

\* What documents mean.
Means(document, calls) == Instance(document, [outcome |-> "logger", calls |-> calls], 0, 0, 1)
Is(document, outcome) == Instance(document, [outcome |-> outcome, calls |-> {}], 0, 0, 1)
ToFile == Outputs(<<SizeFile("9", "0")>>)
Levelled(attrs) == Seelog("type" :> "sync" @@ attrs, <<ToFile>>)
Excepted(attrs, exceptions) ==
    Seelog("type" :> "sync" @@ attrs, <<ToFile, ExceptionsOf([i \in DOMAIN exceptions |-> Exc(exceptions[i])])>>)
With(receiver) == Sync(<<Outputs(<<receiver>>)>>)

\* The example of doc.go, with a rolling file for the plain one that gets every message, and
\* files whose names start with "x" for those that start with "test".  doc.go says that of
\* such files only errors are logged; the pattern meets no full path, and all calls are.
DocExample ==
    Seelog("type" :> "adaptive" @@ "mininterval" :> "2" @@ "maxinterval" :> "3" @@ "critmsgcount" :> "2"
              @@ "minlevel" :> "debug",
           <<ExceptionsOf(<<Exc("filepattern" :> <<"x", "*">> @@ "minlevel" :> "error")>>),
             E("outputs", "formatid" :> "all",
               <<SizeFile("9", "0"),
                 Filter(<<"info">>, <<E("console", "formatid" :> "fmtinfo", <<>>)>>),
                 E("filter", "levels" :> <<"error", "critical">> @@ "formatid" :> "fmterror",
                   <<Console, E("file", "path" :> "errors", <<>>)>>)>>),
             FormatsOf(<<"fmtinfo", "fmterror", "all", "criticalemail">>)>>)

Meanings ==
    {Means(Levelled("minlevel" :> "warn"), {2, 3}),
     Means(Levelled("maxlevel" :> "warn"), {1, 2, 4, 5}),
     Means(Levelled("minlevel" :> "info" @@ "maxlevel" :> "info"), {1, 4, 5}),
     Means(Levelled("levels" :> <<"info", "error">>), {1, 3, 4, 5}),
     Means(Levelled("levels" :> <<"off">>), {}),
     Means(Levelled("minlevel" :> "off"), {}),
     Means(Excepted("minlevel" :> "error", <<"funcpattern" :> <<"a", "*">> @@ "minlevel" :> "trace">>), {1, 2, 3, 4}),
     Means(Excepted("minlevel" :> "error",
             <<"funcpattern" :> <<"*", "b">> @@ "maxlevel" :> "warn",
               "filepattern" :> <<"/", "x", "*", "*", "x">> @@ "levels" :> <<"off">>>>), {2, 4}),
     Means(Excepted("minlevel" :> "off", <<"filepattern" :> <<"*", "y", "x">> @@ "minlevel" :> "warn">>), {3}),
     Means(Excepted("levels" :> <<"off">>, <<"funcpattern" :> <<"a">> @@ "filepattern" :> <<"/", "x">> @@ "levels" :> <<"info">>>>), {1}),
     Means(Excepted(None, <<"levels" :> <<"off">>>>), {5}),
     Means(Excepted(None, <<"filepattern" :> <<"*", "/", "x", "y", "*">> @@ "minlevel" :> "error">>), {1, 2, 3, 5}),
     Means(DocExample, {1, 2, 3, 4, 5}),
     Means(With(E("splitter", None, <<Console, Filter(<<"info", "warn">>, <<Filter(<<"warn", "error">>, <<SizeFile("9", "0")>>)>>)>>)), {2}),
     Means(With(Filter(<<"off">>, <<SizeFile("9", "0")>>)), {}),
     Means(With(Console), {}), Means(Sync(<<>>), {}),
     Means(Seelog("type" :> "adaptive" @@ "mininterval" :> "1" @@ "maxinterval" :> "3" @@ "critmsgcount" :> "2", <<ToFile>>), {1, 2, 3, 4, 5})}

InError ==
    {Levelled("minlevel" :> "error" @@ "maxlevel" :> "debug"), Levelled("minlevel" :> "off" @@ "maxlevel" :> "trace"),
        Levelled("minlevel" :> "warn" @@ "maxlevel" :> "error" @@ "levels" :> <<"debug">>), Levelled("levels" :> <<"info", "off">>),
        Levelled("levels" :> <<"inf">>), Levelled("maxlevel" :> "off"), Levelled("level" :> "info"),
        Excepted(None, <<None, "funcpattern" :> <<"*", "*">>>>), Excepted(None, <<"filepattern" :> <<"!">>>>), Excepted(None, <<>>),
        Sync(<<ToFile, ToFile>>), Sync(<<Outputs(<<>>)>>), Sync(<<E("file", None, <<>>)>>), Sync(<<ToFile, FormatsOf(<<>>)>>),
        With(E("custom", "name" :> "n", <<>>)), With(E("splitter", None, <<>>)), With(Filter(<<"info">>, <<>>)),
        With(E("filter", None, <<Console>>)), With(E("console", "path" :> "p", <<>>)), With(E("console", "formatid" :> "main", <<>>)),
        With(E("rollingfile", Rolling("size"), <<>>)), With(E("rollingfile", Rolling("date") @@ "maxsize" :> "1" @@ "datepattern" :> "p", <<>>)),
        With(SizeFile("x", "0")), With(SizeFile("9", "x")), With(E("rollingfile", Rolling("daily") @@ "datepattern" :> "p", <<>>)),
        With(Buffered("0", "", <<Console>>)), With(Buffered("1", "-1", <<Console>>)), With(Buffered("1", "", <<Filter(<<"info">>, <<Console>>)>>)),
        With(Buffered("1", "", <<E("console", "formatid" :> "std:fast", <<>>)>>)), With(E("conn", "addr" :> "a" @@ "net" :> "n" @@ "tls" :> "yes", <<>>)),
        Seelog("type" :> "async", <<ToFile>>), Seelog("type" :> "asynctimer", <<ToFile>>),
        Seelog("type" :> "asynctimer" @@ "asyncinterval" :> "-1", <<ToFile>>),
        Seelog("type" :> "adaptive" @@ "mininterval" :> "0" @@ "maxinterval" :> "3" @@ "critmsgcount" :> "2", <<ToFile>>),
        Seelog("type" :> "adaptive" @@ "mininterval" :> "1" @@ "maxinterval" :> "9" @@ "critmsgcount" :> "2", <<ToFile>>),
        E("log", None, <<ToFile>>)}

Nil == Is(Seelog("type" :> "asynctimer" @@ "asyncinterval" :> "0", <<ToFile>>), "nil")

MCInstances == LongLives \cup Meanings \cup {Is(d, "refused") : d \in InError} \cup {Nil}
=============================================================================
