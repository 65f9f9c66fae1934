----------------------------- MODULE MCStartup ------------------------------
EXTENDS Startup

NL == <<"\n">>
Lines(s) == FlattenSeq([i \in DOMAIN s |-> s[i] \o NL])
Quoted(c) == <<Quote, c, Quote>>
Key(k, v) == <<k, "=">> \o v

(* Configuration files: how a field may be written, and what that means.    *)
TWays == {[text |-> Key("T", <<n>>), means |-> {DigitValue[n]}] : n \in {"0", "1", "3", "4", "5", "6"}}
    \cup {[text |-> <<"t", " ", "=", " ", "3", " ", "#", "x">>, means |-> {3}],
          [text |-> <<Quote, "T", Quote, "\t", "=", "0", "3">>, means |-> {3}],
          [text |-> <<RawQuote, "t", RawQuote, "=", "-", "3">>, means |-> {-3}],
          [text |-> <<>>, means |-> {}],
          [text |-> Key("T", <<"3">>) \o NL \o Key("t", <<"4">>), means |-> {3, 4}],
          [text |-> Key("t", <<"0">>) \o NL \o Key("T", <<"4">>), means |-> {0, 4}],
          [text |-> Key("T", <<"3">>) \o NL \o Key("T", <<"4">>), means |-> {3}],
          [text |-> Key("T", Quoted("3")), means |-> {}],
          [text |-> Key("T", [i \in 1 .. 20 |-> IF i = 20 THEN "3" ELSE "0"]), means |-> {3}],
          [text |-> Key("T", [i \in 1 .. 19 |-> "9"]), means |-> {}]}
LWays == {[text |-> Key("L", Quoted("x")), means |-> {<<"x">>}],
          [text |-> Key("l", <<RawQuote, "y", RawQuote>>), means |-> {<<"y">>}],
          [text |-> Key("L", <<Quote, Quote>>), means |-> {<<>>}],
          [text |-> Key("L", <<Quote, Quote, Quote, "\n", "x", Escape, "\n", "\n", " ", Quote, Quote, Quote>>),
           means |-> {<<"x">>}],
          [text |-> Key("L", <<RawQuote, RawQuote, RawQuote, "\n", "x", RawQuote, RawQuote, RawQuote>>),
           means |-> {<<"x">>}],
          [text |-> Key("L", <<Quote, "t", Quote>>) \o NL \o Key("x", <<"1", ".", "5">>), means |-> {<<"t">>}]}
KWays == {[text |-> Key("K", <<n>>), means |-> {DigitValue[n]}] : n \in {"1", "2"}}
Headers == {<<"S">>, <<"s">>, <<Quote, "S", Quote>>, <<"Z">>}

Way(t, k, l, header, clientFirst) ==
    [t |-> t, k |-> k, l |-> l, header |-> header, clientFirst |-> clientFirst]
T3 == [text |-> Key("T", <<"3">>), means |-> {3}]
K1 == [text |-> Key("K", <<"1">>), means |-> {1}]
Lx == [text |-> Key("L", Quoted("x")), means |-> {<<"x">>}]
Plain == Way(T3, K1, Lx, <<"S">>, FALSE)

ServerText(w) ==
    Lines(<<<<"[">> \o w.header \o <<"]">>, w.l.text, Key("B", Quoted("b")), Key("D", Quoted("d")),
            w.t.text, w.k.text, Key("P", Quoted("p"))>>)
ClientText ==
    Lines(<<<<"[", "C", "]">>, Key("L", Quoted("x")), Key("B", Quoted("b")), Key("D", Quoted("d")),
            Key("S", Quoted("e")), Key("p", Quoted("p"))>>)
ConfigText(w) ==
    NL \o IF w.clientFirst THEN ClientText \o ServerText(w) ELSE ServerText(w) \o ClientText

ServerMeaning(w) ==
    IF w.header = <<"Z">> THEN [f \in DOMAIN Fields.Server |-> {}]
    ELSE [LogConfigFile |-> w.l.means, BindAddress |-> {<<"b">>}, DebugBindAddress |-> {<<"d">>},
          ConnectionTimeoutSec |-> w.t.means, KeepAliveTimeSec |-> w.k.means,
          PrivateKeyFilePath |-> {<<"p">>}]
ClientMeaning ==
    [LogConfigFile |-> {<<"x">>}, BindAddress |-> {<<"b">>}, DebugBindAddress |-> {<<"d">>},
     ServerAddress |-> {<<"e">>}, PublicKeyFilePath |-> {<<"p">>}]

Ways == {[Plain EXCEPT !.t = t, !.k = k] : t \in TWays, k \in KWays}
    \cup {[Plain EXCEPT !.l = l] : l \in LWays}
    \cup {[Plain EXCEPT !.t.means = {3, 5},
                         !.header = <<"s", "]", "\n", "T", "=", "5", "\n", "[", "S">>]}
    \cup {[Plain EXCEPT !.header = h, !.clientFirst = c] : h \in Headers, c \in BOOLEAN}

MCMeaning ==
    [text \in {ConfigText(w) : w \in Ways} |->
        LET w == CHOOSE v \in Ways : ConfigText(v) = text
        IN [Server |-> ServerMeaning(w), Client |-> ClientMeaning]]

\* An operator adds a second key, or takes one away.
MCSaved == {ConfigText(w) : w \in {Plain, [Plain EXCEPT !.t.text = <<>>, !.t.means = {}]}}

Command(type, dest, foreground, logconf) ==
    [type |-> type, dest |-> dest, foreground |-> foreground, logconf |-> logconf, version |-> FALSE]
AService == Command("server", FALSE, TRUE, <<>>)
ADaemon == Command("server", FALSE, FALSE, <<>>)
Commands ==
    {ADaemon, Command("client", TRUE, FALSE, <<>>), Command("client", TRUE, TRUE, <<"y">>),
     Command("server", FALSE, TRUE, <<"y">>), Command("server", FALSE, FALSE, <<"z">>),
     Command("client", FALSE, TRUE, <<>>), Command("", FALSE, TRUE, <<>>),
     [ADaemon EXCEPT !.version = TRUE]}

(* Texts for the parser: statements, and what follows the start of a value. *)
Statements ==
    {<<"[", "a", "]">>, <<"[", "a", ".", "b", "]">>, <<"[", "a", ".", "b", ".", "c", "]">>,
     <<"[", "[", "a", "]", "]">>, <<"[", "[", "a", ".", "b", "]", "]">>, <<"b", "=", "1">>,
     <<Quote, "a", ".", "b", Quote, "=", "2", " ", "#", "x">>,
     <<"a", " ", "=", "[", "[", "1", "]", ",", "#", "x", "\n", Quote, "x", Quote, "]">>,
     <<"[", "a", ".", " ", "b", "]">>, <<"a", "=", "t", "r", "u", "e">>,
     <<"a", "=", "-", "1", ".", "5">>}
Documents == {Lines(<<s, t, u>>) : s, t, u \in Statements}

Chars == {<<Quote>>, <<Escape>>, <<"\n">>, <<"[">>, <<"]">>, <<"1">>, <<"b">>, <<Wide, More>>}
Beginnings == {<<"a", "=">>, <<"a", "=", Quote, Quote, Quote>>}
Values == {b \o FlattenSeq(v) : b \in Beginnings, v \in UNION {[1 .. n -> Chars] : n \in 0 .. 3}}

\* Two backslashes before a newline: an escape that the lexer has not seen.
Escaped(s) == <<"a", "=", Quote, Quote, Quote, Escape, Escape, "\n">> \o s \o <<Quote, Quote, Quote>>
Escapes == {<<"b">>, <<"u", "0">>, <<"u", "0", "0", "e", "9">>, <<"u", "0", "0", "x", "9">>}
Unicode == <<"a", "=", Quote, Escape, "u", "0", "0", "e", "9", Escape, "U", "0", "0", "0", "0",
             "0", "0", "e", "9", Quote>>
\* A value takes the place of a table: its mark is that of another.
Aliased == Lines(<<<<Quote, "a", ".", "b", Quote, "=", "2">>, <<"[", "a", ".", "b", ".", "c", "]">>,
                   <<"[", Quote, "a", ".", "b", Quote, "]">>, <<"b", "=", "1">>>>)
Date(m, d, n) == <<"a", "=", "1", "9", "8", "0", "-", m, "2", "-", d, n, "T", "0", "7", ":", "3", "2",
             ":", "0", "0", "Z">>

MCStarts ==
    [command : {ADaemon}, file : DOMAIN MCMeaning]
    \cup [command : Commands, file : {ConfigText(Plain), NoFile}]
    \cup [command : {AService}, file : {ConfigText(w) : w \in {[Plain EXCEPT !.t = t, !.k = k] :
                                            t \in TWays, k \in KWays}}]
    \cup [command : {AService}, file : Documents \cup Values 
                                        \cup {Unicode, Aliased} \cup {Escaped(s) : s \in Escapes}
                                        \cup {Date("0", "2", "9"), Date("0", "3", "0"), Date("3", "2", "7")}]

\* What of it the tunnel may be configured with.
MCConfigs ==
    {[Server |-> [ConnectionTimeoutSec |-> t, KeepAliveTimeSec |-> k]] : t \in 1 .. 6, k \in 1 .. 2}

MCGoodLogs == {<<"x">>, <<"y">>}
=============================================================================
