----------------------------- MODULE TomlParser ------------------------------
(***************************************************************************)
(* The parser of src/src/third/toml/parse.go, which takes the lexer's      *)
(* items one by one and builds the mapping.  A parser is a record; ParseStep *)
(* takes an item or, when there is none, lets the lexer do a step.         *)
(*                                                                         *)
(* The nested maps of the code are one function of paths.  A path is a     *)
(* sequence of <<name, i>>: the i-th table of an array of tables, 0 for    *)
(* anything else.  The context is the path of the table that the code's    *)
(* names of it lead to: setValue walks them from the top each time, and    *)
(* gets to the same table until establishContext names another.            *)
(* What p.panicf reports ends in mode "error", what p.bug reports in mode  *)
(* "bug", where the program exits.  The types and the list of keys are     *)
(* left out: the program reads neither.                                    *)
(***************************************************************************)
EXTENDS TomlLexer

Hash == [type |-> "Hash", val |-> <<>>]
ArrayHash(n) == [type |-> "ArrayHash", val |-> n]

NewParser(text) ==
    [lx |-> NewLexer(text), mode |-> "top",
     key |-> <<>>,              \* of a table's name, the parts so far; or <<currentKey>>
     context |-> <<>>,          \* the path of the table that values go into
     mapping |-> [path \in {<<>>} |-> Hash],
     implicits |-> {},          \* the keys whose mark is true
     arrays |-> <<>>,           \* the arrays that are open, each with its values so far
     said |-> <<>>,             \* history: what the text defined
     made |-> {}]               \* history: the paths of the tables made implicitly

Stop(p, how) == [p EXCEPT !.mode = how]

-----------------------------------------------------------------------------
(* Values                                                                  *)

Bug == "bug"
StripFirstNewline(s) == IF s # <<>> /\ s[1] = "\n" THEN Tail(s) ELSE s

\* What a backslash before a newline makes of the text: both are dropped and so is the
\* space behind them.  Every such backslash counts, one that is escaped itself too.
StripEscapedWhitespace(s) ==
    LET breaks == {i \in 1 .. Len(s) - 1 : s[i] = Escape /\ s[i + 1] = "\n"}
        space(i, j) == \A k \in i .. j : s[k] \in Whitespace \cup Newlines
        dropped(i) == \E b \in breaks : i \in {b, b + 1} \/ (i > b + 1 /\ space(b + 2, i))
        kept == SelectSeq([i \in DOMAIN s |-> i], LAMBDA i : ~dropped(i))
    IN [n \in DOMAIN kept |-> s[kept[n]]]

EscapeLength == [c \in {"b", "t", "n", "f", "r", Quote, Escape} |-> 2] @@ [u |-> 6, U |-> 10]

\* The lexer has looked at every escape, but not at those that stripEscapedWhitespace makes
\* of the second of two backslashes.  Where the slice goes beyond the text, the process ends
\* too: by its panic, or by the bug of what is behind the text and is not hexadecimal.
ReplaceEscapes(s) ==
    LET isEscape(i) ==
            /\ i < Len(s) /\ s[i + 1] \in DOMAIN EscapeLength
            /\ \A k \in i + 2 .. i + EscapeLength[s[i + 1]] - 1 : k <= Len(s) /\ s[k] \in Hexadecimal
        from[i \in 1 .. Len(s) + 1] ==
            CASE i > Len(s) -> <<>>
              [] i <= Len(s) /\ s[i] # Escape -> <<s[i]>> \o from[i + 1]
              [] i <= Len(s) /\ s[i] = Escape /\ ~isEscape(i) -> <<Bug>>
              [] OTHER -> <<"\\" \o s[i + 1]>> \o from[i + EscapeLength[s[i + 1]]]
    IN from[1]

Text(s) == [type |-> IF Contains(s, Bug) THEN "bug" ELSE "String", val |-> s]

Decimals == <<"0", "1", "2", "3", "4", "5", "6", "7", "8", "9">>
DigitValue == [c \in Digits |-> (CHOOSE i \in DOMAIN Decimals : Decimals[i] = c) - 1]
Number(s) ==
    LET value[n \in 0 .. Len(s)] == IF n = 0 THEN 0 ELSE 10 * value[n - 1] + DigitValue[s[n]]
    IN value[Len(s)]

\* The largest numbers of 64 bits, with a sign and without one.
Limit64(negative) ==
    <<"9", "2", "2", "3", "3", "7", "2", "0", "3", "6", "8", "5", "4", "7", "7", "5", "8", "0",
      IF negative THEN "8" ELSE "7">>
WithoutZeros(s) ==
    LET zero(i) == \A j \in 1 .. i : s[j] = "0" IN
    SubSeq(s, Cardinality({i \in DOMAIN s : zero(i)}) + 1, Len(s))
Exceeds(s, limit) ==
    LET n == WithoutZeros(s) IN
    \/ Len(n) > Len(limit)
    \/ Len(n) = Len(limit) /\ \E i \in DOMAIN n : /\ DigitValue[n[i]] > DigitValue[limit[i]]
                                                /\ \A j \in 1 .. i - 1 : n[j] = limit[j]

\* strconv.ParseInt
Integer(s) ==
    LET negative == s # <<>> /\ s[1] = "-"
        digits == IF negative THEN Tail(s) ELSE s
    IN CASE digits \notin Seq(Digits) \ {<<>>} -> [type |-> "bug", val |-> s]
         [] digits \in Seq(Digits) \ {<<>>} /\ Exceeds(digits, Limit64(negative)) -> [type |-> "error", val |-> s]
         [] OTHER -> [type |-> "Integer", val |-> IF negative THEN -Number(digits) ELSE Number(digits)]

IsLeap(year) == year % 4 = 0 /\ (year % 100 # 0 \/ year % 400 = 0)
DaysIn(month, year) ==
    IF month = 2 THEN IF IsLeap(year) THEN 29 ELSE 28
    ELSE IF month \in {4, 6, 9, 11} THEN 30 ELSE 31

\* time.Parse refuses a month, a day of it or an hour that does not exist: a bug.
Datetime(s) ==
    LET part(i) == Number(SubSeq(s, i, i + 1))
        year == Number(SubSeq(s, 1, 4))
    IN
    [type |-> IF part(6) \in 1 .. 12 /\ part(9) \in 1 .. DaysIn(part(6), year) /\ part(12) \in 0 .. 23
                 /\ part(15) \in 0 .. 59 /\ part(18) \in 0 .. 59
              THEN "Datetime" ELSE "bug", val |-> s]

\* value, for an item that is one, unless it opens an array.
Value(it) ==
    CASE it.typ = "string" -> Text(ReplaceEscapes(it.val))
      [] it.typ = "multilineString" ->
            Text(ReplaceEscapes(StripFirstNewline(StripEscapedWhitespace(it.val))))
      [] it.typ = "rawString" -> Text(it.val)
      [] it.typ = "rawMultilineString" -> Text(StripFirstNewline(it.val))
      [] it.typ = "bool" -> [type |-> "Bool", val |-> it.val[1] = "t"]
      [] it.typ = "integer" -> Integer(it.val)
      [] it.typ = "float" -> [type |-> "Float", val |-> it.val]
      [] it.typ = "datetime" -> Datetime(it.val)
      [] OTHER -> [type |-> "bug", val |-> <<>>]

KeyString(it) == IF it.typ = "text" THEN [type |-> "String", val |-> it.val] ELSE Value(it)

\* The values of an array must be of one type.
TypeOfArray(values) ==
    [type |-> IF \A i \in DOMAIN values : values[i].type = values[1].type
              THEN "Array" ELSE "error",
     val |-> values]

-----------------------------------------------------------------------------
(* Tables                                                                  *)

\* Key.String: the names with dots between them.
Join(names) == FlattenSeq([i \in DOMAIN names |-> IF i = 1 THEN names[i] ELSE <<".">> \o names[i]])
Names(path) == [i \in DOMAIN path |-> path[i][1]]
Mark(path) == Join(Names(path))

At(path, k) == Append(path, <<k, 0>>)

\* Down to the table k of the table at path; of an array, the last one.
Into(mapping, path, k) ==
    LET v == mapping[At(path, k)] IN
    IF v.type = "ArrayHash" THEN Append(path, <<k, v.val>>) ELSE At(path, k)

Define(p, path, v) ==
    LET old == p.mapping IN
    [p EXCEPT !.mapping = [at \in {path} \cup DOMAIN old |-> IF at = path THEN v ELSE old[at]]]

Said(p, path, v) == [p EXCEPT !.said = Append(@, [path |-> path, v |-> v])]

SetValue_Overwrites(p, k, v) ==
    LET path == At(p.context, k) IN Define(Said(Stop(p, "top"), path, v), path, v)
\* setValue, and the statement is over.  What the mark of a table lets through may have
\* been no table, and so the context is none.
SetValue(p, k, v) ==
    LET path == At(p.context, k) q == Said(Stop(p, "top"), path, v) IN
    CASE p.mapping[p.context].type # "Hash" -> Stop(p, "bug")
      [] p.mapping[p.context].type = "Hash" /\ path \notin DOMAIN p.mapping -> Define(q, path, v)
      [] p.mapping[p.context].type = "Hash" /\ path \in DOMAIN p.mapping
            /\ Mark(path) \in p.implicits -> [q EXCEPT !.implicits = @ \ {Mark(path)}]
      [] OTHER -> Stop(p, "error")

(* establishContext, name by name from the top; p.key has the names left.   *)

\* A table on the way is made implicitly if it is not there.
EnterImplicit(p) ==
    LET k == Head(p.key) here == At(p.context, k) q == [p EXCEPT !.key = Tail(@)] IN
    CASE here \notin DOMAIN p.mapping ->
            [Define(q, here, Hash) EXCEPT !.implicits = @ \cup {Mark(here)},
                                          !.made = @ \cup {here}, !.context = here]
      [] here \in DOMAIN p.mapping /\ p.mapping[here].type \in {"Hash", "ArrayHash"} ->
            [q EXCEPT !.context = Into(p.mapping, @, k)]
      [] OTHER -> Stop(p, "error")

EnterTable(p) ==
    LET k == Head(p.key) q == SetValue(p, k, Hash) IN
    IF q.mode # "top" THEN q
    ELSE [q EXCEPT !.context = Into(q.mapping, @, k), !.key = <<>>]

EnterArrayTable(p) ==
    LET k == Head(p.key)
        here == At(p.context, k)
        n == IF here \in DOMAIN p.mapping THEN p.mapping[here] ELSE ArrayHash(0)
        element == Append(p.context, <<k, n.val + 1>>)
    IN IF n.type # "ArrayHash" THEN Stop(p, "error")
       ELSE [Define(Define(p, here, ArrayHash(n.val + 1)), element, Hash)
             EXCEPT !.mode = "top", !.context = element, !.key = <<>>]

EstablishContext(p) ==
    CASE Len(p.key) > 1 -> EnterImplicit(p)
      [] Len(p.key) <= 1 /\ p.mode = "enterTable" -> EnterTable(p)
      [] Len(p.key) <= 1 /\ p.mode = "enterArrayTable" -> EnterArrayTable(p)

FromTheTop(p, mode) == [p EXCEPT !.mode = mode, !.context = <<>>]

-----------------------------------------------------------------------------
(* Statements                                                              *)

\* A value is complete: of the array that is open, or of the key.
Take(p, v) ==
    CASE v.type \in {"bug", "error"} -> Stop(p, v.type)
      [] v.type \notin {"bug", "error"} /\ p.arrays # <<>> ->
            [p EXCEPT !.arrays = Append(Front(@), Append(Last(@), v)), !.mode = "array"]
      [] OTHER -> [SetValue(p, p.key[1], v) EXCEPT !.key = <<>>]

OpenArray(p) == [p EXCEPT !.arrays = Append(@, <<>>), !.mode = "array"]
CloseArray(p) == Take([p EXCEPT !.arrays = Front(@)], TypeOfArray(Last(p.arrays)))

AddKey(p, it, mode) ==
    LET k == KeyString(it) IN
    IF k.type = "bug" THEN Stop(p, "bug") ELSE [p EXCEPT !.key = Append(@, k.val), !.mode = mode]

\* topLevel and what it calls, with the item that next() returns.
Statement(p, it) ==
    CASE it.typ = "error" -> Stop(p, "error")
      [] it.typ = "commentStart" -> [p EXCEPT !.mode = IF @ = "array" THEN "arrayComment" ELSE "comment"]
      [] it.typ = "text" /\ p.mode = "comment" -> Stop(p, "top")
      [] it.typ = "text" /\ p.mode = "arrayComment" -> Stop(p, "array")
      [] it.typ = "eof" -> Stop(p, IF p.mode = "top" THEN "done" ELSE "bug")
      [] it.typ = "keyStart" -> Stop(p, "key")
      [] it.typ = "tableStart" -> Stop(p, "table")
      [] it.typ = "arrayTableStart" -> Stop(p, "arrayTable")
      [] it.typ = "tableEnd" -> FromTheTop(p, "enterTable")
      [] it.typ = "arrayTableEnd" -> FromTheTop(p, "enterArrayTable")
      [] it.typ = "array" -> OpenArray(p)
      [] it.typ = "arrayEnd" -> CloseArray(p)
      [] p.mode = "key" /\ it.typ # "error" -> AddKey(p, it, "value")
      [] p.mode \in {"table", "arrayTable"} /\ it.typ \in {"text", "string", "rawString",
            "multilineString", "rawMultilineString"} -> AddKey(p, it, p.mode)
      [] OTHER -> Take(p, Value(it))

ParseEnded(p) == p.mode \in {"done", "error", "bug"}

\* next: an item, or a step towards one; and what is made of it.
ParseStep(p) ==
    CASE p.mode \in {"enterTable", "enterArrayTable"} -> EstablishContext(p)
      [] p.mode \notin {"enterTable", "enterArrayTable"} /\ p.lx.items = <<>> ->
            [p EXCEPT !.lx = LexStep(@)]
      [] OTHER -> Statement([p EXCEPT !.lx.items = Tail(@)], p.lx.items[1])

-----------------------------------------------------------------------------
(* Where the lexer goes on for ever                                        *)

\* A blank before a table's name; the end of the text in a string of several
\* lines; two quotes in such a string before a character of two bytes.
LexerIsStuck(lx) ==
    \/ lx.state = "tableNameStart" /\ Char(lx) \in Whitespace
    \/ lx.state \in {"multilineString", "multilineRawString"} /\ Char(lx) = Eof
    \/ lx.state = "multilineString" /\ Follows(lx, <<{Quote}, {Quote}, {Wide}>>)
    \/ lx.state = "multilineRawString" /\ Follows(lx, <<{RawQuote}, {RawQuote}, {Wide}>>)
=============================================================================
