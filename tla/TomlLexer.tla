------------------------------ MODULE TomlLexer -------------------------------
(***************************************************************************)
(* The lexer of src/src/third/toml/lex.go, which reads the configuration   *)
(* file: a machine of state functions with a stack of functions to go back *)
(* to.  A lexer is a record; LexStep applies its state function once, as   *)
(* nextItem does until an item is there.                                   *)
(*                                                                         *)
(* The input is a sequence of bytes, each a string of one character.  A    *)
(* character of two bytes is <<Wide, More>>.  Line numbers are left out:   *)
(* only messages use them.                                                 *)
(***************************************************************************)
EXTENDS Integers, Sequences, SequencesExt

Eof == "eof"
Wide == "~"
More == "."
Quote == "\""
RawQuote == "'"
Escape == "\\"

Whitespace == {" ", "\t"}
Newlines == {"\n", "\r"}
Digits == {"0", "1", "2", "3", "4", "5", "6", "7", "8", "9"}
Hexadecimal == Digits \cup {"a", "b", "c", "d", "e", "f", "A", "B", "C", "D", "E", "F"}
Letters == {"a", "b", "c", "d", "e", "f", "k", "l", "p", "r", "s", "t", "u", "x", "y",
            "B", "C", "D", "K", "L", "P", "S", "T", "Z"}
BareKeyChars == Letters \cup Digits \cup {"_", "-"}

-----------------------------------------------------------------------------
(* The lexer's position                                                    *)

\* lex: the input gets a newline at its end.
NewLexer(text) ==
    [input |-> text \o <<"\n">>, start |-> 0, pos |-> 0, width |-> 0,
     state |-> "top", stack |-> <<>>, items |-> <<>>]

\* The character next() returns, and what is left after it.  At the end, nothing.
Char(lx) == IF lx.pos < Len(lx.input) THEN lx.input[lx.pos + 1] ELSE Eof
Advance(lx) ==
    LET w == IF Char(lx) = Eof THEN 0 ELSE IF Char(lx) = Wide THEN 2 ELSE 1
    IN [lx EXCEPT !.pos = @ + w, !.width = w]

\* One character back, provided the last move was one character on.
Backup(lx) == [lx EXCEPT !.pos = @ - lx.width]
Ignore(lx) == [lx EXCEPT !.start = lx.pos]
Current(lx) == SubSeq(lx.input, lx.start + 1, lx.pos)

\* n characters of one byte; they are there and each in its set.
Skip(lx, n) == [lx EXCEPT !.pos = @ + n, !.width = 1]
Follows(lx, sets) ==
    \A i \in DOMAIN sets : lx.pos + i <= Len(lx.input) /\ lx.input[lx.pos + i] \in sets[i]

Item(lx, typ, val) == [lx EXCEPT !.items = Append(@, [typ |-> typ, val |-> val]), !.start = lx.pos]
Emit(lx, typ) == Item(lx, typ, Current(lx))
EmitTrim(lx) == Item(lx, "text", SelectSeq(Current(lx), LAMBDA c : c \notin Whitespace))

Goto(lx, f) == [lx EXCEPT !.state = f]
Push(lx, f) == [lx EXCEPT !.stack = Append(@, f)]
Errorf(lx) == Goto(Item(lx, "error", <<>>), "nil")
PopState(lx) ==
    IF lx.stack = <<>> THEN Errorf(lx) ELSE [Goto(lx, Last(lx.stack)) EXCEPT !.stack = Front(@)]

-----------------------------------------------------------------------------
(* Top level, comments                                                     *)

LexTop(lx) ==
    LET c == Char(lx) n == Advance(lx) IN
    CASE c \in Whitespace \cup Newlines -> Ignore(n)
      [] c = "#" -> Goto(Push(n, "top"), "commentStart")
      [] c = "[" -> Goto(n, "tableStart")
      [] c = Eof -> Goto(Emit(n, "eof"), "nil")
      [] OTHER -> Goto(Push(Backup(n), "topEnd"), "keyStart")

LexTopEnd(lx) ==
    LET c == Char(lx) n == Advance(lx) IN
    CASE c = "#" -> Goto(Push(n, "top"), "commentStart")
      [] c \in Whitespace -> n
      [] c \in Newlines \cup {Eof} -> Goto(Ignore(n), "top")
      [] OTHER -> Errorf(n)

LexCommentStart(lx) == Goto(Emit(Ignore(lx), "commentStart"), "comment")
LexComment(lx) ==
    IF Char(lx) \in Newlines \cup {Eof} THEN PopState(Emit(lx, "text")) ELSE Advance(lx)

-----------------------------------------------------------------------------
(* Tables                                                                  *)

LexTableStart(lx) ==
    IF Char(lx) = "["
    THEN Goto(Push(Emit(Advance(lx), "arrayTableStart"), "arrayTableEnd"), "tableNameStart")
    ELSE Goto(Push(Emit(lx, "tableStart"), "tableEnd"), "tableNameStart")

LexTableEnd(lx) == Goto(Emit(lx, "tableEnd"), "topEnd")
LexArrayTableEnd(lx) ==
    LET n == Advance(lx) IN
    IF Char(lx) = "]" THEN Goto(Emit(n, "arrayTableEnd"), "topEnd") ELSE Errorf(n)

\* A blank before the name is seen and not consumed: the same state again.
LexTableNameStart(lx) ==
    LET c == Char(lx) IN
    CASE c \in {"]", ".", Eof} -> Errorf(lx)
      [] c \in {Quote, RawQuote} -> Goto(Push(Ignore(lx), "tableNameEnd"), "value")
      [] c \in Whitespace -> lx
      [] OTHER -> Goto(lx, "bareTableName")

LexBareTableName(lx) ==
    LET c == Char(lx) n == Advance(lx) IN
    CASE c \in BareKeyChars -> n
      [] c \in {".", "]"} -> Goto(EmitTrim(lx), "tableNameEnd")
      [] OTHER -> Errorf(n)

LexTableNameEnd(lx) ==
    LET c == Char(lx) n == Advance(lx) IN
    CASE c \in Whitespace -> n
      [] c = "." -> Goto(Ignore(n), "tableNameStart")
      [] c = "]" -> PopState(n)
      [] OTHER -> Errorf(n)

-----------------------------------------------------------------------------
(* Keys                                                                    *)

LexKeyStart(lx) ==
    LET c == Char(lx) key == Emit(Ignore(lx), "keyStart") IN
    CASE c = "=" -> Errorf(lx)
      [] c \in Whitespace \cup Newlines -> Ignore(Advance(lx))
      [] c \in {Quote, RawQuote} -> Goto(Push(key, "keyEnd"), "value")
      [] OTHER -> Goto(key, "bareKey")

LexBareKey(lx) ==
    LET c == Char(lx) n == Advance(lx) IN
    CASE c \in BareKeyChars -> n
      [] c \in Whitespace -> Goto(EmitTrim(n), "keyEnd")
      [] c = "=" -> Goto(EmitTrim(lx), "keyEnd")
      [] OTHER -> Errorf(n)

LexKeyEnd(lx) ==
    LET c == Char(lx) n == Advance(lx) IN
    CASE c = "=" -> Goto(Ignore(n), "value")
      [] c \in Whitespace -> Ignore(n)
      [] OTHER -> Errorf(n)

-----------------------------------------------------------------------------
(* Values                                                                  *)

\* Three quotes open a string of several lines.  After two, the reader goes back
\* twice by the width of what follows them.
OpenString(n, q, one, many) ==
    CASE Follows(n, <<{q}, {q}>>) -> Goto(Ignore(Skip(n, 2)), many)
      [] Follows(n, <<{q}>>) /\ ~Follows(n, <<{q}, {q}>>) ->
            Goto(Ignore(Backup(Backup(Advance(Advance(n))))), one)
      [] OTHER -> Goto(Ignore(n), one)

LexValue(lx) ==
    LET c == Char(lx) n == Advance(lx) IN
    CASE c \in Whitespace -> Ignore(n)
      [] c = "[" -> Goto(Emit(Ignore(n), "array"), "arrayValue")
      [] c = Quote -> OpenString(n, Quote, "string", "multilineString")
      [] c = RawQuote -> OpenString(n, RawQuote, "rawString", "multilineRawString")
      [] c = "t" -> Goto(n, "true")
      [] c = "f" -> Goto(n, "false")
      [] c = "-" -> Goto(n, "numberStart")
      [] c \in Digits -> Goto(lx, "numberOrDateStart")
      [] OTHER -> Errorf(n)

LexArrayValue(lx) ==
    LET c == Char(lx) n == Advance(lx) IN
    CASE c \in Whitespace \cup Newlines -> Ignore(n)
      [] c = "#" -> Goto(Push(n, "arrayValue"), "commentStart")
      [] c = "," -> Errorf(n)
      [] c = "]" -> Goto(n, "arrayEnd")
      [] OTHER -> Goto(Push(Backup(n), "arrayValueEnd"), "value")

LexArrayValueEnd(lx) ==
    LET c == Char(lx) n == Advance(lx) IN
    CASE c \in Whitespace \cup Newlines -> Ignore(n)
      [] c = "#" -> Goto(Push(n, "arrayValueEnd"), "commentStart")
      [] c = "," -> Goto(Ignore(n), "arrayValue")
      [] c = "]" -> Goto(n, "arrayEnd")
      [] OTHER -> Errorf(n)

LexArrayEnd(lx) == PopState(Emit(Ignore(lx), "arrayEnd"))

-----------------------------------------------------------------------------
(* Strings                                                                 *)

\* The string without its closing quote, and on behind that.
Close(lx, typ, n) == PopState(Ignore(Skip(Emit(lx, typ), n)))

LexString(lx) ==
    LET c == Char(lx) n == Advance(lx) IN
    CASE c \in Newlines -> Errorf(n)
      [] c = Escape -> Goto(Push(n, "string"), "stringEscape")
      [] c = Quote -> Close(lx, "string", 1)
      [] OTHER -> n

LexRawString(lx) ==
    LET c == Char(lx) n == Advance(lx) IN
    CASE c \in Newlines -> Errorf(n)
      [] c = RawQuote -> Close(lx, "rawString", 1)
      [] OTHER -> n

\* Three quotes close it, one is a part of it; after two the reader goes back
\* twice by the width of what follows them.  At the end of the input: again.
LexMany(lx, q, typ) ==
    LET n == Advance(lx) IN
    CASE Follows(lx, <<{q}, {q}, {q}>>) -> Close(lx, typ, 3)
      [] Follows(lx, <<{q}, {q}>>) /\ ~Follows(lx, <<{q}, {q}, {q}>>) ->
            Backup(Backup(Advance(Advance(n))))
      [] OTHER -> n

LexMultilineString(lx) ==
    IF Char(lx) = Escape THEN Goto(Advance(lx), "multilineStringEscape")
    ELSE LexMany(lx, Quote, "multilineString")
LexMultilineRawString(lx) == LexMany(lx, RawQuote, "rawMultilineString")

LexStringEscape(lx) ==
    LET c == Char(lx) n == Advance(lx) IN
    CASE c \in {"b", "t", "n", "f", "r", Quote, Escape} -> PopState(n)
      [] c = "u" -> IF Follows(n, [i \in 1 .. 4 |-> Hexadecimal])
                    THEN PopState(Skip(n, 4)) ELSE Errorf(n)
      [] c = "U" -> IF Follows(n, [i \in 1 .. 8 |-> Hexadecimal])
                    THEN PopState(Skip(n, 8)) ELSE Errorf(n)
      [] OTHER -> Errorf(n)

\* An escaped newline takes one more character with it, whatever that is.
LexMultilineStringEscape(lx) ==
    IF Char(lx) \in Newlines THEN Goto(Advance(Advance(lx)), "multilineString")
    ELSE LexStringEscape(Push(lx, "multilineString"))

-----------------------------------------------------------------------------
(* Numbers, dates, Booleans                                                *)

LexNumberStart(lx, f) ==
    LET n == Advance(lx) IN IF Char(lx) \in Digits THEN Goto(n, f) ELSE Errorf(n)

LexNumberOrDate(lx) ==
    LET c == Char(lx) n == Advance(lx) IN
    CASE c = "-" -> IF n.pos - n.start = 5 THEN Goto(n, "dateAfterYear") ELSE Errorf(n)
      [] c \in Digits -> n
      [] c = "." -> Goto(n, "floatStart")
      [] OTHER -> PopState(Emit(lx, "integer"))

LexNumber(lx) ==
    LET c == Char(lx) n == Advance(lx) IN
    CASE c \in Digits -> n
      [] c = "." -> Goto(n, "floatStart")
      [] OTHER -> PopState(Emit(lx, "integer"))

LexFloat(lx) ==
    IF Char(lx) \in Digits THEN Advance(lx) ELSE PopState(Emit(lx, "float"))

\* The rest of a date in full Zulu form, or of a Boolean.
DateFormat ==
    <<Digits, Digits, {"-"}, Digits, Digits, {"T"}, Digits, Digits, {":"}, Digits, Digits,
      {":"}, Digits, Digits, {"Z"}>>
LexRest(lx, sets, typ) ==
    IF Follows(lx, sets) THEN PopState(Emit(Skip(lx, Len(sets)), typ)) ELSE Errorf(lx)

-----------------------------------------------------------------------------
\* One call of the state function.
LexStep(lx) ==
    CASE lx.state = "top" -> LexTop(lx)
      [] lx.state = "topEnd" -> LexTopEnd(lx)
      [] lx.state = "commentStart" -> LexCommentStart(lx)
      [] lx.state = "comment" -> LexComment(lx)
      [] lx.state = "tableStart" -> LexTableStart(lx)
      [] lx.state = "tableEnd" -> LexTableEnd(lx)
      [] lx.state = "arrayTableEnd" -> LexArrayTableEnd(lx)
      [] lx.state = "tableNameStart" -> LexTableNameStart(lx)
      [] lx.state = "bareTableName" -> LexBareTableName(lx)
      [] lx.state = "tableNameEnd" -> LexTableNameEnd(lx)
      [] lx.state = "keyStart" -> LexKeyStart(lx)
      [] lx.state = "bareKey" -> LexBareKey(lx)
      [] lx.state = "keyEnd" -> LexKeyEnd(lx)
      [] lx.state = "value" -> LexValue(lx)
      [] lx.state = "arrayValue" -> LexArrayValue(lx)
      [] lx.state = "arrayValueEnd" -> LexArrayValueEnd(lx)
      [] lx.state = "arrayEnd" -> LexArrayEnd(lx)
      [] lx.state = "string" -> LexString(lx)
      [] lx.state = "rawString" -> LexRawString(lx)
      [] lx.state = "multilineString" -> LexMultilineString(lx)
      [] lx.state = "multilineRawString" -> LexMultilineRawString(lx)
      [] lx.state = "stringEscape" -> LexStringEscape(lx)
      [] lx.state = "multilineStringEscape" -> LexMultilineStringEscape(lx)
      [] lx.state = "numberOrDateStart" -> LexNumberStart(lx, "numberOrDate")
      [] lx.state = "numberOrDate" -> LexNumberOrDate(lx)
      [] lx.state = "dateAfterYear" -> LexRest(lx, DateFormat, "datetime")
      [] lx.state = "numberStart" -> LexNumberStart(lx, "number")
      [] lx.state = "number" -> LexNumber(lx)
      [] lx.state = "floatStart" -> LexNumberStart(lx, "float")
      [] lx.state = "float" -> LexFloat(lx)
      [] lx.state = "true" -> LexRest(lx, <<{"r"}, {"u"}, {"e"}>>, "bool")
      [] lx.state = "false" -> LexRest(lx, <<{"a"}, {"l"}, {"s"}, {"e"}>>, "bool")
=============================================================================
