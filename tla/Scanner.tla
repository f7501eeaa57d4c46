-------------------------------- MODULE Scanner --------------------------------
(***************************************************************************)
(* The scanner of src/scanner.c.  A token is its type, where it starts in  *)
(* the source, its characters and its line; the type of a keyword is its   *)
(* mnemonic.                                                               *)
(***************************************************************************)
EXTENDS Keywords

Newline == "\n"
Space == " "
Comma == ","
EndOfText == "\\0"   \* The source ends with a zero byte.
Blank == {Space, "\r", "\t"}

LexemeTypes == {"TOKEN_COLON", "TOKEN_COMMA", "TOKEN_IDENTIFIER", "TOKEN_NUMBER"}
TokenTypes ==
  LexemeTypes \cup {"TOKEN_ERROR", "TOKEN_EOF"}
    \cup MnemonicSet

\* peek and peekNext.
Peek(source, at) == IF at <= Len(source) THEN source[at] ELSE EndOfText

\* The first place from p on where a loop over the characters stops.
FirstPlace(source, p, Stops(_)) ==
  LET all == {q \in p .. Len(source) : Stops(source[q])}
  IN IF all = {} THEN Len(source) + 1 ELSE CHOOSE q \in all : \A r \in all : q <= r

\* Mutant of EndOfComment: the end of the line is swallowed.
EndOfCommentBehind(source, p) ==
  LET end == FirstPlace(source, p, LAMBDA d : d = Newline)
  IN IF end > Len(source) THEN end ELSE end + 1

EndOfComment(source, p) == FirstPlace(source, p, LAMBDA d : d = Newline)

\* One turn of its loop, which returns where a turn goes nowhere.
Skipped(source, s) ==
  LET c == Peek(source, s.current)
  IN CASE c \in Blank -> [s EXCEPT !.current = @ + 1]
       [] c = Newline -> [current |-> s.current + 1, line |-> s.line + 1]
       [] c = "/" /\ Peek(source, s.current + 1) = "/" ->
            [s EXCEPT !.current = EndOfComment(source, @)]
       [] OTHER -> s

skipWhitespace(source, from, line) ==
  LET skip[s \in [current : 1 .. Len(source) + 1, line : Nat]] ==
        LET t == Skipped(source, s) IN IF t = s THEN s ELSE skip[t]
  IN skip[[current |-> from, line |-> line]]

KeywordType(i) == IF i = None THEN "TOKEN_IDENTIFIER" ELSE Mnemonics[i]

identifierType(word) == KeywordType(get_string_index(word))

\* The place behind the characters of a class that follow one.
Past(source, start, class) ==
  FirstPlace(source, start + 1, LAMBDA d : d \notin class)

\* The token that begins at a place.  The letters a to f begin a word, never a
\* number.
TokenAt(source, start, line) ==
  LET c == Peek(source, start)
      token(type, stop) ==
        [type |-> type, start |-> start, line |-> line,
         text |-> SubSeq(source, start, stop - 1)]
      word(stop) == token(identifierType(SubSeq(source, start, stop - 1)), stop)
  IN CASE start > Len(source) -> token("TOKEN_EOF", start)
       [] c \in Alpha -> word(Past(source, start, Alpha \cup Digit))
       [] c \in Decimal -> token("TOKEN_NUMBER", Past(source, start, Digit))
       [] c = ":" -> token("TOKEN_COLON", start + 1)
       [] c = Comma -> token("TOKEN_COMMA", start + 1)
       [] OTHER -> token("TOKEN_ERROR", start + 1)

\* The next token from a place and a line on.
scanToken(source, from, line) ==
  LET at == skipWhitespace(source, from, line)
  IN TokenAt(source, at.current, at.line)

Stop(token) == token.start + Len(token.text)

\* All the tokens of a source, the last being the end of it.
Tokens(source) ==
  LET scan[p \in 1 .. Len(source) + 1, l \in 1 .. Len(source) + 1] ==
        LET t == scanToken(source, p, l)
        IN IF t.type = "TOKEN_EOF" THEN <<t>> ELSE <<t>> \o scan[Stop(t), t.line]
  IN scan[1, 1]
=================================================================================
