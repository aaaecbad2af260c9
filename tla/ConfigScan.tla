----------------------------- MODULE ConfigScan -----------------------------
(***************************************************************************)
(* The scanner of the *.in files (kconfig/lex.zconf.c): it turns the texts *)
(* of the files into tokens, counts their lines, and follows the parser's  *)
(* orders to continue in another file (source) or to read a help text.     *)
(*                                                                         *)
(* A text is a sequence of lexemes: blanks and ends of lines are lexemes,  *)
(* and so are words, operators and quotes; a lexeme that is none of these  *)
(* stands for a character no rule knows.  A token stays in tok until the   *)
(* parser takes it.                                                        *)
(***************************************************************************)
EXTENDS Integers, Sequences, FiniteSets

CONSTANTS Files,        \* the names of files
          Texts,        \* the contents to consider, a sequence of sets of functions
                        \* from the files that exist
          Main,         \* the file the program is called with
          Words         \* [A-Za-z0-9_./-]+, keywords included

VARIABLES text,         \* what the files contain
          stack,        \* current_buf and its parents, by file; the innermost last
          flags,        \* file->flags
          parent,       \* file->parent
          lineno,       \* file->lineno
          pos,          \* of the next lexeme in each file
          cond,         \* the start condition
          str,          \* the quote a STRING began with
          buf,          \* the string under construction
          indent,           \* first_ts and last_ts, the indentations of a help text
          at,           \* current_pos, where the statement began
          tok,          \* the token for the parser
          exited        \* a scanner error ended the program

scanVars == <<text, stack, flags, parent, lineno, pos, cond, str, buf, indent, at, tok, exited>>

NoFile == "no file"
ASSUME FilesAssumption == Main \in Files /\ NoFile \notin Files

Blank == {" ", "\t"}
Eol == "\n"

\* The program is called with a file that exists, and no word spans lines.
ASSUME TextsAssumption ==
  /\ \A i \in DOMAIN Texts : \A t \in Texts[i] :
       /\ Main \in DOMAIN t /\ DOMAIN t \subseteq Files
       /\ \A f \in DOMAIN t : t[f] \in Seq(STRING)
  /\ Eol \notin Words
QuoteMarks == {"\"", "'"}
Operators == {"&&", "||", "!", "=", "!=", "(", ")"}
\* The keywords of zconf.hash.c, by flags.
Commands == {"mainmenu", "menu", "endmenu", "source", "choice", "endchoice", "comment",
             "config", "menuconfig", "help", "if", "endif", "depends", "optional",
             "default", "def_bool", "def_tristate", "prompt", "bool", "boolean",
             "tristate", "int", "hex", "string", "select", "range", "option"}
Params == {"if", "on"}

Token(k, v) == [k |-> k, v |-> v]
NoToken == Token("none", << >>)
EolToken == Token("eol", << >>)
EndToken == Token("end", << >>)

Current == IF stack = << >> THEN NoFile ELSE stack[Len(stack)]
Source == text[Current]
Here == pos[Current]
AtEof == Here > Len(Source)
Lexeme == Source[Here]

\* Where the run of lexemes of a set that begins at p ends.
RunEnd(p, set) ==
  CHOOSE q \in p .. Len(Source) + 1 :
    /\ \A i \in p .. q - 1 : Source[i] \in set
    /\ q = Len(Source) + 1 \/ Source[q] \notin set
LineEnd(p) ==
  CHOOSE q \in p .. Len(Source) + 1 :
    /\ \A i \in p .. q - 1 : Source[i] # Eol
    /\ q = Len(Source) + 1 \/ Source[q] = Eol
Is(p, lexeme) == p <= Len(Source) /\ Source[p] = lexeme

\* The width of the blanks from p to q, tabs to multiples of 8.
Width(p, q) ==
  LET w[i \in p .. q] ==
        IF i = p THEN 0 ELSE IF Source[i - 1] = "\t" THEN (w[i - 1] \div 8) * 8 + 8 ELSE w[i - 1] + 1
  IN w[q]

-----------------------------------------------------------------------------
\* What the rules do: consume up to q, count a line, return a token.
Advance(q) == pos' = [pos EXCEPT ![Current] = q]
CountLine == lineno' = [lineno EXCEPT ![Current] = @ + 1]
Return(t) == tok' = t
Begin(c) == cond' = c

FileUnchanged == UNCHANGED <<text, stack, flags, parent, exited>>

Scanning == ~exited /\ tok = NoToken /\ stack # << >>

\* Rules 1 to 5: blank lines and comment lines are empty statements, anything
\* else is a statement.
ScanInitial ==
  /\ Scanning /\ cond = "INITIAL" /\ ~AtEof
  /\ LET first == RunEnd(Here, Blank)
         comment == Is(first, "#")
         last == IF comment THEN LineEnd(first) ELSE first
     IN \/ Is(last, Eol) /\ Advance(last + 1) /\ CountLine /\ Return(EolToken) /\ UNCHANGED cond
        \/ comment /\ ~Is(last, Eol) /\ Advance(last) /\ UNCHANGED <<lineno, tok, cond>>
        \/ ~comment /\ ~Is(last, Eol) /\ Advance(first) /\ Begin("COMMAND")
             /\ UNCHANGED <<lineno, tok>>
  /\ FileUnchanged /\ UNCHANGED <<str, buf, indent, at>>

\* Rules 6 to 8: the first word decides the statement.
ScanCommand ==
  /\ Scanning /\ cond = "COMMAND" /\ ~AtEof
  /\ Advance(Here + 1)
  /\ \/ /\ Lexeme \in Words
        /\ Begin("PARAM")
        /\ at' = [file |-> Current, line |-> lineno[Current]]
        /\ Return(IF Lexeme \in Commands THEN Token(Lexeme, << >>) ELSE Token("word", <<Lexeme>>))
        /\ UNCHANGED lineno
     \/ Lexeme \notin Words \union {Eol} /\ UNCHANGED <<cond, at, tok, lineno>>
     \/ Lexeme = Eol /\ Begin("INITIAL") /\ CountLine /\ Return(EolToken) /\ UNCHANGED at
  /\ FileUnchanged /\ UNCHANGED <<str, buf, indent>>

\* Rules 9 to 22.
ScanParam ==
  /\ Scanning /\ cond = "PARAM" /\ ~AtEof
  /\ \/ /\ Lexeme \in Operators
        /\ Advance(Here + 1) /\ Return(Token(Lexeme, << >>))
        /\ UNCHANGED <<cond, str, buf, lineno>>
     \/ /\ Lexeme \in Words
        /\ Advance(Here + 1)
        /\ Return(IF Lexeme \in Params THEN Token(Lexeme, << >>) ELSE Token("word", <<Lexeme>>))
        /\ UNCHANGED <<cond, str, buf, lineno>>
     \/ /\ Lexeme \in QuoteMarks
        /\ Advance(Here + 1) /\ Begin("STRING") /\ str' = Lexeme /\ buf' = << >>
        /\ UNCHANGED <<tok, lineno>>
     \/ /\ Lexeme = Eol
        /\ Advance(Here + 1) /\ Begin("INITIAL") /\ CountLine /\ Return(EolToken)
        /\ UNCHANGED <<str, buf>>
     \/ /\ Lexeme = "\\" /\ Is(Here + 1, Eol)
        /\ Advance(Here + 2) /\ CountLine /\ UNCHANGED <<cond, str, buf, tok>>
     \/ /\ Lexeme = "#"
        /\ Advance(LineEnd(Here)) /\ UNCHANGED <<cond, str, buf, tok, lineno>>
     \/ /\ Lexeme \notin Operators \union Words \union QuoteMarks \union {Eol, "#"}
        /\ ~(Lexeme = "\\" /\ Is(Here + 1, Eol))
        /\ Advance(Here + 1) /\ UNCHANGED <<cond, str, buf, tok, lineno>>
  /\ FileUnchanged /\ UNCHANGED <<indent, at>>

\* Rules 23 to 28: the string ends with its quote, or before the end of the line,
\* which then ends the statement.
ScanString ==
  /\ Scanning /\ cond = "STRING" /\ ~AtEof
  /\ LET escaped == Lexeme = "\\"
         skip == IF escaped THEN 1 ELSE 0
         last == IF escaped /\ (Here = Len(Source) \/ Is(Here + 1, Eol)) THEN Here + 1
                 ELSE Here + skip + 1
         more == buf \o SubSeq(Source, Here + skip, last - 1)
     IN \/ /\ Lexeme = str
           /\ Advance(Here + 1) /\ Begin("PARAM") /\ Return(Token("quote", buf))
           /\ UNCHANGED <<buf, lineno>>
        \/ /\ Lexeme \notin {str, Eol}
           /\ Advance(last)
           /\ buf' = more
           /\ IF Is(last, Eol) /\ Lexeme \notin QuoteMarks THEN Return(Token("quote", more)) ELSE UNCHANGED tok
           /\ UNCHANGED <<cond, lineno>>
        \/ /\ Lexeme = Eol
           /\ Advance(Here + 1) /\ Begin("INITIAL") /\ CountLine /\ Return(EolToken)
           /\ UNCHANGED buf
  /\ FileUnchanged /\ UNCHANGED <<str, indent, at>>

\* zconf_endhelp.
EndHelp == Begin("INITIAL") /\ Return(Token("helptext", buf)) /\ UNCHANGED buf

\* Rules 29 to 32.  A help text ends before the first line that is indented less
\* than its first one.
ScanHelp ==
  /\ Scanning /\ cond = "HELP" /\ ~AtEof
  /\ LET first == RunEnd(Here, Blank)
         width == Width(Here, first)
     IN \/ /\ Is(first, Eol)
           /\ CountLine /\ Advance(first + 1)
           /\ IF first < Len(Source) /\ Source[first + 1] \notin Blank \union {Eol}
              THEN EndHelp
              ELSE buf' = Append(buf, Eol) /\ UNCHANGED <<cond, tok>>
           /\ UNCHANGED indent
        \/ /\ first > Here /\ ~Is(first, Eol)
           /\ Advance(first)
           /\ indent' = [indent EXCEPT !.last = width]
           /\ IF indent.first # 0 /\ width < indent.first THEN EndHelp
              ELSE /\ buf' = IF indent.first # 0 THEN buf \o [i \in 1 .. width - indent.first |-> " "] ELSE buf
                   /\ UNCHANGED <<cond, tok>>
           /\ UNCHANGED lineno
        \/ /\ first = Here /\ ~Is(first, Eol)
           /\ Advance(LineEnd(Here))
           /\ buf' = buf \o SubSeq(Source, Here, LineEnd(Here) - 1)
           /\ indent' = IF indent.first = 0 THEN [indent EXCEPT !.first = indent.last] ELSE indent
           /\ UNCHANGED <<cond, tok, lineno>>
  /\ FileUnchanged /\ UNCHANGED <<str, at>>

\* The end of a file ends the help text or the string it breaks off.
EofInside ==
  /\ Scanning /\ AtEof
  /\ \/ cond \in {"PARAM", "STRING"} /\ Begin("INITIAL") /\ UNCHANGED <<tok, buf>>
     \/ cond = "HELP" /\ EndHelp
  /\ FileUnchanged /\ UNCHANGED <<lineno, pos, str, indent, at>>

\* zconf_endfile, and the T_EOL that ends the last statement of the file.
EndFile ==
  /\ Scanning /\ AtEof /\ cond \in {"INITIAL", "COMMAND"}
  /\ flags' = [flags EXCEPT ![Current] = (@ \union {"SCANNED"}) \ {"BUSY"}]
  /\ stack' = SubSeq(stack, 1, Len(stack) - 1)
  /\ Return(EolToken)
  /\ UNCHANGED <<text, parent, lineno, pos, cond, str, buf, indent, at, exited>>

Terminate ==
  /\ ~exited /\ tok = NoToken /\ stack = << >>
  /\ Return(EndToken)
  /\ UNCHANGED <<text, stack, flags, parent, lineno, pos, cond, str, buf, indent, at, exited>>

Scan == ScanInitial \/ ScanCommand \/ ScanParam \/ ScanString \/ ScanHelp
          \/ EofInside \/ EndFile \/ Terminate

-----------------------------------------------------------------------------
(***************************************************************************)
(* The parser's side: it takes the token, and may give an order.           *)
(***************************************************************************)
Take == ~exited /\ tok \notin {NoToken, EndToken} /\ tok' = NoToken

TakeOnly ==
  /\ Take
  /\ UNCHANGED <<text, stack, flags, parent, lineno, pos, cond, str, buf, indent, at, exited>>

\* zconf_starthelp.
StartHelp ==
  /\ Take
  /\ Begin("HELP") /\ buf' = << >> /\ indent' = [first |-> 0, last |-> 0]
  /\ UNCHANGED <<text, stack, flags, parent, lineno, pos, str, at, exited>>

\* zconf_nextfile.  A source statement that ends with its file, without an end of
\* line, comes when the scanner has left the file; behind the last file there is
\* no current_buf to return to and the program crashes.
\* (Wrong variant: a file may be read again.)
MayReenter(f) == f \in DOMAIN text /\ stack # << >>
MayEnter(f) == f \in DOMAIN text /\ flags[f] = {} /\ stack # << >>
NextFile(f) ==
  /\ Take
  /\ IF MayEnter(f)
     THEN /\ flags' = [flags EXCEPT ![f] = {"BUSY"}]
          /\ lineno' = [lineno EXCEPT ![f] = 1]
          /\ parent' = [parent EXCEPT ![f] = Current]
          /\ stack' = Append(stack, f)
          /\ UNCHANGED exited
     ELSE exited' = TRUE /\ UNCHANGED <<flags, lineno, parent, stack>>
  /\ UNCHANGED <<text, pos, cond, str, buf, indent, at>>

\* zconf_initscan.
ScanInit ==
  /\ \E i \in DOMAIN Texts : text \in Texts[i]
  /\ stack = <<Main>>
  /\ flags = [f \in Files |-> IF f = Main THEN {"BUSY"} ELSE {}]
  /\ parent = [f \in Files |-> NoFile]
  /\ lineno = [f \in Files |-> IF f = Main THEN 1 ELSE 0]
  /\ pos = [f \in Files |-> 1]
  /\ cond = "INITIAL" /\ str = "\"" /\ buf = << >> /\ indent = [first |-> 0, last |-> 0]
  /\ at = [file |-> NoFile, line |-> 0]
  /\ tok = NoToken /\ exited = FALSE

\* Any parser.
ScanNext == Scan \/ TakeOnly \/ StartHelp \/ \E f \in Files : NextFile(f)

ScanSpec == ScanInit /\ [][ScanNext]_scanVars

-----------------------------------------------------------------------------
Entered == {f \in Files : flags[f] # {}}

\* The three records of where the scanner is agree: the files marked BUSY are
\* those on the chain of buffers, each once, and file->parent leads from each to
\* the one below it.  A file that is SCANNED never comes back.
IncludeStack ==
  /\ \A i, j \in DOMAIN stack : stack[i] = stack[j] => i = j
  /\ \A f \in Files : ("BUSY" \in flags[f]) <=> \E i \in DOMAIN stack : stack[i] = f
  /\ \A f \in Files : Cardinality(flags[f]) <= 1
  /\ \A i \in DOMAIN stack : i > 1 => parent[stack[i]] = stack[i - 1]

\* file->lineno, which all messages quote, is the line the scanner has reached,
\* however lines are ended: by statements, inside help texts, by continuations, in
\* strings that were never closed.
LinesCounted ==
  \A f \in Entered :
    lineno[f] = 1 + Cardinality({i \in 1 .. pos[f] - 1 : text[f][i] = Eol})

\* Where the scanner is, whatever files are read from others and wherever they end.
ScannerAgrees == IncludeStack /\ LinesCounted
=============================================================================
