------------------------- MODULE ConfigBlocksProofs -------------------------
(***************************************************************************)
(* Theorems about the scanner and the parser of the *.in files, for every  *)
(* set of files and all that they may contain.                             *)
(*                                                                         *)
(* ConfigScan, with any parser: the scanner knows which file it is in and  *)
(* on which line, wherever files are read from others and however lines    *)
(* end.  ConfigBlocks, with any statements in any order: the tree is built *)
(* as the statements are nested.  ConfigFinalize, with any conditions: no  *)
(* entry is lost, repeated or moved out of order by menu_finalize.         *)
(* ConfigDeps, with any dependencies: what the search for recursive ones   *)
(* reports.                                                                *)
(***************************************************************************)
EXTENDS ConfigFinalize, ConfigDeps, FiniteSetTheorems, SequenceTheorems, TLAPS
-----------------------------------------------------------------------------
(* Runs of lexemes *)

\* A nonempty set of numbers below a bound has a least one.
LEMMA LeastExists ==
    ASSUME NEW m \in Nat, NEW n \in Nat, NEW D \in SUBSET (m .. n), D # {}
    PROVE  \E q \in D : \A k \in D : q <= k
<1> DEFINE S == m .. n
           Below(q) == m .. q - 1
           T == {Below(q) : q \in D}
<1>1. IsWellFoundedOn(StrictSubsetOrdering(S), SUBSET S)
  <2>1. IsFiniteSet(S)
    BY FS_Interval
  <2> HIDE DEF S
  <2>2. FiniteSubsetsOf(S) = SUBSET S
    BY <2>1, FS_FiniteSubsetsOfFinite
  <2>3. QED
    BY <2>2, FS_StrictSubsetOrderingWellFounded
<1>2. T \subseteq SUBSET S /\ T # {}
  <2>1. \A q \in D : Below(q) \in SUBSET S
    OBVIOUS
  <2> HIDE DEF S, Below
  <2>2. QED
    BY <2>1
<1>3. PICK t \in T : \A u \in T : <<u, t>> \notin StrictSubsetOrdering(S)
  <2> HIDE DEF T, S
  <2> QED
    BY <1>1, <1>2, WFMin
<1>4. PICK q \in D : t = Below(q)
  OBVIOUS
<1>5. ASSUME NEW k \in D, k < q
      PROVE  FALSE
  <2>1. Below(k) \subseteq t /\ Below(k) # t
    <3>1. k \in Below(q) /\ k \notin Below(k)
      BY <1>5
    <3>2. QED
      BY <1>4, <1>5, <3>1
  <2>2. Below(k) \in T /\ Below(k) \in SUBSET S /\ t \in SUBSET S
    BY <1>2
  <2>3. <<Below(k), t>> \in StrictSubsetOrdering(S)
    BY <2>1, <2>2 DEF StrictSubsetOrdering
  <2>4. QED
    BY <1>3, <2>2, <2>3
<1>6. QED
  BY <1>5

\* The first position from m on that is not of the kind D, or the end.
LEMMA StopExists ==
    ASSUME NEW n \in Nat, NEW m \in 1 .. n + 1, NEW D \in SUBSET (1 .. n)
    PROVE  \E q \in m .. n + 1 : /\ \A i \in m .. q - 1 : i \in D
                                 /\ q = n + 1 \/ q \notin D
<1> DEFINE Stops == {i \in m .. n + 1 : i \notin D}
<1>1. n + 1 \in Stops
  OBVIOUS
<1>2. PICK q \in Stops : \A k \in Stops : q <= k
  <2>1. m \in Nat /\ n + 1 \in Nat /\ Stops \in SUBSET (m .. n + 1) /\ Stops # {}
    BY <1>1
  <2> HIDE DEF Stops
  <2>2. QED
    BY <2>1, LeastExists
<1>3. ASSUME NEW i \in m .. q - 1, i \notin D
      PROVE  FALSE
  BY <1>2, <1>3
<1>4. QED
  BY <1>2, <1>3

\* The scanner is in a file, at a place of it.
InFile ==
  /\ Source \in Seq(STRING)
  /\ Here \in 1 .. Len(Source) + 1

\* What the longest match of a set of lexemes consumes.
LEMMA RunEndStops ==
    ASSUME InFile, NEW m \in 1 .. Len(Source) + 1, NEW set
    PROVE  /\ RunEnd(m, set) \in m .. Len(Source) + 1
           /\ \A i \in m .. RunEnd(m, set) - 1 : Source[i] \in set
           /\ RunEnd(m, set) = Len(Source) + 1 \/ Source[RunEnd(m, set)] \notin set
<1> DEFINE D == {i \in 1 .. Len(Source) : Source[i] \in set}
           Ends(q) == /\ \A i \in m .. q - 1 : Source[i] \in set
                      /\ q = Len(Source) + 1 \/ Source[q] \notin set
<1>1. Len(Source) \in Nat
  BY DEF InFile
<1>2. PICK q \in m .. Len(Source) + 1 : /\ \A i \in m .. q - 1 : i \in D
                                        /\ q = Len(Source) + 1 \/ q \notin D
  <2>1. D \in SUBSET (1 .. Len(Source))
    OBVIOUS
  <2> HIDE DEF D
  <2>2. QED
    BY <1>1, <2>1, StopExists
<1>3. Ends(q)
  BY <1>1, <1>2
<1>4. RunEnd(m, set) = CHOOSE r \in m .. Len(Source) + 1 : Ends(r)
  BY DEF RunEnd
<1> HIDE DEF Ends
<1>5. RunEnd(m, set) \in m .. Len(Source) + 1 /\ Ends(RunEnd(m, set))
  BY <1>3, <1>4
<1>6. QED
  BY <1>5 DEF Ends

LEMMA LineEndStops ==
    ASSUME InFile, NEW m \in 1 .. Len(Source) + 1
    PROVE  /\ LineEnd(m) \in m .. Len(Source) + 1
           /\ \A i \in m .. LineEnd(m) - 1 : Source[i] # Eol
           /\ LineEnd(m) = Len(Source) + 1 \/ Source[LineEnd(m)] = Eol
<1> DEFINE D == {i \in 1 .. Len(Source) : Source[i] # Eol}
           Ends(q) == /\ \A i \in m .. q - 1 : Source[i] # Eol
                      /\ q = Len(Source) + 1 \/ Source[q] = Eol
<1>1. Len(Source) \in Nat
  BY DEF InFile
<1>2. PICK q \in m .. Len(Source) + 1 : /\ \A i \in m .. q - 1 : i \in D
                                        /\ q = Len(Source) + 1 \/ q \notin D
  <2>1. D \in SUBSET (1 .. Len(Source))
    OBVIOUS
  <2> HIDE DEF D
  <2>2. QED
    BY <1>1, <2>1, StopExists
<1>3. Ends(q)
  BY <1>1, <1>2
<1>4. LineEnd(m) = CHOOSE r \in m .. Len(Source) + 1 : Ends(r)
  BY DEF LineEnd
<1> HIDE DEF Ends
<1>5. LineEnd(m) \in m .. Len(Source) + 1 /\ Ends(LineEnd(m))
  BY <1>3, <1>4
<1>6. QED
  BY <1>5 DEF Ends

-----------------------------------------------------------------------------
(* Counting lines *)

Eols(s, n) == {i \in 1 .. n - 1 : s[i] = Eol}

LEMMA EolsFinite ==
    ASSUME NEW s, NEW n \in Nat
    PROVE  IsFiniteSet(Eols(s, n)) /\ Cardinality(Eols(s, n)) \in Nat
<1>1. Eols(s, n) \in SUBSET (1 .. n - 1)
  BY DEF Eols
<1>2. IsFiniteSet(Eols(s, n))
  BY <1>1, FS_Interval, FS_Subset
<1>3. QED
  BY <1>2, FS_CardinalityType

LEMMA EolsNone ==
    ASSUME NEW s, NEW n \in Nat \ {0}, NEW m \in Nat, m >= n, \A i \in n .. m - 1 : s[i] # Eol
    PROVE  Eols(s, m) = Eols(s, n)
BY DEF Eols

LEMMA EolsOne ==
    ASSUME NEW s, NEW n \in Nat \ {0}, NEW m \in Nat, m > n,
           \A i \in n .. m - 2 : s[i] # Eol, s[m - 1] = Eol
    PROVE  Cardinality(Eols(s, m)) = Cardinality(Eols(s, n)) + 1
<1>1. Eols(s, m) = Eols(s, n) \union {m - 1}
  BY DEF Eols
<1>2. m - 1 \notin Eols(s, n)
  BY DEF Eols
<1>3. QED
  BY <1>1, <1>2, EolsFinite, FS_AddElement

-----------------------------------------------------------------------------
(* The inductive invariant *)

ScanTypeOK ==
  /\ DOMAIN text \subseteq Files
  /\ \A f \in DOMAIN text : text[f] \in Seq(STRING)
  /\ stack \in Seq(DOMAIN text)
  /\ flags \in [Files -> {{}, {"BUSY"}, {"SCANNED"}}]
  /\ parent \in [Files -> Files \union {NoFile}]
  /\ lineno \in [Files -> Nat]
  /\ pos \in [Files -> Nat]
  /\ \A f \in DOMAIN text : pos[f] \in 1 .. Len(text[f]) + 1
  /\ str \in QuoteMarks

\* What has been entered exists, and what has not is unread.
Unread == \A f \in Files : IF flags[f] = {} THEN pos[f] = 1 ELSE f \in DOMAIN text

ScanInv == ScanTypeOK /\ Unread /\ ScannerAgrees

LEMMA InFileWhile ==
    ASSUME ScanInv, stack # << >>
    PROVE  /\ InFile
           /\ Current \in DOMAIN text /\ Current \in Files
           /\ Len(stack) \in Nat \ {0} /\ Len(stack) \in DOMAIN stack
           /\ Current = stack[Len(stack)]
           /\ flags[Current] = {"BUSY"}
<1>1. stack \in Seq(DOMAIN text)
  BY DEF ScanInv, ScanTypeOK
<1>2. Len(stack) \in Nat \ {0} /\ Len(stack) \in DOMAIN stack
  BY <1>1
<1>3. Current = stack[Len(stack)] /\ Current \in DOMAIN text
  BY <1>1, <1>2 DEF Current
<1>4. Current \in Files /\ InFile
  BY <1>3 DEF InFile, ScanInv, ScanTypeOK, Source, Here
<1>5. "BUSY" \in flags[Current]
  BY <1>2, <1>3, <1>4 DEF ScanInv, ScannerAgrees, IncludeStack
<1>6. flags[Current] = {"BUSY"}
  BY <1>4, <1>5 DEF ScanInv, ScanTypeOK
<1>7. QED
  BY <1>2, <1>3, <1>4, <1>6

LEMMA ScanInitInv == ScanInit => ScanInv
<1> SUFFICES ASSUME ScanInit PROVE ScanInv
  OBVIOUS
<1>1. /\ Main \in DOMAIN text /\ DOMAIN text \subseteq Files
      /\ \A f \in DOMAIN text : text[f] \in Seq(STRING)
  BY TextsAssumption DEF ScanInit
<1>2. /\ stack = <<Main>>
      /\ flags = [f \in Files |-> IF f = Main THEN {"BUSY"} ELSE {}]
      /\ parent = [f \in Files |-> NoFile]
      /\ lineno = [f \in Files |-> IF f = Main THEN 1 ELSE 0]
      /\ pos = [f \in Files |-> 1]
      /\ str = "\""
  BY DEF ScanInit
<1>3. Main \in Files
  BY FilesAssumption
<1>4. ScanTypeOK
  <2>1. stack \in Seq(DOMAIN text)
    <3>1. <<Main>> \in Seq(DOMAIN text)
      BY <1>1
    <3>2. QED
      BY <1>2, <3>1
  <2>2. ASSUME NEW f \in DOMAIN text
        PROVE  pos[f] \in 1 .. Len(text[f]) + 1
    <3>1. pos[f] = 1 /\ text[f] \in Seq(STRING)
      BY <1>1, <1>2
    <3>2. Len(text[f]) \in Nat
      BY <3>1
    <3>3. QED
      BY <3>1, <3>2
  <2>3. flags \in [Files -> {{}, {"BUSY"}, {"SCANNED"}}]
    BY <1>2
  <2>4. QED
    BY <1>1, <1>2, <2>1, <2>2, <2>3 DEF ScanTypeOK, QuoteMarks
<1>5. Unread
  BY <1>1, <1>2 DEF Unread
<1>6. IncludeStack
  <2>1. DOMAIN stack = {1} /\ stack[1] = Main
    <3>1. DOMAIN <<Main>> = {1} /\ <<Main>>[1] = Main
      OBVIOUS
    <3>2. QED
      BY <1>2, <3>1
  <2>2. \A f \in Files : Cardinality(flags[f]) <= 1
    <3>1. \A f \in Files : flags[f] = {"BUSY"} \/ flags[f] = {}
      BY <1>2
    <3>2. Cardinality({}) <= 1 /\ Cardinality({"BUSY"}) <= 1
      BY FS_EmptySet, FS_Singleton
    <3>3. QED
      BY <3>1, <3>2
  <2>3. \A f \in Files : ("BUSY" \in flags[f]) <=> f = Main
    BY <1>2
  <2>4. QED
    BY <1>3, <2>1, <2>2, <2>3 DEF IncludeStack
<1>7. LinesCounted
  <2>1. \A f \in Entered : f = Main
    BY <1>2 DEF Entered
  <2>2. pos[Main] = 1 /\ lineno[Main] = 1
    BY <1>2, <1>3
  <2>3. Cardinality({i \in 1 .. 1 - 1 : text[Main][i] = Eol}) = 0
    <3>1. {i \in 1 .. 1 - 1 : text[Main][i] = Eol} = {}
      OBVIOUS
    <3>2. QED
      BY <3>1, FS_EmptySet
  <2>4. lineno[Main] = 1 + Cardinality({i \in 1 .. pos[Main] - 1 : text[Main][i] = Eol})
    BY <2>2, <2>3
  <2>5. QED
    BY <2>1, <2>4, Zenon DEF LinesCounted
<1>8. QED
  BY <1>4, <1>5, <1>6, <1>7 DEF ScanInv, ScannerAgrees

-----------------------------------------------------------------------------
(* What a rule does to the place in the file: it passes some lexemes, none or the last *)
(* of which is the end of a line, which it then counts. *)

NoEol(m, q) == \A i \in m .. q - 1 : Source[i] # Eol
Passes(q) ==
  /\ q \in Here .. Len(Source) + 1
  /\ Advance(q)
  /\ \/ NoEol(Here, q) /\ lineno' = lineno
     \/ q > Here /\ NoEol(Here, q - 1) /\ Source[q - 1] = Eol /\ CountLine
  /\ UNCHANGED <<text, stack, flags, parent>> /\ str' \in QuoteMarks

LEMMA PassingCounts ==
    ASSUME ScanInv, stack # << >>, NEW q, Passes(q)
    PROVE  ScanInv'
<1> DEFINE c == Current
<1>1. c \in DOMAIN text /\ c \in Files /\ InFile
  BY InFileWhile
<1>2. Here = pos[c] /\ Source = text[c] /\ Len(Source) \in Nat /\ Here \in Nat \ {0}
  BY <1>1 DEF InFile, Here, Source
<1>3. pos' = [pos EXCEPT ![c] = q] /\ q \in Here .. Len(Source) + 1
  BY DEF Passes, Advance
<1>4. /\ \A f \in Files \ {c} : lineno'[f] = lineno[f]
      /\ lineno' \in [Files -> Nat]
      /\ \/ NoEol(Here, q) /\ lineno'[c] = lineno[c]
         \/ q > Here /\ NoEol(Here, q - 1) /\ Source[q - 1] = Eol /\ lineno'[c] = lineno[c] + 1
  <2>1. lineno \in [Files -> Nat]
    BY DEF ScanInv, ScanTypeOK
  <2>2. lineno' = lineno \/ lineno' = [lineno EXCEPT ![c] = @ + 1]
    BY DEF Passes, CountLine
  <2>3. /\ \A f \in Files \ {c} : lineno'[f] = lineno[f]
        /\ lineno' \in [Files -> Nat]
    BY <2>1, <2>2
  <2>4. lineno' = [lineno EXCEPT ![c] = @ + 1] => lineno'[c] = lineno[c] + 1
    BY <1>1, <2>1
  <2>5. QED
    BY <2>3, <2>4 DEF Passes, CountLine
<1> HIDE DEF c
<1>5. ScanTypeOK'
  <2>1. pos' \in [Files -> Nat]
    <3>1. q \in Nat
      BY <1>2, <1>3
    <3>2. pos \in [Files -> Nat]
      BY DEF ScanInv, ScanTypeOK
    <3>3. QED
      BY <1>3, <3>1, <3>2
  <2>2. ASSUME NEW f \in DOMAIN text
        PROVE  pos'[f] \in 1 .. Len(text[f]) + 1
    <3>1. pos[f] \in 1 .. Len(text[f]) + 1 /\ f \in Files /\ pos \in [Files -> Nat]
      BY DEF ScanInv, ScanTypeOK
    <3>2. CASE f = c
      BY <1>2, <1>3, <3>1, <3>2
    <3>3. CASE f # c
      BY <1>3, <3>1, <3>3
    <3>4. QED
      BY <3>2, <3>3
  <2>3. QED
    BY <1>4, <2>1, <2>2 DEF ScanInv, ScanTypeOK, Passes
<1>6. Unread'
  <2>1. flags[c] # {}
    BY InFileWhile DEF c
  <2>2. QED
    BY <1>3, <2>1 DEF ScanInv, ScanTypeOK, Unread, Passes
<1>7. IncludeStack'
  BY DEF ScanInv, ScannerAgrees, IncludeStack, Passes
<1>8. LinesCounted'
  <2> SUFFICES ASSUME NEW f \in Entered
               PROVE  lineno'[f] = 1 + Cardinality(Eols(text[f], pos'[f]))
    BY DEF LinesCounted, Entered, Eols, Passes
  <2>1. f \in Files /\ lineno[f] = 1 + Cardinality(Eols(text[f], pos[f]))
    BY DEF ScanInv, ScannerAgrees, LinesCounted, Entered, Eols
  <2>2. CASE f # c
    BY <1>3, <1>4, <2>1, <2>2 DEF ScanInv, ScanTypeOK
  <2>3. CASE f = c
    <3>1. pos[c] = Here /\ pos'[c] = q /\ Cardinality(Eols(Source, Here)) \in Nat
      BY <1>1, <1>2, <1>3, EolsFinite DEF ScanInv, ScanTypeOK
    <3>2. CASE NoEol(Here, q) /\ lineno'[c] = lineno[c]
      <4>1. Eols(Source, q) = Eols(Source, Here)
        BY <1>2, <1>3, <3>2, EolsNone DEF NoEol
      <4>2. QED
        BY <1>2, <2>1, <2>3, <3>1, <3>2, <4>1
    <3>3. CASE q > Here /\ NoEol(Here, q - 1) /\ Source[q - 1] = Eol /\ lineno'[c] = lineno[c] + 1
      <4>1. Here \in Nat \ {0} /\ q \in Nat /\ q > Here
        BY <1>2, <1>3, <3>3
      <4>2. (\A i \in Here .. q - 2 : Source[i] # Eol) /\ Source[q - 1] = Eol
        BY <3>3, <4>1 DEF NoEol
      <4>3. Cardinality(Eols(Source, q)) = Cardinality(Eols(Source, Here)) + 1
        BY <4>1, <4>2, EolsOne
      <4>4. QED
        BY <1>2, <2>1, <2>3, <3>1, <3>3, <4>3
    <3>4. QED
      BY <1>4, <3>2, <3>3
  <2>4. QED
    BY <2>2, <2>3
<1>9. QED
  BY <1>5, <1>6, <1>7, <1>8 DEF ScanInv, ScannerAgrees

\* One rule after the other.
LEMMA InitialPasses ==
    ASSUME ScanInv, ScanInitial
    PROVE  \E q : Passes(q)
<1> DEFINE first == RunEnd(Here, Blank)
           comment == Is(first, "#")
           last == IF comment THEN LineEnd(first) ELSE first
<1>1. stack # << >> /\ InFile /\ UNCHANGED <<text, stack, flags, parent>> /\ str' \in QuoteMarks
  BY InFileWhile DEF ScanInitial, Scanning, FileUnchanged, ScanInv, ScanTypeOK
<1>2. Len(Source) \in Nat /\ Here \in 1 .. Len(Source) + 1
  BY <1>1 DEF InFile
<1>3. first \in Here .. Len(Source) + 1 /\ NoEol(Here, first)
  <2>1. Eol \notin Blank
    BY DEF Eol, Blank
  <2>2. QED
    BY <1>1, <1>2, <2>1, RunEndStops DEF NoEol
<1> HIDE DEF first
<1>4. last \in Here .. Len(Source) + 1 /\ NoEol(Here, last)
  <2>1. CASE comment
    <3>1. first \in 1 .. Len(Source) + 1
      BY <1>2, <1>3
    <3>2. LineEnd(first) \in first .. Len(Source) + 1 /\ NoEol(first, LineEnd(first))
      BY <1>1, <3>1, LineEndStops DEF NoEol
    <3>3. QED
      BY <1>2, <1>3, <2>1, <3>1, <3>2 DEF NoEol
  <2>2. QED
    BY <1>3, <2>1
<1> HIDE DEF comment, last
<1>5. CASE Is(last, Eol) /\ Advance(last + 1) /\ CountLine
  <2>1. Passes(last + 1)
    BY <1>1, <1>2, <1>4, <1>5 DEF Passes, Is
  <2>2. QED
    BY <2>1
<1>6. CASE Advance(last) /\ UNCHANGED lineno
  BY <1>1, <1>4, <1>6 DEF Passes
<1>7. CASE Advance(first) /\ UNCHANGED lineno
  BY <1>1, <1>3, <1>7 DEF Passes
<1>8. QED
  BY <1>5, <1>6, <1>7 DEF ScanInitial, first, comment, last

LEMMA CommandPasses ==
    ASSUME ScanInv, ScanCommand
    PROVE  \E q : Passes(q)
<1>1. stack # << >> /\ InFile /\ UNCHANGED <<text, stack, flags, parent>> /\ str' \in QuoteMarks
  BY InFileWhile DEF ScanCommand, Scanning, FileUnchanged, ScanInv, ScanTypeOK
<1>2. Len(Source) \in Nat /\ Here \in 1 .. Len(Source) /\ Advance(Here + 1)
  BY <1>1 DEF InFile, ScanCommand, AtEof
<1>3. CASE Lexeme = Eol /\ CountLine
  <2>1. Passes(Here + 1)
    BY <1>1, <1>2, <1>3 DEF Passes, NoEol, Lexeme
  <2>2. QED
    BY <2>1
<1>4. CASE Lexeme # Eol /\ UNCHANGED lineno
  <2>1. Passes(Here + 1)
    BY <1>1, <1>2, <1>4 DEF Passes, NoEol, Lexeme
  <2>2. QED
    BY <2>1
<1>5. QED
  BY <1>3, <1>4, TextsAssumption DEF ScanCommand

LEMMA ParamPasses ==
    ASSUME ScanInv, ScanParam
    PROVE  \E q : Passes(q)
<1>1. stack # << >> /\ InFile /\ UNCHANGED <<text, stack, flags, parent>> /\ str \in QuoteMarks
  BY InFileWhile DEF ScanParam, Scanning, FileUnchanged, ScanInv, ScanTypeOK
<1>2. Len(Source) \in Nat /\ Here \in 1 .. Len(Source)
  BY <1>1 DEF InFile, ScanParam, AtEof
<1>3. str' \in QuoteMarks
  BY <1>1 DEF ScanParam
<1>4. CASE Lexeme # Eol /\ Advance(Here + 1) /\ UNCHANGED lineno
  <2>1. Passes(Here + 1)
    BY <1>1, <1>2, <1>3, <1>4 DEF Passes, NoEol, Lexeme
  <2>2. QED
    BY <2>1
<1>5. CASE Lexeme = Eol /\ Advance(Here + 1) /\ CountLine
  <2>1. Passes(Here + 1)
    BY <1>1, <1>2, <1>3, <1>5 DEF Passes, NoEol, Lexeme
  <2>2. QED
    BY <2>1
<1>6. CASE Lexeme = "\\" /\ Is(Here + 1, Eol) /\ Advance(Here + 2) /\ CountLine
  <2>1. NoEol(Here, Here + 1)
    BY <1>2, <1>6 DEF NoEol, Lexeme, Eol
  <2>2. Here + 2 \in Here .. Len(Source) + 1 /\ Source[Here + 2 - 1] = Eol
    BY <1>2, <1>6 DEF Is
  <2>3. Passes(Here + 2)
    BY <1>1, <1>2, <1>3, <1>6, <2>1, <2>2 DEF Passes
  <2>4. QED
    BY <2>3
<1>7. CASE Advance(LineEnd(Here)) /\ UNCHANGED lineno
  <2>1. LineEnd(Here) \in Here .. Len(Source) + 1 /\ NoEol(Here, LineEnd(Here))
    BY <1>1, <1>2, LineEndStops DEF NoEol
  <2>2. Passes(LineEnd(Here))
    BY <1>1, <1>3, <1>7, <2>1 DEF Passes
  <2>3. QED
    BY <2>2
<1>8. Eol \notin Operators /\ Eol \notin QuoteMarks /\ Eol \notin Words
  BY TextsAssumption DEF Eol, Operators, QuoteMarks
<1>9. QED
  BY <1>4, <1>5, <1>6, <1>7, <1>8 DEF ScanParam

LEMMA StringPasses ==
    ASSUME ScanInv, ScanString
    PROVE  \E q : Passes(q)
<1> DEFINE escaped == Lexeme = "\\"
           skip == IF escaped THEN 1 ELSE 0
           last == IF escaped /\ (Here = Len(Source) \/ Is(Here + 1, Eol)) THEN Here + 1
                   ELSE Here + skip + 1
<1>1. stack # << >> /\ InFile /\ UNCHANGED <<text, stack, flags, parent>> /\ str' \in QuoteMarks
  BY InFileWhile DEF ScanString, Scanning, FileUnchanged, ScanInv, ScanTypeOK
<1>2. Len(Source) \in Nat /\ Here \in 1 .. Len(Source)
  BY <1>1 DEF InFile, ScanString, AtEof
<1>3. CASE Lexeme = str /\ Advance(Here + 1) /\ UNCHANGED lineno
  <2>1. str # Eol
    BY DEF ScanInv, ScanTypeOK, QuoteMarks, Eol
  <2>2. Passes(Here + 1)
    BY <1>1, <1>2, <1>3, <2>1 DEF Passes, NoEol, Lexeme
  <2>3. QED
    BY <2>2
<1>4. CASE Lexeme # Eol /\ Advance(last) /\ UNCHANGED lineno
  <2>1. last \in Here .. Len(Source) + 1
    BY <1>2
  <2>2. NoEol(Here, last)
    BY <1>2, <1>4 DEF NoEol, Lexeme, Is
  <2>3. Passes(last)
    BY <1>1, <1>4, <2>1, <2>2 DEF Passes
  <2>4. QED
    BY <2>3
<1>5. CASE Lexeme = Eol /\ Advance(Here + 1) /\ CountLine
  <2>1. Passes(Here + 1)
    BY <1>1, <1>2, <1>5 DEF Passes, NoEol, Lexeme
  <2>2. QED
    BY <2>1
<1>6. QED
  BY <1>3, <1>4, <1>5 DEF ScanString

LEMMA HelpPasses ==
    ASSUME ScanInv, ScanHelp
    PROVE  \E q : Passes(q)
<1> DEFINE first == RunEnd(Here, Blank)
<1>1. stack # << >> /\ InFile /\ UNCHANGED <<text, stack, flags, parent>> /\ str' \in QuoteMarks
  BY InFileWhile DEF ScanHelp, Scanning, FileUnchanged, ScanInv, ScanTypeOK
<1>2. Len(Source) \in Nat /\ Here \in 1 .. Len(Source)
  <2>1. ~AtEof
    BY DEF ScanHelp
  <2>2. QED
    BY <1>1, <2>1 DEF InFile, AtEof
<1>3. first \in Here .. Len(Source) + 1 /\ NoEol(Here, first)
  <2>1. Eol \notin Blank
    BY DEF Eol, Blank
  <2>2. QED
    BY <1>1, <1>2, <2>1, RunEndStops DEF NoEol
<1> HIDE DEF first
<1>4. CASE Is(first, Eol) /\ CountLine /\ Advance(first + 1)
  <2>1. Passes(first + 1)
    BY <1>1, <1>2, <1>3, <1>4 DEF Passes, Is
  <2>2. QED
    BY <2>1
<1>5. CASE Advance(first) /\ UNCHANGED lineno
  BY <1>1, <1>3, <1>5 DEF Passes
<1>6. CASE Advance(LineEnd(Here)) /\ UNCHANGED lineno
  <2>1. LineEnd(Here) \in Here .. Len(Source) + 1 /\ NoEol(Here, LineEnd(Here))
    BY <1>1, <1>2, LineEndStops DEF NoEol
  <2>2. Passes(LineEnd(Here))
    BY <1>1, <1>6, <2>1 DEF Passes
  <2>3. QED
    BY <2>2
<1>7. QED
  BY <1>4, <1>5, <1>6 DEF ScanHelp, first

-----------------------------------------------------------------------------
(* Where files begin and end *)

LEMMA StaysInv ==
    ASSUME ScanInv, UNCHANGED <<text, stack, flags, parent, lineno, pos, str>>
    PROVE  ScanInv'
<1>1. ScanTypeOK' /\ Unread'
  BY DEF ScanInv, ScanTypeOK, Unread
<1>2. IncludeStack' /\ LinesCounted'
  BY DEF ScanInv, ScannerAgrees, IncludeStack, LinesCounted, Entered
<1>3. QED
  BY <1>1, <1>2 DEF ScanInv, ScannerAgrees

LEMMA EndFileInv ==
    ASSUME ScanInv, EndFile
    PROVE  ScanInv'
<1> DEFINE c == Current
           n == Len(stack)
<1>1. stack # << >>
  BY DEF EndFile, Scanning
<1>2. c \in DOMAIN text /\ c \in Files /\ n \in Nat \ {0} /\ c = stack[n] /\ flags[c] = {"BUSY"}
  BY <1>1, InFileWhile
<1>3. stack \in Seq(DOMAIN text) /\ DOMAIN stack = 1 .. n
  BY DEF ScanInv, ScanTypeOK
<1>4. flags' = [flags EXCEPT ![c] = {"SCANNED"}]
  BY <1>2 DEF EndFile
<1>5. /\ stack' \in Seq(DOMAIN text) /\ DOMAIN stack' = 1 .. n - 1
      /\ \A i \in 1 .. n - 1 : stack'[i] = stack[i]
  BY <1>2, <1>3 DEF EndFile
<1>6. UNCHANGED <<text, parent, lineno, pos, str>>
  BY DEF EndFile
<1>7. \A i \in 1 .. n - 1 : stack[i] # c
  BY <1>2, <1>3 DEF ScanInv, ScannerAgrees, IncludeStack
<1> HIDE DEF c, n
<1>8. flags \in [Files -> {{}, {"BUSY"}, {"SCANNED"}}]
  BY DEF ScanInv, ScanTypeOK
<1>9. ScanTypeOK'
  <2>1. flags' \in [Files -> {{}, {"BUSY"}, {"SCANNED"}}]
    BY <1>4, <1>8
  <2>2. QED
    BY <1>5, <1>6, <2>1 DEF ScanInv, ScanTypeOK
<1>10. Unread'
  BY <1>2, <1>4, <1>6, <1>8 DEF ScanInv, Unread
<1>11. IncludeStack'
  <2>1. \A i, j \in DOMAIN stack' : stack'[i] = stack'[j] => i = j
    BY <1>2, <1>3, <1>5 DEF ScanInv, ScannerAgrees, IncludeStack
  <2>2. ASSUME NEW f \in Files
        PROVE  ("BUSY" \in flags'[f]) <=> \E i \in DOMAIN stack' : stack'[i] = f
    <3>1. ("BUSY" \in flags[f]) <=> \E i \in 1 .. n : stack[i] = f
      BY <1>3 DEF ScanInv, ScannerAgrees, IncludeStack
    <3>2. CASE f = c
      BY <1>2, <1>4, <1>5, <1>7, <1>8, <3>2
    <3>3. CASE f # c
      BY <1>2, <1>4, <1>5, <1>8, <3>1, <3>3
    <3>4. QED
      BY <3>2, <3>3
  <2>3. \A f \in Files : Cardinality(flags'[f]) <= 1
    <3>1. Cardinality({"SCANNED"}) = 1
      BY FS_Singleton, Zenon
    <3>2. QED
      BY <1>4, <1>8, <3>1 DEF ScanInv, ScannerAgrees, IncludeStack
  <2>4. \A i \in DOMAIN stack' : i > 1 => parent'[stack'[i]] = stack'[i - 1]
    BY <1>2, <1>3, <1>5, <1>6 DEF ScanInv, ScannerAgrees, IncludeStack
  <2>5. QED
    BY <2>1, <2>2, <2>3, <2>4 DEF IncludeStack
<1>12. LinesCounted'
  <2>1. Entered' = Entered
    BY <1>2, <1>4, <1>8 DEF Entered
  <2>2. QED
    BY <1>6, <2>1, Zenon DEF ScanInv, ScannerAgrees, LinesCounted
<1>13. QED
  BY <1>9, <1>10, <1>11, <1>12 DEF ScanInv, ScannerAgrees

LEMMA NextFileInv ==
    ASSUME ScanInv, NEW f \in Files, NextFile(f)
    PROVE  ScanInv'
<1>1. CASE ~MayEnter(f)
  BY <1>1, StaysInv DEF NextFile
<1>2. CASE MayEnter(f)
  <2> DEFINE c == Current
             n == Len(stack)
  <2>1. stack # << >> /\ f \in DOMAIN text /\ flags[f] = {}
    BY <1>2 DEF MayEnter
  <2>2. c \in DOMAIN text /\ c \in Files /\ n \in Nat \ {0} /\ c = stack[n]
    BY <2>1, InFileWhile
  <2>3. stack \in Seq(DOMAIN text) /\ DOMAIN stack = 1 .. n
    BY DEF ScanInv, ScanTypeOK
  <2>4. /\ flags' = [flags EXCEPT ![f] = {"BUSY"}]
        /\ lineno' = [lineno EXCEPT ![f] = 1]
        /\ parent' = [parent EXCEPT ![f] = c]
        /\ stack' = Append(stack, f)
        /\ UNCHANGED <<text, pos, str>>
    BY <1>2 DEF NextFile
  <2>5. /\ stack' \in Seq(DOMAIN text) /\ DOMAIN stack' = 1 .. n + 1
        /\ \A i \in 1 .. n : stack'[i] = stack[i]
        /\ stack'[n + 1] = f
    BY <2>1, <2>2, <2>3, <2>4
  <2>6. \A i \in 1 .. n : stack[i] # f
    BY <2>1, <2>3 DEF ScanInv, ScannerAgrees, IncludeStack
  <2> HIDE DEF c, n
  <2>7. /\ flags \in [Files -> {{}, {"BUSY"}, {"SCANNED"}}]
        /\ parent \in [Files -> Files \union {NoFile}]
        /\ lineno \in [Files -> Nat]
    BY DEF ScanInv, ScanTypeOK
  <2>8. ScanTypeOK'
    <3>1. /\ flags' \in [Files -> {{}, {"BUSY"}, {"SCANNED"}}]
          /\ parent' \in [Files -> Files \union {NoFile}]
          /\ lineno' \in [Files -> Nat]
      BY <2>2, <2>4, <2>7
    <3>2. QED
      BY <2>4, <2>5, <3>1 DEF ScanInv, ScanTypeOK
  <2>9. Unread'
    BY <2>1, <2>4, <2>7 DEF ScanInv, Unread
  <2>10. IncludeStack'
    <3>1. \A i, j \in DOMAIN stack' : stack'[i] = stack'[j] => i = j
      BY <2>2, <2>3, <2>5, <2>6 DEF ScanInv, ScannerAgrees, IncludeStack
    <3>2. ASSUME NEW g \in Files
          PROVE  ("BUSY" \in flags'[g]) <=> \E i \in DOMAIN stack' : stack'[i] = g
      <4>1. ("BUSY" \in flags[g]) <=> \E i \in 1 .. n : stack[i] = g
        BY <2>3 DEF ScanInv, ScannerAgrees, IncludeStack
      <4>2. CASE g = f
        BY <2>2, <2>4, <2>5, <2>7, <4>2
      <4>3. CASE g # f
        <5>1. flags'[g] = flags[g] /\ stack'[n + 1] # g
          BY <2>4, <2>5, <2>7, <4>3
        <5>2. (\E i \in DOMAIN stack' : stack'[i] = g) <=> \E i \in 1 .. n : stack[i] = g
          BY <2>2, <2>5, <5>1
        <5>3. QED
          BY <4>1, <5>1, <5>2
      <4>4. QED
        BY <4>2, <4>3
    <3>3. \A g \in Files : Cardinality(flags'[g]) <= 1
      <4>1. Cardinality({"BUSY"}) = 1
        BY FS_Singleton, Zenon
      <4>2. QED
        BY <2>4, <2>7, <4>1 DEF ScanInv, ScannerAgrees, IncludeStack
    <3>4. ASSUME NEW i \in DOMAIN stack', i > 1
          PROVE  parent'[stack'[i]] = stack'[i - 1]
      <4>1. CASE i = n + 1
        BY <2>2, <2>4, <2>5, <2>7, <4>1
      <4>2. CASE i # n + 1
        <5>1. i \in 1 .. n /\ i - 1 \in 1 .. n
          BY <2>2, <2>5, <3>4, <4>2
        <5>2. parent[stack[i]] = stack[i - 1]
          BY <2>3, <3>4, <5>1 DEF ScanInv, ScannerAgrees, IncludeStack
        <5>3. parent'[stack[i]] = parent[stack[i]]
          BY <2>4, <2>6, <2>7, <5>1
        <5>4. QED
          BY <2>5, <5>1, <5>2, <5>3
      <4>3. QED
        BY <4>1, <4>2
    <3>5. QED
      BY <3>1, <3>2, <3>3, <3>4 DEF IncludeStack
  <2>11. LinesCounted'
    <3> SUFFICES ASSUME NEW g \in Files, flags'[g] # {}
                 PROVE  lineno'[g] = 1 + Cardinality(Eols(text[g], pos[g]))
      BY <2>4 DEF LinesCounted, Entered, Eols
    <3>1. CASE g = f
      <4>1. pos[g] = 1
        BY <2>1, <3>1 DEF ScanInv, Unread
      <4>2. Eols(text[g], 1) = {}
        BY DEF Eols
      <4>3. lineno'[g] = 1
        BY <2>4, <2>7, <3>1
      <4>4. QED
        BY <4>1, <4>2, <4>3, FS_EmptySet
    <3>2. CASE g # f
      <4>1. flags[g] # {} /\ lineno'[g] = lineno[g]
        BY <2>4, <2>7, <3>2
      <4>2. QED
        BY <4>1 DEF ScanInv, ScannerAgrees, LinesCounted, Entered, Eols
    <3>3. QED
      BY <3>1, <3>2
  <2>12. QED
    BY <2>8, <2>9, <2>10, <2>11 DEF ScanInv, ScannerAgrees
<1>3. QED
  BY <1>1, <1>2

-----------------------------------------------------------------------------

\* ScanInv is inductive.
LEMMA ScanStep == ScanInv /\ [ScanNext]_scanVars => ScanInv'
<1> SUFFICES ASSUME ScanInv, [ScanNext]_scanVars PROVE ScanInv'
  OBVIOUS
<1>1. CASE ScanInitial
  BY <1>1, InitialPasses, PassingCounts DEF ScanInitial, Scanning
<1>2. CASE ScanCommand
  BY <1>2, CommandPasses, PassingCounts DEF ScanCommand, Scanning
<1>3. CASE ScanParam
  BY <1>3, ParamPasses, PassingCounts DEF ScanParam, Scanning
<1>4. CASE ScanString
  BY <1>4, StringPasses, PassingCounts DEF ScanString, Scanning
<1>5. CASE ScanHelp
  BY <1>5, HelpPasses, PassingCounts DEF ScanHelp, Scanning
<1>6. CASE EofInside
  BY <1>6, StaysInv DEF EofInside, FileUnchanged
<1>7. CASE EndFile
  BY <1>7, EndFileInv
<1>8. CASE Terminate
  BY <1>8, StaysInv DEF Terminate
<1>9. CASE TakeOnly
  BY <1>9, StaysInv DEF TakeOnly
<1>10. CASE StartHelp
  BY <1>10, StaysInv DEF StartHelp
<1>11. ASSUME NEW f \in Files, NextFile(f)
       PROVE  ScanInv'
  BY <1>11, NextFileInv
<1>12. CASE UNCHANGED scanVars
  BY <1>12, StaysInv DEF scanVars
<1>13. QED
  BY <1>1, <1>2, <1>3, <1>4, <1>5, <1>6, <1>7, <1>8, <1>9, <1>10, <1>11, <1>12 DEF ScanNext, Scan

\* Whatever the files contain, whichever of them are read from which others, and
\* whatever the parser orders: the chain of buffers, the flags of the files and
\* their parents agree, no file is open twice, and file->lineno is the line the
\* scanner has reached (zconf_nextfile, zconf_endfile, the rules of lex.zconf.c).
THEOREM ScannerAgreesCorrect == ScanSpec => []ScannerAgrees
<1>1. ScanInv => ScannerAgrees
  BY DEF ScanInv
<1>2. QED
  BY <1>1, ScanInitInv, ScanStep, PTL DEF ScanSpec

-----------------------------------------------------------------------------
(* Lists that are linked in the order of numbers: P, L and N are the fields parent, list *)
(* and next of n entries, V says which list each is in. *)
LEMMA FirstIs ==
    ASSUME NEW S, NEW k \in S, \A j \in S : k <= j
    PROVE  IsFirst(k, S)
BY DEF IsFirst

LEMMA FirstOf ==
    ASSUME NEW S, NEW k, IsFirst(k, S), NEW s \in S
    PROVE  k \in S /\ \A j \in S : k <= j
BY DEF IsFirst

LEMMA FirstNone ==
    ASSUME NEW S, NEW k, IsFirst(k, S), 0 \notin S
    PROVE  k = 0 <=> S = {}
BY DEF IsFirst

ListOf(n, V, i) == {k \in 2 .. n : V[k] = i}
After(n, V, i, q) == {k \in 2 .. n : k > i /\ V[k] = q}
Threaded(n, V, L, N) ==
  \A i \in 1 .. n : IsFirst(L[i], ListOf(n, V, i)) /\ IsFirst(N[i], After(n, V, i, V[i]))

LEMMA Adopting ==
    ASSUME NEW n \in Nat, NEW V, \A k \in 1 .. n : V[k] \in Nat,
           NEW W, NEW L, NEW N, NEW M, NEW O,
           Threaded(n, V, L, N),
           NEW h \in 2 .. n, NEW K \in SUBSET (2 .. n), NEW l \in K,
           \A k \in K : h < k /\ k <= l /\ V[k] = V[h],
           \A k \in 2 .. n : h < k /\ k <= l /\ V[k] = V[h] => k \in K,
           \A k \in 1 .. n : V[k] # h,
           \A k \in K : W[k] = h, \A k \in 1 .. n : k \notin K => W[k] = V[k],
           \A i \in 1 .. n : M[i] = IF i = h THEN N[h] ELSE L[i],
           \A i \in 1 .. n : O[i] = IF i = h THEN N[l] ELSE IF i = l THEN 0 ELSE N[i]
    PROVE  Threaded(n, W, M, O)
<1> DEFINE q == V[h]
<1>0. q \in Nat /\ q # h /\ h \notin K /\ l \in 2 .. n /\ l # h
  OBVIOUS
<1>w. \A k \in 2 .. n : k \in 1 .. n /\ V[k] # h /\ V[k] \in Nat /\ (k \notin K => W[k] = V[k])
  OBVIOUS
<1>k. \A k \in K : k \in 2 .. n /\ W[k] = h /\ V[k] = q /\ h < k /\ k <= l
  OBVIOUS
<1>f. /\ N[h] \in K /\ \A k \in K : N[h] <= k
  <2>1. l \in After(n, V, h, V[h])
    BY DEF After
  <2>2. N[h] \in After(n, V, h, V[h]) /\ \A j \in After(n, V, h, V[h]) : N[h] <= j
    BY <2>1, FirstOf DEF Threaded
  <2>3. K \subseteq After(n, V, h, V[h])
    BY DEF After
  <2>4. N[h] <= l
    BY <2>1, <2>2
  <2>5. QED
    BY <2>2, <2>3, <2>4 DEF After
<1> SUFFICES ASSUME NEW i \in 1 .. n
             PROVE  IsFirst(M[i], ListOf(n, W, i)) /\ IsFirst(O[i], After(n, W, i, W[i]))
  BY DEF Threaded
<1>1. IsFirst(L[i], ListOf(n, V, i)) /\ IsFirst(N[i], After(n, V, i, V[i]))
  BY DEF Threaded
<1>2. IsFirst(M[i], ListOf(n, W, i))
  <2>1. CASE i = h
    <3>1. \A k \in 2 .. n : W[k] = h <=> k \in K
      BY <1>w, <1>k
    <3>3. ListOf(n, W, i) = K
      BY <2>1, <3>1 DEF ListOf
    <3>2. QED
      BY <2>1, <3>3, <1>f, FirstIs
  <2>2. CASE i = q
    <3>1. h \in ListOf(n, V, i)
      BY <2>2 DEF ListOf
    <3>2. L[i] \in ListOf(n, V, i) /\ \A j \in ListOf(n, V, i) : L[i] <= j
      BY <1>1, <3>1, FirstOf
    <3>3. L[i] \notin K /\ i # h
      BY <1>0, <2>2, <3>1, <3>2 DEF ListOf
    <3>4. ListOf(n, W, i) \subseteq ListOf(n, V, i) /\ L[i] \in ListOf(n, W, i)
      BY <1>w, <1>k, <3>2, <3>3 DEF ListOf
    <3>5. \A j \in ListOf(n, W, i) : L[i] <= j
      BY <3>2, <3>4
    <3>6. QED
      BY <3>3, <3>4, <3>5, FirstIs
  <2>3. CASE i # h /\ i # q
    <3>1. ListOf(n, W, i) = ListOf(n, V, i)
      BY <1>w, <1>k, <2>3 DEF ListOf
    <3>2. QED
      BY <1>1, <2>3, <3>1
  <2>4. QED
    BY <2>1, <2>2, <2>3
<1>3. IsFirst(O[i], After(n, W, i, W[i]))
  <2>1. CASE i = h
    <3>1. IsFirst(N[l], After(n, V, l, V[l])) /\ O[i] = N[l]
      BY <2>1 DEF Threaded
    <3>4. W[h] = q /\ V[l] = q
      BY <1>0, <1>w, <1>k
    <3>5. \A k \in 2 .. n : k > h /\ W[k] = q <=> k > l /\ V[k] = q
      BY <1>0, <1>w, <1>k
    <3>2. After(n, W, i, W[i]) = After(n, V, l, V[l])
      <4>1. After(n, W, i, W[i]) = {k \in 2 .. n : k > h /\ W[k] = q}
        BY <2>1, <3>4 DEF After
      <4>2. After(n, V, l, V[l]) = {k \in 2 .. n : k > l /\ V[k] = q}
        BY <3>4 DEF After
      <4> HIDE DEF q
      <4>3. QED
        BY <3>5, <4>1, <4>2
    <3>3. QED
      BY <3>1, <3>2
  <2>2. CASE i = l
    <3>2. \A k \in 2 .. n : ~(k > l /\ W[k] = h)
      BY <1>0, <1>w, <1>k
    <3>3. W[l] = h
      BY <1>k
    <3>1. After(n, W, i, W[i]) = {}
      BY <2>2, <3>2, <3>3 DEF After
    <3>4. QED
      BY <1>0, <2>2, <3>1 DEF IsFirst
  <2>3. CASE i \in K /\ i # l
    <3>1. l \in After(n, V, i, V[i])
      BY <2>3 DEF After
    <3>2. N[i] \in After(n, V, i, V[i]) /\ \A j \in After(n, V, i, V[i]) : N[i] <= j
      BY <1>1, <3>1, FirstOf
    <3>3. N[i] \in 2 .. n /\ i < N[i] /\ N[i] <= l /\ V[N[i]] = q
      BY <2>3, <3>1, <3>2 DEF After
    <3>4. N[i] \in K
      BY <2>3, <3>3
    <3>5. N[i] \in After(n, W, i, W[i])
      BY <2>3, <3>3, <3>4 DEF After
    <3>6. After(n, W, i, W[i]) \subseteq After(n, V, i, V[i])
      BY <1>w, <1>k, <2>3 DEF After
    <3>7. O[i] = N[i]
      BY <2>3, <1>0
    <3>8. QED
      BY <3>2, <3>5, <3>6, <3>7, FirstIs
  <2>4. CASE i \notin K /\ i # h
    <3>1. O[i] = N[i] /\ W[i] = V[i]
      BY <2>4
    <3>2. CASE V[i] = q /\ i < h
      <4>1. h \in After(n, V, i, V[i])
        BY <3>2 DEF After
      <4>2. N[i] \in After(n, V, i, V[i]) /\ \A j \in After(n, V, i, V[i]) : N[i] <= j
        BY <1>1, <4>1, FirstOf
      <4>3. N[i] \notin K
        BY <4>1, <4>2 DEF After
      <4>4. N[i] \in After(n, W, i, W[i])
        BY <3>1, <4>2, <4>3 DEF After
      <4>5. After(n, W, i, W[i]) \subseteq After(n, V, i, V[i])
        BY <1>w, <1>k, <1>0, <3>1, <3>2 DEF After
      <4>6. QED
        BY <3>1, <4>2, <4>4, <4>5, FirstIs
    <3>3. CASE V[i] = q /\ i > h
      <4>1. i > l
        BY <2>4, <3>3, <1>0
      <4>4. \A k \in 2 .. n : k > i => (W[k] = q <=> V[k] = q)
        <5>1. SUFFICES ASSUME NEW k \in 2 .. n, k > i
                       PROVE  W[k] = q <=> V[k] = q
          OBVIOUS
        <5>2. k \notin K
          BY <1>k, <4>1, <5>1
        <5>3. QED
          BY <1>w, <5>2
      <4>5. W[i] = q /\ V[i] = q
        BY <3>1, <3>3
      <4>6. After(n, W, i, q) = After(n, V, i, q)
        <5> HIDE DEF q
        <5> QED
          BY <4>4 DEF After
      <4>2. After(n, W, i, W[i]) = After(n, V, i, V[i])
        BY <4>5, <4>6
      <4>3. QED
        BY <1>1, <3>1, <4>2
    <3>4. CASE V[i] # q
      <4>1. After(n, W, i, W[i]) = After(n, V, i, V[i])
        BY <1>w, <1>k, <3>1, <3>4 DEF After
      <4>2. QED
        BY <1>1, <3>1, <4>1
    <3>5. QED
      BY <2>4, <3>2, <3>3, <3>4, <1>0
  <2>5. QED
    BY <2>1, <2>2, <2>3, <2>4
<1>4. QED
  BY <1>2, <1>3

LEMMA LessTrans ==
    ASSUME NEW a \in Int, NEW b \in Int, NEW c \in Int, a <= b, b < c
    PROVE  a <= c
OBVIOUS

LEMMA Splicing ==
    ASSUME NEW n \in Nat, NEW V, \A k \in 1 .. n : V[k] \in Nat,
           NEW W, NEW L, NEW N, NEW M, NEW O,
           Threaded(n, V, L, N),
           NEW h \in 2 .. n, NEW K \in SUBSET (2 .. n), NEW l \in K,
           V[h] # h,
           \A k \in K : h < k /\ k <= l /\ V[k] = h,
           \A k \in 1 .. n : V[k] = h => k \in K,
           \A k \in 2 .. n : h < k /\ k <= l => V[k] # V[h],
           \A k \in K : W[k] = V[h], \A k \in 1 .. n : k \notin K => W[k] = V[k],
           \A i \in 1 .. n : M[i] = IF i = h THEN 0 ELSE L[i],
           \A i \in 1 .. n : O[i] = IF i = l THEN N[h] ELSE IF i = h THEN L[h] ELSE N[i]
    PROVE  Threaded(n, W, M, O)
<1> DEFINE q == V[h]
<1>0. q \in Nat /\ q # h /\ h \notin K /\ l \in 2 .. n /\ l # h
  OBVIOUS
<1>w. \A k \in 2 .. n : k \in 1 .. n /\ V[k] \in Nat /\ (k \notin K => W[k] = V[k] /\ V[k] # h)
  OBVIOUS
<1>k. \A k \in K : k \in 2 .. n /\ V[k] = h /\ W[k] = q /\ h < k /\ k <= l
  OBVIOUS
<1>b. \A k \in 2 .. n : h < k /\ V[k] = q => l < k
  BY <1>0
<1>f. L[h] \in K /\ \A k \in K : L[h] <= k
  <2>1. ListOf(n, V, h) = K
    BY <1>w, <1>k DEF ListOf
  <2>2. IsFirst(L[h], ListOf(n, V, h))
    BY DEF Threaded
  <2>3. QED
    BY <2>1, <2>2, FirstOf
<1> SUFFICES ASSUME NEW i \in 1 .. n
             PROVE  IsFirst(M[i], ListOf(n, W, i)) /\ IsFirst(O[i], After(n, W, i, W[i]))
  BY DEF Threaded
<1>1. IsFirst(L[i], ListOf(n, V, i)) /\ IsFirst(N[i], After(n, V, i, V[i]))
  BY DEF Threaded
<1>2. IsFirst(M[i], ListOf(n, W, i))
  <2>1. CASE i = h
    <3>1. \A k \in 2 .. n : W[k] # h
      BY <1>0, <1>w, <1>k
    <3>2. ListOf(n, W, i) = {}
      BY <2>1, <3>1 DEF ListOf
    <3>3. QED
      BY <2>1, <3>2 DEF IsFirst
  <2>2. CASE i = q
    <3>1. h \in ListOf(n, V, q)
      BY DEF ListOf
    <3>2. L[q] \in ListOf(n, V, q) /\ \A j \in ListOf(n, V, q) : L[q] <= j
      BY <1>1, <2>2, <3>1, FirstOf
    <3>3. L[q] \in 2 .. n /\ V[L[q]] = q /\ L[q] <= h
      BY <3>1, <3>2 DEF ListOf
    <3>4. L[q] \notin K
      BY <1>0, <1>k, <3>3
    <3>5. L[q] \in ListOf(n, W, q)
      BY <1>w, <3>3, <3>4 DEF ListOf
    <3>6. ASSUME NEW j \in ListOf(n, W, q)
          PROVE  L[q] <= j
      <4>1. j \in 2 .. n /\ W[j] = q
        BY DEF ListOf
      <4>2. CASE j \in K
        <5>1. h < j
          BY <1>k, <4>2
        <5>2. L[q] \in 2 .. n /\ L[q] <= h
          BY <3>3
        <5>3. j \in 2 .. n
          BY <4>1
        <5>4. L[q] \in Int
          BY <5>2
        <5>5. h \in Int
          OBVIOUS
        <5>6. j \in Int
          BY <5>3
        <5>7. QED
          BY <5>1, <5>2, <5>4, <5>5, <5>6, LessTrans
      <4>3. CASE j \notin K
        <5>1. j \in ListOf(n, V, q)
          BY <1>w, <4>1, <4>3 DEF ListOf
        <5>2. QED
          BY <3>2, <5>1
      <4>4. QED
        BY <4>2, <4>3
    <3>7. M[i] = L[q]
      BY <1>0, <2>2
    <3>8. QED
      BY <2>2, <3>5, <3>6, <3>7, FirstIs
  <2>3. CASE i # h /\ i # q
    <3>1. \A k \in 2 .. n : W[k] = i <=> V[k] = i
      BY <1>w, <1>k, <2>3
    <3>2. ListOf(n, W, i) = ListOf(n, V, i)
      BY <3>1 DEF ListOf
    <3>3. QED
      BY <1>1, <2>3, <3>2
  <2>4. QED
    BY <2>1, <2>2, <2>3
<1>3. IsFirst(O[i], After(n, W, i, W[i]))
  <2>1. CASE i = h
    <3>1. O[i] = L[h] /\ W[i] = q
      BY <1>0, <2>1
    <3>2. L[h] \in After(n, W, h, q)
      BY <1>k, <1>f DEF After
    <3>3. ASSUME NEW j \in After(n, W, h, q)
          PROVE  L[h] <= j
      <4>1. j \in 2 .. n /\ j > h /\ W[j] = q
        BY DEF After
      <4>2. CASE j \in K
        BY <1>f, <4>2
      <4>3. CASE j \notin K
        <5>1. l < j
          BY <1>b, <1>w, <4>1, <4>3
        <5>2. L[h] <= l /\ L[h] \in 2 .. n
          BY <1>f, <1>k
        <5>3. QED
          BY <4>1, <5>1, <5>2
      <4>4. QED
        BY <4>2, <4>3
    <3>4. QED
      BY <2>1, <3>1, <3>2, <3>3, FirstIs
  <2>2. CASE i = l
    <3>1. O[i] = N[h] /\ W[i] = q
      BY <1>k, <2>2
    <3>2. ASSUME NEW k \in 2 .. n
          PROVE  k > l /\ W[k] = q <=> k > h /\ V[k] = q
      <4>1. CASE k \in K
        BY <1>0, <1>k, <4>1
      <4>2. CASE k \notin K
        <5>1. W[k] = V[k] /\ h < l
          BY <1>0, <1>w, <1>k, <4>2
        <5>2. V[k] = q /\ k > h => k > l
          BY <1>b
        <5>3. k > l => k > h
          BY <1>0, <5>1
        <5>4. QED
          BY <5>1, <5>2, <5>3
      <4>3. QED
        BY <4>1, <4>2
    <3> HIDE DEF q
    <3>3. After(n, W, l, q) = After(n, V, h, q)
      BY <3>2 DEF After
    <3>4. IsFirst(N[h], After(n, V, h, q))
      BY DEF Threaded, q
    <3>5. QED
      BY <2>2, <3>1, <3>3, <3>4
  <2>3. CASE i \in K /\ i # l
    <3>1. O[i] = N[i] /\ W[i] = q /\ V[i] = h /\ i > h
      BY <1>0, <1>k, <2>3
    <3>2. l \in After(n, V, i, h)
      BY <1>k, <2>3 DEF After
    <3>3. N[i] \in After(n, V, i, h) /\ \A j \in After(n, V, i, h) : N[i] <= j
      BY <1>1, <3>1, <3>2, FirstOf
    <3>4. N[i] \in 2 .. n /\ N[i] > i /\ N[i] \in K /\ N[i] <= l
      BY <1>w, <3>2, <3>3 DEF After
    <3>5. N[i] \in After(n, W, i, q)
      BY <1>k, <3>4 DEF After
    <3>6. ASSUME NEW j \in After(n, W, i, q)
          PROVE  N[i] <= j
      <4>1. j \in 2 .. n /\ j > i /\ W[j] = q
        BY DEF After
      <4>2. CASE j \in K
        <5>1. j \in After(n, V, i, h)
          BY <1>k, <4>1, <4>2 DEF After
        <5>2. QED
          BY <3>3, <5>1
      <4>3. CASE j \notin K
        <5>1. l < j
          BY <1>b, <1>w, <3>1, <4>1, <4>3
        <5>2. QED
          BY <1>0, <3>4, <4>1, <5>1
      <4>4. QED
        BY <4>2, <4>3
    <3>7. QED
      BY <3>1, <3>5, <3>6, FirstIs
  <2>4. CASE i \notin K /\ i # h
    <3>1. O[i] = N[i] /\ W[i] = V[i] /\ V[i] # h
      BY <2>4
    <3>2. CASE V[i] = q /\ i < h
      <4>1. h \in After(n, V, i, q)
        BY <3>2 DEF After
      <4>2. N[i] \in After(n, V, i, q) /\ \A j \in After(n, V, i, q) : N[i] <= j
        BY <1>1, <3>2, <4>1, FirstOf
      <4>3. N[i] \in 2 .. n /\ N[i] > i /\ V[N[i]] = q /\ N[i] <= h
        BY <4>1, <4>2 DEF After
      <4>4. N[i] \notin K
        BY <1>0, <1>k, <4>3
      <4>5. N[i] \in After(n, W, i, q)
        BY <1>w, <4>3, <4>4 DEF After
      <4>6. ASSUME NEW j \in After(n, W, i, q)
            PROVE  N[i] <= j
        <5>1. j \in 2 .. n /\ j > i /\ W[j] = q
          BY DEF After
        <5>2. CASE j \in K
          BY <1>k, <4>3, <5>1, <5>2
        <5>3. CASE j \notin K
          <6>1. j \in After(n, V, i, q)
            BY <1>w, <5>1, <5>3 DEF After
          <6>2. QED
            BY <4>2, <6>1
        <5>4. QED
          BY <5>2, <5>3
      <4>7. QED
        BY <3>1, <3>2, <4>5, <4>6, FirstIs
    <3>3. CASE V[i] = q /\ i > h
      <4>1. i > l
        BY <1>b, <2>4, <3>3
      <4>2. \A k \in 2 .. n : k > i => (W[k] = q <=> V[k] = q)
        <5>1. SUFFICES ASSUME NEW k \in 2 .. n, k > i
                       PROVE  W[k] = q <=> V[k] = q
          OBVIOUS
        <5>2. k \notin K
          BY <1>k, <4>1, <5>1
        <5>3. QED
          BY <1>w, <5>2
      <4>3. W[i] = q /\ V[i] = q
        BY <3>1, <3>3
      <4>4. After(n, W, i, q) = After(n, V, i, q)
        <5> HIDE DEF q
        <5> QED
          BY <4>2 DEF After
      <4>5. QED
        BY <1>1, <3>1, <4>3, <4>4
    <3>4. CASE V[i] # q
      <4>1. \A k \in 2 .. n : W[k] = V[i] <=> V[k] = V[i]
        BY <1>w, <1>k, <3>1, <3>4
      <4>2. After(n, W, i, V[i]) = After(n, V, i, V[i])
        BY <4>1 DEF After
      <4>3. QED
        BY <1>1, <3>1, <4>2
    <3>5. QED
      BY <2>4, <3>2, <3>3, <3>4, <1>0
  <2>5. QED
    BY <2>1, <2>2, <2>3, <2>4
<1>4. QED
  BY <1>2, <1>3

Chain(n, N, first, c, ks) ==
  /\ c \in Nat \ {0} /\ \A i \in 1 .. c : ks[i] \in 1 .. n
  /\ ks[1] = first /\ N[ks[c]] = 0
  /\ \A i \in 1 .. c - 1 : ks[i + 1] = N[ks[i]]

Links(c, ks) == {ks[i] : i \in 1 .. c}

LEMMA Chained ==
    ASSUME NEW n \in Nat, NEW V, NEW L, NEW N,
           Threaded(n, V, L, N), NEW h \in 1 .. n, L[h] # 0,
           NEW c, NEW ks, Chain(n, N, L[h], c, ks)
    PROVE  /\ \A i \in 1 .. c : ks[i] \in ListOf(n, V, h) /\ ks[i] <= ks[c]
           /\ ListOf(n, V, h) \subseteq Links(c, ks)
<1>0. /\ c \in Nat \ {0} /\ \A i \in 1 .. c : ks[i] \in 1 .. n
      /\ ks[1] = L[h] /\ N[ks[c]] = 0
      /\ \A i \in 1 .. c - 1 : ks[i + 1] = N[ks[i]]
  BY DEF Chain
<1> USE <1>0
<1> DEFINE S == ListOf(n, V, h)
           Beyond(k) == After(n, V, k, h)
<1>1. L[h] \in S /\ \A k \in S : L[h] <= k
  <2>1. IsFirst(L[h], S)
    BY DEF Threaded
  <2>2. QED
    BY <2>1 DEF IsFirst
<1>2. \A k \in S : k \in 1 .. n /\ k \in Nat /\ IsFirst(N[k], Beyond(k))
  <2> SUFFICES ASSUME NEW k \in S
               PROVE  k \in 1 .. n /\ k \in Nat /\ IsFirst(N[k], Beyond(k))
    OBVIOUS
  <2>1. k \in 2 .. n /\ V[k] = h
    BY DEF ListOf
  <2>2. k \in 1 .. n /\ k \in Nat
    BY <2>1
  <2>3. IsFirst(N[k], After(n, V, k, V[k]))
    BY <2>2 DEF Threaded
  <2>4. QED
    BY <2>1, <2>2, <2>3
<1>3. \A k : \A j \in Beyond(k) : j \in S /\ j > k
  BY DEF ListOf, After
<1>4. \A k \in Nat : \A j \in S : j > k => j \in Beyond(k)
  BY DEF ListOf, After
<1> HIDE DEF S, Beyond
<1>5. \A i \in 1 .. c : ks[i] \in S
  <2> DEFINE D == {i \in 1 .. c : ks[i] \notin S}
  <2>1. SUFFICES ASSUME D # {} PROVE FALSE
    OBVIOUS
  <2>2. PICK x \in D : \A y \in D : x <= y
    <3>1. 1 \in Nat /\ c \in Nat /\ D \in SUBSET (1 .. c)
      OBVIOUS
    <3> HIDE DEF D
    <3>2. QED
      BY <2>1, <3>1, LeastExists
  <2>3. x # 1
    BY <1>1
  <2>4. x - 1 \in 1 .. c - 1 /\ x - 1 \in 1 .. c /\ x - 1 \notin D
    BY <2>2, <2>3
  <2>5. ks[x - 1] \in S /\ ks[x] = N[ks[x - 1]] /\ ks[x] \in 1 .. n
    <3>1. (x - 1) + 1 = x
      BY <2>4
    <3>2. ks[(x - 1) + 1] = N[ks[x - 1]]
      BY <2>4
    <3>3. QED
      BY <2>4, <3>1, <3>2
  <2>6. IsFirst(ks[x], Beyond(ks[x - 1]))
    BY <1>2, <2>5
  <2>7. ks[x] \in Beyond(ks[x - 1])
    BY <2>5, <2>6 DEF IsFirst
  <2>8. QED
    BY <1>3, <2>2, <2>7
<1>6. Beyond(ks[c]) = {}
  <2>1. IsFirst(0, Beyond(ks[c]))
    BY <1>2, <1>5
  <2>2. 0 \notin Beyond(ks[c])
    <3>1. 0 \notin S
      BY <1>2
    <3>2. QED
      BY <1>3, <3>1
  <2>3. QED
    BY <2>1, <2>2 DEF IsFirst
<1>7. \A k \in S : k <= ks[c]
  <2>1. ks[c] \in Nat
    BY <1>2, <1>5
  <2>2. SUFFICES ASSUME NEW k \in S, k > ks[c]
                 PROVE  FALSE
    BY <1>2, <2>1
  <2>3. k \in Beyond(ks[c])
    BY <1>4, <2>1, <2>2
  <2>4. QED
    BY <1>6, <2>3
<1>8. ASSUME NEW k \in S, \A i \in 1 .. c : ks[i] # k
      PROVE  FALSE
  <2> DEFINE D == {i \in 1 .. c : ks[i] > k}
  <2>1. k \in Nat /\ \A i \in 1 .. c : ks[i] \in Nat
    BY <1>2, <1>5
  <2>2. c \in D
    BY <1>7, <1>8, <2>1
  <2>3. PICK x \in D : \A y \in D : x <= y
    <3>1. 1 \in Nat /\ c \in Nat /\ D \in SUBSET (1 .. c) /\ D # {}
      BY <2>2
    <3> HIDE DEF D
    <3>2. QED
      BY <3>1, LeastExists
  <2>4. x # 1
    BY <1>1, <2>1, <2>3
  <2>5. x - 1 \in 1 .. c - 1 /\ x - 1 \in 1 .. c /\ x - 1 \notin D
    BY <2>3, <2>4
  <2>6. ks[x] = N[ks[x - 1]]
    <3>1. (x - 1) + 1 = x
      BY <2>5
    <3>2. ks[(x - 1) + 1] = N[ks[x - 1]]
      BY <2>5
    <3>3. QED
      BY <3>1, <3>2
  <2>7. ks[x - 1] < k
    <3>1. ~(ks[x - 1] > k) /\ ks[x - 1] # k /\ ks[x - 1] \in Nat
      BY <1>8, <2>1, <2>5
    <3> HIDE DEF D
    <3>2. QED
      BY <2>1, <3>1
  <2>8. k \in Beyond(ks[x - 1])
    BY <1>4, <2>1, <2>5, <2>7
  <2>9. IsFirst(ks[x], Beyond(ks[x - 1]))
    BY <1>2, <1>5, <2>5, <2>6
  <2>10. ks[x] <= k
    BY <2>8, <2>9 DEF IsFirst
  <2>11. QED
    BY <2>1, <2>3, <2>10
<1>9. QED
  BY <1>5, <1>7, <1>8 DEF S, Links

LEMMA Appending ==
    ASSUME NEW n \in Nat, NEW V, NEW W, NEW L, NEW N, NEW M, NEW O,
           Threaded(n, V, L, N), \A k \in 1 .. n : V[k] \in 0 .. n,
           NEW q \in 1 .. n, V[1] = 0,
           \A k \in 1 .. n : W[k] = V[k], W[n + 1] = q, M[n + 1] = 0, O[n + 1] = 0,
           \/ /\ \A k \in 2 .. n : V[k] # q
              /\ \A i \in 1 .. n : M[i] = (IF i = q THEN n + 1 ELSE L[i]) /\ O[i] = N[i]
           \/ \E b \in 2 .. n :
                /\ V[b] = q /\ \A k \in 2 .. n : V[k] = q => k <= b
                /\ \A i \in 1 .. n : M[i] = L[i] /\ O[i] = IF i = b THEN n + 1 ELSE N[i]
    PROVE  Threaded(n + 1, W, M, O)
<1>w. \A k \in 2 .. n + 1 : k = n + 1 \/ (k \in 2 .. n /\ W[k] = V[k])
  OBVIOUS
<1>n. n >= 1 /\ n + 1 \in 2 .. n + 1
  OBVIOUS
<1>l. ASSUME NEW i \in 1 .. n, i # q
      PROVE  ListOf(n + 1, W, i) = ListOf(n, V, i)
  <2>1. \A k \in 2 .. n + 1 : W[k] = i <=> k \in 2 .. n /\ V[k] = i
    BY <1>w, <1>l
  <2>2. \A k : k \in 2 .. n => k \in 2 .. n + 1
    OBVIOUS
  <2>3. QED
    BY <2>1, <2>2 DEF ListOf
<1>a. ASSUME NEW i \in 1 .. n, NEW r, r # q
      PROVE  After(n + 1, W, i, r) = After(n, V, i, r)
  <2>1. \A k \in 2 .. n + 1 : W[k] = r <=> k \in 2 .. n /\ V[k] = r
    BY <1>w, <1>a
  <2>2. \A k : k \in 2 .. n => k \in 2 .. n + 1
    OBVIOUS
  <2>3. QED
    BY <2>1, <2>2 DEF After
<1>q. ListOf(n + 1, W, q) = ListOf(n, V, q) \union {n + 1}
  <2>1. \A k \in 2 .. n : k \in 2 .. n + 1 /\ W[k] = V[k]
    OBVIOUS
  <2>2. QED
    BY <1>w, <1>n, <2>1 DEF ListOf
<1>b. ASSUME NEW i \in 1 .. n
      PROVE  After(n + 1, W, i, q) = After(n, V, i, q) \union {n + 1}
  <2>1. \A k \in 2 .. n : k \in 2 .. n + 1 /\ W[k] = V[k]
    OBVIOUS
  <2>2. n + 1 > i
    OBVIOUS
  <2>3. QED
    BY <1>w, <1>n, <2>1, <2>2 DEF After
<1>c. ASSUME NEW S, NEW k, IsFirst(k, S), S # {}, S \subseteq 2 .. n
      PROVE  IsFirst(k, S \union {n + 1})
  <2>1. k \in S /\ \A j \in S : k <= j
    BY <1>c DEF IsFirst
  <2>2. k \in 2 .. n
    BY <1>c, <2>1
  <2>3. k <= n + 1
    BY <2>2
  <2>4. QED
    BY <2>1, <2>3, FirstIs
<1>s. /\ \A i : ListOf(n, V, i) \subseteq 2 .. n
      /\ \A i, r : After(n, V, i, r) \subseteq 2 .. n
  BY DEF ListOf, After
<1>z. IsFirst(n + 1, {} \union {n + 1})
  BY DEF IsFirst
<1> SUFFICES ASSUME NEW i \in 1 .. n + 1
             PROVE  IsFirst(M[i], ListOf(n + 1, W, i)) /\ IsFirst(O[i], After(n + 1, W, i, W[i]))
  BY DEF Threaded
<1>1. CASE i = n + 1
  <2>1. \A k \in 2 .. n + 1 : W[k] # n + 1
    BY <1>w
  <2>2. ListOf(n + 1, W, n + 1) = {} /\ After(n + 1, W, n + 1, W[n + 1]) = {}
    BY <2>1 DEF ListOf, After
  <2>3. QED
    BY <1>1, <2>2 DEF IsFirst
<1>2. CASE i \in 1 .. n
  <2>1. /\ IsFirst(L[i], ListOf(n, V, i)) /\ IsFirst(N[i], After(n, V, i, V[i])) /\ W[i] = V[i]
    BY <1>2 DEF Threaded
  <2>2. CASE /\ \A k \in 2 .. n : V[k] # q
             /\ \A j \in 1 .. n : M[j] = (IF j = q THEN n + 1 ELSE L[j]) /\ O[j] = N[j]
    <3>1. V[i] # q
      <4>1. i \in 2 .. n \/ i = 1
        BY <1>2
      <4>2. QED
        BY <2>2, <4>1
    <3>2. IsFirst(O[i], After(n + 1, W, i, W[i]))
      BY <1>2, <1>a, <2>1, <2>2, <3>1
    <3>3. CASE i = q
      <4>1. ListOf(n, V, q) = {}
        BY <2>2 DEF ListOf
      <4>2. QED
        BY <1>q, <1>z, <2>2, <3>2, <3>3, <4>1
    <3>4. CASE i # q
      BY <1>2, <1>l, <2>1, <2>2, <3>2, <3>4
    <3>5. QED
      BY <3>3, <3>4
  <2>3. ASSUME NEW b \in 2 .. n,
               V[b] = q, \A k \in 2 .. n : V[k] = q => k <= b,
               \A j \in 1 .. n : M[j] = L[j] /\ O[j] = IF j = b THEN n + 1 ELSE N[j]
        PROVE  IsFirst(M[i], ListOf(n + 1, W, i)) /\ IsFirst(O[i], After(n + 1, W, i, W[i]))
    <3>1. IsFirst(M[i], ListOf(n + 1, W, i))
      <4>1. b \in ListOf(n, V, q)
        BY <2>3 DEF ListOf
      <4>2. CASE i = q
        BY <1>2, <1>c, <1>q, <1>s, <2>1, <2>3, <4>1, <4>2
      <4>3. CASE i # q
        BY <1>2, <1>l, <2>1, <2>3, <4>3
      <4>4. QED
        BY <4>2, <4>3
    <3>2. CASE V[i] # q
      <4>1. i # b /\ O[i] = N[i]
        BY <1>2, <2>3, <3>2
      <4>2. QED
        BY <1>2, <1>a, <2>1, <3>1, <3>2, <4>1
    <3>3. CASE V[i] = q /\ i = b
      <4>1. After(n, V, b, q) = {}
        BY <2>3 DEF After
      <4>2. O[i] = n + 1
        BY <1>2, <2>3, <3>3
      <4>3. QED
        BY <1>2, <1>b, <1>z, <2>1, <3>1, <3>3, <4>1, <4>2
    <3>4. CASE V[i] = q /\ i # b
      <4>1. i \in 2 .. n
        BY <1>2, <3>4
      <4>2. i < b
        BY <2>3, <3>4, <4>1
      <4>3. b \in After(n, V, i, q)
        BY <2>3, <4>2 DEF After
      <4>4. O[i] = N[i]
        BY <1>2, <2>3, <3>4
      <4>5. QED
        BY <1>2, <1>b, <1>c, <1>s, <2>1, <3>1, <3>4, <4>3, <4>4
    <3>5. QED
      BY <3>2, <3>3, <3>4
  <2>4. QED
    BY <2>2, <2>3
<1>3. QED
  BY <1>1, <1>2

-----------------------------------------------------------------------------
(* The calls of menu_finalize.  An entry comes before those below it, and what stands *)
(* between an entry and its parent is below the parent. *)
Ordered(n, P) ==
  /\ P[1] = 0
  /\ \A k \in 2 .. n : /\ P[k] \in 1 .. n /\ P[k] < k
                       /\ \A j \in 2 .. n : P[k] < j /\ j < k => P[k] <= P[j]

\* A follower that is taken gets the parent that takes it before the list does: while
\* the entries in A take followers, what has one of them as its parent is still held by
\* the list of their own parent.
Holder(P, A, k) == IF P[k] \in A THEN P[P[k]] ELSE P[k]
Holders(n, P, A) == [k \in 1 .. n |-> Holder(P, A, k)]

\* The entries that are taking followers; none is the parent of another.
Taking(c, cs) == {cs[i].id : i \in {j \in 1 .. c : cs[j].does = "follow"}}
Alone(n, P, A) ==
  /\ \A a \in A : a \in 1 .. n /\ P[a] \notin A
  /\ 1 \in A => n = 1

\* The entry id has taken followers up to last, and no other.
Taken(n, P, id, last) ==
  /\ \A k \in 2 .. n : P[k] = id => k <= last
  /\ last = 0 \/ (last \in 2 .. n /\ P[last] = id)
\* Why the call f called that of the entry k, where the innermost call may be, and how
\* the calls are nested.
Calling(n, P, f, k) ==
  \/ f.does = "below" /\ P[k] = f.id
  \/ /\ f.does = "follow" /\ Taken(n, P, f.id, f.menu)
     /\ f.menu < k /\ P[k] = P[f.id]
     /\ \A j \in 2 .. n : f.id < j /\ j < k => f.id <= P[j]
TopOK(n, P, f) ==
  \/ f.does = "enter" /\ f.menu = 0
  \/ f.does \in {"below", "settle"} /\ (f.menu = 0 \/ (f.menu \in 2 .. n /\ P[f.menu] = f.id))
  \/ f.does = "follow" /\ Taken(n, P, f.id, f.menu)
Based(n, P, c, cs) ==
  /\ c \in Nat \ {0} /\ cs[1].id = 1
  /\ \A i \in 1 .. c : cs[i].id \in 1 .. n
  /\ \A i, j \in 1 .. c : i < j => cs[i].id < cs[j].id
  /\ \A i \in 1 .. c - 1 : Calling(n, P, cs[i], cs[i + 1].id)
Stacked(n, P, c, cs) == Based(n, P, c, cs) /\ TopOK(n, P, cs[c])
\* The inductive invariant of menu_finalize.
WorkInv(n, P, L, N, c, cs) ==
  /\ n \in Nat \ {0} /\ Ordered(n, P)
  /\ Threaded(n, Holders(n, P, Taking(c, cs)), L, N)
  /\ Stacked(n, P, c, cs) /\ Alone(n, P, Taking(c, cs))

LEMMA HolderAt ==
    ASSUME NEW n \in Nat, NEW P, Ordered(n, P), NEW A, NEW i \in 1 .. n, i \notin A,
           \A a \in A : a \in 1 .. n /\ a <= i, NEW k \in 2 .. n
    PROVE  Holder(P, A, k) = i <=> P[k] = i
<1>1. CASE P[k] \in A
  <2>1. P[k] = 1 \/ P[k] \in 2 .. n
    BY <1>1
  <2>2. P[P[k]] < i
    BY <1>1, <2>1 DEF Ordered
  <2>3. QED
    BY <1>1, <2>2 DEF Holder
<1>2. CASE P[k] \notin A
  BY <1>2 DEF Holder
<1>3. QED
  BY <1>1, <1>2

LEMMA ParentsNat ==
    ASSUME NEW n \in Nat, NEW P, Ordered(n, P), NEW k \in 1 .. n
    PROVE  P[k] \in 0 .. n /\ P[k] < k /\ (k # 1 => P[k] # 0)
<1>1. k = 1 \/ k \in 2 .. n
  OBVIOUS
<1>2. QED
  BY <1>1 DEF Ordered

LEMMA HoldersNat ==
    ASSUME NEW n \in Nat, NEW P, Ordered(n, P), NEW A, \A a \in A : a \in 1 .. n, NEW k \in 1 .. n
    PROVE  /\ Holders(n, P, A)[k] = Holder(P, A, k)
           /\ Holder(P, A, k) \in 0 .. n /\ Holder(P, A, k) < k
<1>1. P[k] \in 0 .. n /\ P[k] < k
  BY ParentsNat
<1>2. Holders(n, P, A)[k] = Holder(P, A, k)
  BY DEF Holders
<1>3. CASE P[k] \in A
  <2>1. P[k] \in 1 .. n
    BY <1>3
  <2>2. P[P[k]] \in 0 .. n /\ P[P[k]] < P[k]
    BY <2>1, ParentsNat
  <2>3. QED
    BY <1>1, <1>2, <1>3, <2>2 DEF Holder
<1>4. CASE P[k] \notin A
  BY <1>1, <1>2, <1>4 DEF Holder
<1>5. QED
  BY <1>3, <1>4

\* What the lists say.
LEMMA FirstKid ==
    ASSUME NEW n \in Nat, NEW V, NEW L, NEW N, Threaded(n, V, L, N), NEW i \in 1 .. n
    PROVE  /\ L[i] = 0 => \A k \in 2 .. n : V[k] # i
           /\ L[i] # 0 => L[i] \in 2 .. n /\ V[L[i]] = i
           /\ N[i] = 0 => \A k \in 2 .. n : k > i => V[k] # V[i]
           /\ N[i] # 0 => /\ N[i] \in 2 .. n /\ N[i] > i /\ V[N[i]] = V[i]
                          /\ \A k \in 2 .. n : k > i /\ V[k] = V[i] => N[i] <= k
<1>1. IsFirst(L[i], ListOf(n, V, i)) /\ IsFirst(N[i], After(n, V, i, V[i]))
  BY DEF Threaded
<1>2. 0 \notin ListOf(n, V, i) /\ 0 \notin After(n, V, i, V[i])
  BY DEF ListOf, After
<1>3. L[i] = 0 => ListOf(n, V, i) = {}
  BY <1>1, <1>2 DEF IsFirst
<1>4. N[i] = 0 => After(n, V, i, V[i]) = {}
  BY <1>1, <1>2 DEF IsFirst
<1>5. L[i] # 0 => L[i] \in ListOf(n, V, i)
  BY <1>1 DEF IsFirst
<1>6. N[i] # 0 => N[i] \in After(n, V, i, V[i]) /\ \A k \in After(n, V, i, V[i]) : N[i] <= k
  BY <1>1 DEF IsFirst
<1>7. QED
  BY <1>3, <1>4, <1>5, <1>6 DEF ListOf, After

-----------------------------------------------------------------------------
(* The calls *)

LEMMA TakingFacts ==
    ASSUME NEW n \in Nat, NEW P, NEW c, NEW cs, Based(n, P, c, cs), NEW a \in Taking(c, cs)
    PROVE  /\ a \in 1 .. n /\ a <= cs[c].id
           /\ a = cs[c].id => cs[c].does = "follow"
<1>1. PICK i \in 1 .. c : cs[i].does = "follow" /\ a = cs[i].id
  BY DEF Taking
<1>2. a \in 1 .. n /\ c \in 1 .. c /\ cs[c].id \in 1 .. n
  BY <1>1 DEF Based
<1>3. CASE i = c
  BY <1>1, <1>2, <1>3
<1>4. CASE i # c
  <2>1. i < c
    BY <1>4 DEF Based
  <2>2. cs[i].id < cs[c].id
    BY <1>2, <2>1 DEF Based
  <2>3. QED
    BY <1>1, <1>2, <2>2
<1>5. QED
  BY <1>3, <1>4

\* The innermost call goes on.
LEMMA Retopped ==
    ASSUME NEW n \in Nat, NEW P, NEW c, NEW cs, Based(n, P, c, cs),
           NEW ds, \A i \in 1 .. c - 1 : ds[i] = cs[i], ds[c].id = cs[c].id, TopOK(n, P, ds[c])
    PROVE  /\ Stacked(n, P, c, ds)
           /\ ds[c].does = "follow" => Taking(c, ds) = Taking(c, cs) \union {cs[c].id}
           /\ ds[c].does # "follow" => Taking(c, ds) = Taking(c, cs) \ {cs[c].id}
<1>1. c \in Nat \ {0} /\ c \in 1 .. c
  BY DEF Based
<1>2. \A i \in 1 .. c : (i \in 1 .. c - 1 /\ ds[i] = cs[i]) \/ i = c
  BY <1>1
<1>3. \A i \in 1 .. c : ds[i].id = cs[i].id
  BY <1>2
<1>4. ASSUME NEW i \in 1 .. c - 1
      PROVE  Calling(n, P, ds[i], ds[i + 1].id)
  <2>1. i + 1 \in 1 .. c
    BY <1>1
  <2>2. ds[i + 1].id = cs[i + 1].id /\ ds[i] = cs[i]
    BY <1>3, <2>1
  <2>3. Calling(n, P, cs[i], cs[i + 1].id)
    BY DEF Based
  <2>4. QED
    BY <2>2, <2>3
<1>5. Stacked(n, P, c, ds)
  <2>1. 1 \in 1 .. c
    BY <1>1
  <2>2. QED
    BY <1>1, <1>3, <1>4, <2>1 DEF Based, Stacked
<1>6. \A i \in 1 .. c - 1 : i \in 1 .. c /\ cs[i].id # cs[c].id
  <2> TAKE i \in 1 .. c - 1
  <2>1. i \in 1 .. c /\ i < c
    BY <1>1
  <2>2. cs[i].id < cs[c].id /\ cs[i].id \in 1 .. n /\ cs[c].id \in 1 .. n
    BY <1>1, <2>1 DEF Based
  <2>3. QED
    BY <2>1, <2>2
<1> DEFINE Lower == {cs[i].id : i \in {j \in 1 .. c - 1 : cs[j].does = "follow"}}
<1>7. Taking(c, cs) \ {cs[c].id} = Lower
  BY <1>2, <1>6 DEF Taking
<1>8. Taking(c, ds) = IF ds[c].does = "follow" THEN Lower \union {cs[c].id} ELSE Lower
  <2>1. \A i \in 1 .. c - 1 : ds[i] = cs[i] /\ i \in 1 .. c
    BY <1>6
  <2>2. \A i \in 1 .. c : i = c \/ i \in 1 .. c - 1
    BY <1>2
  <2>3. QED
    BY <1>1, <2>1, <2>2 DEF Taking
<1>9. Taking(c, cs) \subseteq Lower \union {cs[c].id} /\ Lower \subseteq Taking(c, cs)
  BY <1>7
<1> HIDE DEF Lower
<1>10. QED
  BY <1>5, <1>7, <1>8, <1>9

\* A call begins.
LEMMA Pushed ==
    ASSUME NEW n \in Nat, NEW P, NEW c, NEW cs, Based(n, P, c, cs),
           NEW k \in 1 .. n, Calling(n, P, cs[c], k), cs[c].id < k,
           NEW ds, \A i \in 1 .. c : ds[i] = cs[i], ds[c + 1] = Frame(k, "enter", 0)
    PROVE  Stacked(n, P, c + 1, ds) /\ Taking(c + 1, ds) = Taking(c, cs)
<1>1. c \in Nat \ {0} /\ c \in 1 .. c /\ 1 \in 1 .. c /\ c + 1 \in Nat \ {0}
  BY DEF Based
<1>2. \A i \in 1 .. c + 1 : (i \in 1 .. c /\ ds[i] = cs[i]) \/ i = c + 1
  BY <1>1
<1>3. ds[c + 1].id = k /\ ds[c + 1].does = "enter" /\ ds[c + 1].menu = 0
  BY DEF Frame
<1>4. \A i \in 1 .. c : cs[i].id < k
  <2> TAKE i \in 1 .. c
  <2>1. i = c \/ i < c
    BY <1>1
  <2>2. cs[i].id \in 1 .. n /\ cs[c].id \in 1 .. n /\ (i < c => cs[i].id < cs[c].id)
    BY <1>1 DEF Based
  <2>3. QED
    BY <2>1, <2>2
<1>5. ASSUME NEW i \in 1 .. c + 1, NEW j \in 1 .. c + 1, i < j
      PROVE  ds[i].id < ds[j].id
  <2>1. i \in 1 .. c /\ ds[i] = cs[i]
    BY <1>1, <1>5
  <2>2. CASE j \in 1 .. c
    BY <1>5, <2>1, <2>2 DEF Based
  <2>3. CASE j = c + 1
    BY <1>3, <1>4, <2>1, <2>3
  <2>4. QED
    BY <1>2, <2>2, <2>3
<1>6. ASSUME NEW i \in 1 .. c
      PROVE  Calling(n, P, ds[i], ds[i + 1].id)
  <2>1. CASE i = c
    BY <1>3, <2>1
  <2>2. CASE i # c
    <3>1. i \in 1 .. c - 1 /\ i + 1 \in 1 .. c
      BY <1>1, <2>2
    <3>2. ds[i] = cs[i] /\ ds[i + 1] = cs[i + 1]
      BY <3>1
    <3>3. Calling(n, P, cs[i], cs[i + 1].id)
      BY <3>1 DEF Based
    <3>4. QED
      BY <3>2, <3>3
  <2>3. QED
    BY <2>1, <2>2
<1>7. TopOK(n, P, ds[c + 1])
  BY <1>3 DEF TopOK
<1>8. \A i \in 1 .. c + 1 : ds[i].id \in 1 .. n
  BY <1>2, <1>3 DEF Based
<1>9. Stacked(n, P, c + 1, ds)
  <2>1. (c + 1) - 1 = c /\ ds[1].id = 1
    BY <1>1 DEF Based
  <2>2. QED
    BY <1>1, <1>5, <1>6, <1>7, <1>8, <2>1 DEF Based, Stacked
<1>10. Taking(c + 1, ds) = Taking(c, cs)
  <2>1. \A i \in 1 .. c : i \in 1 .. c + 1
    BY <1>1
  <2>2. \A i \in 1 .. c + 1 : ds[i].does = "follow" => i \in 1 .. c
    BY <1>2, <1>3
  <2>3. QED
    BY <2>1, <2>2 DEF Taking
<1>11. QED
  BY <1>9, <1>10

\* A call returns.
LEMMA PoppedStack ==
    ASSUME NEW n \in Nat, NEW P, NEW c, NEW cs, Based(n, P, c, cs), c > 1,
           cs[c].does # "follow"
    PROVE  /\ Based(n, P, c - 1, cs)
           /\ c - 1 \in Nat \ {0} /\ c \in 1 .. c /\ c - 1 \in 1 .. c
           /\ Calling(n, P, cs[c - 1], cs[c].id) /\ cs[c - 1].id < cs[c].id
           /\ cs[c].id \in 1 .. n /\ cs[c - 1].id \in 1 .. n
           /\ Taking(c - 1, cs) = Taking(c, cs)
<1>1. c \in Nat \ {0} /\ c - 1 \in Nat \ {0} /\ c \in 1 .. c /\ c - 1 \in 1 .. c /\ c - 1 < c
  BY DEF Based
<1>2. c - 1 \in 1 .. c - 1 /\ (c - 1) + 1 = c
  BY <1>1
<1>3. Calling(n, P, cs[c - 1], cs[(c - 1) + 1].id)
  BY <1>2 DEF Based
<1>4. \A i \in 1 .. c : i = c \/ i \in 1 .. c - 1
  BY <1>1
<1>5. \A i \in 1 .. c - 1 : i \in 1 .. c
  BY <1>1
<1>6. Taking(c - 1, cs) = Taking(c, cs)
  BY <1>4, <1>5 DEF Taking
<1>7. cs[c - 1].id < cs[c].id /\ cs[c].id \in 1 .. n /\ cs[c - 1].id \in 1 .. n
  BY <1>1 DEF Based
<1>8. Based(n, P, c - 1, cs)
  <2>1. \A i \in 1 .. (c - 1) - 1 : i \in 1 .. c - 1
    BY <1>1
  <2>2. QED
    BY <1>1, <1>5, <2>1 DEF Based
<1>9. QED
  BY <1>1, <1>2, <1>3, <1>6, <1>7, <1>8

\* Entries behind the innermost call move.
LEMMA StackMoved ==
    ASSUME NEW n \in Nat, NEW P, NEW Q, NEW c \in Nat \ {0}, NEW cs,
           \A i \in 1 .. c : cs[i].id \in 1 .. n,
           \A i, j \in 1 .. c : i < j => cs[i].id < cs[j].id,
           \A i \in 1 .. c - 1 : Calling(n, P, cs[i], cs[i + 1].id),
           \A k \in 1 .. n : Q[k] # P[k] =>
              /\ cs[c].id < k
              /\ \A i \in 1 .. c - 1 : cs[i].does = "follow" => P[k] # cs[i].id /\ Q[k] # cs[i].id
    PROVE  \A i \in 1 .. c - 1 : Calling(n, Q, cs[i], cs[i + 1].id)
<1> SUFFICES ASSUME NEW i \in 1 .. c - 1
             PROVE  Calling(n, Q, cs[i], cs[i + 1].id)
  OBVIOUS
<1> DEFINE f == cs[i]
           b == cs[i + 1].id
<1>1. /\ i \in 1 .. c /\ i + 1 \in 1 .. c /\ c \in 1 .. c /\ f.id \in 1 .. n /\ b \in 1 .. n
      /\ f.id < b
  OBVIOUS
<1>2. b <= cs[c].id /\ cs[c].id \in 1 .. n
  <2>1. i + 1 = c \/ i + 1 < c
    OBVIOUS
  <2>2. cs[c].id \in 1 .. n /\ b \in 1 .. n
    BY <1>1
  <2>3. QED
    BY <1>1, <2>1, <2>2
<1>3. \A k \in 1 .. n : k <= b => Q[k] = P[k]
  BY <1>1, <1>2
<1>4. Calling(n, P, f, b)
  OBVIOUS
<1>5. f.does = "follow" => \A k \in 1 .. n : Q[k] # P[k] => P[k] # f.id /\ Q[k] # f.id
  OBVIOUS
<1>6. Q[b] = P[b] /\ Q[f.id] = P[f.id]
  BY <1>1, <1>3
<1> HIDE DEF f, b
<1>9. Calling(n, Q, f, b)
  <2>7. CASE f.does = "below" /\ P[b] = f.id
    BY <1>6, <2>7 DEF Calling
  <2>8. CASE /\ f.does = "follow" /\ Taken(n, P, f.id, f.menu) /\ f.menu < b /\ P[b] = P[f.id]
             /\ \A j \in 2 .. n : f.id < j /\ j < b => f.id <= P[j]
    <3>1. \A k \in 2 .. n : Q[k] = f.id <=> P[k] = f.id
      <4>1. \A k \in 2 .. n : k \in 1 .. n
        OBVIOUS
      <4>2. QED
        BY <1>5, <2>8, <4>1
    <3>2. Taken(n, Q, f.id, f.menu)
      BY <2>8, <3>1 DEF Taken
    <3>3. ASSUME NEW j \in 2 .. n, f.id < j, j < b
          PROVE  f.id <= Q[j]
      <4>1. j \in 1 .. n /\ j <= b
        BY <1>1, <3>3
      <4>2. Q[j] = P[j]
        BY <1>3, <4>1
      <4>3. QED
        BY <2>8, <3>3, <4>2
    <3>4. QED
      BY <1>6, <2>8, <3>2, <3>3 DEF Calling
  <2>9. QED
    BY <1>4, <2>7, <2>8 DEF Calling
<1>10. QED
  BY <1>9 DEF f, b

-----------------------------------------------------------------------------
(* What the steps of a call preserve *)

\* The list of the entry whose call is the innermost one, which has taken nothing.
LEMMA OwnList ==
    ASSUME NEW n, NEW P, NEW L, NEW N, NEW c, NEW cs, WorkInv(n, P, L, N, c, cs),
           cs[c].does # "follow"
    PROVE  /\ cs[c].id \in 1 .. n /\ cs[c].id \notin Taking(c, cs)
           /\ \A k \in 2 .. n : Holder(P, Taking(c, cs), k) = cs[c].id <=> P[k] = cs[c].id
           /\ \A k \in 1 .. n : Holders(n, P, Taking(c, cs))[k] = Holder(P, Taking(c, cs), k)
           /\ L[cs[c].id] = 0 => \A k \in 2 .. n : P[k] # cs[c].id
           /\ L[cs[c].id] # 0 => L[cs[c].id] \in 2 .. n /\ P[L[cs[c].id]] = cs[c].id
<1> DEFINE A == Taking(c, cs)
           id == cs[c].id
<1>1. /\ n \in Nat /\ Ordered(n, P) /\ Based(n, P, c, cs) /\ id \in 1 .. n
      /\ Threaded(n, Holders(n, P, A), L, N)
  BY DEF WorkInv, Stacked, Based
<1>2. id \notin A /\ \A a \in A : a \in 1 .. n /\ a <= id
  BY <1>1, TakingFacts
<1> HIDE DEF A, id
<1>3. \A k \in 2 .. n : Holder(P, A, k) = id <=> P[k] = id
  BY <1>1, <1>2, HolderAt
<1>4. \A k \in 1 .. n : Holders(n, P, A)[k] = Holder(P, A, k)
  BY <1>1, <1>2, HoldersNat
<1>5. \A k \in 2 .. n : k \in 1 .. n
  BY <1>1
<1>6. /\ L[id] = 0 => \A k \in 2 .. n : Holders(n, P, A)[k] # id
      /\ L[id] # 0 => L[id] \in 2 .. n /\ Holders(n, P, A)[L[id]] = id
  BY <1>1, FirstKid
<1>7. /\ L[id] = 0 => \A k \in 2 .. n : P[k] # id
      /\ L[id] # 0 => L[id] \in 2 .. n /\ P[L[id]] = id
  BY <1>3, <1>4, <1>5, <1>6
<1>8. QED
  BY <1>1, <1>2, <1>3, <1>4, <1>7 DEF A, id

LEMMA AtList ==
    ASSUME NEW n, NEW P, NEW L, NEW N, NEW c, NEW cs, WorkInv(n, P, L, N, c, cs),
           cs[c].does # "follow", NEW d \in {"below", "settle"},
           NEW ds, \A i \in 1 .. c - 1 : ds[i] = cs[i], ds[c] = Frame(cs[c].id, d, L[cs[c].id])
    PROVE  WorkInv(n, P, L, N, c, ds)
<1>1. n \in Nat /\ Based(n, P, c, cs) /\ cs[c].id \notin Taking(c, cs)
  BY OwnList DEF WorkInv, Stacked
<1>2. ds[c].id = cs[c].id /\ ds[c].does = d /\ ds[c].menu = L[cs[c].id]
  BY DEF Frame
<1>3. TopOK(n, P, ds[c])
  BY <1>2, OwnList DEF TopOK
<1>4. ds[c].does # "follow"
  BY <1>2
<1>5. Stacked(n, P, c, ds) /\ Taking(c, ds) = Taking(c, cs) \ {cs[c].id}
  BY <1>1, <1>2, <1>3, <1>4, Retopped
<1>6. Taking(c, ds) = Taking(c, cs)
  BY <1>1, <1>5
<1>7. QED
  BY <1>5, <1>6 DEF WorkInv

\* An entry without a list begins to take followers.
LEMMA AtFollowers ==
    ASSUME NEW n, NEW P, NEW L, NEW N, NEW c, NEW cs, WorkInv(n, P, L, N, c, cs),
           cs[c].does = "enter", L[cs[c].id] = 0,
           NEW ds, \A i \in 1 .. c - 1 : ds[i] = cs[i], ds[c] = Frame(cs[c].id, "follow", 0)
    PROVE  WorkInv(n, P, L, N, c, ds)
<1> DEFINE A == Taking(c, cs)
           id == cs[c].id
           B == A \union {id}
<1>1. /\ n \in Nat \ {0} /\ Ordered(n, P) /\ Based(n, P, c, cs) /\ id \in 1 .. n /\ id \notin A
      /\ Threaded(n, Holders(n, P, A), L, N) /\ Alone(n, P, A)
      /\ \A k \in 2 .. n : P[k] # id
  BY OwnList DEF WorkInv, Stacked
<1>2. ds[c].id = id /\ ds[c].does = "follow" /\ ds[c].menu = 0
  BY DEF Frame
<1>3. TopOK(n, P, ds[c])
  BY <1>1, <1>2 DEF TopOK, Taken
<1>4. Stacked(n, P, c, ds) /\ Taking(c, ds) = B
  BY <1>1, <1>2, <1>3, Retopped
<1>5. P[id] \notin A
  <2>1. c \in Nat \ {0}
    BY <1>1 DEF Based
  <2>2. CASE c = 1
    <3>1. id = 1 /\ P[id] = 0
      BY <1>1, <2>2 DEF Based, Ordered
    <3>2. QED
      BY <3>1, <1>1 DEF Alone
  <2>3. CASE c > 1
    <3>1. Calling(n, P, cs[c - 1], id) /\ Taking(c - 1, cs) = A /\ cs[c - 1].id < id
      <4>1. n \in Nat /\ Based(n, P, c, cs) /\ c > 1 /\ cs[c].does # "follow"
        BY <1>1, <2>3
      <4>2. /\ Calling(n, P, cs[c - 1], cs[c].id) /\ cs[c - 1].id < cs[c].id
            /\ Taking(c - 1, cs) = Taking(c, cs)
        BY ONLY <4>1, PoppedStack
      <4>3. QED
        BY <4>2
    <3>2. CASE cs[c - 1].does = "below" /\ P[id] = cs[c - 1].id
      <4>1. \A i \in 1 .. c - 1 : cs[i].id = cs[c - 1].id => i = c - 1
        <5>1. ASSUME NEW i \in 1 .. c - 1, i < c - 1
              PROVE  cs[i].id # cs[c - 1].id
          <6>1. i \in 1 .. c /\ c - 1 \in 1 .. c
            BY <2>1, <2>3
          <6>2. cs[i].id < cs[c - 1].id /\ cs[i].id \in 1 .. n /\ cs[c - 1].id \in 1 .. n
            BY <1>1, <5>1, <6>1 DEF Based
          <6>3. QED
            BY <6>2
        <5>2. \A i \in 1 .. c - 1 : i = c - 1 \/ i < c - 1
          BY <2>1
        <5>3. QED
          BY <5>1, <5>2
      <4>2. cs[c - 1].id \notin Taking(c - 1, cs)
        BY <3>2, <4>1 DEF Taking
      <4>3. QED
        BY <3>1, <3>2, <4>2
    <3>3. CASE cs[c - 1].does = "follow" /\ P[id] = P[cs[c - 1].id]
      <4>1. cs[c - 1].id \in Taking(c - 1, cs)
        <5>1. c - 1 \in 1 .. c - 1
          BY <2>1, <2>3
        <5>2. QED
          BY <3>3, <5>1 DEF Taking
      <4>2. QED
        BY <1>1, <3>1, <3>3, <4>1 DEF Alone
    <3>4. QED
      BY <3>1, <3>2, <3>3 DEF Calling
  <2>4. QED
    BY <2>1, <2>2, <2>3
<1>6. Alone(n, P, B)
  <2>1. P[id] \notin B
    <3>1. P[id] # id
      BY <1>1, ParentsNat
    <3>2. QED
      BY <1>5, <3>1
  <2>2. ASSUME NEW a \in A
        PROVE  P[a] \notin B
    <3>1. P[a] # id
      <4>1. a \in 1 .. n /\ a <= id /\ P[a] < a /\ P[a] \in 0 .. n
        BY <1>1, TakingFacts, ParentsNat
      <4>2. QED
        BY <1>1, <4>1
    <3>2. QED
      BY <1>1, <3>1 DEF Alone
  <2>3. ASSUME id = 1, n # 1
        PROVE  FALSE
    <3>1. 2 \in 2 .. n
      BY <1>1, <2>3
    <3>2. P[2] \in 1 .. n /\ P[2] < 2
      BY <1>1, <3>1 DEF Ordered
    <3>3. P[2] = 1
      BY <3>2
    <3>4. QED
      BY <1>1, <2>3, <3>1, <3>3
  <2>4. QED
    BY <1>1, <2>1, <2>2, <2>3 DEF Alone
<1>7. Holders(n, P, B) = Holders(n, P, A)
  <2>1. \A k \in 1 .. n : P[k] # id
    <3>1. \A k \in 1 .. n : k = 1 \/ k \in 2 .. n
      BY <1>1
    <3>2. P[1] # id
      BY <1>1 DEF Ordered
    <3>3. QED
      BY <1>1, <3>1, <3>2
  <2>2. \A k \in 1 .. n : P[k] \in B <=> P[k] \in A
    BY <2>1
  <2>3. \A k \in 1 .. n : Holder(P, B, k) = Holder(P, A, k)
    BY <2>2 DEF Holder
  <2>4. QED
    BY <2>3 DEF Holders
<1>8. QED
  BY <1>1, <1>4, <1>6, <1>7 DEF WorkInv

\* A call for the next entry below.
LEMMA BelowCalled ==
    ASSUME NEW n, NEW P, NEW L, NEW N, NEW c, NEW cs, WorkInv(n, P, L, N, c, cs),
           cs[c].does = "below", cs[c].menu # 0,
           NEW ds, \A i \in 1 .. c : ds[i] = cs[i], ds[c + 1] = Frame(cs[c].menu, "enter", 0)
    PROVE  WorkInv(n, P, L, N, c + 1, ds)
<1> DEFINE k == cs[c].menu
<1>1. n \in Nat /\ Based(n, P, c, cs) /\ TopOK(n, P, cs[c]) /\ Ordered(n, P)
  BY DEF WorkInv, Stacked
<1>2. k \in 2 .. n /\ P[k] = cs[c].id
  BY <1>1 DEF TopOK
<1>3. k \in 1 .. n /\ cs[c].id < k
  BY <1>1, <1>2 DEF Ordered
<1>4. Calling(n, P, cs[c], k)
  BY <1>2 DEF Calling
<1>7. ds[c + 1] = Frame(k, "enter", 0)
  OBVIOUS
<1> HIDE DEF k
<1>5. Stacked(n, P, c + 1, ds) /\ Taking(c + 1, ds) = Taking(c, cs)
  BY <1>1, <1>3, <1>4, <1>7, Pushed
<1>6. QED
  BY <1>5 DEF WorkInv

\* An entry that takes followers: those it has taken are all up to the last one.
LEMMA Follows ==
    ASSUME NEW n, NEW P, NEW L, NEW N, NEW c, NEW cs, WorkInv(n, P, L, N, c, cs),
           cs[c].does = "follow", NEW id, id = cs[c].id, NEW last, last = cs[c].menu,
           NEW A, A = Taking(c, cs), NEW V, V = Holders(n, P, A)
    PROVE  /\ n \in Nat \ {0} /\ Ordered(n, P) /\ Threaded(n, V, L, N) /\ Based(n, P, c, cs)
           /\ Alone(n, P, A)
           /\ id \in 1 .. n /\ id \in A /\ P[id] \notin A /\ \A a \in A : a \in 1 .. n /\ a <= id
           /\ \A k \in 1 .. n : V[k] = Holder(P, A, k) /\ V[k] \in 0 .. n /\ V[k] < k /\ V[k] # id
           /\ \A k \in 2 .. n : P[k] = id => id < k /\ k <= last /\ V[k] = P[id]
           /\ V[id] = P[id]
           /\ \A k \in 2 .. n : id < k /\ k <= last /\ V[k] = P[id] => P[k] = id
           /\ last = 0 \/ (last \in 2 .. n /\ P[last] = id /\ V[last] = P[id] /\ id < last)
           /\ n # 1 => id \in 2 .. n
<1>1. /\ n \in Nat \ {0} /\ Ordered(n, P) /\ Threaded(n, V, L, N) /\ Based(n, P, c, cs)
      /\ TopOK(n, P, cs[c]) /\ Alone(n, P, A)
  BY DEF WorkInv, Stacked
<1>2. c \in 1 .. c /\ id \in 1 .. n /\ id \in A
  <2>1. c \in 1 .. c
    BY <1>1 DEF Based
  <2>2. QED
    BY <1>1, <2>1 DEF Based, Taking
<1>3. \A a \in A : a \in 1 .. n /\ a <= id
  BY <1>1, TakingFacts
<1>4. Taken(n, P, id, last)
  BY <1>1 DEF TopOK
<1>5. P[id] \notin A
  BY <1>1, <1>2 DEF Alone
<1>6. \A k \in 1 .. n : V[k] = Holder(P, A, k) /\ V[k] \in 0 .. n /\ V[k] < k
  BY <1>1, <1>3, HoldersNat
<1>7. ASSUME NEW k \in 1 .. n
      PROVE  Holder(P, A, k) # id
  <2>1. CASE P[k] \in A
    <3>1. P[k] \in 1 .. n /\ P[k] <= id
      BY <1>3, <2>1
    <3>2. P[P[k]] < P[k] /\ P[P[k]] \in 0 .. n
      BY <1>1, <3>1, ParentsNat
    <3>3. QED
      BY <1>2, <2>1, <3>1, <3>2 DEF Holder
  <2>2. CASE P[k] \notin A
    BY <1>2, <2>2 DEF Holder
  <2>3. QED
    BY <2>1, <2>2
<1>8. \A k \in 2 .. n : P[k] = id => id < k /\ k <= last /\ V[k] = P[id]
  <2> SUFFICES ASSUME NEW k \in 2 .. n, P[k] = id
               PROVE  id < k /\ k <= last /\ V[k] = P[id]
    OBVIOUS
  <2>1. k \in 1 .. n /\ P[k] < k
    BY <1>1 DEF Ordered
  <2>2. Holder(P, A, k) = P[id]
    BY <1>2 DEF Holder
  <2>3. QED
    BY <1>4, <1>6, <2>1, <2>2 DEF Taken
<1>9. V[id] = P[id]
  BY <1>2, <1>5, <1>6 DEF Holder
<1>10. last = 0 \/ (last \in 2 .. n /\ P[last] = id /\ V[last] = P[id] /\ id < last)
  BY <1>4, <1>8 DEF Taken
<1>11. ASSUME NEW k \in 2 .. n, id < k, k <= last, V[k] = P[id]
       PROVE  P[k] = id
  <2>1. last \in 2 .. n /\ P[last] = id
    BY <1>10, <1>11
  <2>2. CASE k = last
    BY <2>1, <2>2
  <2>3. CASE k # last
    <3>1. k < last
      BY <1>11, <2>1, <2>3
    <3>2. id <= P[k] /\ P[k] \in 1 .. n
      BY <1>1, <1>11, <2>1, <3>1 DEF Ordered
    <3>3. CASE P[k] \in A
      BY <1>2, <1>3, <3>2, <3>3
    <3>4. CASE P[k] \notin A
      <4>1. P[k] = P[id]
        BY <1>6, <1>11, <3>4 DEF Holder
      <4>2. P[id] < id /\ P[id] \in 0 .. n
        BY <1>1, <1>2, ParentsNat
      <4>3. QED
        BY <1>2, <3>2, <4>1, <4>2
    <3>5. QED
      BY <3>3, <3>4
  <2>4. QED
    BY <2>2, <2>3
<1>12. n # 1 => id \in 2 .. n
  <2>1. id = 1 => n = 1
    BY <1>1, <1>2 DEF Alone
  <2>2. QED
    BY <1>1, <1>2, <2>1
<1>13. QED
  BY <1>1, <1>2, <1>3, <1>5, <1>6, <1>7, <1>8, <1>9, <1>10, <1>11, <1>12

\* A call for the entry that follows.
LEMMA FollowerCalled ==
    ASSUME NEW n, NEW P, NEW L, NEW N, NEW c, NEW cs, WorkInv(n, P, L, N, c, cs),
           cs[c].does = "follow",
           NEW f, f = N[IF cs[c].menu = 0 THEN cs[c].id ELSE cs[c].menu], f # 0,
           NEW ds, \A i \in 1 .. c : ds[i] = cs[i], ds[c + 1] = Frame(f, "enter", 0)
    PROVE  WorkInv(n, P, L, N, c + 1, ds)
<1> DEFINE A == Taking(c, cs)
           V == Holders(n, P, A)
           id == cs[c].id
           last == cs[c].menu
           x == IF last = 0 THEN id ELSE last
<1>1. /\ n \in Nat \ {0} /\ Ordered(n, P) /\ Threaded(n, V, L, N) /\ Based(n, P, c, cs)
      /\ id \in 1 .. n /\ id \in A /\ P[id] \notin A /\ \A a \in A : a \in 1 .. n /\ a <= id
  BY Follows
<1>2. /\ \A k \in 1 .. n : V[k] = Holder(P, A, k)
      /\ \A k \in 2 .. n : P[k] = id => k <= last
      /\ V[id] = P[id]
      /\ \A k \in 2 .. n : id < k /\ k <= last /\ V[k] = P[id] => P[k] = id
      /\ last = 0 \/ (last \in 2 .. n /\ P[last] = id /\ V[last] = P[id] /\ id < last)
      /\ n # 1 => id \in 2 .. n
  BY Follows
<1>t. Taken(n, P, id, last)
  BY <1>2 DEF Taken
<1>f. f = N[x]
  OBVIOUS
<1> HIDE DEF A, V, id, last
<1>3. x \in 1 .. n /\ id <= x /\ V[x] = P[id] /\ last <= x /\ x = (IF last = 0 THEN id ELSE last)
  BY <1>1, <1>2
<1> HIDE DEF x
<1>4. f \in 2 .. n /\ f > x /\ V[f] = P[id] /\ \A k \in 2 .. n : k > x /\ V[k] = P[id] => f <= k
  BY <1>1, <1>3, <1>f, FirstKid
<1>5. id \in 2 .. n /\ id < f /\ last < f
  <2>1. n # 1
    BY <1>4
  <2>2. last \in Int /\ id \in Int /\ x \in Int /\ f \in Int
    BY <1>1, <1>2, <1>3, <1>4
  <2>3. id < f /\ last < f
    BY <1>3, <1>4, <2>2
  <2>4. QED
    BY <1>2, <2>1, <2>3
<1>6. P[id] \in 0 .. n /\ P[id] < id /\ P[f] \in 1 .. n
  BY <1>1, <1>4, ParentsNat DEF Ordered
<1>7. P[f] = P[id]
  <2>1. CASE P[f] \in A
    <3>1. P[P[f]] = P[id] /\ P[f] <= id
      <4>1. f \in 1 .. n
        BY <1>4
      <4>2. QED
        BY <1>1, <1>2, <1>4, <2>1, <4>1 DEF Holder
    <3>2. P[f] # id
      BY <1>2, <1>4, <1>5
    <3>8. P[f] \in Int /\ id \in Int
      BY <1>1, <1>6
    <3>0. P[f] <= id
      BY <3>1
    <3>3. P[f] < id
      BY <3>0, <3>2, <3>8
    <3>4. P[f] <= P[id]
      BY <1>1, <1>4, <1>5, <3>3 DEF Ordered
    <3>5. P[P[f]] < P[f]
      BY <1>1, <1>6, ParentsNat
    <3>6. P[id] < P[f]
      BY <3>1, <3>5
    <3>7. P[id] \in Int /\ P[f] \in Int
      BY <1>6
    <3>9. QED
      BY <3>4, <3>6, <3>7
  <2>2. CASE P[f] \notin A
    <3>1. f \in 1 .. n
      BY <1>4
    <3>2. QED
      BY <1>2, <1>4, <2>2, <3>1 DEF Holder
  <2>3. QED
    BY <2>1, <2>2
<1>8. ASSUME NEW j \in 2 .. n, id < j, j < f, P[j] < id
      PROVE  FALSE
  <2>1. P[j] \in 1 .. n /\ P[id] < j
    BY <1>1, <1>6, <1>8 DEF Ordered
  <2>2. P[id] <= P[j]
    BY <1>1, <1>4, <1>7, <1>8, <2>1 DEF Ordered
  <2>3. CASE P[j] = P[id]
    <3>1. V[j] = P[id]
      <4>1. j \in 1 .. n
        BY <1>1
      <4>2. QED
        BY <1>1, <1>2, <2>3, <4>1 DEF Holder
    <3>2. ~(j > x)
      BY <1>4, <1>8, <3>1
    <3>3. j <= last
      BY <1>1, <1>3, <1>8, <3>2
    <3>4. P[j] = id
      BY <1>2, <1>8, <3>1, <3>3
    <3>5. QED
      BY <1>1, <1>8, <3>4
  <2>4. CASE P[id] < P[j]
    <3>1. P[j] <= P[id]
      BY <1>1, <1>5, <1>8 DEF Ordered
    <3>2. QED
      BY <1>6, <2>1, <2>4, <3>1
  <2>5. QED
    BY <1>6, <2>1, <2>2, <2>3, <2>4
<1>9. \A j \in 2 .. n : id < j /\ j < f => id <= P[j]
  <2>1. \A j \in 2 .. n : P[j] \in 1 .. n
    BY <1>1 DEF Ordered
  <2>2. QED
    BY <1>1, <1>8, <2>1
<1>10. Calling(n, P, cs[c], f)
  BY <1>5, <1>7, <1>9, <1>t DEF Calling, id, last
<1>11. Stacked(n, P, c + 1, ds) /\ Taking(c + 1, ds) = Taking(c, cs)
  <2>1. f \in 1 .. n /\ cs[c].id < f
    BY <1>4, <1>5 DEF id
  <2>2. QED
    BY <1>1, <1>10, <2>1, Pushed
<1>12. QED
  BY <1>11 DEF WorkInv

\* The entries taken become those in the list.
LEMMA AdoptStep ==
    ASSUME NEW n, NEW P, NEW L, NEW N, NEW c, NEW cs, WorkInv(n, P, L, N, c, cs),
           cs[c].does = "follow", cs[c].menu # 0, NEW M, NEW O,
           \A i \in 1 .. n : M[i] = IF i = cs[c].id THEN N[cs[c].id] ELSE L[i],
           \A i \in 1 .. n : O[i] = IF i = cs[c].id THEN N[cs[c].menu]
                                    ELSE IF i = cs[c].menu THEN 0 ELSE N[i],
           NEW ds, \A i \in 1 .. c - 1 : ds[i] = cs[i],
           ds[c] = Frame(cs[c].id, "settle", M[cs[c].id])
    PROVE  WorkInv(n, P, M, O, c, ds)
<1> DEFINE A == Taking(c, cs)
           V == Holders(n, P, A)
           B == A \ {cs[c].id}
           W == Holders(n, P, B)
           id == cs[c].id
           last == cs[c].menu
           K == {k \in 2 .. n : P[k] = cs[c].id}
<1>1. /\ n \in Nat \ {0} /\ Ordered(n, P) /\ Threaded(n, V, L, N) /\ Based(n, P, c, cs)
      /\ Alone(n, P, A)
      /\ id \in 1 .. n /\ id \in A /\ P[id] \notin A /\ \A a \in A : a \in 1 .. n /\ a <= id
  BY Follows
<1>2. /\ \A k \in 1 .. n : V[k] = Holder(P, A, k) /\ V[k] \in 0 .. n /\ V[k] # id
      /\ \A k \in 2 .. n : P[k] = id => id < k /\ k <= last /\ V[k] = P[id]
      /\ V[id] = P[id]
      /\ \A k \in 2 .. n : id < k /\ k <= last /\ V[k] = P[id] => P[k] = id
      /\ last \in 2 .. n /\ P[last] = id /\ V[last] = P[id] /\ id < last
      /\ n # 1 => id \in 2 .. n
  BY Follows
<1>3. id \in 2 .. n
  BY <1>2
<1>4. \A k \in 1 .. n : W[k] = Holder(P, B, k)
  BY DEF Holders
<1>5. ASSUME NEW k \in 1 .. n
      PROVE  W[k] = IF k \in K THEN id ELSE V[k]
  <2>1. CASE k \in K
    BY <1>4, <2>1 DEF Holder
  <2>2. CASE k \notin K
    <3>1. P[k] # id
      <4>1. k = 1 \/ k \in 2 .. n
        OBVIOUS
      <4>2. P[1] # id
        BY <1>1 DEF Ordered
      <4>3. QED
        BY <2>2, <4>1, <4>2
    <3>2. P[k] \in B <=> P[k] \in A
      BY <3>1
    <3>3. QED
      BY <1>2, <1>4, <2>2, <3>2 DEF Holder
  <2>3. QED
    BY <2>1, <2>2
<1>6. \A i \in 1 .. n : M[i] = IF i = id THEN N[id] ELSE L[i]
  OBVIOUS
<1>7. \A i \in 1 .. n : O[i] = IF i = id THEN N[last] ELSE IF i = last THEN 0 ELSE N[i]
  OBVIOUS
<1>8. Threaded(n, W, M, O)
  <2>1. K \in SUBSET (2 .. n) /\ last \in K
    BY <1>2
  <2>2. \A k \in K : id < k /\ k <= last /\ V[k] = V[id]
    BY <1>2
  <2>3. \A k \in 2 .. n : id < k /\ k <= last /\ V[k] = V[id] => k \in K
    BY <1>2
  <2>4. \A k \in 1 .. n : V[k] # id /\ V[k] \in Nat
    BY <1>1, <1>2
  <2>9. \A k \in K : k \in 1 .. n
    BY <2>1
  <2>5. \A k \in K : W[k] = id
    <3> HIDE DEF A, V, W, B, id, last, K
    <3>1. QED
      BY <1>5, <2>9
  <2>6. \A k \in 1 .. n : k \notin K => W[k] = V[k]
    BY <1>5
  <2>7. n \in Nat /\ Threaded(n, V, L, N)
    BY <1>1
  <2> HIDE DEF A, V, W, B, id, last, K
  <2>8. QED
    BY ONLY <1>3, <1>6, <1>7, <2>1, <2>2, <2>3, <2>4, <2>5, <2>6, <2>7, Adopting
<1>9. ds[c].id = id /\ ds[c].does = "settle" /\ ds[c].menu = N[id]
  <2>1. M[id] = N[id]
    BY <1>1, <1>6
  <2>2. QED
    BY <2>1 DEF Frame
<1>10. N[id] \in 2 .. n /\ P[N[id]] = id
  <2>1. last \in 2 .. n /\ last > id /\ V[last] = V[id]
    BY <1>2
  <2> HIDE DEF A, V, W, B, id, last, K
  <2>2. N[id] # 0
    BY <1>1, <2>1, FirstKid
  <2>3. /\ N[id] \in 2 .. n /\ N[id] > id /\ V[N[id]] = V[id] /\ N[id] <= last
    BY <1>1, <2>1, <2>2, FirstKid
  <2>4. QED
    BY <1>2, <2>3
<1>11. TopOK(n, P, ds[c])
  BY <1>9, <1>10 DEF TopOK
<1>12. Stacked(n, P, c, ds) /\ Taking(c, ds) = B
  <2>1. ds[c].does # "follow"
    BY <1>9
  <2> HIDE DEF V, W
  <2>2. QED
    BY <1>1, <1>9, <1>11, <2>1, Retopped
<1>13. Alone(n, P, B)
  BY <1>1 DEF Alone
<1>14. QED
  BY <1>1, <1>8, <1>12, <1>13 DEF WorkInv

\* Or none was taken.
LEMMA AdoptNone ==
    ASSUME NEW n, NEW P, NEW L, NEW N, NEW c, NEW cs, WorkInv(n, P, L, N, c, cs),
           cs[c].does = "follow", cs[c].menu = 0,
           NEW ds, \A i \in 1 .. c - 1 : ds[i] = cs[i],
           ds[c] = Frame(cs[c].id, "settle", L[cs[c].id])
    PROVE  WorkInv(n, P, L, N, c, ds)
<1> DEFINE A == Taking(c, cs)
           V == Holders(n, P, A)
           B == A \ {cs[c].id}
           id == cs[c].id
<1>1. /\ n \in Nat \ {0} /\ Ordered(n, P) /\ Threaded(n, V, L, N) /\ Based(n, P, c, cs)
      /\ Alone(n, P, A) /\ id \in 1 .. n
  BY Follows
<1>2. /\ \A k \in 1 .. n : V[k] # id
      /\ \A k \in 2 .. n : P[k] = id => id < k /\ k <= 0
  BY Follows
<1>3. \A k \in 1 .. n : P[k] # id
  <2>1. \A k \in 2 .. n : P[k] # id
    BY <1>1, <1>2
  <2>2. P[1] # id
    BY <1>1 DEF Ordered
  <2>3. \A k \in 1 .. n : k = 1 \/ k \in 2 .. n
    BY <1>1
  <2>4. QED
    BY <2>1, <2>2, <2>3
<1>4. Holders(n, P, B) = V
  <2>1. \A k \in 1 .. n : P[k] \in B <=> P[k] \in A
    BY <1>3
  <2>2. \A k \in 1 .. n : Holder(P, B, k) = Holder(P, A, k)
    BY <2>1 DEF Holder
  <2>3. QED
    BY <2>2 DEF Holders
<1>5. L[id] = 0
  <2>1. L[id] # 0 => L[id] \in 2 .. n /\ V[L[id]] = id
    <3> HIDE DEF A, V, B, id
    <3>1. QED
      BY <1>1, FirstKid
  <2>2. L[id] # 0 => L[id] \in 1 .. n
    BY <2>1
  <2>3. QED
    BY <1>2, <2>1, <2>2
<1>6. ds[c].id = id /\ ds[c].does = "settle" /\ ds[c].menu = 0
  BY <1>5 DEF Frame
<1>7. TopOK(n, P, ds[c])
  BY <1>6 DEF TopOK
<1>8. Stacked(n, P, c, ds) /\ Taking(c, ds) = B
  <2>1. ds[c].does # "follow"
    BY <1>6
  <2> HIDE DEF V
  <2>2. QED
    BY <1>1, <1>6, <1>7, <2>1, Retopped
<1>9. Alone(n, P, B)
  BY <1>1 DEF Alone
<1>10. QED
  BY <1>1, <1>4, <1>8, <1>9 DEF WorkInv

\* Entries beside each other that are not those of the entry whose call is the
\* innermost one: an entry that is below it has the same parent as the next one.
LEMMA NextSettled ==
    ASSUME NEW n, NEW P, NEW L, NEW N, NEW c, NEW cs, WorkInv(n, P, L, N, c, cs),
           cs[c].does = "settle", NEW m, m = cs[c].menu, m # 0,
           NEW ds, \A i \in 1 .. c - 1 : ds[i] = cs[i],
           ds[c] = Frame(cs[c].id, "settle", N[m])
    PROVE  WorkInv(n, P, L, N, c, ds)
<1> DEFINE A == Taking(c, cs)
           V == Holders(n, P, A)
           id == cs[c].id
<1>1. /\ n \in Nat \ {0} /\ Ordered(n, P) /\ Threaded(n, V, L, N) /\ Based(n, P, c, cs)
      /\ TopOK(n, P, cs[c])
  BY DEF WorkInv, Stacked
<1>2. /\ id \in 1 .. n /\ id \notin A
      /\ \A k \in 2 .. n : Holder(P, A, k) = id <=> P[k] = id
      /\ \A k \in 1 .. n : V[k] = Holder(P, A, k)
  BY OwnList
<1>3. m \in 2 .. n /\ P[m] = id
  BY <1>1 DEF TopOK
<1>4. N[m] = 0 \/ (N[m] \in 2 .. n /\ P[N[m]] = id)
  <2>1. V[m] = id /\ m \in 1 .. n
    BY <1>2, <1>3
  <2> HIDE DEF A, V, id
  <2>2. N[m] # 0 => N[m] \in 2 .. n /\ V[N[m]] = V[m]
    BY <1>1, <2>1, FirstKid
  <2>3. N[m] # 0 => N[m] \in 1 .. n
    BY <2>2
  <2>4. QED
    BY <1>2, <2>1, <2>2, <2>3
<1>5. ds[c].id = id /\ ds[c].does = "settle" /\ ds[c].menu = N[m]
  BY DEF Frame
<1>6. TopOK(n, P, ds[c]) /\ ds[c].does # "follow"
  BY <1>4, <1>5 DEF TopOK
<1>7. Stacked(n, P, c, ds) /\ Taking(c, ds) = A \ {id}
  <2> HIDE DEF V
  <2>1. QED
    BY <1>1, <1>5, <1>6, Retopped
<1>8. Taking(c, ds) = A
  BY <1>2, <1>7
<1>9. QED
  BY <1>7, <1>8 DEF WorkInv

\* The entries in the list of an entry move beside it.
LEMMA SpliceStep ==
    ASSUME NEW n, NEW P, NEW L, NEW N, NEW c, NEW cs, WorkInv(n, P, L, N, c, cs),
           cs[c].does = "settle", NEW m, m = cs[c].menu, m # 0, L[m] # 0,
           NEW s, NEW ks, Chain(n, N, L[m], s, ks),
           NEW Q, \A k \in 1 .. n : Q[k] = IF k \in Links(s, ks) THEN cs[c].id ELSE P[k],
           NEW M, NEW O, \A i \in 1 .. n : M[i] = IF i = m THEN 0 ELSE L[i],
           \A i \in 1 .. n : O[i] = IF i = m THEN L[m] ELSE IF i = ks[s] THEN N[m] ELSE N[i],
           NEW ds, \A i \in 1 .. c - 1 : ds[i] = cs[i],
           ds[c] = Frame(cs[c].id, "settle", O[m])
    PROVE  WorkInv(n, Q, M, O, c, ds)
<1> DEFINE A == Taking(c, cs)
           V == Holders(n, P, A)
           W == Holders(n, Q, A)
           id == cs[c].id
           l == ks[s]
           K == ListOf(n, V, m)
<1>1. /\ n \in Nat \ {0} /\ Ordered(n, P) /\ Threaded(n, V, L, N) /\ Based(n, P, c, cs)
      /\ TopOK(n, P, cs[c]) /\ Alone(n, P, A)
  BY DEF WorkInv, Stacked
<1>2. /\ id \in 1 .. n /\ id \notin A
      /\ \A k \in 2 .. n : Holder(P, A, k) = id <=> P[k] = id
      /\ \A k \in 1 .. n : V[k] = Holder(P, A, k)
  BY OwnList
<1>3. m \in 2 .. n /\ m \in 1 .. n /\ P[m] = id /\ id < m
  <2>1. m \in 2 .. n /\ P[m] = id
    BY <1>1 DEF TopOK
  <2>2. QED
    BY <1>1, <2>1 DEF Ordered
<1>4. \A a \in A : a \in 1 .. n /\ a <= id /\ a # m /\ a <= m
  <2>1. \A a \in A : a \in 1 .. n /\ a <= id
    BY <1>1, TakingFacts
  <2>2. QED
    BY <1>2, <1>3, <2>1
<1>5. /\ \A i \in 1 .. s : ks[i] \in K /\ ks[i] <= l
      /\ \A k \in K : \E i \in 1 .. s : ks[i] = k
  <2> HIDE DEF A, V
  <2>1. n \in Nat /\ Threaded(n, V, L, N) /\ m \in 1 .. n /\ L[m] # 0
    BY <1>1, <1>3
  <2>2. Chain(n, N, L[m], s, ks)
    OBVIOUS
  <2>3. /\ \A i \in 1 .. s : ks[i] \in ListOf(n, V, m) /\ ks[i] <= ks[s]
        /\ \A k \in ListOf(n, V, m) : \E i \in 1 .. s : ks[i] = k
    <3>1. \A i \in 1 .. s : ks[i] \in ListOf(n, V, m)
      BY ONLY <2>1, <2>2, Chained
    <3>2. \A i \in 1 .. s : ks[i] <= ks[s]
      BY ONLY <2>1, <2>2, Chained
    <3>3. ListOf(n, V, m) \subseteq Links(s, ks)
      BY ONLY <2>1, <2>2, Chained
    <3>4. QED
      BY <3>1, <3>2, <3>3 DEF Links
  <2>4. QED
    BY <2>3
<1>d. ds[c].id = id /\ ds[c].does = "settle" /\ ds[c].menu = O[m]
  BY DEF Frame
<1>q. \A k \in 1 .. n : Q[k] = IF k \in K THEN id ELSE P[k]
  <2> HIDE DEF K
  <2>1. K = Links(s, ks)
    BY <1>5 DEF Links
  <2>2. QED
    BY <2>1
<1>m. /\ \A i \in 1 .. n : M[i] = IF i = m THEN 0 ELSE L[i]
      /\ \A i \in 1 .. n : O[i] = IF i = m THEN L[m] ELSE IF i = l THEN N[m] ELSE N[i]
  OBVIOUS
<1>v. \A k \in 1 .. n : V[k] \in 0 .. n /\ V[k] < k
  <2>1. n \in Nat /\ \A a \in A : a \in 1 .. n
    BY <1>1, <1>4
  <2>2. QED
    BY <1>1, <1>2, <2>1, HoldersNat
<1>6. \A k \in 2 .. n : k \in K <=> P[k] = m
  <2>1. \A k \in 2 .. n : Holder(P, A, k) = m <=> P[k] = m
    <3>1. m \notin A
      BY <1>4
    <3> HIDE DEF A
    <3>2. QED
      BY <1>1, <1>3, <1>4, <3>1, HolderAt
  <2>2. \A k \in 2 .. n : k \in 1 .. n /\ (k \in K <=> V[k] = m)
    BY DEF ListOf
  <2> HIDE DEF A, V, K
  <2>3. QED
    BY <1>2, <2>1, <2>2
<1>7. K \in SUBSET (2 .. n) /\ l \in K /\ l \in 1 .. n
  <2>1. K \subseteq 2 .. n
    BY DEF ListOf
  <2>2. s \in 1 .. s /\ s \in Nat
    BY DEF Chain
  <2>3. QED
    BY <1>5, <2>1, <2>2
<1>8. V[m] = id /\ V[1] # m
  BY <1>1, <1>2, <1>3, <1>v
<1> HIDE DEF A, V, W, id, l, K
<1>9. \A k \in K : k \in 2 .. n /\ k \in 1 .. n /\ m < k /\ id < k /\ k <= l /\ P[k] = m /\ Q[k] = id
  <2> SUFFICES ASSUME NEW k \in K
               PROVE  k \in 2 .. n /\ k \in 1 .. n /\ m < k /\ id < k /\ k <= l /\ P[k] = m /\ Q[k] = id
    OBVIOUS
  <2>1. k \in 2 .. n /\ k \in 1 .. n /\ P[k] = m
    BY <1>6, <1>7
  <2>2. m < k
    BY <1>1, <2>1 DEF Ordered
  <2>3. k <= l
    BY <1>5
  <2>4. id < k
    BY <1>2, <1>3, <2>1, <2>2
  <2>5. QED
    BY <1>q, <2>1, <2>2, <2>3, <2>4
<1>10. \A k \in 1 .. n : k <= m => k \notin K /\ Q[k] = P[k]
  <2>1. \A k \in 1 .. n : k <= m => k \notin K
    BY <1>3, <1>9
  <2>2. QED
    BY <1>q, <2>1
<1>11. ASSUME NEW k \in 1 .. n
       PROVE  W[k] = IF k \in K THEN id ELSE V[k]
  <2>1. W[k] = Holder(Q, A, k)
    BY DEF W, Holders
  <2>2. CASE k \in K
    BY <1>2, <1>9, <2>1, <2>2 DEF Holder
  <2>3. CASE k \notin K
    <3>1. Q[k] = P[k]
      BY <1>q, <2>3
    <3>2. P[k] \in A => Q[P[k]] = P[P[k]]
      BY <1>4, <1>10
    <3>3. QED
      BY <1>2, <2>1, <2>3, <3>1, <3>2 DEF Holder
  <2>4. QED
    BY <2>2, <2>3
<1>12. ASSUME NEW k \in 2 .. n, m < k, k <= l
       PROVE  V[k] # id
  <2>1. P[l] = m /\ l \in 2 .. n
    BY <1>7, <1>9
  <2>2. P[k] # id
    <3>1. CASE k = l
      BY <1>2, <1>3, <2>1, <3>1
    <3>2. CASE k # l
      <4>1. m <= P[k] /\ P[k] \in 1 .. n
        BY <1>1, <1>3, <1>12, <2>1, <3>2 DEF Ordered
      <4>2. QED
        BY <1>2, <1>3, <4>1
    <3>3. QED
      BY <3>1, <3>2
  <2>3. k \in 1 .. n
    OBVIOUS
  <2>4. QED
    BY <1>2, <2>2, <2>3
<1>13. Threaded(n, W, M, O)
  <2>1. n \in Nat /\ \A k \in 1 .. n : V[k] \in Nat
    BY <1>1, <1>v
  <2>2. \A k \in K : m < k /\ k <= l /\ V[k] = m
    <3>1. \A k \in K : V[k] = m
      BY DEF K, ListOf
    <3>2. QED
      BY <1>9, <3>1
  <2>3. \A k \in 1 .. n : V[k] = m => k \in K
    <3>1. \A k \in 1 .. n : k = 1 \/ k \in 2 .. n
      BY <1>1
    <3>2. QED
      BY <1>8, <3>1 DEF K, ListOf
  <2>4. \A k \in 2 .. n : m < k /\ k <= l => V[k] # V[m]
    BY <1>8, <1>12
  <2>5. \A k \in K : W[k] = V[m]
    BY <1>8, <1>9, <1>11
  <2>6. \A k \in 1 .. n : k \notin K => W[k] = V[k]
    BY <1>11
  <2>7. V[m] # m /\ l # m /\ Threaded(n, V, L, N) /\ m \in 2 .. n /\ K \in SUBSET (2 .. n) /\ l \in K
    BY <1>1, <1>2, <1>3, <1>7, <1>8, <1>9
  <2>8. \A i \in 1 .. n : M[i] = IF i = m THEN 0 ELSE L[i]
    BY <1>m
  <2>9. \A i \in 1 .. n : O[i] = IF i = l THEN N[m] ELSE IF i = m THEN L[m] ELSE N[i]
    BY <1>m, <2>7
  <2>10. QED
    BY ONLY <2>1, <2>2, <2>3, <2>4, <2>5, <2>6, <2>7, <2>8, <2>9, Splicing
<1>14. Ordered(n, Q)
  <2>1. Q[1] = 0
    BY <1>1, <1>3, <1>10 DEF Ordered
  <2>2. ASSUME NEW k \in 2 .. n
        PROVE  Q[k] \in 1 .. n /\ Q[k] < k
    <3>1. k \in 1 .. n
      OBVIOUS
    <3>2. CASE k \in K
      BY <1>2, <1>9, <3>2
    <3>3. CASE k \notin K
      BY <1>1, <1>q, <3>1, <3>3 DEF Ordered
    <3>4. QED
      BY <3>2, <3>3
  <2>3. ASSUME NEW k \in 2 .. n, NEW j \in 2 .. n, Q[k] < j, j < k
        PROVE  Q[k] <= Q[j]
    <3>1. k \in 1 .. n /\ j \in 1 .. n /\ P[k] \in 1 .. n /\ P[j] \in 1 .. n
      BY <1>1 DEF Ordered
    <3>2. CASE k \in K
      <4>1. Q[k] = id /\ P[k] = m
        BY <1>9, <3>2
      <4>2. CASE j \in K
        BY <1>2, <1>9, <4>1, <4>2
      <4>3. CASE j \notin K
        <5>1. Q[j] = P[j]
          BY <1>q, <3>1, <4>3
        <5>2. CASE m < j
          <6>1. m <= P[j]
            BY <1>1, <2>3, <4>1, <5>2 DEF Ordered
          <6>2. QED
            BY <1>2, <1>3, <3>1, <4>1, <5>1, <6>1
        <5>3. CASE j = m
          BY <1>2, <1>3, <4>1, <5>1, <5>3
        <5>4. CASE j < m
          <6>1. id <= P[j]
            BY <1>1, <1>3, <2>3, <4>1, <5>4 DEF Ordered
          <6>2. QED
            BY <4>1, <5>1, <6>1
        <5>5. QED
          BY <1>3, <5>2, <5>3, <5>4
      <4>4. QED
        BY <4>2, <4>3
    <3>3. CASE k \notin K
      <4>1. Q[k] = P[k]
        BY <1>q, <3>1, <3>3
      <4>2. P[k] <= P[j]
        BY <1>1, <2>3, <4>1 DEF Ordered
      <4>3. CASE j \notin K
        BY <1>q, <3>1, <4>1, <4>2, <4>3
      <4>4. CASE j \in K
        <5>1. P[j] = m /\ m < j /\ Q[j] = id
          BY <1>9, <4>4
        <5>2. P[k] # m
          BY <1>6, <3>3
        <5>3. P[k] < m
          BY <1>3, <3>1, <4>2, <5>1, <5>2
        <5>4. m < k
          BY <1>3, <2>3, <5>1
        <5>5. P[k] <= P[m]
          BY <1>1, <1>3, <5>3, <5>4 DEF Ordered
        <5>6. QED
          BY <1>3, <4>1, <5>1, <5>5
      <4>5. QED
        BY <4>3, <4>4
    <3>4. QED
      BY <3>2, <3>3
  <2>4. QED
    BY <2>1, <2>2, <2>3 DEF Ordered
<1>15. Alone(n, Q, A)
  <2>1. \A a \in A : Q[a] = P[a]
    BY <1>4, <1>10
  <2>2. QED
    BY <1>1, <2>1 DEF Alone
<1>16. Based(n, Q, c, cs)
  <2>1. ASSUME NEW k \in 1 .. n, Q[k] # P[k]
        PROVE  /\ cs[c].id < k
               /\ \A i \in 1 .. c - 1 : cs[i].does = "follow" => P[k] # cs[i].id /\ Q[k] # cs[i].id
    <3>1. k \in K
      BY <1>q, <2>1
    <3>2. id < k /\ P[k] = m /\ Q[k] = id
      BY <1>9, <3>1
    <3>3. ASSUME NEW i \in 1 .. c - 1
          PROVE  cs[i].id # m /\ cs[i].id # id
      <4>1. i \in 1 .. c /\ c \in 1 .. c /\ i < c
        BY <1>1 DEF Based
      <4>2. cs[i].id < cs[c].id /\ cs[i].id \in 1 .. n
        BY <1>1, <4>1 DEF Based
      <4>3. cs[i].id < id
        BY <4>2 DEF id
      <4>4. QED
        BY <1>2, <1>3, <4>2, <4>3
    <3>4. QED
      BY <3>2, <3>3 DEF id
  <2>2. /\ n \in Nat /\ c \in Nat \ {0} /\ \A i \in 1 .. c : cs[i].id \in 1 .. n
        /\ \A i, j \in 1 .. c : i < j => cs[i].id < cs[j].id
        /\ \A i \in 1 .. c - 1 : Calling(n, P, cs[i], cs[i + 1].id)
    BY <1>1 DEF Based
  <2>3. \A i \in 1 .. c - 1 : Calling(n, Q, cs[i], cs[i + 1].id)
    BY ONLY <2>1, <2>2, StackMoved
  <2>4. QED
    BY <1>1, <2>3 DEF Based
<1>17. TopOK(n, Q, ds[c]) /\ ds[c].does # "follow"
  <2>1. O[m] = L[m]
    BY <1>3, <1>m
  <2>2. L[m] \in 2 .. n /\ V[L[m]] = m
    <3>1. n \in Nat
      BY <1>1
    <3>2. QED
      BY <1>1, <1>3, <3>1, FirstKid
  <2>3. L[m] \in K
    BY <2>2 DEF K, ListOf
  <2>4. QED
    BY <1>9, <1>d, <2>1, <2>2, <2>3 DEF TopOK
<1>18. Stacked(n, Q, c, ds) /\ Taking(c, ds) = A \ {id}
  <2>1. n \in Nat /\ ds[c].id = cs[c].id
    BY <1>1, <1>d DEF id
  <2>2. QED
    BY <1>16, <1>17, <2>1, Retopped DEF A, id
<1>19. Taking(c, ds) = A
  BY <1>2, <1>18
<1>20. QED
  BY <1>1, <1>13, <1>14, <1>15, <1>18, <1>19 DEF WorkInv, W

\* A call returns to that of the entry it is below.
LEMMA BelowReturned ==
    ASSUME NEW n, NEW P, NEW L, NEW N, NEW c, NEW cs, WorkInv(n, P, L, N, c, cs),
           c > 1, cs[c].does = "settle", cs[c - 1].does = "below",
           NEW ds, \A i \in 1 .. (c - 1) - 1 : ds[i] = cs[i],
           ds[c - 1] = Frame(cs[c - 1].id, "below", N[cs[c].id])
    PROVE  WorkInv(n, P, L, N, c - 1, ds)
<1> DEFINE A == Taking(c, cs)
           V == Holders(n, P, A)
           f == cs[c - 1].id
           k == cs[c].id
<1>1. /\ n \in Nat \ {0} /\ n \in Nat /\ Ordered(n, P) /\ Threaded(n, V, L, N) /\ Based(n, P, c, cs)
      /\ Alone(n, P, A)
  BY DEF WorkInv, Stacked
<1>2. /\ Based(n, P, c - 1, cs) /\ Calling(n, P, cs[c - 1], k) /\ f < k
      /\ k \in 1 .. n /\ f \in 1 .. n /\ Taking(c - 1, cs) = A
  <2>1. cs[c].does # "follow"
    OBVIOUS
  <2> HIDE DEF V
  <2>2. QED
    BY <1>1, <2>1, PoppedStack
<1>3. f \notin A /\ \A a \in A : a \in 1 .. n /\ a <= f
  <2>1. \A a \in A : a \in 1 .. n /\ a <= f /\ (a = f => cs[c - 1].does = "follow")
    BY <1>1, <1>2, TakingFacts
  <2>2. QED
    BY <2>1
<1>4. P[k] = f /\ k \in 2 .. n
  BY <1>2 DEF Calling
<1>5. \A j \in 2 .. n : j \in 1 .. n /\ V[j] = Holder(P, A, j) /\ (Holder(P, A, j) = f <=> P[j] = f)
  <2>1. \A j \in 2 .. n : j \in 1 .. n
    BY <1>1
  <2>2. \A j \in 1 .. n : V[j] = Holder(P, A, j)
    BY <1>1, <1>3, HoldersNat
  <2> HIDE DEF A, V, f, k
  <2>3. \A j \in 2 .. n : Holder(P, A, j) = f <=> P[j] = f
    BY <1>1, <1>2, <1>3, HolderAt
  <2>4. QED
    BY <2>1, <2>2, <2>3
<1>d. ds[c - 1].id = f /\ ds[c - 1].does = "below" /\ ds[c - 1].menu = N[k]
  BY DEF Frame
<1>6. N[k] = 0 \/ (N[k] \in 2 .. n /\ P[N[k]] = f)
  <2> HIDE DEF A, V, f, k
  <2>1. N[k] # 0 => N[k] \in 2 .. n /\ V[N[k]] = V[k]
    BY <1>1, <1>2, FirstKid
  <2>2. QED
    BY <1>4, <1>5, <2>1
<1>7. TopOK(n, P, ds[c - 1]) /\ ds[c - 1].does # "follow"
  BY <1>6, <1>d DEF TopOK
<1>8. Stacked(n, P, c - 1, ds) /\ Taking(c - 1, ds) = A \ {f}
  <2> HIDE DEF V
  <2>1. QED
    BY <1>1, <1>2, <1>7, <1>d, Retopped
<1>9. Taking(c - 1, ds) = A
  BY <1>3, <1>8
<1>10. QED
  BY <1>8, <1>9 DEF WorkInv

\* A call returns to that of an entry that takes followers, which takes this one.
LEMMA FollowerReturned ==
    ASSUME NEW n, NEW P, NEW L, NEW N, NEW c, NEW cs, WorkInv(n, P, L, N, c, cs),
           c > 1, cs[c].does = "settle", cs[c - 1].does = "follow",
           NEW Q, \A j \in 1 .. n : Q[j] = IF j = cs[c].id THEN cs[c - 1].id ELSE P[j],
           NEW ds, \A i \in 1 .. (c - 1) - 1 : ds[i] = cs[i],
           ds[c - 1] = Frame(cs[c - 1].id, "follow", cs[c].id)
    PROVE  WorkInv(n, Q, L, N, c - 1, ds)
<1> DEFINE A == Taking(c, cs)
           V == Holders(n, P, A)
           id == cs[c - 1].id
           last == cs[c - 1].menu
           k == cs[c].id
<1>1. /\ n \in Nat \ {0} /\ n \in Nat /\ Ordered(n, P) /\ Threaded(n, V, L, N) /\ Based(n, P, c, cs)
      /\ Alone(n, P, A)
  BY DEF WorkInv, Stacked
<1>2. /\ Based(n, P, c - 1, cs) /\ Calling(n, P, cs[c - 1], k) /\ id < k
      /\ k \in 1 .. n /\ id \in 1 .. n /\ Taking(c - 1, cs) = A /\ c - 1 \in Nat \ {0}
  <2>1. cs[c].does # "follow"
    OBVIOUS
  <2> HIDE DEF V
  <2>2. QED
    BY <1>1, <2>1, PoppedStack
<1>3. id \in A /\ \A a \in A : a \in 1 .. n /\ a <= id /\ a # k
  <2>1. \A a \in A : a \in 1 .. n /\ a <= id
    BY <1>1, <1>2, TakingFacts
  <2>2. id \in Taking(c - 1, cs)
    <3>3. c \in Nat
      BY <1>1 DEF Based
    <3>1. c - 1 \in 1 .. c - 1
      BY <1>2, <3>3
    <3>2. QED
      BY <3>1 DEF Taking
  <2>3. QED
    BY <1>2, <2>1, <2>2
<1>4. /\ Taken(n, P, id, last) /\ last < k /\ P[k] = P[id]
      /\ \A j \in 2 .. n : id < j /\ j < k => id <= P[j]
  BY <1>2 DEF Calling
<1>5. P[id] \notin A
  BY <1>1, <1>3 DEF Alone
<1>q. \A j \in 1 .. n : Q[j] = IF j = k THEN id ELSE P[j]
  OBVIOUS
<1>d. ds[c - 1].id = id /\ ds[c - 1].does = "follow" /\ ds[c - 1].menu = k
  BY DEF Frame
<1>i. \A i \in 1 .. (c - 1) - 1 : cs[i].id < id /\ (cs[i].does = "follow" => cs[i].id \in A)
  <2> TAKE i \in 1 .. (c - 1) - 1
  <2>1. i \in 1 .. c - 1 /\ c - 1 \in 1 .. c - 1 /\ i < c - 1
    BY <1>2
  <2>2. cs[i].id < id
    BY <1>2, <2>1 DEF Based
  <2>3. cs[i].does = "follow" => cs[i].id \in Taking(c - 1, cs)
    BY <2>1 DEF Taking
  <2>4. QED
    BY <1>2, <2>2, <2>3
<1> HIDE DEF A, V, id, last, k
<1>6. k \in 2 .. n
  BY <1>1, <1>2
<1>7. Ordered(n, Q)
  <2>1. Q[1] = 0
    <3>1. 1 \in 1 .. n /\ 1 # k
      BY <1>1, <1>6
    <3>2. QED
      BY <1>1, <1>q, <3>1 DEF Ordered
  <2>2. ASSUME NEW j \in 2 .. n
        PROVE  /\ Q[j] \in 1 .. n /\ Q[j] < j
               /\ \A i \in 2 .. n : Q[j] < i /\ i < j => Q[j] <= Q[i]
    <3>1. j \in 1 .. n /\ \A i \in 2 .. n : i \in 1 .. n
      BY <1>1
    <3>2. CASE j = k
      <4>1. Q[j] = id
        BY <1>q, <3>1, <3>2
      <4>2. ASSUME NEW i \in 2 .. n, id < i, i < k
            PROVE  id <= Q[i]
        BY <1>4, <1>6, <1>q, <3>1, <4>2
      <4>3. QED
        BY <1>2, <3>2, <4>1, <4>2
    <3>3. CASE j # k
      <4>1. Q[j] = P[j] /\ P[j] \in 1 .. n /\ P[j] < j
        BY <1>1, <1>q, <3>1, <3>3 DEF Ordered
      <4>2. ASSUME NEW i \in 2 .. n, P[j] < i, i < j
            PROVE  P[j] <= Q[i]
        <5>1. P[j] <= P[i]
          BY <1>1, <4>2 DEF Ordered
        <5>2. CASE i # k
          BY <1>q, <3>1, <5>1, <5>2
        <5>3. CASE i = k
          <6>1. P[j] <= P[id] /\ Q[i] = id
            BY <1>4, <1>q, <3>1, <5>1, <5>3
          <6>2. P[id] < id /\ P[id] \in 0 .. n
            BY <1>1, <1>2, ParentsNat
          <6>3. P[id] \in Int /\ id \in Int /\ P[j] \in Int
            BY <1>2, <4>1, <6>2
          <6>4. P[j] <= id
            BY <6>1, <6>2, <6>3
          <6>5. QED
            BY <6>1, <6>4
        <5>4. QED
          BY <5>2, <5>3
      <4>3. QED
        BY <4>1, <4>2
    <3>4. QED
      BY <3>2, <3>3
  <2>3. QED
    BY <2>1, <2>2 DEF Ordered
<1>8. Q[id] = P[id] /\ Q[k] = id /\ id # k
  BY <1>2, <1>q
<1>9. Holders(n, Q, A) = V
  <2>1. ASSUME NEW j \in 1 .. n
        PROVE  Holder(Q, A, j) = Holder(P, A, j)
    <3>1. CASE j = k
      BY <1>3, <1>4, <1>5, <1>8, <3>1 DEF Holder
    <3>2. CASE j # k
      <4>1. Q[j] = P[j]
        BY <1>q, <3>2
      <4>2. P[j] \in A => Q[P[j]] = P[P[j]]
        BY <1>3, <1>q
      <4>3. QED
        BY <4>1, <4>2 DEF Holder
    <3>3. QED
      BY <3>1, <3>2
  <2>2. QED
    BY <2>1 DEF Holders, V
<1>10. Alone(n, Q, A)
  <2>1. \A a \in A : Q[a] = P[a]
    BY <1>3, <1>q
  <2>2. QED
    BY <1>1, <2>1 DEF Alone
<1>11. Taken(n, Q, id, k)
  <2>1. last \in Int /\ k \in Int
    BY <1>4, <1>6 DEF Taken
  <2>2. ASSUME NEW j \in 2 .. n, Q[j] = id
        PROVE  j <= k
    <3>1. j \in 1 .. n
      OBVIOUS
    <3>2. CASE j = k
      BY <3>2, <2>1
    <3>3. CASE j # k
      <4>1. P[j] = id
        BY <1>q, <2>2, <3>1, <3>3
      <4>2. j <= last
        BY <1>4, <4>1 DEF Taken
      <4>3. QED
        BY <1>4, <2>1, <4>2
    <3>4. QED
      BY <3>2, <3>3
  <2>3. QED
    BY <1>6, <1>8, <2>2 DEF Taken
<1>12. Based(n, Q, c - 1, cs)
  <2>1. ASSUME NEW j \in 1 .. n, Q[j] # P[j]
        PROVE  /\ cs[c - 1].id < j
               /\ \A i \in 1 .. (c - 1) - 1 :
                    cs[i].does = "follow" => P[j] # cs[i].id /\ Q[j] # cs[i].id
    <3>1. j = k
      BY <1>q, <2>1
    <3>2. cs[c - 1].id < j
      BY <1>2, <3>1 DEF id
    <3>3. ASSUME NEW i \in 1 .. (c - 1) - 1, cs[i].does = "follow"
          PROVE  P[j] # cs[i].id /\ Q[j] # cs[i].id
      <4>1. cs[i].id < id /\ cs[i].id \in A
        BY <1>i, <3>3
      <4>2. cs[i].id # id
        BY <1>2, <1>3, <4>1
      <4>3. QED
        BY <1>4, <1>5, <1>8, <3>1, <4>1, <4>2
    <3>4. QED
      BY <3>2, <3>3
  <2>2. /\ n \in Nat /\ c - 1 \in Nat \ {0} /\ \A i \in 1 .. c - 1 : cs[i].id \in 1 .. n
        /\ \A i, j \in 1 .. c - 1 : i < j => cs[i].id < cs[j].id
        /\ \A i \in 1 .. (c - 1) - 1 : Calling(n, P, cs[i], cs[i + 1].id)
    BY <1>1, <1>2 DEF Based
  <2>3. \A i \in 1 .. (c - 1) - 1 : Calling(n, Q, cs[i], cs[i + 1].id)
    BY ONLY <2>1, <2>2, StackMoved
  <2>4. QED
    BY <1>2, <2>3 DEF Based
<1>13. TopOK(n, Q, ds[c - 1])
  BY <1>11, <1>d DEF TopOK
<1>14. Stacked(n, Q, c - 1, ds) /\ Taking(c - 1, ds) = A \union {id}
  <2>1. ds[c - 1].id = cs[c - 1].id
    BY <1>d DEF id
  <2>2. QED
    BY <1>1, <1>2, <1>12, <1>13, <1>d, <2>1, Retopped DEF id
<1>15. Taking(c - 1, ds) = A
  BY <1>3, <1>14
<1>16. QED
  BY <1>1, <1>7, <1>9, <1>10, <1>14, <1>15 DEF WorkInv, V

\* The last call returns.
LEMMA LastReturned ==
    ASSUME NEW n, NEW P, NEW L, NEW N, NEW c, NEW cs, WorkInv(n, P, L, N, c, cs),
           c = 1, cs[c].does = "settle"
    PROVE  Ordered(n, P) /\ Threaded(n, P, L, N)
<1>1. Taking(c, cs) = {}
  BY DEF Taking
<1>2. \A k \in 1 .. n : Holders(n, P, {})[k] = P[k]
  BY DEF Holders, Holder
<1>3. Ordered(n, P) /\ Threaded(n, Holders(n, P, {}), L, N) /\ n \in Nat
  BY <1>1 DEF WorkInv
<1>4. \A i \in 1 .. n : ListOf(n, Holders(n, P, {}), i) = ListOf(n, P, i)
  BY <1>2, <1>3 DEF ListOf
<1>5. \A q : \A i \in 1 .. n : After(n, Holders(n, P, {}), i, q) = After(n, P, i, q)
  BY <1>2, <1>3 DEF After
<1>6. QED
  BY <1>2, <1>3, <1>4, <1>5 DEF Threaded

-----------------------------------------------------------------------------
(* The blocks of the parser.  The fields that only hold expressions, names and texts *)
(* have no type here: a record is what has its fields. *)

IsSeq(s) == \E S : s \in Seq(S)
ParserRecord(q) ==
  q = [g |-> q.g, blocks |-> q.blocks, opts |-> q.opts, waiting |-> q.waiting, began |-> q.began,
       help |-> q.help]
TreeRecord(g) ==
  g = [menus |-> g.menus, props |-> g.props, entry |-> g.entry, menu |-> g.menu, last |-> g.last,
       type |-> g.type, rev |-> g.rev, optional |-> g.optional, choiceval |-> g.choiceval,
       members |-> g.members]
MenuRecord(m) ==
  m = [sym |-> m.sym, parent |-> m.parent, list |-> m.list, next |-> m.next, prompt |-> m.prompt,
       dep |-> m.dep, file |-> m.file]
IsMenus(ms) == IsSeq(ms) /\ \A i \in 1 .. Len(ms) : MenuRecord(ms[i])

LEMMA SeqFacts ==
    ASSUME NEW s, IsSeq(s)
    PROVE  Len(s) \in Nat /\ DOMAIN s = 1 .. Len(s)
<1>1. PICK S : s \in Seq(S)
  BY DEF IsSeq
<1>2. QED
  BY <1>1, LenProperties

LEMMA AppendFacts ==
    ASSUME NEW s, IsSeq(s), NEW e
    PROVE  /\ IsSeq(Append(s, e))
           /\ Len(Append(s, e)) = Len(s) + 1
           /\ \A i \in 1 .. Len(s) : Append(s, e)[i] = s[i]
           /\ Append(s, e)[Len(s) + 1] = e
<1>1. PICK S : s \in Seq(S)
  BY DEF IsSeq
<1> DEFINE T == S \union {e}
<1>2. s \in Seq(T) /\ e \in T
  BY <1>1, SeqMonotonic
<1> HIDE DEF T
<1>3. Append(s, e) \in Seq(T)
  BY <1>2
<1>4. QED
  BY <1>2, <1>3 DEF IsSeq

LEMMA FrontFacts ==
    ASSUME NEW s, IsSeq(s), s # << >>
    PROVE  /\ Len(s) >= 1
           /\ IsSeq(SubSeq(s, 1, Len(s) - 1))
           /\ Len(SubSeq(s, 1, Len(s) - 1)) = Len(s) - 1
           /\ \A i \in 1 .. Len(s) - 1 : SubSeq(s, 1, Len(s) - 1)[i] = s[i]
<1>1. PICK S : s \in Seq(S)
  BY DEF IsSeq
<1>2. Len(s) \in Nat /\ Len(s) >= 1
  BY <1>1, EmptySeq
<1>3. SubSeq(s, 1, Len(s) - 1) \in Seq(S)
  BY <1>1, <1>2
<1> DEFINE n == Len(s) - 1
<1>4. n \in Int /\ n >= 0 /\ \A i \in 1 .. n : s[i] \in S
  BY <1>1, <1>2
<1>5. /\ Len(SubSeq(s, 1, n)) = IF 1 <= n THEN n-1+1 ELSE 0
      /\ \A i \in 1 .. n-1+1 : SubSeq(s, 1, n)[i] = s[1+i-1]
  BY <1>4, SubSeqProperties
<1>6. Len(SubSeq(s, 1, n)) = n /\ \A i \in 1 .. n : SubSeq(s, 1, n)[i] = s[i]
  <2> DEFINE t == SubSeq(s, 1, n)
  <2>1. Len(t) = (IF 1 <= n THEN n-1+1 ELSE 0) /\ \A i \in 1 .. n-1+1 : t[i] = s[1+i-1]
    BY <1>5
  <2> HIDE DEF t, n
  <2>2. Len(t) = n
    BY <1>4, <2>1
  <2>3. ASSUME NEW i \in 1 .. n
        PROVE  t[i] = s[i]
    <3>1. i \in 1 .. n-1+1 /\ 1+i-1 = i
      BY <1>4
    <3>2. QED
      BY <2>1, <3>1
  <2>4. QED
    BY <2>2, <2>3 DEF t
<1>7. QED
  BY <1>2, <1>3, <1>6 DEF IsSeq, n

-----------------------------------------------------------------------------
(* The tree and the operations on it *)

Parents(g) == [i \in 1 .. Len(g.menus) |-> g.menus[i].parent]
Lists(g) == [i \in 1 .. Len(g.menus) |-> g.menus[i].list]
Nexts(g) == [i \in 1 .. Len(g.menus) |-> g.menus[i].next]

LastIs(g, k, id) ==
  \/ k = "list" /\ g.last = <<"list", id>> /\ g.menus[id].list = 0
  \/ k = "next" /\ g.last = <<"next", id>> /\ g.menus[id].next = 0
Tree(g) ==
  /\ TreeRecord(g) /\ IsMenus(g.menus)
  /\ g.menu \in 1 .. Len(g.menus) /\ g.entry \in 1 .. Len(g.menus)
  /\ \E k, id : id \in 1 .. Len(g.menus) /\ LastIs(g, k, id)

\* What an option of an entry does not change.
SameLinks(ms, ns) ==
  /\ IsMenus(ns) /\ Len(ns) = Len(ms)
  /\ \A i \in 1 .. Len(ms) :
       ns[i].parent = ms[i].parent /\ ns[i].list = ms[i].list /\ ns[i].next = ms[i].next
SameTree(g, h) ==
  /\ TreeRecord(h) /\ h.menu = g.menu /\ h.entry = g.entry /\ h.last = g.last
  /\ SameLinks(g.menus, h.menus)

\* What the statement of an entry does.
Grown(g, h) ==
  /\ TreeRecord(h) /\ IsMenus(h.menus)
  /\ Len(h.menus) = Len(g.menus) + 1 /\ h.entry = Len(g.menus) + 1
  /\ h.menu = g.menu /\ h.last = <<"next", h.entry>>
  /\ h.menus[h.entry].parent = g.menu /\ h.menus[h.entry].list = 0 /\ h.menus[h.entry].next = 0
  /\ \A i \in 1 .. Len(g.menus) :
       /\ h.menus[i].parent = g.menus[i].parent
       /\ h.menus[i].list = IF g.last = <<"list", i>> THEN h.entry ELSE g.menus[i].list
       /\ h.menus[i].next = IF g.last = <<"next", i>> THEN h.entry ELSE g.menus[i].next

LEMMA MenuReplaced ==
    ASSUME NEW ms, IsMenus(ms), NEW k \in 1 .. Len(ms), NEW n, MenuRecord(n)
    PROVE  /\ IsMenus([ms EXCEPT ![k] = n]) /\ Len([ms EXCEPT ![k] = n]) = Len(ms)
           /\ \A i \in 1 .. Len(ms) : [ms EXCEPT ![k] = n][i] = IF i = k THEN n ELSE ms[i]
<1>1. PICK S : ms \in Seq(S)
  BY DEF IsMenus, IsSeq
<1> DEFINE T == S \union {n}
           ns == [ms EXCEPT ![k] = n]
<1>2. ms \in Seq(T) /\ n \in T
  BY <1>1, SeqMonotonic
<1> HIDE DEF T
<1>3. /\ ns \in Seq(T) /\ Len(ns) = Len(ms)
      /\ \A i \in 1 .. Len(ms) : ns[i] = IF i = k THEN n ELSE ms[i]
  BY <1>2, ExceptSeq
<1> HIDE DEF ns
<1>4. IsMenus(ns)
  BY <1>3 DEF IsMenus, IsSeq
<1>5. QED
  BY <1>3, <1>4 DEF ns

LEMMA MenuEdited ==
    ASSUME NEW ms, IsMenus(ms), NEW k \in 1 .. Len(ms), NEW e
    PROVE  /\ SameLinks(ms, [ms EXCEPT ![k].dep = e])
           /\ SameLinks(ms, [ms EXCEPT ![k].prompt = e])
<1> DEFINE m == ms[k]
           dm == [m EXCEPT !.dep = e]
           pm == [m EXCEPT !.prompt = e]
<1>1. MenuRecord(m)
  BY DEF IsMenus
<1>2. dm = [sym |-> m.sym, parent |-> m.parent, list |-> m.list, next |-> m.next,
            prompt |-> m.prompt, dep |-> e, file |-> m.file]
  BY <1>1 DEF MenuRecord
<1>3. pm = [sym |-> m.sym, parent |-> m.parent, list |-> m.list, next |-> m.next,
            prompt |-> e, dep |-> m.dep, file |-> m.file]
  BY <1>1 DEF MenuRecord
<1> HIDE DEF m, dm, pm
<1>4. MenuRecord(dm) /\ dm.parent = m.parent /\ dm.list = m.list /\ dm.next = m.next
  BY <1>2 DEF MenuRecord
<1>5. MenuRecord(pm) /\ pm.parent = m.parent /\ pm.list = m.list /\ pm.next = m.next
  BY <1>3 DEF MenuRecord
<1> DEFINE ds == [ms EXCEPT ![k] = dm]
           ps == [ms EXCEPT ![k] = pm]
<1>6. /\ IsMenus(ds) /\ Len(ds) = Len(ms)
      /\ \A i \in 1 .. Len(ms) : ds[i] = IF i = k THEN dm ELSE ms[i]
  BY <1>4, MenuReplaced
<1>7. /\ IsMenus(ps) /\ Len(ps) = Len(ms)
      /\ \A i \in 1 .. Len(ms) : ps[i] = IF i = k THEN pm ELSE ms[i]
  BY <1>5, MenuReplaced
<1> HIDE DEF ds, ps
<1>8. SameLinks(ms, ds) /\ SameLinks(ms, ps)
  BY <1>4, <1>5, <1>6, <1>7 DEF SameLinks, m
<1>9. QED
  BY <1>8 DEF ds, ps, dm, pm, m

LEMMA SameSelf ==
    ASSUME NEW g, Tree(g)
    PROVE  SameTree(g, g)
BY DEF SameTree, SameLinks, Tree

LEMMA LinksSame ==
    ASSUME NEW g, NEW h, IsMenus(g.menus), SameLinks(g.menus, h.menus)
    PROVE  /\ Len(g.menus) \in Nat /\ Len(h.menus) = Len(g.menus)
           /\ Parents(h) = Parents(g) /\ Lists(h) = Lists(g) /\ Nexts(h) = Nexts(g)
BY SeqFacts DEF SameLinks, Parents, Lists, Nexts, IsMenus

LEMMA SameTrans ==
    ASSUME NEW g, NEW h, NEW k, SameTree(g, h), SameTree(h, k)
    PROVE  SameTree(g, k)
BY DEF SameTree, SameLinks

LEMMA SameIsTree ==
    ASSUME NEW g, NEW h, Tree(g), SameTree(g, h)
    PROVE  Tree(h)
<1>1. PICK k, id : id \in 1 .. Len(g.menus) /\ LastIs(g, k, id)
  BY DEF Tree
<1>2. LastIs(h, k, id)
  BY <1>1 DEF LastIs, SameTree, SameLinks
<1>3. QED
  BY <1>1, <1>2 DEF Tree, SameTree, SameLinks

LEMMA AddDepSame ==
    ASSUME NEW g, Tree(g), NEW e
    PROVE  SameTree(g, MenuAddDep(g, e))
<1> DEFINE ms == g.menus
           ns == [ms EXCEPT ![g.entry].dep = And(ms[g.entry].dep, e)]
<1>1. MenuAddDep(g, e) = [g EXCEPT !.menus = ns]
  BY DEF MenuAddDep
<1>2. SameLinks(ms, ns)
  BY MenuEdited DEF Tree
<1> HIDE DEF ns
<1>3. QED
  BY <1>1, <1>2 DEF SameTree, Tree, TreeRecord

LEMMA SetTypeSame ==
    ASSUME NEW g, Tree(g), NEW s, NEW type
    PROVE  SameTree(g, MenuSetType(g, s, type))
<1>1. SameLinks(g.menus, g.menus)
  BY SameSelf DEF SameTree
<1>2. QED
  BY <1>1, SameSelf DEF MenuSetType, SameTree, Tree, TreeRecord

LEMMA PropsSame ==
    ASSUME NEW g, Tree(g), NEW props
    PROVE  SameTree(g, [g EXCEPT !.props = props])
<1>1. SameLinks(g.menus, g.menus)
  BY SameSelf DEF SameTree
<1>2. QED
  BY <1>1 DEF SameTree, Tree, TreeRecord

LEMMA OptionalSame ==
    ASSUME NEW g, Tree(g), NEW s
    PROVE  SameTree(g, [g EXCEPT !.optional = s])
<1>1. SameLinks(g.menus, g.menus)
  BY SameSelf DEF SameTree
<1>2. QED
  BY <1>1 DEF SameTree, Tree, TreeRecord

LEMMA PromptSame ==
    ASSUME NEW g, Tree(g), NEW n
    PROVE  SameTree(g, [g EXCEPT !.menus[g.entry].prompt = n])
<1> DEFINE ms == g.menus
           ns == [ms EXCEPT ![g.entry].prompt = n]
<1>1. SameLinks(ms, ns)
  BY MenuEdited DEF Tree
<1>2. [g EXCEPT !.menus[g.entry].prompt = n] = [g EXCEPT !.menus = ns]
  BY DEF Tree, TreeRecord
<1> HIDE DEF ns
<1>3. SameTree(g, [g EXCEPT !.menus = ns])
  BY <1>1 DEF SameTree, Tree, TreeRecord
<1>4. QED
  BY <1>2, <1>3

LEMMA AddPropSame ==
    ASSUME NEW g, Tree(g), NEW kind, NEW e, NEW dep
    PROVE  SameTree(g, MenuAddProp(g, kind, e, dep))
<1> DEFINE props == Append(g.props, NewProp(kind, g.menus[g.entry].sym, g.entry, e, dep))
           added == [g EXCEPT !.props = props]
           prompted == [added EXCEPT !.menus[added.entry].prompt = Len(added.props)]
<1>1. SameTree(g, added)
  BY PropsSame
<1>2. Tree(added) /\ added.entry = g.entry
  BY <1>1, SameIsTree DEF SameTree
<1> HIDE DEF added
<1>3. SameTree(added, prompted)
  BY <1>2, PromptSame
<1>4. SameTree(g, prompted)
  BY <1>1, <1>3, SameTrans
<1>5. MenuAddProp(g, kind, e, dep) = IF kind \in {"prompt", "menu", "comment"} THEN prompted ELSE added
  BY <1>2 DEF MenuAddProp, added
<1>6. QED
  BY <1>1, <1>4, <1>5

-----------------------------------------------------------------------------
(* The pointers while the tree is built *)

\* The next entry goes to the end of the list of the current menu, and what stands
\* behind that menu is below it.
Shaped(g) ==
  LET n == Len(g.menus)
      P == Parents(g)
  IN /\ Ordered(n, P) /\ Threaded(n, P, Lists(g), Nexts(g))
     /\ \A j \in 2 .. n : j > g.menu => P[j] >= g.menu
     /\ \/ g.last = <<"list", g.menu>> /\ \A k \in 2 .. n : P[k] # g.menu
        \/ \E b \in 2 .. n : /\ g.last = <<"next", b>> /\ P[b] = g.menu
                              /\ \A k \in 2 .. n : P[k] = g.menu => k <= b

LEMMA ShapedSame ==
    ASSUME NEW g, NEW h, Tree(g), Shaped(g), SameTree(g, h)
    PROVE  Shaped(h)
<1>1. /\ Len(h.menus) = Len(g.menus)
      /\ Parents(h) = Parents(g) /\ Lists(h) = Lists(g) /\ Nexts(h) = Nexts(g)
  BY LinksSame DEF Tree, SameTree
<1>2. h.menu = g.menu /\ h.last = g.last
  BY DEF SameTree
<1>3. QED
  BY <1>1, <1>2 DEF Shaped

LEMMA ShapedGrown ==
    ASSUME NEW g, NEW h, Tree(g), Shaped(g), Grown(g, h)
    PROVE  Shaped(h)
<1> DEFINE n == Len(g.menus)
           q == g.menu
           V == Parents(g)
           W == Parents(h)
           L == Lists(g)
           N == Nexts(g)
           M == Lists(h)
           O == Nexts(h)
<1>1. n \in Nat /\ q \in 1 .. n /\ n >= 1
  BY SeqFacts DEF Tree, IsMenus
<1>2. Len(h.menus) = n + 1 /\ h.entry = n + 1 /\ h.menu = q /\ h.last = <<"next", n + 1>>
  BY DEF Grown
<1>3. \A k \in 1 .. n : k \in 1 .. n + 1
  BY <1>1
<1>4. \A k \in 1 .. n : /\ W[k] = V[k]
                        /\ M[k] = IF g.last = <<"list", k>> THEN n + 1 ELSE L[k]
                        /\ O[k] = IF g.last = <<"next", k>> THEN n + 1 ELSE N[k]
  BY <1>2, <1>3 DEF Grown, Parents, Lists, Nexts
<1>5. W[n + 1] = q /\ M[n + 1] = 0 /\ O[n + 1] = 0
  <2>1. n + 1 \in 1 .. Len(h.menus)
    BY <1>1, <1>2
  <2>2. QED
    BY <1>2, <2>1 DEF Grown, Parents, Lists, Nexts
<1>6. /\ Ordered(n, V) /\ Threaded(n, V, L, N)
      /\ \A j \in 2 .. n : j > q => V[j] >= q
      /\ \/ g.last = <<"list", q>> /\ \A k \in 2 .. n : V[k] # q
         \/ \E b \in 2 .. n : /\ g.last = <<"next", b>> /\ V[b] = q
                               /\ \A k \in 2 .. n : V[k] = q => k <= b
  BY DEF Shaped
<1> HIDE DEF n, q, V, W, L, N, M, O
<1>7. \A k \in 1 .. n : V[k] \in 0 .. n /\ V[k] < k
  BY <1>1, <1>6, ParentsNat
<1>8. Threaded(n + 1, W, M, O)
  <2>1. \/ /\ \A k \in 2 .. n : V[k] # q
           /\ \A i \in 1 .. n : M[i] = (IF i = q THEN n + 1 ELSE L[i]) /\ O[i] = N[i]
        \/ \E b \in 2 .. n :
             /\ V[b] = q /\ \A k \in 2 .. n : V[k] = q => k <= b
             /\ \A i \in 1 .. n : M[i] = L[i] /\ O[i] = IF i = b THEN n + 1 ELSE N[i]
    <3>1. CASE g.last = <<"list", q>> /\ \A k \in 2 .. n : V[k] # q
      <4>1. \A i \in 1 .. n : M[i] = (IF i = q THEN n + 1 ELSE L[i]) /\ O[i] = N[i]
        BY <1>4, <3>1
      <4>2. QED
        BY <3>1, <4>1
    <3>2. ASSUME NEW b \in 2 .. n, g.last = <<"next", b>>, V[b] = q,
                 \A k \in 2 .. n : V[k] = q => k <= b
          PROVE  \E a \in 2 .. n :
                    /\ V[a] = q /\ \A k \in 2 .. n : V[k] = q => k <= a
                    /\ \A i \in 1 .. n : M[i] = L[i] /\ O[i] = IF i = a THEN n + 1 ELSE N[i]
      <4>1. \A i \in 1 .. n : M[i] = L[i] /\ O[i] = IF i = b THEN n + 1 ELSE N[i]
        BY <1>4, <3>2
      <4>2. QED
        BY <3>2, <4>1
    <3>3. QED
      BY <1>6, <3>1, <3>2
  <2>2. \A k \in 1 .. n : V[k] \in 0 .. n
    BY <1>7
  <2>3. V[1] = 0
    BY <1>6 DEF Ordered
  <2>4. \A k \in 1 .. n : W[k] = V[k]
    BY <1>4
  <2>5. n \in Nat /\ q \in 1 .. n /\ Threaded(n, V, L, N)
    BY <1>1, <1>6
  <2>6. QED
    BY ONLY <1>5, <2>1, <2>2, <2>3, <2>4, <2>5, Appending
<1>9. Ordered(n + 1, W)
  <2>1. W[1] = 0
    BY <1>1, <1>4, <1>6 DEF Ordered
  <2>2. ASSUME NEW k \in 2 .. n + 1
        PROVE  /\ W[k] \in 1 .. n + 1 /\ W[k] < k
               /\ \A j \in 2 .. n + 1 : W[k] < j /\ j < k => W[k] <= W[j]
    <3>1. CASE k \in 2 .. n
      <4>1. W[k] = V[k] /\ V[k] \in 1 .. n /\ V[k] < k
        BY <1>1, <1>4, <1>6, <3>1 DEF Ordered
      <4>2. ASSUME NEW j \in 2 .. n + 1, V[k] < j, j < k
            PROVE  V[k] <= W[j]
        <5>1. j \in 2 .. n /\ j \in 1 .. n
          BY <1>1, <3>1, <4>2
        <5>2. QED
          BY <1>4, <1>6, <3>1, <4>2, <5>1 DEF Ordered
      <4>3. W[k] \in 1 .. n + 1
        BY <1>3, <4>1
      <4>4. QED
        BY <4>1, <4>2, <4>3
    <3>2. CASE k = n + 1
      <4>1. W[k] = q /\ q \in 1 .. n + 1 /\ q < k
        BY <1>1, <1>5, <3>2
      <4>2. ASSUME NEW j \in 2 .. n + 1, q < j, j < k
            PROVE  q <= W[j]
        <5>1. j \in 2 .. n /\ j \in 1 .. n
          BY <1>1, <3>2, <4>2
        <5>2. V[j] >= q /\ W[j] = V[j] /\ V[j] \in 0 .. n
          BY <1>4, <1>6, <1>7, <4>2, <5>1
        <5>3. QED
          BY <1>1, <5>2
      <4>3. QED
        BY <4>1, <4>2
    <3>3. QED
      BY <1>1, <3>1, <3>2
  <2>3. QED
    BY <2>1, <2>2 DEF Ordered
<1>10. ASSUME NEW j \in 2 .. n + 1, j > q
       PROVE  W[j] >= q
  <2>1. CASE j = n + 1
    BY <1>1, <1>5, <2>1
  <2>2. CASE j # n + 1
    <3>1. j \in 2 .. n /\ j \in 1 .. n
      BY <1>1, <2>2
    <3>2. QED
      BY <1>4, <1>6, <1>10, <3>1
  <2>3. QED
    BY <2>1, <2>2
<1>11. n + 1 \in 2 .. n + 1 /\ \A k \in 2 .. n + 1 : k <= n + 1
  BY <1>1
<1>12. QED
  BY <1>2, <1>5, <1>8, <1>9, <1>10, <1>11 DEF Shaped, W, M, O

LEMMA ShapedOpened ==
    ASSUME NEW g, NEW h, Tree(g), Shaped(g), h.menus = g.menus,
           g.entry = Len(g.menus), h.menu = g.entry, h.last = <<"list", g.entry>>
    PROVE  Shaped(h)
<1> DEFINE n == Len(g.menus)
           P == Parents(g)
<1>1. n \in Nat
  BY SeqFacts DEF Tree, IsMenus
<1>2. Parents(h) = P /\ Lists(h) = Lists(g) /\ Nexts(h) = Nexts(g) /\ Len(h.menus) = n
  BY DEF Parents, Lists, Nexts
<1>3. Ordered(n, P) /\ Threaded(n, P, Lists(g), Nexts(g))
  BY DEF Shaped
<1>4. h.menu = n /\ h.last = <<"list", n>>
  OBVIOUS
<1> HIDE DEF n, P
<1>5. \A k \in 2 .. n : P[k] # n
  BY <1>1, <1>3 DEF Ordered
<1>6. \A j \in 2 .. n : ~(j > n)
  BY <1>1
<1>7. QED
  BY <1>2, <1>3, <1>4, <1>5, <1>6 DEF Shaped

LEMMA ShapedEnded ==
    ASSUME NEW g, NEW h, Tree(g), Shaped(g), h.menus = g.menus,
           g.menus[g.menu].parent # 0, h.menu = g.menus[g.menu].parent, h.last = <<"next", g.menu>>
    PROVE  Shaped(h)
<1> DEFINE n == Len(g.menus)
           P == Parents(g)
           m == g.menu
<1>1. n \in Nat /\ m \in 1 .. n
  BY SeqFacts DEF Tree, IsMenus
<1>2. Parents(h) = P /\ Lists(h) = Lists(g) /\ Nexts(h) = Nexts(g) /\ Len(h.menus) = n
  BY DEF Parents, Lists, Nexts
<1>3. /\ Ordered(n, P) /\ Threaded(n, P, Lists(g), Nexts(g))
      /\ \A j \in 2 .. n : j > m => P[j] >= m
  BY DEF Shaped
<1>4. h.menu = P[m] /\ P[m] # 0 /\ h.last = <<"next", m>>
  BY <1>1 DEF Parents
<1> HIDE DEF n, P, m
<1>5. m \in 2 .. n
  <2>1. P[1] = 0
    BY <1>3 DEF Ordered
  <2>2. QED
    BY <1>1, <1>4, <2>1
<1>6. P[m] \in 1 .. n /\ P[m] < m
  BY <1>3, <1>5 DEF Ordered
<1>7. \A j \in 2 .. n : P[j] \in 1 .. n
  BY <1>3 DEF Ordered
<1>8. ASSUME NEW j \in 2 .. n, j > P[m]
      PROVE  P[j] >= P[m]
  <2>1. CASE j > m
    <3>1. P[j] >= m /\ P[j] \in Int /\ m \in Int /\ P[m] \in Int /\ P[m] < m
      BY <1>1, <1>3, <1>6, <1>7, <2>1
    <3>2. QED
      BY <3>1
  <2>2. CASE j = m
    BY <1>6, <2>2
  <2>3. CASE j < m
    BY <1>3, <1>5, <1>6, <1>7, <1>8, <2>3 DEF Ordered
  <2>4. QED
    BY <1>1, <2>1, <2>2, <2>3
<1>9. ASSUME NEW k \in 2 .. n, P[k] = P[m]
      PROVE  k <= m
  <2>1. SUFFICES ASSUME k > m PROVE FALSE
    BY <1>1
  <2>2. P[k] >= m
    BY <1>3, <2>1
  <2>3. P[m] \in Int /\ m \in Int /\ P[m] < m
    BY <1>1, <1>6
  <2>4. QED
    BY <1>9, <2>2, <2>3
<1>10. QED
  BY <1>2, <1>3, <1>4, <1>5, <1>8, <1>9 DEF Shaped

-----------------------------------------------------------------------------
(* The open blocks, from the outermost one *)

Outside(bs, i) == IF i = 1 THEN Root ELSE bs[i - 1].menu

\* The blocks are menus of their own, each below the one around it, and their next
\* slots are still empty and not where the next entry goes.
Nested(g, bs) ==
  /\ Tree(g) /\ Shaped(g) /\ IsSeq(bs) /\ g.menu = Outside(bs, Len(bs) + 1)
  /\ \A i \in 1 .. Len(bs) :
       /\ bs[i].menu \in 1 .. Len(g.menus)
       /\ g.menus[bs[i].menu].parent = Outside(bs, i)
       /\ g.menus[bs[i].menu].next = 0 /\ g.last # <<"next", bs[i].menu>>
  /\ \A i, j \in 1 .. Len(bs) : bs[i].menu = bs[j].menu => i = j

\* The current entry can become a block: it is the last one, and nothing follows it yet.
Pending(g, bs) ==
  /\ g.entry = Len(g.menus) /\ g.last = <<"next", g.entry>>
  /\ g.menus[g.entry].parent = g.menu
  /\ g.menus[g.entry].list = 0 /\ g.menus[g.entry].next = 0
  /\ \A i \in 1 .. Len(bs) : bs[i].menu # g.entry

LEMMA NestedSame ==
    ASSUME NEW g, NEW h, NEW bs, Nested(g, bs), SameTree(g, h)
    PROVE  Nested(h, bs) /\ (Pending(g, bs) => Pending(h, bs))
<1>1. Tree(h) /\ Shaped(h)
  BY SameIsTree, ShapedSame DEF Nested
<1>2. /\ g.entry \in 1 .. Len(g.menus) /\ Len(h.menus) = Len(g.menus)
      /\ h.menu = g.menu /\ h.entry = g.entry /\ h.last = g.last
      /\ \A i \in 1 .. Len(g.menus) : /\ h.menus[i].parent = g.menus[i].parent
                                      /\ h.menus[i].list = g.menus[i].list
                                      /\ h.menus[i].next = g.menus[i].next
  BY DEF Nested, SameTree, SameLinks, Tree
<1>3. Nested(h, bs)
  BY <1>1, <1>2 DEF Nested
<1>4. Pending(g, bs) => Pending(h, bs)
  BY <1>2 DEF Pending
<1>5. QED
  BY <1>3, <1>4

LEMMA GrownSame ==
    ASSUME NEW g, NEW h, NEW k, Tree(g), Tree(h), Grown(g, h), SameTree(h, k)
    PROVE  Grown(g, k)
<1>1. Len(g.menus) \in Nat
  BY SeqFacts DEF Tree, IsMenus
<1>2. h.menu = k.menu /\ h.entry = k.entry /\ h.last = k.last /\ Len(h.menus) = Len(k.menus)
  BY DEF SameTree, SameLinks
<1>3. \A i \in 1 .. Len(h.menus) : /\ h.menus[i].parent = k.menus[i].parent
                                   /\ h.menus[i].list = k.menus[i].list
                                   /\ h.menus[i].next = k.menus[i].next
  BY DEF SameTree, SameLinks
<1>4. /\ h.menus[h.entry].parent = k.menus[h.entry].parent
      /\ h.menus[h.entry].list = k.menus[h.entry].list
      /\ h.menus[h.entry].next = k.menus[h.entry].next
  BY <1>3 DEF Tree
<1>5. \A i \in 1 .. Len(g.menus) : i \in 1 .. Len(h.menus)
  BY <1>1 DEF Grown
<1>6. TreeRecord(k) /\ IsMenus(k.menus)
  BY DEF SameTree, SameLinks
<1>7. \A i \in 1 .. Len(g.menus) :
        /\ k.menus[i].parent = g.menus[i].parent
        /\ k.menus[i].list = IF g.last = <<"list", i>> THEN k.entry ELSE g.menus[i].list
        /\ k.menus[i].next = IF g.last = <<"next", i>> THEN k.entry ELSE g.menus[i].next
  BY <1>2, <1>3, <1>5 DEF Grown
<1>8. QED
  BY <1>2, <1>4, <1>6, <1>7 DEF Grown

LEMMA NestedGrown ==
    ASSUME NEW g, NEW h, NEW bs, Nested(g, bs), Grown(g, h)
    PROVE  Nested(h, bs) /\ Pending(h, bs)
<1>1. Len(g.menus) \in Nat /\ g.menu \in 1 .. Len(g.menus)
  BY SeqFacts DEF Nested, Tree, IsMenus
<1>2. /\ Len(h.menus) = Len(g.menus) + 1 /\ h.entry = Len(g.menus) + 1
      /\ h.menu = g.menu /\ h.last = <<"next", h.entry>>
      /\ h.menus[h.entry].parent = g.menu
      /\ h.menus[h.entry].list = 0 /\ h.menus[h.entry].next = 0
  BY DEF Grown
<1>3. LastIs(h, "next", h.entry)
  BY <1>2 DEF LastIs
<1>4. Tree(h) /\ Shaped(h)
  <2>1. Tree(h)
    BY <1>1, <1>2, <1>3 DEF Tree, Grown
  <2>2. Tree(g) /\ Shaped(g)
    BY DEF Nested
  <2>3. QED
    BY <2>1, <2>2, ShapedGrown
<1>5. ASSUME NEW i \in 1 .. Len(bs)
      PROVE  /\ bs[i].menu \in 1 .. Len(h.menus) /\ bs[i].menu # h.entry
             /\ h.menus[bs[i].menu].parent = Outside(bs, i)
             /\ h.menus[bs[i].menu].next = 0 /\ h.last # <<"next", bs[i].menu>>
  <2> DEFINE m == bs[i].menu
  <2>1. /\ m \in 1 .. Len(g.menus) /\ g.menus[m].parent = Outside(bs, i)
        /\ g.menus[m].next = 0 /\ g.last # <<"next", m>>
    BY DEF Nested
  <2> HIDE DEF m
  <2>3. h.menus[m].parent = g.menus[m].parent /\ h.menus[m].next = g.menus[m].next
    BY <2>1 DEF Grown
  <2>4. m \in 1 .. Len(h.menus) /\ m # h.entry
    BY <1>1, <1>2, <2>1
  <2>5. h.last # <<"next", m>>
    BY <1>2, <2>4
  <2>6. QED
    BY <2>1, <2>3, <2>4, <2>5 DEF m
<1>6. Nested(h, bs)
  BY <1>2, <1>4, <1>5 DEF Nested
<1>7. Pending(h, bs)
  BY <1>2, <1>5 DEF Pending
<1>8. QED
  BY <1>6, <1>7

\* The list of the entry's options ends: the entry becomes a block.
LEMMA NestedOpened ==
    ASSUME NEW g, NEW bs, Nested(g, bs), Pending(g, bs), NEW b, b.menu = g.entry
    PROVE  Nested(MenuAddMenu(g), Append(bs, b))
<1> DEFINE h == MenuAddMenu(g)
           cs == Append(bs, b)
           n == Len(bs)
<1>1. n \in Nat /\ IsSeq(bs) /\ Tree(g) /\ g.entry \in 1 .. Len(g.menus)
  BY SeqFacts DEF Nested, Tree
<1>2. /\ TreeRecord(h) /\ h.menus = g.menus /\ h.entry = g.entry /\ h.menu = g.entry
      /\ h.last = <<"list", g.entry>>
  <2>1. TreeRecord(g) /\ h = [g EXCEPT !.last = <<"list", g.entry>>, !.menu = g.entry]
    BY <1>1 DEF MenuAddMenu, Tree
  <2> HIDE DEF h
  <2>2. QED
    BY <2>1 DEF TreeRecord
<1>3. IsSeq(cs) /\ Len(cs) = n + 1 /\ (\A i \in 1 .. n : cs[i] = bs[i]) /\ cs[n + 1] = b
  BY <1>1, AppendFacts
<1> HIDE DEF h, cs, n
<1>4. LastIs(h, "list", h.entry)
  BY <1>2 DEF LastIs, Pending
<1>5. Tree(h) /\ Shaped(h)
  BY <1>1, <1>2, <1>4, ShapedOpened DEF Tree, Nested, Pending
<1>6. h.menu = Outside(cs, Len(cs) + 1)
  BY <1>1, <1>2, <1>3 DEF Outside
<1>7. \A i \in 1 .. n + 1 : Outside(cs, i) = Outside(bs, i)
  BY <1>1, <1>3 DEF Outside
<1>8. ASSUME NEW i \in 1 .. Len(cs)
      PROVE  /\ cs[i].menu \in 1 .. Len(h.menus)
             /\ h.menus[cs[i].menu].parent = Outside(cs, i)
             /\ h.menus[cs[i].menu].next = 0 /\ h.last # <<"next", cs[i].menu>>
  <2>1. i \in 1 .. n \/ i = n + 1
    BY <1>1, <1>3
  <2>2. h.last # <<"next", cs[i].menu>>
    BY <1>2
  <2>3. CASE i \in 1 .. n
    BY <1>1, <1>2, <1>3, <1>7, <2>2, <2>3 DEF Nested, n
  <2>4. CASE i = n + 1
    <3>1. cs[i].menu = g.entry /\ Outside(cs, i) = g.menu
      BY <1>1, <1>3, <1>7, <2>4 DEF Nested, n
    <3>2. QED
      BY <1>1, <1>2, <2>2, <3>1 DEF Pending
  <2>5. QED
    BY <2>1, <2>3, <2>4
<1>9. ASSUME NEW i \in 1 .. Len(cs), NEW j \in 1 .. Len(cs), cs[i].menu = cs[j].menu
      PROVE  i = j
  <2>1. (i \in 1 .. n \/ i = n + 1) /\ (j \in 1 .. n \/ j = n + 1)
    BY <1>1, <1>3
  <2>2. \A k \in 1 .. n : cs[k].menu # g.entry
    BY <1>3 DEF Pending, n
  <2>3. QED
    BY <1>3, <1>9, <2>1, <2>2 DEF Nested, n
<1>10. QED
  BY <1>3, <1>5, <1>6, <1>8, <1>9 DEF Nested, h, cs

\* The innermost block ends.
LEMMA NestedEnded ==
    ASSUME NEW g, NEW bs, Nested(g, bs), bs # << >>
    PROVE  Nested(MenuEndMenu(g), SubSeq(bs, 1, Len(bs) - 1))
<1> DEFINE h == MenuEndMenu(g)
           cs == SubSeq(bs, 1, Len(bs) - 1)
           n == Len(bs)
<1>1. n \in Nat /\ IsSeq(bs) /\ Tree(g) /\ g.menu \in 1 .. Len(g.menus)
  BY SeqFacts DEF Nested, Tree
<1>2. /\ TreeRecord(h) /\ h.menus = g.menus /\ h.entry = g.entry
      /\ h.menu = g.menus[g.menu].parent /\ h.last = <<"next", g.menu>>
  <2>1. TreeRecord(g) /\ h = [g EXCEPT !.last = <<"next", g.menu>>, !.menu = g.menus[g.menu].parent]
    BY <1>1 DEF MenuEndMenu, Tree
  <2> HIDE DEF h
  <2>2. QED
    BY <2>1 DEF TreeRecord
<1>3. n >= 1 /\ IsSeq(cs) /\ Len(cs) = n - 1 /\ \A i \in 1 .. n - 1 : cs[i] = bs[i]
  BY <1>1, FrontFacts
<1> HIDE DEF h, cs, n
<1>4. g.menu = bs[n].menu /\ n \in 1 .. n
  BY <1>1, <1>3 DEF Nested, Outside, n
<1>5. g.menus[g.menu].next = 0 /\ g.menus[g.menu].parent = Outside(bs, n)
  BY <1>4 DEF Nested, n
<1>6. \A i \in 1 .. n : Outside(cs, i) = Outside(bs, i)
  BY <1>1, <1>3 DEF Outside
<1>7. h.menu = Outside(cs, Len(cs) + 1)
  BY <1>1, <1>2, <1>3, <1>4, <1>5, <1>6
<1>8. LastIs(h, "next", g.menu)
  BY <1>2, <1>5 DEF LastIs
<1>9. Outside(bs, n) \in 1 .. Len(g.menus)
  <2>1. 1 \in 1 .. Len(g.menus)
    BY <1>1, SeqFacts DEF Tree, IsMenus
  <2>2. CASE n = 1
    BY <2>1, <2>2 DEF Outside, Root
  <2>3. CASE n # 1
    BY <1>1, <1>3, <2>3 DEF Outside, Nested, n
  <2>4. QED
    BY <2>2, <2>3
<1>10. Tree(h) /\ Shaped(h)
  <2>1. g.menus[g.menu].parent # 0
    BY <1>1, <1>5, <1>9
  <2>2. Shaped(h)
    BY <1>1, <1>2, <2>1, ShapedEnded DEF Nested
  <2>3. QED
    BY <1>1, <1>2, <1>5, <1>8, <1>9, <2>2 DEF Tree
<1>11. ASSUME NEW i \in 1 .. Len(cs)
       PROVE  /\ cs[i].menu \in 1 .. Len(h.menus)
              /\ h.menus[cs[i].menu].parent = Outside(cs, i)
              /\ h.menus[cs[i].menu].next = 0 /\ h.last # <<"next", cs[i].menu>>
  <2>1. i \in 1 .. n /\ i # n /\ cs[i] = bs[i]
    BY <1>1, <1>3
  <2>2. bs[i].menu # bs[n].menu
    BY <1>4, <2>1 DEF Nested, n
  <2>3. h.last # <<"next", bs[i].menu>>
    BY <1>2, <1>4, <2>2
  <2>4. QED
    BY <1>2, <1>6, <2>1, <2>3 DEF Nested, n
<1>12. ASSUME NEW i \in 1 .. Len(cs), NEW j \in 1 .. Len(cs), cs[i].menu = cs[j].menu
       PROVE  i = j
  <2>1. i \in 1 .. n /\ cs[i] = bs[i] /\ j \in 1 .. n /\ cs[j] = bs[j]
    BY <1>1, <1>3
  <2>2. QED
    BY <1>12, <2>1 DEF Nested, n
<1>13. QED
  BY <1>3, <1>7, <1>10, <1>11, <1>12 DEF Nested, h, cs, n

-----------------------------------------------------------------------------
(* The statements of entries *)

\* What filling the slot <<kind, k>> does to the menus.
Linked(ms, ns, kind, k, id) ==
  /\ IsMenus(ns) /\ Len(ns) = Len(ms)
  /\ \A i \in 1 .. Len(ms) :
       /\ ns[i].parent = ms[i].parent
       /\ ns[i].list = IF kind = "list" /\ i = k THEN id ELSE ms[i].list
       /\ ns[i].next = IF kind = "next" /\ i = k THEN id ELSE ms[i].next

LEMMA LinkFacts ==
    ASSUME NEW ms, IsMenus(ms), NEW k \in 1 .. Len(ms), NEW id
    PROVE  /\ Linked(ms, Link(ms, <<"list", k>>, id), "list", k, id)
           /\ Linked(ms, Link(ms, <<"next", k>>, id), "next", k, id)
<1> DEFINE m == ms[k]
           lm == [m EXCEPT !.list = id]
           nm == [m EXCEPT !.next = id]
<1>1. MenuRecord(m)
  BY DEF IsMenus
<1>2. lm = [sym |-> m.sym, parent |-> m.parent, list |-> id, next |-> m.next,
            prompt |-> m.prompt, dep |-> m.dep, file |-> m.file]
  BY <1>1 DEF MenuRecord
<1>3. nm = [sym |-> m.sym, parent |-> m.parent, list |-> m.list, next |-> id,
            prompt |-> m.prompt, dep |-> m.dep, file |-> m.file]
  BY <1>1 DEF MenuRecord
<1> HIDE DEF m, lm, nm
<1>4. MenuRecord(lm) /\ lm.parent = m.parent /\ lm.list = id /\ lm.next = m.next
  BY <1>2 DEF MenuRecord
<1>5. MenuRecord(nm) /\ nm.parent = m.parent /\ nm.list = m.list /\ nm.next = id
  BY <1>3 DEF MenuRecord
<1> DEFINE ls == [ms EXCEPT ![k] = lm]
           ns == [ms EXCEPT ![k] = nm]
<1>6. /\ IsMenus(ls) /\ Len(ls) = Len(ms)
      /\ \A i \in 1 .. Len(ms) : ls[i] = IF i = k THEN lm ELSE ms[i]
  BY <1>4, MenuReplaced
<1>7. /\ IsMenus(ns) /\ Len(ns) = Len(ms)
      /\ \A i \in 1 .. Len(ms) : ns[i] = IF i = k THEN nm ELSE ms[i]
  BY <1>5, MenuReplaced
<1> HIDE DEF ls, ns
<1>8. Linked(ms, ls, "list", k, id) /\ Linked(ms, ns, "next", k, id)
  BY <1>4, <1>5, <1>6, <1>7 DEF Linked, m
<1>9. Link(ms, <<"list", k>>, id) = ls /\ Link(ms, <<"next", k>>, id) = ns
  BY DEF Link, ls, ns, lm, nm, m
<1>10. QED
  BY <1>8, <1>9

LEMMA AddEntryGrown ==
    ASSUME NEW g, Tree(g), NEW s, NEW file
    PROVE  Grown(g, MenuAddEntry(g, s, file))
<1> DEFINE n == Len(g.menus)
           ls == Link(g.menus, g.last, n + 1)
           new == NewMenu(s, g.menu, file)
           ns == Append(ls, new)
           h == MenuAddEntry(g, s, file)
<1>1. n \in Nat /\ IsMenus(g.menus) /\ TreeRecord(g)
  BY SeqFacts DEF Tree, IsMenus
<1>2. PICK kind, k : k \in 1 .. n /\ LastIs(g, kind, k)
  BY DEF Tree
<1>3. g.last = <<kind, k>> /\ kind \in {"list", "next"}
  BY <1>2 DEF LastIs
<1>4. Linked(g.menus, ls, kind, k, n + 1)
  BY <1>1, <1>2, <1>3, LinkFacts
<1>5. /\ new.parent = g.menu /\ new.list = 0 /\ new.next = 0 /\ MenuRecord(new)
  BY DEF NewMenu, MenuRecord
<1> HIDE DEF ls, new
<1>6. IsSeq(ls) /\ Len(ls) = n
  BY <1>4 DEF Linked, IsMenus
<1>7. IsSeq(ns) /\ Len(ns) = n + 1 /\ (\A i \in 1 .. n : ns[i] = ls[i]) /\ ns[n + 1] = new
  BY <1>6, AppendFacts
<1>8. h = [g EXCEPT !.menus = ns, !.last = <<"next", n + 1>>, !.entry = n + 1]
  BY DEF MenuAddEntry, ls, new
<1> HIDE DEF ns, n, h
<1>9. /\ TreeRecord(h) /\ h.menus = ns /\ h.last = <<"next", n + 1>> /\ h.entry = n + 1
      /\ h.menu = g.menu
  BY <1>1, <1>8 DEF TreeRecord
<1>10. IsMenus(ns)
  <2>1. ASSUME NEW i \in 1 .. Len(ns)
        PROVE  MenuRecord(ns[i])
    <3>1. i \in 1 .. n \/ i = n + 1
      BY <1>1, <1>7
    <3>2. CASE i \in 1 .. n
      BY <1>4, <1>6, <1>7, <3>2 DEF Linked, IsMenus
    <3>3. QED
      BY <1>5, <1>7, <3>1, <3>2
  <2>2. QED
    BY <1>7, <2>1 DEF IsMenus
<1>11. \A i \in 1 .. n :
         /\ ns[i].parent = g.menus[i].parent
         /\ ns[i].list = IF g.last = <<"list", i>> THEN n + 1 ELSE g.menus[i].list
         /\ ns[i].next = IF g.last = <<"next", i>> THEN n + 1 ELSE g.menus[i].next
  <2>1. \A i \in 1 .. n : /\ (g.last = <<"list", i>>) <=> (kind = "list" /\ i = k)
                          /\ (g.last = <<"next", i>>) <=> (kind = "next" /\ i = k)
    BY <1>3
  <2>2. QED
    BY <1>4, <1>7, <2>1 DEF Linked, n
<1>12. Grown(g, h)
  BY <1>5, <1>7, <1>9, <1>10, <1>11 DEF Grown, n
<1>13. QED
  BY <1>12 DEF h

LEMMA GrownIsTree ==
    ASSUME NEW g, NEW h, Tree(g), Grown(g, h)
    PROVE  Tree(h)
<1>1. Len(g.menus) \in Nat /\ g.menu \in 1 .. Len(g.menus)
  BY SeqFacts DEF Tree, IsMenus
<1>2. h.entry \in 1 .. Len(h.menus) /\ h.menu \in 1 .. Len(h.menus)
  BY <1>1 DEF Grown
<1>3. LastIs(h, "next", h.entry)
  BY DEF LastIs, Grown
<1>4. QED
  BY <1>2, <1>3 DEF Tree, Grown

LEMMA StatementsGrown ==
    ASSUME NEW g, Tree(g), NEW s, NEW file
    PROVE  /\ Grown(g, AddConfig(g, s, file)) /\ Grown(g, AddChoice(g, s, file))
           /\ Grown(g, AddMenu(g, file)) /\ Grown(g, AddComment(g, file))
<1>1. Grown(g, AddConfig(g, s, file))
  <2> DEFINE k == [g EXCEPT !.optional = @ \union {s}]
  <2>1. SameTree(g, k) /\ Tree(k)
    BY OptionalSame, SameIsTree
  <2> HIDE DEF k
  <2>2. Grown(k, MenuAddEntry(k, s, file))
    BY <2>1, AddEntryGrown
  <2>3. /\ Len(k.menus) = Len(g.menus) /\ k.menu = g.menu /\ k.last = g.last
        /\ \A i \in 1 .. Len(g.menus) : /\ k.menus[i].parent = g.menus[i].parent
                                        /\ k.menus[i].list = g.menus[i].list
                                        /\ k.menus[i].next = g.menus[i].next
    BY <2>1 DEF SameTree, SameLinks
  <2>4. Grown(g, MenuAddEntry(k, s, file))
    BY <2>2, <2>3 DEF Grown
  <2>5. QED
    BY <2>4 DEF AddConfig, k
<1>2. ASSUME NEW sym, NEW kind
      PROVE  Grown(g, MenuAddProp(MenuAddEntry(g, sym, file), kind, Null, Null))
  <2> DEFINE h == MenuAddEntry(g, sym, file)
  <2>1. Grown(g, h) /\ Tree(h)
    BY AddEntryGrown, GrownIsTree
  <2> HIDE DEF h
  <2>2. SameTree(h, MenuAddProp(h, kind, Null, Null))
    BY <2>1, AddPropSame
  <2>3. QED
    BY <2>1, <2>2, GrownSame DEF h
<1>3. QED
  BY <1>1, <1>2 DEF AddChoice, AddMenu, AddComment

-----------------------------------------------------------------------------
(* The parser *)

ParserInv(q) ==
  /\ ParserRecord(q) /\ Nested(q.g, q.blocks)
  /\ q.opts \in {"menu", "choice"} => Pending(q.g, q.blocks)
  /\ q.waiting # Null => q.opts = "none"

LEMMA InvAgrees ==
    ASSUME NEW q, ParserInv(q)
    PROVE  BlocksChain(q) /\ SlotFree(q.g)
<1>1. Nested(q.g, q.blocks) /\ Len(q.blocks) \in Nat /\ DOMAIN q.blocks = 1 .. Len(q.blocks)
  BY SeqFacts DEF ParserInv, Nested
<1>2. BlocksChain(q)
  BY <1>1 DEF BlocksChain, Nested, Outside
<1>3. PICK k, id : id \in 1 .. Len(q.g.menus) /\ LastIs(q.g, k, id)
  BY <1>1 DEF Nested, Tree
<1>4. SlotFree(q.g)
  <2>1. CASE q.g.last = <<"list", id>> /\ q.g.menus[id].list = 0
    BY <2>1 DEF SlotFree
  <2>2. CASE q.g.last = <<"next", id>> /\ q.g.menus[id].next = 0
    BY <2>2 DEF SlotFree
  <2>3. QED
    BY <1>3, <2>1, <2>2 DEF LastIs
<1>5. QED
  BY <1>2, <1>4

\* An option, or the end of one, only edits the entry.
LEMMA InvSame ==
    ASSUME NEW q, ParserInv(q), NEW g, SameTree(q.g, g),
           NEW r, ParserRecord(r), r.g = g, r.blocks = q.blocks,
           r.opts = q.opts \/ r.opts = "none", r.waiting = q.waiting
    PROVE  ParserInv(r)
<1>1. Nested(g, q.blocks) /\ (Pending(q.g, q.blocks) => Pending(g, q.blocks))
  BY NestedSame DEF ParserInv
<1>2. QED
  BY <1>1 DEF ParserInv

LEMMA OpenedInv ==
    ASSUME NEW q, ParserInv(q)
    PROVE  /\ ParserInv(Opened(q)) /\ Opened(q).opts = "none"
           /\ Opened(q).waiting = q.waiting
<1> DEFINE r == Opened(q)
<1>1. CASE q.opts \in {"menu", "choice"}
  <2> DEFINE g == MenuAddMenu(q.g)
             b == [k |-> q.opts, menu |-> q.g.entry, began |-> q.began]
             bs == Append(q.blocks, b)
  <2>1. r = [q EXCEPT !.g = g, !.opts = "none", !.blocks = bs]
    BY <1>1 DEF Opened
  <2>2. Nested(g, bs)
    BY <1>1, NestedOpened DEF ParserInv
  <2> HIDE DEF g, bs, r
  <2>3. /\ ParserRecord(r) /\ r.g = g /\ r.opts = "none" /\ r.blocks = bs
        /\ r.waiting = q.waiting
    BY <2>1 DEF ParserInv, ParserRecord
  <2>4. ParserInv(r) /\ r.opts = "none" /\ r.waiting = q.waiting
    BY <2>2, <2>3 DEF ParserInv
  <2>5. QED
    BY <2>4 DEF r
<1>2. CASE q.opts = "menuconfig" /\ q.g.menus[q.g.entry].prompt # 0
  <2> DEFINE props == [q.g.props EXCEPT ![q.g.menus[q.g.entry].prompt].kind = "menu"]
             g == [q.g EXCEPT !.props = props]
  <2>1. r = [q EXCEPT !.opts = "none", !.g = g]
    BY <1>2 DEF Opened, ParserInv, ParserRecord, Nested, Tree, TreeRecord
  <2> HIDE DEF props
  <2>2. SameTree(q.g, g)
    BY PropsSame DEF ParserInv, Nested
  <2> HIDE DEF g, r
  <2>3. /\ ParserRecord(r) /\ r.g = g /\ r.opts = "none" /\ r.blocks = q.blocks
        /\ r.waiting = q.waiting
    BY <2>1 DEF ParserInv, ParserRecord
  <2>4. ParserInv(r) /\ r.opts = "none" /\ r.waiting = q.waiting
    BY <2>2, <2>3, InvSame
  <2>5. QED
    BY <2>4 DEF r
<1>3. CASE ~(q.opts \in {"menu", "choice"})
           /\ ~(q.opts = "menuconfig" /\ q.g.menus[q.g.entry].prompt # 0)
  <2>1. r = [q EXCEPT !.opts = "none"]
    BY <1>3 DEF Opened
  <2>2. SameTree(q.g, q.g)
    BY SameSelf DEF ParserInv, Nested
  <2> HIDE DEF r
  <2>3. /\ ParserRecord(r) /\ r.g = q.g /\ r.opts = "none" /\ r.blocks = q.blocks
        /\ r.waiting = q.waiting
    BY <2>1 DEF ParserInv, ParserRecord
  <2>4. ParserInv(r) /\ r.opts = "none" /\ r.waiting = q.waiting
    BY <2>2, <2>3, InvSame
  <2>5. QED
    BY <2>4 DEF r
<1>4. QED
  BY <1>1, <1>2, <1>3

\* A statement that opens an entry.
LEMMA EntryInv ==
    ASSUME ParserInv(p), NEW g, Grown(Opened(p).g, g), NEW opts, Entry(g, opts)
    PROVE  ParserInv(p')
<1> DEFINE r == Opened(p)
<1>1. ParserInv(r) /\ r.waiting = Null
  BY OpenedInv DEF Entry, Reducing
<1>2. p' = [r EXCEPT !.g = g, !.opts = opts, !.began = at.file]
  BY DEF Entry
<1>3. Grown(r.g, g)
  OBVIOUS
<1> HIDE DEF r
<1>4. Nested(g, r.blocks) /\ Pending(g, r.blocks)
  BY <1>1, <1>3, NestedGrown DEF ParserInv
<1>5. /\ ParserRecord(p') /\ p'.g = g /\ p'.blocks = r.blocks /\ p'.waiting = r.waiting
  BY <1>1, <1>2 DEF ParserInv, ParserRecord
<1>6. QED
  BY <1>1, <1>4, <1>5 DEF ParserInv

LEMMA EntriesInv ==
    ASSUME ParserInv(p), EntryNext
    PROVE  ParserInv(p')
<1> DEFINE r == Opened(p)
<1>1. ParserInv(r) /\ Tree(r.g) /\ r.opts = "none" /\ r.waiting = p.waiting
  BY OpenedInv DEF ParserInv, Nested
<1>2. ASSUME NEW s, NEW keyword, ConfigEntry(s, keyword)
      PROVE  ParserInv(p')
  BY <1>1, <1>2, StatementsGrown, EntryInv DEF ConfigEntry
<1>3. ASSUME NEW c, ChoiceEntry(c)
      PROVE  ParserInv(p')
  BY <1>1, <1>3, StatementsGrown, EntryInv DEF ChoiceEntry
<1>4. CASE MenuEntry
  BY <1>1, <1>4, StatementsGrown, EntryInv DEF MenuEntry
<1>5. CASE CommentEntry
  BY <1>1, <1>5, StatementsGrown, EntryInv DEF CommentEntry
<1>6. CASE NoEntry
  BY <1>1, <1>6 DEF NoEntry
<1>7. ASSUME NEW e, IfEntry(e)
      PROVE  ParserInv(p')
  <2>1. p' = [r EXCEPT !.waiting = e, !.began = at.file]
    BY <1>7 DEF IfEntry
  <2> HIDE DEF r
  <2>2. /\ ParserRecord(p') /\ p'.g = r.g /\ p'.blocks = r.blocks /\ p'.opts = r.opts
    BY <1>1, <2>1 DEF ParserInv, ParserRecord
  <2>3. QED
    BY <1>1, <2>2 DEF ParserInv
<1>8. ASSUME NEW e, ReduceIf(e)
      PROVE  ParserInv(p')
  <2> DEFINE h == MenuAddEntry(p.g, NoSym, Current)
             k == MenuAddDep(h, e)
             g == MenuAddMenu(k)
             b == [k |-> "if", menu |-> g.entry, began |-> p.began]
             bs == Append(p.blocks, b)
  <2>1. p' = [p EXCEPT !.g = g, !.waiting = Null, !.blocks = bs]
    BY <1>8 DEF ReduceIf, AddIf
  <2>2. p.opts = "none" /\ Nested(p.g, p.blocks) /\ Tree(p.g) /\ ParserRecord(p)
    BY <1>8 DEF ReduceIf, ParserInv, Nested
  <2>3. Grown(p.g, h) /\ Tree(h)
    BY <2>2, AddEntryGrown, GrownIsTree
  <2>4. Nested(h, p.blocks) /\ Pending(h, p.blocks)
    BY <2>2, <2>3, NestedGrown
  <2>5. SameTree(h, k)
    BY <2>3, AddDepSame
  <2>6. Nested(k, p.blocks) /\ Pending(k, p.blocks)
    BY <2>4, <2>5, NestedSame
  <2>7. TreeRecord(k)
    BY <2>6 DEF Nested, Tree
  <2> HIDE DEF k
  <2>8. b.menu = k.entry
    BY <2>7 DEF MenuAddMenu, TreeRecord
  <2>9. Nested(g, bs)
    BY <2>6, <2>8, NestedOpened
  <2> HIDE DEF g, bs
  <2>10. /\ ParserRecord(p') /\ p'.g = g /\ p'.blocks = bs /\ p'.opts = p.opts
         /\ p'.waiting = Null
    BY <2>1, <2>2 DEF ParserRecord
  <2>11. QED
    BY <2>2, <2>9, <2>10 DEF ParserInv
<1>9. QED
  BY <1>2, <1>3, <1>4, <1>5, <1>6, <1>7, <1>8 DEF EntryNext

\* A step that leaves all but the tree alone.
LEMMA TreeEdited ==
    ASSUME ParserInv(p), NEW g, SameTree(p.g, g), p' = [p EXCEPT !.g = g]
    PROVE  ParserInv(p')
<1>1. /\ ParserRecord(p') /\ p'.g = g /\ p'.blocks = p.blocks /\ p'.opts = p.opts
      /\ p'.waiting = p.waiting
  BY DEF ParserInv, ParserRecord
<1>2. QED
  BY <1>1, InvSame

LEMMA OptionsInv ==
    ASSUME ParserInv(p), OptionNext
    PROVE  ParserInv(p')
<1>1. Tree(p.g) /\ ParserRecord(p) /\ TreeRecord(p.g)
  BY DEF ParserInv, Nested, Tree
<1>2. ASSUME NEW e, DependsOption(e)
      PROVE  ParserInv(p')
  <2>1. p' = [p EXCEPT !.g = MenuAddDep(p.g, e)]
    BY <1>2 DEF DependsOption
  <2>2. QED
    BY <1>1, <2>1, AddDepSame, TreeEdited
<1>3. ASSUME NEW kind, NEW e, NEW dep, PropOption(kind, e, dep)
      PROVE  ParserInv(p')
  <2>1. p' = [p EXCEPT !.g = MenuAddProp(p.g, kind, e, dep)]
    BY <1>3 DEF PropOption
  <2>2. QED
    BY <1>1, <2>1, AddPropSame, TreeEdited
<1>4. ASSUME NEW type, TypeOption(type)
      PROVE  ParserInv(p')
  <2>1. p' = [p EXCEPT !.g = MenuSetType(p.g, p.g.menus[p.g.entry].sym, type)]
    BY <1>4 DEF TypeOption
  <2>2. QED
    BY <1>1, <2>1, SetTypeSame, TreeEdited
<1>5. ASSUME NEW type, NEW dep, PromptedOption(type, dep)
      PROVE  ParserInv(p')
  <2> DEFINE h == MenuSetType(p.g, p.g.menus[p.g.entry].sym, type)
             g == MenuAddProp(h, "prompt", Null, dep)
  <2>1. p' = [p EXCEPT !.g = g]
    BY <1>5 DEF PromptedOption
  <2>2. SameTree(p.g, h) /\ Tree(h)
    BY <1>1, SetTypeSame, SameIsTree
  <2> HIDE DEF h
  <2>3. SameTree(p.g, g)
    BY <2>2, AddPropSame, SameTrans
  <2>4. QED
    BY <2>1, <2>3, TreeEdited
<1>6. ASSUME NEW type, NEW e, NEW dep, DefaultOption(e, dep, type)
      PROVE  ParserInv(p')
  <2> DEFINE h == MenuAddProp(p.g, "default", e, dep)
             g == MenuSetType(h, h.menus[h.entry].sym, type)
  <2>1. p' = [p EXCEPT !.g = g]
    BY <1>6 DEF DefaultOption
  <2>2. SameTree(p.g, h) /\ Tree(h)
    BY <1>1, AddPropSame, SameIsTree
  <2> HIDE DEF h
  <2>3. SameTree(p.g, g)
    BY <2>2, SetTypeSame, SameTrans
  <2>4. QED
    BY <2>1, <2>3, TreeEdited
<1>7. CASE OptionalOption
  <2> DEFINE g == [p.g EXCEPT !.optional = p.g.optional \union {p.g.menus[p.g.entry].sym}]
  <2>1. p' = [p EXCEPT !.g = g]
    BY <1>1, <1>7 DEF OptionalOption, ParserRecord, TreeRecord
  <2>2. SameTree(p.g, g)
    BY <1>1, OptionalSame
  <2> HIDE DEF g
  <2>3. QED
    BY <2>1, <2>2, TreeEdited
<1>8. CASE ModulesOption
  <2> DEFINE g == DefaultModules(p.g, p.g.menus[p.g.entry].sym)
  <2>1. p' = [p EXCEPT !.g = g]
    BY <1>8 DEF ModulesOption
  <2>2. SameTree(p.g, g)
    BY <1>1, PropsSame DEF DefaultModules
  <2> HIDE DEF g
  <2>3. QED
    BY <2>1, <2>2, TreeEdited
<1>9. ASSUME NEW helptext, HelpOption(helptext)
      PROVE  ParserInv(p')
  <2> DEFINE help == [id \in DOMAIN p.help \union {p.g.entry} |->
                        IF id = p.g.entry THEN helptext ELSE p.help[id]]
  <2>1. p' = [p EXCEPT !.help = help]
    BY <1>9 DEF HelpOption
  <2> HIDE DEF help
  <2>2. /\ ParserRecord(p') /\ p'.g = p.g /\ p'.blocks = p.blocks /\ p'.opts = p.opts
        /\ p'.waiting = p.waiting
    BY <1>1, <2>1 DEF ParserRecord
  <2>3. SameTree(p.g, p.g)
    BY <1>1, SameSelf
  <2>4. QED
    BY <2>2, <2>3, InvSame
<1>10. QED
  BY <1>2, <1>3, <1>4, <1>5, <1>6, <1>7, <1>8, <1>9 DEF OptionNext

LEMMA EndInv ==
    ASSUME ParserInv(p), NEW kind, EndBlock(kind)
    PROVE  ParserInv(p')
<1> DEFINE r == Opened(p)
           g == MenuEndMenu(r.g)
           bs == SubSeq(r.blocks, 1, Len(r.blocks) - 1)
<1>1. ParserInv(r) /\ r.opts = "none" /\ Nested(r.g, r.blocks)
  BY OpenedInv DEF ParserInv
<1>2. p' = [r EXCEPT !.g = g, !.blocks = bs] /\ BlockOf(r) # "none"
  BY DEF EndBlock, EndsBlock
<1> HIDE DEF r
<1>3. r.blocks # << >>
  BY <1>2 DEF BlockOf
<1>4. Nested(g, bs)
  BY <1>1, <1>3, NestedEnded
<1> HIDE DEF g, bs
<1>5. /\ ParserRecord(p') /\ p'.g = g /\ p'.blocks = bs /\ p'.opts = r.opts
      /\ p'.waiting = r.waiting
  BY <1>1, <1>2 DEF ParserInv, ParserRecord
<1>6. QED
  BY <1>1, <1>4, <1>5 DEF ParserInv

LEMMA StatementsInv ==
    ASSUME ParserInv(p), StatementNext
    PROVE  ParserInv(p')
BY EntriesInv, OptionsInv, EndInv DEF StatementNext

LEMMA InitInv ==
    ASSUME BlocksInit
    PROVE  ParserInv(p)
<1> DEFINE g == MenuInit
           root == [NewMenu(NoSym, 0, NoSym) EXCEPT !.prompt = 1]
<1>1. root = [sym |-> NoSym, parent |-> 0, list |-> 0, next |-> 0, prompt |-> 1, dep |-> Null,
              file |-> NoSym]
  BY DEF NewMenu
<1> HIDE DEF root
<1>2. MenuRecord(root) /\ root.parent = 0 /\ root.list = 0 /\ root.next = 0
  BY <1>1 DEF MenuRecord
<1>3. TreeRecord(g) /\ g.menus = <<root>> /\ g.menu = 1 /\ g.entry = 1 /\ g.last = <<"list", 1>>
  BY DEF MenuInit, TreeRecord, root, Root
<1> HIDE DEF g
<1>4. IsMenus(g.menus) /\ Len(g.menus) = 1 /\ g.menus[1] = root
  <2>1. <<root>> \in Seq({root}) /\ Len(<<root>>) = 1 /\ <<root>>[1] = root
    OBVIOUS
  <2>2. g.menus[1] = root /\ Len(g.menus) = 1 /\ IsSeq(g.menus)
    BY <1>3, <2>1 DEF IsSeq
  <2>3. \A i \in 1 .. Len(g.menus) : i = 1
    BY <2>2
  <2>4. QED
    BY <1>2, <2>2, <2>3 DEF IsMenus
<1>5. LastIs(g, "list", 1)
  BY <1>2, <1>3, <1>4 DEF LastIs
<1>6. Tree(g)
  BY <1>3, <1>4, <1>5 DEF Tree
<1>7. IsSeq(<< >>) /\ Len(<< >>) = 0
  BY DEF IsSeq
<1>11. Shaped(g)
  <2>1. 1 \in 1 .. 1 /\ \A i \in 1 .. 1 : i = 1
    OBVIOUS
  <2>2. Parents(g)[1] = 0 /\ Lists(g)[1] = 0 /\ Nexts(g)[1] = 0
    BY <1>2, <1>4, <2>1 DEF Parents, Lists, Nexts
  <2>3. \A k : k \notin 2 .. 1
    OBVIOUS
  <2>4. Ordered(1, Parents(g))
    BY <2>2, <2>3 DEF Ordered
  <2>5. \A i, q : ListOf(1, Parents(g), i) = {} /\ After(1, Parents(g), i, q) = {}
    BY <2>3 DEF ListOf, After
  <2>6. Threaded(1, Parents(g), Lists(g), Nexts(g))
    BY <2>1, <2>2, <2>5 DEF Threaded, IsFirst
  <2>7. QED
    BY <1>3, <1>4, <2>3, <2>4, <2>6 DEF Shaped
<1>8. Nested(g, << >>)
  BY <1>3, <1>6, <1>7, <1>11 DEF Nested, Outside, Root
<1>9. /\ ParserRecord(p) /\ p.g = g /\ p.blocks = << >> /\ p.opts = "none" /\ p.waiting = Null
  BY DEF BlocksInit, ParserRecord, g
<1>10. QED
  BY <1>8, <1>9 DEF ParserInv

\* The tree is built as the statements are nested, whatever they are: the menus of the
\* open blocks are those between the current one and the root (menu_add_menu and
\* menu_end_menu), and nothing that is linked is ever replaced (menu_add_entry).
THEOREM BlocksAgreeCorrect == BlocksSpec => []BlocksAgree
<1> DEFINE Inv == Parsing => ParserInv(p)
<1>1. BlocksInit => Inv
  BY InitInv
<1>2. Inv /\ [BlocksNext]_<<p, status>> => Inv'
  <2> SUFFICES ASSUME Inv, [BlocksNext]_<<p, status>>, Parsing'
               PROVE  ParserInv(p)'
    OBVIOUS
  <2>1. CASE UNCHANGED <<p, status>>
    <3>1. Parsing /\ p' = p
      BY <2>1 DEF Parsing
    <3>2. QED
      BY <3>1
  <2>2. CASE StatementNext /\ UNCHANGED status
    <3>1. ParserInv(p)
      BY <2>2 DEF Parsing
    <3>2. QED
      BY <2>2, <3>1, StatementsInv
  <2>3. QED
    BY <2>1, <2>2 DEF BlocksNext, Parsing
<1>3. Inv => BlocksAgree
  BY InvAgrees DEF BlocksAgree
<1>4. QED
  BY <1>1, <1>2, <1>3, PTL DEF BlocksSpec

-----------------------------------------------------------------------------
(* menu_finalize on the menus *)

\* The tree, and the calls that are under way.
Working(g, cs) ==
  /\ TreeRecord(g) /\ IsMenus(g.menus) /\ IsSeq(cs)
  /\ WorkInv(Len(g.menus), Parents(g), Lists(g), Nexts(g), Len(cs), cs)

\* Conditions, types and properties.
LEMMA ConditionedLinks ==
    ASSUME NEW g, TreeRecord(g), IsMenus(g.menus), NEW h
    PROVE  TreeRecord(Conditioned(g, h)) /\ SameLinks(g.menus, Conditioned(g, h).menus)
<1> DEFINE ms == g.menus
           n == Len(ms)
           ns == [id \in DOMAIN ms |-> [ms[id] EXCEPT !.dep = h.menus[id].dep]]
           k == Conditioned(g, h)
<1>1. n \in Nat /\ DOMAIN ms = 1 .. n
  BY SeqFacts DEF IsMenus
<1>2. k = [g EXCEPT !.menus = ns, !.props = h.props, !.type = h.type, !.rev = h.rev,
                    !.choiceval = h.choiceval, !.members = h.members]
  BY DEF Conditioned
<1>3. ns = [i \in 1 .. n |-> [ms[i] EXCEPT !.dep = h.menus[i].dep]]
  BY <1>1
<1>4. ASSUME NEW i \in 1 .. n
      PROVE  /\ MenuRecord(ns[i]) /\ ns[i].parent = ms[i].parent
             /\ ns[i].list = ms[i].list /\ ns[i].next = ms[i].next
  <2>1. MenuRecord(ms[i])
    BY DEF IsMenus
  <2>2. ns[i] = [ms[i] EXCEPT !.dep = h.menus[i].dep]
    BY <1>3
  <2> DEFINE m == ms[i]
             d == h.menus[i].dep
             r == [m EXCEPT !.dep = d]
  <2> HIDE DEF m, d
  <2>3. r = [sym |-> m.sym, parent |-> m.parent, list |-> m.list, next |-> m.next,
             prompt |-> m.prompt, dep |-> d, file |-> m.file]
    BY <2>1 DEF MenuRecord, m
  <2>4. ns[i] = r
    BY <2>2 DEF m, d
  <2> HIDE DEF r
  <2>5. MenuRecord(r) /\ r.parent = m.parent /\ r.list = m.list /\ r.next = m.next
    BY <2>3 DEF MenuRecord
  <2> HIDE DEF ns
  <2>6. QED
    BY <2>4, <2>5 DEF m
<1>5. IsSeq(ns) /\ Len(ns) = n
  <2> DEFINE S == {ns[i] : i \in 1 .. n}
  <2>1. ns \in [1 .. n -> S]
    BY <1>3
  <2>2. Seq(S) = UNION {[1 .. m -> S] : m \in Nat}
    BY SeqDef
  <2> HIDE DEF S, ns
  <2>3. ns \in Seq(S) /\ DOMAIN ns = 1 .. n
    BY <1>1, <2>1, <2>2
  <2>4. QED
    BY <1>1, <2>3 DEF IsSeq
<1> HIDE DEF ns
<1>6. TreeRecord(k) /\ k.menus = ns
  BY <1>2 DEF TreeRecord
<1>7. SameLinks(ms, ns)
  BY <1>4, <1>5 DEF SameLinks, IsMenus
<1>8. QED
  BY <1>6, <1>7

\* The innermost call goes on.
LEMMA GoesFacts ==
    ASSUME NEW g, NEW cs, IsSeq(cs), cs # << >>, NEW does, NEW menu,
           NEW w, w = Goes([g |-> g, calls |-> cs], does, menu)
    PROVE  /\ Len(cs) \in Nat \ {0}
           /\ w = [g |-> g, calls |-> w.calls] /\ IsSeq(w.calls) /\ Len(w.calls) = Len(cs)
           /\ \A i \in 1 .. Len(cs) - 1 : w.calls[i] = cs[i]
           /\ w.calls[Len(cs)] = Frame(cs[Len(cs)].id, does, menu)
<1> DEFINE c == Len(cs)
           f == Frame(cs[c].id, does, menu)
           ds == [cs EXCEPT ![c] = f]
<1>1. PICK S : cs \in Seq(S)
  BY DEF IsSeq
<1>2. c \in Nat \ {0} /\ c \in 1 .. c
  BY <1>1, EmptySeq
<1> DEFINE T == S \union {f}
<1>3. cs \in Seq(T) /\ f \in T
  BY <1>1, SeqMonotonic
<1>4. w = [g |-> g, calls |-> ds]
  BY DEF Goes, In, Top
<1> HIDE DEF T, f
<1>5. ds \in Seq(T) /\ Len(ds) = c /\ \A i \in 1 .. c : ds[i] = IF i = c THEN f ELSE cs[i]
  <2> HIDE DEF c
  <2>1. c = Len(cs)
    BY DEF c
  <2>2. QED
    BY <1>2, <1>3, <2>1, ExceptSeq
<1> HIDE DEF ds, c
<1>6. ds[c] = f /\ \A i \in 1 .. c - 1 : ds[i] = cs[i]
  BY <1>2, <1>5
<1>7. IsSeq(ds)
  BY <1>5 DEF IsSeq
<1>8. QED
  BY <1>2, <1>4, <1>5, <1>6, <1>7 DEF c, f

\* A call begins.
LEMMA CalledFacts ==
    ASSUME NEW g, NEW cs, IsSeq(cs), NEW id, NEW w, w = Called([g |-> g, calls |-> cs], id)
    PROVE  /\ w = [g |-> g, calls |-> w.calls] /\ IsSeq(w.calls) /\ Len(w.calls) = Len(cs) + 1
           /\ \A i \in 1 .. Len(cs) : w.calls[i] = cs[i]
           /\ w.calls[Len(cs) + 1] = Frame(id, "enter", 0)
<1> DEFINE f == Frame(id, "enter", 0)
           ds == Append(cs, f)
<1>1. w = [g |-> g, calls |-> ds]
  BY DEF Called
<1> HIDE DEF f
<1>2. IsSeq(ds) /\ Len(ds) = Len(cs) + 1 /\ (\A i \in 1 .. Len(cs) : ds[i] = cs[i]) /\ ds[Len(cs) + 1] = f
  BY AppendFacts
<1> HIDE DEF ds
<1>3. QED
  BY <1>1, <1>2 DEF f

\* A call returns.
LEMMA PoppedFacts ==
    ASSUME NEW g, NEW cs, IsSeq(cs), Len(cs) > 1, NEW w, w = Popped([g |-> g, calls |-> cs])
    PROVE  /\ Len(cs) \in Nat
           /\ w = [g |-> g, calls |-> w.calls] /\ IsSeq(w.calls) /\ Len(w.calls) = Len(cs) - 1
           /\ w.calls # << >>
           /\ \A i \in 1 .. Len(cs) - 1 : w.calls[i] = cs[i]
<1> DEFINE ds == SubSeq(cs, 1, Len(cs) - 1)
<1>1. w = [g |-> g, calls |-> ds]
  BY DEF Popped
<1>2. Len(cs) \in Nat /\ cs # << >>
  BY SeqFacts
<1>3. IsSeq(ds) /\ Len(ds) = Len(cs) - 1 /\ \A i \in 1 .. Len(cs) - 1 : ds[i] = cs[i]
  BY <1>2, FrontFacts
<1> HIDE DEF ds
<1>4. ds # << >>
  BY <1>2, <1>3
<1>5. QED
  BY <1>1, <1>2, <1>3, <1>4

\* What the code does to the pointers.
Pointers(g, h, P, L, N) ==
  /\ TreeRecord(h) /\ IsMenus(h.menus) /\ Len(h.menus) = Len(g.menus)
  /\ \A i \in 1 .. Len(g.menus) :
       h.menus[i].parent = P[i] /\ h.menus[i].list = L[i] /\ h.menus[i].next = N[i]

LEMMA PointersAre ==
    ASSUME NEW g, NEW h, NEW P, NEW L, NEW N, Pointers(g, h, P, L, N)
    PROVE  /\ TreeRecord(h) /\ IsMenus(h.menus) /\ Len(h.menus) = Len(g.menus)
           /\ \A i \in 1 .. Len(g.menus) : Parents(h)[i] = P[i] /\ Lists(h)[i] = L[i] /\ Nexts(h)[i] = N[i]
BY DEF Pointers, Parents, Lists, Nexts

LEMMA MenusReplaced ==
    ASSUME NEW g, TreeRecord(g), NEW ns
    PROVE  TreeRecord([g EXCEPT !.menus = ns]) /\ [g EXCEPT !.menus = ns].menus = ns
<1> DEFINE h == [g EXCEPT !.menus = ns]
<1>1. h = [g EXCEPT !.menus = ns]
  OBVIOUS
<1> HIDE DEF h
<1>2. TreeRecord(h) /\ h.menus = ns
  BY <1>1 DEF TreeRecord
<1>3. QED
  BY <1>2 DEF h

LEMMA AdoptedLinks ==
    ASSUME NEW g, TreeRecord(g), IsMenus(g.menus), NEW q \in 1 .. Len(g.menus),
           NEW last \in 1 .. Len(g.menus), last # q, NEW h, h = Adopted(g, q, last)
    PROVE  Pointers(g, h, Parents(g),
                    [i \in 1 .. Len(g.menus) |-> IF i = q THEN g.menus[q].next ELSE g.menus[i].list],
                    [i \in 1 .. Len(g.menus) |-> IF i = q THEN g.menus[last].next
                                                 ELSE IF i = last THEN 0 ELSE g.menus[i].next])
<1> DEFINE ms == g.menus
           n == Len(ms)
           x == ms[q].next
           y == ms[last].next
           m1 == Link(ms, <<"list", q>>, x)
           m2 == Link(m1, <<"next", q>>, y)
           m3 == Link(m2, <<"next", last>>, 0)
<1>1. h = [g EXCEPT !.menus = m3]
  <2>1. last # 0
    BY SeqFacts DEF IsMenus
  <2>2. m3 = [[[ms EXCEPT ![q].list = x] EXCEPT ![q].next = y] EXCEPT ![last].next = 0]
    BY DEF Link
  <2>3. h = [g EXCEPT !.menus[q].list = g.menus[q].next,
                      !.menus[q].next = g.menus[last].next,
                      !.menus[last].next = 0]
    BY <2>1 DEF Adopted
  <2> HIDE DEF m1, m2, m3
  <2>4. QED
    BY <2>2, <2>3 DEF TreeRecord
<1> HIDE DEF m1, m2, m3, ms, x, y
<1>2. IsMenus(ms) /\ q \in 1 .. Len(ms) /\ last \in 1 .. Len(ms)
  BY DEF ms
<1>3. Linked(ms, m1, "list", q, x)
  BY <1>2, LinkFacts DEF m1
<1>4. IsMenus(m1) /\ Len(m1) = Len(ms)
  BY <1>3 DEF Linked
<1>5. Linked(m1, m2, "next", q, y)
  BY <1>2, <1>4, LinkFacts DEF m2
<1>6. IsMenus(m2) /\ Len(m2) = Len(ms)
  BY <1>4, <1>5 DEF Linked
<1>7. Linked(m2, m3, "next", last, 0)
  BY <1>2, <1>6, LinkFacts DEF m3
<1>8. IsMenus(m3) /\ Len(m3) = n
  BY <1>6, <1>7 DEF Linked
<1>9. ASSUME NEW i \in 1 .. n
      PROVE  /\ m3[i].parent = ms[i].parent
             /\ m3[i].list = IF i = q THEN x ELSE ms[i].list
             /\ m3[i].next = IF i = q THEN y ELSE IF i = last THEN 0 ELSE ms[i].next
  <2>1. /\ m1[i].parent = ms[i].parent /\ m1[i].next = ms[i].next
        /\ m1[i].list = IF i = q THEN x ELSE ms[i].list
    BY <1>3 DEF Linked
  <2>2. /\ m2[i].parent = m1[i].parent /\ m2[i].list = m1[i].list
        /\ m2[i].next = IF i = q THEN y ELSE m1[i].next
    BY <1>4, <1>5 DEF Linked
  <2>3. /\ m3[i].parent = m2[i].parent /\ m3[i].list = m2[i].list
        /\ m3[i].next = IF i = last THEN 0 ELSE m2[i].next
    BY <1>6, <1>7 DEF Linked
  <2>4. QED
    BY <2>1, <2>2, <2>3
<1>10. TreeRecord(h) /\ h.menus = m3
  BY <1>1, MenusReplaced
<1>11. QED
  BY <1>8, <1>9, <1>10 DEF Pointers, Parents, ms, x, y

\* A parent.
LEMMA ParentFacts ==
    ASSUME NEW ms, IsMenus(ms), NEW k \in 1 .. Len(ms), NEW id
    PROVE  /\ IsMenus([ms EXCEPT ![k].parent = id]) /\ Len([ms EXCEPT ![k].parent = id]) = Len(ms)
           /\ \A i \in 1 .. Len(ms) :
                /\ [ms EXCEPT ![k].parent = id][i].parent = IF i = k THEN id ELSE ms[i].parent
                /\ [ms EXCEPT ![k].parent = id][i].list = ms[i].list
                /\ [ms EXCEPT ![k].parent = id][i].next = ms[i].next
<1> DEFINE m == ms[k]
           pm == [m EXCEPT !.parent = id]
           ps == [ms EXCEPT ![k] = pm]
<1>1. MenuRecord(m)
  BY DEF IsMenus
<1>2. pm = [sym |-> m.sym, parent |-> id, list |-> m.list, next |-> m.next,
            prompt |-> m.prompt, dep |-> m.dep, file |-> m.file]
  BY <1>1 DEF MenuRecord
<1>3. [ms EXCEPT ![k].parent = id] = ps
  OBVIOUS
<1> HIDE DEF m, pm
<1>4. MenuRecord(pm) /\ pm.parent = id /\ pm.list = m.list /\ pm.next = m.next
  BY <1>2 DEF MenuRecord
<1>5. /\ IsMenus(ps) /\ Len(ps) = Len(ms)
      /\ \A i \in 1 .. Len(ms) : ps[i] = IF i = k THEN pm ELSE ms[i]
  BY <1>4, MenuReplaced
<1> HIDE DEF ps
<1>6. \A i \in 1 .. Len(ms) : /\ ps[i].parent = IF i = k THEN id ELSE ms[i].parent
                              /\ ps[i].list = ms[i].list /\ ps[i].next = ms[i].next
  BY <1>4, <1>5 DEF m
<1>7. QED
  BY <1>3, <1>5, <1>6

LEMMA TakenLinks ==
    ASSUME NEW g, TreeRecord(g), IsMenus(g.menus), NEW k \in 1 .. Len(g.menus), NEW id
    PROVE  Pointers(g, [g EXCEPT !.menus[k].parent = id],
                    [i \in 1 .. Len(g.menus) |-> IF i = k THEN id ELSE g.menus[i].parent],
                    Lists(g), Nexts(g))
<1> DEFINE ms == g.menus
           ns == [ms EXCEPT ![k].parent = id]
           h == [g EXCEPT !.menus[k].parent = id]
<1>1. h = [g EXCEPT !.menus = ns]
  BY DEF TreeRecord
<1>2. IsMenus(ms) /\ k \in 1 .. Len(ms)
  OBVIOUS
<1> HIDE DEF ms
<1>3. IsMenus(ns) /\ Len(ns) = Len(ms)
  BY <1>2, ParentFacts
<1>4. ASSUME NEW i \in 1 .. Len(ms)
      PROVE  /\ ns[i].parent = IF i = k THEN id ELSE ms[i].parent
             /\ ns[i].list = ms[i].list /\ ns[i].next = ms[i].next
  BY <1>2, ParentFacts
<1> HIDE DEF ns, h
<1>5. TreeRecord(h) /\ h.menus = ns
  BY <1>1, MenusReplaced
<1>6. Pointers(g, h, [i \in 1 .. Len(g.menus) |-> IF i = k THEN id ELSE g.menus[i].parent],
               Lists(g), Nexts(g))
  BY <1>3, <1>4, <1>5 DEF Pointers, Lists, Nexts, ms
<1>7. QED
  BY <1>6 DEF h

LEMMA SplicedLinks ==
    ASSUME NEW g, TreeRecord(g), IsMenus(g.menus), NEW q, NEW id \in 1 .. Len(g.menus), NEW ks,
           DOMAIN ks = 1 .. Len(ks), NEW l, l = ks[Len(ks)], l \in 1 .. Len(g.menus), l # id,
           NEW h, h = Spliced(g, q, id, ks)
    PROVE  Pointers(g, h,
             [i \in 1 .. Len(g.menus) |-> IF i \in Links(Len(ks), ks) THEN q ELSE g.menus[i].parent],
             [i \in 1 .. Len(g.menus) |-> IF i = id THEN 0 ELSE g.menus[i].list],
             [i \in 1 .. Len(g.menus) |-> IF i = id THEN g.menus[id].list
                                          ELSE IF i = l THEN g.menus[id].next ELSE g.menus[i].next])
<1> DEFINE ms == g.menus
           n == Len(ms)
           In2(m) == \E k \in DOMAIN ks : ks[k] = m
           m0 == [m \in DOMAIN ms |-> IF In2(m) THEN [ms[m] EXCEPT !.parent = q] ELSE ms[m]]
           x == ms[id].next
           y == ms[id].list
           m1 == Link(m0, <<"next", l>>, x)
           m2 == Link(m1, <<"next", id>>, y)
           m3 == Link(m2, <<"list", id>>, 0)
<1>1. n \in Nat /\ DOMAIN ms = 1 .. n
  BY SeqFacts DEF IsMenus
<1>2. h = [g EXCEPT !.menus = m3]
  <2>1. h = [g EXCEPT !.menus = [m0 EXCEPT ![ks[Len(ks)]].next = ms[id].next,
                                           ![id].next = ms[id].list, ![id].list = 0]]
    BY DEF Spliced
  <2> HIDE DEF m0
  <2>2. m3 = [[[m0 EXCEPT ![l].next = x] EXCEPT ![id].next = y] EXCEPT ![id].list = 0]
    BY DEF Link
  <2> HIDE DEF m1, m2, m3
  <2>3. QED
    BY <2>1, <2>2
<1>3. /\ IsMenus(m0) /\ Len(m0) = n
      /\ \A i \in 1 .. n : /\ m0[i].parent = IF In2(i) THEN q ELSE ms[i].parent
                           /\ m0[i].list = ms[i].list /\ m0[i].next = ms[i].next
  <2> HIDE DEF In2
  <2>1. m0 = [m \in 1 .. n |-> IF In2(m) THEN [ms[m] EXCEPT !.parent = q] ELSE ms[m]]
    BY <1>1
  <2>2. ASSUME NEW i \in 1 .. n
        PROVE  /\ MenuRecord(m0[i]) /\ m0[i].parent = IF In2(i) THEN q ELSE ms[i].parent
               /\ m0[i].list = ms[i].list /\ m0[i].next = ms[i].next
    <3> DEFINE m == ms[i]
               r == [m EXCEPT !.parent = q]
    <3>1. MenuRecord(m)
      BY DEF IsMenus
    <3>2. m0[i] = IF In2(i) THEN r ELSE m
      BY <2>1
    <3> HIDE DEF m
    <3>3. r = [sym |-> m.sym, parent |-> q, list |-> m.list, next |-> m.next,
               prompt |-> m.prompt, dep |-> m.dep, file |-> m.file]
      BY <3>1 DEF MenuRecord
    <3> HIDE DEF r
    <3>4. MenuRecord(r) /\ r.parent = q /\ r.list = m.list /\ r.next = m.next
      BY <3>3 DEF MenuRecord
    <3> HIDE DEF m0
    <3>5. CASE In2(i)
      BY <3>2, <3>4, <3>5 DEF m
    <3>6. CASE ~In2(i)
      BY <3>1, <3>2, <3>6 DEF m
    <3>7. QED
      BY <3>5, <3>6
  <2>3. IsSeq(m0) /\ Len(m0) = n
    <3> DEFINE S == {m0[i] : i \in 1 .. n}
    <3>1. m0 \in [1 .. n -> S]
      BY <2>1
    <3>2. Seq(S) = UNION {[1 .. m -> S] : m \in Nat}
      BY SeqDef
    <3> HIDE DEF S, m0
    <3>3. m0 \in Seq(S) /\ DOMAIN m0 = 1 .. n
      BY <1>1, <3>1, <3>2
    <3>4. QED
      BY <1>1, <3>3 DEF IsSeq
  <2> HIDE DEF m0
  <2>4. QED
    BY <2>2, <2>3 DEF IsMenus
<1> HIDE DEF m0, m1, m2, m3, ms, x, y, In2
<1>4. id \in 1 .. n /\ l \in 1 .. n
  BY DEF ms
<1>5. Linked(m0, m1, "next", l, x)
  BY <1>3, <1>4, LinkFacts DEF m1
<1>6. IsMenus(m1) /\ Len(m1) = n
  BY <1>3, <1>5 DEF Linked
<1>7. Linked(m1, m2, "next", id, y)
  BY <1>4, <1>6, LinkFacts DEF m2
<1>8. IsMenus(m2) /\ Len(m2) = n
  BY <1>6, <1>7 DEF Linked
<1>9. Linked(m2, m3, "list", id, 0)
  BY <1>4, <1>8, LinkFacts DEF m3
<1>10. IsMenus(m3) /\ Len(m3) = n
  BY <1>8, <1>9 DEF Linked
<1>11. ASSUME NEW i \in 1 .. n
       PROVE  /\ m3[i].parent = IF In2(i) THEN q ELSE ms[i].parent
              /\ m3[i].list = IF i = id THEN 0 ELSE ms[i].list
              /\ m3[i].next = IF i = id THEN y ELSE IF i = l THEN x ELSE ms[i].next
  <2>1. /\ m1[i].parent = m0[i].parent /\ m1[i].list = m0[i].list
        /\ m1[i].next = IF i = l THEN x ELSE m0[i].next
    BY <1>3, <1>5 DEF Linked
  <2>2. /\ m2[i].parent = m1[i].parent /\ m2[i].list = m1[i].list
        /\ m2[i].next = IF i = id THEN y ELSE m1[i].next
    BY <1>6, <1>7 DEF Linked
  <2>3. /\ m3[i].parent = m2[i].parent /\ m3[i].next = m2[i].next
        /\ m3[i].list = IF i = id THEN 0 ELSE m2[i].list
    BY <1>8, <1>9 DEF Linked
  <2>4. QED
    BY <1>3, <2>1, <2>2, <2>3
<1>12. TreeRecord(h) /\ h.menus = m3
  BY <1>2, MenusReplaced
<1>13. \A i : In2(i) <=> i \in Links(Len(ks), ks)
  BY DEF In2, Links
<1>14. QED
  BY <1>10, <1>11, <1>12, <1>13 DEF Pointers, ms, x, y

LEMMA WorkingFacts ==
    ASSUME NEW g, NEW cs, Working(g, cs), NEW w, w = [g |-> g, calls |-> cs]
    PROVE  /\ Len(cs) \in Nat \ {0} /\ cs # << >> /\ Len(g.menus) \in Nat
           /\ Top(w) = cs[Len(cs)] /\ In(w) = cs[Len(cs)].id
           /\ cs[Len(cs)].id \in 1 .. Len(g.menus)
           /\ \A i \in 1 .. Len(g.menus) : /\ Parents(g)[i] = g.menus[i].parent
                                           /\ Lists(g)[i] = g.menus[i].list
                                           /\ Nexts(g)[i] = g.menus[i].next
           /\ cs[Len(cs)].does # "follow" /\ cs[Len(cs)].menu # 0 /\ cs[Len(cs)].does # "enter"
              => cs[Len(cs)].menu \in 2 .. Len(g.menus)
<1>1. Len(cs) \in Nat \ {0} /\ Len(g.menus) \in Nat
  BY DEF Working, WorkInv, Stacked, Based
<1>2. cs # << >>
  BY <1>1
<1>3. Len(cs) \in 1 .. Len(cs)
  BY <1>1
<1>4. cs[Len(cs)].id \in 1 .. Len(g.menus) /\ TopOK(Len(g.menus), Parents(g), cs[Len(cs)])
  BY <1>3 DEF Working, WorkInv, Stacked, Based
<1>5. Top(w) = cs[Len(cs)] /\ In(w) = cs[Len(cs)].id
  BY DEF Top, In
<1>6. \A i \in 1 .. Len(g.menus) : /\ Parents(g)[i] = g.menus[i].parent
                                   /\ Lists(g)[i] = g.menus[i].list
                                   /\ Nexts(g)[i] = g.menus[i].next
  BY DEF Parents, Lists, Nexts
<1>7. cs[Len(cs)].does # "follow" /\ cs[Len(cs)].menu # 0 /\ cs[Len(cs)].does # "enter"
      => cs[Len(cs)].menu \in 2 .. Len(g.menus)
  BY <1>4 DEF TopOK
<1>8. QED
  BY <1>1, <1>2, <1>4, <1>5, <1>6, <1>7

LEMMA ConditionedWorks ==
    ASSUME NEW g, NEW cs, Working(g, cs), NEW h
    PROVE  /\ Working(Conditioned(g, h), cs)
           /\ Len(Conditioned(g, h).menus) = Len(g.menus)
           /\ \A i \in 1 .. Len(g.menus) : /\ Conditioned(g, h).menus[i].list = g.menus[i].list
                                           /\ Conditioned(g, h).menus[i].next = g.menus[i].next
<1> DEFINE k == Conditioned(g, h)
<1>1. TreeRecord(k) /\ SameLinks(g.menus, k.menus) /\ IsMenus(g.menus)
  BY ConditionedLinks DEF Working
<1> HIDE DEF k
<1>2. /\ Len(k.menus) = Len(g.menus) /\ IsMenus(k.menus)
      /\ Parents(k) = Parents(g) /\ Lists(k) = Lists(g) /\ Nexts(k) = Nexts(g)
  BY <1>1, LinksSame DEF SameLinks
<1>3. Working(k, cs)
  BY <1>1, <1>2 DEF Working
<1>4. \A i \in 1 .. Len(g.menus) : k.menus[i].list = g.menus[i].list /\ k.menus[i].next = g.menus[i].next
  BY <1>1 DEF SameLinks
<1>5. QED
  BY <1>2, <1>3, <1>4 DEF k

\* A loop over the list of the entry begins.
LEMMA ListWorks ==
    ASSUME NEW g, NEW cs, Working(g, cs), cs[Len(cs)].does # "follow", NEW d \in {"below", "settle"},
           NEW w, w = Goes([g |-> g, calls |-> cs], d, g.menus[cs[Len(cs)].id].list)
    PROVE  Working(w.g, w.calls)
<1>1. /\ cs # << >> /\ Len(cs) \in Nat \ {0}
      /\ Lists(g)[cs[Len(cs)].id] = g.menus[cs[Len(cs)].id].list
  BY WorkingFacts
<1>2. /\ w.g = g /\ IsSeq(w.calls) /\ Len(w.calls) = Len(cs)
      /\ \A i \in 1 .. Len(cs) - 1 : w.calls[i] = cs[i]
      /\ w.calls[Len(cs)] = Frame(cs[Len(cs)].id, d, Lists(g)[cs[Len(cs)].id])
  <2> DEFINE y == Lists(g)[cs[Len(cs)].id]
  <2> HIDE DEF y
  <2>1. IsSeq(cs) /\ cs # << >> /\ w = Goes([g |-> g, calls |-> cs], d, y)
    BY <1>1 DEF Working, y
  <2>2. /\ w.g = g /\ IsSeq(w.calls) /\ Len(w.calls) = Len(cs)
        /\ \A i \in 1 .. Len(cs) - 1 : w.calls[i] = cs[i]
        /\ w.calls[Len(cs)] = Frame(cs[Len(cs)].id, d, y)
    BY ONLY <2>1, GoesFacts
  <2>3. QED
    BY <2>2 DEF y
<1>3. WorkInv(Len(g.menus), Parents(g), Lists(g), Nexts(g), Len(cs), cs)
  BY DEF Working
<1>4. WorkInv(Len(g.menus), Parents(g), Lists(g), Nexts(g), Len(cs), w.calls)
  BY <1>2, <1>3, AtList
<1>5. QED
  BY <1>2, <1>4 DEF Working

LEMMA DescendedWorks ==
    ASSUME NEW g, NEW cs, Working(g, cs), cs[Len(cs)].does = "enter",
           NEW h, NEW w, w = Descended([g |-> g, calls |-> cs], h)
    PROVE  Working(w.g, w.calls)
<1> DEFINE k == Conditioned(g, h)
<1>1. cs[Len(cs)].id \in 1 .. Len(g.menus) /\ In([g |-> g, calls |-> cs]) = cs[Len(cs)].id
  BY WorkingFacts
<1>2. Working(k, cs) /\ k.menus[cs[Len(cs)].id].list = g.menus[cs[Len(cs)].id].list
  BY <1>1, ConditionedWorks
<1>3. w = Goes([g |-> k, calls |-> cs], "below", g.menus[cs[Len(cs)].id].list)
  BY <1>1 DEF Descended
<1> HIDE DEF k
<1>4. QED
  BY <1>2, <1>3, ListWorks

LEMMA SettlesWorks ==
    ASSUME NEW g, NEW cs, Working(g, cs), cs[Len(cs)].does # "follow",
           NEW w, w = Settles([g |-> g, calls |-> cs])
    PROVE  Working(w.g, w.calls)
<1>1. In([g |-> g, calls |-> cs]) = cs[Len(cs)].id
  BY WorkingFacts
<1>2. w = Goes([g |-> g, calls |-> cs], "settle", g.menus[cs[Len(cs)].id].list)
  BY <1>1 DEF Settles
<1>3. QED
  BY <1>2, ListWorks

LEMMA FollowsWorks ==
    ASSUME NEW g, NEW cs, Working(g, cs), cs[Len(cs)].does = "enter",
           g.menus[cs[Len(cs)].id].list = 0,
           NEW w, w = Goes([g |-> g, calls |-> cs], "follow", 0)
    PROVE  Working(w.g, w.calls)
<1>1. /\ cs # << >> /\ Len(cs) \in Nat \ {0} /\ Lists(g)[cs[Len(cs)].id] = 0
  BY WorkingFacts
<1>2. /\ w.g = g /\ IsSeq(w.calls) /\ Len(w.calls) = Len(cs)
      /\ \A i \in 1 .. Len(cs) - 1 : w.calls[i] = cs[i]
      /\ w.calls[Len(cs)] = Frame(cs[Len(cs)].id, "follow", 0)
  <2>1. IsSeq(cs)
    BY DEF Working
  <2>2. QED
    BY <1>1, <2>1, GoesFacts
<1>3. WorkInv(Len(g.menus), Parents(g), Lists(g), Nexts(g), Len(cs), cs)
  BY DEF Working
<1>4. WorkInv(Len(g.menus), Parents(g), Lists(g), Nexts(g), Len(cs), w.calls)
  BY <1>1, <1>2, <1>3, AtFollowers
<1>5. QED
  BY <1>2, <1>4 DEF Working

LEMMA CalledWorks ==
    ASSUME NEW g, NEW cs, Working(g, cs), NEW id,
           \/ cs[Len(cs)].does = "below" /\ id = cs[Len(cs)].menu /\ id # 0
           \/ cs[Len(cs)].does = "follow" /\ id = Follower([g |-> g, calls |-> cs]) /\ id # 0,
           NEW w, w = Called([g |-> g, calls |-> cs], id)
    PROVE  Working(w.g, w.calls)
<1> DEFINE c == Len(cs)
           n == Len(g.menus)
           P == Parents(g)
           L == Lists(g)
           N == Nexts(g)
<1>1. /\ w.g = g /\ IsSeq(w.calls) /\ Len(w.calls) = c + 1
      /\ \A i \in 1 .. c : w.calls[i] = cs[i]
      /\ w.calls[c + 1] = Frame(id, "enter", 0)
  <2>1. IsSeq(cs)
    BY DEF Working
  <2>2. QED
    BY <2>1, CalledFacts
<1>2. WorkInv(n, P, L, N, c, cs)
  BY DEF Working
<1>3. CASE cs[c].does = "below" /\ id = cs[c].menu /\ id # 0
  <2>1. WorkInv(n, P, L, N, c + 1, w.calls)
    BY <1>1, <1>2, <1>3, BelowCalled
  <2>2. QED
    BY <1>1, <2>1 DEF Working
<1>4. CASE cs[c].does = "follow" /\ id = Follower([g |-> g, calls |-> cs]) /\ id # 0
  <2> DEFINE x == IF cs[c].menu = 0 THEN cs[c].id ELSE cs[c].menu
  <2>1. id = g.menus[x].next
    BY <1>4 DEF Follower, Top, In
  <2>2. x \in 1 .. n
    <3>1. cs[c].menu = 0 \/ cs[c].menu \in 2 .. n
      BY <1>2, <1>4, Follows
    <3>2. cs[c].id \in 1 .. n
      BY WorkingFacts
    <3>3. QED
      BY <3>1, <3>2
  <2>3. id = N[x]
    <3> HIDE DEF x
    <3>1. QED
      BY <2>1, <2>2 DEF Nexts
  <2>5. /\ cs[c].does = "follow" /\ id # 0
        /\ id = N[IF cs[c].menu = 0 THEN cs[c].id ELSE cs[c].menu]
    BY <1>4, <2>3
  <2> HIDE DEF N, P, L, n, c
  <2>4. WorkInv(n, P, L, N, c + 1, w.calls)
    BY ONLY <1>1, <1>2, <2>5, FollowerCalled
  <2>6. QED
    BY <1>1, <2>4 DEF Working, N, P, L, n, c
<1>5. QED
  BY <1>3, <1>4

LEMMA AdoptsWorks ==
    ASSUME NEW g, NEW cs, Working(g, cs), cs[Len(cs)].does = "follow",
           NEW w, w = Adopts([g |-> g, calls |-> cs])
    PROVE  Working(w.g, w.calls)
<1> DEFINE c == Len(cs)
           n == Len(g.menus)
           P == Parents(g)
           L == Lists(g)
           N == Nexts(g)
           id == cs[c].id
           last == cs[c].menu
           h == Adopted(g, id, last)
<1>1. /\ cs # << >> /\ c \in Nat \ {0} /\ n \in Nat /\ id \in 1 .. n
      /\ Top([g |-> g, calls |-> cs]) = cs[c] /\ In([g |-> g, calls |-> cs]) = id
      /\ \A i \in 1 .. n : /\ P[i] = g.menus[i].parent /\ L[i] = g.menus[i].list
                           /\ N[i] = g.menus[i].next
  BY WorkingFacts
<1>2. /\ WorkInv(n, P, L, N, c, cs) /\ TreeRecord(g) /\ IsMenus(g.menus) /\ IsSeq(cs)
  BY DEF Working
<1>3. w = Goes([g |-> h, calls |-> cs], "settle", h.menus[id].list)
  <2>1. Adopts([g |-> g, calls |-> cs]) = Settles([g |-> h, calls |-> cs])
    BY <1>1 DEF Adopts
  <2>2. In([g |-> h, calls |-> cs]) = id
    BY DEF In, Top
  <2> HIDE DEF h
  <2>3. QED
    BY <2>1, <2>2 DEF Settles
<1>4. last = 0 \/ (last \in 2 .. n /\ last # id)
  BY <1>2, Follows
<1>5. CASE last = 0
  <2>1. h = g
    BY <1>5 DEF Adopted
  <2>2. /\ w.g = g /\ IsSeq(w.calls) /\ Len(w.calls) = c
        /\ \A i \in 1 .. c - 1 : w.calls[i] = cs[i]
        /\ w.calls[c] = Frame(id, "settle", L[id])
    <3>1. w = Goes([g |-> g, calls |-> cs], "settle", L[id])
      BY <1>1, <1>3, <2>1
    <3>2. IsSeq(cs) /\ cs # << >>
      BY <1>1, <1>2
    <3> HIDE DEF L
    <3>3. QED
      BY ONLY <3>1, <3>2, GoesFacts
  <2>3. WorkInv(n, P, L, N, c, w.calls)
    <3> HIDE DEF h, L, N, P, n
    <3>1. QED
      BY <1>2, <1>5, <2>2, AdoptNone
  <2>4. QED
    BY <1>2, <2>2, <2>3 DEF Working
<1>6. CASE last \in 2 .. n /\ last # id
  <2> DEFINE M == Lists(h)
             O == Nexts(h)
  <2>1. Pointers(g, h, P,
                 [i \in 1 .. n |-> IF i = id THEN g.menus[id].next ELSE g.menus[i].list],
                 [i \in 1 .. n |-> IF i = id THEN g.menus[last].next
                                   ELSE IF i = last THEN 0 ELSE g.menus[i].next])
    <3>1. last \in 1 .. n
      BY <1>6
    <3> HIDE DEF h, last, id
    <3>2. h = Adopted(g, id, last)
      BY DEF h
    <3>3. QED
      BY <1>1, <1>2, <1>6, <3>1, <3>2, AdoptedLinks
  <2> HIDE DEF h, id, last, P, L, N, M, O
  <2>2. /\ TreeRecord(h) /\ IsMenus(h.menus) /\ Len(h.menus) = n
        /\ \A i \in 1 .. n : /\ Parents(h)[i] = P[i]
                             /\ Lists(h)[i] = IF i = id THEN g.menus[id].next ELSE g.menus[i].list
                             /\ Nexts(h)[i] = IF i = id THEN g.menus[last].next
                                              ELSE IF i = last THEN 0 ELSE g.menus[i].next
    BY <2>1, PointersAre
  <2>3. Parents(h) = P
    BY <2>2 DEF Parents, P
  <2>4. last \in 1 .. n
    BY <1>6
  <2>5. \A i \in 1 .. n : M[i] = IF i = id THEN N[id] ELSE L[i]
    BY <1>1, <2>2 DEF M
  <2>6. \A i \in 1 .. n : O[i] = IF i = id THEN N[last] ELSE IF i = last THEN 0 ELSE N[i]
    BY <1>1, <2>2, <2>4 DEF O
  <2>7. h.menus[id].list = M[id]
    BY <1>1, <2>2 DEF M, Lists
  <2>8. /\ w.g = h /\ IsSeq(w.calls) /\ Len(w.calls) = c
        /\ \A i \in 1 .. c - 1 : w.calls[i] = cs[i]
        /\ w.calls[c] = Frame(id, "settle", M[id])
    <3>1. w = Goes([g |-> h, calls |-> cs], "settle", M[id])
      BY <1>3, <2>7
    <3>2. IsSeq(cs) /\ cs # << >>
      BY <1>1, <1>2
    <3> DEFINE y == M[id]
    <3> HIDE DEF y
    <3>3. w = Goes([g |-> h, calls |-> cs], "settle", y)
      BY <3>1 DEF y
    <3>4. /\ w.g = h /\ IsSeq(w.calls) /\ Len(w.calls) = c
          /\ \A i \in 1 .. c - 1 : w.calls[i] = cs[i]
          /\ w.calls[c] = Frame(id, "settle", y)
      BY ONLY <3>2, <3>3, GoesFacts DEF id
    <3>5. QED
      BY <3>4 DEF y
  <2>9. WorkInv(n, P, M, O, c, w.calls)
    <3>1. cs[c].menu # 0 /\ cs[c].does = "follow" /\ WorkInv(n, P, L, N, c, cs)
      BY <1>2, <1>6 DEF last
    <3>2. \A i \in 1 .. n : M[i] = IF i = cs[c].id THEN N[cs[c].id] ELSE L[i]
      BY <2>5 DEF id
    <3>3. \A i \in 1 .. n : O[i] = IF i = cs[c].id THEN N[cs[c].menu]
                                   ELSE IF i = cs[c].menu THEN 0 ELSE N[i]
      BY <2>6 DEF id, last
    <3>4. /\ \A i \in 1 .. c - 1 : w.calls[i] = cs[i]
          /\ w.calls[c] = Frame(cs[c].id, "settle", M[cs[c].id])
      BY <2>8 DEF id
    <3> HIDE DEF c, n
    <3>5. QED
      BY ONLY <3>1, <3>2, <3>3, <3>4, AdoptStep
  <2>10. QED
    BY <2>2, <2>3, <2>8, <2>9 DEF Working, M, O
<1>7. QED
  BY <1>4, <1>5, <1>6

\* The entries of the list that the loop goes over are a chain of the pointers.
LEMMA ChainIs ==
    ASSUME NEW g, IsMenus(g.menus), NEW m \in 1 .. Len(g.menus), g.menus[m].list # 0, NEW ks,
           IsChain(g, g.menus[m].list, ks)
    PROVE  /\ Len(ks) \in Nat \ {0} /\ DOMAIN ks = 1 .. Len(ks)
           /\ Chain(Len(g.menus), Nexts(g), Lists(g)[m], Len(ks), ks)
<1>1. DOMAIN g.menus = 1 .. Len(g.menus)
  BY SeqFacts DEF IsMenus
<1>2. ks \in Seq(1 .. Len(g.menus)) /\ ks # << >>
  BY <1>1 DEF IsChain
<1>3. Len(ks) \in Nat \ {0} /\ DOMAIN ks = 1 .. Len(ks) /\ \A i \in 1 .. Len(ks) : ks[i] \in 1 .. Len(g.menus)
  BY <1>2, ElementOfSeq, EmptySeq, LenProperties
<1>4. /\ ks[1] = g.menus[m].list /\ g.menus[ks[Len(ks)]].next = 0
      /\ \A i \in 1 .. Len(ks) - 1 : ks[i + 1] = g.menus[ks[i]].next
  BY DEF IsChain
<1>5. \A i \in 1 .. Len(ks) : Nexts(g)[ks[i]] = g.menus[ks[i]].next
  BY <1>3 DEF Nexts
<1>6. Lists(g)[m] = g.menus[m].list
  BY DEF Lists
<1>7. Len(ks) \in 1 .. Len(ks) /\ \A i \in 1 .. Len(ks) - 1 : i \in 1 .. Len(ks)
  BY <1>3
<1>8. QED
  BY <1>3, <1>4, <1>5, <1>6, <1>7 DEF Chain

\* An if block gives way to its entries.
LEMMA SplicedWorks ==
    ASSUME NEW g, NEW cs, Working(g, cs), cs[Len(cs)].does = "settle",
           NEW m, m = cs[Len(cs)].menu, m # 0, g.menus[m].list # 0, NEW ks,
           IsChain(g, g.menus[m].list, ks),
           NEW h, h = Spliced(g, cs[Len(cs)].id, m, ks),
           NEW w, w = Goes([g |-> h, calls |-> cs], "settle", h.menus[m].next)
    PROVE  Working(w.g, w.calls)
<1> DEFINE c == Len(cs)
           n == Len(g.menus)
           P == Parents(g)
           L == Lists(g)
           N == Nexts(g)
           id == cs[c].id
           s == Len(ks)
           l == ks[s]
           A == Taking(c, cs)
           V == Holders(n, P, A)
           Q == Parents(h)
           M == Lists(h)
           O == Nexts(h)
<1>1. /\ cs # << >> /\ c \in Nat \ {0} /\ n \in Nat /\ m \in 2 .. n
      /\ \A i \in 1 .. n : /\ P[i] = g.menus[i].parent /\ L[i] = g.menus[i].list
                           /\ N[i] = g.menus[i].next
  <2>1. cs[Len(cs)].does # "follow" /\ cs[Len(cs)].menu # 0 /\ cs[Len(cs)].does # "enter"
    OBVIOUS
  <2>2. QED
    BY <2>1, WorkingFacts
<1>2. WorkInv(n, P, L, N, c, cs) /\ TreeRecord(g) /\ IsMenus(g.menus) /\ IsSeq(cs)
  BY DEF Working
<1>3. m \in 1 .. n /\ L[m] # 0
  BY <1>1
<1>4. s \in Nat \ {0} /\ DOMAIN ks = 1 .. s /\ Chain(n, N, L[m], s, ks)
  BY <1>2, <1>3, ChainIs
<1>5. l \in 1 .. n /\ l # m
  <2>1. Threaded(n, V, L, N) /\ Ordered(n, P) /\ Based(n, P, c, cs)
    BY <1>2 DEF WorkInv, Stacked
  <2>2. \A a \in A : a \in 1 .. n
    <3> HIDE DEF n, P, c, A
    <3>1. \A a \in Taking(c, cs) : a \in 1 .. n
      BY <1>1, <2>1, TakingFacts
    <3>2. QED
      BY <3>1 DEF A
  <2>3. s \in 1 .. s
    BY <1>4
  <2>4. l \in ListOf(n, V, m)
    <3> HIDE DEF n, V, L, N, l, s
    <3>1. \A i \in 1 .. s : ks[i] \in ListOf(n, V, m)
      BY <1>1, <1>3, <1>4, <2>1, Chained
    <3>2. QED
      BY <2>3, <3>1 DEF l
  <2> HIDE DEF n, P, A, V, l
  <2>5. l \in 1 .. n /\ V[l] = m
    BY <1>1, <2>4 DEF ListOf
  <2>6. V[l] = Holder(P, A, l) /\ Holder(P, A, l) < l
    BY <1>1, <2>1, <2>2, <2>5, HoldersNat DEF V
  <2>7. QED
    BY <1>1, <2>5, <2>6
<1>6. Pointers(g, h,
        [i \in 1 .. n |-> IF i \in Links(s, ks) THEN id ELSE g.menus[i].parent],
        [i \in 1 .. n |-> IF i = m THEN 0 ELSE g.menus[i].list],
        [i \in 1 .. n |-> IF i = m THEN g.menus[m].list
                          ELSE IF i = l THEN g.menus[m].next ELSE g.menus[i].next])
  <2> DEFINE q == cs[Len(cs)].id
             last == ks[Len(ks)]
  <2>1. last \in 1 .. Len(g.menus) /\ last # m /\ m \in 1 .. Len(g.menus) /\ h = Spliced(g, q, m, ks)
    BY <1>3, <1>5
  <2>2. last = ks[Len(ks)]
    OBVIOUS
  <2>3. TreeRecord(g) /\ IsMenus(g.menus) /\ DOMAIN ks = 1 .. Len(ks)
    BY <1>2, <1>4
  <2> HIDE DEF q, last
  <2>4. Pointers(g, h,
             [i \in 1 .. Len(g.menus) |-> IF i \in Links(Len(ks), ks) THEN q
                                          ELSE g.menus[i].parent],
             [i \in 1 .. Len(g.menus) |-> IF i = m THEN 0 ELSE g.menus[i].list],
             [i \in 1 .. Len(g.menus) |-> IF i = m THEN g.menus[m].list
                                          ELSE IF i = last THEN g.menus[m].next ELSE g.menus[i].next])
    BY ONLY <2>1, <2>2, <2>3, SplicedLinks
  <2>5. QED
    BY <2>4 DEF q, last
<1> HIDE DEF P, L, N, Q, M, O
<1>7. /\ TreeRecord(h) /\ IsMenus(h.menus) /\ Len(h.menus) = n
      /\ \A i \in 1 .. n : /\ Q[i] = IF i \in Links(s, ks) THEN id ELSE g.menus[i].parent
                           /\ M[i] = IF i = m THEN 0 ELSE g.menus[i].list
                           /\ O[i] = IF i = m THEN g.menus[m].list
                                     ELSE IF i = l THEN g.menus[m].next ELSE g.menus[i].next
  <2> DEFINE P0 == [i \in 1 .. n |-> IF i \in Links(s, ks) THEN id ELSE g.menus[i].parent]
             L0 == [i \in 1 .. n |-> IF i = m THEN 0 ELSE g.menus[i].list]
             N0 == [i \in 1 .. n |-> IF i = m THEN g.menus[m].list
                                     ELSE IF i = l THEN g.menus[m].next ELSE g.menus[i].next]
  <2>1. Pointers(g, h, P0, L0, N0)
    BY <1>6
  <2> HIDE DEF id, l, s
  <2>2. ASSUME NEW i \in 1 .. n
        PROVE  /\ P0[i] = IF i \in Links(s, ks) THEN id ELSE g.menus[i].parent
               /\ L0[i] = IF i = m THEN 0 ELSE g.menus[i].list
               /\ N0[i] = IF i = m THEN g.menus[m].list
                          ELSE IF i = l THEN g.menus[m].next ELSE g.menus[i].next
    OBVIOUS
  <2> HIDE DEF P0, L0, N0
  <2>3. /\ TreeRecord(h) /\ IsMenus(h.menus) /\ Len(h.menus) = n
        /\ \A i \in 1 .. n : Q[i] = P0[i] /\ M[i] = L0[i] /\ O[i] = N0[i]
    BY <2>1, PointersAre DEF Q, M, O
  <2>4. ASSUME NEW i \in 1 .. n
        PROVE  /\ Q[i] = IF i \in Links(s, ks) THEN id ELSE g.menus[i].parent
               /\ M[i] = IF i = m THEN 0 ELSE g.menus[i].list
               /\ O[i] = IF i = m THEN g.menus[m].list
                         ELSE IF i = l THEN g.menus[m].next ELSE g.menus[i].next
    <3>1. Q[i] = P0[i] /\ M[i] = L0[i] /\ O[i] = N0[i]
      BY <2>3
    <3>2. QED
      BY ONLY <3>1, <2>2
  <2>5. QED
    BY <2>3, <2>4
<1>8. \A k \in 1 .. n : Q[k] = IF k \in Links(s, ks) THEN id ELSE P[k]
  <2> SUFFICES ASSUME NEW k \in 1 .. n
               PROVE  Q[k] = IF k \in Links(s, ks) THEN id ELSE P[k]
    OBVIOUS
  <2> HIDE DEF id, s, n
  <2>1. P[k] = g.menus[k].parent
    BY <1>1
  <2>2. Q[k] = IF k \in Links(s, ks) THEN id ELSE g.menus[k].parent
    BY <1>7
  <2>3. QED
    BY ONLY <2>1, <2>2
<1>9. \A i \in 1 .. n : M[i] = IF i = m THEN 0 ELSE L[i]
  BY <1>1, <1>7
<1>10. \A i \in 1 .. n : O[i] = IF i = m THEN L[m] ELSE IF i = l THEN N[m] ELSE N[i]
  <2> HIDE DEF l
  <2>1. QED
    BY <1>1, <1>3, <1>7
<1>11. h.menus[m].next = O[m]
  BY <1>3, <1>7 DEF O, Nexts
<1>12. /\ w.g = h /\ IsSeq(w.calls) /\ Len(w.calls) = c
       /\ \A i \in 1 .. c - 1 : w.calls[i] = cs[i]
       /\ w.calls[c] = Frame(id, "settle", O[m])
  <2> DEFINE y == O[m]
  <2> HIDE DEF y
  <2>1. w = Goes([g |-> h, calls |-> cs], "settle", y)
    BY <1>11 DEF y
  <2>2. IsSeq(cs) /\ cs # << >>
    BY <1>1, <1>2
  <2>3. /\ w.g = h /\ IsSeq(w.calls) /\ Len(w.calls) = c
        /\ \A i \in 1 .. c - 1 : w.calls[i] = cs[i]
        /\ w.calls[c] = Frame(id, "settle", y)
    BY ONLY <2>1, <2>2, GoesFacts DEF id
  <2>4. QED
    BY <2>3 DEF y
<1>13. WorkInv(n, Q, M, O, c, w.calls)
  <2>1. /\ WorkInv(n, P, L, N, c, cs) /\ cs[c].does = "settle"
        /\ m = cs[c].menu /\ m # 0 /\ L[m] # 0
    BY <1>2, <1>3
  <2>2. \A k \in 1 .. n : Q[k] = IF k \in Links(s, ks) THEN cs[c].id ELSE P[k]
    BY <1>8 DEF id
  <2>3. \A i \in 1 .. n : O[i] = IF i = m THEN L[m] ELSE IF i = ks[s] THEN N[m] ELSE N[i]
    BY <1>10 DEF l
  <2>4. /\ \A i \in 1 .. c - 1 : w.calls[i] = cs[i]
        /\ w.calls[c] = Frame(cs[c].id, "settle", O[m])
    BY <1>12 DEF id
  <2>5. Chain(n, N, L[m], s, ks)
    BY <1>4
  <2> DEFINE ds == w.calls
  <2>6. /\ \A i \in 1 .. c - 1 : ds[i] = cs[i]
        /\ ds[c] = Frame(cs[c].id, "settle", O[m])
    BY <2>4
  <2> HIDE DEF c, n, s, ds
  <2>7. WorkInv(n, Q, M, O, c, ds)
    BY ONLY <2>1, <2>2, <1>9, <2>3, <2>5, <2>6, SpliceStep
  <2>8. QED
    BY <2>7 DEF ds
<1>14. QED
  BY <1>7, <1>12, <1>13 DEF Working, Q, M, O

\* A round of the last loop.
LEMMA SettledWorks ==
    ASSUME NEW g, NEW cs, Working(g, cs), cs[Len(cs)].does = "settle", cs[Len(cs)].menu # 0,
           NEW ks, IsChain(g, g.menus[cs[Len(cs)].menu].list, ks), NEW h,
           NEW w, w = Settled([g |-> g, calls |-> cs], h, ks)
    PROVE  Working(w.g, w.calls)
<1> DEFINE k == Conditioned(g, h)
           m == cs[Len(cs)].menu
           id == cs[Len(cs)].id
           d == Dissolved(k, id, m, ks)
<1>1. /\ cs # << >> /\ m \in 1 .. Len(g.menus)
      /\ Top([g |-> g, calls |-> cs]) = cs[Len(cs)] /\ In([g |-> g, calls |-> cs]) = id
  <2>1. cs[Len(cs)].does # "follow" /\ cs[Len(cs)].menu # 0 /\ cs[Len(cs)].does # "enter"
    OBVIOUS
  <2>2. m \in 2 .. Len(g.menus) /\ Len(g.menus) \in Nat
    BY <2>1, WorkingFacts
  <2>3. QED
    BY <2>2, WorkingFacts
<1>2. /\ Working(k, cs) /\ Len(k.menus) = Len(g.menus)
      /\ \A i \in 1 .. Len(g.menus) : k.menus[i].list = g.menus[i].list /\ k.menus[i].next = g.menus[i].next
  BY ConditionedWorks
<1>3. w = Goes([g |-> d, calls |-> cs], "settle", d.menus[m].next)
  <2>1. w = Onward([g |-> d, calls |-> cs])
    BY <1>1 DEF Settled
  <2>2. Top([g |-> d, calls |-> cs]) = cs[Len(cs)]
    BY DEF Top
  <2> HIDE DEF d
  <2>3. QED
    BY <2>1, <2>2 DEF Onward
<1>4. IsChain(k, k.menus[m].list, ks)
  <2>1. DOMAIN k.menus = DOMAIN g.menus
    BY DEF Conditioned
  <2>2. DOMAIN g.menus = 1 .. Len(g.menus)
    BY SeqFacts DEF Working, IsMenus
  <2> HIDE DEF k, m
  <2>3. k.menus[m].list = g.menus[m].list
    BY <1>1, <1>2
  <2>4. ks \in Seq(1 .. Len(g.menus)) /\ IsChain(g, g.menus[m].list, ks)
    BY <2>2 DEF IsChain, m
  <2>5. CASE k.menus[m].list = 0
    BY <2>1, <2>3, <2>4, <2>5 DEF IsChain
  <2>6. CASE k.menus[m].list # 0
    <3>1. ks # << >>
      BY <2>3, <2>4, <2>6 DEF IsChain
    <3>2. Len(ks) \in Nat \ {0} /\ \A i \in 1 .. Len(ks) : ks[i] \in 1 .. Len(g.menus)
      BY <2>4, <3>1, ElementOfSeq, EmptySeq, LenProperties
    <3>3. \A i \in 1 .. Len(ks) : k.menus[ks[i]].next = g.menus[ks[i]].next
      BY <1>2, <3>2
    <3>4. Len(ks) \in 1 .. Len(ks) /\ \A i \in 1 .. Len(ks) - 1 : i \in 1 .. Len(ks)
      BY <3>2
    <3>5. QED
      BY <2>1, <2>3, <2>4, <2>6, <3>3, <3>4 DEF IsChain
  <2>7. QED
    BY <2>5, <2>6
<1>5. CASE k.menus[m].list # 0 /\ k.menus[m].prompt = 0
  <2>1. d = Spliced(k, cs[Len(cs)].id, m, ks)
    BY <1>5 DEF Dissolved
  <2> DEFINE q == cs[Len(cs)].id
  <2>2. d = Spliced(k, cs[Len(cs)].id, m, ks) /\ cs[Len(cs)].does = "settle" /\ m = cs[Len(cs)].menu /\ m # 0
    BY <2>1
  <2> HIDE DEF k, d, m
  <2>3. QED
    BY ONLY <1>2, <1>3, <1>4, <1>5, <2>2, SplicedWorks
<1>6. CASE ~(k.menus[m].list # 0 /\ k.menus[m].prompt = 0)
  <2>1. d = k
    BY <1>6 DEF Dissolved
  <2> HIDE DEF k, d
  <2>2. /\ w.g = k /\ IsSeq(w.calls) /\ Len(w.calls) = Len(cs)
        /\ \A i \in 1 .. Len(cs) - 1 : w.calls[i] = cs[i]
        /\ w.calls[Len(cs)] = Frame(cs[Len(cs)].id, "settle", Nexts(k)[m])
    <3>1. k.menus[m].next = Nexts(k)[m]
      BY <1>1, <1>2 DEF Nexts
    <3> DEFINE y == Nexts(k)[m]
    <3> HIDE DEF y
    <3>2. w = Goes([g |-> k, calls |-> cs], "settle", y)
      BY <1>3, <2>1, <3>1 DEF y
    <3>3. IsSeq(cs) /\ cs # << >>
      BY <1>1, <1>2 DEF Working
    <3>4. /\ w.g = k /\ IsSeq(w.calls) /\ Len(w.calls) = Len(cs)
          /\ \A i \in 1 .. Len(cs) - 1 : w.calls[i] = cs[i]
          /\ w.calls[Len(cs)] = Frame(cs[Len(cs)].id, "settle", y)
      BY ONLY <3>2, <3>3, GoesFacts
    <3>5. QED
      BY <3>4 DEF y
  <2>3. WorkInv(Len(k.menus), Parents(k), Lists(k), Nexts(k), Len(cs), cs)
    BY <1>2 DEF Working
  <2>4. WorkInv(Len(k.menus), Parents(k), Lists(k), Nexts(k), Len(cs), w.calls)
    BY <2>2, <2>3, NextSettled
  <2>5. QED
    BY <1>2, <2>2, <2>4 DEF Working
<1>7. QED
  BY <1>5, <1>6

\* A call returns to the loop it is part of.
LEMMA ReturnBelowWorks ==
    ASSUME NEW g, NEW cs, Working(g, cs), Len(cs) > 1, cs[Len(cs)].does = "settle",
           cs[Len(cs) - 1].does = "below",
           NEW w, w = AfterBelow(Popped([g |-> g, calls |-> cs]), cs[Len(cs)].id)
    PROVE  Working(w.g, w.calls)
<1> DEFINE c == Len(cs)
           n == Len(g.menus)
           id == cs[c].id
           v == Popped([g |-> g, calls |-> cs])
           y == Nexts(g)[id]
<1>1. c \in Nat \ {0} /\ id \in 1 .. n /\ y = g.menus[id].next
  BY WorkingFacts
<1>2. WorkInv(n, Parents(g), Lists(g), Nexts(g), c, cs) /\ IsSeq(cs)
  BY DEF Working
<1>3. /\ v = [g |-> g, calls |-> v.calls] /\ IsSeq(v.calls) /\ Len(v.calls) = c - 1
      /\ v.calls # << >> /\ \A i \in 1 .. c - 1 : v.calls[i] = cs[i]
  BY <1>2, PoppedFacts
<1> HIDE DEF v, y
<1>4. w = Goes([g |-> g, calls |-> v.calls], "below", y)
  <2>1. w = AfterBelow(v, id)
    BY DEF v
  <2> HIDE DEF id
  <2>2. w = Goes(v, "below", v.g.menus[id].next)
    BY ONLY <2>1 DEF AfterBelow
  <2>3. v.g = g
    BY <1>3
  <2>4. w = Goes(v, "below", y)
    BY <1>1, <2>2, <2>3
  <2>5. QED
    BY <1>3, <2>4
<1> DEFINE vs == v.calls
<1>5. /\ w.g = g /\ IsSeq(w.calls) /\ Len(w.calls) = Len(vs)
      /\ \A i \in 1 .. Len(vs) - 1 : w.calls[i] = vs[i]
      /\ w.calls[Len(vs)] = Frame(vs[Len(vs)].id, "below", y)
  <2>1. IsSeq(vs) /\ vs # << >> /\ w = Goes([g |-> g, calls |-> vs], "below", y)
    BY <1>3, <1>4
  <2> HIDE DEF vs
  <2>2. QED
    BY ONLY <2>1, GoesFacts
<1>6. /\ Len(w.calls) = c - 1 /\ \A i \in 1 .. (c - 1) - 1 : w.calls[i] = cs[i]
      /\ w.calls[c - 1] = Frame(cs[c - 1].id, "below", Nexts(g)[cs[c].id])
  <2>1. c - 1 \in 1 .. c - 1 /\ \A i \in 1 .. (c - 1) - 1 : i \in 1 .. c - 1
    BY <1>1
  <2>2. QED
    BY <1>3, <1>5, <2>1 DEF y
<1>7. WorkInv(n, Parents(g), Lists(g), Nexts(g), c - 1, w.calls)
  <2>1. c > 1 /\ cs[c].does = "settle" /\ cs[c - 1].does = "below"
    OBVIOUS
  <2> HIDE DEF c, n
  <2>2. QED
    BY ONLY <1>2, <1>6, <2>1, BelowReturned
<1>8. QED
  BY <1>5, <1>6, <1>7 DEF Working

\* A call for a follower returns: the follower is taken.
LEMMA ReturnFollowerWorks ==
    ASSUME NEW g, NEW cs, Working(g, cs), Len(cs) > 1, cs[Len(cs)].does = "settle",
           cs[Len(cs) - 1].does = "follow",
           NEW w, w = AfterFollower(Popped([g |-> g, calls |-> cs]), cs[Len(cs)].id)
    PROVE  Working(w.g, w.calls)
<1> DEFINE c == Len(cs)
           n == Len(g.menus)
           P == Parents(g)
           L == Lists(g)
           N == Nexts(g)
           id == cs[c].id
           q == cs[c - 1].id
           v == Popped([g |-> g, calls |-> cs])
           h == [g EXCEPT !.menus[id].parent = q]
           P0 == [i \in 1 .. n |-> IF i = id THEN q ELSE g.menus[i].parent]
<1>1. /\ c \in Nat \ {0} /\ n \in Nat /\ id \in 1 .. n
      /\ \A i \in 1 .. n : P[i] = g.menus[i].parent
  BY WorkingFacts
<1>2. /\ WorkInv(n, P, L, N, c, cs) /\ IsSeq(cs) /\ TreeRecord(g) /\ IsMenus(g.menus)
  BY DEF Working
<1>3. /\ v = [g |-> g, calls |-> v.calls] /\ IsSeq(v.calls) /\ Len(v.calls) = c - 1
      /\ v.calls # << >> /\ \A i \in 1 .. c - 1 : v.calls[i] = cs[i]
  BY <1>2, PoppedFacts
<1>4. Pointers(g, h, P0, L, N)
  <2>1. TreeRecord(g) /\ IsMenus(g.menus) /\ id \in 1 .. Len(g.menus)
    BY <1>1, <1>2
  <2> HIDE DEF id, q
  <2>2. QED
    BY ONLY <2>1, TakenLinks DEF h, P0, L, N, n
<1> DEFINE vs == v.calls
<1> HIDE DEF v, P, L, N
<1>5. c - 1 \in 1 .. c - 1 /\ c - 1 = Len(vs) /\ vs[c - 1] = cs[c - 1]
  BY <1>1, <1>3
<1>6. w = Goes([g |-> h, calls |-> vs], "follow", id)
  <2>1. w = AfterFollower(v, id)
    BY DEF v
  <2>2. In(v) = q
    BY <1>5 DEF In, Top
  <2>3. v.g = g
    BY <1>3
  <2> HIDE DEF id, q
  <2>4. [v EXCEPT !.g.menus[id].parent = In(v)] = [g |-> h, calls |-> vs]
    BY <1>3, <2>2, <2>3
  <2> HIDE DEF h
  <2>5. QED
    BY <2>1, <2>4 DEF AfterFollower
<1> HIDE DEF h, P0
<1>7. /\ TreeRecord(h) /\ IsMenus(h.menus) /\ Len(h.menus) = n
      /\ \A i \in 1 .. n : Parents(h)[i] = P0[i] /\ Lists(h)[i] = L[i] /\ Nexts(h)[i] = N[i]
  BY <1>4, PointersAre
<1>8. Lists(h) = L /\ Nexts(h) = N
  <2>1. L = [i \in 1 .. n |-> L[i]] /\ N = [i \in 1 .. n |-> N[i]]
    BY DEF L, N, Lists, Nexts
  <2>2. Lists(h) = [i \in 1 .. n |-> Lists(h)[i]] /\ Nexts(h) = [i \in 1 .. n |-> Nexts(h)[i]]
    BY <1>7 DEF Lists, Nexts
  <2>3. QED
    BY <1>7, <2>1, <2>2
<1>9. /\ w.g = h /\ IsSeq(w.calls) /\ Len(w.calls) = Len(vs)
      /\ \A i \in 1 .. Len(vs) - 1 : w.calls[i] = vs[i]
      /\ w.calls[Len(vs)] = Frame(vs[Len(vs)].id, "follow", id)
  <2>1. IsSeq(vs) /\ vs # << >> /\ w = Goes([g |-> h, calls |-> vs], "follow", id)
    BY <1>3, <1>6
  <2> HIDE DEF vs, id
  <2>2. QED
    BY ONLY <2>1, GoesFacts
<1>10. /\ Len(w.calls) = c - 1 /\ \A i \in 1 .. (c - 1) - 1 : w.calls[i] = cs[i]
       /\ w.calls[c - 1] = Frame(cs[c - 1].id, "follow", cs[c].id)
  <2>1. \A i \in 1 .. (c - 1) - 1 : i \in 1 .. c - 1
    BY <1>1
  <2>2. QED
    BY <1>3, <1>5, <1>9, <2>1
<1> DEFINE Q == Parents(h)
<1>11. \A j \in 1 .. n : Q[j] = IF j = cs[c].id THEN cs[c - 1].id ELSE P[j]
  <2> SUFFICES ASSUME NEW j \in 1 .. n
               PROVE  Q[j] = IF j = cs[c].id THEN cs[c - 1].id ELSE P[j]
    OBVIOUS
  <2>1. P[j] = g.menus[j].parent /\ Q[j] = P0[j]
    BY <1>1, <1>7
  <2>2. P0[j] = IF j = id THEN q ELSE g.menus[j].parent
    BY DEF P0
  <2> HIDE DEF Q
  <2>3. QED
    BY ONLY <2>1, <2>2
<1>12. WorkInv(n, Q, L, N, c - 1, w.calls)
  <2>1. c > 1 /\ cs[c].does = "settle" /\ cs[c - 1].does = "follow"
    OBVIOUS
  <2>2. WorkInv(n, P, L, N, c, cs)
    BY <1>2
  <2> HIDE DEF c, n, Q
  <2>3. QED
    BY ONLY <1>10, <1>11, <2>1, <2>2, FollowerReturned
<1>13. QED
  BY <1>7, <1>8, <1>9, <1>10, <1>12 DEF Working

\* The pointers of a finished tree are what TreeKept says.
LEMMA ThreadedTree ==
    ASSUME NEW g, IsMenus(g.menus), Ordered(Len(g.menus), Parents(g)),
           Threaded(Len(g.menus), Parents(g), Lists(g), Nexts(g))
    PROVE  ListsAgree(g) /\ StatementOrder(g)
<1> DEFINE n == Len(g.menus)
           P == Parents(g)
<1>1. /\ n \in Nat
      /\ \A i \in 1 .. n : /\ P[i] = g.menus[i].parent /\ Lists(g)[i] = g.menus[i].list
                           /\ Nexts(g)[i] = g.menus[i].next
  BY SeqFacts DEF IsMenus, Parents, Lists, Nexts
<1>2. \A k \in 2 .. n : k \in 1 .. n
  BY <1>1
<1>3. \A i : ListOf(n, P, i) = Kids(g, i)
  BY <1>1, <1>2 DEF ListOf, Kids
<1>4. \A i, q : After(n, P, i, q) = {k \in Kids(g, q) : k > i}
  BY <1>1, <1>2 DEF After, Kids
<1>5. ListsAgree(g)
  <2> SUFFICES ASSUME NEW i \in 1 .. n
               PROVE  /\ IsFirst(g.menus[i].list, Kids(g, i))
                      /\ IsFirst(g.menus[i].next, {k \in Kids(g, g.menus[i].parent) : k > i})
    BY DEF ListsAgree
  <2>1. IsFirst(Lists(g)[i], ListOf(n, P, i)) /\ IsFirst(Nexts(g)[i], After(n, P, i, P[i]))
    BY DEF Threaded
  <2>2. Lists(g)[i] = g.menus[i].list /\ Nexts(g)[i] = g.menus[i].next /\ P[i] = g.menus[i].parent
    BY <1>1
  <2> HIDE DEF P, n
  <2>3. QED
    BY <1>3, <1>4, <2>1, <2>2
<1>6. StatementOrder(g)
  <2> SUFFICES ASSUME NEW k \in 2 .. n
               PROVE  /\ g.menus[k].parent \in 1 .. k - 1
                      /\ \A j \in g.menus[k].parent + 1 .. k - 1 :
                           g.menus[j].parent >= g.menus[k].parent
    BY DEF StatementOrder
  <2>1. /\ P[k] \in 1 .. n /\ P[k] < k /\ P[k] = g.menus[k].parent
        /\ \A j \in 2 .. n : P[k] < j /\ j < k => P[k] <= P[j]
    BY <1>1, <1>2 DEF Ordered
  <2> HIDE DEF P, n
  <2>2. g.menus[k].parent \in 1 .. k - 1
    BY <1>1, <2>1
  <2>3. ASSUME NEW j \in g.menus[k].parent + 1 .. k - 1
        PROVE  g.menus[j].parent >= g.menus[k].parent
    <3>1. j \in 2 .. n /\ P[k] < j /\ j < k /\ j \in 1 .. n
      BY <1>1, <2>1
    <3>2. P[k] <= P[j] /\ P[j] = g.menus[j].parent
      BY <1>1, <2>1, <3>1
    <3>3. P[j] \in 1 .. n
      BY <1>2, <3>1 DEF Ordered, P, n
    <3>4. QED
      BY <1>1, <2>1, <3>2, <3>3
  <2>4. QED
    BY <2>2, <2>3
<1>7. QED
  BY <1>5, <1>6

\* The last call returns.
LEMMA LastWorks ==
    ASSUME NEW g, NEW cs, Working(g, cs), Len(cs) = 1, cs[Len(cs)].does = "settle"
    PROVE  ListsAgree(g) /\ StatementOrder(g)
<1>1. WorkInv(Len(g.menus), Parents(g), Lists(g), Nexts(g), Len(cs), cs) /\ IsMenus(g.menus)
  BY DEF Working
<1>2. Ordered(Len(g.menus), Parents(g)) /\ Threaded(Len(g.menus), Parents(g), Lists(g), Nexts(g))
  BY <1>1, LastReturned
<1>3. QED
  BY <1>1, <1>2, ThreadedTree

\* The first call begins, on the tree of the statements.
LEMMA FinishWorks ==
    ASSUME NEW g, Tree(g), Shaped(g), NEW cs, cs = << Frame(Root, "enter", 0) >>
    PROVE  Working(g, cs)
<1> DEFINE n == Len(g.menus)
           P == Parents(g)
           L == Lists(g)
           N == Nexts(g)
<1>1. TreeRecord(g) /\ IsMenus(g.menus) /\ n \in Nat \ {0} /\ 1 \in 1 .. n
  <2>1. n \in Nat /\ g.menu \in 1 .. n
    BY SeqFacts DEF Tree, IsMenus
  <2>2. QED
    BY <2>1 DEF Tree
<1>2. Ordered(n, P) /\ Threaded(n, P, L, N)
  BY DEF Shaped
<1> DEFINE f == Frame(Root, "enter", 0)
<1>3. f.id = 1 /\ f.does = "enter" /\ f.menu = 0
  BY DEF Frame, Root
<1> HIDE DEF f
<1>4. cs = <<f>>
  BY DEF f
<1>5. IsSeq(cs) /\ Len(cs) = 1 /\ cs[1] = f
  <2>1. <<f>> \in Seq({f}) /\ Len(<<f>>) = 1 /\ <<f>>[1] = f
    OBVIOUS
  <2>2. QED
    BY <1>4, <2>1 DEF IsSeq
<1>6. Taking(1, cs) = {}
  BY <1>3, <1>5 DEF Taking
<1> HIDE DEF P, L, N, n
<1>7. Threaded(n, Holders(n, P, {}), L, N)
  <2>1. \A k \in 1 .. n : Holders(n, P, {})[k] = P[k]
    BY DEF Holders, Holder
  <2>2. \A k \in 2 .. n : k \in 1 .. n
    BY <1>1
  <2>3. \A i : ListOf(n, Holders(n, P, {}), i) = ListOf(n, P, i)
    BY <2>1, <2>2 DEF ListOf
  <2>4. \A i, q : After(n, Holders(n, P, {}), i, q) = After(n, P, i, q)
    BY <2>1, <2>2 DEF After
  <2>5. QED
    BY <1>2, <2>1, <2>3, <2>4 DEF Threaded
<1>8. Stacked(n, P, 1, cs)
  <2>1. \A i \in 1 .. 1 : i = 1
    OBVIOUS
  <2>2. \A i : i \notin 1 .. 1 - 1
    OBVIOUS
  <2>3. TopOK(n, P, cs[1])
    BY <1>3, <1>5 DEF TopOK
  <2>4. Based(n, P, 1, cs)
    BY <1>1, <1>3, <1>5, <2>1, <2>2 DEF Based
  <2>5. QED
    BY <2>3, <2>4 DEF Stacked
<1>9. Alone(n, P, {})
  BY DEF Alone
<1>10. WorkInv(n, P, L, N, Len(cs), cs)
  BY <1>1, <1>2, <1>5, <1>6, <1>7, <1>8, <1>9 DEF WorkInv
<1>11. QED
  BY <1>1, <1>5, <1>10 DEF Working, P, L, N, n

-----------------------------------------------------------------------------
(* The theorem of menu_finalize *)

\* What holds of the tree and the calls, stage by stage.
FinalizeInv ==
  /\ Parsing => ParserInv(p)
  /\ Finalizing => ParserRecord(p) /\ Working(p.g, calls)
  /\ Finalized => ListsAgree(p.g) /\ StatementOrder(p.g)

LEMMA StatementsParse ==
    ASSUME StatementNext
    PROVE  Parsing
BY DEF StatementNext, EntryNext, OptionNext, EndBlock, ConfigEntry, ChoiceEntry, MenuEntry,
       CommentEntry, Entry, IfEntry, NoEntry, ReduceIf, DependsOption, PropOption, TypeOption,
       PromptedOption, DefaultOption, OptionalOption, ModulesOption, HelpOption, Reducing

LEMMA BecomesInv ==
    ASSUME ParserRecord(p), NEW w, Becomes(w)
    PROVE  /\ ParserRecord(p') /\ p'.g = w.g /\ calls' = w.calls
BY DEF Becomes, ParserRecord

LEMMA FinishInv ==
    ASSUME ParserInv(p), NEW named, Finish(named)
    PROVE  ParserRecord(p') /\ Working(p'.g, calls')
<1> DEFINE r == Opened(p)
           g == IF named THEN r.g ELSE DefaultModules(r.g, "MODULES")
<1>1. ParserInv(r)
  BY OpenedInv
<1> HIDE DEF r
<1>2. ParserRecord(r) /\ Tree(r.g) /\ Shaped(r.g)
  BY <1>1 DEF ParserInv, Nested
<1>3. p' = [r EXCEPT !.g = g] /\ calls' = << Frame(Root, "enter", 0) >>
  BY <1>2 DEF Finish, ParserRecord, r
<1>4. SameTree(r.g, g)
  <2>1. SameTree(r.g, r.g) /\ SameTree(r.g, DefaultModules(r.g, "MODULES"))
    BY <1>2, SameSelf, PropsSame DEF DefaultModules
  <2>2. QED
    BY <2>1
<1> HIDE DEF g
<1>5. ParserRecord(p') /\ p'.g = g
  BY <1>2, <1>3 DEF ParserRecord
<1>6. Tree(g) /\ Shaped(g)
  BY <1>2, <1>4, SameIsTree, ShapedSame
<1>7. Working(g, calls')
  BY <1>3, <1>6, FinishWorks
<1>8. QED
  BY <1>5, <1>7

\* A step of menu_finalize, but the last.
LEMMA StepInv ==
    ASSUME FinalizeInv, Finalizing, FinalizeStep, \A h : ~ReturnLast(h)
    PROVE  /\ ParserRecord(p') /\ Working(p'.g, calls') /\ status' = status
<1> DEFINE g == p.g
           c == Len(calls)
           top == calls[c]
<1>1. ParserRecord(p) /\ Working(g, calls)
  BY DEF FinalizeInv
<1>2. /\ Work = [g |-> g, calls |-> calls] /\ Top(Work) = top /\ In(Work) = top.id
      /\ top.id \in 1 .. Len(g.menus) /\ c \in Nat \ {0}
  BY <1>1, WorkingFacts DEF Work
<1>3. \A does : Within(does) => top.does = does /\ status' = status
  BY <1>2 DEF Within
<1>4. ASSUME NEW w, Becomes(w), Working(w.g, w.calls)
      PROVE  ParserRecord(p') /\ Working(p'.g, calls')
  BY <1>1, <1>4, BecomesInv
<1> HIDE DEF Work
<1>5. ASSUME NEW h, EnterMenu(h)
      PROVE  ParserRecord(p') /\ Working(p'.g, calls') /\ status' = status
  <2>1. top.does = "enter" /\ status' = status /\ Becomes(Descended(Work, h))
    BY <1>3, <1>5 DEF EnterMenu
  <2>2. Working(Descended(Work, h).g, Descended(Work, h).calls)
    BY <1>1, <1>2, <2>1, DescendedWorks
  <2>3. QED
    BY <1>4, <2>1, <2>2
<1>6. CASE EnterEntry
  <2>1. /\ top.does = "enter" /\ status' = status /\ Becomes(Goes(Work, "follow", 0))
        /\ g.menus[top.id].list = 0
    BY <1>2, <1>3, <1>6 DEF EnterEntry, Self
  <2>2. Working(Goes(Work, "follow", 0).g, Goes(Work, "follow", 0).calls)
    BY <1>1, <1>2, <2>1, FollowsWorks
  <2>3. QED
    BY <1>4, <2>1, <2>2
<1>7. CASE EnterLeaf \/ BelowDone
  <2>1. top.does # "follow" /\ status' = status /\ Becomes(Settles(Work))
    BY <1>3, <1>7 DEF EnterLeaf, BelowDone
  <2>2. Working(Settles(Work).g, Settles(Work).calls)
    BY <1>1, <1>2, <2>1, SettlesWorks
  <2>3. QED
    BY <1>4, <2>1, <2>2
<1>8. CASE CallBelow
  <2>1. /\ top.does = "below" /\ status' = status /\ top.menu # 0
        /\ Becomes(Called(Work, top.menu))
    BY <1>2, <1>3, <1>8 DEF CallBelow
  <2>2. Working(Called(Work, top.menu).g, Called(Work, top.menu).calls)
    BY <1>1, <1>2, <2>1, CalledWorks
  <2>3. QED
    BY <1>4, <2>1, <2>2
<1>9. CASE CallFollower
  <2>1. /\ top.does = "follow" /\ status' = status /\ Follower(Work) # 0
        /\ Becomes(Called(Work, Follower(Work)))
    BY <1>2, <1>3, <1>9 DEF CallFollower
  <2>2. Working(Called(Work, Follower(Work)).g, Called(Work, Follower(Work)).calls)
    BY <1>1, <1>2, <2>1, CalledWorks
  <2>3. QED
    BY <1>4, <2>1, <2>2
<1>10. CASE Adopt
  <2>1. top.does = "follow" /\ status' = status /\ Becomes(Adopts(Work))
    BY <1>2, <1>3, <1>10 DEF Adopt
  <2>2. Working(Adopts(Work).g, Adopts(Work).calls)
    BY <1>1, <1>2, <2>1, AdoptsWorks
  <2>3. QED
    BY <1>4, <2>1, <2>2
<1>11. ASSUME NEW h, NEW ks, SettleEntry(h, ks)
       PROVE  ParserRecord(p') /\ Working(p'.g, calls') /\ status' = status
  <2>1. /\ top.does = "settle" /\ status' = status /\ top.menu # 0
        /\ IsChain(g, g.menus[top.menu].list, ks) /\ Becomes(Settled(Work, h, ks))
    BY <1>2, <1>3, <1>11 DEF SettleEntry
  <2>2. Working(Settled(Work, h, ks).g, Settled(Work, h, ks).calls)
    BY <1>1, <1>2, <2>1, SettledWorks
  <2>3. QED
    BY <1>4, <2>1, <2>2
<1>12. ASSUME NEW h, ReturnBelow(h) \/ ReturnFollower(h)
       PROVE  ParserRecord(p') /\ Working(p'.g, calls') /\ status' = status
  <2> DEFINE k == Conditioned(g, h)
             v == Popped([g |-> k, calls |-> calls])
  <2>1. Working(k, calls)
    BY <1>1, ConditionedWorks
  <2>2. Ended(h) = v
    BY <1>2 DEF Ended
  <2>3. top.does = "settle" /\ status' = status /\ c > 1
    BY <1>3, <1>12 DEF ReturnBelow, ReturnFollower, Returning
  <2>4. Top(Popped(Work)) = calls[c - 1]
    <3>1. IsSeq(calls)
      BY <1>1 DEF Working
    <3> DEFINE u == Popped([g |-> g, calls |-> calls])
    <3>2. Len(u.calls) = c - 1 /\ \A i \in 1 .. c - 1 : u.calls[i] = calls[i]
      BY <2>3, <3>1, PoppedFacts
    <3>3. c - 1 \in 1 .. c - 1
      BY <1>2, <2>3
    <3> HIDE DEF u
    <3>4. Top(u) = calls[c - 1]
      BY <3>2, <3>3 DEF Top
    <3>5. QED
      BY <1>2, <3>4 DEF u
  <2> HIDE DEF k, v
  <2>5. CASE ReturnBelow(h)
    <3>1. calls[c - 1].does = "below" /\ Becomes(AfterBelow(v, top.id))
      BY <1>2, <2>2, <2>4, <2>5 DEF ReturnBelow
    <3>2. Working(AfterBelow(v, top.id).g, AfterBelow(v, top.id).calls)
      BY <2>1, <2>3, <3>1, ReturnBelowWorks DEF v
    <3>3. QED
      BY <1>4, <2>3, <3>1, <3>2
  <2>6. CASE ReturnFollower(h)
    <3>1. calls[c - 1].does = "follow" /\ Becomes(AfterFollower(v, top.id))
      BY <1>2, <2>2, <2>4, <2>6 DEF ReturnFollower
    <3>2. Working(AfterFollower(v, top.id).g, AfterFollower(v, top.id).calls)
      BY <2>1, <2>3, <3>1, ReturnFollowerWorks DEF v
    <3>3. QED
      BY <1>4, <2>3, <3>1, <3>2
  <2>7. QED
    BY <1>12, <2>5, <2>6
<1>13. QED
  BY <1>5, <1>6, <1>7, <1>8, <1>9, <1>10, <1>11, <1>12 DEF FinalizeStep

\* The last step of menu_finalize.
LEMMA LastInv ==
    ASSUME FinalizeInv, NEW h, ReturnLast(h)
    PROVE  ListsAgree(p'.g) /\ StatementOrder(p'.g) /\ status' = "checking"
<1> DEFINE k == Conditioned(p.g, h)
           v == Popped([g |-> k, calls |-> calls])
<1>1. ParserRecord(p) /\ Working(p.g, calls)
  BY DEF FinalizeInv, ReturnLast
<1>2. Len(calls) = 1 /\ calls[Len(calls)].does = "settle" /\ Becomes(v) /\ status' = "checking"
  <2>1. Len(calls) = 1 /\ Top(Work).does = "settle" /\ Becomes(Ended(h)) /\ status' = "checking"
    BY DEF ReturnLast
  <2>2. Top(Work) = calls[Len(calls)]
    BY DEF Work, Top
  <2>3. Ended(h) = v
    <3>1. [Work EXCEPT !.g = Conditioned(Work.g, h)] = [g |-> k, calls |-> calls]
      BY DEF Work
    <3> HIDE DEF k
    <3>2. QED
      BY <3>1 DEF Ended
  <2> HIDE DEF v
  <2>4. QED
    BY <2>1, <2>2, <2>3
<1>3. Working(k, calls)
  BY <1>1, ConditionedWorks
<1>4. v.g = k
  BY DEF Popped
<1> HIDE DEF k, v
<1>5. p'.g = k
  BY <1>1, <1>2, <1>4, BecomesInv
<1>6. QED
  BY <1>2, <1>3, <1>5, LastWorks

\* menu_finalize neither loses, repeats nor reorders an entry, whatever the statements
\* were and whatever their conditions and dependencies are found to be: in the tree it
\* leaves, the list of a menu holds the entries it is the parent of, in the order of
\* their statements, and the submenus are closed intervals of that order.
THEOREM TreeKeptCorrect == FinalizeSpec => []TreeKept
<1>1. FinalizeInit => FinalizeInv
  <2> SUFFICES ASSUME FinalizeInit
               PROVE  FinalizeInv
    OBVIOUS
  <2>1. ParserInv(p) /\ status = "parsing"
    BY InitInv DEF FinalizeInit, BlocksInit
  <2>2. QED
    BY <2>1 DEF FinalizeInv, Finalizing, Finalized
<1>2. FinalizeInv /\ [FinalizeNext]_<<p, status, calls>> => FinalizeInv'
  <2> SUFFICES ASSUME FinalizeInv, [FinalizeNext]_<<p, status, calls>>
               PROVE  FinalizeInv'
    OBVIOUS
  <2>1. CASE UNCHANGED <<p, status, calls>>
    BY <2>1 DEF FinalizeInv, Parsing, Finalizing, Finalized
  <2>2. CASE StatementNext /\ UNCHANGED <<status, calls>>
    <3>1. Parsing /\ ParserInv(p)
      BY <2>2, StatementsParse DEF FinalizeInv
    <3>2. ParserInv(p') /\ status' = "parsing"
      BY <2>2, <3>1, StatementsInv DEF Parsing
    <3>3. QED
      BY <3>2 DEF FinalizeInv, Parsing, Finalizing, Finalized
  <2>3. ASSUME NEW named \in BOOLEAN, Finish(named)
        PROVE  FinalizeInv'
    <3>1. ParserInv(p) /\ status' = "finalizing"
      BY <2>3 DEF FinalizeInv, Finish, Reducing
    <3>2. ParserRecord(p') /\ Working(p'.g, calls')
      BY <2>3, <3>1, FinishInv
    <3>3. QED
      BY <3>1, <3>2 DEF FinalizeInv, Parsing, Finalizing, Finalized
  <2>4. CASE FinalizeStep
    <3>1. CASE \E h : ReturnLast(h)
      <4>1. ListsAgree(p'.g) /\ StatementOrder(p'.g) /\ status' = "checking"
        BY <3>1, LastInv
      <4>2. QED
        BY <4>1 DEF FinalizeInv, Parsing, Finalizing, Finalized
    <3>2. CASE \A h : ~ReturnLast(h)
      <4>1. Finalizing
        BY <2>4, <3>2 DEF FinalizeStep, EnterMenu, EnterEntry, EnterLeaf, CallBelow, BelowDone,
              CallFollower, Adopt, SettleEntry, ReturnBelow, ReturnFollower, Returning, Within
      <4>2. ParserRecord(p') /\ Working(p'.g, calls') /\ status' = "finalizing"
        BY <2>4, <3>2, <4>1, StepInv DEF Finalizing
      <4>3. QED
        BY <4>2 DEF FinalizeInv, Parsing, Finalizing, Finalized
    <3>3. QED
      BY <3>1, <3>2
  <2>5. CASE Fails
    BY <2>5 DEF FinalizeInv, Fails, Parsing, Finalizing, Finalized
  <2>6. CASE Checked
    BY <2>6 DEF FinalizeInv, Checked, Parsing, Finalizing, Finalized
  <2>7. QED
    BY <2>1, <2>2, <2>3, <2>4, <2>5, <2>6 DEF FinalizeNext
<1>3. FinalizeInv => TreeKept
  BY DEF FinalizeInv, TreeKept
<1>4. QED
  BY <1>1, <1>2, <1>3, PTL DEF FinalizeSpec

-----------------------------------------------------------------------------
(* The search for recursive dependencies *)

\* A call is for a symbol that is no value, and within its group.
SearchFrame == [id : Symbols, at : Nat, n : Nat \ {0}]
FrameOK(d, f) ==
    /\ ~IsValue(d, f.id)
    /\ f.at # 0 => f.id \in ChoiceSyms /\ f.at <= Len(d.values[f.id])
Marking == [check : SUBSET Symbols, checked : SUBSET Symbols, errs : Nat]
SearchType == IsGraph(deps) /\ path \in Seq(SearchFrame) /\ marks \in Marking /\ todo \in SUBSET Symbols

\* The flags are those of the calls on the way, one for each symbol; a choice is
\* marked together with its values.
CallsOK(d, q, seen) == \A j \in DOMAIN q : FrameOK(d, q[j]) /\ Group(d, q[j].id) \subseteq seen
Distinct(q) == \A j, k \in DOMAIN q : q[j].id = q[k].id => j = k
HeldBy(d, q) == UNION {Held(d, q[j]) : j \in DOMAIN q}
Together(d, seen) == \A c \in ChoiceSyms : \A v \in Values(d, c) : c \in seen <=> v \in seen
WayInv ==
    /\ CallsOK(deps, path, marks.checked)
    /\ Distinct(path)
    /\ marks.check = HeldBy(deps, path)
    /\ Together(deps, marks.checked)

\* Each call depends on the one it is waiting for.
Linking(d, q) == \A j \in DOMAIN q : j < Len(q) => Most(d)[q[j].id] \cap Group(d, q[j + 1].id) # {}
LinkInv == Linking(deps, path)
SoundInv == marks.errs > 0 => Recursive(Most(deps))

\* What the search is done with depends on nothing else, and is not recursive; and a
\* call has gone over what is done.
Done(m) == m.checked \ m.check
Closed(d, F) == \A s \in F : Least(d)[s] \subseteq F
Acyclic(d, F) == \A S \in SUBSET F : S # {} => \E s \in S : Least(d)[s] \cap S = {}
Over(l, n, F) == \A i \in DOMAIN l : i < n => l[i] \in F
Seen(d, f, F) ==
    /\ Over(Listed(d, f), f.n, F)
    /\ f.at # 0 => /\ On(d, f.id) \subseteq F
                   /\ \A k \in DOMAIN d.values[f.id] : k < f.at => On(d, d.values[f.id][k]) \subseteq F
AllSeen(d, q, F) == \A j \in DOMAIN q : Seen(d, q[j], F)
DoneInv ==
    marks.errs = 0 =>
      Closed(deps, Done(marks)) /\ Acyclic(deps, Done(marks)) /\ AllSeen(deps, path, Done(marks))

\* What is not left to start with has been seen, unless it depends on nothing.
StartInv == \A s \in Symbols \ todo : deps.on[s] # << >> => s \in marks.checked

SearchInv == SearchType /\ WayInv /\ LinkInv /\ SoundInv /\ DoneInv /\ StartInv

\* A value has one choice, which is no value.
LEMMA ValueFacts ==
    ASSUME NEW d, IsGraph(d)
    PROVE  /\ \A c \in ChoiceSyms : Values(d, c) \in SUBSET Symbols /\ ~IsValue(d, c)
           /\ \A c \in ChoiceSyms : \A v \in Values(d, c) :
                IsValue(d, v) /\ ChoiceFor(d, v) = c /\ v \notin ChoiceSyms
           /\ \A s : IsValue(d, s) =>
                ChoiceFor(d, s) \in ChoiceSyms /\ s \in Values(d, ChoiceFor(d, s))
<1>1. ASSUME NEW c \in ChoiceSyms
      PROVE  Values(d, c) \in SUBSET Symbols /\ ~IsValue(d, c)
  BY DEF IsGraph, Values, IsValue
<1>2. ASSUME NEW s, IsValue(d, s)
      PROVE  ChoiceFor(d, s) \in ChoiceSyms /\ s \in Values(d, ChoiceFor(d, s))
  BY <1>2 DEF IsValue, ChoiceFor
<1>3. ASSUME NEW c \in ChoiceSyms, NEW v \in Values(d, c)
      PROVE  IsValue(d, v) /\ ChoiceFor(d, v) = c /\ v \notin ChoiceSyms
  <2>1. IsValue(d, v)
    BY DEF IsValue
  <2>2. ChoiceFor(d, v) \in ChoiceSyms /\ v \in Values(d, ChoiceFor(d, v))
    BY <2>1, <1>2
  <2>3. ChoiceFor(d, v) = c
    BY <2>2 DEF IsGraph
  <2>4. QED
    BY <2>1, <2>3 DEF IsGraph
<1>4. QED
  BY <1>1, <1>2, <1>3

LEMMA OnFacts ==
    ASSUME NEW d, IsGraph(d)
    PROVE  /\ \A s \in Symbols : On(d, s) \in SUBSET Symbols /\ d.on[s] \in Seq(Symbols)
           /\ \A c \in ChoiceSyms : d.values[c] \in Seq(Symbols)
           /\ \A c \in ChoiceSyms : GroupOn(d, c) \in SUBSET Symbols
<1>1. ASSUME NEW s \in Symbols
      PROVE  On(d, s) \in SUBSET Symbols /\ d.on[s] \in Seq(Symbols)
  BY DEF IsGraph, On
<1>2. \A c \in ChoiceSyms : d.values[c] \in Seq(Symbols)
  BY DEF IsGraph
<1>3. ASSUME NEW c \in ChoiceSyms
      PROVE  GroupOn(d, c) \in SUBSET Symbols
  <2>1. c \in Symbols
    BY ChoiceAssumption DEF Symbols
  <2>2. \A v \in Values(d, c) : On(d, v) \in SUBSET Symbols
    BY <1>1, ValueFacts
  <2>3. QED
    BY <2>1, <2>2, <1>1 DEF GroupOn
<1>4. QED
  BY <1>1, <1>2, <1>3

\* The groups of symbols that are no values share nothing, and depend on the same.
LEMMA GroupFacts ==
    ASSUME NEW d, IsGraph(d), NEW s \in Symbols, ~IsValue(d, s)
    PROVE  /\ s \in Group(d, s) /\ Group(d, s) \in SUBSET Symbols
           /\ \A t \in Group(d, s) : t = s \/ (IsValue(d, t) /\ s \in ChoiceSyms /\ t \in Values(d, s))
           /\ \A t \in Group(d, s) : Most(d)[t] = Most(d)[s]
           /\ Least(d)[s] = On(d, s)
           /\ s \in ChoiceSyms => \A v \in Values(d, s) : Least(d)[v] = GroupOn(d, s)
<1>1. /\ s \in Group(d, s) /\ Group(d, s) \in SUBSET Symbols
      /\ \A t \in Group(d, s) : t = s \/ (IsValue(d, t) /\ s \in ChoiceSyms /\ t \in Values(d, s))
  BY ValueFacts DEF Group
<1>2. Least(d)[s] = On(d, s)
  BY DEF Least
<1>3. ASSUME s \in ChoiceSyms, NEW v \in Values(d, s)
      PROVE  Least(d)[v] = GroupOn(d, s) /\ Most(d)[v] = GroupOn(d, s)
  <2>1. v \in Symbols /\ IsValue(d, v) /\ ChoiceFor(d, v) = s /\ v \notin ChoiceSyms
    BY <1>3, ValueFacts
  <2>2. QED
    BY <2>1 DEF Least, Most
<1>4. s \in ChoiceSyms => Most(d)[s] = GroupOn(d, s)
  BY DEF Most
<1>5. QED
  BY <1>1, <1>2, <1>3, <1>4

LEMMA GroupsApart ==
    ASSUME NEW d, IsGraph(d), NEW s \in Symbols, ~IsValue(d, s), NEW r \in Symbols, ~IsValue(d, r),
           NEW t \in Group(d, s), t \in Group(d, r)
    PROVE  r = s
<1>1. t = s \/ (IsValue(d, t) /\ s \in ChoiceSyms /\ t \in Values(d, s))
  BY GroupFacts
<1>2. t = r \/ (IsValue(d, t) /\ r \in ChoiceSyms /\ t \in Values(d, r))
  BY GroupFacts
<1>3. QED
  BY <1>1, <1>2, ValueFacts

LEMMA HeldFacts ==
    ASSUME NEW d, IsGraph(d), NEW f \in SearchFrame, FrameOK(d, f)
    PROVE  /\ Held(d, f) \in SUBSET Group(d, f.id)
           /\ f.at = 0 => Held(d, f) = Group(d, f.id)
           /\ f.at # 0 => f.id \notin Held(d, f) /\ Group(d, f.id) = {f.id} \union Held(d, f)
  BY ValueFacts DEF Held, Group, FrameOK

\* What a call goes over is what its symbol depends on, but that a value may depend on
\* its choice.
LEMMA ListedFacts ==
    ASSUME NEW d, IsGraph(d), NEW f \in SearchFrame, FrameOK(d, f)
    PROVE  /\ Listed(d, f) \in Seq(Symbols)
           /\ f.at = 0 => Listed(d, f) = d.on[f.id]
           /\ f.at # 0 => /\ f.at \in DOMAIN d.values[f.id] /\ d.values[f.id][f.at] \in Values(d, f.id)
                          /\ Listed(d, f) = d.on[d.values[f.id][f.at]]
           /\ \A i \in DOMAIN Listed(d, f) :
                Listed(d, f)[i] \in Most(d)[f.id] \/ (f.at # 0 /\ Listed(d, f)[i] = f.id)
<1>1. f.id \in Symbols /\ f.at \in Nat
  BY DEF SearchFrame
<1>2. CASE f.at = 0
  <2>1. Listed(d, f) = d.on[f.id] /\ Listed(d, f) \in Seq(Symbols)
    BY <1>1, <1>2, OnFacts DEF Listed
  <2>2. On(d, f.id) \in SUBSET Most(d)[f.id]
    BY <1>1 DEF Most, Least, GroupOn, FrameOK
  <2>3. QED
    BY <1>2, <2>1, <2>2 DEF On
<1>3. CASE f.at # 0
  <2> DEFINE v == d.values[f.id][f.at]
  <2>1. f.id \in ChoiceSyms /\ f.at \in DOMAIN d.values[f.id]
    BY <1>1, <1>3, OnFacts DEF FrameOK
  <2>2. v \in Values(d, f.id)
    BY <2>1 DEF Values
  <2>3. v \in Symbols
    BY <2>1, <2>2, ValueFacts
  <2>4. Listed(d, f) = d.on[v] /\ Listed(d, f) \in Seq(Symbols)
    BY <1>3, <2>3, OnFacts DEF Listed
  <2>5. On(d, v) \in SUBSET (Most(d)[f.id] \union {f.id})
    <3>1. Most(d)[f.id] = GroupOn(d, f.id)
      BY <1>1, <2>1 DEF Most
    <3> DEFINE U == UNION {On(d, w) : w \in Values(d, f.id)}
    <3>2. On(d, v) \in SUBSET U
      BY <2>2
    <3>3. Most(d)[f.id] = On(d, f.id) \union (U \ {f.id})
      BY <3>1 DEF GroupOn
    <3> HIDE DEF v, U
    <3>4. QED
      BY <3>2, <3>3
  <2> HIDE DEF v
  <2>6. \A i \in DOMAIN Listed(d, f) : Listed(d, f)[i] \in Most(d)[f.id] \/ Listed(d, f)[i] = f.id
    BY <2>4, <2>5 DEF On
  <2>7. QED
    BY <1>3, <2>1, <2>2, <2>4, <2>6 DEF v
<1>4. QED
  BY <1>2, <1>3

\* The symbols with a flag are kept together with the rest of their group.
LEMMA ChecksFacts ==
    ASSUME SearchType, Together(deps, marks.checked), NEW s \in Symbols
    PROVE  /\ Checks(s) \notin marks.checked => ~IsValue(deps, Checks(s)) /\ s \in Group(deps, Checks(s))
           /\ Checks(s) \in marks.checked => Checks(s) = s
<1>1. IsGraph(deps)
  BY DEF SearchType
<1>2. CASE IsValue(deps, s) /\ s \notin marks.checked
  <2>1. Checks(s) = ChoiceFor(deps, s)
    BY <1>2 DEF Checks
  <2>2. ChoiceFor(deps, s) \in ChoiceSyms /\ s \in Values(deps, ChoiceFor(deps, s))
    BY <1>1, <1>2, ValueFacts
  <2>3. ChoiceFor(deps, s) \notin marks.checked
    BY <1>2, <2>2 DEF Together
  <2>4. ~IsValue(deps, ChoiceFor(deps, s))
    BY <1>1, <2>2, ValueFacts
  <2>5. QED
    BY <2>1, <2>2, <2>3, <2>4, ChoiceAssumption DEF Group, Symbols
<1>3. CASE ~(IsValue(deps, s) /\ s \notin marks.checked)
  <2>1. Checks(s) = s
    BY <1>3 DEF Checks
  <2>2. QED
    BY <1>3, <2>1 DEF Group
<1>4. QED
  BY <1>2, <1>3

LEMMA ChecksSymbol ==
    ASSUME SearchType, NEW s \in Symbols
    PROVE  Checks(s) \in Symbols
BY ValueFacts, ChoiceAssumption DEF SearchType, Checks, Symbols

\* What the innermost call looks at is a symbol.
LEMMA InnerFacts ==
    ASSUME SearchType, WayInv, path # << >>
    PROVE  /\ Len(path) \in DOMAIN path /\ Inner \in SearchFrame /\ FrameOK(deps, Inner)
           /\ Group(deps, Inner.id) \in SUBSET marks.checked
           /\ Held(deps, Inner) \in SUBSET marks.check
           /\ Listed(deps, Inner) \in Seq(Symbols)
<1>1. Len(path) \in DOMAIN path /\ Inner \in SearchFrame
  BY DEF SearchType, Inner
<1>2. FrameOK(deps, Inner) /\ Group(deps, Inner.id) \in SUBSET marks.checked
  BY <1>1 DEF WayInv, CallsOK, Inner
<1>3. \A t \in Held(deps, Inner) : t \in HeldBy(deps, path)
  BY <1>1 DEF HeldBy, Inner
<1>4. Listed(deps, Inner) \in Seq(Symbols)
  BY <1>1, <1>2, ListedFacts DEF SearchType
<1>5. QED
  BY <1>1, <1>2, <1>3, <1>4 DEF WayInv

LEMMA LookedFacts ==
    ASSUME SearchType, WayInv, Looking
    PROVE  /\ Inner.n \in DOMAIN Listed(deps, Inner)
           /\ Listed(deps, Inner)[Inner.n] \in Symbols
           /\ Looked \in Symbols
           /\ Looked \in marks.checked => Looked = Listed(deps, Inner)[Inner.n]
           /\ Looked \notin marks.checked =>
                /\ ~IsValue(deps, Looked)
                /\ Listed(deps, Inner)[Inner.n] \in Group(deps, Looked)
                /\ Listed(deps, Inner)[Inner.n] \in Most(deps)[Inner.id]
<1> DEFINE t == Listed(deps, Inner)[Inner.n]
<1>1. path # << >> /\ Inner.n <= Len(Listed(deps, Inner))
  BY DEF Looking
<1>2. /\ Inner \in SearchFrame /\ FrameOK(deps, Inner) /\ Listed(deps, Inner) \in Seq(Symbols)
      /\ Group(deps, Inner.id) \in SUBSET marks.checked
  BY <1>1, InnerFacts
<1>3. Inner.n \in DOMAIN Listed(deps, Inner) /\ t \in Symbols
  BY <1>1, <1>2 DEF SearchFrame
<1>4. Looked = Checks(t)
  BY DEF Looked
<1>5. t \in Most(deps)[Inner.id] \/ t = Inner.id
  BY <1>2, <1>3, ListedFacts DEF SearchType
<1> HIDE DEF t
<1>6. Looked \in Symbols
  BY <1>3, <1>4, ChecksSymbol
<1>7. Looked \in marks.checked => Looked = t
  BY <1>3, <1>4, ChecksFacts DEF WayInv
<1>8. Looked \notin marks.checked => ~IsValue(deps, Looked) /\ t \in Group(deps, Looked)
  BY <1>3, <1>4, ChecksFacts DEF WayInv
<1>9. Looked \notin marks.checked => t # Inner.id
  <2>1. Inner.id \in Group(deps, Inner.id) /\ ~IsValue(deps, Inner.id)
    BY <1>2, GroupFacts DEF SearchType, SearchFrame, FrameOK
  <2>2. Checks(Inner.id) = Inner.id
    BY <2>1 DEF Checks
  <2>3. QED
    BY <1>2, <1>4, <2>1, <2>2
<1>10. QED
  BY <1>3, <1>5, <1>6, <1>7, <1>8, <1>9 DEF t

-----------------------------------------------------------------------------
(* A call for a symbol without marks *)

LEMMA EnterTogether ==
    ASSUME NEW d, IsGraph(d), NEW seen \in SUBSET Symbols, Together(d, seen),
           NEW s \in Symbols, ~IsValue(d, s), s \notin seen
    PROVE  Together(d, seen \union Group(d, s)) /\ Group(d, s) \cap seen = {}
<1>1. ASSUME NEW c \in ChoiceSyms, NEW v \in Values(d, c)
      PROVE  c \in seen \union Group(d, s) <=> v \in seen \union Group(d, s)
  <2>1. c \in seen <=> v \in seen
    BY DEF Together
  <2>2. c \in Symbols /\ ~IsValue(d, c) /\ IsValue(d, v) /\ v \in Group(d, c) /\ c \in Group(d, c)
    BY ValueFacts, ChoiceAssumption DEF Group, Symbols
  <2>3. c \in Group(d, s) <=> s = c
    BY <2>2, GroupFacts
  <2>4. v \in Group(d, s) <=> s = c
    BY <2>2, GroupsApart
  <2>5. QED
    BY <2>1, <2>3, <2>4
<1>2. ASSUME NEW t \in Group(d, s)
      PROVE  t \notin seen
  <2>1. t = s \/ (s \in ChoiceSyms /\ t \in Values(d, s))
    BY GroupFacts
  <2>2. QED
    BY <2>1 DEF Together
<1>3. QED
  BY <1>1, <1>2 DEF Together

\* What an appended call does to what is said of all calls.
LEMMA Appended ==
    ASSUME NEW q \in Seq(SearchFrame), NEW f \in SearchFrame
    PROVE  /\ Append(q, f) \in Seq(SearchFrame)
           /\ DOMAIN q = 1 .. Len(q)
           /\ DOMAIN Append(q, f) = 1 .. Len(q) + 1
           /\ Len(Append(q, f)) = Len(q) + 1
           /\ \A j \in DOMAIN q : Append(q, f)[j] = q[j]
           /\ Append(q, f)[Len(q) + 1] = f
           /\ \A j \in DOMAIN Append(q, f) : j \in DOMAIN q \/ j = Len(q) + 1
OBVIOUS

LEMMA EnterStep ==
    ASSUME SearchInv, NEW s \in Symbols, ~IsValue(deps, s), s \notin marks.checked,
           Enter(s), deps' = deps,
           path # << >> => Most(deps)[Inner.id] \cap Group(deps, s) # {}
    PROVE  /\ path' \in Seq(SearchFrame) /\ marks' \in Marking
           /\ WayInv' /\ LinkInv' /\ SoundInv' /\ DoneInv'
           /\ marks'.checked = marks.checked \union Group(deps, s)
<1> DEFINE f == [id |-> s, at |-> 0, n |-> 1]
           G == Group(deps, s)
<1>1. IsGraph(deps) /\ path \in Seq(SearchFrame) /\ marks \in Marking
  BY DEF SearchInv, SearchType
<1>2. f \in SearchFrame /\ f.id = s /\ f.at = 0 /\ f.n = 1
  BY DEF SearchFrame
<1>3. path' = Append(path, f) /\ marks' = Mark(marks, G)
  BY DEF Enter
<1>4. G \in SUBSET Symbols /\ s \in G
  BY <1>1, GroupFacts
<1>5. /\ marks' \in Marking /\ marks'.check = marks.check \union G
      /\ marks'.checked = marks.checked \union G /\ marks'.errs = marks.errs
  <2> HIDE DEF G
  <2>1. QED
    BY <1>1, <1>3, <1>4 DEF Mark, Marking
<1>6. Together(deps, marks'.checked) /\ G \cap marks.checked = {}
  BY <1>1, <1>5, EnterTogether DEF SearchInv, WayInv, Marking
<1>7. FrameOK(deps, f) /\ Held(deps, f) = G
  BY <1>2, HeldFacts, <1>1 DEF FrameOK
<1> HIDE DEF f, G
<1>8. /\ path' \in Seq(SearchFrame) /\ DOMAIN path = 1 .. Len(path)
      /\ DOMAIN path' = 1 .. Len(path) + 1 /\ Len(path') = Len(path) + 1
      /\ \A j \in DOMAIN path : path'[j] = path[j]
      /\ path'[Len(path) + 1] = f
      /\ \A j \in DOMAIN path' : j \in DOMAIN path \/ j = Len(path) + 1
  BY <1>1, <1>2, <1>3, Appended
<1>9. WayInv'
  <2>1. CallsOK(deps, path', marks'.checked)
    BY <1>2, <1>5, <1>7, <1>8 DEF SearchInv, WayInv, CallsOK, G
  <2>2. \A j \in DOMAIN path : path[j].id # s
    <3>1. ASSUME NEW j \in DOMAIN path
          PROVE  path[j].id \in marks.checked
      <4>1. Group(deps, path[j].id) \subseteq marks.checked /\ ~IsValue(deps, path[j].id)
        BY DEF SearchInv, WayInv, CallsOK, FrameOK
      <4>2. path[j].id \in Symbols
        <5>1. path[j] \in SearchFrame
          BY <1>1
        <5>2. QED
          BY <5>1 DEF SearchFrame
      <4>3. QED
        BY <1>1, <4>1, <4>2, GroupFacts
    <3>2. QED
      BY <3>1
  <2>3. Distinct(path')
    BY <1>2, <1>8, <2>2 DEF SearchInv, WayInv, Distinct
  <2>4. HeldBy(deps, path') = HeldBy(deps, path) \union G
    <3>1. \A j \in DOMAIN path : Held(deps, path'[j]) = Held(deps, path[j])
      BY <1>8
    <3>2. QED
      BY <1>7, <1>8, <3>1 DEF HeldBy
  <2>5. marks'.check = HeldBy(deps, path')
    BY <1>5, <2>4 DEF SearchInv, WayInv
  <2>6. QED
    BY <1>6, <2>1, <2>3, <2>5 DEF WayInv
<1>10. LinkInv'
  <2>1. ASSUME NEW j \in DOMAIN path', j < Len(path')
        PROVE  Most(deps)[path'[j].id] \cap Group(deps, path'[j + 1].id) # {}
    <3>1. j \in DOMAIN path
      BY <1>8, <2>1
    <3>2. CASE j = Len(path)
      <4>1. path'[j] = Inner /\ path'[j + 1].id = s /\ path # << >>
        BY <1>2, <1>8, <3>1, <3>2 DEF Inner
      <4>2. QED
        BY <4>1
    <3>3. CASE j # Len(path)
      <4>1. j < Len(path) /\ j + 1 \in DOMAIN path
        BY <1>8, <3>1, <3>3
      <4>2. Most(deps)[path[j].id] \cap Group(deps, path[j + 1].id) # {}
        BY <3>1, <4>1 DEF SearchInv, LinkInv, Linking
      <4>3. path'[j] = path[j] /\ path'[j + 1] = path[j + 1]
        BY <1>8, <3>1, <4>1
      <4>4. QED
        BY <4>2, <4>3
    <3>4. QED
      BY <3>2, <3>3
  <2>2. QED
    BY <2>1 DEF LinkInv, Linking
<1>11. SoundInv'
  BY <1>5 DEF SearchInv, SoundInv
<1>12. DoneInv'
  <2>1. Done(marks') = Done(marks)
    BY <1>5, <1>6 DEF Done
  <2>2. ASSUME NEW F
        PROVE  Seen(deps, f, F)
    BY <1>2 DEF Seen, Over
  <2>3. AllSeen(deps, path, Done(marks)) => AllSeen(deps, path', Done(marks))
    BY <1>8, <2>2 DEF AllSeen
  <2>4. QED
    BY <1>5, <2>1, <2>3 DEF SearchInv, DoneInv
<1>13. QED
  BY <1>5, <1>8, <1>9, <1>10, <1>11, <1>12 DEF G

-----------------------------------------------------------------------------
(* The end of calls *)

\* The groups of the calls on the way share nothing.
LEMMA PathFacts ==
    ASSUME SearchType, WayInv
    PROVE  /\ DOMAIN path = 1 .. Len(path) /\ Len(path) \in Nat
           /\ \A j \in DOMAIN path :
                /\ path[j] \in SearchFrame /\ path[j].id \in Symbols /\ FrameOK(deps, path[j])
                /\ ~IsValue(deps, path[j].id)
                /\ Held(deps, path[j]) \in SUBSET Group(deps, path[j].id)
                /\ Group(deps, path[j].id) \in SUBSET marks.checked
           /\ \A j, k \in DOMAIN path :
                j # k => Group(deps, path[j].id) \cap Group(deps, path[k].id) = {}
<1>1. IsGraph(deps) /\ path \in Seq(SearchFrame)
  BY DEF SearchType
<1>2. ASSUME NEW j \in DOMAIN path
      PROVE  /\ path[j] \in SearchFrame /\ path[j].id \in Symbols /\ FrameOK(deps, path[j])
             /\ ~IsValue(deps, path[j].id)
             /\ Held(deps, path[j]) \in SUBSET Group(deps, path[j].id)
             /\ Group(deps, path[j].id) \in SUBSET marks.checked
  <2>1. path[j] \in SearchFrame
    BY <1>1
  <2>2. path[j].id \in Symbols
    BY <2>1 DEF SearchFrame
  <2>3. FrameOK(deps, path[j]) /\ Group(deps, path[j].id) \in SUBSET marks.checked
    BY DEF WayInv, CallsOK
  <2>4. Held(deps, path[j]) \in SUBSET Group(deps, path[j].id)
    BY <1>1, <2>1, <2>3, HeldFacts
  <2>5. QED
    BY <2>1, <2>2, <2>3, <2>4 DEF FrameOK
<1>3. ASSUME NEW j \in DOMAIN path, NEW k \in DOMAIN path, j # k
      PROVE  Group(deps, path[j].id) \cap Group(deps, path[k].id) = {}
  <2>1. path[j].id # path[k].id
    BY <1>3 DEF WayInv, Distinct
  <2>2. QED
    BY <1>1, <1>2, <2>1, GroupsApart
<1>4. DOMAIN path = 1 .. Len(path) /\ Len(path) \in Nat
  BY <1>1
<1>5. QED
  BY ONLY <1>2, <1>3, <1>4

LEMMA CutStep ==
    ASSUME SearchType, WayInv, LinkInv, NEW m \in Nat, m <= Len(path),
           path' = SubSeq(path, 1, m), deps' = deps, marks' \in Marking,
           marks'.checked = marks.checked,
           marks'.check = marks.check \ UNION {Group(deps, path[k].id) : k \in m + 1 .. Len(path)}
    PROVE  /\ path' \in Seq(SearchFrame) /\ WayInv' /\ LinkInv'
           /\ DOMAIN path' = 1 .. m
           /\ \A j \in DOMAIN path' : j \in DOMAIN path /\ path'[j] = path[j]
<1> DEFINE Cut == UNION {Group(deps, path[k].id) : k \in m + 1 .. Len(path)}
<1>1. DOMAIN path = 1 .. Len(path) /\ path \in Seq(SearchFrame) /\ Len(path) \in Nat
  BY PathFacts DEF SearchType
<1>2. /\ path' \in Seq(SearchFrame) /\ Len(path') = m /\ DOMAIN path' = 1 .. m
      /\ \A j \in DOMAIN path' : j \in DOMAIN path /\ path'[j] = path[j]
  BY <1>1
<1>3. CallsOK(deps, path', marks'.checked) /\ Distinct(path') /\ Together(deps, marks'.checked)
  BY <1>2 DEF WayInv, CallsOK, Distinct
<1>4. ASSUME NEW j \in DOMAIN path'
      PROVE  Held(deps, path[j]) \cap Cut = {}
  <2>1. \A k \in m + 1 .. Len(path) : k \in DOMAIN path /\ k # j
    BY <1>1, <1>2
  <2>2. \A k \in m + 1 .. Len(path) : Held(deps, path[j]) \cap Group(deps, path[k].id) = {}
    <3>1. j \in DOMAIN path
      BY <1>2
    <3>2. QED
      BY <2>1, <3>1, PathFacts
  <2>3. QED
    BY <2>2
<1>5. ASSUME NEW j \in DOMAIN path, j \notin DOMAIN path'
      PROVE  Held(deps, path[j]) \subseteq Cut
  <2>1. j \in m + 1 .. Len(path)
    BY <1>1, <1>2, <1>5
  <2>2. Held(deps, path[j]) \subseteq Group(deps, path[j].id)
    BY PathFacts
  <2>3. QED
    BY <2>1, <2>2
<1> HIDE DEF Cut
<1>6. marks'.check = HeldBy(deps, path')
  <2>1. marks'.check = marks.check \ Cut
    BY DEF Cut
  <2>2. marks.check = HeldBy(deps, path)
    BY DEF WayInv
  <2>3. HeldBy(deps, path') = UNION {Held(deps, path[j]) : j \in DOMAIN path'}
    BY <1>2 DEF HeldBy
  <2>4. HeldBy(deps, path) = UNION {Held(deps, path[j]) : j \in DOMAIN path}
    BY DEF HeldBy
  <2>5. ASSUME NEW t \in marks'.check
        PROVE  t \in HeldBy(deps, path')
    <3>1. PICK j \in DOMAIN path : t \in Held(deps, path[j])
      BY <2>1, <2>2, <2>4, <2>5
    <3>2. j \in DOMAIN path'
      BY <1>5, <2>1, <2>5, <3>1
    <3>3. QED
      BY <2>3, <3>1, <3>2
  <2>6. ASSUME NEW t \in HeldBy(deps, path')
        PROVE  t \in marks'.check
    <3>1. PICK j \in DOMAIN path' : t \in Held(deps, path[j])
      BY <2>3, <2>6
    <3>2. t \in HeldBy(deps, path) /\ t \notin Cut
      BY <1>2, <1>4, <2>4, <3>1
    <3>3. QED
      BY <2>1, <2>2, <3>2
  <2>7. QED
    BY <2>5, <2>6
<1>7. WayInv'
  BY <1>3, <1>6 DEF WayInv
<1>8. LinkInv'
  <2>1. ASSUME NEW j \in DOMAIN path', j < Len(path')
        PROVE  Most(deps)[path'[j].id] \cap Group(deps, path'[j + 1].id) # {}
    <3>1. j \in DOMAIN path /\ j < Len(path) /\ j + 1 \in DOMAIN path'
      BY <1>1, <1>2, <2>1
    <3>2. path'[j] = path[j] /\ path'[j + 1] = path[j + 1]
      BY <1>2, <2>1, <3>1
    <3>3. QED
      BY <3>1, <3>2 DEF LinkInv, Linking
  <2>2. QED
    BY <2>1 DEF LinkInv, Linking
<1>9. QED
  BY <1>2, <1>7, <1>8

\* What depends on nothing but what is done can be added to it.
LEMMA DoneGrows ==
    ASSUME NEW d, NEW F, NEW N, Closed(d, F), Acyclic(d, F), N \cap F = {},
           \A s \in N : Least(d)[s] \in SUBSET F
    PROVE  Closed(d, F \union N) /\ Acyclic(d, F \union N)
<1>1. Closed(d, F \union N)
  BY DEF Closed
<1>2. ASSUME NEW S \in SUBSET (F \union N), S # {}
      PROVE  \E s \in S : Least(d)[s] \cap S = {}
  <2>1. CASE S \cap F = {}
    <3>1. PICK s \in S : s \in N
      BY <1>2, <2>1
    <3>2. Least(d)[s] \cap S = {}
      BY <2>1, <3>1
    <3>3. QED
      BY <3>2
  <2>2. CASE S \cap F # {}
    <3>1. S \cap F \in SUBSET F
      OBVIOUS
    <3>2. PICK s \in S \cap F : Least(d)[s] \cap (S \cap F) = {}
      BY <2>2, <3>1 DEF Acyclic
    <3>3. Least(d)[s] \in SUBSET F
      BY <3>2 DEF Closed
    <3>4. Least(d)[s] \cap S = {}
      BY <3>2, <3>3
    <3>5. QED
      BY <3>2, <3>4
  <2>3. QED
    BY <2>1, <2>2
<1>3. QED
  BY <1>1, <1>2 DEF Acyclic

LEMMA SeenGrows ==
    ASSUME NEW d, NEW f, NEW F, NEW H, F \in SUBSET H, Seen(d, f, F)
    PROVE  Seen(d, f, H)
BY DEF Seen, Over

-----------------------------------------------------------------------------
(* The steps of the search *)

\* A call goes on, or to its next value: only the innermost one changes.
LEMMA InnerStep ==
    ASSUME SearchType, WayInv, LinkInv, path # << >>, NEW f \in SearchFrame,
           f.id = Inner.id, FrameOK(deps, f), path' = [path EXCEPT ![Len(path)] = f],
           deps' = deps, marks' \in Marking, marks'.checked = marks.checked,
           marks'.check = marks.check \ (Held(deps, Inner) \ Held(deps, f)),
           Held(deps, f) \in SUBSET Held(deps, Inner)
    PROVE  /\ path' \in Seq(SearchFrame) /\ WayInv' /\ LinkInv'
           /\ DOMAIN path' = DOMAIN path /\ path'[Len(path)] = f
           /\ \A j \in DOMAIN path : j # Len(path) => path'[j] = path[j]
<1>1. /\ DOMAIN path = 1 .. Len(path) /\ path \in Seq(SearchFrame) /\ Len(path) \in Nat
      /\ Len(path) \in DOMAIN path
  BY PathFacts, InnerFacts DEF SearchType
<1>2. /\ path' \in Seq(SearchFrame) /\ DOMAIN path' = DOMAIN path /\ Len(path') = Len(path)
      /\ path'[Len(path)] = f
      /\ \A j \in DOMAIN path : j # Len(path) => path'[j] = path[j]
  BY <1>1
<1>3. \A j \in DOMAIN path : path'[j].id = path[j].id
  BY <1>2 DEF Inner
<1>4. CallsOK(deps, path', marks'.checked)
  BY <1>2, <1>3 DEF WayInv, CallsOK
<1>5. Distinct(path')
  BY <1>2, <1>3 DEF WayInv, Distinct
<1>6. marks'.check = HeldBy(deps, path')
  <2>1. ASSUME NEW t \in marks'.check
        PROVE  t \in HeldBy(deps, path')
    <3>1. t \in HeldBy(deps, path) /\ t \notin Held(deps, Inner) \ Held(deps, f)
      BY <2>1 DEF WayInv
    <3>2. PICK j \in DOMAIN path : t \in Held(deps, path[j])
      BY <3>1 DEF HeldBy
    <3>3. t \in Held(deps, path'[j])
      BY <1>2, <3>1, <3>2 DEF Inner
    <3>4. QED
      BY <1>2, <3>3 DEF HeldBy
  <2>2. ASSUME NEW t \in HeldBy(deps, path')
        PROVE  t \in marks'.check
    <3>1. PICK j \in DOMAIN path : t \in Held(deps, path'[j])
      BY <1>2, <2>2 DEF HeldBy
    <3>2. CASE j = Len(path)
      <4>1. t \in Held(deps, f) /\ t \in Held(deps, path[j])
        BY <1>2, <3>1, <3>2 DEF Inner
      <4>2. t \in marks.check
        BY <4>1 DEF WayInv, HeldBy
      <4>3. QED
        BY <4>1, <4>2
    <3>3. CASE j # Len(path)
      <4>1. t \in Held(deps, path[j])
        BY <1>2, <3>1, <3>3
      <4>2. t \in marks.check
        BY <4>1 DEF WayInv, HeldBy
      <4>3. t \notin Held(deps, Inner)
        <5>1. Group(deps, path[j].id) \cap Group(deps, path[Len(path)].id) = {}
          BY <1>1, <3>3, PathFacts
        <5>2. t \in Group(deps, path[j].id)
          BY <4>1, PathFacts
        <5>3. Held(deps, path[Len(path)]) \in SUBSET Group(deps, path[Len(path)].id)
          BY <1>1, PathFacts
        <5>4. QED
          BY <5>1, <5>2, <5>3 DEF Inner
      <4>4. QED
        BY <4>2, <4>3
    <3>4. QED
      BY <3>2, <3>3
  <2>3. QED
    BY <2>1, <2>2
<1>7. Together(deps, marks'.checked)
  BY DEF WayInv
<1>8. LinkInv'
  <2>1. ASSUME NEW j \in DOMAIN path', j < Len(path')
        PROVE  Most(deps)[path'[j].id] \cap Group(deps, path'[j + 1].id) # {}
    <3>1. j \in DOMAIN path /\ j < Len(path) /\ j + 1 \in DOMAIN path
      BY <1>1, <1>2, <2>1
    <3>2. path'[j].id = path[j].id /\ path'[j + 1].id = path[j + 1].id
      BY <1>3, <3>1
    <3>3. QED
      BY <3>1, <3>2 DEF LinkInv, Linking
  <2>2. QED
    BY <2>1 DEF LinkInv, Linking
<1>9. QED
  BY <1>2, <1>4, <1>5, <1>6, <1>7, <1>8 DEF WayInv

LEMMA BeginInv ==
    ASSUME SearchInv, NEW d, BeginSearch(d)
    PROVE  SearchInv'
<1>1. /\ path' = << >> /\ marks' = NoMarks /\ deps' = d /\ IsGraph(d)
      /\ todo' = {s \in Symbols : d.on[s] # << >>}
  BY DEF BeginSearch
<1>2. SearchType'
  BY <1>1 DEF SearchType, NoMarks, Marking
<1>3. WayInv'
  BY <1>1 DEF WayInv, CallsOK, Distinct, HeldBy, Together, NoMarks
<1>4. LinkInv' /\ SoundInv'
  BY <1>1 DEF LinkInv, Linking, SoundInv, NoMarks
<1>5. DoneInv'
  <2>1. Done(marks') = {}
    BY <1>1 DEF Done, NoMarks
  <2>2. Closed(deps', {}) /\ Acyclic(deps', {}) /\ AllSeen(deps', path', {})
    BY <1>1 DEF Closed, Acyclic, AllSeen
  <2>3. QED
    BY <2>1, <2>2 DEF DoneInv
<1>6. StartInv'
  BY <1>1 DEF StartInv
<1>7. QED
  BY <1>2, <1>3, <1>4, <1>5, <1>6 DEF SearchInv

LEMMA StartKeeps ==
    ASSUME SearchInv, NEW s \in todo, Start(s)
    PROVE  SearchInv'
<1>1. IsGraph(deps) /\ s \in Symbols /\ marks \in Marking /\ path \in Seq(SearchFrame)
  BY DEF SearchInv, SearchType
<1>2. path = << >> /\ todo' = todo \ {s} /\ deps' = deps
  BY DEF Start
<1>3. todo' \in SUBSET Symbols
  BY <1>2 DEF SearchInv, SearchType
<1>4. Checks(s) \in Symbols
  BY <1>1, ChecksSymbol DEF SearchInv
<1>5. CASE Checks(s) \in marks.checked
  <2>1. path' = path /\ marks' = marks
    BY <1>5 DEF Start
  <2>2. s \in marks.checked
    BY <1>1, <1>5, ChecksFacts DEF SearchInv, WayInv
  <2>3. SearchType'
    BY <1>2, <1>3, <2>1 DEF SearchInv, SearchType
  <2>4. WayInv' /\ LinkInv' /\ SoundInv' /\ DoneInv'
    BY <1>2, <2>1 DEF SearchInv, WayInv, LinkInv, SoundInv, DoneInv
  <2>5. StartInv'
    BY <1>2, <2>1, <2>2 DEF SearchInv, StartInv
  <2>6. QED
    BY <2>3, <2>4, <2>5 DEF SearchInv
<1>6. CASE Checks(s) \notin marks.checked
  <2>1. Enter(Checks(s))
    BY <1>6 DEF Start
  <2>2. ~IsValue(deps, Checks(s)) /\ s \in Group(deps, Checks(s))
    BY <1>1, <1>6, ChecksFacts DEF SearchInv, WayInv
  <2>3. /\ path' \in Seq(SearchFrame) /\ marks' \in Marking
        /\ WayInv' /\ LinkInv' /\ SoundInv' /\ DoneInv'
        /\ marks'.checked = marks.checked \union Group(deps, Checks(s))
    BY <1>2, <1>4, <1>6, <2>1, <2>2, EnterStep
  <2>4. SearchType'
    BY <1>1, <1>2, <1>3, <2>3 DEF SearchType
  <2>5. StartInv'
    BY <1>2, <2>2, <2>3 DEF SearchInv, StartInv
  <2>6. QED
    BY <2>3, <2>4, <2>5 DEF SearchInv
<1>7. QED
  BY <1>5, <1>6

LEMMA DownKeeps ==
    ASSUME SearchInv, Down
    PROVE  SearchInv'
<1>1. IsGraph(deps) /\ Looking /\ Looked \notin marks.checked /\ Enter(Looked) /\ deps' = deps /\ todo' = todo
  BY DEF SearchInv, SearchType, Down
<1>2. /\ Looked \in Symbols /\ ~IsValue(deps, Looked)
      /\ Most(deps)[Inner.id] \cap Group(deps, Looked) # {}
  BY <1>1, LookedFacts DEF SearchInv
<1>3. /\ path' \in Seq(SearchFrame) /\ marks' \in Marking
      /\ WayInv' /\ LinkInv' /\ SoundInv' /\ DoneInv'
      /\ marks'.checked = marks.checked \union Group(deps, Looked)
  BY <1>1, <1>2, EnterStep
<1>4. SearchType'
  BY <1>1, <1>3 DEF SearchInv, SearchType
<1>5. StartInv'
  BY <1>1, <1>3 DEF SearchInv, StartInv
<1>6. QED
  BY <1>3, <1>4, <1>5 DEF SearchInv

LEMMA PastKeeps ==
    ASSUME SearchInv, Past
    PROVE  SearchInv'
<1> DEFINE f == [Inner EXCEPT !.n = @ + 1]
<1>1. /\ Looking /\ path # << >> /\ Looked \in marks.checked /\ Looked \notin marks.check
      /\ path' = [path EXCEPT ![Len(path)].n = @ + 1] /\ deps' = deps /\ marks' = marks /\ todo' = todo
  BY DEF Past, Looking
<1>2. SearchType /\ WayInv /\ LinkInv /\ IsGraph(deps) /\ marks \in Marking /\ path \in Seq(SearchFrame)
  BY DEF SearchInv, SearchType
<1>3. Inner \in SearchFrame /\ FrameOK(deps, Inner) /\ Len(path) \in DOMAIN path
  BY <1>1, <1>2, InnerFacts
<1>4. f \in SearchFrame /\ f.id = Inner.id /\ f.at = Inner.at /\ f.n = Inner.n + 1
  BY <1>3 DEF SearchFrame
<1>5. path' = [path EXCEPT ![Len(path)] = f]
  BY <1>1, <1>2, <1>3 DEF Inner
<1> HIDE DEF f
<1>6. FrameOK(deps, f) /\ Held(deps, f) = Held(deps, Inner) /\ Listed(deps, f) = Listed(deps, Inner)
  BY <1>3, <1>4 DEF FrameOK, Held, Listed
<1>7. /\ path' \in Seq(SearchFrame) /\ WayInv' /\ LinkInv'
      /\ DOMAIN path' = DOMAIN path /\ path'[Len(path)] = f
      /\ \A j \in DOMAIN path : j # Len(path) => path'[j] = path[j]
  BY <1>1, <1>2, <1>4, <1>5, <1>6, InnerStep
<1>8. DoneInv'
  <2>1. Listed(deps, Inner)[Inner.n] \in Done(marks)
    BY <1>1, <1>2, LookedFacts DEF Done
  <2>2. ASSUME Seen(deps, Inner, Done(marks))
        PROVE  Seen(deps, f, Done(marks))
    <3>1. Over(Listed(deps, f), f.n, Done(marks))
      BY <1>1, <1>2, <1>3, <1>4, <1>6, <2>1, <2>2, InnerFacts DEF Seen, Over, SearchFrame
    <3>2. QED
      BY <1>4, <2>2, <3>1 DEF Seen
  <2>3. ASSUME AllSeen(deps, path, Done(marks))
        PROVE  AllSeen(deps, path', Done(marks))
    BY <1>3, <1>7, <2>2, <2>3 DEF AllSeen, Inner
  <2>4. QED
    BY <1>1, <2>3 DEF SearchInv, DoneInv
<1>9. QED
  BY <1>1, <1>7, <1>8 DEF SearchInv, SearchType, SoundInv, StartInv

\* A symbol on the way that is found again is in a circle of dependencies.
LEMMA CircleFound ==
    ASSUME SearchInv, Looking, Looked \in marks.check
    PROVE  Recursive(Most(deps))
<1> DEFINE t == Listed(deps, Inner)[Inner.n]
           G(i) == Group(deps, path[i].id)
<1>1. SearchType /\ WayInv /\ LinkInv /\ IsGraph(deps) /\ path # << >>
  BY DEF SearchInv, SearchType, Looking
<1>2. /\ DOMAIN path = 1 .. Len(path) /\ Len(path) \in Nat /\ Len(path) \in DOMAIN path
      /\ Inner \in SearchFrame /\ FrameOK(deps, Inner)
  BY <1>1, PathFacts, InnerFacts
<1>3. PICK j \in DOMAIN path : Looked \in Held(deps, path[j])
  BY <1>1 DEF WayInv, HeldBy
<1>4. Looked \in G(j) /\ Looked \in marks.checked
  BY <1>1, <1>3, PathFacts
<1>5. Looked = t /\ Inner.n \in DOMAIN Listed(deps, Inner)
  BY <1>1, <1>4, LookedFacts
<1>6. t \in Most(deps)[Inner.id]
  <2>1. SUFFICES ASSUME Inner.at # 0, t = Inner.id
                 PROVE  FALSE
    BY <1>1, <1>2, <1>5, ListedFacts
  <2>2. Inner.id \notin Held(deps, Inner)
    BY <1>1, <1>2, <2>1, HeldFacts
  <2>3. Inner.id \in G(Len(path))
    BY <1>1, <1>2, PathFacts, GroupFacts DEF Inner
  <2>4. j = Len(path)
    BY <1>1, <1>2, <1>4, <1>5, <2>1, <2>3, PathFacts
  <2>5. QED
    BY <1>3, <1>5, <2>1, <2>2, <2>4 DEF Inner
<1> DEFINE S == UNION {G(i) : i \in j .. Len(path)}
<1>7. \A i \in j .. Len(path) : i \in DOMAIN path
  BY <1>2
<1>8. S \in SUBSET Symbols
  <2>1. \A i \in DOMAIN path : G(i) \in SUBSET Symbols
    BY <1>1, PathFacts, GroupFacts
  <2> HIDE DEF G
  <2>2. QED
    BY <1>7, <2>1
<1>9. ASSUME NEW s \in S
      PROVE  Most(deps)[s] \cap S # {}
  <2>1. PICK i \in j .. Len(path) : s \in G(i)
    OBVIOUS
  <2>2. i \in DOMAIN path /\ Most(deps)[s] = Most(deps)[path[i].id]
    BY <1>1, <1>7, <2>1, PathFacts, GroupFacts
  <2>3. CASE i = Len(path)
    <3>1. t \in Most(deps)[s]
      BY <1>6, <2>2, <2>3 DEF Inner
    <3>2. j \in j .. Len(path)
      BY <1>2
    <3> HIDE DEF G
    <3>3. t \in S
      BY <1>4, <1>5, <3>2
    <3>4. QED
      BY <3>1, <3>3
  <2>4. CASE i # Len(path)
    <3>1. i < Len(path) /\ i + 1 \in j .. Len(path)
      <4>1. i \in Nat /\ j \in Nat /\ j <= i /\ i <= Len(path) /\ Len(path) \in Nat
        BY <1>2, <1>3, <2>1
      <4>2. i # Len(path)
        BY <2>4
      <4>3. QED
        BY ONLY <4>1, <4>2
    <3>2. Most(deps)[path[i].id] \cap G(i + 1) # {}
      BY <1>1, <2>2, <3>1 DEF LinkInv, Linking
    <3> HIDE DEF G
    <3>3. QED
      BY <2>2, <3>1, <3>2
  <2>5. QED
    BY <2>3, <2>4
<1>10. S # {}
  <2>1. j \in j .. Len(path)
    BY <1>2
  <2> HIDE DEF G
  <2>2. QED
    BY <1>4, <2>1
<1> HIDE DEF S
<1>11. QED
  BY <1>8, <1>9, <1>10 DEF Recursive

LEMMA BackKeeps ==
    ASSUME SearchInv, Back
    PROVE  SearchInv'
<1>1. /\ SearchType /\ WayInv /\ LinkInv /\ IsGraph(deps) /\ marks \in Marking
      /\ Looking /\ Looked \in marks.check /\ deps' = deps /\ todo' = todo
  BY DEF SearchInv, SearchType, Back
<1>2. PICK j \in DOMAIN path :
        /\ path' = SubSeq(path, 1, j - 1)
        /\ marks' = [Unmark(marks, UNION {Group(deps, path[k].id) : k \in j .. Len(path)})
                     EXCEPT !.errs = @ + 1]
  BY DEF Back
<1> DEFINE Cut == UNION {Group(deps, path[k].id) : k \in j .. Len(path)}
<1>3. /\ marks' \in Marking /\ marks'.check = marks.check \ Cut
      /\ marks'.checked = marks.checked /\ marks'.errs = marks.errs + 1
  <2>1. marks' = [Unmark(marks, Cut) EXCEPT !.errs = @ + 1]
    BY <1>2
  <2> HIDE DEF Cut
  <2>2. /\ Unmark(marks, Cut) \in Marking /\ Unmark(marks, Cut).check = marks.check \ Cut
        /\ Unmark(marks, Cut).checked = marks.checked /\ Unmark(marks, Cut).errs = marks.errs
    BY <1>1 DEF Unmark, Marking
  <2>3. QED
    BY <2>1, <2>2 DEF Marking
<1>4. j - 1 \in Nat /\ j - 1 <= Len(path) /\ (j - 1) + 1 = j
  BY <1>1, PathFacts
<1>5. path' \in Seq(SearchFrame) /\ WayInv' /\ LinkInv'
  <2> DEFINE m == j - 1
  <2>1. m \in Nat /\ m <= Len(path) /\ m + 1 = j
    BY <1>4
  <2>2. path' = SubSeq(path, 1, m)
    BY <1>2
  <2>3. marks'.check = marks.check \ UNION {Group(deps, path[k].id) : k \in m + 1 .. Len(path)}
    BY <1>3, <2>1
  <2> HIDE DEF m
  <2>4. QED
    BY <1>1, <1>3, <2>1, <2>2, <2>3, CutStep
<1> HIDE DEF Cut
<1>6. SoundInv'
  BY <1>1, CircleFound DEF SoundInv
<1>7. DoneInv'
  <2>1. marks'.errs # 0
    BY <1>1, <1>3 DEF Marking
  <2>2. QED
    BY <2>1 DEF DoneInv
<1>8. SearchType' /\ StartInv'
  BY <1>1, <1>3, <1>5 DEF SearchInv, SearchType, StartInv
<1>9. QED
  BY <1>5, <1>6, <1>7, <1>8 DEF SearchInv

\* A call that has come to the end of a list has seen all of it.
LEMMA EndFacts ==
    ASSUME SearchInv, AtEnd, marks.errs = 0
    PROVE  /\ Inner.at = 0 => On(deps, Inner.id) \in SUBSET Done(marks)
           /\ Inner.at # 0 =>
                /\ On(deps, Inner.id) \in SUBSET Done(marks)
                /\ \A k \in DOMAIN deps.values[Inner.id] :
                     k <= Inner.at => On(deps, deps.values[Inner.id][k]) \in SUBSET Done(marks)
<1>1. SearchType /\ WayInv /\ IsGraph(deps) /\ path # << >> /\ Inner.n > Len(Listed(deps, Inner))
  BY DEF SearchInv, SearchType, AtEnd
<1>2. /\ Inner \in SearchFrame /\ FrameOK(deps, Inner) /\ Len(path) \in DOMAIN path
      /\ Listed(deps, Inner) \in Seq(Symbols)
  BY <1>1, InnerFacts
<1>3. Seen(deps, Inner, Done(marks))
  BY <1>2 DEF SearchInv, DoneInv, AllSeen, Inner
<1>4. \A i \in DOMAIN Listed(deps, Inner) : Listed(deps, Inner)[i] \in Done(marks)
  <2>1. \A i \in DOMAIN Listed(deps, Inner) : i < Inner.n
    BY <1>1, <1>2 DEF SearchFrame
  <2>2. QED
    BY <1>3, <2>1 DEF Seen, Over
<1>5. ASSUME Inner.at = 0
      PROVE  On(deps, Inner.id) \in SUBSET Done(marks)
  <2>1. Listed(deps, Inner) = deps.on[Inner.id]
    BY <1>1, <1>2, <1>5, ListedFacts
  <2>2. QED
    BY <1>4, <2>1 DEF On
<1>6. ASSUME Inner.at # 0
      PROVE  /\ On(deps, Inner.id) \in SUBSET Done(marks)
             /\ \A k \in DOMAIN deps.values[Inner.id] :
                  k <= Inner.at => On(deps, deps.values[Inner.id][k]) \in SUBSET Done(marks)
  <2>1. Listed(deps, Inner) = deps.on[deps.values[Inner.id][Inner.at]]
    BY <1>1, <1>2, <1>6, ListedFacts
  <2>2. On(deps, deps.values[Inner.id][Inner.at]) \in SUBSET Done(marks)
    BY <1>4, <2>1 DEF On
  <2>3. On(deps, Inner.id) \in SUBSET Done(marks)
    BY <1>3, <1>6 DEF Seen
  <2>4. ASSUME NEW k \in DOMAIN deps.values[Inner.id], k <= Inner.at
        PROVE  On(deps, deps.values[Inner.id][k]) \in SUBSET Done(marks)
    <3>1. CASE k = Inner.at
      BY <2>2, <3>1
    <3>2. CASE k # Inner.at
      <4>1. Inner.id \in ChoiceSyms /\ Inner.at \in Nat
        BY <1>2, <1>6 DEF FrameOK, SearchFrame
      <4>2. deps.values[Inner.id] \in Seq(Symbols)
        BY <1>1, <4>1, OnFacts
      <4>3. k < Inner.at
        BY <2>4, <3>2, <4>1, <4>2
      <4>4. QED
        BY <1>3, <1>6, <4>3 DEF Seen
    <3>3. QED
      BY <3>1, <3>2
  <2>5. QED
    BY <2>3, <2>4
<1>7. QED
  BY <1>5, <1>6

\* A choice is not on the way while its values are gone over.
LEMMA ChoiceOff ==
    ASSUME SearchType, WayInv, path # << >>, Inner.at # 0
    PROVE  Inner.id \notin marks.check
<1>1. /\ Inner \in SearchFrame /\ FrameOK(deps, Inner) /\ Len(path) \in DOMAIN path /\ IsGraph(deps)
  BY InnerFacts DEF SearchType
<1>2. ASSUME Inner.id \in marks.check
      PROVE  FALSE
  <2>1. PICK j \in DOMAIN path : Inner.id \in Held(deps, path[j])
    BY <1>2 DEF WayInv, HeldBy
  <2>2. Inner.id \in Group(deps, path[Len(path)].id)
    BY <1>1, PathFacts, GroupFacts DEF Inner
  <2>3. j = Len(path)
    BY <1>1, <2>1, <2>2, PathFacts
  <2>4. QED
    BY <1>1, <2>1, <2>3, HeldFacts DEF Inner
<1>3. QED
  BY <1>2

LEMMA NextValueKeeps ==
    ASSUME SearchInv, NextValue
    PROVE  SearchInv'
<1> DEFINE f == [Inner EXCEPT !.at = @ + 1, !.n = 1]
<1>1. /\ AtEnd /\ path # << >> /\ Inner.id \in ChoiceSyms /\ Inner.at < Len(deps.values[Inner.id])
      /\ path' = [path EXCEPT ![Len(path)].at = @ + 1, ![Len(path)].n = 1]
      /\ marks' = Unmark(marks, {Inner.id}) /\ deps' = deps /\ todo' = todo
  BY DEF NextValue, AtEnd, HasMore
<1>2. SearchType /\ WayInv /\ LinkInv /\ IsGraph(deps) /\ marks \in Marking /\ path \in Seq(SearchFrame)
  BY DEF SearchInv, SearchType
<1>3. /\ Inner \in SearchFrame /\ FrameOK(deps, Inner) /\ Len(path) \in DOMAIN path
      /\ Held(deps, Inner) \in SUBSET marks.check /\ Group(deps, Inner.id) \in SUBSET marks.checked
  BY <1>1, <1>2, InnerFacts
<1>4. f \in SearchFrame /\ f.id = Inner.id /\ f.at = Inner.at + 1 /\ f.n = 1
  <2> DEFINE h == [Inner EXCEPT !.at = @ + 1]
  <2>1. h \in SearchFrame /\ h.id = Inner.id /\ h.at = Inner.at + 1
    BY <1>3 DEF SearchFrame
  <2>2. f = [h EXCEPT !.n = 1]
    OBVIOUS
  <2> HIDE DEF f, h
  <2>3. QED
    BY <2>1, <2>2 DEF SearchFrame
<1>5. path' = [path EXCEPT ![Len(path)] = f]
  BY <1>1, <1>2, <1>3 DEF Inner
<1> HIDE DEF f
<1>6. deps.values[Inner.id] \in Seq(Symbols) /\ Inner.at \in Nat
  BY <1>1, <1>2, <1>3, OnFacts DEF SearchFrame
<1>7. FrameOK(deps, f)
  BY <1>1, <1>3, <1>4, <1>6 DEF FrameOK
<1>8. /\ marks' \in Marking /\ marks'.check = marks.check \ {Inner.id}
      /\ marks'.checked = marks.checked /\ marks'.errs = marks.errs
  BY <1>1, <1>2 DEF Unmark, Marking
<1>9. /\ Held(deps, f) \in SUBSET Held(deps, Inner)
      /\ Inner.at = 0 => Held(deps, Inner) \ Held(deps, f) = {Inner.id}
      /\ Inner.at # 0 => Held(deps, Inner) \ Held(deps, f) = {}
  <2>1. Held(deps, f) = Values(deps, Inner.id)
    BY <1>4, <1>6 DEF Held
  <2>2. Inner.id \notin Values(deps, Inner.id)
    BY <1>1, <1>2, ValueFacts
  <2>3. Held(deps, Inner) = IF Inner.at = 0 THEN {Inner.id} \union Values(deps, Inner.id)
                            ELSE Values(deps, Inner.id)
    BY <1>1 DEF Held, Group
  <2>4. QED
    BY <2>1, <2>2, <2>3
<1>10. marks'.check = marks.check \ (Held(deps, Inner) \ Held(deps, f))
  BY <1>1, <1>2, <1>8, <1>9, ChoiceOff
<1>11. /\ path' \in Seq(SearchFrame) /\ WayInv' /\ LinkInv'
       /\ DOMAIN path' = DOMAIN path /\ path'[Len(path)] = f
       /\ \A j \in DOMAIN path : j # Len(path) => path'[j] = path[j]
  BY <1>1, <1>2, <1>4, <1>5, <1>7, <1>8, <1>9, <1>10, InnerStep
<1>12. DoneInv'
  <2>1. SUFFICES ASSUME marks.errs = 0
                 PROVE  /\ Closed(deps, Done(marks')) /\ Acyclic(deps, Done(marks'))
                        /\ AllSeen(deps, path', Done(marks'))
    BY <1>1, <1>8 DEF DoneInv
  <2>2. /\ Closed(deps, Done(marks)) /\ Acyclic(deps, Done(marks))
        /\ AllSeen(deps, path, Done(marks))
    BY <2>1 DEF SearchInv, DoneInv
  <2>3. On(deps, Inner.id) \in SUBSET Done(marks)
    BY <1>1, <2>1, EndFacts
  <2>4. Inner.id \in marks.checked
    BY <1>2, <1>3, GroupFacts DEF FrameOK, SearchFrame
  <2>5. Done(marks') = Done(marks) \union {Inner.id}
    BY <1>8, <2>4 DEF Done
  <2>6. Closed(deps, Done(marks')) /\ Acyclic(deps, Done(marks'))
    <3>1. CASE Inner.id \in Done(marks)
      <4>1. Done(marks') = Done(marks)
        BY <2>5, <3>1
      <4>2. QED
        BY <2>2, <4>1
    <3>2. CASE Inner.id \notin Done(marks)
      <4>1. \A s \in {Inner.id} : Least(deps)[s] \in SUBSET Done(marks)
        BY <1>2, <1>3, <2>3, GroupFacts DEF FrameOK, SearchFrame
      <4>2. {Inner.id} \cap Done(marks) = {}
        BY <3>2
      <4> DEFINE N == {Inner.id}
      <4>3. /\ Closed(deps, Done(marks)) /\ Acyclic(deps, Done(marks)) /\ N \cap Done(marks) = {}
            /\ \A s \in N : Least(deps)[s] \in SUBSET Done(marks)
            /\ Done(marks') = Done(marks) \union N
        BY <2>2, <2>5, <4>1, <4>2
      <4> HIDE DEF N
      <4>4. QED
        BY ONLY <4>3, DoneGrows
    <3>3. QED
      BY <3>1, <3>2
  <2>7. Seen(deps, f, Done(marks'))
    <3>1. Over(Listed(deps, f), f.n, Done(marks'))
      <4>1. Listed(deps, f) \in Seq(Symbols)
        BY <1>2, <1>4, <1>7, ListedFacts
      <4>2. QED
        BY <1>4, <4>1 DEF Over
    <3>2. On(deps, f.id) \subseteq Done(marks')
      BY <1>4, <2>3, <2>5
    <3>3. ASSUME NEW k \in DOMAIN deps.values[f.id], k < f.at
          PROVE  On(deps, deps.values[f.id][k]) \subseteq Done(marks')
      <4>1. k <= Inner.at /\ Inner.at # 0
        BY <1>4, <1>6, <3>3
      <4>2. On(deps, deps.values[f.id][k]) \in SUBSET Done(marks)
        BY <1>1, <1>4, <2>1, <4>1, EndFacts
      <4>3. QED
        BY <2>5, <4>2
    <3>4. QED
      BY <3>1, <3>2, <3>3 DEF Seen
  <2>8. AllSeen(deps, path', Done(marks'))
    <3>1. ASSUME NEW j \in DOMAIN path', j # Len(path)
          PROVE  Seen(deps, path'[j], Done(marks'))
      <4>1. Seen(deps, path[j], Done(marks)) /\ path'[j] = path[j]
        BY <1>11, <2>2, <3>1 DEF AllSeen
      <4>2. QED
        BY <2>5, <4>1, SeenGrows
    <3>2. QED
      BY <1>11, <2>7, <3>1 DEF AllSeen
  <2>9. QED
    BY <2>6, <2>8
<1>13. QED
  BY <1>1, <1>8, <1>11, <1>12 DEF SearchInv, SearchType, SoundInv, StartInv

LEMMA LeaveKeeps ==
    ASSUME SearchInv, Leave
    PROVE  SearchInv'
<1> DEFINE m == Len(path) - 1
<1>1. /\ AtEnd /\ path # << >> /\ ~HasMore(deps, Inner) /\ path' = SubSeq(path, 1, m)
      /\ marks' = Unmark(marks, Group(deps, Inner.id)) /\ deps' = deps /\ todo' = todo
  BY DEF Leave, AtEnd
<1>2. SearchType /\ WayInv /\ LinkInv /\ IsGraph(deps) /\ marks \in Marking /\ path \in Seq(SearchFrame)
  BY DEF SearchInv, SearchType
<1>3. /\ Inner \in SearchFrame /\ FrameOK(deps, Inner) /\ Len(path) \in DOMAIN path
      /\ Held(deps, Inner) \in SUBSET marks.check /\ Group(deps, Inner.id) \in SUBSET marks.checked
      /\ Inner.id \in Symbols /\ Inner.at \in Nat
  BY <1>1, <1>2, InnerFacts DEF SearchFrame
<1>4. m \in Nat /\ m <= Len(path) /\ m + 1 = Len(path)
  BY <1>2, <1>3
<1>5. /\ marks' \in Marking /\ marks'.check = marks.check \ Group(deps, Inner.id)
      /\ marks'.checked = marks.checked /\ marks'.errs = marks.errs
  BY <1>1, <1>2 DEF Unmark, Marking
<1>6. UNION {Group(deps, path[k].id) : k \in m + 1 .. Len(path)} = Group(deps, Inner.id)
  <2>1. m + 1 .. Len(path) = {Len(path)}
    BY <1>4
  <2>2. QED
    BY <2>1 DEF Inner
<1> HIDE DEF m
<1>7. /\ path' \in Seq(SearchFrame) /\ WayInv' /\ LinkInv'
      /\ \A j \in DOMAIN path' : j \in DOMAIN path /\ path'[j] = path[j]
  BY <1>1, <1>2, <1>4, <1>5, <1>6, CutStep
<1>8. DoneInv'
  <2>1. SUFFICES ASSUME marks.errs = 0
                 PROVE  /\ Closed(deps, Done(marks')) /\ Acyclic(deps, Done(marks'))
                        /\ AllSeen(deps, path', Done(marks'))
    BY <1>1, <1>5 DEF DoneInv
  <2>2. /\ Closed(deps, Done(marks)) /\ Acyclic(deps, Done(marks))
        /\ AllSeen(deps, path, Done(marks))
    BY <2>1 DEF SearchInv, DoneInv
  <2>3. On(deps, Inner.id) \in SUBSET Done(marks)
    BY <1>1, <2>1, EndFacts
  <2>4. Done(marks') = Done(marks) \union Held(deps, Inner)
    <3>1. Inner.at = 0 => Held(deps, Inner) = Group(deps, Inner.id)
      BY <1>2, <1>3, HeldFacts
    <3>2. Inner.at # 0 => Group(deps, Inner.id) = {Inner.id} \union Held(deps, Inner)
      BY <1>2, <1>3, HeldFacts
    <3>3. Inner.at # 0 => Inner.id \notin marks.check
      BY <1>1, <1>2, ChoiceOff
    <3>4. QED
      BY <1>3, <1>5, <3>1, <3>2, <3>3 DEF Done
  <2>5. Held(deps, Inner) \cap Done(marks) = {}
    BY <1>3 DEF Done
  <2>6. ASSUME NEW s \in Held(deps, Inner)
        PROVE  Least(deps)[s] \in SUBSET Done(marks)
    <3>1. CASE s = Inner.id
      <4>1. Least(deps)[s] = On(deps, s)
        BY <1>2, <1>3, <3>1, GroupFacts DEF FrameOK
      <4>2. QED
        BY <2>3, <3>1, <4>1
    <3>2. CASE s # Inner.id
      <4>1. Inner.id \in ChoiceSyms /\ s \in Values(deps, Inner.id)
        BY <1>2, <1>3, <3>2, HeldFacts, GroupFacts DEF FrameOK
      <4>2. Least(deps)[s] = GroupOn(deps, Inner.id)
        BY <1>2, <1>3, <4>1, GroupFacts DEF FrameOK
      <4>3. deps.values[Inner.id] \in Seq(Symbols) /\ ~(Inner.at < Len(deps.values[Inner.id]))
        BY <1>1, <1>2, <4>1, OnFacts DEF HasMore
      <4>4. Inner.at # 0 /\ \A k \in DOMAIN deps.values[Inner.id] : k <= Inner.at
        BY <1>3, <4>1, <4>3 DEF Values
      <4>5. \A v \in Values(deps, Inner.id) : On(deps, v) \in SUBSET Done(marks)
        BY <1>1, <2>1, <4>4, EndFacts DEF Values
      <4>6. GroupOn(deps, Inner.id) \in SUBSET Done(marks)
        BY <2>3, <4>5 DEF GroupOn
      <4>7. QED
        BY <4>2, <4>6
    <3>3. QED
      BY <3>1, <3>2
  <2>7. Closed(deps, Done(marks')) /\ Acyclic(deps, Done(marks'))
    BY <2>2, <2>4, <2>5, <2>6, DoneGrows
  <2>8. ASSUME NEW j \in DOMAIN path'
        PROVE  Seen(deps, path'[j], Done(marks'))
    <3>1. Seen(deps, path[j], Done(marks)) /\ path'[j] = path[j]
      BY <1>7, <2>2 DEF AllSeen
    <3>2. QED
      BY <2>4, <3>1, SeenGrows
  <2>9. QED
    BY <2>7, <2>8 DEF AllSeen
<1>9. QED
  BY <1>1, <1>5, <1>7, <1>8 DEF SearchInv, SearchType, SoundInv, StartInv

-----------------------------------------------------------------------------
LEMMA SearchInit ==
    ASSUME DepsInit
    PROVE  SearchInv
<1>1. IsGraph(NoDeps)
  BY DEF IsGraph, NoDeps, Values
<1>2. SearchType
  BY <1>1 DEF DepsInit, SearchType, NoMarks, Marking
<1>3. WayInv
  BY DEF DepsInit, WayInv, CallsOK, Distinct, HeldBy, Together, NoMarks
<1>4. LinkInv /\ SoundInv
  BY DEF DepsInit, LinkInv, Linking, SoundInv, NoMarks
<1>5. DoneInv
  <2>1. Done(marks) = {}
    BY DEF DepsInit, Done, NoMarks
  <2>2. Closed(deps, {}) /\ Acyclic(deps, {}) /\ AllSeen(deps, path, {})
    BY DEF DepsInit, Closed, Acyclic, AllSeen
  <2>3. QED
    BY <2>1, <2>2 DEF DoneInv
<1>6. StartInv
  BY DEF DepsInit, StartInv, NoDeps
<1>7. QED
  BY <1>2, <1>3, <1>4, <1>5, <1>6 DEF SearchInv

LEMMA SearchKept ==
    ASSUME SearchInv, [DepsNext]_depsVars
    PROVE  SearchInv'
<1>1. CASE UNCHANGED depsVars
  BY <1>1 DEF depsVars, SearchInv, SearchType, WayInv, LinkInv, SoundInv, DoneInv, StartInv
<1>2. CASE \E d : BeginSearch(d)
  BY <1>2, BeginInv
<1>3. CASE \E s \in todo : Start(s)
  BY <1>3, StartKeeps
<1>4. CASE Down
  BY <1>4, DownKeeps
<1>5. CASE Past
  BY <1>5, PastKeeps
<1>6. CASE Back
  BY <1>6, BackKeeps
<1>7. CASE NextValue
  BY <1>7, NextValueKeeps
<1>8. CASE Leave
  BY <1>8, LeaveKeeps
<1>9. QED
  BY <1>1, <1>2, <1>3, <1>4, <1>5, <1>6, <1>7, <1>8 DEF DepsNext, SearchStep

\* When nothing is left to start with, all that is recursive is done.
LEMMA SearchEnd ==
    ASSUME SearchInv
    PROVE  RecursionFound
<1>1. SearchType /\ WayInv /\ IsGraph(deps) /\ marks \in Marking
  BY DEF SearchInv, SearchType
<1>2. ASSUME path = << >>, todo = {}, marks.errs = 0,
             NEW S \in SUBSET Symbols, S # {}, \A s \in S : Least(deps)[s] \cap S # {}
      PROVE  FALSE
  <2>1. ASSUME NEW s \in S
        PROVE  s \in marks.checked
    <3>1. Least(deps)[s] # {} /\ s \in Symbols
      BY <1>2
    <3>2. ASSUME NEW r \in Symbols, On(deps, r) # {}
          PROVE  r \in marks.checked
      <4>1. deps.on[r] # << >>
        BY <3>2 DEF On
      <4>2. QED
        BY <1>2, <4>1 DEF SearchInv, StartInv
    <3>3. CASE ~IsValue(deps, s)
      <4>1. On(deps, s) # {}
        BY <3>1, <3>3 DEF Least
      <4>2. QED
        BY <3>1, <3>2, <4>1
    <3>4. CASE IsValue(deps, s)
      <4> DEFINE c == ChoiceFor(deps, s)
      <4>1. c \in ChoiceSyms /\ s \in Values(deps, c) /\ c \in Symbols
        BY <1>1, <3>4, ValueFacts, ChoiceAssumption DEF Symbols
      <4>2. Least(deps)[s] = GroupOn(deps, c)
        BY <3>1, <3>4 DEF Least
      <4>3. c \in marks.checked \/ \E v \in Values(deps, c) : v \in marks.checked
        <5>1. On(deps, c) # {} \/ \E v \in Values(deps, c) : On(deps, v) # {}
          BY <3>1, <4>2 DEF GroupOn
        <5>2. Values(deps, c) \in SUBSET Symbols
          BY <1>1, <4>1, ValueFacts
        <5>3. QED
          BY <3>2, <4>1, <5>1, <5>2
      <4>4. QED
        BY <1>1, <4>1, <4>3 DEF WayInv, Together
    <3>5. QED
      BY <3>3, <3>4
  <2>2. marks.check = {}
    BY <1>1, <1>2 DEF WayInv, HeldBy
  <2>3. S \in SUBSET Done(marks)
    BY <2>1, <2>2 DEF Done
  <2>4. Acyclic(deps, Done(marks))
    BY <1>2 DEF SearchInv, DoneInv
  <2>5. QED
    BY <1>2, <2>3, <2>4 DEF Acyclic
<1>3. ASSUME path = << >>, todo = {}, Recursive(Least(deps))
      PROVE  marks.errs > 0
  <2>1. marks.errs # 0
    BY <1>2, <1>3 DEF Recursive
  <2>2. QED
    BY <1>1, <2>1 DEF Marking
<1>4. QED
  BY <1>3 DEF SearchInv, SoundInv, RecursionFound, Searched

\* sym_check_deps, whatever depends on what and with whatever symbols conf_parse starts
\* it, reports an error only when there is a recursive dependency, and always when
\* there is one that no choice stands in the middle of.
THEOREM RecursionFoundCorrect == DepsSpec => []RecursionFound
<1>1. DepsInit => SearchInv
  BY SearchInit
<1>2. SearchInv /\ [DepsNext]_depsVars => SearchInv'
  BY SearchKept
<1>3. SearchInv => RecursionFound
  BY SearchEnd
<1>4. QED
  BY <1>1, <1>2, <1>3, PTL DEF DepsSpec

\* Where only its values depend on a choice, there is nothing between the two.
OnlyValues(d) == \A s \in Symbols : \A c \in ChoiceSyms : c \in On(d, s) => s \in Values(d, c)

LEMMA MostIsLeast ==
    ASSUME NEW d, IsGraph(d), OnlyValues(d), Recursive(Most(d))
    PROVE  Recursive(Least(d))
<1>1. PICK S \in SUBSET Symbols : S # {} /\ \A s \in S : Most(d)[s] \cap S # {}
  BY DEF Recursive
<1>2. ASSUME NEW s \in Symbols, NEW c \in ChoiceSyms
      PROVE  c \notin Most(d)[s]
  <2>1. ASSUME NEW h \in ChoiceSyms
        PROVE  c \notin GroupOn(d, h)
    <3>1. h \in Symbols /\ ~IsValue(d, h) /\ Values(d, h) \in SUBSET Symbols
      BY ValueFacts, ChoiceAssumption DEF Symbols
    <3>2. c \notin On(d, h)
      BY <3>1 DEF OnlyValues, IsValue
    <3>3. ASSUME NEW v \in Values(d, h), c \in On(d, v)
          PROVE  c = h
      BY <3>1, <3>3, ValueFacts DEF OnlyValues
    <3>4. QED
      BY <3>2, <3>3 DEF GroupOn
  <2>2. CASE s \in ChoiceSyms
    BY <2>1, <2>2 DEF Most
  <2>3. CASE s \notin ChoiceSyms /\ IsValue(d, s)
    BY <2>1, <2>3, ValueFacts DEF Most, Least
  <2>4. CASE s \notin ChoiceSyms /\ ~IsValue(d, s)
    BY <2>4 DEF Most, Least, OnlyValues, IsValue
  <2>5. QED
    BY <2>2, <2>3, <2>4
<1> DEFINE R == S \ ChoiceSyms
<1>3. ASSUME NEW s \in S
      PROVE  Most(d)[s] \cap R # {}
  BY <1>1, <1>2
<1>4. R \in SUBSET Symbols /\ R # {}
  BY <1>1, <1>3
<1>5. \A s \in R : Least(d)[s] = Most(d)[s]
  BY DEF Most
<1>6. \A s \in R : Least(d)[s] \cap R # {}
  BY <1>3, <1>5
<1> HIDE DEF R
<1>7. QED
  BY <1>4, <1>6 DEF Recursive

\* So that the search reports an error exactly when there is a recursive dependency,
\* unless an entry in the middle of a choice that is none of its values depends on it.
THEOREM RecursionExact ==
    DepsSpec => [](Searched /\ OnlyValues(deps) => (marks.errs > 0 <=> Recursive(Least(deps))))
<1>1. DepsInit => SearchInv
  BY SearchInit
<1>2. SearchInv /\ [DepsNext]_depsVars => SearchInv'
  BY SearchKept
<1>3. SearchInv => (Searched /\ OnlyValues(deps) => (marks.errs > 0 <=> Recursive(Least(deps))))
  <2>1. SearchInv => RecursionFound /\ IsGraph(deps)
    BY SearchEnd DEF SearchInv, SearchType
  <2>2. QED
    BY <2>1, MostIsLeast DEF RecursionFound
<1>4. QED
  BY <1>1, <1>2, <1>3, PTL DEF DepsSpec
=============================================================================
