--------------------------- MODULE MCConfigParse ----------------------------
(***************************************************************************)
(* The texts that TLC parses: blocks over two files, opened and closed in  *)
(* every way; trees of entries with every combination of a few conditions; *)
(* and what the rules of the scanner are about.                            *)
(***************************************************************************)
EXTENDS ConfigParse

MCWords == Commands \union Params \union
             {"A", "B", "C", "y", "m", "n", "text", "main.in", "sub.in", "modules"}
MCFiles == {"main.in", "sub.in"}

L(ws) == Append(ws, Eol)
Quoted(w) == <<"\"", w, "\"">>
Cat(ls) == FlattenSeq(ls)
Both(main, sub) == [f \in MCFiles |-> IF f = "main.in" THEN main ELSE sub]

-----------------------------------------------------------------------------
\* Blocks: each line is a statement.
BlockLines == {L(<<"config", "A">>), L(<<"if", "A">>), L(<<"endif">>), L(<<"choice">>), L(<<"endchoice">>),
               L(<<"menu">> \o Quoted("text")), L(<<"endmenu">>)}
SubStatements == BlockLines \union {L(<<"source">> \o Quoted("main.in"))}
Include == L(<<"source">> \o Quoted("sub.in"))
Cut(s, cut) == IF cut /\ s # << >> THEN SubSeq(s, 1, Len(s) - 1) ELSE s
BlocksOf(n, k) ==
  {Both(Cat(SubSeq(main, 1, i - 1) \o <<Include>> \o SubSeq(main, i, n)), Cut(Cat(sub), cut)) :
     main \in [1 .. n -> BlockLines], i \in 1 .. n + 1, sub \in [1 .. k -> SubStatements], cut \in BOOLEAN}

-----------------------------------------------------------------------------
\* Trees: three symbols with prompts, on which conditions lie as depends on, as if
\* of the prompt, or from a block around the last two.
Types3 == [A |-> <<"bool">>, B |-> <<"bool">>, C |-> <<"tristate">>]
Exprs(s, t) == { << >>, <<s>>, <<"!", s>>, <<s, "&&", t>>, <<s, "||", "!", t>>,
                 <<s, "!=", "n">>, <<"(", s, "=", "y", "||", t, ")", "&&", s>> }
Depend(e) == IF e = << >> THEN << >> ELSE L(<<"depends", "on">> \o e)
Iff(e) == IF e = << >> THEN << >> ELSE <<"if">> \o e
Conf(s, dep, vis) == L(<<"config", s>>) \o L(Types3[s] \o Quoted("text") \o Iff(vis)) \o Depend(dep)
Frames(e) == {<< << >>, << >> >>,
              <<L(<<"if">> \o IF e = << >> THEN <<"y">> ELSE e), L(<<"endif">>)>>,
              <<L(<<"menu">> \o Quoted("text")) \o Depend(e), L(<<"endmenu">>)>>,
              <<L(<<"choice">>) \o L(<<"prompt">> \o Quoted("text")) \o Depend(e), L(<<"endchoice">>)>>}
TreeTexts ==
  {Both(Conf("C", << >>, << >>) \o Conf("A", eA, << >>) \o frame[1] \o Conf("B", eB, vB)
          \o L(<<"comment">> \o Quoted("text")) \o Depend(eC) \o frame[2], << >>) :
     eA \in {<< >>, <<"C">>}, eB \in Exprs("A", "C"), vB \in {<< >>, <<"C", "!=", "n">>, <<"!", "A", "&&", "C">>}, eC \in {<< >>, <<"B">>},
     frame \in UNION {Frames(e) : e \in {<< >>, <<"A">>, <<"C", "=", "m">>, <<"!", "(", "A", "||", "C", ")">>}}}

\* An entry that is in a choice, and so depends on it, and is none of its values; and
\* symbols that are only selected.
SidewaysTexts ==
  {Both(L(<<"choice">>) \o L(<<"prompt">> \o Quoted("text")) \o L(<<"if", "y">>) \o L(<<"menu">> \o Quoted("text"))
          \o Conf("C", eC, << >>) \o L(<<"endmenu">>) \o L(<<"endif">>)
          \o Conf("A", eA, << >>) \o sel \o L(<<"endchoice">>), << >>) :
     eC \in {<< >>, <<"A">>, <<"B">>}, eA \in {<< >>, <<"C">>, <<"B">>},
     sel \in {<< >>, L(<<"select", "B">>), L(<<"select", "B", "if", "B">>)}}

\* Dependencies in all directions: by depends, default and select, in and out of a
\* choice.
Choiced(ls, on) == IF on THEN L(<<"choice">>) \o L(<<"prompt">> \o Quoted("text")) \o ls \o L(<<"endchoice">>) ELSE ls
GraphTexts ==
  {Both(Conf("C", eC, << >>) \o L(<<"option", "modules">>)
          \o Choiced(Conf("A", eA, << >>) \o Conf("B", eB, << >>), on) \o sel, << >>) :
     eC \in {<< >>, <<"A">>, <<"B">>}, eA \in {<< >>, <<"A">>, <<"B">>, <<"C">>},
     eB \in {<< >>, <<"A">>, <<"C", "&&", "A">>},
     sel \in {<< >>, L(<<"config", "C">>) \o L(<<"select", "A", "if", "B">>),
              L(<<"config", "C">>) \o L(<<"default", "y", "if", "A">>) \o L(<<"range", "A", "B">>)},
     on \in BOOLEAN}
  \union SidewaysTexts

-----------------------------------------------------------------------------
\* Lexical matters, one after the other.
HelpLines == {L(<<"\t", " ", "text">>), L(<<"\t", "text", "#", "text">>), L(<<"\t">>), L(<< >>), L(<<" ", "text">>)}
LastLines == {L(<<"config", "B">>), <<"config", "B">>, L(<<"text", "?">>), <<"\t">>, <<"#", "text">>}
HelpTexts ==
  {Both(L(<<"menuconfig", "A">>) \o L(<<"\t", "help">>) \o h1 \o h2 \o h3 \o Include \o L(<<"#", "text">>), last) :
     h1 \in HelpLines, h2 \in HelpLines, h3 \in HelpLines \union {<< >>}, last \in LastLines}
PromptStrings ==
  {<<"\"", "text", "'", "text", "\"">>, <<"'", "text", "\\", "'", "text", "'">>, <<"\"", "text">>,
   <<"\"", "text", "\\">>, <<"\"", "\\", "\"", "text">>, <<"\\", Eol, "\"", "text", "\"">>,
   <<"\"", "'">>, <<"?", "\"", "\"", "#", "text">>}
StringTexts ==
  {Both(Include \o L(<<"mainmenu">> \o Quoted("text")) \o L(<<"choice", "A">>) \o L(<<"optional">>) \o L(<<"endchoice">>) \o tail,
        L(<<"config", "B">>) \o <<"\t", "bool">> \o s \o end) :
     s \in PromptStrings, end \in {<< >>, <<Eol>>}, tail \in {<< >>, Include, L(<<"source", "text">>)}}

MCTexts == <<BlocksOf(2, 1), BlocksOf(1, 2), TreeTexts, GraphTexts, HelpTexts, StringTexts>>
=============================================================================
