----------------------------- MODULE ConfigDeps ------------------------------
(***************************************************************************)
(* The search for recursive dependencies, sym_check_deps                   *)
(* (kconfig/symbol.c), that conf_parse calls with one symbol after the     *)
(* other, step by step and whatever depends on what.  ConfigParse says     *)
(* what the tree makes depend on what.                                     *)
(*                                                                         *)
(* A choice and its values are checked as one: the call for the choice     *)
(* marks them all, goes over what the choice depends on, forgets that it   *)
(* is on the way, and goes over what the values depend on, one after the   *)
(* other.                                                                  *)
(***************************************************************************)
EXTENDS ConfigTree

VARIABLES deps,      \* on: the symbols a symbol depends on, in the order they are
                     \* looked at; values: those of the choices
          path,      \* the calls of sym_check_deps, the innermost one last: at the n-th
                     \* dependency of the symbol id, or of its value number at
          marks,     \* the symbols with the flags CHECK and CHECKED, and the errors
          todo       \* the symbols conf_parse has not called it with

depsVars == <<deps, path, marks, todo>>

NoDeps == [on |-> [s \in Symbols |-> << >>], values |-> [c \in ChoiceSyms |-> << >>]]
NoMarks == [check |-> {}, checked |-> {}, errs |-> 0]

Values(d, c) == {d.values[c][k] : k \in DOMAIN d.values[c]}
IsValue(d, s) == \E c \in ChoiceSyms : s \in Values(d, c)
ChoiceFor(d, s) == CHOOSE c \in ChoiceSyms : s \in Values(d, c)

\* A symbol becomes a value of one choice only.  That a choice is a value of another
\* one is left out: the property sym_get_choice_prop finds is then the wrong one.
IsGraph(d) ==
  /\ d \in [on : [Symbols -> Seq(Symbols)], values : [ChoiceSyms -> Seq(Symbols)]]
  /\ \A c \in ChoiceSyms : Values(d, c) \cap ChoiceSyms = {}
  /\ \A c1, c2 \in ChoiceSyms : c1 # c2 => Values(d, c1) \cap Values(d, c2) = {}

Mark(d, ss) == [d EXCEPT !.check = @ \union ss, !.checked = @ \union ss]
\* (Wrong variant: the way only grows.)
KeepMarks(d, ss) == [d EXCEPT !.checked = @ \union ss]
Unmark(d, ss) == [d EXCEPT !.check = @ \ ss]

-----------------------------------------------------------------------------
Inner == path[Len(path)]
Listed(d, f) == IF f.at = 0 THEN d.on[f.id] ELSE d.on[d.values[f.id][f.at]]

\* What a call marks, and what of it is still on the way.
Group(d, s) == IF s \in ChoiceSyms THEN {s} \union Values(d, s) ELSE {s}
Held(d, f) == IF f.at = 0 THEN Group(d, f.id) ELSE Values(d, f.id)

\* The call with a value that has no marks calls itself with the choice.
Checks(s) == IF IsValue(deps, s) /\ s \notin marks.checked THEN ChoiceFor(deps, s) ELSE s

Enter(s) ==
  /\ path' = Append(path, [id |-> s, at |-> 0, n |-> 1])
  /\ marks' = Mark(marks, Group(deps, s))

\* conf_parse starts with what is in the tree.
BeginSearch(d) ==
  /\ path = << >> /\ todo = {} /\ marks = NoMarks
  /\ IsGraph(d)
  /\ deps' = d /\ todo' = {s \in Symbols : d.on[s] # << >>}
  /\ UNCHANGED <<path, marks>>

\* for_all_symbols, in the order of their hashes, which is any.  One that depends on
\* nothing makes no difference.
Start(s) ==
  /\ path = << >> /\ s \in todo
  /\ todo' = todo \ {s}
  /\ IF Checks(s) \in marks.checked THEN UNCHANGED <<path, marks>> ELSE Enter(Checks(s))
  /\ UNCHANGED deps

Looking == path # << >> /\ Inner.n <= Len(Listed(deps, Inner))
Looked == Checks(Listed(deps, Inner)[Inner.n])

Down == Looking /\ Looked \notin marks.checked /\ Enter(Looked) /\ UNCHANGED <<deps, todo>>

\* The call has returned NULL, at once or after its own calls.
Past ==
  /\ Looking /\ Looked \in marks.checked \ marks.check
  /\ path' = [path EXCEPT ![Len(path)].n = @ + 1]
  /\ UNCHANGED <<deps, marks, todo>>

\* The call finds its symbol on the way, and every call returns it until the one that
\* is about it, which reports the recursion; or conf_parse does.
AboutIt(j, t) ==
  /\ t \in Held(deps, path[j]) \/ j = 1
  /\ \A k \in j + 1 .. Len(path) : t \notin Held(deps, path[k])
Back ==
  /\ Looking /\ Looked \in marks.check
  /\ \E j \in DOMAIN path :
       /\ AboutIt(j, Looked)
       /\ path' = SubSeq(path, 1, j - 1)
       /\ marks' = [Unmark(marks, UNION {Group(deps, path[k].id) : k \in j .. Len(path)})
                    EXCEPT !.errs = @ + 1]
  /\ UNCHANGED <<deps, todo>>

AtEnd == path # << >> /\ Inner.n > Len(Listed(deps, Inner))
HasMore(d, f) == f.id \in ChoiceSyms /\ f.at < Len(d.values[f.id])

NextValue ==
  /\ AtEnd /\ HasMore(deps, Inner)
  /\ path' = [path EXCEPT ![Len(path)].at = @ + 1, ![Len(path)].n = 1]
  /\ marks' = Unmark(marks, {Inner.id})
  /\ UNCHANGED <<deps, todo>>

Leave ==
  /\ AtEnd /\ ~HasMore(deps, Inner)
  /\ path' = SubSeq(path, 1, Len(path) - 1)
  /\ marks' = Unmark(marks, Group(deps, Inner.id))
  /\ UNCHANGED <<deps, todo>>

SearchStep == (\E s \in todo : Start(s)) \/ Down \/ Past \/ Back \/ NextValue \/ Leave

DepsInit == deps = NoDeps /\ path = << >> /\ marks = NoMarks /\ todo = {}
DepsNext == (\E d : BeginSearch(d)) \/ SearchStep
DepsSpec == DepsInit /\ [][DepsNext]_depsVars

-----------------------------------------------------------------------------
On(d, s) == {d.on[s][k] : k \in DOMAIN d.on[s]}

\* That a value depends on its choice is no recursion.
GroupOn(d, c) == On(d, c) \union ((UNION {On(d, v) : v \in Values(d, c)}) \ {c})

\* What a symbol depends on at least: a value, on all that its group depends on; and
\* at most: a choice, too.
Least(d) == [s \in Symbols |-> IF IsValue(d, s) THEN GroupOn(d, ChoiceFor(d, s)) ELSE On(d, s)]
Most(d) == [s \in Symbols |-> IF s \in ChoiceSyms THEN GroupOn(d, s) ELSE Least(d)[s]]

\* Each symbol of a set depends on one of the set.
Recursive(on) == \E S \in SUBSET Symbols : S # {} /\ \A s \in S : on[s] \cap S # {}

\* With whatever symbols the search starts, an error means that there is a recursive
\* dependency; and one that does not lead through a choice without one of its values is
\* an error.
Searched == marks # NoMarks /\ path = << >> /\ todo = {}
RecursionFound ==
  Searched => (marks.errs > 0 => Recursive(Most(deps))) /\ (Recursive(Least(deps)) => marks.errs > 0)
=============================================================================
