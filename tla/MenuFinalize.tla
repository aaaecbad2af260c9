---------------------------- MODULE MenuFinalize ----------------------------
(***************************************************************************)
(* menu_finalize (kconfig/menu.c) on the pointers of the tree, loop by     *)
(* loop: how the entries of a tree are finalized one below the other, how  *)
(* an entry takes the followers that depend on it into a submenu, and how  *)
(* an if block gives way to its entries.  Which followers those are, and   *)
(* what becomes of conditions, types and properties, is up to the user of  *)
(* this module: ConfigMenu says it, and the tree h is the one with them.   *)
(*                                                                         *)
(* w is a tree and the calls of the recursive function that are under way, *)
(* the innermost one last.  A call is for the entry id.  It enters; if     *)
(* there are entries below it, it finalizes them; or if it has a symbol,   *)
(* the entries that follow it, as long as it takes them; and it then       *)
(* settles the entries that are below it.  menu is the variable of that    *)
(* loop, last_menu while it takes followers.                               *)
(***************************************************************************)
EXTENDS ConfigTree

Frame(id, does, menu) == [id |-> id, does |-> does, menu |-> menu]

Top(w) == w.calls[Len(w.calls)]
In(w) == Top(w).id
Called(w, id) == [w EXCEPT !.calls = Append(@, Frame(id, "enter", 0))]
Goes(w, does, menu) == [w EXCEPT !.calls[Len(w.calls)] = Frame(In(w), does, menu)]
Popped(w) == [w EXCEPT !.calls = SubSeq(@, 1, Len(@) - 1)]

\* Conditions, types and properties change without the pointers.
Conditioned(g, h) ==
  [g EXCEPT !.menus = [id \in DOMAIN @ |-> [@[id] EXCEPT !.dep = h.menus[id].dep]],
            !.props = h.props, !.type = h.type, !.rev = h.rev,
            !.choiceval = h.choiceval, !.members = h.members]

\* The entries below inherit conditions before the first of them is finalized.
Descended(w, h) ==
  Goes([w EXCEPT !.g = Conditioned(@, h)], "below", w.g.menus[In(w)].list)

\* The entry after the last one taken.
Follower(w) == w.g.menus[IF Top(w).menu = 0 THEN In(w) ELSE Top(w).menu].next

\* (Wrong variant: the last one keeps its successor.)
AdoptedOpen(g, p, last) ==
  IF last = 0 THEN g
  ELSE [g EXCEPT !.menus[p].list = g.menus[p].next,
                 !.menus[p].next = g.menus[last].next]

\* The entries up to the last one taken are below p.
Adopted(g, p, last) ==
  IF last = 0 THEN g
  ELSE [g EXCEPT !.menus[p].list = g.menus[p].next,
                 !.menus[p].next = g.menus[last].next,
                 !.menus[last].next = 0]

Settles(w) == Goes(w, "settle", w.g.menus[In(w)].list)
Adopts(w) == Settles([w EXCEPT !.g = Adopted(@, In(w), Top(w).menu)])

\* ks are the entries in the list that begins with first.
IsChain(g, first, ks) ==
  /\ ks \in Seq(DOMAIN g.menus)
  /\ IF first = 0 THEN ks = << >>
     ELSE /\ ks # << >> /\ ks[1] = first /\ g.menus[ks[Len(ks)]].next = 0
          /\ \A i \in 1 .. Len(ks) - 1 : ks[i + 1] = g.menus[ks[i]].next

\* An entry that has a list, ks, and no prompt (an if block) is replaced by its
\* entries.
Spliced(g, p, id, ks) ==
  LET lifted == [m \in DOMAIN g.menus |->
                   IF \E k \in DOMAIN ks : ks[k] = m
                   THEN [g.menus[m] EXCEPT !.parent = p] ELSE g.menus[m]]
  IN [g EXCEPT !.menus = [lifted EXCEPT ![ks[Len(ks)]].next = g.menus[id].next,
                                        ![id].next = g.menus[id].list,
                                        ![id].list = 0]]
Dissolved(g, p, id, ks) ==
  IF g.menus[id].list # 0 /\ g.menus[id].prompt = 0 THEN Spliced(g, p, id, ks) ELSE g

\* One round of the last loop.
Onward(w) == Goes(w, "settle", w.g.menus[Top(w).menu].next)
Settled(w, h, ks) ==
  Onward([w EXCEPT !.g = Dissolved(Conditioned(@, h), In(w), Top(w).menu, ks)])

\* A call returns to the one it is part of, whose loop goes on.
AfterBelow(w, id) == Goes(w, "below", w.g.menus[id].next)
AfterFollower(w, id) == Goes([w EXCEPT !.g.menus[id].parent = In(w)], "follow", id)
=============================================================================
