--------------------------- MODULE ConfigFinalize ---------------------------
(***************************************************************************)
(* conf_parse (kconfig/zconf.tab.c): after the statements, whatever they   *)
(* were, menu_finalize goes over the tree, step by step, whatever it finds *)
(* of the conditions.  ConfigParse says what it finds.                     *)
(***************************************************************************)
EXTENDS ConfigBlocks, MenuFinalize

VARIABLE calls       \* of menu_finalize, the innermost one last

Finalizing == status = "finalizing"
Work == [g |-> p.g, calls |-> calls]
Becomes(w) == p' = [p EXCEPT !.g = w.g] /\ calls' = w.calls

\* MODULES stands for the symbol that nothing has named.
Finish(named) ==
  /\ Reducing /\ Opened(p).blocks = << >>
  /\ p' = [Opened(p) EXCEPT !.g = IF named THEN @ ELSE DefaultModules(@, "MODULES")]
  /\ calls' = << Frame(Root, "enter", 0) >>
  /\ status' = "finalizing"

\* A step of the innermost call, which is in one of its loops.
Within(does) == Finalizing /\ calls # << >> /\ Top(Work).does = does /\ UNCHANGED status
Self == p.g.menus[In(Work)]

EnterMenu(h) == Within("enter") /\ Self.list # 0 /\ Becomes(Descended(Work, h))
EnterEntry == Within("enter") /\ Self.list = 0 /\ Self.sym # NoSym /\ Becomes(Goes(Work, "follow", 0))
EnterLeaf == Within("enter") /\ Self.list = 0 /\ Self.sym = NoSym /\ Becomes(Settles(Work))

CallBelow == Within("below") /\ Top(Work).menu # 0 /\ Becomes(Called(Work, Top(Work).menu))
BelowDone == Within("below") /\ Top(Work).menu = 0 /\ Becomes(Settles(Work))

CallFollower == Within("follow") /\ Follower(Work) # 0 /\ Becomes(Called(Work, Follower(Work)))
Adopt == Within("follow") /\ Becomes(Adopts(Work))

SettleEntry(h, ks) ==
  /\ Within("settle") /\ Top(Work).menu # 0
  /\ IsChain(p.g, p.g.menus[Top(Work).menu].list, ks)
  /\ Becomes(Settled(Work, h, ks))

\* The last change of a call is one of conditions.
Ended(h) == Popped([Work EXCEPT !.g = Conditioned(@, h)])
Returning == Within("settle") /\ Top(Work).menu = 0 /\ Len(calls) > 1
ReturnBelow(h) ==
  /\ Returning /\ Top(Popped(Work)).does = "below"
  /\ Becomes(AfterBelow(Ended(h), In(Work)))
ReturnFollower(h) ==
  /\ Returning /\ Top(Popped(Work)).does = "follow"
  /\ Becomes(AfterFollower(Ended(h), In(Work)))

ReturnLast(h) ==
  /\ Finalizing /\ Len(calls) = 1 /\ Top(Work).does = "settle" /\ Top(Work).menu = 0
  /\ Becomes(Ended(h))
  /\ status' = "checking"

FinalizeStep ==
  \/ \E h : EnterMenu(h)
  \/ EnterEntry \/ EnterLeaf \/ CallBelow \/ BelowDone \/ CallFollower \/ Adopt
  \/ \E h, ks : SettleEntry(h, ks)
  \/ \E h : ReturnBelow(h) \/ ReturnFollower(h) \/ ReturnLast(h)

\* An error in the statements, or in what they depend on.
Fails == status \in {"parsing", "checking"} /\ status' = "failed" /\ UNCHANGED <<p, calls>>
Checked == status = "checking" /\ status' = "loaded" /\ UNCHANGED <<p, calls>>

FinalizeInit == BlocksInit /\ calls = << >>

FinalizeNext ==
  \/ StatementNext /\ UNCHANGED <<status, calls>>
  \/ \E named \in BOOLEAN : Finish(named)
  \/ FinalizeStep
  \/ Fails \/ Checked

FinalizeSpec == FinalizeInit /\ [][FinalizeNext]_<<p, status, calls>>

-----------------------------------------------------------------------------
Finalized == status \in {"checking", "loaded"}

\* The first of the entries in S, 0 when there is none.
IsFirst(k, S) == IF S = {} THEN k = 0 ELSE k \in S /\ \A j \in S : k <= j

Kids(g, id) == {k \in 2 .. Len(g.menus) : g.menus[k].parent = id}

\* menu_finalize moves entries into submenus and dissolves if blocks without losing,
\* repeating or reordering an entry: the list of a menu holds the entries it is the
\* parent of, each once and in the order of their statements; and what stands between
\* an entry and its parent in that order is below the parent, too.
ListsAgree(g) ==
  \A id \in 1 .. Len(g.menus) :
    /\ IsFirst(g.menus[id].list, Kids(g, id))
    /\ IsFirst(g.menus[id].next, {k \in Kids(g, g.menus[id].parent) : k > id})
StatementOrder(g) ==
  \A k \in 2 .. Len(g.menus) :
    /\ g.menus[k].parent \in 1 .. k - 1
    /\ \A j \in g.menus[k].parent + 1 .. k - 1 : g.menus[j].parent >= g.menus[k].parent
TreeKept == Finalized => ListsAgree(p.g) /\ StatementOrder(p.g)
=============================================================================
