---------------------------- MODULE MCPrimitiveVM ----------------------------
(* Programs for PrimitiveVM: each id has some of them, and a budget. *)
EXTENDS PrimitiveVM, TLC

SetX(v)      == [Op("set") EXCEPT !.key = "x", !.val = v]
SetY         == [Op("set") EXCEPT !.key = "y", !.val = 1]
ClearY       == [Op("set") EXCEPT !.key = "y"]
ListX        == [Op("list_append") EXCEPT !.key = "x"]
ReadX(id)    == [Op("read") EXCEPT !.id = id, !.key = "x"]
ListOf(id)   == [Op("read_list") EXCEPT !.id = id]
ParseY       == [Op("parse") EXCEPT !.key = "y"]
GrowRec(id)  == [Op("grow") EXCEPT !.id = id, !.key = "w"]
NewRec(id)   == [Op("new") EXCEPT !.id = id, !.key = "w"]
DeleteRec(id) == [Op("delete") EXCEPT !.id = id, !.key = "z"]
SpliceInto(id, from) == [Op("splice") EXCEPT !.id = id, !.from = from]
CutOf(id)    == [Op("cut") EXCEPT !.id = id]
Emit(ev, vs) == [Op("emit_event") EXCEPT !.ev = ev, !.vars = vs]
CallTo(id)   == [Op("call") EXCEPT !.id = id]
Isolated(id) == [Op("call_isolated") EXCEPT !.id = id, !.vars = {"x"}, !.key = "x"]
Try(id)      == [Op("call_try_isolated") EXCEPT !.id = id, !.vars = {"x"}, !.key = "x",
                                               !.cond = "z"]
LabelL       == [Op("label") EXCEPT !.key = "l"]
JumpL        == [Op("jump") EXCEPT !.key = "l"]
JumpIfX      == [Op("jump_if") EXCEPT !.key = "l", !.cond = "x"]

Rec(prog, trig, writes, time) ==
  [prog |-> prog, size |-> 0, trig |-> trig, caps |-> TRUE, life |-> "live",
   budget |-> [ops |-> 4, writes |-> writes, events |-> 1, time |-> time]]

Unborn == [Rec(<<>>, None, 0, FALSE) EXCEPT !.life = "unborn"]

MCLibrary ==
  << { Rec(<<Emit("b", {"x"}), GrowRec(2), Emit("b", {})>>, "a", 1, FALSE),
       Rec(<<SetX(1), Emit("b", {"x"}), SetY>>, "a", 0, FALSE),
       Rec(<<CallTo(3), GrowRec(2), GrowRec(2)>>, "a", 1, FALSE),
       Rec(<<Try(3), JumpIfX, Isolated(2)>>, "a", 0, FALSE),
       Rec(<<ClearY, SetX(1)>>, "a", 0, FALSE),
       Rec(<<ClearY, SetX(1), Emit("b", {})>>, "a", 0, FALSE),
       Rec(<<SetX(1), Emit("b", {"x", "y"})>>, "a", 0, FALSE),
       Rec(<<ListX, LabelL, JumpL>>, "a", 0, FALSE),
       Rec(<<ListOf(3), ListX, Op("halt")>>, "a", 0, FALSE),
       Rec(<<CutOf(1), Op("halt"), GrowRec(1)>>, "a", 0, FALSE),
       Rec(<<NewRec(0), DeleteRec(4), NewRec(3)>>, "a", 0, TRUE) },
     { Rec(<<GrowRec(2)>>, "a", 0, FALSE),
       Rec(<<SetX(0), Emit("a", {"x", "y"})>>, "b", 0, FALSE),
       Rec(<<ReadX(3), ParseY, Op("bad")>>, "b", 0, FALSE),
       Rec(<<Isolated(3), DeleteRec(3)>>, "a", 0, FALSE),
       Rec(<<Emit("b", {"y"}), Isolated(2)>>, "a", 0, FALSE),
       [Rec(<<SetY, SpliceInto(2, 1)>>, "a", 0, TRUE) EXCEPT !.size = 1] },
     { Rec(<<GrowRec(3), GrowRec(2)>>, "b", 2, FALSE),
       Rec(<<LabelL, SetX(1), JumpIfX>>, "b", 0, FALSE),
       Rec(<<Emit("b", {"x"})>>, "a", 0, FALSE),
       [Rec(<<SetY, GrowRec(1)>>, "a", 0, FALSE) EXCEPT !.caps = FALSE],
       Unborn },
     { Unborn } >>

MCOperations == UNION {Range(r.prog) : r \in UNION {MCLibrary[id] : id \in Ids}}
MCEvents == {"a", "b"}

MCEntries ==
  { [kind |-> "event", ev |-> "a", vars |-> "y" :> 1],
    [kind |-> "event", ev |-> "b", vars |-> Empty],
    [kind |-> "run", id |-> 1] }
=============================================================================
