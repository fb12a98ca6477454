-------------------------------- MODULE MCStmt --------------------------------
(***************************************************************************)
(* Functions are written from one of several menus, so that constructs     *)
(* that interact meet each other often.  The inline function has a loop it *)
(* may return from, a label and a variable to clean up.                    *)
(***************************************************************************)
EXTENDS Stmt

Leaf(n) == Node(n, <<n>>, <<>>)
Goto == Node("goto", <<"L">>, <<>>)
Event(x) == Node("expr", <<x>>, <<>>)
Menu(leaves, around, others, kinds, locals) ==
  [leaves |-> leaves, around |-> around, others |-> others, kinds |-> kinds, locals |-> locals]

MCMenus ==
  {Menu({Leaf("break"), Leaf("continue"), Leaf("return")}, {"while", "do", "for", "block"},
        {}, {"vla"}, FALSE),
   Menu({Event("a"), Leaf("break")}, {"switch", "case", "default", "block"},
        {Leaf("break"), Node("case", <<1, 1>>, <<Event("b")>>), Node("default", <<>>, <<Event("d")>>)}, {"vla"}, FALSE),
   Menu({Goto, Event("a")}, {"label", "if", "block"}, {Node("label", <<"L">>, <<Event("b")>>)}, {"vla"}, TRUE),
   Menu({Node("call", <<>>, <<>>)}, {"while", "label", "block"}, {Node("call", <<>>, <<>>), Goto}, {"clean"}, FALSE),
   Menu({Leaf("break"), Leaf("return")}, {"forever", "if"}, {}, {}, FALSE)}

MCInline ==
  Block(<<Node("decl", [v |-> <<"w">>, kind |-> "clean"], <<>>),
          Node("label", <<"L">>, <<Headed1("while", <<"g">>, <<>>,
            <<Block(<<Headed1("if", <<"h">>, <<>>, <<Leaf("return")>>), Headed1("if", <<"k">>, <<>>, <<Goto>>), Leaf("break")>>)>>)>>),
          Event("z")>>)

MCInlineToks == Written(MCInline)
MCOracles == {<<>>, <<1, 1, 0, 1>>, <<2, 1, 0, 0, 1>>, <<-1, 1, 1, 1, 0, 1>>, <<1, 0, 1, 2, 1>>}
===============================================================================
