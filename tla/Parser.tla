------------------------------- MODULE Parser -------------------------------
(***************************************************************************)
(* The parser (sce_parser.c): recursive descent over the token list.       *)
(*                                                                         *)
(* A state is a moment between two statements of a block.  The stack holds *)
(* the blocks that are open: the module, a name block in it, and sections  *)
(* and if blocks in that.  An action is one turn of the innermost block's  *)
(* loop.  What lies inside a statement is read in one go by ReadExpr and   *)
(* ReadDecl, constants here: ParserExpr defines the program's.  Allocation *)
(* succeeds.                                                               *)
(***************************************************************************)
EXTENDS SceAst, Naturals, Sequences, SequencesExt

CONSTANTS
  TokenLists,      \* the token lists that may be read
  ReadExpr(_, _),  \* an expression of a token list, from a position on
  ReadDecl(_, _)   \* the declaration behind an `obj`

(* A reader goes on from where it starts, not past the end, or never comes *)
(* back.  What a declaration becomes is a node, and no name block.         *)
ASSUME ReadersAssumption ==
  \A t \in TokenLists :
    /\ t \in Seq({t[i] : i \in DOMAIN t})
    /\ \A i \in 1..(Len(t) + 1) : ReadExpr(t, i).next \in {0} \cup i..(Len(t) + 1)
    /\ \A i \in DOMAIN t :
         /\ ReadDecl(t, i).next \in {0} \cup i..(Len(t) + 1)
         /\ TypeOf(ReadDecl(t, i).node) \notin {"none", "Name_Statement_Decl"}

VARIABLES
  toks,   \* the token list
  pos,    \* the next token
  stack,  \* the open blocks, the module first
  stage,
  tree,   \* the result
  lost    \* what has no place in the tree: tokens, and name blocks' missing ends

vars == <<toks, pos, stack, stage, tree, lost>>

-----------------------------------------------------------------------------
(* Open blocks.  owner is the node the block belongs to, slots the nodes   *)
(* of its chain, fields the statements that are moved in front of it, has  *)
(* the sections of a name block.                                           *)

Frame(type, owner) ==
  [type |-> type, owner |-> owner, slots |-> <<NULL>>, fields |-> <<>>, has |-> {}]

Module   == "Global_Modules_Statement"
Unit     == "Name_Statement"
Sections == {"Start_Section_Decl", "Main_Section_Decl", "End_Section_Decl"}
Branches == {"If_Section", "Else_If_Section", "Else_Section"}

Top == Last(stack)
In(types) == stage = "parse" /\ Top.type \in types
InStatements == In(Sections \cup Branches)

NotHoisted(f, n) == [f EXCEPT !.slots = Put(@, n)]  \* mutant

(* In a module and a name block an expression statement behind a used slot *)
(* joins the fields.                                                       *)
Placed(f, n) ==
  IF f.type \in {Module, Unit} /\ TypeOf(n) = "Expr" /\ Last(f.slots) # NULL
    THEN [f EXCEPT !.fields = Append(@, n)]
    ELSE [f EXCEPT !.slots = Put(@, n)]

(* The statements of a block in the order of its chain.                    *)
Hoisted(f) ==
  IF f.fields = <<>> THEN f.slots
  ELSE IF TypeOf(f.slots[1]) = "Expr" THEN <<f.slots[1]>> \o f.fields \o Tail(f.slots)
  ELSE f.fields \o f.slots

(* The node of a block that is over.                                       *)
Whole(f, mark) ==
  LET chain == Chain(f.type, mark, Hoisted(f))
      owner == f.owner
  IN IF owner = NULL THEN chain ELSE Node(owner[1], owner[2], owner[3], chain)

DeliveredAgain(s, n) == Append(Front(s), Placed(Last(s), n))  \* mutant: sections not noted

(* A statement that is read goes to the innermost block.  A second section *)
(* of a kind turns its own slot into an error and ends the name block; the *)
(* error code the block returns with is thrown away.                       *)
Delivered(s, n) ==
  LET f == Last(s)
      p == Placed(f, n)
      up == Front(s)
  IN IF f.type = Unit /\ TypeOf(n) \in f.has
       THEN Append(Front(up), Placed(Last(up), Whole(p, "Error")))
       ELSE Append(up, [p EXCEPT !.has = @ \cup ({TypeOf(n)} \cap Sections)])

Statement(read) ==
  /\ \E r \in {read} :
       IF r.next = 0 THEN stage' = "hung" /\ UNCHANGED <<pos, stack>>
       ELSE pos' = r.next /\ stack' = Delivered(stack, r.node) /\ UNCHANGED stage
  /\ UNCHANGED <<toks, tree, lost>>

Open(type, owner, next) ==
  /\ pos' = next /\ stack' = Append(stack, Frame(type, owner))
  /\ UNCHANGED <<toks, stage, tree, lost>>

(* Tokens up to next are consumed and nothing comes of them.               *)
Dropped(next) ==
  /\ pos' = next /\ stack' = Delivered(stack, NULL)
  /\ lost' = [lost EXCEPT !.tokens = @ \o SubSeq(toks, pos, next - 1)]
  /\ UNCHANGED <<toks, stage, tree>>

-----------------------------------------------------------------------------
(* Statements of every block.                                              *)

NullStatement ==
  /\ stage = "parse" /\ At(toks, pos, "punct", ";")
  /\ Statement(R(Empty, pos + 1))

Declaration ==
  /\ stage = "parse" /\ At(toks, pos, "keyword", "obj") /\ There(toks, pos + 1)
  /\ Statement(ReadDecl(toks, pos + 1))

(* `obj` at the very end: in a section the statement goes on as an         *)
(* expression.                                                             *)
LastObj ==
  /\ stage = "parse" /\ At(toks, pos, "keyword", "obj") /\ ~There(toks, pos + 1)
  /\ IF InStatements THEN Statement(Ended(toks, R(NULL, pos + 1))) ELSE Dropped(pos + 1)

(* The module: build_sce_ast_toplevel_keyword and _toplevel_statement      *)

OpenUnit ==
  /\ In({Module}) /\ At(toks, pos, "keyword", "name") /\ There(toks, pos + 1)
  /\ At(toks, pos + 2, "punct", "{")
  /\ Open(Unit, Node("Name_Statement_Decl", toks[pos + 1][2], NULL, NULL), pos + 3)

(* The error node is not returned, and one more token goes.                *)
UnitWithoutBody ==
  /\ In({Module}) /\ At(toks, pos, "keyword", "name") /\ There(toks, pos + 1)
  /\ ~At(toks, pos + 2, "punct", "{")
  /\ Dropped(Skip(toks, pos + 2))

(* The token behind `name` is read without a test.                         *)
NameAtEnd ==
  /\ In({Module}) /\ At(toks, pos, "keyword", "name") /\ ~There(toks, pos + 1)
  /\ stage' = "crashed"
  /\ UNCHANGED <<toks, pos, stack, tree, lost>>

StrayKept ==  \* mutant: the token is looked at only
  /\ In({Module}) /\ There(toks, pos)
  /\ toks[pos] \notin {<<"punct", ";">>, <<"keyword", "obj">>, <<"keyword", "name">>}
  /\ Dropped(pos)

Stray ==
  /\ In({Module}) /\ There(toks, pos)
  /\ toks[pos] \notin {<<"punct", ";">>, <<"keyword", "obj">>, <<"keyword", "name">>}
  /\ Dropped(pos + 1)

(* A name block: build_sce_ast_name_field_statement                        *)

SectionOf == [word \in {"start", "main", "end"} |->
  CASE word = "start" -> "Start_Section_Decl"
    [] word = "main" -> "Main_Section_Decl"
    [] word = "end" -> "End_Section_Decl"]

OpenSection ==
  /\ In({Unit}) /\ IsKeyword(toks, pos, DOMAIN SectionOf) /\ At(toks, pos + 1, "punct", "{")
  /\ Open(SectionOf[toks[pos][2]], NULL, pos + 2)

SectionSkipped ==  \* mutant: one more token goes, there or not
  /\ In({Unit}) /\ IsKeyword(toks, pos, DOMAIN SectionOf) /\ ~At(toks, pos + 1, "punct", "{")
  /\ Statement(R(Error(NULL, NULL), pos + 2))

SectionKept ==  \* mutant: the keyword is not consumed
  /\ In({Unit}) /\ IsKeyword(toks, pos, DOMAIN SectionOf) /\ ~At(toks, pos + 1, "punct", "{")
  /\ Statement(R(Error(NULL, NULL), pos))

SectionWithoutBody ==
  /\ In({Unit}) /\ IsKeyword(toks, pos, DOMAIN SectionOf) /\ ~At(toks, pos + 1, "punct", "{")
  /\ Statement(R(Error(NULL, NULL), pos + 1))

(* Anything else is not consumed: the loop goes round for ever.            *)
StartsNothing ==
  /\ In({Unit}) /\ There(toks, pos) /\ ~IsKeyword(toks, pos, {"obj"} \cup DOMAIN SectionOf)
  /\ toks[pos] \notin {<<"punct", ";">>, <<"punct", "}">>}
Foreign == StartsNothing /\ Dropped(pos)

(* Sections and branches: build_sce_ast_statement                          *)

(* build_sce_ast_if_else, from the bracket at i on                         *)
IsBranch(i, cond) == At(toks, i, "punct", "(") /\ At(toks, cond.next, "punct", ")")
IfElse(type, i) ==
  \E cond \in {ReadExpr(toks, i + 1)} :
    IF ~IsBranch(i, cond)
      THEN Statement(IF At(toks, i, "punct", "(") THEN R(Error(NULL, cond.node), cond.next)
                     ELSE R(Error(NULL, NULL), i))
    ELSE IF At(toks, cond.next + 1, "punct", "{")
      THEN Open(IF type = "If" THEN "If_Section" ELSE "Else_If_Section",
                Node(type, "", cond.node, NULL), cond.next + 2)
    ELSE \E body \in {ReadExpr(toks, cond.next + 1)} :
           Statement(Ended(toks, R(Node(type, "", cond.node, body.node), body.next)))

If ==
  /\ InStatements
  /\ \/ At(toks, pos, "keyword", "if") /\ IfElse("If", pos + 1)
     \/ /\ At(toks, pos, "keyword", "else") /\ At(toks, pos + 1, "keyword", "if")
        /\ IfElse("Else_If", pos + 2)

Else ==
  /\ InStatements /\ At(toks, pos, "keyword", "else") /\ ~At(toks, pos + 1, "keyword", "if")
  /\ IF At(toks, pos + 1, "punct", "{")
       THEN Open("Else_Section", Node("Else", "", NULL, NULL), pos + 2)
       ELSE \E e \in {ReadExpr(toks, pos + 1)} :
              Statement(Ended(toks, R(Node("Else", "", NULL, e.node), e.next)))

(* build_sce_ast_call_section asks for a `;` that is an operator.          *)
CallSection ==
  /\ InStatements /\ IsKeyword(toks, pos, {"exit", "start", "main", "end"})
  /\ Statement(IF At(toks, pos + 1, "operator", ";")
                 THEN R(Node("Call_Section", toks[pos][2], NULL, NULL), pos + 2)
                 ELSE R(Error(NULL, NULL), pos + 1))

ExprStatement ==
  /\ InStatements /\ There(toks, pos) /\ toks[pos] \notin {<<"punct", ";">>, <<"punct", "}">>}
  /\ ~IsKeyword(toks, pos, {"obj", "if", "else", "exit", "start", "main", "end"})
  /\ \E e \in {ReadExpr(toks, pos)} : Statement(Ended(toks, e))

(* The end of a block, at its bracket or at the end of the tokens.  Only a *)
(* name block that is not closed is not told from one that is.             *)
Close(closed, next) ==
  LET node == IF closed \/ Top.type = Unit THEN Whole(Top, "")
              ELSE Error(NULL, Whole(Top, ""))
  IN /\ pos' = next /\ stack' = Delivered(Front(stack), node)
     /\ lost' = [lost EXCEPT !.ends = @ + IF Top.type = Unit /\ ~closed THEN 1 ELSE 0]
     /\ UNCHANGED <<toks, stage, tree>>

CloseBlock ==
  /\ stage = "parse" /\ Top.type # Module /\ At(toks, pos, "punct", "}")
  /\ Close(TRUE, pos + 1)

EndOfTokens ==
  /\ stage = "parse" /\ Top.type # Module /\ ~There(toks, pos)
  /\ Close(FALSE, pos)

Finish ==
  /\ In({Module}) /\ ~There(toks, pos)
  /\ tree' = Whole(Top, "") /\ stage' = "done"
  /\ UNCHANGED <<toks, pos, stack, lost>>

-----------------------------------------------------------------------------

Init ==
  /\ toks \in TokenLists
  /\ pos = 1 /\ stack = <<Frame(Module, NULL)>>
  /\ stage = "parse" /\ tree = NULL /\ lost = [tokens |-> <<>>, ends |-> 0]

Next ==
  \/ NullStatement \/ Declaration \/ LastObj
  \/ OpenUnit \/ UnitWithoutBody \/ NameAtEnd \/ Stray
  \/ OpenSection \/ SectionWithoutBody \/ Foreign
  \/ If \/ Else \/ CallSection \/ ExprStatement
  \/ CloseBlock \/ EndOfTokens \/ Finish

Spec == Init /\ [][Next]_vars

(* One thread that nothing holds up.                                       *)
FairSpec == Spec /\ WF_vars(Next)

-----------------------------------------------------------------------------
(* Properties.                                                             *)

(* What the block at a depth may be: sections and branches are only in a   *)
(* name block, which is only in the module.                                *)
BlocksAt(k) ==
  CASE k = 1 -> {Module} [] k = 2 -> {Unit} [] k = 3 -> Sections [] OTHER -> Branches

(* Types of the variables, and how blocks nest.                            *)
TypeOK ==
  /\ pos \in 1..(Len(toks) + 1)
  /\ stage \in {"parse", "hung", "crashed", "done"}
  /\ lost.ends \in Nat /\ Len(lost.tokens) < pos
  /\ \A k \in DOMAIN stack :
       /\ stack[k].slots # <<>> /\ stack[k].has \subseteq Sections
       /\ stack[k].type \in BlocksAt(k)

(* The module's chain, and those of its name blocks.                       *)
NameBlocks(n) == {u \in {Items(n)[i] : i \in DOMAIN Items(n)} : TypeOf(u) = "Name_Statement_Decl"}
Blocks(n) == {n} \cup {u[4] : u \in NameBlocks(n)}

FieldsLead(items) ==
  \A i, j \in DOMAIN items : i < j /\ TypeOf(items[j]) = "Expr" => TypeOf(items[i]) = "Expr"

(* The code generator meets every field before the first section or name   *)
(* block, unless a token was dropped before it.                            *)
FieldsFirst ==
  stage = "done" /\ lost.tokens = <<>> => \A b \in Blocks(tree) : FieldsLead(Items(b))

EachOnce(items) ==
  \A i, j \in DOMAIN items :
    TypeOf(items[i]) \in Sections /\ TypeOf(items[j]) = TypeOf(items[i]) => i = j

(* What is left to do: two turns for a token, and one for an open block.   *)
Ahead == 2 * (Len(toks) + 1 - pos) + Len(stack)

(* The loops of the blocks have no counter either: each of their turns     *)
(* consumes a token or ends a block, except for the one that spins before  *)
(* a token that starts nothing.                                            *)
TurnsRunOut == [][stage = "parse" /\ stage' = "parse" => StartsNothing \/ Ahead' < Ahead]_vars

(* A name block has each section at most once, or ends in the error node   *)
(* that a second one makes.                                                *)
SectionsOnce ==
  stage = "done" => \A u \in NameBlocks(tree) : u[4][2] = "Error" \/ EachOnce(Items(u[4]))
=============================================================================
