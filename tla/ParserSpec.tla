----------------------------- MODULE ParserSpec -----------------------------
(***************************************************************************)
(* What the parser promises: the tree a program stands for, how a tree is  *)
(* written, and what Parser with the readers of ParserExpr says of them.   *)
(*                                                                         *)
(* Programs are those of SceIr, so a tree that is read as it should is the *)
(* input SceIr's code generator takes.                                     *)
(***************************************************************************)
EXTENDS Parser, ParserExpr, FiniteSets

CONSTANT Reading  \* some token lists, each with the tree it should become

Keyword(w)  == <<"keyword", w>>
Punct(w)    == <<"punct", w>>
Operator(w) == <<"operator", w>>
Iden(w)     == <<"iden", w>>

Leaf(type, text) == Node(type, text, NULL, NULL)

-----------------------------------------------------------------------------
(* Programs of SceIr: their tokens and their trees.                        *)

Braced(tokens) == <<Punct("{")>> \o tokens \o <<Punct("}")>>
InParens(tokens) == <<Punct("(")>> \o tokens \o <<Punct(")")>>

RECURSIVE StatementTokens(_), StatementTree(_)

StatementTokens(s) ==
  CASE s.kind = "decl" ->
         <<Keyword("obj"), Iden(s.name), Operator("="), <<"value", "1">>, Punct(";")>>
    [] s.kind = "write" ->
         <<Iden("__write__")>> \o InParens(<<Iden(s.name), Operator(","), <<"str", "s">>>>)
           \o <<Punct(";")>>
    [] s.kind = "bad" -> <<Iden("__write__")>> \o InParens(<<Iden(s.name)>>) \o <<Punct(";")>>
    [] s.kind = "if" ->
         <<Keyword("if")>> \o InParens(<<Iden(s.name)>>)
           \o Braced(FlattenSeq([i \in DOMAIN s.body |-> StatementTokens(s.body[i])]))

(* A list of statements as the code generator walks it.                    *)
Linked(type, nodes) == Chain(type, "", IF nodes = <<>> THEN <<NULL>> ELSE nodes)

StatementTree(s) ==
  LET x == Leaf("Iden", s.name)
      Call(args) ==
        Node("Expr", "", Node("Call_Function", "", Leaf("Iden", "__write__"), args), NULL)
  IN CASE s.kind = "decl" ->
            Node("Expr", "",
                 Node("Assigment", "", Leaf("Var_Decl", s.name), Leaf("Int_Value", 1)), NULL)
       [] s.kind = "write" -> Call(Node("Args", "", x, Leaf("String_Value", "s")))
       [] s.kind = "bad" -> Call(x)
       [] s.kind = "if" ->
            Node("If", "", x,
                 Linked("If_Section", [i \in DOMAIN s.body |-> StatementTree(s.body[i])]))

AllTokens(stmts) == [i \in DOMAIN stmts |-> StatementTokens(stmts[i])]
AllTrees(stmts)  == [i \in DOMAIN stmts |-> StatementTree(stmts[i])]

(* Two lists woven into one, in the order of the given TRUEs and FALSEs.   *)
RECURSIVE Woven(_, _, _)
Woven(order, as, bs) ==
  IF order = <<>> THEN as \o bs
  ELSE IF Head(order) /\ as # <<>> THEN <<Head(as)>> \o Woven(Tail(order), Tail(as), bs)
  ELSE IF bs # <<>> THEN <<Head(bs)>> \o Woven(Tail(order), as, Tail(bs))
  ELSE as

SectionTokens(sec) == <<Keyword(sec.kind)>> \o Braced(FlattenSeq(AllTokens(sec.body)))
SectionTree(sec)   == Linked(SectionOf[sec.kind], AllTrees(sec.body))

UnitTokens(u, order) ==
  <<Keyword("name"), Iden(u.name)>>
  \o Braced(FlattenSeq(
       Woven(order, AllTokens(u.fields),
             [i \in DOMAIN u.sections |-> SectionTokens(u.sections[i])])))
UnitTree(u) ==
  Node("Name_Statement_Decl", u.name, NULL,
       Linked(Unit, AllTrees(u.fields)
                      \o [i \in DOMAIN u.sections |-> SectionTree(u.sections[i])]))

(* A program may be written in any order; its tree has one.                *)
ProgramTokens(p, order) ==
  FlattenSeq(Woven(order, AllTokens(p.globals),
                   [i \in DOMAIN p.units |-> UnitTokens(p.units[i], order)]))
ProgramTree(p) ==
  Linked(Module, AllTrees(p.globals) \o [i \in DOMAIN p.units |-> UnitTree(p.units[i])])

-----------------------------------------------------------------------------
(* Expressions without brackets: the operator that binds least splits      *)
(* them, the first of its kind if it assigns and the last if not.          *)

Loosest == <<{","}, {"=", "+="}, {"|"}, {"^"}, {"&"}, {"=="}, {"<", ">="}, {"<<"},
             {"+", "-"}, {"*", "%"}, {"."}>>
NodeOf == "," :> "Expr_Comma" @@ "=" :> "Assigment" @@ "+=" :> "Add_Assigment"
  @@ "|" :> "Bit_Or" @@ "^" :> "Bit_Xor" @@ "&" :> "Bit_And" @@ "==" :> "Equal"
  @@ "<" :> "Less" @@ ">=" :> "Grater_Equal" @@ "<<" :> "Left_Shift"
  @@ "+" :> "Add" @@ "-" :> "Sub" @@ "*" :> "Mul" @@ "%" :> "Mod" @@ "." :> "Member_Acess"

RECURSIVE FlatTree(_)
FlatTree(e) ==
  IF Len(e) = 1 THEN Leaf("Iden", e[1][2])
  ELSE LET Uses(ops) == {i \in DOMAIN e : e[i][1] = "operator" /\ e[i][2] \in ops}
           ops   == SelectSeq(Loosest, LAMBDA s : Uses(s) # {})[1]
           split == IF "=" \in ops THEN CHOOSE i \in Uses(ops) : \A j \in Uses(ops) : i <= j
                    ELSE CHOOSE i \in Uses(ops) : \A j \in Uses(ops) : i >= j
       IN Node(NodeOf[e[split][2]], "",
               FlatTree(SubSeq(e, 1, split - 1)), FlatTree(SubSeq(e, split + 1, Len(e))))

-----------------------------------------------------------------------------
(* The words a tree was read from, those of a parameter list's missing     *)
(* bracket aside.  Numbers and Boolean words are told by their type only.  *)

SymbolOf(type) ==
  LET level == CHOOSE l \in DOMAIN Operators : \E w \in DOMAIN Operators[l] : Operators[l][w] = type
  IN CHOOSE w \in DOMAIN Operators[level] : Operators[level][w] = type
Binary == UNION {{Operators[l][w] : w \in DOMAIN Operators[l]} : l \in DOMAIN Operators}

Told(w) ==
  IF w \in DOMAIN Written THEN "number" ELSE IF w \in {"true", "false"} THEN "bool" ELSE w
Word(t) == Told(t[2])
Times(w, s) == Cardinality({i \in DOMAIN s : s[i] = w})

RECURSIVE Words(_), ListWords(_)

ListWords(n) ==
  LET Said(s) ==
        IF TypeOf(s) \in Sections
          THEN <<CHOOSE w \in DOMAIN SectionOf : SectionOf[w] = TypeOf(s), "{">>
                 \o ListWords(s) \o <<"}">>
          ELSE Words(s)
  IN FlattenSeq([i \in DOMAIN Items(n) |-> Said(Items(n)[i])])

Words(n) ==
  LET type == TypeOf(n)
      inner == IF TypeOf(n[4]) \in Branches THEN <<"{">> \o ListWords(n[4]) \o <<"}">>
               ELSE Words(n[4])
  IN CASE type \in {"none", "Unset"} -> <<>>
       [] type \in {"Iden", "String_Value"} -> <<n[2]>>
       [] type \in {"Int_Value", "Float_Value", "Double_Value"} -> <<"number">>
       [] type = "Bool_Value" -> <<"bool">>
       [] type = "Expr" -> Words(n[3]) \o <<";">>
       [] type = "NULL" -> <<"obj">>
       [] type = "Var_Decl" -> <<"obj", n[2]>>
       [] type = "Pare" -> <<"(">> \o Words(n[4]) \o <<")">>
       [] type = "Call_Function" -> Words(n[3]) \o <<"(">> \o Words(n[4]) \o <<")">>
       [] type = "Bit_Not" -> <<"~">> \o Words(n[4])
       [] type \in Binary -> Words(n[3]) \o <<SymbolOf(type)>> \o Words(n[4])
       [] type = "Instance_Obj" ->
            IF n[2] = "" THEN <<"obj">> \o Words(n[4])
            ELSE <<n[2], "{">> \o ListWords(n[3]) \o <<"}">>
       [] type = "Function_Decl" ->
            <<"obj", n[2], "(">> \o (IF n[4] = NULL THEN <<")">> ELSE <<>>)
              \o <<"{">> \o ListWords(n[3]) \o <<"}">>
       [] type = "If" -> <<"if", "(">> \o Words(n[3]) \o <<")">> \o inner
       [] type = "Else_If" -> <<"else", "if", "(">> \o Words(n[3]) \o <<")">> \o inner
       [] type = "Else" -> <<"else">> \o inner
       [] type = "Name_Statement_Decl" ->
            <<"name", Told(n[2]), "{">> \o ListWords(n[4]) \o <<"}">>

BlockTypes == {Module, Unit, "Modules_Statement", "Instance_Parameter"} \cup Sections \cup Branches

RECURSIVE HasError(_)
HasError(n) ==
  IF TypeOf(n) \in BlockTypes
    THEN n[2] = "Error" \/ \E i \in DOMAIN Items(n) : HasError(Items(n)[i])
    ELSE n # NULL /\ (TypeOf(n) = "Error" \/ HasError(n[3]) \/ HasError(n[4]))

-----------------------------------------------------------------------------
(* Properties.                                                             *)

(* Each program becomes the tree it stands for, in whatever order its      *)
(* fields, sections and name blocks are written, and each expression the   *)
(* tree that the ranks of its operators give.  That tree has a literal     *)
(* that does not fit as it wraps, and UNSET where the code sets no pointer *)
(* (ext_strs.c:112, sce_parser.c:1166): neither is called wrong here.      *)
ProgramsRead == stage = "done" /\ toks \in DOMAIN Reading => tree = Reading[toks]

(* A tree without an error node says all that the tokens said: a token is  *)
(* in it, or is one of those dropped at top level, and it makes up no more *)
(* than the missing ends of name blocks.                                   *)
NothingSkipped ==
  stage = "done" /\ ~HasError(tree) =>
    LET said == ListWords(tree) \o [i \in DOMAIN lost.tokens |-> Word(lost.tokens[i])]
        read == [i \in DOMAIN toks |-> Word(toks[i])]
    IN \A w \in ToSet(said) \cup ToSet(read) :
         Times(w, said) = Times(w, read) + (IF w = "}" THEN lost.ends ELSE 0)

(* The parser comes to an end, unless it is in a name block before a token *)
(* that starts nothing there, or the body of a function or an instance     *)
(* holds something that is not a declaration.  At a `name` that is the     *)
(* last token the code reads behind the list (sce_parser.c:501): such a    *)
(* crash counts as an end, any other would not.                            *)
BodyAt(i) ==
  /\ i > 1 /\ toks[i] = Punct("{")
  /\ \/ toks[i - 1] \in {Punct("("), Punct(")")}
     \/ i > 2 /\ toks[i - 1][1] = "iden" /\ toks[i - 2] = Keyword("obj")
Spins ==
  \/ stage = "hung" /\ \E i, j \in DOMAIN toks :
       i < j /\ BodyAt(i) /\ toks[j] \notin {Keyword("obj"), Punct("}")}
  \/ StartsNothing
NameIsLast == toks # <<>> /\ toks[Len(toks)] = Keyword("name")
Completes == <>(stage = "done" \/ (stage = "crashed" /\ NameIsLast) \/ Spins)
=============================================================================
