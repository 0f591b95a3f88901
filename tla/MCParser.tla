------------------------------ MODULE MCParser ------------------------------
(***************************************************************************)
(* Parser on programs in every order of their parts, on all expressions of *)
(* up to three operators, on programs with one token removed, replaced or  *)
(* inserted, and on all short token lists behind some beginnings.          *)
(***************************************************************************)
EXTENDS ParserSpec

Ir == INSTANCE SceIr

Token(w) ==
  IF w \in {"name", "start", "main", "end", "obj", "if", "else", "exit", "while"} THEN Keyword(w)
  ELSE IF w \in {"{", "}", "(", ")", ";"} THEN Punct(w)
  ELSE IF w \in {"1", "9", "9.5", "4.5", "4.0"} THEN <<"value", w>>
  ELSE IF w = "true" THEN <<"bool", w>>
  ELSE IF w \in {"x", "A", "f"} THEN Iden(w)
  ELSE Operator(w)
Tokens(words) == [i \in DOMAIN words |-> Token(words[i])]

Digits == "1" :> <<<<1>>>> @@ "9" :> <<<<9>>>> @@ "9.5" :> <<<<9>>, <<5>>>>
            @@ "4.5" :> <<<<4>>, <<5>>>> @@ "4.0" :> <<<<4>>, <<0>>>>

-----------------------------------------------------------------------------
(* Programs.                                                               *)

Orders == UNION {[1..n -> BOOLEAN] : n \in 3..4}

Bodies == {<<>>, <<Ir!If("x", <<Ir!Write("x"), Ir!If("x", <<>>)>>), Ir!Decl("y")>>}
Units ==
  {Ir!Unit("A", fields, sections) :
     fields \in {<<>>, <<Ir!Decl("a")>>, <<Ir!Decl("a"), Ir!Decl("b")>>},
     sections \in {<<>>, <<Ir!Section("start", <<Ir!BadWrite("x")>>)>>}
       \cup {<<Ir!Section("end", b), Ir!Section("start", <<>>)>> : b \in Bodies}}
Programs ==
  {[globals |-> g, units |-> u] :
     g \in {<<>>, <<Ir!Decl("g")>>, <<Ir!Decl("g"), Ir!Decl("h")>>},
     u \in {<<>>} \cup {<<v>> : v \in Units} \cup {<<v, Ir!Unit("B", <<>>, <<>>)>> : v \in Units}}

Written1 == {[toks |-> ProgramTokens(p, o), tree |-> ProgramTree(p)] : p \in Programs, o \in Orders}

-----------------------------------------------------------------------------
(* Statements in a section.                                                *)

InSection(tokens) == Tokens(<<"name", "A", "{", "start", "{">>) \o tokens \o Tokens(<<"}", "}">>)
SectionOnly(stmt) ==
  Linked(Module, <<Node("Name_Statement_Decl", "A", NULL,
                        Linked(Unit, <<Linked("Start_Section_Decl", <<stmt>>)>>))>>)
OneExpr(e) == SectionOnly(Node("Expr", "", e, NULL))

Flat(ops) ==
  [i \in 1..(2 * Len(ops) + 1) |-> IF i % 2 = 1 THEN Iden("x") ELSE Operator(ops[i \div 2])]
FlatLists == UNION {[1..n -> DOMAIN NodeOf] : n \in 1..2} \cup [1..3 -> {",", "=", "|", "-", "*", "."}]

X == Leaf("Iden", "x")
CallOf(f, args) == Node("Call_Function", "", f, args)
Special == {
  <<<<"-", "~", "x", ".", "f", "(", ")">>,
    Node("Sub", "", UNSET, Node("Bit_Not", "", UNSET,
      Node("Member_Acess", "", X, CallOf(Leaf("Iden", "f"), NULL))))>>,
  <<<<"x", "-", "-", "x">>, Node("Sub", "", X, Node("Sub", "", UNSET, X))>>,
  <<<<"(", "x", ",", "x", ")", "*", "x">>,
    Node("Mul", "", Node("Pare", "", UNSET, Node("Expr_Comma", "", X, X)), X)>>,
  <<<<"f", "(", "x", "=", "x", ",", "x", ",", "x", ")", "(", ")">>,
    CallOf(CallOf(Leaf("Iden", "f"),
      Node("Args", "", Node("Args", "", Node("Assigment", "", X, X), X), X)), NULL)>>,
  <<<<"x", "=", "obj", "A", "{", "obj", "x", "=", "9", ";", "}">>,
    Node("Assigment", "", X, Node("Instance_Obj", "", NULL,
      Node("Instance_Obj", "A", Linked("Instance_Parameter",
        <<Node("Expr", "", Node("Assigment", "", Leaf("Var_Decl", "x"),
                                Leaf("Int_Value", 1)), NULL)>>), UNSET)))>>,
  <<<<"4.5", "+", "4.0", "+", "9.5", "+", "true">>,
    Node("Add", "", Node("Add", "", Node("Add", "", Leaf("Double_Value", "4.5"),
      Leaf("Float_Value", "4.0")), Leaf("Double_Value", "9.5")), Leaf("Bool_Value", TRUE))>> }

Written2 ==
  {[toks |-> InSection(Flat(ops) \o <<Punct(";")>>), tree |-> OneExpr(FlatTree(Flat(ops)))] : ops \in FlatLists}
  \cup {[toks |-> InSection(Tokens(s[1]) \o <<Punct(";")>>), tree |-> OneExpr(s[2])] : s \in Special}
  \cup {[toks |-> InSection(Tokens(<<"if", "(", "x", ")", "x", ";">>)),
         tree |-> OneExpr(Node("If", "", X, X))],
        [toks |-> InSection(Tokens(<<"else", "if", "(", "x", ")", "{", ";", "}">>)),
         tree |-> SectionOnly(Node("Else_If", "", X, Linked("Else_If_Section", <<Empty>>)))],
        [toks |-> Tokens(<<"obj", "f", "(", ")", "{", "obj", "x", ";", "}">>),
         tree |-> Linked(Module, <<Node("Function_Decl", "f",
           Linked("Modules_Statement", <<Node("Expr", "", Leaf("Var_Decl", "x"), NULL)>>), NULL)>>)]}

Readings ==
  LET all == Written1 \cup Written2
      tokens == {p.toks : p \in all}
  IN [t \in tokens |-> (CHOOSE p \in all : p.toks = t).tree]

-----------------------------------------------------------------------------
(* Token lists with errors.                                                *)

Alphabet == {"name", "start", "obj", "if", "else", "exit", "x", "1", "=", ",", "(", ")", "{", "}", ";"}

Base == <<"obj", "x", "=", "1", ";", "name", "A", "{", "start", "{", "if", "(", "x", ")", "{",
          "x", ";", "}", "else", "x", ";", "}", "obj", "x", ";", "end", "{", "}", "}">>
Functions == <<"obj", "f", "(", "obj", "x", ")", "{", "obj", "x", "=", "obj", "A", "{", "}", ";", "}">>

Edited(b) ==
  {RemoveAt(b, i) : i \in DOMAIN b}
  \cup {[b EXCEPT ![i] = w] : i \in DOMAIN b, w \in Alphabet}
  \cup {InsertAt(b, i, w) : i \in DOMAIN b, w \in Alphabet}

Beginnings == {
  <<>>, <<"name", "A", "{">>, <<"name", "A", "{", "start", "{", "}">>,
  <<"name", "A", "{", "start", "{">>, <<"name", "A", "{", "start", "{", "x", "=">>,
  <<"obj", "f">>, <<"obj", "f", "(", ")", "{">>, <<"obj", "x", "=">>}
Endings ==
  UNION {[1..n -> Alphabet] : n \in 0..2} \cup [1..3 -> {"name", "obj", "x", "(", "{", "}", ";"}]

Erroneous ==
  {Tokens(b \o e) : b \in Beginnings, e \in Endings}
  \cup {Tokens(e) : e \in Edited(Base) \cup Edited(Functions)}

AllLists == DOMAIN Readings \cup Erroneous
=============================================================================
