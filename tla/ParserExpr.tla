----------------------------- MODULE ParserExpr -----------------------------
(***************************************************************************)
(* What the parser (sce_parser.c) reads in one go: expressions, and        *)
(* declarations with the bodies of functions and instances.  Operators     *)
(* take the token list and a position in it.                               *)
(*                                                                         *)
(* The module is for TLC only (it declares RECURSIVE operators).           *)
(***************************************************************************)
EXTENDS SceAst, Naturals, Sequences, SequencesExt

CONSTANTS
  Written,   \* the digits of each number: before the dot and, with a dot, behind it
  IntWidth,  \* bits of the value of an integer literal
  FloatMax   \* FLT_MAX

ASSUME ParserExprAssumption == IntWidth \in Nat \ {0} /\ FloatMax \in Nat

-----------------------------------------------------------------------------
(* Expressions.                                                            *)

Number(digits) == FoldLeft(LAMBDA n, d : n * 10 + d, 0, digits)

(* create_sce_value_literal_ast: an integer wraps, change_str_to_ints; the *)
(* rounding of a float is left out.                                        *)
Value(text) ==
  LET digits == Written[text]
      whole  == Number(digits[1])
  IN IF Len(digits) = 1 THEN Node("Int_Value", whole % 2 ^ IntWidth, NULL, NULL)
     ELSE IF whole > FloatMax \/ (whole = FloatMax /\ Number(digits[2]) > 0)
       THEN Node("Double_Value", text, NULL, NULL)
       ELSE Node("Float_Value", text, NULL, NULL)

Literal(tok) ==
  CASE tok[1] = "iden"  -> Node("Iden", tok[2], NULL, NULL)
    [] tok[1] = "value" -> Value(tok[2])
    [] tok[1] = "bool"  -> Node("Bool_Value", tok[2] # "false", NULL, NULL)
    [] tok[1] = "str"   -> Node("String_Value", tok[2], NULL, NULL)
    [] OTHER          -> Error(NULL, NULL)

(* The levels of binary operators, the loosest first, with the nodes they  *)
(* make: arguments of a call, comma, assignment, ... and, behind the level *)
(* of the signs, member access.                                            *)
Operators == <<
  [w \in {","} |-> "Args"],
  [w \in {","} |-> "Expr_Comma"],
  "=" :> "Assigment" @@ "+=" :> "Add_Assigment" @@ "-=" :> "Sub_Assigment"
    @@ "*=" :> "Mul_Assigment" @@ "/=" :> "Div_Assigment" @@ "%=" :> "Mod_Assigment",
  [w \in {"|"} |-> "Bit_Or"],
  [w \in {"^"} |-> "Bit_Xor"],
  [w \in {"&"} |-> "Bit_And"],
  "==" :> "Equal" @@ "!=" :> "Not_Equal",
  "<" :> "Less" @@ ">" :> "Grater" @@ "<=" :> "Less_Equal" @@ ">=" :> "Grater_Equal",
  "<<" :> "Left_Shift" @@ ">>" :> "Right_Shift",
  "+" :> "Add" @@ "-" :> "Sub",
  "*" :> "Mul" @@ "/" :> "Div" @@ "%" :> "Mod",
  <<>>,
  [w \in {"."} |-> "Member_Acess"] >>
Signs == "-" :> "Sub" @@ "~" :> "Bit_Not" @@ "1" :> "Bit_Not_Logic"

Arguments  == 1
Comma      == 2
Assignment == 3
SignLevel  == 12
CallLevel  == 14

FirstOperand(level)  == IF level = Arguments THEN Assignment ELSE level + 1

RightToLeft(level) == IF level <= Comma THEN Assignment ELSE level  \* mutant

SecondOperand(level) == IF level <= Assignment THEN Assignment ELSE level + 1

IsOperator(t, i, ops) == There(t, i) /\ t[i][1] = "operator" /\ t[i][2] \in DOMAIN ops

(* Op(v), with v evaluated once.                                           *)
With(v, Op(_)) == CHOOSE r \in {Op(x) : x \in {v}} : TRUE

RECURSIVE Expr(_, _, _), More(_, _, _), Calls(_, _), BaseBlock(_, _, _, _), IdenDecl(_, _)

(* build_sce_ast_args_functions, _expr_conmma, _assigment, ..., _memebers  *)
More(t, level, left) == With(left, LAMBDA l :
  IF IsOperator(t, l.next, Operators[level])
    THEN With(Expr(t, SecondOperand(level), l.next + 1), LAMBDA r :
           More(t, level, R(Node(Operators[level][t[l.next][2]], "", l.node, r.node), r.next)))
    ELSE l)

(* build_sce_ast_instance_obj and its helper                               *)
Instance(t, i) ==
  IF ~(There(t, i) /\ t[i][1] = "iden") THEN R(NULL, i)
  ELSE IF ~At(t, i + 1, "punct", "{")
    THEN R(Error(Node("Instance_Obj", t[i][2], UNSET, UNSET), NULL), i + 1)
  ELSE With(BaseBlock(t, "Instance_Parameter", i + 2, <<NULL>>), LAMBDA b :
         IF b.closed THEN R(Node("Instance_Obj", t[i][2], b.node, UNSET), b.next)
         ELSE R(Error(Node("Instance_Obj", t[i][2], UNSET, UNSET), b.node), b.next))

(* build_sce_ast_pare, build_sce_ast_basic_token                           *)
Pare(t, i) ==
  IF At(t, i, "keyword", "obj")
    THEN With(Instance(t, i + 1), LAMBDA o : R(Node("Instance_Obj", "", NULL, o.node), o.next))
  ELSE IF At(t, i, "punct", "(")
    THEN With(Expr(t, Comma, i + 1), LAMBDA e :
           IF At(t, e.next, "punct", ")") THEN R(Node("Pare", "", UNSET, e.node), e.next + 1)
           ELSE R(Error(UNSET, e.node), e.next))
  ELSE IF There(t, i) THEN R(Literal(t[i]), i + 1) ELSE R(NULL, i)

(* build_sce_ast_call_functions                                            *)
Calls(t, left) == With(left, LAMBDA l :
  IF ~At(t, l.next, "punct", "(") THEN l
  ELSE IF At(t, l.next + 1, "punct", ")")
    THEN Calls(t, R(Node("Call_Function", "", l.node, NULL), l.next + 2))
  ELSE With(Expr(t, Arguments, l.next + 1), LAMBDA a :
         Calls(t, IF At(t, a.next, "punct", ")")
                 THEN R(Node("Call_Function", "", l.node, a.node), a.next + 1)
                 ELSE R(Error(l.node, a.node), a.next))))

Expr(t, level, i) ==
  IF level = CallLevel THEN Calls(t, Pare(t, i))
  ELSE IF level = SignLevel /\ IsOperator(t, i, Signs)
    THEN With(Expr(t, SignLevel, i + 1), LAMBDA r :
           R(Node(Signs[t[i][2]], "", UNSET, r.node), r.next))
  ELSE More(t, level, Expr(t, FirstOperand(level), i))

(* build_sce_ast_base_block_process: nothing but declarations.  Any other  *)
(* token is neither read nor skipped, and the loop goes round for ever.    *)
BaseBlock(t, type, i, nodes) ==
  LET Block(next, closed) ==
        [node |-> Chain(type, "", nodes), next |-> next, closed |-> closed]
  IN IF At(t, i, "punct", "}") THEN Block(i + 1, TRUE)
     ELSE IF i > Len(t) THEN Block(i, FALSE)
     ELSE IF At(t, i, "keyword", "obj")
       THEN With(IdenDecl(t, i + 1), LAMBDA d : BaseBlock(t, type, d.next, Put(nodes, d.node)))
     ELSE Block(0, FALSE)

(* build_sce_ast_function_args: the name of the first parameter is looked  *)
(* at and not consumed.                                                    *)
Parameters(t, i) ==
  LET none == Node("Parameter_Args_Decl", "", NULL, NULL)
  IN IF ~At(t, i, "keyword", "obj") THEN R(none, i)
     ELSE IF ~There(t, i + 1) THEN R(none, i + 1)
     ELSE IF t[i + 1][1] = "iden" THEN R(Node("Parameter_Args_Decl", "", none, NULL), i + 1)
     ELSE R(Error(none, NULL), i + 1)

Function(t, name, i) ==
  LET none == At(t, i, "punct", ")")
      args == IF none THEN R(NULL, i + 1) ELSE Parameters(t, i)
      Decl(left) == Node("Function_Decl", name, left, args.node)
      bare == Decl(IF none THEN NULL ELSE UNSET)
  IN IF ~At(t, args.next, "punct", "{") THEN R(Error(bare, NULL), args.next)
     ELSE With(BaseBlock(t, "Modules_Statement", args.next + 1, <<NULL>>), LAMBDA b :
            IF b.closed THEN R(Decl(b.node), b.next) ELSE R(Error(bare, b.node), b.next))

(* build_sce_ast_iden_decl, behind `obj`                                   *)
IdenDecl(t, i) ==
  LET var == Node("Var_Decl", t[i][2], NULL, NULL)
  IN IF ~There(t, i) THEN R(NULL, i)
     ELSE IF t[i][1] # "iden" THEN Ended(t, R(Node("NULL", "", NULL, NULL), i))
     ELSE IF At(t, i + 1, "operator", "=")
       THEN With(Expr(t, Comma, i + 2), LAMBDA e :
              Ended(t, R(Node("Assigment", "", var, e.node), e.next)))
     ELSE IF At(t, i + 1, "punct", "(") THEN Function(t, t[i][2], i + 2)
     ELSE Ended(t, R(var, i + 1))

(* An expression with all its levels, as a statement holds it.             *)
Expression(t, i) == Expr(t, Comma, i)
=============================================================================
