----------------------------- MODULE MCVmMemory -----------------------------
(***************************************************************************)
(* VmMemory on compiled statements, and the values a script sees.          *)
(***************************************************************************)
EXTENDS Ownership, SceIrExpr

RECURSIVE VarsOf(_)
VarsOf(e) == (IF e.op = "var" THEN {e.name} ELSE {})
             \cup UNION {VarsOf(e.args[k]) : k \in 1..Len(e.args)}

Compiled(s) ==
  [code |-> StatementCode(s), kind |-> s.kind, target |-> s.target, expr |-> s.expr,
   uses |-> VarsOf(s.expr) \cup (IF s.kind \in {"assign"} \cup Updates THEN {s.target} ELSE {})]

Out == Var("stdout")
In  == Var("stdin")
Echo == Call("write", <<Out, Call("read", <<In>>)>>)

(* The declarations app_1.c:66-70 appends to every source.                 *)
Standard == {Statement("decl", "stdout", Call("open", <<Int(0)>>)),
             Statement("decl", "stdin", Call("open", <<Int(1)>>))}

(* Statements that keep to one idiom: the value of an assignment is a      *)
(* literal, a sum that starts with a literal or a variable, or a call.     *)
Plain ==
  Standard \cup
  {Statement("bare", "f", Int(0)),
   Statement("decl", "x", Str(1)),
   Statement("assign", "x", Int(1)),
   Statement("assign", "x", Call("read", <<In>>)),
   Statement("assign", "x", Plus(Float(1), Var("f"))),
   Statement("assign", "f", Plus(Bool(1), Var("x"))),
   Statement("assign", "f", Plus(Plus(Int(1), Var("x")), Call("read", <<In>>))),
   Statement("ADD", "x", Var("x")),
   Statement("ADD", "f", Plus(Var("x"), Str(1))),
   Statement("call", None, Call("write", <<Out, Var("x")>>)),
   Statement("call", None, Plus(Call("read", <<In>>), Call("read", <<In>>))),
   (* operators the machine has no case for: f is 1 then, and as before *)
   Statement("assign", "f", Binary("SHL", Binary("MOD", Binary("SUB", Int(1), Int(1)), Int(2)), Int(1))),
   Statement("MUL", "f", Int(0))}

(* Statements that fail, or do for some values.                            *)
Failing ==
  {Statement("assign", "x", Plus(Var("x"), Out)),
   Statement("assign", "x", Call("open", <<Int(3)>>)),
   Statement("assign", "x", Call("read", <<Str(1), Str(1)>>)),
   Statement("assign", "x", Call("read", <<Var("x")>>)),
   Statement("call", None, Call("write", <<Var("f"), Int(1)>>)),
   Statement("call", None, Call("write", <<Out>>))}

(* An assignment from one variable to another.                             *)
Sharing == Standard \cup
  {Statement("decl", "x", Str(1)), Statement("bare", "f", Int(0)),
   Statement("assign", "f", Var("x")), Statement("call", None, Call("write", <<Out, Var("f")>>))}
(* An assignment from a call that has an operator in its arguments.        *)
Operating == Standard \cup
  {Statement("decl", "x", Str(1)), Statement("bare", "f", Int(0)),
   Statement("assign", "f", Call("write", <<Out, Plus(Var("x"), Str(1))>>))}
(* A call in a call's arguments.                                           *)
Nested  == Standard \cup {Statement("call", None, Echo)}

PlainStatements   == {Compiled(s) : s \in Plain \cup Failing}
SharingStatements == {Compiled(s) : s \in Sharing}
OperatingStatements == {Compiled(s) : s \in Operating}
NestedStatements  == {Compiled(s) : s \in Nested}

Lines == {<<Piece("text", 3)>>}
UsedRegisters == 1..5 \cup {RetReg}

-----------------------------------------------------------------------------
(* The rules of ownership, on the code of the statements.                  *)

(* What is known at each point of a statement's code.                      *)
Points(s) ==
  LET f[k \in 1 .. Len(s.code) + 1] == IF k = 1 THEN Start(s) ELSE After(f[k - 1], s.code[k - 1])
  IN f

(* The code generator never uses a register again whose bytes it has moved *)
(* elsewhere, nor one that a sum or a call deleted, even when the call     *)
(* fails (sce_ir.c, the order of SAVE, LOAD, RMOV and ADD): a statement    *)
(* that starts is Disciplined, if it keeps to the idiom of Plain.          *)
RulesKept == stmt # None /\ todo = stmt.code => Checks(stmt, Points(stmt))

(* What SAVE keeps over a call, LOAD gives back (sce_ir.c:354-360): at the *)
(* end of an assignment register 1 is still the address it went through.   *)
TargetKept ==
  stmt # None /\ stmt.kind = "assign" /\ todo = <<>> /\ err = "none" => reg[1] = Ref(stmt.target)

-----------------------------------------------------------------------------
(* What the cells mean to the script.                                      *)

Pending == IF err = "none" /\ (todo = <<>> \/ Head(todo).op = "DELETE") THEN None ELSE stmt

Script == INSTANCE ScriptVariables WITH
            val <- [x \in Variables |-> Meaning(var[x])], stmt <- Pending,
            failed <- (err = "failed")

(* Every statement has the effect it has on values alone: what it assigns, *)
(* what it writes and when it fails do not depend on which cells share a   *)
(* string, and no other variable changes.  Of a statement with an operator *)
(* other than + only the last is promised (ScriptVariables).               *)
ScriptSpec == Script!Spec
=============================================================================
