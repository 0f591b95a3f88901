------------------------------ MODULE SceIrExpr ------------------------------
(***************************************************************************)
(* How the code generator (sce_ir.c) turns a statement into instructions   *)
(* on the virtual registers: which register holds what, and what is saved  *)
(* around a system call.                                                   *)
(*                                                                         *)
(* The allocator only counts: `sv` registers are in use, a new one is      *)
(* number sv + 1.  The module is for TLC only (RECURSIVE operators).       *)
(***************************************************************************)
EXTENDS Naturals, Sequences

RET == 128  \* SCE_VIRTUAL_REGISTER_RETURN

-----------------------------------------------------------------------------
(* Expressions and statements.  Texts are numbered.                        *)

Node(op, name, n, args) == [op |-> op, name |-> name, n |-> n, args |-> args]

Int(n)    == Node("int", "", n, <<>>)
Float(n)  == Node("float", "", n, <<>>)  \* n.0
Bool(n)   == Node("bool", "", n, <<>>)   \* 0 or 1
Str(n)    == Node("str", "", n, <<>>)
Var(x)    == Node("var", x, 0, <<>>)
Binary(op, l, r) == Node(op, "", 0, <<l, r>>)  \* op is in BinaryOps
Plus(l, r) == Binary("ADD", l, r)
Call(sys, args) == Node(sys, "", 0, args)

Leaves == {"int", "float", "bool", "str", "var"}
Calls  == {"read", "write", "open"}

(* The operators whose result replaces the left operand, by instruction.   *)
Updates   == {"ADD", "SUB", "MUL", "DIV", "MOD"}  \* also as +=, -=, ...
BinaryOps == Updates \cup {"SHL", "SHR", "AND", "OR", "XOR"}

(* kind is "decl" (obj x = e;), "bare" (obj x;), "assign" (x = e;), one of *)
(* Updates (x += e;) or "call" (e; with e without assignments).            *)
Statement(kind, x, e) == [kind |-> kind, target |-> x, expr |-> e]

-----------------------------------------------------------------------------
(* Instructions.                                                           *)

I(op, r1, r2)      == [op |-> op, r1 |-> r1, r2 |-> r2, name |-> ""]
INamed(op, r1, x)  == [op |-> op, r1 |-> r1, r2 |-> 0, name |-> x]

SystemCalls == [read |-> 2, write |-> 1, open |-> 3]

(* A literal, or a variable's reference (MOV) or copy (MMOV), to r.        *)
LoadTo(r, e, mov) ==
  CASE e.op = "int"   -> I("IMOV", r, e.n)
    [] e.op = "float" -> I("FMOV", r, e.n)
    [] e.op = "bool"  -> I("BMOV", r, e.n)
    [] e.op = "str"   -> I("SMOV", r, e.n)
    [] e.op = "var"   -> INamed(mov, r, e.name)

SavedForOneLess(sys) == IF sys = "read" THEN 1 ELSE 2  \* mutant

(* How many registers a call saves: the argument count of the call, and    *)
(* write's for open.                                                       *)
SavedFor(sys) == IF sys = "read" THEN 2 ELSE 3

Least(a, b) == IF a < b THEN a ELSE b
Most(a, b)  == IF a < b THEN b ELSE a

RECURSIVE Operand(_, _), Copied(_, _), Expr(_, _), Arguments(_, _)

(* The operand of an instruction: its code, the register it is in, and the *)
(* registers in use then.                                                  *)
Operand(e, sv) ==
  IF e.op \in Leaves
    THEN [code |-> <<LoadTo(sv + 1, e, "MOV")>>, reg |-> sv + 1, sv |-> sv + 1]
    ELSE Expr(e, sv)

(* The left operand of an operator, which the result replaces.             *)
Copied(e, sv) ==
  IF e.op \in Leaves
    THEN [code |-> <<LoadTo(sv + 1, e, "MMOV")>>, reg |-> sv + 1, sv |-> sv + 1]
    ELSE LET x == Expr(e, sv)
         IN IF x.reg = RET
              THEN [code |-> Append(x.code, I("RMOV", x.sv, RET)), reg |-> x.sv, sv |-> x.sv]
              ELSE x

Arguments(args, sv) ==
  IF args = <<>> THEN [code |-> <<>>, sv |-> sv]
  ELSE LET a == Operand(Head(args), sv)
           b == Arguments(Tail(args), a.sv)
       IN [code |-> a.code \o b.code, sv |-> b.sv]

Expr(e, sv) ==
  IF e.op \in Calls
    THEN LET k    == SavedFor(e.op)
             args == Arguments(e.args, 1)
             back == (IF sv = 0 THEN args.sv ELSE sv) + (IF e.op = "open" THEN 0 ELSE 1)
         IN [code |-> (IF sv = 0 THEN <<>> ELSE <<I("SAVE", Least(sv, k), Most(sv, k))>>)
                      \o <<I("IMOV", 1, SystemCalls[e.op])>> \o args.code
                      \o <<I("SYSTEM_CALL", args.sv, 0)>>
                      \o (IF sv = 0 THEN <<>> ELSE <<I("LOAD", Most(sv, k), Least(sv, k))>>),
             reg |-> RET, sv |-> back]
    ELSE LET l == Copied(e.args[1], sv)
             r == Operand(e.args[2], l.sv)
         IN [code |-> l.code \o r.code
                      \o <<I(e.op, l.reg, r.reg)>>,
             reg |-> r.sv - 1, sv |-> r.sv - 1]

(* An expression statement without an assignment: only its calls.          *)
RECURSIVE CallsOf(_, _)
CallsOf(e, sv) ==
  CASE e.op \in Calls  -> Expr(e, sv)
    [] e.op \in Leaves -> [code |-> <<>>, sv |-> sv]
    [] e.op \in BinaryOps ->
         LET l == CallsOf(e.args[1], sv)
             r == CallsOf(e.args[2], l.sv)
         IN [code |-> l.code \o r.code, sv |-> r.sv]

(* The code of a statement; it starts with no register in use.             *)
StatementCode(s) ==
  IF s.kind = "call" THEN Append(CallsOf(s.expr, 0).code, I("DELETE", RET, 0))
  ELSE IF s.kind = "bare" THEN <<INamed("ALLOC", 0, s.target)>>
  ELSE LET e == Operand(s.expr, 1)
       IN (IF s.kind = "decl" THEN <<INamed("ALLOC", 0, s.target)>> ELSE <<>>)
          \o <<INamed("MOV", 1, s.target)>> \o e.code
          \o <<I(IF s.kind \in Updates THEN s.kind ELSE "RMOV", 1, e.reg)>>
=============================================================================
