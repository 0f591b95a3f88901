--------------------------- MODULE ScriptVariables ---------------------------
(***************************************************************************)
(* What a script may expect of its variables, without the machine: each    *)
(* statement takes effect in one step, on the values as they are, or fails *)
(* and changes nothing.                                                    *)
(*                                                                         *)
(* The operators are + and those the machine has no case for               *)
(* (src/sce_run.c:692).  README.md of the repository lists -, *, / and %   *)
(* as implemented; here nothing is promised of their values, only that     *)
(* such a statement ends and changes no variable but its target.           *)
(*                                                                         *)
(* A value is [kind, n, text].  For TLC only (a RECURSIVE operator).       *)
(***************************************************************************)
EXTENDS Integers, Sequences

CONSTANTS Fields, Locals, Statements, Inputs, None

VARIABLES
  val,     \* each variable's value
  stmt,    \* the statement being executed, or None
  written, \* the last text written, or None
  failed   \* whether a statement has failed

variables == <<val, stmt, written, failed>>

V(kind, n, text) == [kind |-> kind, n |-> n, text |-> text]
Undeclared == V("dead", 0, <<>>)
Null       == V("null", 0, <<>>)
Error      == V("error", 0, <<>>)

Shown(v) == IF v.kind = "string" THEN v.text ELSE <<[of |-> v.kind, n |-> v.n]>>

Numbers == {"bool", "int", "float"}
Unimplemented == {"SUB", "MUL", "DIV", "MOD", "SHL", "SHR", "AND", "OR", "XOR"}

Plus(v, w) ==
  LET kinds == {v.kind, w.kind}
  IN CASE kinds \cap {"error", "obj"} # {} -> Error
       [] kinds \cap {"error", "obj"} = {} /\ "string" \in kinds -> V("string", 0, Shown(v) \o Shown(w))
       [] w.kind = "null" -> v
       [] v.kind = "null" /\ w.kind \in Numbers -> w
       [] v.kind \in Numbers /\ w.kind \in Numbers ->
            V(IF "float" \in kinds THEN "float" ELSE "int", v.n + w.n, <<>>)

(* Whether an expression's value is promised: it has no operator but +.    *)
RECURSIVE Promised(_)
Promised(e) == e.op \notin Unimplemented /\ \A k \in DOMAIN e.args : Promised(e.args[k])

(* The value of an expression, where __read__ finds `line`.                *)
RECURSIVE Eval(_, _)
Eval(e, line) ==
  CASE e.op \in Numbers -> V(e.op, e.n, <<>>)
    [] e.op = "str"  -> V("string", 0, <<[of |-> "text", n |-> e.n]>>)
    [] e.op = "var"  -> val[e.name]
    [] e.op = "ADD"  -> Plus(Eval(e.args[1], line), Eval(e.args[2], line))
    [] e.op = "open" -> IF /\ Len(e.args) = 1 /\ e.args[1].op = "int" /\ e.args[1].n \in 0..2
                          THEN V("obj", e.args[1].n, <<>>) ELSE Error
    [] e.op = "read" -> IF Len(e.args) = 1 /\ Eval(e.args[1], line).kind = "obj"
                          THEN V("string", 0, line) ELSE Error
    [] e.op = "write" -> IF /\ Len(e.args) = 2 /\ Eval(e.args[1], line).kind = "obj"
                            /\ Eval(e.args[2], line).kind \in {"string", "int", "float"}
                           THEN V("int", 0, <<>>) ELSE Error

Init ==
  /\ val = [x \in Fields \cup Locals |-> Undeclared]
  /\ stmt = None /\ written = None /\ failed = FALSE

Begin(s) ==
  /\ stmt = None /\ ~failed
  /\ stmt' = s
  /\ UNCHANGED <<val, written, failed>>

(* A declared variable is null until it has its value.                     *)
Declare ==
  /\ stmt # None /\ stmt.kind \in {"decl", "bare"}
  /\ val[stmt.target] = Undeclared
  /\ val' = [val EXCEPT ![stmt.target] = Null]
  /\ stmt' = IF stmt.kind = "bare" THEN None ELSE stmt
  /\ UNCHANGED <<written, failed>>

Finish(line) ==
  LET v == IF stmt.kind = "ADD" THEN Plus(val[stmt.target], Eval(stmt.expr, line))
                                ELSE Eval(stmt.expr, line)
  IN /\ stmt # None /\ stmt.kind # "bare"
     /\ stmt.kind \notin Unimplemented /\ Promised(stmt.expr)
     /\ stmt.kind # "call" => val[stmt.target] # Undeclared
     /\ IF v = Error
          THEN /\ failed' = TRUE
               /\ UNCHANGED <<val, stmt, written>>
          ELSE /\ val' = IF stmt.kind = "call" THEN val ELSE [val EXCEPT ![stmt.target] = v]
               /\ written' = IF stmt.kind = "call" /\ stmt.expr.op = "write"
                               THEN Shown(Eval(stmt.expr.args[2], line)) ELSE written
               /\ stmt' = None
               /\ UNCHANGED failed

(* A statement with another operator: its target has some value then.      *)
FinishUnpromised ==
  /\ stmt # None /\ stmt.kind \notin {"bare", "call"}
  /\ stmt.kind \in Unimplemented \/ ~Promised(stmt.expr)
  /\ val[stmt.target] # Undeclared /\ val'[stmt.target] # Undeclared
  /\ \A x \in (Fields \cup Locals) \ {stmt.target} : val'[x] = val[x]
  /\ stmt' = None
  /\ UNCHANGED <<written, failed>>

LeaveSection ==
  /\ stmt = None /\ ~failed
  /\ val' = [x \in Fields \cup Locals |-> IF x \in Locals THEN Undeclared ELSE val[x]]
  /\ UNCHANGED <<stmt, written, failed>>

Next == \/ \E s \in Statements : Begin(s)
        \/ Declare
        \/ \E line \in Inputs : Finish(line)
        \/ FinishUnpromised
        \/ LeaveSection

Spec == Init /\ [][Next]_variables
=============================================================================
