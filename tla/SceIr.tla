-------------------------------- MODULE SceIr --------------------------------
(***************************************************************************)
(* The control skeleton of the code generator (sce_ir.c): which NAME,      *)
(* LABEL, JMP, ALLOC and system-call instructions a syntax tree becomes,   *)
(* and in which order.  Registers and operand values are left out (they    *)
(* do not decide control); a statement keeps the instructions that declare *)
(* or look up a variable, that can fail, or that jump.  Names are resolved *)
(* and errors found as the code generator does it.                         *)
(*                                                                         *)
(* A program is [globals |-> Seq(Stmt), units |-> Seq(Unit)]: the parser   *)
(* has already hoisted the global expressions in front of the units        *)
(* (sce_parser.c:96-172) and a unit's fields in front of its sections      *)
(* (sce_parser.c:604-616).                                                 *)
(*                                                                         *)
(* The module is for TLC only (it declares a RECURSIVE operator).          *)
(***************************************************************************)
EXTENDS Naturals, Sequences, SequencesExt

-----------------------------------------------------------------------------
(* Syntax trees.                                                           *)

Decl(x)     == [kind |-> "decl",  name |-> x, body |-> <<>>]  \* obj x = 1;
Write(x)    == [kind |-> "write", name |-> x, body |-> <<>>]  \* __write__(x, "");
BadWrite(x) == [kind |-> "bad",   name |-> x, body |-> <<>>]  \* __write__(x);
If(x, body) == [kind |-> "if",    name |-> x, body |-> body]  \* if (x) { body }

Section(kind, body) == [kind |-> kind, body |-> body]
Unit(name, fields, sections) ==
  [name |-> name, fields |-> fields, sections |-> sections]

-----------------------------------------------------------------------------
(* The state of the code generator, Sce_Create_Binary_Machine_Code_Data.   *)
(* A nest is a scope: the suffix its names get, and the names declared in  *)
(* it.  Globals, fields and sections have no suffix.                       *)

Nest(suffix) == [suffix |-> suffix, names |-> {}]

Generator ==
  [code  |-> <<>>,           \* sce_bmi_head
   nests |-> <<Nest("")>>,   \* now_, the innermost scope first
   ifs   |-> 0,              \* sv_local_label
   has   |-> {},             \* has_phase_label
   error |-> FALSE]          \* is_error

ClosedNot(g) == g  \* mutant: the scope's names stay visible

I(op, arg) == [op |-> op, arg |-> arg]
Emit(g, instructions) == [g EXCEPT !.code = @ \o instructions]
Opened(g, suffix)     == [g EXCEPT !.nests = <<Nest(suffix)>> \o @]
Closed(g)             == [g EXCEPT !.nests = Tail(@)]

DeclareAgain(g, x) ==  \* mutant: a name may be declared twice
  LET name == x \o g.nests[1].suffix
  IN Emit([g EXCEPT !.nests[1].names = @ \cup {x}, !.error = FALSE],
          <<I("ALLOC", name), I("USE", name)>>)

(* A declaration: refused if the innermost scope has the name, otherwise   *)
(* its success clears an error before it.                                  *)
Declare(g, x) ==
  IF x \in g.nests[1].names THEN [g EXCEPT !.error = TRUE]
  ELSE LET name == x \o g.nests[1].suffix
       IN Emit([g EXCEPT !.nests[1].names = @ \cup {x}, !.error = FALSE],
               <<I("ALLOC", name), I("USE", name)>>)

(* A use, of the innermost scope's variable that has the name.             *)
UseOf(g, x) ==
  LET scopes == SelectSeq(g.nests, LAMBDA nest : x \in nest.names)
  IN IF scopes = <<>> THEN [g EXCEPT !.error = TRUE]
     ELSE Emit(g, <<I("USE", x \o scopes[1].suffix)>>)

-----------------------------------------------------------------------------
(* The label an `if` of a section jumps to: the section's label and the    *)
(* suffix of the block's names, "%if" and the section's running number.    *)
IfSuffix(g) == "%if" \o ToString(g.ifs)

(* A statement of a section, and a list of them up to the first error.     *)
(* The jump of an `if` tests what EQ left in the result register.          *)
RECURSIVE Statements(_, _, _)
Statement(section, g, s) ==
  CASE s.kind = "decl"  -> Declare(g, s.name)
    [] s.kind = "write" -> Emit(UseOf(g, s.name), <<I("CALL", "")>>)
    [] s.kind = "bad"   -> Emit(UseOf(g, s.name), <<I("BADCALL", "")>>)
    [] s.kind = "if"    ->
         LET label == section \o IfSuffix(g)
             jump  == Emit(UseOf(g, s.name), <<I("EQ", ""), I("JMP", label)>>)
             block == [Opened(jump, IfSuffix(g)) EXCEPT !.ifs = @ + 1]
         IN Closed(Emit(Statements(section, block, s.body), <<I("LABEL", label)>>))

Statements(section, g, stmts) ==
  IF stmts = <<>> THEN g
  ELSE LET first == Statement(section, g, Head(stmts))
       IN IF first.error THEN first ELSE Statements(section, first, Tail(stmts))

(* Mutant: a section ends without a jump.                                  *)
SectionFallsThrough(g, sec) ==
  Closed(Statements(sec.kind, Opened(Emit([g EXCEPT !.ifs = 0, !.has = @ \cup {sec.kind}],
                                          <<I("LABEL", sec.kind)>>), ""), sec.body))

(* A section: its label, its statements, and the jump that ends it.        *)
SectionCode(g, sec) ==
  LET labelled == Emit([g EXCEPT !.ifs = 0, !.has = @ \cup {sec.kind}],
                       <<I("LABEL", sec.kind)>>)
  IN Closed(Emit(Statements(sec.kind, Opened(labelled, ""), sec.body),
                 <<I("JMP", IF sec.kind = "end" THEN "exit" ELSE "main")>>))

(* The default code of the sections a unit does not have.  has_phase_label *)
(* is never cleared between units: it holds the sections of the units      *)
(* before it as well, though not those that got default code.              *)
DefaultSections(g) ==
  LET Default(kind) ==
        IF kind \in g.has THEN <<>>
        ELSE <<I("LABEL", kind), I("JMP", IF kind = "end" THEN "exit" ELSE "main")>>
  IN Emit(g, Default("start") \o Default("main") \o Default("end"))

(* Mutant: the fields run on into the first section.                       *)
FieldsFallThrough(g, unit) ==
  LET fields == Statements("", Opened(Emit(g, <<I("NAME", unit.name), I("REPEAT", "")>>), ""),
                           unit.fields)
      Next_(h, sec) == IF h.error THEN h ELSE SectionCode(h, sec)
      sections == FoldLeft(Next_, fields, unit.sections)
  IN Closed(Emit(DefaultSections(sections), <<I("LABEL", "exit")>>))

(* An error in a field ends the unit; one in a section ends the section    *)
(* and the unit.                                                           *)
UnitCode(g, unit) ==
  LET named    == Opened(Emit(g, <<I("NAME", unit.name), I("REPEAT", "")>>), "")
      fields   == Emit(Statements("", named, unit.fields), <<I("JMP", "exit")>>)
      Next_(h, sec) == IF h.error THEN h ELSE SectionCode(h, sec)
      sections == FoldLeft(Next_, fields, unit.sections)
  IN Closed(Emit(DefaultSections(sections), <<I("LABEL", "exit")>>))

(* The whole program: the global chain, then the units in order.           *)
Generated(p) ==
  LET globals == Statements("", Emit(Generator, <<I("NAME", "global"), I("REPEAT", "")>>), p.globals)
      ended   == Emit(globals, <<I("JMP", "exit"), I("LABEL", "exit")>>)
      Next_(g, unit) == IF g.error THEN g ELSE UnitCode(g, unit)
  IN FoldLeft(Next_, ended, p.units)

(* A program with an error is not run (app_1.c:27-28).                     *)
Accepted(p) == ~Generated(p).error
Compile(p)  == Generated(p).code
=============================================================================
