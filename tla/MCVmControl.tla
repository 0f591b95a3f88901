----------------------------- MODULE MCVmControl -----------------------------
(***************************************************************************)
(* VmControl on the code of small programs.                                *)
(***************************************************************************)
EXTENDS VmControl, SceIr

(* The declarations app_1.c:67-71 appends to every source.                 *)
StdGlobals == <<Decl("out")>>
Program(units) == [globals |-> StdGlobals, units |-> units]

Start(body) == Section("start", body)
Main(body)  == Section("main", body)
End(body)   == Section("end", body)

Fields == {<<>>, <<Decl("x")>>}
Mains  == {<<Write("out")>>, <<Decl("y"), Write("x")>>, <<BadWrite("out"), Write("out")>>}

(* Two modules with all their sections: with and without a field, with     *)
(* main sections that write, that declare and use a field, and that fail;  *)
(* some use a name that is not declared or declare one twice, which the    *)
(* code generator refuses.                                                 *)
FullUnit(name, f, m) ==
  Unit(name, f, <<Start(<<Decl("s")>>), Main(m), End(<<Write("out")>>)>>)
TwoModules ==
  {Program(<<FullUnit("A", f, m), FullUnit("B", g, n)>>) :
     f \in Fields, g \in Fields, m \in Mains,
     n \in {<<Write("out")>>, <<Decl("y")>>, <<Write("x")>>, <<Decl("y"), Decl("y")>>}}

(* Modules that leave sections out, alone, first or second; a module whose *)
(* name is taken; a program whose global initialiser fails; sections with  *)
(* an `if`, whose condition may be undefined.                              *)
Sparse(name) ==
  {Unit(name, <<>>, <<>>), Unit(name, <<Decl("x")>>, <<Main(<<Write("x")>>)>>),
   Unit(name, <<>>, <<Start(<<Write("out")>>)>>)}
Branching(body) == Unit("A", <<Decl("x")>>, <<Start(<<>>), Main(body)>>)
Branches ==
  {<<If("x", <<Write("out")>>)>>, <<If("x", <<Decl("y")>>), Write("y")>>,
   <<If("s", <<Decl("y"), Write("y")>>)>>}
RefusedGlobal == <<Decl("y"), BadWrite("out")>>  \* obj y = __write__(out);
OddPrograms ==
  {Program(<<u>>) : u \in Sparse("A") \cup {Branching(b) : b \in Branches}}
  \cup {Program(<<u, w>>) : u \in Sparse("A"), w \in Sparse("B") \cup Sparse("A")}
  \cup {[globals |-> StdGlobals \o RefusedGlobal, units |-> <<FullUnit("A", <<>>, <<>>)>>]}

(* Chains that use the whole instruction set: a main section that tests a  *)
(* Bool and jumps to end, leaves by exit, or goes back to main, beside a   *)
(* module that leaves by exit.                                             *)
HandMade ==
  {<<I("NAME", "A"), I("REPEAT", ""), I("ALLOC", "x"), I("JMP", "exit"),
     I("LABEL", "start"), I("ALLOC", "s"), I("JMP", "main"),
     I("LABEL", "main"), I(b, ""), I("JMP", "skip"), I("ALLOC", "y"), I("JMP", q),
     I("LABEL", "skip"), I("USE", "x"), I("JMP", r),
     I("LABEL", "end"), I("CALL", ""), I("JMP", "exit"), I("LABEL", "exit"),
     I("NAME", "B"), I("REPEAT", ""), I("JMP", "exit"),
     I("LABEL", "start"), I("ALLOC", "s"), I("JMP", "main"),
     I("LABEL", "main"), I("CALL", ""), I("JMP", "exit"), I("LABEL", "exit")>> :
   b \in {"TRUE", "FALSE", "EQ"}, q \in {"main", "end", "exit"}, r \in {"end", "exit"}}

CompiledPrograms == {Compile(p) : p \in {q \in TwoModules \cup OddPrograms : Accepted(q)}}
AllPrograms == CompiledPrograms \cup HandMade

(* Few programs of each kind, for the run where allocations and their      *)
(* messages may fail and the host updates modules in any order: two modules*)
(* that lack a section, one of which fails; a failing global initialiser;  *)
(* an `if`; and, in a module by itself, jumps to every section.            *)
Partial == Unit("B", <<>>, <<Start(<<>>)>>)
Failing == Unit("A", <<>>, <<Start(<<>>), Main(<<Decl("y"), BadWrite("out")>>)>>)
FirstModule(p) == SubSeq(p, 1, CHOOSE i \in DOMAIN p : p[i + 1].op = "NAME")
FewPrograms ==
  {Compile(Program(<<Failing, Partial>>)),
   Compile([globals |-> StdGlobals \o RefusedGlobal, units |-> <<Partial>>]),
   Compile(Program(<<Branching(<<If("x", <<Write("out")>>)>>)>>)),
   FirstModule(CHOOSE p \in HandMade : p[9].op = "TRUE" /\ p[12].arg = "main" /\ p[15].arg = "end")}

LabelNames == Sections \cup {"exit", "skip", "main%if0"}
=============================================================================
