------------------------------- MODULE VmMemory -------------------------------
(***************************************************************************)
(* The virtual machine's memory (sce_run.c): registers, variables, and the *)
(* heap strings they share.                                                *)
(*                                                                         *)
(* C has no garbage collection here: a cell (a register or a variable)     *)
(* says by is_const_value whether deleting it frees the string it points   *)
(* to.  Registers are copied byte for byte (RMOV, SAVE, LOAD), so two      *)
(* cells may both say they own one string; the code is right only because  *)
(* of the order in which the compiled statements use the registers.        *)
(*                                                                         *)
(* A module's code is a sequence of statements, each compiled to a chain   *)
(* of instructions.  One action executes one instruction.  A string lives  *)
(* in an object; an object's number is used again only when no cell points *)
(* to it, so that every access to a freed string is seen (fault).  Streams *)
(* are never freed (they are always const) and need no object.             *)
(***************************************************************************)
EXTENDS Naturals, Sequences, FiniteSets

CONSTANTS
  Fields,     \* variables that live as long as the module
  Locals,     \* variables of a section
  Statements, \* compiled statements: [code, kind, target, expr, uses]
  Registers,  \* the virtual registers in use; 128 (RET) among them
  Objects,    \* numbers of strings
  Inputs,     \* the lines __read__ may find
  MaxText,    \* bound: a statement starts only if no text is longer
  MaxInt,     \* bound: a statement starts only if no variable is larger
  None

Variables == Fields \cup Locals
RetReg == 128  \* SCE_VIRTUAL_REGISTER_RETURN
Streams == 0..2  \* SCE_SYSTEM_STDOUT, SCE_SYSTEM_STDIN, SCE_SYSTEM_STDERR

Instruction == [op : STRING, r1 : Nat, r2 : Nat, name : Variables \cup {""}]

ASSUME RegistersAssumption ==
  /\ 1..3 \cup {RetReg} \subseteq Registers
  /\ Registers \subseteq 1..RetReg

(* There is always a string to allocate.                                   *)
ASSUME ObjectsAssumption ==
  /\ IsFiniteSet(Variables) /\ IsFiniteSet(Objects)
  /\ 0 \notin Objects
  /\ Cardinality(Registers) + Cardinality(Variables) < Cardinality(Objects)

ASSUME StatementsAssumption ==
  \A s \in Statements : s.code \in Seq(Instruction) /\ s.uses \subseteq Variables

VARIABLES
  reg,     \* Sce_Virutal_Registers
  var,     \* the variables' memory: Sce_VM_Object_Table's svm
  heap,    \* the strings that are allocated, and what each holds
  fault,   \* "none", or how the heap was misused
  err,     \* "none" or "failed": error_str
  stmt,    \* the statement being executed, or None
  todo,    \* what is left of its code
  written  \* the text the last __write__ wrote, or None

vars == <<reg, var, heap, fault, err, stmt, todo, written>>

-----------------------------------------------------------------------------
(* Cells.  `own` is is_const_value; n an int, a float (n.0), a bool (0 or  *)
(* 1) or a stream; at the string's object; ref the variable a "mem" points *)
(* to.  "dead" is a variable that is not allocated.                        *)

Kinds == {"null", "bool", "int", "float", "string", "obj", "mem", "dead"}
Cell  == [own : {"owned", "const"}, kind : Kinds, n : Nat,
          at : Objects \cup {0}, ref : Variables \cup {None}]

ASSUME NoneAssumption == None \notin Variables /\ None \notin Cell

Value(own, kind, n) == [own |-> own, kind |-> kind, n |-> n, at |-> 0, ref |-> None]
Text(o) == [own |-> "owned", kind |-> "string", n |-> 0, at |-> o, ref |-> None]
Ref(x)  == [own |-> "owned", kind |-> "mem", n |-> 0, at |-> 0, ref |-> x]
Dead    == Value("const", "dead", 0)

Deref(c) == IF c.kind = "mem" THEN var[c.ref] ELSE c

(* A text is a sequence of pieces; a number or a bool prints as one piece. *)
Piece(of, n) == [of |-> of, n |-> n]
Printed(c)   == <<Piece(c.kind, c.n)>>

live      == DOMAIN heap
Held(o)   == IF o \in live THEN heap[o] ELSE <<>>
TextOf(c) == IF c.kind = "string" THEN Held(c.at) ELSE Printed(c)
With(o, t)    == [p \in live \cup {o} |-> IF p = o THEN t ELSE heap[p]]
Without(gone) == [p \in live \ gone |-> heap[p]]

(* The strings that a set of cells uses, and those that deleting it frees. *)
Strings(cells) == {c.at : c \in {d \in cells : d.kind = "string"}}
OwnsText(c) == c.own = "owned" /\ c.kind = "string"
Freed(cells) == Strings({c \in cells : OwnsText(c)})

DeletedInPart(c) == [c EXCEPT !.own = "const", !.kind = "null"]  \* mutant: no memset

(* delete_sce_run_virtual_memory: what is left in the cell.                *)
Deleted(c) == IF c.own = "const" THEN c ELSE Value("const", "null", 0)

(* A string no cell points to, for smart_malloc. *)
Fresh ==
  CHOOSE o \in Objects : \A c \in {reg[r] : r \in Registers} \cup {var[x] : x \in Variables} : c.at # o

(* An instruction uses strings it expects to be alive, and may use a       *)
(* variable that is gone.                                                  *)
Uses(cells) ==
  fault' = IF Strings(cells) \subseteq live /\ \A c \in cells : c.kind # "dead"
             THEN fault ELSE "stale"

Allocated(x) == var[x].kind # "dead"

-----------------------------------------------------------------------------
Init ==
  /\ reg = [r \in Registers |-> Value("owned", "null", 0)]
  /\ var = [x \in Variables |-> Dead]
  /\ heap = <<>>
  /\ fault = "none" /\ err = "none"
  /\ stmt = None /\ todo = <<>> /\ written = None

(* Control reaches a statement.  The code generator only lets it use       *)
(* variables that are declared, and declare others.                        *)
Begin(s) ==
  /\ err = "none" /\ fault = "none" /\ todo = <<>>
  /\ \A x \in s.uses : Allocated(x)
  /\ s.kind \in {"decl", "bare"} => ~Allocated(s.target)
  /\ \A o \in live : Len(heap[o]) <= MaxText
  /\ \A x \in Variables : var[x].n <= MaxInt
  /\ stmt' = s /\ todo' = s.code
  /\ UNCHANGED <<reg, var, heap, fault, err, written>>

(* Control leaves the section: its variables are deleted and freed.        *)
LeaveSection ==
  LET mine == {x \in Locals : Allocated(x)}
      gone == {var[x] : x \in mine}
  IN /\ err = "none" /\ fault = "none" /\ todo = <<>>
     /\ mine # {}
     /\ var' = [x \in Variables |-> IF x \in mine THEN Dead ELSE var[x]]
     /\ heap' = Without(Freed(gone))
     /\ fault' = IF /\ Freed(gone) \subseteq live
                    /\ \A x, y \in mine : x # y => Freed({var[x]}) \cap Freed({var[y]}) = {}
                   THEN fault ELSE "double free"
     /\ stmt' = None
     /\ UNCHANGED <<reg, err, todo, written>>

-----------------------------------------------------------------------------
(* One instruction.                                                        *)

i == Head(todo)

Executes(op) ==
  /\ err = "none" /\ fault = "none"
  /\ todo # <<>> /\ i.op = op
  /\ todo' = Tail(todo)
  /\ UNCHANGED stmt

SetReg(r, c) == reg' = [reg EXCEPT ![r] = c]
SetVar(x, c) == var' = [var EXCEPT ![x] = c]
Fails        == err' = "failed"

(* A new string in a register; what the register held is not deleted.      *)
NewText(r, t) ==
  /\ SetReg(r, Text(Fresh))
  /\ heap' = With(Fresh, t)

Imov == /\ Executes("IMOV")
        /\ SetReg(i.r1, Value("const", "int", i.r2))
        /\ UNCHANGED <<var, heap, fault, err, written>>

Bmov == /\ Executes("BMOV")
        /\ SetReg(i.r1, Value("const", "bool", i.r2))
        /\ UNCHANGED <<var, heap, fault, err, written>>

Fmov == /\ Executes("FMOV")
        /\ SetReg(i.r1, Value("const", "float", i.r2))
        /\ UNCHANGED <<var, heap, fault, err, written>>

(* The literal is copied: the code keeps its own.                          *)
Smov == /\ Executes("SMOV")
        /\ NewText(i.r1, <<Piece("text", i.r2)>>)
        /\ UNCHANGED <<var, fault, err, written>>

(* A new variable, in front of those the section has.                      *)
Alloc == /\ Executes("ALLOC")
         /\ SetVar(i.name, Value("owned", "null", 0))
         /\ UNCHANGED <<reg, heap, fault, err, written>>

(* The variable's address.  It is there, see Begin: the lookup that fails  *)
(* is in VmControl.                                                        *)
Mov == /\ Executes("MOV")
       /\ SetReg(i.r1, Ref(i.name))
       /\ UNCHANGED <<var, heap, fault, err, written>>

MmovShares ==  \* mutant: the string is not copied
  /\ Executes("MMOV")
  /\ SetReg(i.r1, var[i.name])
  /\ UNCHANGED <<var, heap, fault, err, written>>

(* mmov_mem_to_svr: a string's text is copied, anything else byte for byte. *)
Mmov ==
  LET c == var[i.name]
  IN /\ Executes("MMOV")
     /\ \/ /\ c.kind = "string"
           /\ Uses({c}) /\ NewText(i.r1, Held(c.at))
        \/ /\ c.kind # "string"
           /\ SetReg(i.r1, [c EXCEPT !.own = "const"])
           /\ UNCHANGED <<heap, fault>>
     /\ UNCHANGED <<var, err, written>>

(* Assignment, rmov_sce_vm_basic.  Through an address: the variable's old  *)
(* value goes first, then it gets the source's bytes; those of another     *)
(* variable are marked const.  A register's bytes stay in the register.    *)
Rmov ==
  LET to   == reg[i.r1]
      from == reg[i.r2]
      x    == to.ref
      left == [var EXCEPT ![x] = Deleted(var[x])]
  IN /\ Executes("RMOV")
     /\ \/ /\ to.kind = "mem"
           /\ SetVar(x, IF from.kind = "mem" THEN [left[from.ref] EXCEPT !.own = "const"]
                                             ELSE from)
           /\ heap' = Without(Freed({var[x]}))
           /\ fault' = IF /\ Freed({var[x]}) \subseteq live /\ Allocated(x)
                         /\ from.kind = "mem" => Allocated(from.ref)
                        THEN fault ELSE "stale"
           /\ UNCHANGED reg
        \/ /\ to.kind # "mem"
           /\ SetReg(i.r1, from)
           /\ UNCHANGED <<var, heap, fault>>
     /\ UNCHANGED <<err, written>>

-----------------------------------------------------------------------------
(* Addition, add_svr_value: r into l, which is a register or, through its  *)
(* address, a variable.  Then the register of the right operand is deleted. *)

Numeric == {"null", "bool", "int", "float"}

(* The kind of a sum of values that are not null.                          *)
HigherKind(k, m) == IF "float" \in {k, m} THEN "float" ELSE "int"

(* l + r for l and r without a text: null is neutral, bools count.         *)
Sum(l, r) ==
  CASE r.kind = "null" -> l
    [] l.kind = "null" /\ r.kind # "null" -> [l EXCEPT !.kind = r.kind, !.n = r.n]
    [] OTHER -> [l EXCEPT !.kind = HigherKind(l.kind, r.kind), !.n = l.n + r.n]

(* A left operand that becomes a string: its value, then the right text.   *)
Joined(l, r) == Printed(l) \o TextOf(r)

AddFreesOperand(r) == {r, Deref(r)}  \* mutant: the operand too (sce_run.c:1072)
AddFrees(r) == {r}

Add ==
  LET dst   == reg[i.r1]
      l     == Deref(dst)
      r     == Deref(reg[i.r2])
      gone  == Freed(AddFrees(reg[i.r2]))
      Into(c, h) ==  \* the result, and the right operand's register deleted
        /\ reg' = [q \in Registers |->
                     IF q = i.r2 THEN Deleted(reg[q])
                     ELSE IF q = i.r1 /\ dst.kind # "mem" THEN c ELSE reg[q]]
        /\ var' = IF dst.kind = "mem" THEN [var EXCEPT ![dst.ref] = c] ELSE var
        /\ heap' = h
  IN /\ Executes("ADD")
     /\ Uses({l, r})
     /\ \/ /\ "obj" \in {l.kind, r.kind}
           /\ Fails /\ Into(l, Without(gone))
        \/ /\ {l.kind, r.kind} \subseteq Numeric
           /\ Into(Sum(l, r), Without(gone)) /\ UNCHANGED err
        \/ /\ l.kind = "string" /\ r.kind \in Numeric \cup {"string"}
           /\ Into(l, [o \in live \ gone |->
                         IF o = l.at THEN heap[o] \o TextOf(r) ELSE heap[o]])
           /\ UNCHANGED err
        \/ /\ l.kind \in Numeric /\ r.kind = "string"
           /\ Into(Text(Fresh), [o \in (live \ gone) \cup {Fresh} |->
                                  IF o = Fresh THEN Joined(l, r) ELSE heap[o]])
           /\ UNCHANGED err
     /\ UNCHANGED written

(* The operators run_sce_vm_context_basic has no case for.                 *)
Ignored == \E op \in {"SUB", "MUL", "DIV", "MOD", "SHL", "SHR", "AND", "OR", "XOR"} :
  /\ Executes(op)
  /\ UNCHANGED <<reg, var, heap, fault, err, written>>

-----------------------------------------------------------------------------
(* System calls: the call's number in register 1, its arguments from 2 on. *)

(* sce_save_register_to_tail_register and its inverse.                     *)
Save == /\ Executes("SAVE")
        /\ reg' = [r \in Registers |-> IF r \in i.r2 + 1 .. i.r2 + i.r1
                                         THEN reg[r - i.r2] ELSE reg[r]]
        /\ UNCHANGED <<var, heap, fault, err, written>>

Load == /\ Executes("LOAD")
        /\ reg' = [r \in Registers |-> IF r \in 1..i.r2 THEN reg[r + i.r1] ELSE reg[r]]
        /\ UNCHANGED <<var, heap, fault, err, written>>

(* delete_sce_registers: the first k registers, 0 to k - 1; then the       *)
(* result, if any, in the return register.                                 *)
DeleteRegs(k, result) ==
  /\ reg' = [r \in Registers |-> IF r = RetReg /\ result # None THEN result
                                 ELSE IF r < k THEN Deleted(reg[r]) ELSE reg[r]]
  /\ heap' = Without(Freed({reg[r] : r \in {q \in Registers : q < k}}))
  /\ UNCHANGED var

ArgCount == [n \in 1..3 |-> IF n = 1 THEN 3 ELSE 2]  \* system_call_*_args__

WrongCount ==
  /\ i.r1 # ArgCount[reg[1].n]
  /\ Fails /\ DeleteRegs(i.r1, None)
  /\ fault' = IF /\ Freed({reg[r] : r \in {q \in Registers : q < i.r1}}) \subseteq live
                /\ \A q, r \in Registers : q < r /\ r < i.r1
                      => Freed({reg[q]}) \cap Freed({reg[r]}) = {}
               THEN fault ELSE "double free"
  /\ UNCHANGED written

NoStream(n) ==  \* get_svr_file_object finds none: nothing is deleted
  /\ reg[1].n = n /\ i.r1 = ArgCount[n]
  /\ Deref(reg[2]).kind # "obj"
  /\ Fails /\ UNCHANGED <<reg, var, heap, fault, written>>

Writable == {"string", "int", "float"}  \* get_svr_value_to_str

Write ==
  LET what == Deref(reg[3])
  IN /\ reg[1].n = 1 /\ i.r1 = ArgCount[1]
     /\ Deref(reg[2]).kind = "obj"
     /\ Uses({what})
     /\ \/ what.kind \in Writable /\ written' = TextOf(what) /\ UNCHANGED err
        \/ what.kind \notin Writable /\ Fails /\ UNCHANGED written
     /\ DeleteRegs(3, Value("const", "int", 0))  \* the count of bytes written

Read ==
  /\ reg[1].n = 2 /\ i.r1 = ArgCount[2]
  /\ Deref(reg[2]).kind = "obj"
  /\ \E line \in Inputs :
       /\ reg' = [r \in Registers |-> IF r = RetReg THEN Text(Fresh)
                                      ELSE IF r < 2 THEN Deleted(reg[r]) ELSE reg[r]]
       /\ heap' = With(Fresh, line)
  /\ UNCHANGED <<var, fault, err, written>>

(* sce_open_system_call looks at the bytes of whatever is no string.  An   *)
(* int's are its value; a bool or a float sets only the lower ones, and    *)
(* those of null may never have been set.  An address is no stream.        *)
Streamed(c) ==
  {f \in Streams : \/ c.kind \in {"int", "bool"} /\ f = c.n
                   \/ c.kind = "float" /\ c.n = 0 /\ f = 0
                   \/ c.kind = "null"}

Open ==
  /\ reg[1].n = 3 /\ i.r1 = ArgCount[3]
  /\ \/ \E f \in Streamed(reg[2]) : DeleteRegs(2, Value("const", "obj", f)) /\ UNCHANGED err
     \/ /\ reg[2].kind = "int" => reg[2].n \notin Streams
        /\ Fails /\ DeleteRegs(2, None)
  /\ UNCHANGED <<fault, written>>

SystemCall ==
  /\ Executes("SYSTEM_CALL")
  /\ WrongCount \/ NoStream(1) \/ NoStream(2) \/ Write \/ Read \/ Open

(* DELETE_REGISTER, after a call whose result nobody takes.                *)
DeleteResult ==
  /\ Executes("DELETE")
  /\ SetReg(RetReg, Deleted(reg[RetReg]))
  /\ heap' = Without(Freed({reg[RetReg]}))
  /\ fault' = IF Freed({reg[RetReg]}) \subseteq live THEN fault ELSE "double free"
  /\ UNCHANGED <<var, err, written>>

-----------------------------------------------------------------------------
Execute ==
  \/ Imov \/ Fmov \/ Bmov \/ Smov \/ Alloc \/ Mov \/ Mmov \/ Rmov \/ Add \/ Ignored
  \/ Save \/ Load \/ SystemCall \/ DeleteResult

Next == (\E s \in Statements : Begin(s)) \/ LeaveSection \/ Execute

Spec == Init /\ [][Next]_vars

-----------------------------------------------------------------------------
(* A cell points to an object exactly when it is a string, and to a        *)
(* variable exactly when it is an address.                                 *)
WellFormed(c) ==
  /\ c \in Cell
  /\ c.kind = "string" <=> c.at # 0
  /\ c.kind = "mem" <=> c.ref # None

(* Registers and variables are well formed whatever was copied to them and *)
(* deleted from them, and a variable never holds an address (RMOV copies   *)
(* what the address points to, sce_run.c:1757-1765).                       *)
TypeOK ==
  /\ DOMAIN reg = Registers /\ \A r \in Registers : WellFormed(reg[r]) /\ reg[r].kind # "dead"
  /\ DOMAIN var = Variables /\ \A x \in Variables : WellFormed(var[x]) /\ var[x].kind # "mem"
  /\ live \subseteq Objects
  /\ err \in {"none", "failed"}
  /\ stmt \in Statements \cup {None}

(* No instruction reads or frees a string that is already freed, although  *)
(* registers keep pointers to strings that an assignment, the end of a     *)
(* section or a system call frees.                                         *)
NoStaleAccess == fault = "none"

(* A variable that holds a string owns it, and no other variable has the   *)
(* same string: assigning to one variable never changes or frees what      *)
(* another one holds.                                                      *)
OneOwner ==
  \A x \in Variables : var[x].kind = "string" =>
    /\ OwnsText(var[x]) /\ var[x].at \in live
    /\ \A y \in Variables \ {x} : var[y].at # var[x].at

(* What a cell is to a script: neither whose the string is nor where.      *)
Meaning(c) == [kind |-> c.kind, n |-> IF c.kind = "string" THEN 0 ELSE c.n,
               text |-> IF c.kind = "string" THEN Held(c.at) ELSE <<>>]

(* A statement changes no variable but the one it assigns, although ADD    *)
(* appends to strings where they are, registers hold the addresses of      *)
(* others, and registers, calls and errors free strings; apart from that   *)
(* variables only go with their section.                                   *)
OnlyTargetChanges ==
  [][\A x \in Variables : Meaning(var[x])' # Meaning(var[x]) =>
       \/ todo # <<>> /\ stmt.target = x
       \/ LeaveSection /\ x \in Locals]_vars

(* What __write__(stdout, __read__(stdin)) writes is what it read.         *)
WritesWhatItRead == written = None \/ written \in Inputs
=============================================================================
