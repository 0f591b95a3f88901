------------------------------ MODULE VmControl ------------------------------
(***************************************************************************)
(* The control part of the virtual machine (sce_run.c): how a chain of     *)
(* instructions is loaded into module symbol tables, how the host's update *)
(* calls run a module, and how a module moves between its sections.        *)
(*                                                                         *)
(* The VM is single-threaded C.  One run_sce_vm_context call is a sequence *)
(* of steps here (stages), one per instruction, and nothing interleaves    *)
(* with it; what interleaves is the host's calls for different modules,    *)
(* which share one context: the current module, the result register and   *)
(* the error.                                                              *)
(*                                                                         *)
(* Operand values are left out: an instruction is an opcode and a name.    *)
(* An address is a position in the chain and 0 is the NULL pointer.        *)
(***************************************************************************)
EXTENDS Naturals, Sequences

CONSTANTS
  Programs,   \* the instruction chains the VM may be given
  Names,      \* the names of modules
  Labels,     \* the names of labels
  Vars,       \* the names of variables
  Hosted,     \* the modules the host updates
  Exclusive,  \* the host updates a module only while no other is in a section
  OutOfMemory, \* an allocation may fail
  MaxObjects  \* bound: the objects a table holds when one may

Root == "global"  \* root_symbol, the table of the global scope
None == "none"    \* a NULL module
Scopes == Names \cup {Root}

(* CALL is a system call that succeeds, BADCALL one whose arguments are    *)
(* refused; TRUE and FALSE move a Bool into the result register; EQ stands *)
(* for the opcodes that run_sce_vm_context_basic does not dispatch.        *)
Ignored  == {"NAME", "REPEAT", "LABEL", "EQ"}
Bools    == {"TRUE", "FALSE"}
Opcodes  == Ignored \cup Bools \cup {"JMP", "ALLOC", "USE", "CALL", "BADCALL"}
Sections == {"start", "main", "end"}
Errors   == {"redefined", "label", "invalid", "memory", "call", "undefined"}
Lost     == "lost"  \* error_str is NULL: the message could not be allocated
Stages   == {"collect", "idle", "init", "enter", "section", "crashed"}

Instruction == [op : Opcodes, arg : STRING]

ASSUME ProgramsAssumption ==
  \A p \in Programs :
    /\ p \in Seq(Instruction)
    /\ p # <<>> /\ p[1].op = "NAME"
    /\ \A i \in DOMAIN p :
         /\ p[i].op = "NAME" => p[i].arg \in Scopes
         /\ p[i].op \in {"LABEL", "JMP"} => p[i].arg \in Labels
         /\ p[i].op \in {"ALLOC", "USE"} => p[i].arg \in Vars

ASSUME NamesAssumption ==
  /\ Names \subseteq STRING
  /\ Root \notin Names
  /\ None \notin Names
  /\ Hosted \subseteq Names
  /\ Sections \cup {"exit"} \subseteq Labels
  /\ Labels \subseteq STRING
  /\ Exclusive \in BOOLEAN
  /\ OutOfMemory \in BOOLEAN
  /\ MaxObjects \in Nat

VARIABLES
  code,     \* the instruction chain
  inst,     \* the loader's position in it
  mode,     \* the scope the loader is in, "none" before the first NAME
  started,  \* the loader has passed the scope's first instruction
  modules,  \* vm_symbol_, the list of modules, newest first
  labels,   \* label_table_ of each scope: label -> address
  initAt,   \* global_filed.lebel_adress_: the initialiser still to run
  filed,    \* global_filed.obj_table_: the objects of each scope
  ctx,      \* label_context: the stack of section contexts of each scope
  now,      \* now_vm_symbol_: the scope names are resolved in
  stage,    \* where the call in progress stands
  running,  \* the module that call is for
  pc,       \* the instruction to execute
  result,   \* the kind of value in register 128
  err,      \* vm_error_status.error_str: the kind of its message
  inits     \* history: how often each scope's initialiser was run

loader == <<inst, mode, started, modules, labels>>
vars == <<code, inst, mode, started, modules, labels, initAt, filed, ctx, now,
          stage, running, pc, result, err, inits>>

-----------------------------------------------------------------------------
(* Helpers.                                                                *)

SuccOfLast(p) == p + 1  \* mutant: the chain has no end

Succ(p) == IF p < Len(code) THEN p + 1 ELSE 0

Elements(s)  == {s[i] : i \in DOMAIN s}
NoRepeats(s) == \A i, j \in DOMAIN s : s[i] = s[j] => i = j

(* A section context.  at = 0 is the scope's global_filed itself.          *)
Context(at) == [at |-> at, objs |-> <<>>]
Filed == Context(0)

InFiled(s) == ctx[s] # <<>> /\ Head(ctx[s]).at = 0

NeverPopped(s) == ctx[s]  \* mutant: the old section is not freed

(* The stack without its current section; global_filed is never popped.    *)
Popped(s) == IF ctx[s] = <<>> \/ InFiled(s) THEN ctx[s] ELSE Tail(ctx[s])

(* Whether an allocation succeeds.                                         *)
Grants == IF OutOfMemory THEN BOOLEAN ELSE {TRUE}

(* Whether an object is added to a table.                                  *)
GrantsObject(table) ==
  IF OutOfMemory /\ Len(table) >= MaxObjects THEN {FALSE} ELSE Grants

(* An error is a message, and the message is allocated: without memory     *)
(* error_str becomes NULL, whatever it was.  (The fallback code that is    *)
(* set instead is never read.)                                             *)
Report(e) == \E ok \in Grants : err' = IF ok THEN e ELSE Lost

AfterAny(e, p) == Succ(p)  \* mutant: the error is not tested

(* The loop stops after an instruction that left, or found, a message; an  *)
(* error without one does not stop it.                                     *)
After(e, p) == IF e \in Errors THEN 0 ELSE Succ(p)

-----------------------------------------------------------------------------
(* Loading: one pass over the chain fills the symbol tables.               *)

Collecting == stage = "collect" /\ inst # 0
Op  == code[inst].op
Arg == code[inst].arg

(* The table a label or an initialiser goes to: the newest module's, even  *)
(* after a NAME that was refused.                                          *)
Scope == IF mode = "global" THEN Root ELSE Head(modules)
NoScope == mode = "local" /\ modules = <<>>

CollectName ==
  /\ Collecting /\ Op = "NAME"
  /\ started' = FALSE
  /\ inst' = Succ(inst)
  /\ mode' = IF Arg = Root THEN "global" ELSE "local"
  /\ \/ Arg = Root /\ UNCHANGED <<modules, err>>
     \/ /\ Arg \in Elements(modules)
        /\ Report("redefined")
        /\ UNCHANGED modules
     \/ /\ Arg \in Names \ Elements(modules)
        /\ \E ok \in Grants : modules' = IF ok THEN <<Arg>> \o modules ELSE modules
        /\ UNCHANGED err
  /\ UNCHANGED <<labels, initAt, filed, ctx, now, stage, running, pc, result, inits>>

CollectLabel ==
  /\ Collecting /\ Op = "LABEL" /\ ~NoScope
  /\ started' = TRUE
  /\ inst' = Succ(inst)
  /\ \/ /\ labels[Scope][Arg] = 0
        /\ \E ok \in Grants :
             labels' = IF ok THEN [labels EXCEPT ![Scope][Arg] = inst] ELSE labels
        /\ UNCHANGED err
     \/ /\ labels[Scope][Arg] # 0
        /\ Report("redefined")
        /\ UNCHANGED labels
  /\ UNCHANGED <<mode, modules, initAt, filed, ctx, now, stage, running, pc, result, inits>>

(* The scope's first instruction is its NAME_REPEAT; the initialiser is    *)
(* what follows it.                                                        *)
CollectOther ==
  /\ Collecting /\ Op \notin {"NAME", "LABEL"}
  /\ IF ~started
       THEN /\ ~NoScope
            /\ initAt' = [initAt EXCEPT ![Scope] = Succ(inst)]
            /\ started' = TRUE
       ELSE UNCHANGED <<initAt, started>>
  /\ inst' = Succ(inst)
  /\ UNCHANGED <<mode, modules, labels, filed, ctx, now, stage, running, pc,
                 result, err, inits>>

(* vm_symbol_ is dereferenced although the module could not be allocated.  *)
CollectCrash ==
  /\ Collecting /\ NoScope /\ Op # "NAME"
  /\ Op = "LABEL" \/ ~started
  /\ stage' = "crashed"
  /\ UNCHANGED <<loader, initAt, filed, ctx, now, running, pc, result, err, inits>>

-----------------------------------------------------------------------------
(* Calls: the global initialiser when loading ends, then the host's.       *)

(* Run the initialiser of s in its global_filed.                           *)
Initialise(s) ==
  /\ now' = s
  /\ ctx' = [ctx EXCEPT ![s] = <<Filed>>]
  /\ pc' = initAt[s]
  /\ stage' = "init"
  /\ running' = s
  /\ inits' = [inits EXCEPT ![s] = @ + 1]

StartGlobal ==
  /\ stage = "collect" /\ inst = 0
  /\ Initialise(Root)
  /\ UNCHANGED <<loader, initAt, filed, result, err>>

(* run_sce_vm_context for a module of the list.  (It returns at once for   *)
(* any other name.)                                                        *)
Update(m) ==
  /\ stage = "idle"
  /\ m \in Elements(modules)
  /\ Exclusive => \A n \in Names \ {m} : ctx[n] = <<>>
  /\ IF initAt[m] # 0
       THEN Initialise(m)
       ELSE /\ stage' = "enter"
            /\ running' = m
            /\ UNCHANGED <<now, ctx, pc, inits>>
  /\ UNCHANGED <<loader, initAt, filed, result, err>>

(* Mutant: lebel_adress_ keeps its value.                                  *)
FinishInitKept ==
  /\ stage = "init" /\ pc = 0
  /\ ctx' = [ctx EXCEPT ![now] = <<>>]
  /\ IF running = Root
       THEN stage' = "idle" /\ running' = None
       ELSE stage' = "enter" /\ UNCHANGED running
  /\ UNCHANGED <<loader, initAt, filed, now, pc, result, err, inits>>

FinishInit ==
  /\ stage = "init" /\ pc = 0
  /\ initAt' = [initAt EXCEPT ![now] = 0]
  /\ ctx' = [ctx EXCEPT ![now] = <<>>]
  /\ IF running = Root
       THEN stage' = "idle" /\ running' = None
       ELSE stage' = "enter" /\ UNCHANGED running
  /\ UNCHANGED <<loader, filed, now, pc, result, err, inits>>

(* A module in a section goes on at that section's label, and the current  *)
(* module is left as it is.                                                *)
Resume ==
  /\ stage = "enter" /\ ctx[running] # <<>>
  /\ \E l \in Labels : labels[running][l] # 0
  /\ pc' = Head(ctx[running]).at
  /\ stage' = "section"
  /\ UNCHANGED <<loader, initAt, filed, ctx, now, running, result, err, inits>>

(* Mutants: the current module is not switched; the section is main.       *)
EnterStartElsewhere ==
  /\ stage = "enter" /\ ctx[running] = <<>>
  /\ labels[running]["start"] # 0
  /\ ctx' = [ctx EXCEPT ![running] = <<Context(labels[running]["start"])>>]
  /\ pc' = Succ(labels[running]["start"])
  /\ stage' = "section"
  /\ UNCHANGED <<loader, initAt, filed, now, running, result, err, inits>>

EnterMain ==
  /\ stage = "enter" /\ ctx[running] = <<>>
  /\ labels[running]["main"] # 0
  /\ ctx' = [ctx EXCEPT ![running] = <<Context(labels[running]["main"])>>]
  /\ now' = running
  /\ pc' = Succ(labels[running]["main"])
  /\ stage' = "section"
  /\ UNCHANGED <<loader, initAt, filed, running, result, err, inits>>

(* A module in no section enters its start section and becomes current.    *)
EnterStart ==
  /\ stage = "enter" /\ ctx[running] = <<>>
  /\ labels[running]["start"] # 0
  /\ ctx' = [ctx EXCEPT ![running] = <<Context(labels[running]["start"])>>]
  /\ now' = running
  /\ pc' = Succ(labels[running]["start"])
  /\ stage' = "section"
  /\ UNCHANGED <<loader, initAt, filed, running, result, err, inits>>

(* There is nothing to run: no label at all, no start label, no memory.    *)
NothingToRun ==
  /\ stage = "enter"
  /\ \/ \A l \in Labels : labels[running][l] = 0
     \/ ctx[running] = <<>> /\ labels[running]["start"] = 0
     \/ ctx[running] = <<>> /\ OutOfMemory
  /\ pc' = 0
  /\ stage' = "section"
  /\ UNCHANGED <<loader, initAt, filed, ctx, now, running, result, err, inits>>

FinishRun ==
  /\ stage = "section" /\ pc = 0
  /\ stage' = "idle"
  /\ running' = None
  /\ UNCHANGED <<loader, initAt, filed, ctx, now, pc, result, err, inits>>

-----------------------------------------------------------------------------
(* Execution: run_sce_vm_context_basic, one instruction per step.          *)

Executing == stage \in {"init", "section"} /\ pc # 0
op  == code[pc].op
arg == code[pc].arg

Skip ==
  /\ Executing /\ op \in Ignored
  /\ pc' = After(err, pc)
  /\ UNCHANGED <<loader, initAt, filed, ctx, now, stage, running, result, err, inits>>

SystemCall ==
  /\ Executing /\ op = "CALL"
  /\ result' = "other"
  /\ pc' = After(err, pc)
  /\ UNCHANGED <<loader, initAt, filed, ctx, now, stage, running, err, inits>>

(* Also a call whose text could not be allocated.  A write of a value that *)
(* has no text still leaves its result.                                    *)
RefusedCall ==
  /\ Executing
  /\ op = "BADCALL" \/ (op = "CALL" /\ OutOfMemory)
  /\ Report("call")
  /\ result' \in {result, "other"}
  /\ pc' = After(err', pc)
  /\ UNCHANGED <<loader, initAt, filed, ctx, now, stage, running, inits>>

MoveBool ==
  /\ Executing /\ op \in Bools
  /\ result' = op
  /\ pc' = After(err, pc)
  /\ UNCHANGED <<loader, initAt, filed, ctx, now, stage, running, err, inits>>

Table == IF InFiled(now) THEN filed[now] ELSE Head(ctx[now]).objs

(* A declaration prepends to the object table of the current context; a    *)
(* failed allocation leaves the table as it is, without an error.          *)
Alloc ==
  /\ Executing /\ op = "ALLOC" /\ ctx[now] # <<>>
  /\ \E ok \in GrantsObject(Table) :
       CASE ~ok -> UNCHANGED <<filed, ctx>>
         [] ok /\ InFiled(now) -> /\ filed' = [filed EXCEPT ![now] = <<arg>> \o @]
                                  /\ UNCHANGED ctx
         [] ok /\ ~InFiled(now) -> /\ ctx' = [ctx EXCEPT ![now][1].objs = <<arg>> \o @]
                                   /\ UNCHANGED filed
  /\ pc' = After(err, pc)
  /\ UNCHANGED <<loader, initAt, now, stage, running, result, err, inits>>

(* The globals are searched first, then the module's fields, then the      *)
(* section's objects.                                                      *)
InFields(x) == \/ now # Root /\ x \in Elements(filed[Root])
               \/ x \in Elements(filed[now])
InSection(x) == x \in Elements(Head(ctx[now]).objs)

(* In an initialiser a name that is not found is no error.                 *)
Use ==
  /\ Executing /\ op = "USE"
  /\ InFields(arg) \/ ctx[now] # <<>>
  /\ IF InFields(arg) \/ InFiled(now) \/ InSection(arg)
       THEN UNCHANGED err
       ELSE Report("undefined")
  /\ pc' = After(err', pc)
  /\ UNCHANGED <<loader, initAt, filed, ctx, now, stage, running, result, inits>>

(* label_context is NULL and dereferenced.                                 *)
ExecCrash ==
  /\ Executing /\ ctx[now] = <<>>
  /\ op = "ALLOC" \/ (op = "USE" /\ ~InFields(arg))
  /\ stage' = "crashed"
  /\ UNCHANGED <<loader, initAt, filed, ctx, now, running, pc, result, err, inits>>

-----------------------------------------------------------------------------
(* Jumps.                                                                  *)

Target == labels[now][arg]
Jumping == Executing /\ op = "JMP"
Fail(e) == Report(e) /\ pc' = After(err', pc) /\ UNCHANGED ctx

UnknownLabel ==
  /\ Jumping /\ Target = 0
  /\ Fail("label")
  /\ UNCHANGED <<loader, initAt, filed, now, stage, running, result, inits>>

(* Mutant: the jump does not return to the host.                           *)
ChangeSectionAndGoOn ==
  /\ Jumping /\ Target # 0 /\ arg \in {"main", "end"}
  /\ pc' = Succ(Target)
  /\ ctx' = [ctx EXCEPT ![now] = <<Context(Target)>> \o Popped(now)]
  /\ UNCHANGED <<loader, initAt, filed, now, stage, running, result, err, inits>>

(* To main or end: the current section's context is freed, the new one     *)
(* becomes current, and the call returns to the host.  Without memory for  *)
(* it the module is in no section, and the call stops at the message, or   *)
(* goes on when there is none either.                                      *)
ChangeSection ==
  /\ Jumping /\ Target # 0 /\ arg \in {"main", "end"}
  /\ \/ /\ ctx' = [ctx EXCEPT ![now] = <<Context(Target)>> \o Popped(now)]
        /\ pc' = 0
        /\ UNCHANGED err
     \/ /\ OutOfMemory
        /\ ctx' = [ctx EXCEPT ![now] = Popped(now)]
        /\ Report("memory")
        /\ pc' = After(err', pc)
  /\ UNCHANGED <<loader, initAt, filed, now, stage, running, result, inits>>

(* Mutant: exit does not return to the host.                               *)
ExitAndGoOn ==
  /\ Jumping /\ Target # 0 /\ arg = "exit"
  /\ ctx' = [ctx EXCEPT ![now] = Popped(now)]
  /\ pc' = Succ(pc)
  /\ UNCHANGED <<loader, initAt, filed, now, stage, running, result, err, inits>>

Exit ==
  /\ Jumping /\ Target # 0 /\ arg = "exit"
  /\ ctx' = [ctx EXCEPT ![now] = Popped(now)]
  /\ pc' = 0
  /\ UNCHANGED <<loader, initAt, filed, now, stage, running, result, err, inits>>

(* To any other label: taken when the result register holds true.          *)
Branch ==
  /\ Jumping /\ Target # 0 /\ arg \notin {"main", "end", "exit"}
  /\ \/ result = "TRUE" /\ pc' = Succ(Target) /\ UNCHANGED <<ctx, err>>
     \/ result = "FALSE" /\ pc' = After(err, pc) /\ UNCHANGED <<ctx, err>>
     \/ result \notin Bools /\ Fail("invalid")
  /\ UNCHANGED <<loader, initAt, filed, now, stage, running, result, inits>>

-----------------------------------------------------------------------------
Init ==
  /\ code \in Programs
  /\ inst = 1
  /\ mode = "none"
  /\ started = FALSE
  /\ modules = <<>>
  /\ labels = [s \in Scopes |-> [l \in Labels |-> 0]]
  /\ initAt = [s \in Scopes |-> 0]
  /\ filed = [s \in Scopes |-> <<>>]
  /\ ctx = [s \in Scopes |-> <<>>]
  /\ now = None
  /\ stage = "collect"
  /\ running = None
  /\ pc = 0
  /\ result = "other"
  /\ err = "none"
  /\ inits = [s \in Scopes |-> 0]

Collect == CollectName \/ CollectLabel \/ CollectOther \/ CollectCrash

Run == FinishInit \/ Resume \/ EnterStart \/ NothingToRun \/ FinishRun

Execute ==
  \/ Skip \/ SystemCall \/ RefusedCall \/ MoveBool \/ Alloc \/ Use \/ ExecCrash
  \/ UnknownLabel \/ ChangeSection \/ Exit \/ Branch

(* What the VM does by itself; the host only calls.                        *)
Machine == (Collect \/ StartGlobal \/ Run \/ Execute) /\ UNCHANGED code

Host == (\E m \in Hosted : Update(m)) /\ UNCHANGED code

Next == Machine \/ Host

Spec == Init /\ [][Next]_vars

(* A call in progress is plain C code: it always goes on.  Nothing makes   *)
(* the host call.                                                          *)
FairSpec == Spec /\ WF_vars(Machine)
-----------------------------------------------------------------------------
(* What the code generator keeps, for every program it accepts, and the    *)
(* machine relies on without a test.                                       *)

(* A NAME has its NAME_REPEAT behind it (sce_ir.c:442-443, 458-459).       *)
NamesRepeated(p) ==
  \A i \in DOMAIN p : p[i].op = "NAME" => i + 1 \in DOMAIN p /\ p[i + 1].op = "REPEAT"

NoJump(p, from, to) == \A i \in DOMAIN p : from < i /\ i < to => p[i].op # "JMP"

(* An initialiser runs into a jump to exit and into no other               *)
(* (sce_ir.c:431, 524-529).                                                *)
InitialisersExit(p) ==
  \A r, i \in DOMAIN p :
    r < i /\ p[r].op = "REPEAT" /\ p[i].op = "JMP" /\ NoJump(p, r, i) => p[i].arg = "exit"

(* The jump of an `if` is behind its test, and so never the first          *)
(* instruction of a call (sce_ir.c:770-777).                               *)
BranchesTest(p) ==
  \A i \in DOMAIN p :
    p[i].op = "JMP" /\ p[i].arg \notin {"main", "end", "exit"} =>
      i > 1 /\ p[i - 1].op \in Bools \cup {"EQ"}

WellCompiled(p) == NamesRepeated(p) /\ InitialisersExit(p) /\ BranchesTest(p)

(* The label a section starts with, and the one behind a module's sections.*)
Boundary(p, i) == p[i].op = "LABEL" /\ p[i].arg \in Sections \cup {"exit"}

EndsModule(p, i) == p[i].op = "LABEL" /\ p[i].arg = "exit"
Leaves(p, i)     == p[i].op = "JMP" /\ p[i].arg \in {"main", "end", "exit"}

(* What is in front of such a label ends in a jump that leaves the call,   *)
(* and modules end with their exit label (sce_ir.c:431-432, 528, 546-557,  *)
(* 590, 608, 625).                                                         *)
BlocksClosed(p) ==
  /\ EndsModule(p, Len(p))
  /\ \A i \in DOMAIN p :
       /\ Boundary(p, i) => i > 1 /\ Leaves(p, i - 1)
       /\ i > 1 /\ p[i].op = "NAME" => EndsModule(p, i - 1)

(* The code at i is the module's whose NAME is at n.                       *)
Within(p, n, i) ==
  /\ n \in DOMAIN p /\ n <= i /\ p[n].op = "NAME"
  /\ \A k \in DOMAIN p : n < k /\ k <= i => p[k].op # "NAME"

(* The jump of an `if` leads forward and stays in its section              *)
(* (sce_ir.c:667-712).                                                     *)
BranchesForward(p) ==
  \A n, i, j \in DOMAIN p :
    /\ p[i].op = "JMP" /\ ~Leaves(p, i)
    /\ p[j].op = "LABEL" /\ p[j].arg = p[i].arg
    /\ Within(p, n, i) /\ Within(p, n, j)
    => i < j /\ \A k \in DOMAIN p : i < k /\ k <= j => ~Boundary(p, k)

(* No name is declared twice in the fields or in one section               *)
(* (sce_ir.c:22-31).                                                       *)
DeclarationsApart(p) ==
  \A i, j \in DOMAIN p :
    i < j /\ p[i].op = "ALLOC" /\ p[j].op = "ALLOC" /\ p[i].arg = p[j].arg
      => \E k \in DOMAIN p : i < k /\ k < j /\ Boundary(p, k)

(* The globals are the first scope's, and no other's (sce_ir.c:442).       *)
GlobalsFirst(p) == \A i \in DOMAIN p : i > 1 /\ p[i].op = "NAME" => p[i].arg # Root

(* A declaration of the scope at n, in front of its sections.              *)
FieldAt(p, n, i) == Within(p, n, i) /\ p[i].op = "ALLOC" /\ NoJump(p, n, i)

(* A declaration of the section at `at` that every way to u goes through.  *)
DeclaredAt(p, at, i, u) ==
  /\ at < i /\ i < u /\ p[i].op = "ALLOC"
  /\ \A j, k \in DOMAIN p :
       at < j /\ j < i /\ i < k /\ k < u /\ p[j].op = "JMP" /\ p[k].op = "LABEL"
         => p[j].arg # p[k].arg

(* A name used in a section is declared in front of it there, or is a      *)
(* field's or a global's (sce_ir.c:44-56, 867-881).                        *)
UsesDeclared(p) ==
  \A at, n, u \in DOMAIN p :
    /\ p[at].op = "LABEL" /\ p[at].arg \in Sections /\ at < u
    /\ \A k \in DOMAIN p : at < k /\ k <= u => ~Boundary(p, k)
    /\ p[u].op = "USE" /\ Within(p, n, u)
    => \E i \in DOMAIN p :
         /\ p[i].arg = p[u].arg
         /\ DeclaredAt(p, at, i, u) \/ FieldAt(p, n, i) \/ (FieldAt(p, 1, i) /\ p[1].arg = Root)

(* Every declaration is executed once in the life of a table, and before   *)
(* its uses.                                                               *)
WellDeclared(p) ==
  /\ BlocksClosed(p) /\ BranchesForward(p) /\ DeclarationsApart(p)
  /\ GlobalsFirst(p) /\ UsesDeclared(p)

(* Every program is compiled like this.                                    *)
JumpsPlaced == stage = "collect" /\ inst = 1 => WellCompiled(code) /\ WellDeclared(code)

-----------------------------------------------------------------------------
(* Properties.                                                             *)

SectionContext == [at : 0 .. Len(code), objs : Seq(Vars)]

(* Every variable has the values its C field can have.                     *)
TypeOK ==
  /\ code \in Seq(Instruction)
  /\ inst \in 0 .. Len(code)
  /\ mode \in {"none", "global", "local"}
  /\ started \in BOOLEAN
  /\ modules \in Seq(Names)
  /\ labels \in [Scopes -> [Labels -> 0 .. Len(code)]]
  /\ initAt \in [Scopes -> 0 .. Len(code)]
  /\ filed \in [Scopes -> Seq(Vars)]
  /\ ctx \in [Scopes -> Seq(SectionContext)]
  /\ now \in Scopes \cup {None}
  /\ stage \in Stages
  /\ running \in Scopes \cup {None}
  /\ pc \in 0 .. Len(code)
  /\ result \in Bools \cup {"other"}
  /\ err \in Errors \cup {"none", Lost}
  /\ inits \in [Scopes -> Nat]

(* A module is in at most one section: entering one always leaves the      *)
(* other, so label_context never grows over the updates and no section's   *)
(* objects are left behind (sce_run.c:465-497).                            *)
OneSection == stage # "init" => \A s \in Scopes : Len(ctx[s]) <= 1

(* Whatever the order of updates, and errors in between, a scope's         *)
(* initialiser runs at most once, and none of its sections is entered      *)
(* before it is over (sce_run.c:737-755).                                  *)
InitOnce ==
  /\ \A s \in Scopes : inits[s] <= 1
  /\ stage \in {"enter", "section"} => initAt[running] = 0 /\ ~InFiled(running)

(* The tables names are looked up in are those of the module the call is   *)
(* for: the current module is switched with the running one                *)
(* (sce_run.c:704-720 switches it on one path only).                       *)
RunsInOwnScope == stage = "section" /\ pc # 0 => now = running

(* The VM never follows a NULL label_context or a NULL module              *)
(* (sce_run.c:1595, 1921).                                                 *)
NoNullContext == stage # "crashed"

(* An error stops a call: with one pending, what is about to execute can   *)
(* only be the first instruction of a call (sce_run.c:695-701).  It can    *)
(* hold only while memory lasts: an error whose message is not allocated   *)
(* (sce_run.c:3-17) stops nothing.                                         *)
ErrorStopsCall ==
  Executing /\ err # "none" =>
    \/ stage = "init" /\ pc = initAt[running]
    \/ stage = "section" /\ ctx[running] # <<>>
         /\ pc \in {Head(ctx[running]).at, Succ(Head(ctx[running]).at)}

(* A name the code generator accepted is found by the VM until a call      *)
(* fails: the scopes it resolves names in (sce_ir.c:44-56) are the tables  *)
(* that are alive when the code runs (sce_run.c:1873-1938).                *)
NamesFound == [][err = "none" => err' # "undefined"]_vars

(* A call makes one pass over the chain, forward: no jump that the code    *)
(* generator makes leads back without returning to the host, so a call is  *)
(* over after at most one turn per instruction (sce_run.c:600-703).        *)
CallsGoForward == [][Executing => pc' = 0 \/ pc < pc' \/ stage' = "crashed"]_vars

(* No variable hides another of its name in a scope's or a section's       *)
(* table: a declaration runs once in the life of the table it goes to, for *)
(* it is refused twice in one scope (sce_ir.c:23-31), initialisers are not *)
(* repeated and every section gets a new table; alloc_sce_vm_context_local *)
(* itself does not look (sce_run.c:1579-1593).                             *)
DeclaredOnce ==
  \A s \in Scopes :
    /\ NoRepeats(filed[s])
    /\ \A k \in DOMAIN ctx[s] : NoRepeats(ctx[s][k].objs)

(* The section a module is in.                                             *)
Phase(m) ==
  IF stage = "collect" \/ ctx[m] = <<>> \/ InFiled(m) THEN "idle"
  ELSE code[Head(ctx[m]).at].arg

(* The module a call in progress is for.                                   *)
Active == IF stage \in {"init", "enter", "section"} /\ running \in Names
          THEN running ELSE None

(* The comments' life cycle of a module (sce_run.c:765-809) is what the VM *)
(* does: a call for a module moves that module only.                       *)
Lifecycle == INSTANCE ModuleLifecycle
               WITH phase <- [m \in Names |-> Phase(m)], active <- Active
ModuleLifecycleSpec == Lifecycle!Spec

(* What the source says and the code does not do.                          *)

(* Reaching the end of main renews the module's own main section and no    *)
(* other module's ("Reaching the end of the main block has the same effect *)
(* as jumping back to 'main'", sce_run.c:801-803).                         *)
MainReturnsToMain ==
  [][ChangeSection /\ stage = "section" /\ arg = "main" /\ err' = "none"
       => ctx' = [ctx EXCEPT ![running] = <<Context(labels[running]["main"])>>]]_vars

(* "The default jump target is the main block" (sce_run.c:785-789): the    *)
(* jump a section ends with has its target.                                *)
DefaultJumpTarget == err # "label"

(* Every call returns to the host (sce_run.c:600-703).                     *)
CallReturns == stage # "idle" ~> stage \in {"idle", "crashed"}

(* A start section hands over to another section in the same call unless   *)
(* the module fails (sce_run.c:785-788: "Then jump to the main block").    *)
StartIsLeft ==
  \A m \in Names : (stage = "section" /\ Phase(m) = "start") ~>
                     (Phase(m) # "start" \/ err # "none" \/ stage = "crashed")
=============================================================================
