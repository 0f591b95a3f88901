------------------------------ MODULE Ownership ------------------------------
(***************************************************************************)
(* When a statement's code keeps the rules of ownership.                   *)
(*                                                                         *)
(* Nothing in a register says whether its bytes are still to be used: RMOV,*)
(* SAVE and LOAD leave copies behind, and so does every statement.  Code   *)
(* is checked like this: each point of a statement gets a state that says  *)
(* of every register what is known of it there,                            *)
(*                                                                         *)
(*     "any"  nothing; it may hold a copy of what another cell owns        *)
(*     "own"  a value; if it is a string, no other cell in use has it      *)
(*     "num"  an int, of this value (the number of a system call)          *)
(*     "ref"  the address of this variable                                 *)
(*                                                                         *)
(* and which variables are allocated.  An instruction is allowed in some   *)
(* states, assigns some variables there, which must be the statement's     *)
(* target, and gives the next state.  At the start of a statement nothing  *)
(* is known, so that statements can follow each other in any order.        *)
(***************************************************************************)
EXTENDS VmMemory

Known(is, of) == [is |-> is, of |-> of]
Unknown    == Known("any", 0)
Own    == Known("own", 0)
Num(n) == Known("num", n)
At(x)  == Known("ref", x)

Owns(k)  == k.is \in {"own", "num"}
Usable(k) == k.is # "any"

(* States: what is known of each register, and the allocated variables.    *)
Start(s) == [reg |-> [r \in Registers |-> Unknown], vars |-> s.uses]

-----------------------------------------------------------------------------
(* System calls, with the call's number n and k arguments.  The argument   *)
(* count is tested first, and all registers below k are deleted if it is   *)
(* wrong.                                                                  *)
CallAllowed(t, k) ==
  /\ t.reg[1].is = "num" /\ t.reg[1].of \in 1..3
  /\ IF k = ArgCount[t.reg[1].of]
       THEN \A r \in 2..k : Usable(t.reg[r])
       ELSE \A r \in Registers : r < k => Usable(t.reg[r])

Allowed(t, c) ==
  CASE c.op \in {"IMOV", "FMOV", "BMOV", "SMOV"} -> c.r1 \in Registers
    [] c.op = "ALLOC" -> c.name \in Variables
    [] c.op \in {"MOV", "MMOV"} -> c.r1 \in Registers /\ c.name \in t.vars
    [] c.op = "RMOV" -> /\ {c.r1, c.r2} \subseteq Registers /\ c.r1 # c.r2
                        /\ Usable(t.reg[c.r1]) /\ Owns(t.reg[c.r2])
    [] c.op = "ADD"  -> /\ {c.r1, c.r2} \subseteq Registers /\ c.r1 # c.r2
                        /\ Usable(t.reg[c.r1]) /\ Usable(t.reg[c.r2])
    [] c.op = "SAVE" -> 1 .. c.r1 \subseteq Registers
    [] c.op = "LOAD" -> c.r1 + 1 .. c.r1 + c.r2 \subseteq Registers
    [] c.op = "SYSTEM_CALL" -> CallAllowed(t, c.r1)
    [] c.op = "DELETE" -> Owns(t.reg[RetReg])
    [] OTHER -> TRUE

-----------------------------------------------------------------------------
Put(t, r, k) == [t EXCEPT !.reg[r] = k]

(* What was in m registers from a + 1 on goes to those from b + 1 on.      *)
Moved(t, a, b, m) ==
  [t EXCEPT !.reg = [r \in Registers |->
     IF r \in b + 1 .. b + m THEN t.reg[r + a - b]
     ELSE IF r \in a + 1 .. a + m THEN Unknown ELSE t.reg[r]]]

(* A call that succeeds deletes its first d registers (0 is one of them).  *)
Called(t, d) ==
  [t EXCEPT !.reg = [r \in Registers |->
     IF r = RetReg THEN Own ELSE IF r < d THEN Unknown ELSE t.reg[r]]]

After(t, c) ==
  CASE c.op = "IMOV" -> Put(t, c.r1, Num(c.r2))
    [] c.op \in {"FMOV", "BMOV", "SMOV", "MMOV"} -> Put(t, c.r1, Own)
    [] c.op = "ALLOC" -> [t EXCEPT !.vars = @ \cup {c.name}]
    [] c.op = "MOV" -> Put(t, c.r1, At(c.name))
    [] c.op = "RMOV" /\ t.reg[c.r1].is = "ref" -> Put(t, c.r2, Unknown)
    [] c.op = "RMOV" /\ t.reg[c.r1].is # "ref" -> Put(Put(t, c.r1, t.reg[c.r2]), c.r2, Unknown)
    [] c.op = "ADD" /\ t.reg[c.r1].is = "ref"  -> Put(t, c.r2, Unknown)
    [] c.op = "ADD" /\ t.reg[c.r1].is # "ref"  -> Put(Put(t, c.r1, Own), c.r2, Unknown)
    [] c.op = "SAVE" -> Moved(t, 0, c.r2, c.r1)
    [] c.op = "LOAD" -> Moved(t, c.r1, 0, c.r2)
    [] c.op = "SYSTEM_CALL" -> Called(t, ArgCount[t.reg[1].of])
    [] c.op = "DELETE" -> Put(t, RetReg, Unknown)
    [] OTHER -> t

(* The variables an instruction may change, by name or through an address. *)
Assigned(t, c) ==
  CASE c.op = "ALLOC" -> {c.name}
    [] c.op \in {"RMOV", "ADD"} /\ t.reg[c.r1].is = "ref" -> {t.reg[c.r1].of}
    [] OTHER -> {}

(* f is the state at each point of the statement's code.                   *)
Checks(s, f) ==
  /\ f[1] = Start(s)
  /\ \A k \in 1..Len(s.code) : /\ Allowed(f[k], s.code[k])
                              /\ Assigned(f[k], s.code[k]) \subseteq {s.target}
                              /\ f[k + 1] = After(f[k], s.code[k])

(* The statement keeps the rules.                                          *)
Disciplined(s) == \E f : Checks(s, f)
=============================================================================
