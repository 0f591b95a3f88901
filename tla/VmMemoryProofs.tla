---------------------------- MODULE VmMemoryProofs ----------------------------
(***************************************************************************)
(* VmMemory on code that keeps the rules of Ownership, for every set of    *)
(* statements and every number of registers, variables and strings.        *)
(***************************************************************************)
EXTENDS Ownership, FiniteSetTheorems, TLAPS

Knowledge == [is : {"any", "own", "num", "ref"}, of : Nat \cup Variables]
State     == [reg : [Registers -> Knowledge], vars : SUBSET Variables]

RegCells == [Registers -> {c \in Cell : WellFormed(c) /\ c.kind # "dead"}]
VarCells == [Variables -> {c \in Cell : WellFormed(c) /\ c.kind # "mem"}]

(* In registers g and variables v, with the strings L allocated:           *)
(* a string of a variable is its own;                                      *)
OneOwnerIn(v, L) ==
  \A x \in Variables : v[x].kind = "string" =>
    /\ v[x].own = "owned" /\ v[x].at \in L
    /\ \A y \in Variables \ {x} : v[y].at # v[x].at

(* a string that cell c has is in no variable;                             *)
Sole(c, v, L) ==
  c.kind = "string" => /\ c.own = "owned" /\ c.at \in L
                       /\ \A x \in Variables : v[x].at # c.at

(* the registers are what t says.                                          *)
Fits(k, c, v, L, there) ==
  /\ Owns(k) => c.kind # "mem" /\ Sole(c, v, L)
  /\ k.is = "num" => c.kind = "int" /\ c.n = k.of
  /\ k.is = "ref" => c.kind = "mem" /\ c.ref = k.of /\ k.of \in there

Apart(t, g) ==
  \A q, r \in Registers :
    q # r /\ Owns(t.reg[q]) /\ Owns(t.reg[r]) /\ g[q].kind = "string" => g[r].at # g[q].at

Safe(t, g, v, L) ==
  /\ t \in State /\ g \in RegCells /\ v \in VarCells /\ L \subseteq Objects
  /\ OneOwnerIn(v, L)
  /\ \A r \in Registers : Fits(t.reg[r], g[r], v, L, t.vars)
  /\ Apart(t, g)
  /\ \A x \in t.vars : v[x].kind # "dead"

Nothing == [reg |-> [r \in Registers |-> Unknown], vars |-> {}]

-----------------------------------------------------------------------------
(* What may be done to registers, variables and strings.                   *)

LEMMA CellTyped ==
  ASSUME NEW t, NEW g, NEW v, NEW L, Safe(t, g, v, L)
  PROVE  /\ \A r \in Registers : g[r] \in Cell /\ WellFormed(g[r]) /\ g[r].kind # "dead"
         /\ \A x \in Variables : v[x] \in Cell /\ WellFormed(v[x]) /\ v[x].kind # "mem"
BY DEF Safe, RegCells, VarCells

LEMMA UnknownTyped == Unknown \in Knowledge /\ Own \in Knowledge
BY DEF Unknown, Own, Known, Knowledge

LEMMA Forget ==
  ASSUME NEW t, NEW g, NEW v, NEW L, Safe(t, g, v, L)
  PROVE  Safe(Nothing, g, v, L)
<1>1. Nothing \in State
  BY UnknownTyped DEF Nothing, State
<1>2. \A r \in Registers : Nothing.reg[r].is = "any"
  BY DEF Nothing, Unknown, Known
<1> QED  BY <1>1, <1>2 DEF Safe, Fits, Apart, Owns, Nothing

LEMMA PutTyped ==
  ASSUME NEW t \in State, NEW r \in Registers, NEW k \in Knowledge
  PROVE  /\ Put(t, r, k) \in State /\ Put(t, r, k).vars = t.vars
         /\ Put(t, r, k).reg[r] = k
         /\ \A q \in Registers \ {r} : Put(t, r, k).reg[q] = t.reg[q]
BY DEF Put, State

(* A register gets a cell that fits what is then known of it.              *)
LEMMA RegGets ==
  ASSUME NEW t, NEW g, NEW v, NEW L, Safe(t, g, v, L),
         NEW r \in Registers, NEW k \in Knowledge, NEW c \in Cell,
         WellFormed(c), c.kind # "dead", Fits(k, c, v, L, t.vars),
         Owns(k) /\ c.kind = "string" =>
           \A q \in Registers \ {r} : Owns(t.reg[q]) => g[q].at # c.at
  PROVE  Safe(Put(t, r, k), [g EXCEPT ![r] = c], v, L)
<1> DEFINE u == Put(t, r, k)
           h == [g EXCEPT ![r] = c]
<1>1. /\ u \in State /\ u.vars = t.vars /\ u.reg[r] = k
      /\ \A q \in Registers \ {r} : u.reg[q] = t.reg[q]
  BY PutTyped DEF Safe
<1>2. /\ h \in RegCells /\ h[r] = c
      /\ \A q \in Registers \ {r} : h[q] = g[q]
  BY DEF Safe, RegCells
<1>3. \A q \in Registers : WellFormed(g[q])
  BY CellTyped
<1> HIDE DEF u, h
<1>4. \A q \in Registers : Fits(u.reg[q], h[q], v, L, u.vars)
  BY <1>1, <1>2 DEF Safe
<1>5. Apart(u, h)
  <2> SUFFICES ASSUME NEW p \in Registers, NEW q \in Registers, p # q,
                      Owns(u.reg[p]), Owns(u.reg[q]), h[p].kind = "string"
               PROVE  h[q].at # h[p].at
    BY DEF Apart
  <2>1. CASE p # r /\ q # r
    BY <1>1, <1>2, <2>1 DEF Safe, Apart
  <2>2. CASE p = r
    BY <1>1, <1>2, <2>2
  <2>3. CASE q = r
    <3>1. g[p].at # 0 /\ g[p].kind = "string"
      BY <1>1, <1>2, <1>3, <2>3 DEF WellFormed
    <3>2. CASE c.kind = "string"
      BY <1>1, <1>2, <2>3, <3>2
    <3>3. CASE c.kind # "string"
      BY <1>1, <1>2, <2>3, <3>1, <3>3 DEF WellFormed
    <3> QED  BY <3>2, <3>3
  <2> QED  BY <2>1, <2>2, <2>3
<1>6. Safe(u, h, v, L)
  BY <1>1, <1>2, <1>4, <1>5 DEF Safe
<1> QED  BY <1>6 DEF u, h

(* A variable gets a value whose string, if any, no other cell in use has. *)
LEMMA VarGets ==
  ASSUME NEW t, NEW g, NEW v, NEW L, Safe(t, g, v, L),
         NEW x \in Variables, NEW c \in Cell,
         WellFormed(c), c.kind \notin {"mem", "dead"},
         c.kind = "string" =>
           /\ c.own = "owned" /\ c.at \in L
           /\ \A y \in Variables \ {x} : v[y].at # c.at
           /\ \A q \in Registers : Owns(t.reg[q]) => g[q].at # c.at
  PROVE  Safe(t, g, [v EXCEPT ![x] = c], L)
<1> DEFINE w == [v EXCEPT ![x] = c]
<1>1. /\ w \in VarCells /\ w[x] = c
      /\ \A y \in Variables \ {x} : w[y] = v[y]
  BY DEF Safe, VarCells
<1>2. \A y \in Variables : WellFormed(v[y])
  BY CellTyped
<1> HIDE DEF w
<1>3. OneOwnerIn(w, L)
  <2> SUFFICES ASSUME NEW y \in Variables, w[y].kind = "string"
               PROVE  /\ w[y].own = "owned" /\ w[y].at \in L
                      /\ \A z \in Variables \ {y} : w[z].at # w[y].at
    BY DEF OneOwnerIn
  <2>1. CASE y = x
    BY <1>1, <2>1
  <2>2. CASE y # x
    <3>1. /\ v[y].kind = "string" /\ v[y].own = "owned" /\ v[y].at \in L
          /\ \A z \in Variables \ {y} : v[z].at # v[y].at
      BY <1>1, <2>2 DEF Safe, OneOwnerIn
    <3>2. c.at # v[y].at
      BY <1>2, <2>2, <3>1 DEF WellFormed
    <3> QED  BY <1>1, <2>2, <3>1, <3>2
  <2> QED  BY <2>1, <2>2
<1>4. ASSUME NEW r \in Registers
      PROVE  Fits(t.reg[r], g[r], w, L, t.vars)
  <2>1. Fits(t.reg[r], g[r], v, L, t.vars)
    BY DEF Safe
  <2>2. ASSUME Owns(t.reg[r]) PROVE Sole(g[r], w, L)
    <3>1. Sole(g[r], v, L) /\ WellFormed(g[r])
      BY <2>1, <2>2, CellTyped DEF Fits
    <3>2. g[r].kind = "string" => c.at # g[r].at
      BY <2>2, <3>1 DEF WellFormed
    <3> QED  BY <1>1, <3>1, <3>2 DEF Sole
  <2> QED  BY <2>1, <2>2 DEF Fits
<1>5. \A y \in t.vars : w[y].kind # "dead"
  BY <1>1 DEF Safe, State
<1>6. Safe(t, g, w, L)
  BY <1>1, <1>3, <1>4, <1>5 DEF Safe
<1> QED  BY <1>6 DEF w

(* Strings that no variable and no register in use has are freed.          *)
LEMMA Frees ==
  ASSUME NEW t, NEW g, NEW v, NEW L, Safe(t, g, v, L), NEW D,
         \A x \in Variables : v[x].kind = "string" => v[x].at \notin D,
         \A r \in Registers : Owns(t.reg[r]) /\ g[r].kind = "string" => g[r].at \notin D
  PROVE  Safe(t, g, v, L \ D)
<1>1. OneOwnerIn(v, L \ D)
  BY DEF Safe, OneOwnerIn
<1>2. \A r \in Registers : Fits(t.reg[r], g[r], v, L \ D, t.vars)
  BY DEF Safe, Fits, Sole
<1> QED  BY <1>1, <1>2 DEF Safe

(* A string is allocated.                                                  *)
LEMMA Grows ==
  ASSUME NEW t, NEW g, NEW v, NEW L, Safe(t, g, v, L), NEW o \in Objects
  PROVE  Safe(t, g, v, L \cup {o})
<1>1. OneOwnerIn(v, L \cup {o})
  BY DEF Safe, OneOwnerIn
<1>2. \A r \in Registers : Fits(t.reg[r], g[r], v, L \cup {o}, t.vars)
  BY DEF Safe, Fits, Sole
<1> QED  BY <1>1, <1>2 DEF Safe

(* A variable is there from now on.                                        *)
LEMMA Declares ==
  ASSUME NEW t, NEW g, NEW v, NEW L, Safe(t, g, v, L),
         NEW x \in Variables, v[x].kind # "dead"
  PROVE  Safe([t EXCEPT !.vars = @ \cup {x}], g, v, L)
<1> DEFINE u == [t EXCEPT !.vars = @ \cup {x}]
<1>1. u \in State /\ u.reg = t.reg /\ u.vars = t.vars \cup {x}
  BY DEF Safe, State
<1> HIDE DEF u
<1>2. \A r \in Registers : Fits(u.reg[r], g[r], v, L, u.vars)
  BY <1>1 DEF Safe, Fits
<1>3. Safe(u, g, v, L)
  BY <1>1, <1>2 DEF Safe, Apart
<1> QED  BY <1>3 DEF u

(* There is a string to allocate, which no cell points to.                 *)
LEMMA FreshTyped ==
  ASSUME NEW t, NEW L, Safe(t, reg, var, L)
  PROVE  /\ Fresh \in Objects
         /\ \A r \in Registers : reg[r].at # Fresh
         /\ \A x \in Variables : var[x].at # Fresh
<1> DEFINE inRegs == {reg[r].at : r \in Registers}
           inVars == {var[x].at : x \in Variables}
           f == [r \in Registers |-> reg[r].at]
           h == [x \in Variables |-> var[x].at]
<1>1. IsFiniteSet(Registers)
  <2>1. IsFiniteSet(1..RetReg)
    <3>1. 1 \in Int /\ RetReg \in Int
      BY DEF RetReg
    <3> QED  BY <3>1, FS_Interval
  <2> QED  BY <2>1, FS_Subset, RegistersAssumption
<1>2. IsFiniteSet(inRegs) /\ Cardinality(inRegs) <= Cardinality(Registers)
  <2>1. f \in Surjection(Registers, inRegs)
    BY DEF Surjection
  <2> HIDE DEF f, inRegs
  <2> QED  BY <1>1, <2>1, FS_Surjection
<1>3. IsFiniteSet(inVars) /\ Cardinality(inVars) <= Cardinality(Variables)
  <2>1. h \in Surjection(Variables, inVars)
    BY DEF Surjection
  <2> HIDE DEF h, inVars
  <2> QED  BY <2>1, FS_Surjection, ObjectsAssumption
<1> HIDE DEF inRegs, inVars
<1>4. IsFiniteSet(inRegs \cup inVars)
      /\ Cardinality(inRegs \cup inVars) <= Cardinality(Registers) + Cardinality(Variables)
  <2>1. /\ IsFiniteSet(inRegs \cup inVars)
        /\ Cardinality(inRegs \cup inVars) =
             Cardinality(inRegs) + Cardinality(inVars) - Cardinality(inRegs \cap inVars)
    BY <1>2, <1>3, FS_Union
  <2>2. IsFiniteSet(inRegs \cap inVars)
    BY <1>2, FS_Subset
  <2>3. /\ Cardinality(inRegs) \in Nat /\ Cardinality(inVars) \in Nat
        /\ Cardinality(inRegs \cap inVars) \in Nat
        /\ Cardinality(Registers) \in Nat /\ Cardinality(Variables) \in Nat
    BY <1>1, <1>2, <1>3, <2>2, FS_CardinalityType, ObjectsAssumption
  <2> QED  BY <1>2, <1>3, <2>1, <2>3
<1>5. ~(Objects \subseteq inRegs \cup inVars)
  <2> SUFFICES ASSUME Objects \subseteq inRegs \cup inVars PROVE FALSE
    OBVIOUS
  <2>1. Cardinality(Objects) <= Cardinality(inRegs \cup inVars)
    BY <1>4, FS_Subset
  <2>2. /\ Cardinality(Objects) \in Nat /\ Cardinality(inRegs \cup inVars) \in Nat
        /\ Cardinality(Registers) \in Nat /\ Cardinality(Variables) \in Nat
    BY <1>1, <1>4, FS_CardinalityType, ObjectsAssumption
  <2> QED  BY <1>4, <2>1, <2>2, ObjectsAssumption
<1>6. PICK o \in Objects : o \notin inRegs \cup inVars
  BY <1>5
<1>7. \A c \in {reg[r] : r \in Registers} \cup {var[x] : x \in Variables} : c.at # o
  BY <1>6 DEF inRegs, inVars
<1>8. /\ Fresh \in Objects
      /\ \A c \in {reg[r] : r \in Registers} \cup {var[x] : x \in Variables} : c.at # Fresh
  BY <1>7 DEF Fresh
<1> QED  BY <1>8

-----------------------------------------------------------------------------
(* Several registers at once.                                              *)

(* SAVE and LOAD: a register that is copied is given up, so that two       *)
(* registers in use never come from one.                                   *)
LEMMA Moves ==
  ASSUME NEW t, NEW g, NEW v, NEW L, Safe(t, g, v, L),
         NEW a \in Nat, NEW b \in Nat, NEW m \in Nat,
         a + 1 .. a + m \subseteq Registers,
         NEW h, h = [r \in Registers |-> IF r \in b + 1 .. b + m THEN g[r + a - b] ELSE g[r]]
  PROVE  Safe(Moved(t, a, b, m), h, v, L)
<1> DEFINE u == Moved(t, a, b, m)
           into == b + 1 .. b + m
           from(r) == IF r \in into THEN r + a - b ELSE r
<1>1. \A r \in Registers : r \in Nat
  BY RegistersAssumption DEF RetReg
<1>2. \A r \in Registers : from(r) \in Registers /\ (r \in into => from(r) \in a + 1 .. a + m)
  BY <1>1
<1>3. \A r \in Registers : h[r] = g[from(r)]
  OBVIOUS
<1>4. /\ u.vars = t.vars
      /\ u.reg = [r \in Registers |-> IF r \in into THEN t.reg[r + a - b]
                                     ELSE IF r \in a + 1 .. a + m THEN Unknown ELSE t.reg[r]]
      /\ u = [reg |-> u.reg, vars |-> u.vars]
  BY DEF Moved, Safe, State
<1>5. \A r \in Registers :
        \/ u.reg[r] = t.reg[from(r)] /\ (r \in into \/ r \notin a + 1 .. a + m)
        \/ u.reg[r] = Unknown
  BY <1>4
<1>6. u \in State
  <2>1. \A r \in Registers : u.reg[r] \in Knowledge
    BY <1>2, <1>5, UnknownTyped DEF Safe, State
  <2>2. u.reg \in [Registers -> Knowledge]
    BY <1>4, <2>1
  <2>3. u.vars \in SUBSET Variables
    BY <1>4 DEF Safe, State
  <2> QED  BY <1>4, <2>2, <2>3 DEF State
<1>7. h \in RegCells
  BY <1>2, <1>3 DEF Safe, RegCells
<1>8. \A q, r \in Registers :
        q # r /\ Owns(u.reg[q]) /\ Owns(u.reg[r]) => from(q) # from(r)
  <2> SUFFICES ASSUME NEW q \in Registers, NEW r \in Registers, q # r,
                      Owns(u.reg[q]), Owns(u.reg[r])
               PROVE  from(q) # from(r)
    OBVIOUS
  <2>1. ~Owns(Unknown)
    BY DEF Owns, Unknown, Known
  <2>2. /\ q \in into \/ q \notin a + 1 .. a + m
        /\ r \in into \/ r \notin a + 1 .. a + m
    BY <1>5, <2>1
  <2> QED  BY <1>1, <1>2, <2>2
<1> HIDE DEF u, from, into
<1>9. \A r \in Registers : Fits(u.reg[r], h[r], v, L, u.vars)
  <2> TAKE r \in Registers
  <2>1. Fits(t.reg[from(r)], g[from(r)], v, L, t.vars)
    BY <1>2 DEF Safe
  <2>2. Fits(Unknown, h[r], v, L, u.vars)
    BY DEF Fits, Owns, Unknown, Known
  <2> QED  BY <1>3, <1>4, <1>5, <2>1, <2>2
<1>10. Apart(u, h)
  <2> SUFFICES ASSUME NEW q \in Registers, NEW r \in Registers, q # r,
                      Owns(u.reg[q]), Owns(u.reg[r]), h[q].kind = "string"
               PROVE  h[r].at # h[q].at
    BY DEF Apart
  <2>1. ~Owns(Unknown)
    BY DEF Owns, Unknown, Known
  <2>2. Owns(t.reg[from(q)]) /\ Owns(t.reg[from(r)])
    BY <1>5, <2>1
  <2> QED  BY <1>2, <1>3, <1>8, <2>2 DEF Safe, Apart
<1>11. Safe(u, h, v, L)
  BY <1>4, <1>6, <1>7, <1>9, <1>10 DEF Safe
<1> QED  BY <1>11 DEF u

LEMMA DeletedTyped ==
  ASSUME NEW c \in Cell, WellFormed(c), c.kind # "dead"
  PROVE  Deleted(c) \in Cell /\ WellFormed(Deleted(c)) /\ Deleted(c).kind # "dead"
<1>1. Value("const", "null", 0) \in Cell
  BY DEF Value, Cell, Kinds
<1> QED  BY <1>1, NoneAssumption, ObjectsAssumption DEF Deleted, Value, WellFormed

(* The strings that the registers below d free are no variable's, and no   *)
(* two of the registers free the same.                                     *)
LEMMA RegsFreed ==
  ASSUME NEW t, NEW g, NEW v, NEW L, Safe(t, g, v, L), NEW d \in Nat,
         \A r \in Registers : r < d => Usable(t.reg[r])
  PROVE  LET gone == Freed({g[r] : r \in {q \in Registers : q < d}})
         IN  /\ gone \subseteq L
             /\ \A x \in Variables : v[x].kind = "string" => v[x].at \notin gone
             /\ \A r \in Registers : Owns(t.reg[r]) /\ g[r].kind = "string" /\ g[r].at \in gone
                  => r < d
             /\ \A q, r \in Registers : q < r /\ r < d => Freed({g[q]}) \cap Freed({g[r]}) = {}
<1> DEFINE gone == Freed({g[r] : r \in {q \in Registers : q < d}})
<1>1. \A c : c \in Cell => Freed({c}) = IF OwnsText(c) THEN {c.at} ELSE {}
  BY DEF Freed, Strings, OwnsText
<1>2. \A o \in gone : \E r \in Registers : r < d /\ OwnsText(g[r]) /\ g[r].at = o
  BY DEF Freed, Strings
<1>3. \A r \in Registers : r < d /\ OwnsText(g[r]) => Owns(t.reg[r])
  <2> SUFFICES ASSUME NEW r \in Registers, r < d, OwnsText(g[r]) PROVE Owns(t.reg[r])
    OBVIOUS
  <2>1. t.reg[r].is \in {"own", "num", "ref"}
    BY DEF Usable, Safe, State, Knowledge
  <2>2. t.reg[r].is # "ref"
    BY DEF OwnsText, Safe, Fits
  <2> QED  BY <2>1, <2>2 DEF Owns
<1>4. \A r \in Registers : Owns(t.reg[r]) /\ g[r].kind = "string" =>
        g[r].at \in L /\ \A x \in Variables : v[x].at # g[r].at
  BY DEF Safe, Fits, Sole
<1>5. \A r \in Registers : g[r] \in Cell /\ r \in Nat
  BY CellTyped, RegistersAssumption DEF RetReg
<1> HIDE DEF gone
<1>6. gone \subseteq L /\ \A x \in Variables : v[x].at \notin gone
  BY <1>2, <1>3, <1>4 DEF OwnsText
<1>7. ASSUME NEW r \in Registers, Owns(t.reg[r]), g[r].kind = "string", g[r].at \in gone
      PROVE  r < d
  <2>1. PICK q \in Registers : q < d /\ OwnsText(g[q]) /\ g[q].at = g[r].at
    BY <1>2, <1>7
  <2>2. q = r
    BY <1>3, <1>7, <2>1 DEF OwnsText, Safe, Apart
  <2> QED  BY <2>1, <2>2
<1>8. ASSUME NEW q \in Registers, NEW r \in Registers, q < r, r < d
      PROVE  Freed({g[q]}) \cap Freed({g[r]}) = {}
  <2>1. q # r /\ q < d
    BY <1>5, <1>8
  <2>2. OwnsText(g[q]) /\ OwnsText(g[r]) => g[q].at # g[r].at
    BY <1>3, <1>8, <2>1 DEF OwnsText, Safe, Apart
  <2> QED  BY <1>1, <1>5, <2>2
<1> QED  BY <1>6, <1>7, <1>8 DEF gone

(* A call deletes its registers and leaves a result.                       *)
LEMMA CallDeletes ==
  ASSUME NEW t, NEW g, NEW v, NEW L, Safe(t, g, v, L), NEW d \in Nat, d <= RetReg,
         \A r \in Registers : r < d => Usable(t.reg[r]),
         NEW c \in Cell, WellFormed(c), c.kind \notin {"dead", "mem", "string"},
         NEW h, h = [r \in Registers |-> IF r = RetReg THEN c
                                        ELSE IF r < d THEN Deleted(g[r]) ELSE g[r]]
  PROVE  Safe(Called(t, d), h, v, L \ Freed({g[r] : r \in {q \in Registers : q < d}}))
<1> DEFINE u == Called(t, d)
           D == Freed({g[r] : r \in {q \in Registers : q < d}})
<1>1. /\ u.vars = t.vars /\ u.reg[RetReg] = Own
      /\ \A r \in Registers \ {RetReg} : u.reg[r] = IF r < d THEN Unknown ELSE t.reg[r]
      /\ u \in State
  BY UnknownTyped, RegistersAssumption DEF Called, Safe, State
<1>2. /\ \A x \in Variables : v[x].kind = "string" => v[x].at \notin D
      /\ \A r \in Registers : Owns(t.reg[r]) /\ g[r].kind = "string" /\ g[r].at \in D => r < d
  BY RegsFreed
<1>3. h \in RegCells /\ h[RetReg] = c
  <2>1. \A r \in Registers : /\ g[r] \in Cell /\ WellFormed(g[r]) /\ g[r].kind # "dead"
                            /\ Deleted(g[r]) \in Cell /\ WellFormed(Deleted(g[r]))
                            /\ Deleted(g[r]).kind # "dead"
    BY CellTyped, DeletedTyped
  <2> QED  BY <2>1, RegistersAssumption DEF RegCells
<1>4. \A r \in Registers : r # RetReg /\ ~(r < d) => h[r] = g[r]
  OBVIOUS
<1>5. ~Owns(Unknown) /\ Own.is = "own" /\ Unknown.is = "any"
  BY DEF Owns, Unknown, Known, Own
<1> HIDE DEF u, D
<1>6. OneOwnerIn(v, L \ D)
  BY <1>2 DEF Safe, OneOwnerIn
<1>7. ASSUME NEW r \in Registers PROVE Fits(u.reg[r], h[r], v, L \ D, u.vars)
  <2>1. CASE r = RetReg
    BY <1>1, <1>3, <1>5, <2>1 DEF Fits, Sole
  <2>2. CASE r # RetReg /\ r < d
    BY <1>1, <1>5, <2>2 DEF Fits
  <2>3. CASE r # RetReg /\ ~(r < d)
    <3>1. u.reg[r] = t.reg[r] /\ h[r] = g[r]
      BY <1>1, <1>4, <2>3
    <3>2. Fits(t.reg[r], g[r], v, L, t.vars)
      BY DEF Safe
    <3>3. Owns(t.reg[r]) /\ g[r].kind = "string" => g[r].at \notin D
      BY <1>2, <2>3
    <3> QED  BY <1>1, <3>1, <3>2, <3>3 DEF Fits, Sole
  <2> QED  BY <2>1, <2>2, <2>3
<1>8. Apart(u, h)
  <2> SUFFICES ASSUME NEW q \in Registers, NEW r \in Registers, q # r,
                      Owns(u.reg[q]), Owns(u.reg[r]), h[q].kind = "string"
               PROVE  h[r].at # h[q].at
    BY DEF Apart
  <2>1. q # RetReg /\ ~(q < d) /\ h[q] = g[q] /\ Owns(t.reg[q])
    BY <1>1, <1>3, <1>4, <1>5
  <2>2. g[q].at # 0
    BY <2>1, CellTyped DEF WellFormed
  <2>3. CASE r = RetReg
    BY <1>3, <2>1, <2>2, <2>3 DEF WellFormed
  <2>4. CASE r # RetReg
    <3>1. h[r] = g[r] /\ Owns(t.reg[r])
      BY <1>1, <1>4, <1>5, <2>4
    <3> QED  BY <2>1, <3>1 DEF Safe, Apart
  <2> QED  BY <2>3, <2>4
<1>9. Safe(u, h, v, L \ D)
  BY <1>1, <1>3, <1>6, <1>7, <1>8 DEF Safe
<1> QED  BY <1>9 DEF u, D

-----------------------------------------------------------------------------
(* Every instruction that is allowed where t is known leaves After(t, i)   *)
(* known, or the program has failed.                                       *)

Ready(t) == Safe(t, reg, var, live) /\ i \in Instruction /\ Allowed(t, i) /\ fault = "none"

Keeps(t) ==
  /\ fault' = "none"
  /\ Safe(Nothing, reg', var', live')
  /\ err' = "none" => Safe(t, reg', var', live')

LEMMA Kept ==
  ASSUME NEW t, fault' = "none", Safe(t, reg', var', live')
  PROVE  Keeps(t)
BY Forget DEF Keeps

(* A value that is no string and no address goes to a register.            *)
LEMMA PlainPut ==
  ASSUME NEW t, Safe(t, reg, var, live), NEW r \in Registers, NEW k \in Knowledge,
         NEW c \in Cell, WellFormed(c), c.kind \notin {"dead", "mem", "string"},
         k.is # "ref", k.is = "num" => c.kind = "int" /\ c.n = k.of
  PROVE  Safe(Put(t, r, k), [reg EXCEPT ![r] = c], var, live)
<1>1. Fits(k, c, var, live, t.vars)
  BY DEF Fits, Sole
<1> QED  BY <1>1, RegGets

LEMMA ValueTyped ==
  ASSUME NEW own \in {"owned", "const"}, NEW kind \in Kinds \ {"string", "mem"}, NEW n \in Nat
  PROVE  /\ Value(own, kind, n) \in Cell /\ WellFormed(Value(own, kind, n))
         /\ Value(own, kind, n).kind = kind /\ Value(own, kind, n).n = n
<1>1. Value(own, kind, n) \in Cell
  BY DEF Value, Cell
<1> QED  BY <1>1, NoneAssumption DEF Value, WellFormed

LEMMA TextTyped ==
  ASSUME NEW o \in Objects
  PROVE  /\ Text(o) \in Cell /\ WellFormed(Text(o))
         /\ Text(o).kind = "string" /\ Text(o).at = o /\ Text(o).own = "owned"
<1>1. Text(o) \in Cell
  BY DEF Text, Cell, Kinds
<1> QED  BY <1>1, NoneAssumption, ObjectsAssumption DEF Text, WellFormed

LEMMA RefTyped ==
  ASSUME NEW x \in Variables
  PROVE  /\ Ref(x) \in Cell /\ WellFormed(Ref(x)) /\ Ref(x).kind = "mem" /\ Ref(x).ref = x
<1>1. Ref(x) \in Cell
  BY DEF Ref, Cell, Kinds
<1> QED  BY <1>1, NoneAssumption, ObjectsAssumption DEF Ref, WellFormed

LEMMA ImovKeeps == ASSUME NEW t, Ready(t), Imov PROVE Keeps(After(t, i))
<1>1. i.r1 \in Registers /\ i.r2 \in Nat /\ After(t, i) = Put(t, i.r1, Num(i.r2))
  BY DEF Ready, Allowed, After, Imov, Executes, Instruction
<1>2. Num(i.r2) \in Knowledge /\ Num(i.r2).is = "num" /\ Num(i.r2).of = i.r2
  BY <1>1 DEF Num, Known, Knowledge
<1> DEFINE c == Value("const", "int", i.r2)
<1>3. c \in Cell /\ WellFormed(c) /\ c.kind = "int" /\ c.n = i.r2
  BY <1>1, ValueTyped DEF Kinds
<1>4. reg' = [reg EXCEPT ![i.r1] = c] /\ var' = var /\ live' = live /\ fault' = fault
  BY DEF Imov, SetReg, live
<1> HIDE DEF c
<1>5. Safe(Put(t, i.r1, Num(i.r2)), [reg EXCEPT ![i.r1] = c], var, live)
  BY <1>1, <1>2, <1>3, PlainPut DEF Ready
<1> QED  BY <1>1, <1>4, <1>5, Kept DEF Ready

LEMMA FmovKeeps == ASSUME NEW t, Ready(t), Fmov \/ Bmov PROVE Keeps(After(t, i))
<1>1. i.r1 \in Registers /\ i.r2 \in Nat /\ After(t, i) = Put(t, i.r1, Own)
  BY DEF Ready, Allowed, After, Fmov, Bmov, Executes, Instruction
<1>2. Own \in Knowledge /\ Own.is = "own"
  BY UnknownTyped DEF Own, Known
<1>3. PICK kind \in {"float", "bool"} : reg' = [reg EXCEPT ![i.r1] = Value("const", kind, i.r2)]
  BY DEF Fmov, Bmov, SetReg
<1> DEFINE c == Value("const", kind, i.r2)
<1>4. c \in Cell /\ WellFormed(c) /\ c.kind = kind
  BY <1>1, ValueTyped DEF Kinds
<1>5. var' = var /\ live' = live /\ fault' = fault
  BY DEF Fmov, Bmov, live
<1> HIDE DEF c
<1>6. Safe(Put(t, i.r1, Own), [reg EXCEPT ![i.r1] = c], var, live)
  BY <1>1, <1>2, <1>4, PlainPut DEF Ready
<1> QED  BY <1>1, <1>3, <1>5, <1>6, Kept DEF Ready, c

(* A new string goes to a register.                                        *)
LEMMA TextPut ==
  ASSUME NEW t, Safe(t, reg, var, live), NEW r \in Registers
  PROVE  Safe(Put(t, r, Own), [reg EXCEPT ![r] = Text(Fresh)], var, live \cup {Fresh})
<1>1. /\ Fresh \in Objects
      /\ \A q \in Registers : reg[q].at # Fresh
      /\ \A x \in Variables : var[x].at # Fresh
  BY FreshTyped
<1> DEFINE o == Fresh
           c == Text(o)
<1>2. c \in Cell /\ WellFormed(c) /\ c.kind = "string" /\ c.at = o /\ c.own = "owned"
  BY <1>1, TextTyped
<1> HIDE DEF o, c
<1>3. Safe(t, reg, var, live \cup {o})
  BY <1>1, Grows DEF o
<1>4. Own \in Knowledge /\ Own.is = "own"
  BY UnknownTyped DEF Own, Known
<1>5. Fits(Own, c, var, live \cup {o}, t.vars)
  BY <1>1, <1>2, <1>4 DEF Fits, Sole, o
<1>6. Safe(Put(t, r, Own), [reg EXCEPT ![r] = c], var, live \cup {o})
  BY <1>1, <1>2, <1>3, <1>4, <1>5, RegGets DEF o
<1> QED  BY <1>6 DEF c, o

LEMMA SmovKeeps == ASSUME NEW t, Ready(t), Smov PROVE Keeps(After(t, i))
<1>1. i.r1 \in Registers /\ After(t, i) = Put(t, i.r1, Own)
  BY DEF Ready, Allowed, After, Smov, Executes, Instruction
<1>2. /\ reg' = [reg EXCEPT ![i.r1] = Text(Fresh)] /\ live' = live \cup {Fresh}
      /\ var' = var /\ fault' = "none"
  BY DEF Ready, Smov, NewText, SetReg, With, live
<1>3. Safe(Put(t, i.r1, Own), [reg EXCEPT ![i.r1] = Text(Fresh)], var, live \cup {Fresh})
  BY <1>1, TextPut DEF Ready
<1> QED  BY <1>1, <1>2, <1>3, Kept

LEMMA MovKeeps == ASSUME NEW t, Ready(t), Mov PROVE Keeps(After(t, i))
<1>1. i.r1 \in Registers /\ i.name \in t.vars /\ After(t, i) = Put(t, i.r1, At(i.name))
  BY DEF Ready, Allowed, After, Mov, Executes, Instruction
<1>2. i.name \in Variables
  BY <1>1 DEF Ready, Safe, State
<1> DEFINE c == Ref(i.name)
           k == At(i.name)
<1>3. k \in Knowledge /\ k.is = "ref" /\ k.of = i.name
  BY <1>2 DEF At, Known, Knowledge
<1>4. c \in Cell /\ WellFormed(c) /\ c.kind = "mem" /\ c.ref = i.name
  BY <1>2, RefTyped
<1>5. reg' = [reg EXCEPT ![i.r1] = c] /\ var' = var /\ live' = live /\ fault' = fault
  BY DEF Mov, SetReg, live
<1> HIDE DEF c, k
<1>6. Fits(k, c, var, live, t.vars) /\ ~Owns(k)
  BY <1>1, <1>3, <1>4 DEF Fits, Owns
<1>7. Safe(Put(t, i.r1, k), [reg EXCEPT ![i.r1] = c], var, live)
  BY <1>1, <1>3, <1>4, <1>6, RegGets DEF Ready
<1> QED  BY <1>1, <1>5, <1>7, Kept DEF Ready, k

LEMMA MmovKeeps == ASSUME NEW t, Ready(t), Mmov PROVE Keeps(After(t, i))
<1>1. i.r1 \in Registers /\ i.name \in t.vars /\ After(t, i) = Put(t, i.r1, Own)
  BY DEF Ready, Allowed, After, Mmov, Executes, Instruction
<1>2. i.name \in Variables /\ var[i.name].kind # "dead"
  BY <1>1 DEF Ready, Safe, State
<1> DEFINE c == var[i.name]
<1>3. c \in Cell /\ WellFormed(c) /\ c.kind \notin {"mem", "dead"}
  BY <1>2, CellTyped DEF Ready
<1>4. c.kind = "string" => c.at \in live
  BY <1>2 DEF Ready, Safe, OneOwnerIn
<1>5. CASE c.kind = "string"
  <2>1. /\ reg' = [reg EXCEPT ![i.r1] = Text(Fresh)] /\ live' = live \cup {Fresh}
        /\ var' = var /\ Uses({c})
    BY <1>5 DEF Mmov, NewText, SetReg, With, live
  <2>2. Strings({c}) \subseteq live
    BY <1>4 DEF Strings
  <2>3. fault' = "none"
    BY <1>3, <2>1, <2>2 DEF Uses, Ready
  <2>4. Safe(Put(t, i.r1, Own), [reg EXCEPT ![i.r1] = Text(Fresh)], var, live \cup {Fresh})
    BY <1>1, TextPut DEF Ready
  <2> QED  BY <1>1, <2>1, <2>3, <2>4, Kept
<1>6. CASE c.kind # "string"
  <2> DEFINE d == [c EXCEPT !.own = "const"]
  <2>1. d \in Cell /\ WellFormed(d) /\ d.kind = c.kind
    BY <1>3 DEF Cell, WellFormed
  <2>2. reg' = [reg EXCEPT ![i.r1] = d] /\ var' = var /\ live' = live /\ fault' = "none"
    BY <1>6 DEF Mmov, SetReg, Ready, live
  <2>3. Own \in Knowledge /\ Own.is = "own"
    BY UnknownTyped DEF Own, Known
  <2> HIDE DEF d
  <2>4. Safe(Put(t, i.r1, Own), [reg EXCEPT ![i.r1] = d], var, live)
    BY <1>1, <1>3, <1>6, <2>1, <2>3, PlainPut DEF Ready
  <2> QED  BY <1>1, <2>2, <2>4, Kept
<1> QED  BY <1>5, <1>6

LEMMA AllocKeeps == ASSUME NEW t, Ready(t), Alloc PROVE Keeps(After(t, i))
<1> DEFINE x == i.name
           c == Value("owned", "null", 0)
<1>1. x \in Variables /\ After(t, i) = [t EXCEPT !.vars = @ \cup {x}]
  BY DEF Ready, Allowed, After, Alloc, Executes
<1>2. c \in Cell /\ WellFormed(c) /\ c.kind = "null"
  BY ValueTyped DEF Kinds
<1>3. var' = [var EXCEPT ![x] = c] /\ reg' = reg /\ live' = live /\ fault' = "none"
  BY DEF Alloc, SetVar, Ready, live
<1> HIDE DEF x, c
<1>4. Safe(t, reg, [var EXCEPT ![x] = c], live)
  BY <1>1, <1>2, VarGets DEF Ready
<1>5. var'[x].kind # "dead"
  BY <1>1, <1>2, <1>3 DEF Ready, Safe, VarCells
<1>6. Safe([t EXCEPT !.vars = @ \cup {x}], reg', var', live')
  BY <1>1, <1>3, <1>4, <1>5, Declares
<1> QED  BY <1>1, <1>3, <1>6, Kept

LEMMA IgnoredKeeps == ASSUME NEW t, Ready(t), Ignored PROVE Keeps(After(t, i))
<1>1. After(t, i) = t
  BY DEF Ignored, Executes, After
<1>2. reg' = reg /\ var' = var /\ live' = live /\ fault' = "none"
  BY DEF Ignored, Ready, live
<1> QED  BY <1>1, <1>2, Kept DEF Ready

LEMMA SaveKeeps == ASSUME NEW t, Ready(t), Save PROVE Keeps(After(t, i))
<1> DEFINE a == 0  b == i.r2  m == i.r1
<1>1. /\ a \in Nat /\ b \in Nat /\ m \in Nat /\ a + 1 .. a + m \subseteq Registers
      /\ After(t, i) = Moved(t, a, b, m)
  <2>1. i.op = "SAVE" /\ i.r1 \in Nat /\ i.r2 \in Nat
    BY DEF Ready, Save, Executes, Instruction
  <2>2. 1 .. i.r1 \subseteq Registers
    BY <2>1 DEF Ready, Allowed
  <2>3. After(t, i) = Moved(t, 0, i.r2, i.r1)
    BY <2>1 DEF After
  <2> QED  BY <2>1, <2>2, <2>3
<1>2. \A r \in Registers : r \in Nat
  BY RegistersAssumption DEF RetReg
<1>3. reg' = [r \in Registers |-> IF r \in b + 1 .. b + m THEN reg[r + a - b] ELSE reg[r]]
  BY <1>1, <1>2 DEF Save
<1>4. var' = var /\ live' = live /\ fault' = "none"
  BY DEF Save, Ready, live
<1> HIDE DEF a, b, m
<1>5. Safe(Moved(t, a, b, m), reg', var, live)
  BY <1>1, <1>3, Moves DEF Ready
<1> QED  BY <1>1, <1>4, <1>5, Kept

LEMMA LoadKeeps == ASSUME NEW t, Ready(t), Load PROVE Keeps(After(t, i))
<1> DEFINE a == i.r1  b == 0  m == i.r2
<1>1. /\ a \in Nat /\ b \in Nat /\ m \in Nat /\ a + 1 .. a + m \subseteq Registers
      /\ After(t, i) = Moved(t, a, b, m)
  BY DEF Ready, Allowed, After, Load, Executes, Instruction
<1>2. \A r \in Registers : r \in Nat
  BY RegistersAssumption DEF RetReg
<1>3. reg' = [r \in Registers |-> IF r \in b + 1 .. b + m THEN reg[r + a - b] ELSE reg[r]]
  BY <1>1, <1>2 DEF Load
<1>4. var' = var /\ live' = live /\ fault' = "none"
  BY DEF Load, Ready, live
<1> HIDE DEF a, b, m
<1>5. Safe(Moved(t, a, b, m), reg', var, live)
  BY <1>1, <1>3, Moves DEF Ready
<1> QED  BY <1>1, <1>4, <1>5, Kept

(* Assignment.  Through an address the variable takes what the register    *)
(* owned, once its old string is freed; otherwise the other register does. *)
LEMMA RmovKeeps == ASSUME NEW t, Ready(t), Rmov PROVE Keeps(After(t, i))
<1> DEFINE q == i.r1
           r == i.r2
           from == reg[r]
<1>1. q \in Registers /\ r \in Registers /\ q # r /\ Usable(t.reg[q]) /\ Owns(t.reg[r])
  BY DEF Ready, Allowed, Rmov, Executes
<1>2. i.op = "RMOV"
  BY DEF Rmov, Executes
<1>3. /\ from \in Cell /\ WellFormed(from) /\ from.kind \notin {"mem", "dead"}
      /\ Sole(from, var, live) /\ Fits(t.reg[r], from, var, live, t.vars)
  BY <1>1, CellTyped DEF Ready, Safe, Fits
<1>4. /\ Unknown \in Knowledge /\ Unknown.is = "any" /\ ~Owns(Unknown)
      /\ \A c : Fits(Unknown, c, var, live, t.vars)
  BY UnknownTyped DEF Unknown, Known, Owns, Fits
<1>5. CASE t.reg[q].is = "ref"
  <2> DEFINE x == reg[q].ref
             D == Freed({var[x]})
             u == Put(t, r, Unknown)
  <2>1. reg[q].kind = "mem" /\ x \in t.vars /\ x \in Variables /\ var[x].kind # "dead"
    BY <1>1, <1>5 DEF Ready, Safe, Fits, State
  <2>2. /\ var' = [var EXCEPT ![x] = from] /\ live' = live \ D /\ reg' = reg
        /\ D \subseteq live => fault' = "none"
    <3>1. /\ heap' = Without(D) /\ reg' = reg
          /\ D \subseteq live => fault' = "none"
      BY <1>3, <2>1 DEF Rmov, Allocated, Ready
    <3>2. var' = [[var EXCEPT ![x] = Deleted(var[x])] EXCEPT ![x] = from]
      BY <1>3, <2>1 DEF Rmov, SetVar
    <3> QED  BY <3>1, <3>2, <2>1 DEF Without, live, Ready, Safe, VarCells
  <2>3. D = IF OwnsText(var[x]) THEN {var[x].at} ELSE {}
    BY DEF Freed, Strings, OwnsText
  <2>4. After(t, i) = u
    BY <1>2, <1>5 DEF After
  <2>5. /\ u \in State /\ u.vars = t.vars /\ u.reg[r] = Unknown
        /\ \A p \in Registers \ {r} : u.reg[p] = t.reg[p]
    BY <1>1, <1>4, PutTyped DEF Ready, Safe
  <2> HIDE DEF D, u
  <2>6. Safe(u, reg, var, live)
    <3>1. Safe(u, [reg EXCEPT ![r] = from], var, live)
      BY <1>1, <1>3, <1>4, RegGets DEF Ready, u
    <3>2. [reg EXCEPT ![r] = from] = reg
      BY <1>1 DEF Ready, Safe, RegCells
    <3> QED  BY <3>1, <3>2
  <2>7. from.kind = "string" =>
          /\ from.own = "owned" /\ from.at \in live
          /\ \A y \in Variables : var[y].at # from.at
          /\ \A p \in Registers : Owns(u.reg[p]) => reg[p].at # from.at
    <3>1. from.kind = "string" => \A p \in Registers \ {r} : Owns(t.reg[p]) => reg[p].at # from.at
      BY <1>1 DEF Ready, Safe, Apart
    <3> QED  BY <1>3, <1>4, <2>5, <3>1 DEF Sole
  <2> DEFINE w == [var EXCEPT ![x] = from]
  <2>8. Safe(u, reg, w, live)
    BY <1>3, <2>1, <2>6, <2>7, VarGets
  <2>9. /\ w[x] = from /\ \A y \in Variables \ {x} : w[y] = var[y]
    BY <2>1 DEF Ready, Safe, VarCells
  <2> HIDE DEF w
  <2>10. \A y \in Variables : w[y].kind = "string" => w[y].at \notin D
    BY <2>1, <2>3, <2>7, <2>9 DEF Ready, Safe, OneOwnerIn, OwnsText
  <2>11. ASSUME NEW p \in Registers, Owns(u.reg[p]), reg[p].kind = "string"
         PROVE  reg[p].at \notin D
    BY <2>1, <2>3, <2>6, <2>11 DEF Safe, Fits, Sole
  <2>12. Safe(u, reg, w, live \ D)
    BY <2>8, <2>10, <2>11, Frees
  <2>13. D \subseteq live
    BY <2>1, <2>3 DEF OwnsText, Ready, Safe, OneOwnerIn
  <2> QED  BY <2>2, <2>4, <2>12, <2>13, Kept DEF w
<1>6. CASE t.reg[q].is # "ref"
  <2> DEFINE u == Put(t, r, Unknown)
             k == t.reg[r]
  <2>1. Owns(t.reg[q])
    BY <1>1, <1>6 DEF Usable, Owns, Ready, Safe, State, Knowledge
  <2>2. reg[q].kind # "mem"
    BY <1>1, <2>1 DEF Ready, Safe, Fits
  <2>3. reg' = [reg EXCEPT ![q] = from] /\ var' = var /\ live' = live /\ fault' = "none"
    BY <2>2 DEF Rmov, SetReg, Ready, live
  <2>4. After(t, i) = Put(Put(t, q, k), r, Unknown)
    BY <1>2, <1>6 DEF After
  <2>5. Put(Put(t, q, k), r, Unknown) = Put(u, q, k)
    BY <1>1 DEF Put, Ready, Safe, State
  <2>6. /\ u \in State /\ u.vars = t.vars /\ u.reg[r] = Unknown
        /\ \A p \in Registers \ {r} : u.reg[p] = t.reg[p]
    BY <1>1, <1>4, PutTyped DEF Ready, Safe
  <2> HIDE DEF u
  <2>7. Safe(u, reg, var, live)
    <3>1. Safe(u, [reg EXCEPT ![r] = from], var, live)
      BY <1>1, <1>3, <1>4, RegGets DEF Ready, u
    <3>2. [reg EXCEPT ![r] = from] = reg
      BY <1>1 DEF Ready, Safe, RegCells
    <3> QED  BY <3>1, <3>2
  <2>8. k \in Knowledge
    BY <1>1 DEF Ready, Safe, State
  <2>9. from.kind = "string" => \A p \in Registers \ {q} : Owns(u.reg[p]) => reg[p].at # from.at
    BY <1>1, <1>4, <2>6 DEF Ready, Safe, Apart
  <2> HIDE DEF k
  <2>10. Safe(Put(u, q, k), [reg EXCEPT ![q] = from], var, live)
    BY <1>1, <1>3, <2>6, <2>7, <2>8, <2>9, RegGets DEF k
  <2> QED  BY <2>3, <2>4, <2>5, <2>10, Kept
<1> QED  BY <1>5, <1>6

(* What an instruction finds in a register it may use.                     *)
LEMMA Operand ==
  ASSUME NEW t, Safe(t, reg, var, live), NEW r \in Registers, Usable(t.reg[r])
  PROVE  /\ Deref(reg[r]) \in Cell /\ WellFormed(Deref(reg[r]))
         /\ Deref(reg[r]).kind \notin {"mem", "dead"}
         /\ Deref(reg[r]).kind = "string" =>
              Deref(reg[r]).own = "owned" /\ Deref(reg[r]).at \in live
<1>1. CASE t.reg[r].is = "ref"
  <2> DEFINE x == reg[r].ref
  <2>1. reg[r].kind = "mem" /\ x \in t.vars /\ x \in Variables
    BY <1>1 DEF Safe, Fits, State
  <2>2. Deref(reg[r]) = var[x] /\ var[x].kind # "dead"
    BY <2>1 DEF Deref, Safe
  <2>3. var[x].kind = "string" => var[x].own = "owned" /\ var[x].at \in live
    BY <2>1 DEF Safe, OneOwnerIn
  <2>4. var[x] \in Cell /\ WellFormed(var[x]) /\ var[x].kind # "mem"
    BY <2>1, CellTyped
  <2> QED  BY <2>2, <2>3, <2>4
<1>2. CASE t.reg[r].is # "ref"
  <2>1. Owns(t.reg[r])
    BY <1>2 DEF Usable, Owns, Safe, State, Knowledge
  <2>2. reg[r].kind # "mem" /\ Sole(reg[r], var, live)
    BY <2>1 DEF Safe, Fits
  <2>3. Deref(reg[r]) = reg[r]
    BY <2>2 DEF Deref
  <2>4. reg[r] \in Cell /\ WellFormed(reg[r]) /\ reg[r].kind # "dead"
    BY CellTyped
  <2> QED  BY <2>2, <2>3, <2>4 DEF Sole
<1> QED  BY <1>1, <1>2

(* A register in use is deleted.                                           *)
LEMMA OperandDeleted ==
  ASSUME NEW t, Safe(t, reg, var, live), NEW r \in Registers, Usable(t.reg[r])
  PROVE  /\ Freed({reg[r]}) \subseteq live
         /\ Safe(Put(t, r, Unknown), [reg EXCEPT ![r] = Deleted(reg[r])],
                 var, live \ Freed({reg[r]}))
<1> DEFINE u == Put(t, r, Unknown)
           D == Freed({reg[r]})
           d == Deleted(reg[r])
           g == [reg EXCEPT ![r] = d]
<1>1. Unknown \in Knowledge /\ ~Owns(Unknown) /\ Fits(Unknown, d, var, live, t.vars)
  BY UnknownTyped DEF Unknown, Known, Owns, Fits
<1>2. D = IF OwnsText(reg[r]) THEN {reg[r].at} ELSE {}
  BY DEF Freed, Strings, OwnsText
<1>3. OwnsText(reg[r]) => Owns(t.reg[r]) /\ Sole(reg[r], var, live)
  <2>1. OwnsText(reg[r]) => Owns(t.reg[r])
    BY DEF OwnsText, Usable, Owns, Safe, Fits, State, Knowledge
  <2> QED  BY <2>1 DEF Safe, Fits
<1>4. d \in Cell /\ WellFormed(d) /\ d.kind # "dead"
  BY CellTyped, DeletedTyped
<1>5. /\ u.reg[r] = Unknown /\ \A p \in Registers \ {r} : u.reg[p] = t.reg[p]
      /\ \A p \in Registers \ {r} : g[p] = reg[p]
  BY <1>1, PutTyped DEF Safe, RegCells
<1> HIDE DEF d, D
<1>6. Safe(u, g, var, live)
  BY <1>1, <1>4, RegGets
<1> HIDE DEF u, g
<1>7. \A x \in Variables : var[x].kind = "string" => var[x].at \notin D
  BY <1>2, <1>3 DEF Sole, OwnsText
<1>8. ASSUME NEW p \in Registers, Owns(u.reg[p]), g[p].kind = "string"
      PROVE  g[p].at \notin D
  <2>1. p # r /\ Owns(t.reg[p]) /\ g[p] = reg[p]
    BY <1>1, <1>5, <1>8
  <2> QED  BY <1>2, <1>3, <1>8, <2>1 DEF OwnsText, Safe, Apart
<1>9. Safe(u, g, var, live \ D)
  BY <1>6, <1>7, <1>8, Frees
<1>10. D \subseteq live
  BY <1>2, <1>3 DEF Sole, OwnsText
<1> QED  BY <1>9, <1>10 DEF u, g, d, D

(* What a sum may leave: l, a new string, or a number.                     *)
Result(l, c, new) ==
  \/ c = l /\ new = {}
  \/ c = Text(Fresh) /\ new = {Fresh}
  \/ c \in Cell /\ WellFormed(c) /\ c.kind \in Numeric /\ new = {}

LEMMA SumTyped ==
  ASSUME NEW l \in Cell, NEW r \in Cell, WellFormed(l), WellFormed(r),
         l.kind \in Numeric, r.kind \in Numeric
  PROVE  Sum(l, r) \in Cell /\ WellFormed(Sum(l, r)) /\ Sum(l, r).kind \in Numeric
<1>1. l.n \in Nat /\ r.n \in Nat /\ l.n + r.n \in Nat
  BY DEF Cell
<1>2. HigherKind(l.kind, r.kind) \in {"float", "int"}
  BY DEF HigherKind
<1>3. Sum(l, r) \in {l, [l EXCEPT !.kind = r.kind, !.n = r.n],
                     [l EXCEPT !.kind = HigherKind(l.kind, r.kind), !.n = l.n + r.n]}
  BY DEF Sum
<1>4. [l EXCEPT !.kind = r.kind, !.n = r.n] \in Cell
  BY <1>1 DEF Cell
<1>5. [l EXCEPT !.kind = HigherKind(l.kind, r.kind), !.n = l.n + r.n] \in Cell
  BY <1>1, <1>2 DEF Cell, Kinds
<1>6. /\ WellFormed([l EXCEPT !.kind = r.kind, !.n = r.n])
      /\ [l EXCEPT !.kind = r.kind, !.n = r.n].kind \in Numeric
  BY <1>4 DEF WellFormed, Numeric, Cell
<1>7. /\ WellFormed([l EXCEPT !.kind = HigherKind(l.kind, r.kind), !.n = l.n + r.n])
      /\ [l EXCEPT !.kind = HigherKind(l.kind, r.kind), !.n = l.n + r.n].kind \in Numeric
  BY <1>2, <1>5 DEF WellFormed, Numeric, Cell
<1> QED  BY <1>3, <1>4, <1>5, <1>6, <1>7

LEMMA AddLeaves ==
  ASSUME NEW t, Ready(t), Add
  PROVE  LET dst == reg[i.r1]
             l == Deref(dst)
         IN  \E c, new :
               /\ Result(l, c, new)
               /\ reg' = [p \in Registers |-> IF p = i.r2 THEN Deleted(reg[p])
                            ELSE IF p = i.r1 /\ dst.kind # "mem" THEN c ELSE reg[p]]
               /\ var' = IF dst.kind = "mem" THEN [var EXCEPT ![dst.ref] = c] ELSE var
               /\ live' = (live \ Freed({reg[i.r2]})) \cup new
<1> DEFINE dst == reg[i.r1]
           l == Deref(dst)
           r == Deref(reg[i.r2])
           gone == Freed({reg[i.r2]})
           Reg(c) == [p \in Registers |-> IF p = i.r2 THEN Deleted(reg[p])
                        ELSE IF p = i.r1 /\ dst.kind # "mem" THEN c ELSE reg[p]]
           Var(c) == IF dst.kind = "mem" THEN [var EXCEPT ![dst.ref] = c] ELSE var
<1>1. /\ l \in Cell /\ WellFormed(l) /\ r \in Cell /\ WellFormed(r)
  BY Operand DEF Ready, Allowed, Add, Executes
<1>2. \/ reg' = Reg(l) /\ var' = Var(l) /\ heap' = Without(gone)
      \/ /\ l.kind \in Numeric /\ r.kind \in Numeric
         /\ reg' = Reg(Sum(l, r)) /\ var' = Var(Sum(l, r)) /\ heap' = Without(gone)
      \/ /\ reg' = Reg(l) /\ var' = Var(l)
         /\ heap' = [o \in live \ gone |-> IF o = l.at THEN heap[o] \o TextOf(r) ELSE heap[o]]
      \/ /\ reg' = Reg(Text(Fresh)) /\ var' = Var(Text(Fresh))
         /\ heap' = [o \in (live \ gone) \cup {Fresh} |->
                       IF o = Fresh THEN Joined(l, r) ELSE heap[o]]
  BY DEF Add, AddFrees
<1>3. l.kind \in Numeric /\ r.kind \in Numeric => Result(l, Sum(l, r), {})
  BY <1>1, SumTyped DEF Result
<1>4. Result(l, l, {}) /\ Result(l, Text(Fresh), {Fresh})
  BY DEF Result
<1> HIDE DEF l, r, gone, dst
<1>5. \E c, new : /\ Result(l, c, new)
                  /\ reg' = Reg(c) /\ var' = Var(c) /\ live' = (live \ gone) \cup new
  <2>1. CASE reg' = Reg(l) /\ var' = Var(l) /\ heap' = Without(gone)
    <3>1. live' = (live \ gone) \cup {}
      BY <2>1 DEF Without, live
    <3> QED  BY <1>4, <2>1, <3>1
  <2>2. CASE /\ l.kind \in Numeric /\ r.kind \in Numeric
             /\ reg' = Reg(Sum(l, r)) /\ var' = Var(Sum(l, r)) /\ heap' = Without(gone)
    <3>1. live' = (live \ gone) \cup {}
      BY <2>2 DEF Without, live
    <3> QED  BY <1>3, <2>2, <3>1
  <2>3. CASE /\ reg' = Reg(l) /\ var' = Var(l)
             /\ heap' = [o \in live \ gone |-> IF o = l.at THEN heap[o] \o TextOf(r) ELSE heap[o]]
    <3>1. live' = (live \ gone) \cup {}
      BY <2>3 DEF live
    <3> QED  BY <1>4, <2>3, <3>1
  <2>4. CASE /\ reg' = Reg(Text(Fresh)) /\ var' = Var(Text(Fresh))
             /\ heap' = [o \in (live \ gone) \cup {Fresh} |->
                           IF o = Fresh THEN Joined(l, r) ELSE heap[o]]
    <3>1. live' = (live \ gone) \cup {Fresh}
      BY <2>4 DEF live
    <3> QED  BY <1>4, <2>4, <3>1
  <2> QED  BY <1>2, <2>1, <2>2, <2>3, <2>4
<1> QED  BY <1>5 DEF l, dst, gone

LEMMA AddKeeps == ASSUME NEW t, Ready(t), Add PROVE Keeps(After(t, i))
<1> DEFINE q == i.r1
           r == i.r2
           l == Deref(reg[q])
           x == reg[q].ref
           D == Freed({reg[r]})
           d == Deleted(reg[r])
           g == [reg EXCEPT ![r] = d]
           u == Put(t, r, Unknown)
<1>1. /\ q \in Registers /\ r \in Registers /\ q # r
      /\ Usable(t.reg[q]) /\ Usable(t.reg[r]) /\ Safe(t, reg, var, live)
  BY DEF Ready, Allowed, Add, Executes
<1>2. /\ l \in Cell /\ WellFormed(l) /\ l.kind \notin {"mem", "dead"}
      /\ l.kind = "string" => l.own = "owned" /\ l.at \in live
  BY <1>1, Operand
<1>3. fault' = "none"
  <2>1. /\ Deref(reg[r]).kind # "dead"
        /\ Deref(reg[r]).kind = "string" => Deref(reg[r]).at \in live
    BY <1>1, Operand
  <2>2. Uses({l, Deref(reg[r])})
    BY DEF Add
  <2>3. Strings({l, Deref(reg[r])}) \subseteq live
    BY <1>2, <2>1 DEF Strings
  <2> QED  BY <1>2, <2>1, <2>2, <2>3 DEF Uses, Ready
<1>4. PICK c, new :
        /\ Result(l, c, new)
        /\ reg' = [p \in Registers |-> IF p = r THEN Deleted(reg[p])
                     ELSE IF p = q /\ reg[q].kind # "mem" THEN c ELSE reg[p]]
        /\ var' = IF reg[q].kind = "mem" THEN [var EXCEPT ![x] = c] ELSE var
        /\ live' = (live \ D) \cup new
  BY AddLeaves
<1>5. Safe(u, g, var, live \ D)
  BY <1>1, OperandDeleted
<1>6. /\ u \in State /\ u.vars = t.vars /\ u.reg[r] = Unknown /\ ~Owns(Unknown)
      /\ \A p \in Registers \ {r} : u.reg[p] = t.reg[p]
      /\ \A p \in Registers \ {r} : g[p] = reg[p]
  BY <1>1, UnknownTyped, PutTyped DEF Safe, RegCells, Unknown, Known, Owns
<1>7. /\ Fresh \in Objects
      /\ \A p \in Registers : reg[p].at # Fresh
      /\ \A y \in Variables : var[y].at # Fresh
  BY <1>1, FreshTyped
<1>8. /\ c \in Cell /\ WellFormed(c) /\ c.kind \notin {"mem", "dead"}
      /\ c.kind = "string" => \/ c = l /\ new = {}
                              \/ c.at = Fresh /\ c.own = "owned" /\ new = {Fresh}
      /\ new = {} \/ new = {Fresh}
  BY <1>2, <1>4, <1>7, TextTyped DEF Result, Numeric
<1> DEFINE L == (live \ D) \cup new
<1>9. Safe(u, g, var, L)
  <2>1. CASE new = {}
    <3>1. L = live \ D
      BY <2>1
    <3> HIDE DEF L
    <3> QED  BY <1>5, <3>1
  <2>2. CASE new = {Fresh}
    <3> DEFINE M == live \ D
    <3>1. L = M \cup {Fresh}
      BY <2>2
    <3> HIDE DEF L, M
    <3>2. Safe(u, g, var, M)
      BY <1>5 DEF M
    <3> QED  BY <1>7, <3>1, <3>2, Grows
  <2> QED  BY <1>8, <2>1, <2>2
<1>10. i.op = "ADD"
  BY DEF Add, Executes
<1>11. CASE t.reg[q].is = "ref"
  <2>1. reg[q].kind = "mem" /\ x \in t.vars /\ x \in Variables /\ l = var[x]
    BY <1>1, <1>11 DEF Safe, Fits, State, Deref
  <2>2. After(t, i) = u
    BY <1>10, <1>11 DEF After
  <2>3. reg' = g /\ var' = [var EXCEPT ![x] = c]
    BY <1>1, <1>4, <2>1 DEF Safe, RegCells
  <2> HIDE DEF l, x, D, d, g, u, L
  <2>4. ASSUME c.kind = "string"
        PROVE  /\ c.own = "owned" /\ c.at \in L
               /\ \A y \in Variables \ {x} : var[y].at # c.at
               /\ \A p \in Registers : Owns(u.reg[p]) => g[p].at # c.at
    <3>1. CASE c = l /\ new = {}
      <4>1. /\ c.own = "owned" /\ c.at \in L
            /\ \A y \in Variables \ {x} : var[y].at # c.at
        BY <1>9, <2>1, <2>4, <3>1 DEF Safe, OneOwnerIn
      <4>2. c.at # 0
        BY <1>8, <2>4 DEF WellFormed
      <4>3. ASSUME NEW p \in Registers, Owns(u.reg[p]) PROVE g[p].at # c.at
        <5>1. Sole(g[p], var, L) /\ WellFormed(g[p])
          BY <1>9, <4>3, CellTyped DEF Safe, Fits
        <5> QED  BY <2>1, <3>1, <4>2, <5>1 DEF Sole, WellFormed
      <4> QED  BY <4>1, <4>3
    <3>2. CASE c.at = Fresh /\ c.own = "owned" /\ new = {Fresh}
      BY <1>6, <1>7, <3>2 DEF L
    <3> QED  BY <1>8, <2>4, <3>1, <3>2
  <2>5. Safe(u, g, [var EXCEPT ![x] = c], L)
    BY <1>8, <1>9, <2>1, <2>4, VarGets
  <2> QED  BY <1>3, <1>4, <2>2, <2>3, <2>5, Kept DEF L
<1>12. CASE t.reg[q].is # "ref"
  <2>1. Owns(t.reg[q])
    BY <1>1, <1>12 DEF Usable, Owns, Safe, State, Knowledge
  <2>2. reg[q].kind # "mem" /\ l = reg[q]
    BY <1>1, <2>1 DEF Safe, Fits, Deref
  <2>3. After(t, i) = Put(Put(t, q, Own), r, Unknown)
    BY <1>10, <1>12 DEF After
  <2>4. Put(Put(t, q, Own), r, Unknown) = Put(u, q, Own)
    BY <1>1 DEF Put, Safe, State
  <2>5. reg' = [g EXCEPT ![q] = c] /\ var' = var
    BY <1>1, <1>4, <2>2 DEF Safe, RegCells
  <2>6. Own \in Knowledge /\ Own.is = "own"
    BY UnknownTyped DEF Own, Known
  <2> HIDE DEF l, x, D, d, g, u, L
  <2>7. ASSUME c.kind = "string"
        PROVE  /\ c.own = "owned" /\ c.at \in L
               /\ \A y \in Variables : var[y].at # c.at
               /\ \A p \in Registers \ {q} : Owns(u.reg[p]) => g[p].at # c.at
    <3>1. CASE c = l /\ new = {}
      <4>1. g[q] = c /\ Owns(u.reg[q])
        BY <1>1, <1>6, <2>1, <2>2, <3>1
      <4>2. Sole(c, var, L)
        BY <1>1, <1>9, <4>1 DEF Safe, Fits
      <4>3. \A p \in Registers \ {q} : Owns(u.reg[p]) => g[p].at # c.at
        BY <1>1, <1>9, <2>7, <4>1 DEF Safe, Apart
      <4> QED  BY <2>7, <4>2, <4>3 DEF Sole
    <3>2. CASE c.at = Fresh /\ c.own = "owned" /\ new = {Fresh}
      BY <1>6, <1>7, <3>2 DEF L
    <3> QED  BY <1>8, <2>7, <3>1, <3>2
  <2>8. Fits(Own, c, var, L, u.vars)
    BY <1>8, <2>6, <2>7 DEF Fits, Sole
  <2>9. Safe(Put(u, q, Own), [g EXCEPT ![q] = c], var, L)
    BY <1>1, <1>8, <1>9, <2>6, <2>7, <2>8, RegGets
  <2> QED  BY <1>3, <1>4, <2>3, <2>4, <2>5, <2>9, Kept DEF L
<1> QED  BY <1>11, <1>12

LEMMA DeleteKeeps == ASSUME NEW t, Ready(t), DeleteResult PROVE Keeps(After(t, i))
<1>1. Usable(t.reg[RetReg]) /\ RetReg \in Registers /\ After(t, i) = Put(t, RetReg, Unknown)
  BY RegistersAssumption DEF Ready, Allowed, After, DeleteResult, Executes, Owns, Usable
<1> DEFINE D == Freed({reg[RetReg]})
<1>2. /\ D \subseteq live
      /\ Safe(Put(t, RetReg, Unknown), [reg EXCEPT ![RetReg] = Deleted(reg[RetReg])],
              var, live \ D)
  BY <1>1, OperandDeleted DEF Ready
<1>3. /\ reg' = [reg EXCEPT ![RetReg] = Deleted(reg[RetReg])] /\ var' = var
      /\ heap' = Without(D) /\ fault' = "none"
  BY <1>2 DEF DeleteResult, SetReg, Ready
<1> HIDE DEF D
<1>4. live' = live \ D
  BY <1>3 DEF Without, live
<1> QED  BY <1>1, <1>2, <1>3, <1>4, Kept

(* A call that fails leaves nothing known: the program stops.              *)
LEMMA CallFails ==
  ASSUME NEW t, Safe(t, reg, var, live), NEW k \in Nat,
         \A r \in Registers : r < k => Usable(t.reg[r]),
         DeleteRegs(k, None)
  PROVE  Safe(Nothing, reg', var', live')
<1> DEFINE D == Freed({reg[r] : r \in {q \in Registers : q < k}})
<1>1. \A x \in Variables : var[x].kind = "string" => var[x].at \notin D
  BY RegsFreed
<1>2. \A r \in Registers : ~Owns(Nothing.reg[r])
  BY DEF Nothing, Owns, Unknown, Known
<1> HIDE DEF D
<1>3. Safe(Nothing, reg, var, live \ D)
  <2>1. Safe(Nothing, reg, var, live)
    BY Forget
  <2> QED  BY <1>1, <1>2, <2>1, Frees
<1>4. /\ reg' = [r \in Registers |-> IF r < k THEN Deleted(reg[r]) ELSE reg[r]]
      /\ heap' = Without(D) /\ var' = var
  BY DEF DeleteRegs, D
<1>5. reg' \in RegCells
  <2>1. \A r \in Registers : /\ reg[r] \in Cell /\ WellFormed(reg[r]) /\ reg[r].kind # "dead"
                            /\ Deleted(reg[r]) \in Cell /\ WellFormed(Deleted(reg[r]))
                            /\ Deleted(reg[r]).kind # "dead"
    BY CellTyped, DeletedTyped
  <2> QED  BY <1>4, <2>1 DEF RegCells
<1>6. \A r \in Registers : Fits(Nothing.reg[r], reg'[r], var, live \ D, Nothing.vars)
  BY DEF Nothing, Fits, Owns, Unknown, Known
<1>7. live' = live \ D
  BY <1>4 DEF Without, live
<1>8. Safe(Nothing, reg', var, live \ D)
  BY <1>2, <1>3, <1>5, <1>6 DEF Safe, Apart
<1> QED  BY <1>4, <1>7, <1>8

LEMMA SystemCallKeeps == ASSUME NEW t, Ready(t), SystemCall PROVE Keeps(After(t, i))
<1> DEFINE n == t.reg[1].of
           k == i.r1
<1>1. /\ Safe(t, reg, var, live) /\ k \in Nat /\ i.op = "SYSTEM_CALL"
      /\ CallAllowed(t, k) /\ fault = "none"
  BY DEF Ready, Allowed, SystemCall, Executes, Instruction
<1>2. n \in 1..3 /\ reg[1].n = n /\ reg[1].kind = "int" /\ Usable(t.reg[1])
  BY <1>1, RegistersAssumption DEF CallAllowed, Safe, Fits, Usable
<1>3. After(t, i) = Called(t, ArgCount[n])
  BY <1>1 DEF After
<1>4. /\ 1 \in Registers /\ 2 \in Registers /\ 3 \in Registers /\ RetReg \in Registers
      /\ \A r \in Registers : r \in Nat /\ r >= 1
  BY RegistersAssumption DEF RetReg
<1>5. k # ArgCount[n] => \A r \in Registers : r < k => Usable(t.reg[r])
  BY <1>1 DEF CallAllowed
<1>6. k = ArgCount[n] =>
        \A r \in Registers : r <= k => Usable(t.reg[r])
  BY <1>1, <1>2, <1>4 DEF CallAllowed
<1>7. ArgCount[1] = 3 /\ ArgCount[2] = 2 /\ ArgCount[3] = 2
  BY DEF ArgCount
<1>8. CASE WrongCount
  <2>1. /\ err' = "failed" /\ DeleteRegs(k, None) /\ k # ArgCount[n]
    BY <1>2, <1>8 DEF WrongCount, Fails
  <2>2. Safe(Nothing, reg', var', live')
    BY <1>1, <1>5, <2>1, CallFails
  <2> DEFINE D == Freed({reg[r] : r \in {q \in Registers : q < k}})
  <2>3. /\ D \subseteq live
        /\ \A q, r \in Registers : q < r /\ r < k => Freed({reg[q]}) \cap Freed({reg[r]}) = {}
    BY <1>1, <1>5, <2>1, RegsFreed
  <2>4. fault' = "none"
    BY <1>1, <1>8, <2>3 DEF WrongCount
  <2> QED  BY <2>1, <2>2, <2>4 DEF Keeps
<1>9. CASE NoStream(1) \/ NoStream(2)
  <2>1. err' = "failed" /\ reg' = reg /\ var' = var /\ live' = live /\ fault' = "none"
    BY <1>1, <1>9 DEF NoStream, Fails, live
  <2> QED  BY <1>1, <2>1, Forget DEF Keeps
<1>10. CASE Write
  <2> DEFINE D == Freed({reg[r] : r \in {q \in Registers : q < 3}})
             c == Value("const", "int", 0)
             what == Deref(reg[3])
  <2>1. n = 1 /\ k = 3
    BY <1>2, <1>7, <1>10 DEF Write
  <2>2. /\ what.kind \notin {"mem", "dead"}
        /\ what.kind = "string" => what.at \in live
    BY <1>1, <1>4, <1>6, <1>7, <2>1, Operand
  <2>3. Strings({what}) \subseteq live
    BY <2>2 DEF Strings
  <2>4. fault' = "none"
    <3>1. Uses({what})
      BY <1>10 DEF Write
    <3> HIDE DEF what
    <3> QED  BY <1>1, <2>2, <2>3, <3>1 DEF Uses
  <2>5. c \in Cell /\ WellFormed(c) /\ c.kind = "int" /\ c # None
    BY ValueTyped, NoneAssumption DEF Kinds
  <2> HIDE DEF c
  <2>6. /\ reg' = [r \in Registers |-> IF r = RetReg THEN c
                                      ELSE IF r < 3 THEN Deleted(reg[r]) ELSE reg[r]]
        /\ heap' = Without(D) /\ var' = var
    BY <1>10, <2>5 DEF Write, DeleteRegs, c
  <2>7. \A r \in Registers : r < 3 => Usable(t.reg[r])
    BY <1>4, <1>6, <1>7, <2>1
  <2>8. 3 \in Nat /\ 3 <= RetReg
    BY DEF RetReg
  <2> HIDE DEF what, n, k
  <2>9. Safe(Called(t, 3), reg', var, live \ D)
    BY <1>1, <2>5, <2>6, <2>7, <2>8, CallDeletes
  <2> HIDE DEF D
  <2>10. live' = live \ D
    BY <2>6 DEF Without, live
  <2> QED  BY <1>3, <1>7, <2>1, <2>4, <2>6, <2>9, <2>10, Kept
<1>11. CASE Read
  <2> DEFINE u == Put(t, RetReg, Own)
             g == [reg EXCEPT ![RetReg] = Text(Fresh)]
             d == Deleted(reg[1])
  <2>1. n = 2
    BY <1>2, <1>11 DEF Read
  <2>2. /\ reg' = [r \in Registers |-> IF r = RetReg THEN Text(Fresh)
                                      ELSE IF r < 2 THEN Deleted(reg[r]) ELSE reg[r]]
        /\ live' = live \cup {Fresh} /\ var' = var /\ fault' = "none"
    BY <1>1, <1>11 DEF Read, With, live
  <2>3. Safe(u, g, var, live \cup {Fresh})
    BY <1>1, <1>4, TextPut
  <2>4. d \in Cell /\ WellFormed(d) /\ d.kind # "dead"
    BY <1>1, <1>4, CellTyped, DeletedTyped
  <2>5. Unknown \in Knowledge /\ ~Owns(Unknown)
        /\ \A c, L, vs : Fits(Unknown, c, var, L, vs)
    BY UnknownTyped DEF Unknown, Known, Owns, Fits
  <2>6. Called(t, 2) = Put(u, 1, Unknown)
    <3>1. \A r \in Registers : r < 2 <=> r = 1
      BY <1>4
    <3>2. 1 # RetReg
      BY DEF RetReg
    <3> QED  BY <1>1, <1>4, <3>1, <3>2 DEF Called, Put, Safe, State
  <2>7. reg' = [g EXCEPT ![1] = d]
    <3>1. \A r \in Registers : r < 2 <=> r = 1
      BY <1>4
    <3>2. 1 # RetReg
      BY DEF RetReg
    <3>3. reg' = [r \in Registers |-> IF r = RetReg THEN Text(Fresh)
                                      ELSE IF r = 1 THEN d ELSE reg[r]]
      BY <2>2, <3>1
    <3> HIDE DEF d
    <3> QED  BY <1>1, <1>4, <3>2, <3>3 DEF Safe, RegCells
  <2> DEFINE L == live \cup {Fresh}
  <2> HIDE DEF u, g, d, L
  <2>8. Safe(u, g, var, L)
    BY <2>3 DEF L
  <2>9. Safe(Put(u, 1, Unknown), [g EXCEPT ![1] = d], var, L)
    BY <1>4, <2>4, <2>5, <2>8, RegGets
  <2> QED  BY <1>3, <1>7, <2>1, <2>2, <2>6, <2>7, <2>9, Kept DEF L
<1>12. CASE Open
  <2> DEFINE D == Freed({reg[r] : r \in {q \in Registers : q < 2}})
  <2>1. n = 3 /\ k = 2 /\ fault' = "none"
    BY <1>1, <1>2, <1>7, <1>12 DEF Open
  <2>2. \A r \in Registers : r < 2 => Usable(t.reg[r])
    BY <1>4, <1>6, <1>7, <2>1
  <2>3. CASE err' = "failed" /\ DeleteRegs(2, None)
    <3>1. Safe(Nothing, reg', var', live')
      BY <1>1, <2>2, <2>3, CallFails
    <3> QED  BY <2>1, <2>3, <3>1 DEF Keeps
  <2>4. ASSUME NEW f \in Streams, DeleteRegs(2, Value("const", "obj", f))
        PROVE  Keeps(After(t, i))
    <3> DEFINE c == Value("const", "obj", f)
    <3>1. f \in Nat
      BY DEF Streams
    <3>2. c \in Cell /\ WellFormed(c) /\ c.kind = "obj" /\ c # None
      BY <3>1, ValueTyped, NoneAssumption DEF Kinds
    <3>3. DeleteRegs(2, c)
      BY <2>4
    <3> HIDE DEF c
    <3>4. /\ reg' = [r \in Registers |-> IF r = RetReg THEN c
                                        ELSE IF r < 2 THEN Deleted(reg[r]) ELSE reg[r]]
          /\ heap' = Without(D) /\ var' = var
      BY <3>2, <3>3 DEF DeleteRegs
    <3>5. 2 \in Nat /\ 2 <= RetReg
      BY DEF RetReg
    <3>6. Safe(Called(t, 2), reg', var, live \ D)
      BY <1>1, <2>2, <3>2, <3>4, <3>5, CallDeletes
    <3> HIDE DEF D
    <3>7. live' = live \ D
      BY <3>4 DEF Without, live
    <3> QED  BY <1>3, <1>7, <2>1, <3>4, <3>6, <3>7, Kept
  <2> QED  BY <1>12, <2>3, <2>4 DEF Open, Fails, Streamed
<1> QED  BY <1>8, <1>9, <1>10, <1>11, <1>12 DEF SystemCall

LEMMA ExecuteKeeps == ASSUME NEW t, Ready(t), Execute PROVE Keeps(After(t, i))
BY ImovKeeps, FmovKeeps, SmovKeeps, AllocKeeps, MovKeeps, MmovKeeps, RmovKeeps, AddKeeps,
   IgnoredKeeps, SaveKeeps, LoadKeeps, SystemCallKeeps, DeleteKeeps DEF Execute

-----------------------------------------------------------------------------
(* Statements that keep the rules, one after the other.                    *)

AllDisciplined == \A s \in Statements : Disciplined(s)

(* The rest of a statement's code, with what is known before it.           *)
Underway ==
  \E f : \E k \in Nat :
    /\ stmt \in Statements /\ Checks(stmt, f)
    /\ k \in 1..Len(stmt.code) /\ Len(todo) = Len(stmt.code) - k + 1
    /\ \A j \in 1..Len(todo) : todo[j] = stmt.code[k + j - 1]
    /\ Safe(f[k], reg, var, live)

(* Between statements nothing need be known of a register.                 *)
MemInv ==
  /\ fault = "none" /\ err \in {"none", "failed"}
  /\ stmt \in Statements \cup {None} /\ todo \in Seq(Instruction)
  /\ Safe(Nothing, reg, var, live)
  /\ err = "none" /\ todo # <<>> => Underway

LEMMA NothingKnown ==
  /\ Nothing \in State /\ Nothing.vars = {}
  /\ \A r \in Registers : ~Owns(Nothing.reg[r]) /\ Nothing.reg[r].is # "ref"
BY UnknownTyped DEF Nothing, State, Owns, Unknown, Known

LEMMA MemInvInit == Init => MemInv
<1> SUFFICES ASSUME Init PROVE MemInv
  OBVIOUS
<1>1. reg \in RegCells
  BY ValueTyped DEF Init, RegCells, Kinds
<1>2. /\ Dead \in Cell /\ WellFormed(Dead) /\ Dead.kind = "dead"
  BY ValueTyped DEF Dead, Kinds
<1>3. var \in VarCells /\ \A x \in Variables : var[x].kind = "dead"
  BY <1>2 DEF Init, VarCells
<1>4. live = {}
  BY DEF Init, live
<1>5. OneOwnerIn(var, live)
  BY <1>3 DEF OneOwnerIn
<1>6. \A r \in Registers : Fits(Nothing.reg[r], reg[r], var, live, Nothing.vars)
  BY NothingKnown DEF Fits, Owns
<1>7. Safe(Nothing, reg, var, live)
  BY <1>1, <1>3, <1>4, <1>5, <1>6, NothingKnown DEF Safe, Apart
<1> QED  BY <1>7 DEF Init, MemInv

LEMMA BeginKeeps ==
  ASSUME MemInv, AllDisciplined, NEW s \in Statements, Begin(s)
  PROVE  MemInv'
<1>1. /\ s.code \in Seq(Instruction) /\ s.uses \subseteq Variables
      /\ \A x \in s.uses : var[x].kind # "dead"
  BY StatementsAssumption DEF Begin, Allocated
<1>2. PICK f : Checks(s, f)
  BY DEF AllDisciplined, Disciplined
<1>3. f[1] = Start(s)
  BY <1>2 DEF Checks
<1>4. /\ Start(s).vars = s.uses /\ Start(s).reg = Nothing.reg /\ Start(s) \in State
  BY <1>1, UnknownTyped DEF Start, Nothing, State
<1>5. Safe(Nothing, reg, var, live)
  BY DEF MemInv
<1>6. \A r \in Registers : Fits(Start(s).reg[r], reg[r], var, live, Start(s).vars)
  BY <1>4, NothingKnown DEF Fits, Owns
<1>7. Safe(Start(s), reg, var, live)
  BY <1>1, <1>4, <1>5, <1>6 DEF Safe, Apart
<1>8. /\ stmt' = s /\ todo' = s.code /\ reg' = reg /\ var' = var /\ live' = live
      /\ fault' = fault /\ err' = err
  BY DEF Begin, live
<1>9. todo' # <<>> => Underway'
  <2> SUFFICES ASSUME todo' # <<>> PROVE Underway'
    OBVIOUS
  <2>1. Len(s.code) \in Nat /\ 1 \in 1..Len(s.code)
    BY <1>1, <1>8
  <2>2. /\ stmt' \in Statements /\ Checks(stmt', f) /\ 1 \in Nat
        /\ 1 \in 1..Len(stmt'.code) /\ Len(todo') = Len(stmt'.code) - 1 + 1
        /\ \A j \in 1..Len(todo') : todo'[j] = stmt'.code[1 + j - 1]
        /\ Safe(f[1], reg', var', live')
    BY <1>2, <1>3, <1>7, <1>8, <2>1
  <2> QED  BY <2>2 DEF Underway
<1> QED  BY <1>1, <1>5, <1>8, <1>9 DEF MemInv

LEMMA LeaveKeeps == ASSUME MemInv, LeaveSection PROVE MemInv'
<1> DEFINE mine == {x \in Locals : Allocated(x)}
           D == Freed({var[x] : x \in mine})
<1>1. Safe(Nothing, reg, var, live)
  BY DEF MemInv
<1>2. \A x \in mine : x \in Variables
  BY DEF Variables
<1>3. \A o \in D : \E x \in mine : OwnsText(var[x]) /\ var[x].at = o
  BY DEF Freed, Strings
<1>4. D \subseteq live
  BY <1>1, <1>2, <1>3 DEF Safe, OneOwnerIn, OwnsText
<1>5. \A x, y \in mine : x # y => Freed({var[x]}) \cap Freed({var[y]}) = {}
  BY <1>1, <1>2 DEF Freed, Strings, OwnsText, Safe, OneOwnerIn
<1>6. /\ var' = [x \in Variables |-> IF x \in mine THEN Dead ELSE var[x]]
      /\ heap' = Without(D) /\ reg' = reg /\ err' = err /\ stmt' = None /\ todo' = todo
      /\ todo = <<>>
  BY DEF LeaveSection
<1>7. fault' = "none"
  BY <1>4, <1>5 DEF LeaveSection, MemInv
<1> HIDE DEF mine, D
<1>8. live' = live \ D
  BY <1>6 DEF Without, live
<1>9. Dead \in Cell /\ WellFormed(Dead) /\ Dead.kind = "dead" /\ Dead.at = 0
  <2>1. Dead \in Cell /\ WellFormed(Dead) /\ Dead.kind = "dead"
    BY ValueTyped DEF Dead, Kinds
  <2> QED  BY <2>1 DEF WellFormed
<1>10. var' \in VarCells
  BY <1>1, <1>6, <1>9 DEF Safe, VarCells
<1>11. OneOwnerIn(var', live \ D)
  <2> SUFFICES ASSUME NEW y \in Variables, var'[y].kind = "string"
               PROVE  /\ var'[y].own = "owned" /\ var'[y].at \in live \ D
                      /\ \A z \in Variables \ {y} : var'[z].at # var'[y].at
    BY DEF OneOwnerIn
  <2>1. y \notin mine /\ var'[y] = var[y]
    BY <1>6, <1>9
  <2>2. /\ var[y].own = "owned" /\ var[y].at \in live
        /\ \A z \in Variables \ {y} : var[z].at # var[y].at
    BY <1>1, <2>1 DEF Safe, OneOwnerIn
  <2>3. var[y].at \notin D
    BY <1>2, <1>3, <2>1, <2>2
  <2>4. var[y].at # 0
    BY <1>1, <2>1, CellTyped DEF WellFormed
  <2>5. \A z \in Variables : var'[z].at \in {0, var[z].at}
    BY <1>6, <1>9
  <2> QED  BY <2>1, <2>2, <2>3, <2>4, <2>5
<1>12. \A r \in Registers : Fits(Nothing.reg[r], reg[r], var', live \ D, Nothing.vars)
  BY NothingKnown DEF Fits, Owns
<1>13. live \ D \subseteq Objects
  BY <1>1 DEF Safe
<1>14. Safe(Nothing, reg', var', live')
  BY <1>1, <1>6, <1>8, <1>10, <1>11, <1>12, <1>13, NothingKnown DEF Safe, Apart
<1> QED  BY <1>6, <1>7, <1>14 DEF MemInv

LEMMA ErrTyped == ASSUME err \in {"none", "failed"}, Execute PROVE err' \in {"none", "failed"}
<1>1. CASE Imov \/ Fmov \/ Bmov \/ Smov \/ Alloc \/ Mov \/ Mmov \/ Rmov \/ Ignored
  BY <1>1 DEF Imov, Fmov, Bmov, Smov, Alloc, Mov, Mmov, Rmov, Ignored
<1>2. CASE Add \/ Save \/ Load \/ DeleteResult
  BY <1>2 DEF Add, Save, Load, DeleteResult, Fails
<1>3. CASE SystemCall
  BY <1>3 DEF SystemCall, WrongCount, NoStream, Write, Read, Open, Fails
<1> QED  BY <1>1, <1>2, <1>3 DEF Execute

LEMMA ExecuteKeepsInv == ASSUME MemInv, Execute PROVE MemInv'
<1>1. /\ err = "none" /\ fault = "none" /\ todo # <<>>
      /\ todo' = Tail(todo) /\ stmt' = stmt
  BY DEF Execute, Imov, Fmov, Bmov, Smov, Alloc, Mov, Mmov, Rmov, Add, Ignored, Save, Load,
         SystemCall, DeleteResult, Executes
<1>2. /\ todo \in Seq(Instruction) /\ Len(todo) \in Nat /\ Len(todo) >= 1
      /\ i \in Instruction /\ i = todo[1]
      /\ todo' \in Seq(Instruction) /\ Len(todo') = Len(todo) - 1
      /\ \A j \in 1..Len(todo') : todo'[j] = todo[j + 1]
  BY <1>1 DEF MemInv, i
<1> DEFINE Point(f, k) ==
             /\ stmt \in Statements /\ Checks(stmt, f)
             /\ k \in 1..Len(stmt.code) /\ Len(todo) = Len(stmt.code) - k + 1
             /\ \A j \in 1..Len(todo) : todo[j] = stmt.code[k + j - 1]
             /\ Safe(f[k], reg, var, live)
<1>3. PICK f : \E k \in Nat : Point(f, k)
  BY <1>1 DEF MemInv, Underway
<1>4. PICK k \in Nat : Point(f, k)
  BY <1>3
<1>5. i = stmt.code[k]
  BY <1>2, <1>4
<1>6. Allowed(f[k], i) /\ f[k + 1] = After(f[k], i)
  BY <1>4, <1>5 DEF Checks
<1>7. Ready(f[k])
  BY <1>1, <1>2, <1>4, <1>6 DEF Ready
<1>8. Keeps(f[k + 1])
  BY <1>6, <1>7, ExecuteKeeps
<1>9. err' = "none" /\ todo' # <<>> => Underway'
  <2> SUFFICES ASSUME err' = "none", todo' # <<>> PROVE Underway'
    OBVIOUS
  <2>1. Len(todo') >= 1 /\ Len(stmt.code) \in Nat
    BY <1>2, <1>4, StatementsAssumption
  <2>2. k + 1 \in 1..Len(stmt.code) /\ Len(todo') = Len(stmt.code) - (k + 1) + 1 /\ k + 1 \in Nat
    BY <1>2, <1>4, <2>1
  <2>3. ASSUME NEW j \in 1..Len(todo') PROVE todo'[j] = stmt.code[(k + 1) + j - 1]
    <3>1. j + 1 \in 1..Len(todo) /\ k + (j + 1) - 1 = (k + 1) + j - 1
      BY <1>2
    <3>2. todo[j + 1] = stmt.code[k + (j + 1) - 1]
      BY <1>4, <3>1
    <3> QED  BY <1>2, <3>1, <3>2
  <2>4. Safe(f[k + 1], reg', var', live')
    BY <1>8 DEF Keeps
  <2> QED  BY <1>1, <1>4, <2>2, <2>3, <2>4 DEF Underway
<1>10. err' \in {"none", "failed"}
  BY ErrTyped DEF MemInv
<1>11. fault' = "none" /\ Safe(Nothing, reg', var', live')
  BY <1>8 DEF Keeps
<1> QED  BY <1>1, <1>2, <1>9, <1>10, <1>11 DEF MemInv

LEMMA MemInvNext == ASSUME AllDisciplined, MemInv, [Next]_vars PROVE MemInv'
<1>1. CASE Next
  BY <1>1, BeginKeeps, LeaveKeeps, ExecuteKeepsInv DEF Next
<1>2. CASE UNCHANGED vars
  BY <1>2 DEF vars, MemInv, Underway, live
<1> QED  BY <1>1, <1>2

LEMMA MemInvariant == ASSUME AllDisciplined PROVE Spec => []MemInv
BY MemInvInit, MemInvNext, PTL DEF Spec

(* Whatever statements follow each other, if each keeps the rules: the     *)
(* registers and variables are well formed,                                *)
THEOREM MemoryTyped == ASSUME AllDisciplined PROVE Spec => []TypeOK
<1>1. MemInv => TypeOK
  BY DEF MemInv, TypeOK, Safe, RegCells, VarCells
<1> QED  BY <1>1, MemInvariant, PTL

(* no instruction reads or frees a string that is freed,                   *)
THEOREM NoStringUsedAfterFree == ASSUME AllDisciplined PROVE Spec => []NoStaleAccess
<1>1. MemInv => NoStaleAccess
  BY DEF MemInv, NoStaleAccess
<1> QED  BY <1>1, MemInvariant, PTL

(* and a variable's string is its own, whatever copies of the pointer are  *)
(* left in registers.                                                      *)
THEOREM EveryStringHasOneOwner == ASSUME AllDisciplined PROVE Spec => []OneOwner
<1>1. MemInv => OneOwner
  BY DEF MemInv, OneOwner, Safe, OneOwnerIn, OwnsText
<1> QED  BY <1>1, MemInvariant, PTL

-----------------------------------------------------------------------------
(* What an instruction leaves alone: the bytes of the variables it does    *)
(* not assign, and the strings they hold.                                  *)

Untouched(x) ==
  /\ var'[x] = var[x]
  /\ var[x].kind = "string" => heap'[var[x].at] = heap[var[x].at]

LEMMA SameMeaning ==
  ASSUME NEW x \in Variables, Untouched(x), OneOwnerIn(var, live), OneOwnerIn(var', live')
  PROVE  Meaning(var[x])' = Meaning(var[x])
<1>1. CASE var[x].kind = "string"
  <2>1. var[x].at \in live /\ var[x].at \in live'
    BY <1>1 DEF Untouched, OneOwnerIn
  <2>2. heap'[var[x].at] = heap[var[x].at] /\ var'[x] = var[x]
    BY <1>1 DEF Untouched
  <2> QED  BY <2>1, <2>2 DEF Meaning, Held
<1>2. CASE var[x].kind # "string"
  BY <1>2 DEF Meaning, Untouched
<1> QED  BY <1>1, <1>2

(* Freeing strings, and filling a new one, leave those of variables alone. *)
LEMMA WithoutLeaves ==
  ASSUME NEW x \in Variables, NEW D, heap' = Without(D), var'[x] = var[x],
         OneOwnerIn(var', live')
  PROVE  Untouched(x)
<1>1. live' = live \ D
  BY DEF Without, live
<1>2. var[x].kind = "string" => var[x].at \in live \ D
  BY <1>1 DEF OneOwnerIn
<1> QED  BY <1>2 DEF Untouched, Without

LEMMA WithLeaves ==
  ASSUME NEW t, Safe(t, reg, var, live), NEW x \in Variables, NEW s,
         heap' = With(Fresh, s), var'[x] = var[x]
  PROVE  Untouched(x)
<1>1. var[x].at # Fresh
  BY FreshTyped
<1>2. var[x].kind = "string" => var[x].at \in live
  BY DEF Safe, OneOwnerIn
<1> QED  BY <1>1, <1>2 DEF Untouched, With

(* Where a register is the address of a variable, that is known.           *)
LEMMA AddressKnown ==
  ASSUME NEW t, Safe(t, reg, var, live), NEW r \in Registers, Usable(t.reg[r]),
         reg[r].kind = "mem"
  PROVE  t.reg[r].is = "ref" /\ reg[r].ref = t.reg[r].of
BY DEF Safe, Fits, Usable, Owns, State, Knowledge

LEMMA RmovLeaves ==
  ASSUME NEW t, Ready(t), Rmov, NEW x \in Variables \ Assigned(t, i), OneOwnerIn(var', live')
  PROVE  Untouched(x)
<1>1. /\ i.op = "RMOV" /\ i.r1 \in Registers /\ Usable(t.reg[i.r1])
      /\ Safe(t, reg, var, live)
  BY DEF Ready, Allowed, Rmov, Executes
<1>2. CASE reg[i.r1].kind = "mem"
  <2>1. t.reg[i.r1].is = "ref" /\ reg[i.r1].ref = t.reg[i.r1].of
    BY <1>1, <1>2, AddressKnown
  <2>2. Assigned(t, i) = {reg[i.r1].ref}
    BY <1>1, <2>1 DEF Assigned
  <2> DEFINE y == reg[i.r1].ref
             D == Freed({var[y]})
  <2>3. heap' = Without(D)
    BY <1>2 DEF Rmov
  <2>4. var'[x] = var[x]
    <3>1. x # y
      BY <2>2
    <3>2. \E c : var' = [[var EXCEPT ![y] = Deleted(var[y])] EXCEPT ![y] = c]
      BY <1>2 DEF Rmov, SetVar
    <3> HIDE DEF y
    <3> QED  BY <3>1, <3>2, <1>1 DEF Safe, VarCells
  <2> HIDE DEF D
  <2> QED  BY <2>3, <2>4, WithoutLeaves
<1>3. CASE reg[i.r1].kind # "mem"
  BY <1>3 DEF Rmov, Untouched
<1> QED  BY <1>2, <1>3

(* ADD appends where the left string is: in the variable it assigns, or in *)
(* a register that shares it with none.                                    *)
LEMMA AddLeavesAlone ==
  ASSUME NEW t, Ready(t), Add, NEW x \in Variables \ Assigned(t, i), OneOwnerIn(var', live')
  PROVE  Untouched(x)
<1> DEFINE dst == reg[i.r1]
           l == Deref(dst)
           r == Deref(reg[i.r2])
           gone == Freed({reg[i.r2]})
           Var(c) == IF dst.kind = "mem" THEN [var EXCEPT ![dst.ref] = c] ELSE var
<1>1. /\ i.op = "ADD" /\ i.r1 \in Registers /\ Usable(t.reg[i.r1])
      /\ Safe(t, reg, var, live)
  BY DEF Ready, Allowed, Add, Executes
<1>2. dst.kind = "mem" => t.reg[i.r1].is = "ref" /\ dst.ref = t.reg[i.r1].of
  BY <1>1, AddressKnown
<1>3. dst.kind = "mem" => x # dst.ref
  BY <1>1, <1>2 DEF Assigned
<1>4. \E c : var' = Var(c)
  BY DEF Add
<1>5. var'[x] = var[x]
  <2> HIDE DEF dst
  <2>1. CASE dst.kind = "mem"
    BY <1>1, <1>3, <1>4, <2>1 DEF Safe, VarCells
  <2>2. CASE dst.kind # "mem"
    BY <1>4, <2>2
  <2> QED  BY <2>1, <2>2
<1>6. \/ heap' = Without(gone)
      \/ /\ l.kind = "string"
         /\ heap' = [o \in live \ gone |-> IF o = l.at THEN heap[o] \o TextOf(r) ELSE heap[o]]
      \/ heap' = [o \in (live \ gone) \cup {Fresh} |-> IF o = Fresh THEN Joined(l, r) ELSE heap[o]]
  BY DEF Add, AddFrees
<1>7. l.kind = "string" /\ var[x].kind = "string" => var[x].at # l.at
  <2>1. CASE dst.kind = "mem"
    <3>1. l = var[dst.ref] /\ dst.ref \in Variables
      <4>1. dst.ref \in t.vars
        BY <1>1, <1>2, <2>1 DEF Safe, Fits
      <4> QED  BY <1>1, <2>1, <4>1 DEF Deref, Safe, State
    <3> QED  BY <1>1, <1>3, <2>1, <3>1 DEF Safe, OneOwnerIn
  <2>2. CASE dst.kind # "mem"
    <3>1. l = dst
      BY <2>2 DEF Deref
    <3>2. Owns(t.reg[i.r1])
      BY <1>1, <2>2 DEF Safe, Fits, Usable, Owns, State, Knowledge
    <3> QED  BY <1>1, <3>1, <3>2 DEF Safe, Fits, Sole
  <2> QED  BY <2>1, <2>2
<1>8. var[x].kind = "string" => var[x].at \in live /\ var[x].at \in live' /\ var[x].at # Fresh
  BY <1>1, <1>5, FreshTyped DEF Safe, OneOwnerIn
<1> HIDE DEF l, r, gone, dst
<1>9. CASE heap' = Without(gone)
  BY <1>5, <1>9, WithoutLeaves
<1>10. CASE /\ l.kind = "string"
            /\ heap' = [o \in live \ gone |-> IF o = l.at THEN heap[o] \o TextOf(r) ELSE heap[o]]
  <2>1. live' = live \ gone
    BY <1>10 DEF live
  <2>2. var[x].kind = "string" => heap'[var[x].at] = heap[var[x].at]
    BY <1>7, <1>8, <1>10, <2>1
  <2> QED  BY <1>5, <2>2 DEF Untouched
<1>11. CASE heap' = [o \in (live \ gone) \cup {Fresh} |->
                       IF o = Fresh THEN Joined(l, r) ELSE heap[o]]
  <2>1. live' = (live \ gone) \cup {Fresh}
    BY <1>11 DEF live
  <2> QED  BY <1>5, <1>8, <1>11, <2>1 DEF Untouched
<1> QED  BY <1>6, <1>9, <1>10, <1>11

LEMMA CallLeaves ==
  ASSUME NEW t, Ready(t), SystemCall, NEW x \in Variables, OneOwnerIn(var', live')
  PROVE  Untouched(x)
<1>1. var' = var
  BY DEF SystemCall, WrongCount, NoStream, Write, Read, Open, DeleteRegs
<1>2. \/ heap' = heap
      \/ \E D : heap' = Without(D)
      \/ \E s : heap' = With(Fresh, s)
  BY DEF SystemCall, WrongCount, NoStream, Write, Read, Open, DeleteRegs
<1>3. Safe(t, reg, var, live)
  BY DEF Ready
<1>4. ASSUME heap' = heap PROVE Untouched(x)
  BY <1>1, <1>4 DEF Untouched
<1>5. ASSUME NEW D, heap' = Without(D) PROVE Untouched(x)
  BY <1>1, <1>5, WithoutLeaves
<1>6. ASSUME NEW s, heap' = With(Fresh, s) PROVE Untouched(x)
  BY <1>1, <1>3, <1>6, WithLeaves
<1> QED  BY <1>2, <1>4, <1>5, <1>6

LEMMA ExecuteLeaves ==
  ASSUME NEW t, Ready(t), Execute, NEW x \in Variables \ Assigned(t, i), OneOwnerIn(var', live')
  PROVE  Untouched(x)
<1>1. Safe(t, reg, var, live)
  BY DEF Ready
<1>2. CASE Imov \/ Fmov \/ Bmov \/ Mov \/ Ignored \/ Save \/ Load
  BY <1>2 DEF Imov, Fmov, Bmov, Mov, Ignored, Save, Load, Untouched
<1>3. CASE Smov
  BY <1>1, <1>3, WithLeaves DEF Smov, NewText
<1>4. CASE Alloc
  <2>1. i.op = "ALLOC" /\ var' = [var EXCEPT ![i.name] = Value("owned", "null", 0)] /\ heap' = heap
    BY <1>4 DEF Alloc, Executes, SetVar
  <2>2. x # i.name
    BY <2>1 DEF Assigned
  <2> QED  BY <1>1, <2>1, <2>2 DEF Safe, VarCells, Untouched
<1>5. CASE Mmov
  <2>1. var' = var /\ (heap' = heap \/ \E s : heap' = With(Fresh, s))
    BY <1>5 DEF Mmov, NewText
  <2> QED  BY <1>1, <2>1, WithLeaves DEF Untouched
<1>6. CASE Rmov
  BY <1>6, RmovLeaves
<1>7. CASE Add
  BY <1>7, AddLeavesAlone
<1>8. CASE SystemCall
  BY <1>8, CallLeaves
<1>9. CASE DeleteResult
  BY <1>9, WithoutLeaves DEF DeleteResult
<1> QED  BY <1>2, <1>3, <1>4, <1>5, <1>6, <1>7, <1>8, <1>9 DEF Execute

(* The instruction that is next was checked: it assigns to the target.     *)
LEMMA NextIsReady ==
  ASSUME MemInv, Execute
  PROVE  todo # <<>> /\ \E t : Ready(t) /\ Assigned(t, i) \subseteq {stmt.target}
<1>1. err = "none" /\ fault = "none" /\ todo # <<>>
  BY DEF Execute, Imov, Fmov, Bmov, Smov, Alloc, Mov, Mmov, Rmov, Add, Ignored, Save, Load,
         SystemCall, DeleteResult, Executes
<1>2. /\ todo \in Seq(Instruction) /\ Len(todo) \in Nat /\ Len(todo) >= 1
      /\ i \in Instruction /\ i = todo[1]
  BY <1>1 DEF MemInv, i
<1>3. PICK f : \E k \in Nat :
        /\ stmt \in Statements /\ Checks(stmt, f)
        /\ k \in 1..Len(stmt.code) /\ Len(todo) = Len(stmt.code) - k + 1
        /\ \A j \in 1..Len(todo) : todo[j] = stmt.code[k + j - 1]
        /\ Safe(f[k], reg, var, live)
  BY <1>1 DEF MemInv, Underway
<1>4. PICK k \in Nat :
        /\ Checks(stmt, f) /\ k \in 1..Len(stmt.code)
        /\ \A j \in 1..Len(todo) : todo[j] = stmt.code[k + j - 1]
        /\ Safe(f[k], reg, var, live)
  BY <1>3
<1>5. i = stmt.code[k]
  BY <1>2, <1>4
<1>6. Allowed(f[k], i) /\ Assigned(f[k], i) \subseteq {stmt.target}
  BY <1>4, <1>5 DEF Checks
<1>7. Ready(f[k])
  BY <1>1, <1>2, <1>4, <1>6 DEF Ready
<1> QED  BY <1>1, <1>6, <1>7

LEMMA StepChangesTarget ==
  ASSUME MemInv, MemInv', [Next]_vars, NEW x \in Variables,
         Meaning(var[x])' # Meaning(var[x])
  PROVE  \/ todo # <<>> /\ stmt.target = x
         \/ LeaveSection /\ x \in Locals
<1>1. OneOwnerIn(var, live) /\ OneOwnerIn(var', live')
  BY DEF MemInv, Safe
<1>2. ~Untouched(x)
  BY <1>1, SameMeaning
<1>3. CASE \E s \in Statements : Begin(s)
  BY <1>2, <1>3 DEF Begin, Untouched
<1>4. CASE LeaveSection
  <2>1. CASE x \notin Locals
    <3>1. var'[x] = var[x] /\ \E D : heap' = Without(D)
      BY <1>4, <2>1 DEF LeaveSection
    <3> QED  BY <1>1, <1>2, <3>1, WithoutLeaves
  <2> QED  BY <1>4, <2>1
<1>5. CASE Execute
  <2>1. PICK t : Ready(t) /\ Assigned(t, i) \subseteq {stmt.target}
    BY <1>5, NextIsReady
  <2>2. x \in Assigned(t, i)
    BY <1>1, <1>2, <1>5, <2>1, ExecuteLeaves
  <2> QED  BY <1>5, <2>1, <2>2, NextIsReady
<1>6. CASE UNCHANGED vars
  BY <1>2, <1>6 DEF vars, Untouched
<1> QED  BY <1>3, <1>4, <1>5, <1>6 DEF Next

(* A statement changes only the variable it assigns: whatever shares bytes *)
(* with a register or is freed on the way, the others mean what they did.  *)
THEOREM OthersKeepTheirValue == ASSUME AllDisciplined PROVE Spec => OnlyTargetChanges
<1>1. MemInv /\ MemInv' /\ [Next]_vars =>
        [\A x \in Variables : Meaning(var[x])' # Meaning(var[x]) =>
           \/ todo # <<>> /\ stmt.target = x
           \/ LeaveSection /\ x \in Locals]_vars
  BY StepChangesTarget
<1> QED  BY <1>1, MemInvariant, PTL DEF Spec, OnlyTargetChanges
=============================================================================
