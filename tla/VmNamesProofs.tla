---------------------------- MODULE VmNamesProofs ----------------------------
(***************************************************************************)
(* The names of compiled programs, for a host that updates one module at a *)
(* time and as long as memory lasts: no declaration is executed twice in   *)
(* the life of the table it goes to, and every name that is used is found. *)
(***************************************************************************)
EXTENDS VmControlProofs

(* What the runs check for what SceIr compiles (JumpsPlaced).              *)
AllWellDeclared == \A p \in Programs : WellDeclared(p)

-----------------------------------------------------------------------------
(* Object tables.                                                          *)

(* An object is put in front of a table.                                   *)
LEMMA Prepended ==
  ASSUME NEW S, NEW x \in S, NEW q \in Seq(S)
  PROVE  /\ <<x>> \o q # <<>> /\ Head(<<x>> \o q) = x
         /\ Elements(<<x>> \o q) = Elements(q) \cup {x}
         /\ NoRepeats(q) /\ x \notin Elements(q) => NoRepeats(<<x>> \o q)
<1>1. PICK w : w = <<x>> \o q
  OBVIOUS
<1>2. /\ w \in Seq(S) /\ Len(w) = Len(q) + 1 /\ w[1] = x
      /\ \A i \in 1 .. Len(q) : w[i + 1] = q[i]
      /\ Len(q) \in Nat /\ DOMAIN q = 1 .. Len(q) /\ DOMAIN w = 1 .. Len(q) + 1
  BY <1>1
<1>3. w # <<>> /\ Head(w) = x
  BY <1>2
<1>4. \A i \in DOMAIN w : i = 1 \/ (i - 1 \in DOMAIN q /\ w[i] = q[i - 1])
  <2> TAKE i \in DOMAIN w
  <2>1. i # 1 => i - 1 \in 1 .. Len(q) /\ (i - 1) + 1 = i
    BY <1>2
  <2> QED  BY <1>2, <2>1
<1>5. Elements(w) = Elements(q) \cup {x}
  <2>1. \A y \in Elements(w) : y \in Elements(q) \cup {x}
    BY <1>2, <1>4 DEF Elements
  <2>2. x \in Elements(w)
    BY <1>2 DEF Elements
  <2>3. ASSUME NEW y \in Elements(q) PROVE y \in Elements(w)
    <3>1. PICK i \in 1 .. Len(q) : y = q[i]
      BY <1>2 DEF Elements
    <3>2. i + 1 \in DOMAIN w /\ w[i + 1] = y
      BY <1>2, <3>1
    <3> QED  BY <3>2 DEF Elements
  <2> QED  BY <2>1, <2>2, <2>3
<1>6. ASSUME NoRepeats(q), x \notin Elements(q) PROVE NoRepeats(w)
  <2>1. \A i \in DOMAIN q : q[i] # x
    BY <1>6 DEF Elements
  <2>2. ASSUME NEW i \in DOMAIN w, NEW j \in DOMAIN w, w[i] = w[j] PROVE i = j
    <3>1. i = 1 <=> j = 1
      BY <1>2, <1>4, <2>1, <2>2
    <3>2. i # 1 => i - 1 = j - 1
      BY <1>4, <1>6, <2>2, <3>1 DEF NoRepeats
    <3> QED  BY <1>2, <3>1, <3>2
  <2> QED  BY <2>2 DEF NoRepeats
<1> QED  BY <1>1, <1>3, <1>5, <1>6

-----------------------------------------------------------------------------
(* Loading.                                                                *)

Loading == stage = "collect" /\ inst # 0
Loaded(n) == n \in DOMAIN code /\ code[n].op = "NAME" /\ (Loading => n < inst)

(* Until an error, every module is loaded once, what is loaded goes to the *)
(* module it stands in, and labels are found in their module.              *)
LoadInv ==
  err = "none" =>
    /\ Loading /\ inst # 1 => \E n : Within(code, n, inst - 1) /\ code[n].arg = Scope
    /\ \A s \in Scopes : \A l \in Labels :
         labels[s][l] # 0 => \E n : Within(code, n, labels[s][l]) /\ code[n].arg = s
    /\ \A n, k : Loaded(n) /\ Loaded(k) /\ code[n].arg = code[k].arg =>
         n = k \/ code[n].arg = Root
    /\ \A n : Loaded(n) => code[n].arg \in Elements(modules) \cup {Root}

(* The machine never clears an error.                                      *)
LEMMA ErrorStays == [Next]_vars /\ err # "none" => err' # "none"
<1> SUFFICES ASSUME [Next]_vars, err # "none" PROVE err' # "none"
  OBVIOUS
<1>1. CASE UNCHANGED vars
  BY <1>1 DEF vars
<1>2. CASE Collect
  BY <1>2 DEF Collect, CollectName, CollectLabel, CollectOther, CollectCrash, Report, Lost
<1>3. CASE StartGlobal \/ Run \/ \E m \in Hosted : Update(m)
  BY <1>3 DEF StartGlobal, Run, FinishInit, Resume, EnterStart, NothingToRun, FinishRun, Update
<1>4. CASE Execute
  BY <1>4 DEF Execute, Skip, SystemCall, RefusedCall, MoveBool, Alloc, Use, ExecCrash,
              UnknownLabel, ChangeSection, Exit, Branch, Fail, Report, Lost
<1> QED  BY <1>1, <1>2, <1>3, <1>4 DEF Next, Machine, Host

LEMMA LoadInvInit == Init => LoadInv
<1> SUFFICES ASSUME Init PROVE LoadInv
  OBVIOUS
<1>1. ASSUME NEW n, Loaded(n) PROVE FALSE
  <2>1. DOMAIN code = 1 .. Len(code) /\ Len(code) \in Nat
    BY ProgramsAssumption DEF Init
  <2> QED  BY <1>1, <2>1 DEF Init, Loaded, Loading
<1> QED  BY <1>1 DEF Init, LoadInv, Scopes

LEMMA LoadInvCollect ==
  ASSUME ~OutOfMemory, TypeInv, ExclusiveInv, LoadInv, Collect, UNCHANGED code, err' = "none"
  PROVE  LoadInv'
<1>1. /\ stage = "collect" /\ inst \in 1 .. Len(code) /\ Loading
      /\ DOMAIN code = 1 .. Len(code) /\ Len(code) \in Nat
  BY CodeTyped DEF Collect, CollectName, CollectLabel, CollectOther, CollectCrash,
                   Collecting, Loading, TypeInv, TypeOK
<1>2. Succ(inst) # 0 => Succ(inst) - 1 = inst /\ Succ(inst) = inst + 1
  BY <1>1 DEF Succ
<1>3. ~CollectCrash
  BY <1>1 DEF CollectCrash, NoScope, ExclusiveInv
<1>4. inst' = Succ(inst) /\ stage' = stage /\ err = "none"
  BY <1>1, <1>3 DEF Collect, CollectName, CollectLabel, CollectOther, Report, Lost
<1>5. ASSUME NEW n, Loaded(n)' PROVE Loaded(n) \/ (n = inst /\ Op = "NAME")
  <2>1. n \in 1 .. Len(code) /\ code[n].op = "NAME" /\ (Succ(inst) # 0 => n < Succ(inst))
    BY <1>1, <1>4, <1>5 DEF Loaded, Loading
  <2>2. n <= inst
    BY <1>1, <1>2, <2>1 DEF Succ
  <2> QED  BY <1>1, <2>1, <2>2 DEF Loaded, Loading, Op
<1>6. CASE CollectName
  <2>1. Op = "NAME" /\ UNCHANGED labels /\ mode' = IF Arg = Root THEN "global" ELSE "local"
    BY <1>6 DEF CollectName
  <2>2. \/ Arg = Root /\ modules' = modules
        \/ /\ Arg \in Names \ Elements(modules)
           /\ modules' = <<Arg>> \o modules
    BY <1>4, <1>6 DEF CollectName, Grants, Report, Lost
  <2>3. modules \in Seq(Names)
    BY DEF TypeInv, TypeOK
  <2>4. Elements(modules') \cup {Root} = Elements(modules) \cup {Arg, Root} /\ Scope' = Arg
    <3>1. CASE Arg = Root
      BY <2>1, <2>2, <3>1, NamesAssumption DEF Scope
    <3>2. CASE Arg # Root
      <4>1. modules' = <<Arg>> \o modules /\ Arg \in Names /\ mode' = "local"
        BY <2>1, <2>2, <3>2
      <4>2. Head(modules') = Arg /\ Elements(modules') = Elements(modules) \cup {Arg}
        BY <2>3, <4>1, Prepended
      <4> QED  BY <4>1, <4>2 DEF Scope
    <3> QED  BY <3>1, <3>2
  <2>5. Loading' => Within(code, inst, inst' - 1)
    BY <1>1, <1>2, <1>4, <2>1 DEF Loading, Within, Op
  <2>6. ASSUME NEW n, NEW k, Loaded(n)', Loaded(k)', code[n].arg = code[k].arg
        PROVE  n = k \/ code[n].arg = Root
    <3>1. ASSUME NEW i, Loaded(i), code[i].arg = Arg PROVE Arg = Root
      BY <1>4, <2>2, <3>1 DEF LoadInv
    <3> QED  BY <1>4, <1>5, <2>6, <3>1 DEF LoadInv, Arg
  <2>7. ASSUME NEW n, Loaded(n)' PROVE code[n].arg \in Elements(modules') \cup {Root}
    BY <1>4, <1>5, <2>4, <2>7 DEF LoadInv, Arg
  <2> QED  BY <1>4, <2>1, <2>4, <2>5, <2>6, <2>7 DEF LoadInv, Arg
<1>7. CASE CollectLabel \/ CollectOther
  <2>1. Op # "NAME" /\ UNCHANGED <<mode, modules>> /\ Scope' = Scope
    BY <1>7 DEF CollectLabel, CollectOther, Scope
  <2>2. inst # 1
    BY <2>1, CodeTyped DEF Op
  <2>3. PICK n : Within(code, n, inst - 1) /\ code[n].arg = Scope
    BY <1>1, <1>4, <2>2 DEF LoadInv
  <2>4. Within(code, n, inst)
    BY <1>1, <2>1, <2>2, <2>3 DEF Within, Op
  <2>5. Loading' => Within(code, n, inst' - 1)
    BY <1>2, <1>4, <2>4 DEF Loading
  <2>6. ASSUME NEW s \in Scopes, NEW l \in Labels, labels'[s][l] # 0
        PROVE  \E k : Within(code, k, labels'[s][l]) /\ code[k].arg = s
    <3>1. labels' = labels \/ labels' = [labels EXCEPT ![Scope][Arg] = inst]
      BY <1>7 DEF CollectLabel, CollectOther
    <3>2. labels \in [Scopes -> [Labels -> 0 .. Len(code)]]
      BY DEF TypeInv, TypeOK
    <3>3. labels'[s][l] = labels[s][l] \/ (labels'[s][l] = inst /\ s = Scope)
      BY <3>1, <3>2
    <3> QED  BY <1>4, <2>3, <2>4, <2>6, <3>3 DEF LoadInv
  <2>7. \A k : Loaded(k)' => Loaded(k)
    BY <1>5, <2>1
  <2> QED  BY <1>4, <2>1, <2>3, <2>5, <2>6, <2>7 DEF LoadInv
<1> QED  BY <1>3, <1>6, <1>7 DEF Collect

LEMMA LoadInvNext ==
  ASSUME ~OutOfMemory
  PROVE  TypeInv /\ ExclusiveInv /\ LoadInv /\ [Next]_vars => LoadInv'
<1> SUFFICES ASSUME TypeInv, ExclusiveInv, LoadInv, [Next]_vars, err' = "none" PROVE LoadInv'
  BY DEF LoadInv
<1>1. err = "none"
  BY ErrorStays
<1>2. CASE Collect /\ UNCHANGED code
  BY <1>2, LoadInvCollect
<1>3. CASE /\ UNCHANGED <<code, labels, modules>> /\ (Loading <=> Loading')
           /\ Loading => UNCHANGED <<inst, mode>>
  <2>1. \A n : Loaded(n)' <=> Loaded(n)
    BY <1>3 DEF Loaded, Loading
  <2>2. Loading => Scope' = Scope
    BY <1>3 DEF Scope
  <2> QED  BY <1>1, <1>3, <2>1, <2>2 DEF LoadInv
<1>4. CASE UNCHANGED vars
  BY <1>3, <1>4 DEF vars, Loading
<1>5. CASE (StartGlobal \/ Run \/ \E m \in Hosted : Update(m)) /\ UNCHANGED code
  <2>1. UNCHANGED <<labels, modules>> /\ ~Loading /\ ~Loading'
    BY <1>5 DEF StartGlobal, Initialise, Run, FinishInit, Resume, EnterStart, NothingToRun,
                FinishRun, Update, Loading, loader
  <2> QED  BY <1>3, <1>5, <2>1
<1>6. CASE Execute /\ UNCHANGED code
  <2>1. UNCHANGED <<labels, modules>> /\ ~Loading /\ ~Loading'
    BY <1>6, ExecuteFrame DEF Loading, loader
  <2> QED  BY <1>3, <1>6, <2>1
<1> QED  BY <1>2, <1>4, <1>5, <1>6 DEF Next, Machine, Host

-----------------------------------------------------------------------------
(* Fields.                                                                 *)

(* Every object of a table was declared between two addresses.             *)
Declared(objs, from, to) ==
  \A x \in Elements(objs) : \E i \in DOMAIN code :
    from < i /\ i < to /\ code[i].op = "ALLOC" /\ code[i].arg = x

(* A table is empty until its scope's initialiser runs, which runs through *)
(* its declarations without a jump.                                        *)
FieldInv ==
  /\ \A s \in Scopes : NoRepeats(filed[s]) /\ (inits[s] = 0 => filed[s] = <<>>)
  /\ stage = "init" => inits[now] # 0
  /\ stage = "init" /\ pc # 0 =>
       \E r \in DOMAIN code : r < pc /\ NoJump(code, r, pc) /\ Declared(filed[now], r, pc)

LEMMA FieldInvInit == Init => FieldInv
  BY DEF Init, FieldInv, NoRepeats

(* A declaration in an initialiser is not one of those before it.          *)
LEMMA FieldsApart ==
  ASSUME TypeInv, BlocksClosed(code), DeclarationsApart(code), pc # 0, op = "ALLOC",
         NEW r \in DOMAIN code, r < pc, NoJump(code, r, pc), Declared(filed[now], r, pc)
  PROVE  arg \notin Elements(filed[now])
<1>1. DOMAIN code = 1 .. Len(code) /\ Len(code) \in Nat /\ pc \in DOMAIN code
  BY CodeTyped DEF TypeInv, TypeOK
<1>2. SUFFICES ASSUME arg \in Elements(filed[now]) PROVE FALSE
  OBVIOUS
<1>3. PICK i \in DOMAIN code : r < i /\ i < pc /\ code[i].op = "ALLOC" /\ code[i].arg = arg
  BY <1>2 DEF Declared
<1>4. PICK k \in DOMAIN code : i < k /\ k < pc /\ Boundary(code, k)
  BY <1>1, <1>3 DEF DeclarationsApart, op, arg
<1>5. code[k - 1].op = "JMP"
  BY <1>4 DEF BlocksClosed, Leaves
<1>6. k - 1 \in DOMAIN code /\ r < k - 1 /\ k - 1 < pc
  BY <1>1, <1>3, <1>4
<1> QED  BY <1>5, <1>6 DEF NoJump

LEMMA FieldInvCall ==
  ASSUME TypeInv, CallInv, AddressInv, FieldInv, UNCHANGED code,
         StartGlobal \/ Run \/ \E m \in Hosted : Update(m)
  PROVE  FieldInv'
<1>1. DOMAIN code = 1 .. Len(code) /\ Len(code) \in Nat /\ inits \in [Scopes -> Nat]
  BY CodeTyped DEF TypeInv, TypeOK
<1>2. ASSUME NEW s \in Scopes, Initialise(s), UNCHANGED <<initAt, filed>>,
             initAt[s] # 0 => inits[s] = 0
      PROVE  FieldInv'
  <2>1. now' = s /\ pc' = initAt[s] /\ inits' = [inits EXCEPT ![s] = @ + 1]
    BY <1>2 DEF Initialise
  <2>2. inits'[s] # 0 /\ \A t \in Scopes : inits'[t] = 0 => inits[t] = 0
    BY <1>1, <2>1
  <2>3. ASSUME pc' # 0
        PROVE  \E r \in DOMAIN code :
                 r < pc' /\ NoJump(code, r, pc') /\ Declared(filed[s], r, pc')
    <3>1. initAt[s] \in 2 .. Len(code)
      BY <2>1, <2>3, CodeTyped DEF AddressInv, TypeInv, TypeOK
    <3>2. PICK r \in DOMAIN code : r + 1 = initAt[s]
      <4>1. initAt[s] - 1 \in DOMAIN code /\ (initAt[s] - 1) + 1 = initAt[s]
        BY <1>1, <3>1
      <4> QED  BY <4>1
    <3>3. NoJump(code, r, pc')
      BY <1>1, <2>1, <3>2 DEF NoJump
    <3>4. filed[s] = <<>>
      BY <1>2, <2>1, <2>3 DEF FieldInv
    <3>5. Declared(filed[s], r, pc')
      BY <3>4 DEF Declared, Elements
    <3> QED  BY <1>1, <2>1, <3>2, <3>3, <3>5
  <2>4. \A r, p : (\A x \in Elements(filed'[s]) : \E i \in DOMAIN code' :
                     r < i /\ i < p /\ code'[i].op = "ALLOC" /\ code'[i].arg = x)
                  <=> Declared(filed[s], r, p)
    BY <1>2 DEF Declared
  <2> QED  BY <1>2, <2>1, <2>2, <2>3, <2>4 DEF FieldInv, Declared
<1>3. CASE StartGlobal
  <2>1. Initialise(Root) /\ UNCHANGED <<initAt, filed>> /\ Root \in Scopes /\ inits[Root] = 0
    BY <1>3 DEF StartGlobal, Scopes, CallInv
  <2> QED  BY <1>2, <2>1
<1>4. CASE \E m \in Hosted : Update(m)
  <2> PICK m \in Hosted : Update(m)
    BY <1>4
  <2>1. m \in Scopes /\ stage = "idle" /\ UNCHANGED <<initAt, filed>>
    BY NamesAssumption DEF Scopes, Update
  <2>2. CASE initAt[m] # 0
    <3>1. inits[m] = 0
      BY <2>1, <2>2 DEF CallInv
    <3> QED  BY <1>2, <2>1, <2>2, <3>1 DEF Update
  <2>3. CASE initAt[m] = 0
    BY <2>1, <2>3 DEF Update, FieldInv
  <2> QED  BY <2>2, <2>3
<1>5. CASE Run
  BY <1>5 DEF Run, FinishInit, Resume, EnterStart, NothingToRun, FinishRun, FieldInv
<1> QED  BY <1>3, <1>4, <1>5

(* An instruction without a jump goes on at the next one, or ends the call.*)
LEMMA StraightOn ==
  ASSUME ~OutOfMemory, TypeInv, Execute, op # "JMP", pc' # 0, stage' # "crashed"
  PROVE  pc' = pc + 1 /\ pc' \in DOMAIN code /\ err = "none" /\ err' = err
<1>0. err' = err \/ err' \in Errors
  BY ExecuteReports
<1>1. pc' = After(err', pc) /\ err \in Errors \cup {"none"}
  BY ExecuteReports
  DEF Execute, Skip, SystemCall, RefusedCall, MoveBool, Alloc, Use, ExecCrash,
      UnknownLabel, ChangeSection, Exit, Branch, Jumping
<1>2. pc \in 1 .. Len(code) /\ DOMAIN code = 1 .. Len(code) /\ Len(code) \in Nat
  BY CodeTyped, ExecuteFrame DEF TypeInv, TypeOK
<1> QED  BY <1>0, <1>1, <1>2 DEF After, Succ

LEMMA FieldInvExecute ==
  ASSUME ~OutOfMemory, TypeInv, CallInv, ContextInv, ExclusiveInv, FieldInv,
         InitialisersExit(code), BlocksClosed(code), DeclarationsApart(code),
         Execute, UNCHANGED code
  PROVE  FieldInv'
<1>1. /\ UNCHANGED <<loader, initAt, now, running, inits>>
      /\ stage \in {"init", "section"} /\ pc # 0 /\ now \in Scopes
      /\ stage' = stage
      /\ filed \in [Scopes -> Seq(Vars)] /\ pc \in 1 .. Len(code)
      /\ DOMAIN code = 1 .. Len(code) /\ Len(code) \in Nat
  BY ExecuteFrame, CodeTyped DEF ExclusiveInv, Executing, TypeInv, TypeOK
<1>2. CASE stage = "section"
  <2>1. filed' = filed
    <3>1. CASE Alloc
      <4>1. ctx[now] # <<>> /\ Head(ctx[now]).at # 0
        <5>1. ctx[now] \in Seq(SectionContext) /\ ctx[now] # <<>>
          BY <1>1, <3>1 DEF Alloc, TypeInv, TypeOK
        <5> QED  BY <1>1, <1>2, <5>1 DEF CallInv, InOneSection
      <4> QED  BY <3>1, <4>1 DEF Alloc, InFiled
    <3> QED
      BY <3>1 DEF Execute, Skip, SystemCall, RefusedCall, MoveBool, Use, ExecCrash,
                  UnknownLabel, ChangeSection, Exit, Branch
  <2> QED  BY <1>1, <1>2, <2>1 DEF FieldInv
<1>3. CASE stage = "init"
  <2>1. PICK r \in DOMAIN code : r < pc /\ NoJump(code, r, pc) /\ Declared(filed[now], r, pc)
    BY <1>1, <1>3 DEF FieldInv
  <2>2. filed' = filed \/ (op = "ALLOC" /\ filed' = [filed EXCEPT ![now] = <<arg>> \o @])
    BY DEF Execute, Skip, SystemCall, RefusedCall, MoveBool, Alloc, Use, ExecCrash,
           UnknownLabel, ChangeSection, Exit, Branch
  <2>3. \/ UNCHANGED filed
        \/ /\ op = "ALLOC" /\ NoRepeats(filed'[now])
           /\ Elements(filed'[now]) = Elements(filed[now]) \cup {arg}
           /\ \A s \in Scopes \ {now} : filed'[s] = filed[s]
    <3>1. CASE op = "ALLOC" /\ filed' = [filed EXCEPT ![now] = <<arg>> \o @]
      <4>1. arg \in Vars /\ filed[now] \in Seq(Vars) /\ NoRepeats(filed[now])
        BY <1>1, <3>1, CodeTyped DEF FieldInv, op, arg
      <4>2. arg \notin Elements(filed[now])
        BY <1>1, <2>1, <3>1, FieldsApart
      <4>3. NoRepeats(<<arg>> \o filed[now])
            /\ Elements(<<arg>> \o filed[now]) = Elements(filed[now]) \cup {arg}
        BY <4>1, <4>2, Prepended
      <4> QED  BY <1>1, <3>1, <4>3
    <3> QED  BY <2>2, <3>1
  <2>4. \A s \in Scopes : NoRepeats(filed'[s]) /\ (inits[s] = 0 => filed'[s] = <<>>)
    BY <1>3, <2>3 DEF FieldInv
  <2>5. ASSUME pc' # 0
        PROVE  r < pc' /\ NoJump(code, r, pc') /\ Declared(filed'[now], r, pc')
    <3>1. op # "JMP"
      <4>1. op = "JMP" => arg = "exit"
        BY <1>1, <1>3, InitialiserJumps
      <4>2. ~UnknownLabel
        BY <2>5, ExecuteReports
      <4>3. stage' # "crashed" /\ pc # 0
        BY <1>1
      <4> QED
        BY <2>5, <4>1, <4>2, <4>3
        DEF Execute, Skip, Ignored, SystemCall, RefusedCall, MoveBool, Bools, Alloc, Use,
            ExecCrash, ChangeSection, Exit, Branch
    <3>2. pc' = pc + 1
      BY <1>1, <2>5, <3>1, StraightOn
    <3>3. NoJump(code, r, pc')
      BY <1>1, <2>1, <3>1, <3>2 DEF NoJump, op
    <3>4. \A x \in Elements(filed[now]) : \E i \in DOMAIN code :
            r < i /\ i < pc' /\ code[i].op = "ALLOC" /\ code[i].arg = x
      BY <1>1, <2>1, <3>2 DEF Declared
    <3>5. op = "ALLOC" => r < pc /\ pc < pc' /\ code[pc].op = "ALLOC" /\ code[pc].arg = arg
      BY <1>1, <2>1, <3>2 DEF op, arg
    <3>6. Declared(filed'[now], r, pc')
      BY <1>1, <2>3, <3>4, <3>5 DEF Declared
    <3> QED  BY <1>1, <2>1, <3>2, <3>3, <3>6
  <2>6. \A p : Declared(filed[now], r, p)' <=> Declared(filed'[now], r, p)
    BY <1>1 DEF Declared
  <2> QED  BY <1>1, <2>1, <2>4, <2>5, <2>6 DEF FieldInv, Declared
<1> QED  BY <1>1, <1>2, <1>3

LEMMA FieldInvNext ==
  ASSUME AllCompiled, AllWellDeclared, ~OutOfMemory
  PROVE  TypeInv /\ CallInv /\ AddressInv /\ ContextInv /\ ExclusiveInv /\ FieldInv /\ [Next]_vars
           => FieldInv'
<1> SUFFICES ASSUME TypeInv, CallInv, AddressInv, ContextInv, ExclusiveInv, FieldInv, [Next]_vars
             PROVE  FieldInv'
  OBVIOUS
<1>1. InitialisersExit(code) /\ BlocksClosed(code) /\ DeclarationsApart(code)
  BY DEF AllCompiled, WellCompiled, AllWellDeclared, WellDeclared, TypeInv
<1>2. CASE UNCHANGED vars
  BY <1>2 DEF vars, FieldInv, Declared, NoJump
<1>3. CASE Collect
  <2>1. stage' # "init" /\ UNCHANGED <<filed, inits>>
    BY <1>3 DEF Collect, CollectName, CollectLabel, CollectOther, CollectCrash, Collecting
  <2> QED  BY <2>1 DEF FieldInv
<1>4. CASE (StartGlobal \/ Run \/ \E m \in Hosted : Update(m)) /\ UNCHANGED code
  BY <1>4, FieldInvCall
<1>5. CASE Execute /\ UNCHANGED code
  BY <1>1, <1>5, FieldInvExecute
<1> QED  BY <1>2, <1>3, <1>4, <1>5 DEF Next, Machine, Host

-----------------------------------------------------------------------------
(* Sections.                                                               *)

(* Running from its label, a section has not reached the next.             *)
Reached(at, p) == at <= p /\ \A k \in DOMAIN code : at < k /\ k <= p => ~Boundary(code, k)

(* A section's table is empty between calls, and in a call holds what was  *)
(* declared between the section's label and the instruction to execute.    *)
(* After an error a call executes nothing but the label.                   *)
SectionInv ==
  /\ \A s \in Scopes : ctx[s] # <<>> =>
       /\ NoRepeats(ctx[s][1].objs)
       /\ ctx[s][1].objs = <<>> \/ err # "none" \/ (stage = "section" /\ pc # 0 /\ s = now)
       /\ ctx[s][1].at # 0 => \E l \in Labels : labels[s][l] = ctx[s][1].at
  /\ stage = "section" /\ pc # 0 =>
       \/ err # "none" /\ pc = ctx[now][1].at
       \/ Reached(ctx[now][1].at, pc) /\ Declared(ctx[now][1].objs, ctx[now][1].at, pc)

LEMMA SectionInvInit == Init => SectionInv
  BY DEF Init, SectionInv, Scopes

(* A new context has no objects.                                           *)
LEMMA NewContext ==
  ASSUME NEW at
  PROVE  /\ <<Context(at)>> # <<>> /\ <<Context(at)>>[1].at = at
         /\ <<Context(at)>>[1].objs = <<>> /\ NoRepeats(<<Context(at)>>[1].objs)
         /\ \A from, to : Declared(<<Context(at)>>[1].objs, from, to)
<1>1. <<Context(at)>>[1].at = at /\ <<Context(at)>>[1].objs = <<>>
  BY DEF Context
<1> QED  BY <1>1 DEF NoRepeats, Declared, Elements

LEMMA SectionInvCall ==
  ASSUME Exclusive, TypeInv, CallInv, AddressInv, ExclusiveInv, SectionInv, BlocksClosed(code),
         UNCHANGED code, StartGlobal \/ Run \/ \E m \in Hosted : Update(m)
  PROVE  SectionInv'
<1>1. /\ DOMAIN code = 1 .. Len(code) /\ Len(code) \in Nat
      /\ ctx \in [Scopes -> Seq(SectionContext)]
      /\ labels \in [Scopes -> [Labels -> 0 .. Len(code)]]
      /\ UNCHANGED <<labels, err>>
  BY CodeTyped DEF TypeInv, TypeOK, StartGlobal, Update, Run, FinishInit, Resume, EnterStart,
                   NothingToRun, FinishRun, loader
<1>2. ASSUME ~(stage = "section" /\ pc # 0), stage' # "section" \/ pc' = 0,
             NEW s \in Scopes, \A t \in Scopes \ {s} : ctx'[t] = ctx[t],
             ctx'[s] = <<>> \/ ctx'[s] = <<Filed>>
      PROVE  SectionInv'
  <2>1. <<Filed>>[1].at = 0 /\ <<Filed>>[1].objs = <<>> /\ NoRepeats(<<Filed>>[1].objs)
    BY NewContext DEF Filed
  <2> QED  BY <1>1, <1>2, <2>1 DEF SectionInv
<1>3. CASE /\ ~(stage = "section" /\ pc # 0) /\ UNCHANGED ctx
           /\ stage' # "section" \/ pc' = 0
  BY <1>1, <1>3 DEF SectionInv
<1>4. ASSUME NEW s \in Scopes, Initialise(s), stage # "section"
      PROVE  SectionInv'
  <2>1. ctx' = [ctx EXCEPT ![s] = <<Filed>>] /\ stage' = "init"
    BY <1>4 DEF Initialise
  <2> QED  BY <1>1, <1>2, <1>4, <2>1
<1>5. CASE StartGlobal
  BY <1>4, <1>5 DEF StartGlobal, Scopes
<1>6. CASE \E m \in Hosted : Update(m)
  <2> PICK m \in Hosted : Update(m)
    BY <1>6
  <2>1. m \in Scopes /\ stage = "idle"
    BY NamesAssumption DEF Scopes, Update
  <2> QED  BY <1>3, <1>4, <2>1 DEF Update
<1>7. CASE FinishInit
  <2>1. /\ stage = "init" /\ now \in Scopes /\ stage' # "section"
        /\ ctx' = [ctx EXCEPT ![now] = <<>>]
    BY <1>7 DEF FinishInit, TypeInv
  <2> QED  BY <1>1, <1>2, <2>1
<1>8. CASE Resume
  <2>1. /\ stage = "enter" /\ now' = now /\ ctx' = ctx /\ ctx[now] # <<>> /\ running = now
        /\ pc' = Head(ctx[now]).at /\ now \in Scopes
    BY <1>8 DEF Resume, ExclusiveInv, TypeInv
  <2>2. pc' = ctx[now][1].at /\ pc' \in Nat
    <3>1. ctx[now][1] \in SectionContext /\ Head(ctx[now]) = ctx[now][1]
      BY <1>1, <2>1
    <3> QED  BY <1>1, <2>1, <3>1 DEF SectionContext
  <2>3. ctx[now][1].objs = <<>> \/ err # "none"
    BY <2>1 DEF SectionInv
  <2>4. Reached(ctx[now][1].at, pc')
    BY <1>1, <2>2 DEF Reached
  <2>5. ctx[now][1].objs = <<>> => Declared(ctx[now][1].objs, ctx[now][1].at, pc')
    BY DEF Declared, Elements
  <2> QED  BY <1>1, <2>1, <2>2, <2>3, <2>4, <2>5 DEF SectionInv, Reached, Declared
<1>9. CASE EnterStart
  <2> DEFINE at == labels[running]["start"]
  <2>1. /\ running \in Scopes /\ at # 0 /\ now' = running /\ pc' = Succ(at)
        /\ ctx' = [ctx EXCEPT ![running] = <<Context(at)>>] /\ "start" \in Labels
        /\ stage = "enter" /\ running \in Names
    BY <1>9, NamesAssumption DEF EnterStart, TypeInv, ExclusiveInv, Sections
  <2>2. ctx'[running] = <<Context(at)>> /\ \A s \in Scopes \ {running} : ctx'[s] = ctx[s]
    BY <1>1, <2>1
  <2>3. at \in DOMAIN code /\ code[at].op = "LABEL"
    BY <1>1, <2>1 DEF AddressInv
  <2>4. pc' # 0 => Reached(at, pc')
    <3> SUFFICES ASSUME pc' # 0 PROVE Reached(at, pc')
      OBVIOUS
    <3>1. pc' = at + 1 /\ pc' \in DOMAIN code
      BY <1>1, <2>1, <2>3 DEF Succ
    <3>2. ~Boundary(code, at + 1)
      <4>1. (at + 1) - 1 = at
        BY <1>1, <2>3
      <4> QED  BY <2>3, <3>1, <4>1 DEF BlocksClosed, Leaves
    <3> QED  BY <1>1, <2>3, <3>1, <3>2 DEF Reached
  <2> HIDE DEF at
  <2>5. /\ ctx'[running] # <<>> /\ ctx'[running][1].at = at /\ ctx'[running][1].objs = <<>>
        /\ NoRepeats(ctx'[running][1].objs)
        /\ \A from, to : Declared(ctx'[running][1].objs, from, to)
    BY <2>2, NewContext
  <2>6. labels'[running]["start"] = at
    BY <1>1 DEF at
  <2>7. ASSUME NEW s \in Scopes, ctx'[s] # <<>>
        PROVE  /\ NoRepeats(ctx'[s][1].objs)
               /\ ctx'[s][1].objs = <<>> \/ err' # "none"
               /\ ctx'[s][1].at # 0 => \E l \in Labels : labels'[s][l] = ctx'[s][1].at
    <3>1. CASE s = running
      BY <2>1, <2>5, <2>6, <3>1
    <3>2. CASE s # running
      BY <1>1, <2>1, <2>2, <2>7, <3>2 DEF SectionInv
    <3> QED  BY <3>1, <3>2
  <2>8. pc' # 0 => Reached(ctx[now][1].at, pc)' /\ Declared(ctx[now][1].objs, ctx[now][1].at, pc)'
    <3>1. ctx'[now'][1].at = at /\ ctx'[now'][1].objs = <<>> /\ code' = code
      BY <2>1, <2>5
    <3>2. pc' # 0 => Reached(ctx[now][1].at, pc)'
      BY <2>4, <3>1 DEF Reached
    <3>3. Declared(ctx[now][1].objs, ctx[now][1].at, pc)'
      BY <3>1 DEF Declared, Elements
    <3> QED  BY <3>2, <3>3
  <2>9. \A s \in Scopes : ctx'[s] # <<>> =>
          /\ NoRepeats(ctx'[s][1].objs)
          /\ \/ ctx'[s][1].objs = <<>> \/ err' # "none"
             \/ stage' = "section" /\ pc' # 0 /\ s = now'
          /\ ctx'[s][1].at # 0 => \E l \in Labels : labels'[s][l] = ctx'[s][1].at
    BY <2>7
  <2> QED  BY <2>8, <2>9, Zenon DEF SectionInv
<1>10. CASE NothingToRun \/ FinishRun
  BY <1>3, <1>10 DEF NothingToRun, FinishRun
<1> QED  BY <1>5, <1>6, <1>7, <1>8, <1>9, <1>10 DEF Run

(* The section that runs, and where.                                       *)
InSectionAt(at) ==
  /\ stage = "section" /\ pc # 0 /\ now \in Names /\ ctx[now] # <<>> /\ at = ctx[now][1].at
  /\ at \in DOMAIN code /\ code[at].op = "LABEL" /\ code[at].arg \in Sections
  /\ \E l \in Labels : labels[now][l] = at

LEMMA SectionRuns ==
  ASSUME ~OutOfMemory, TypeInv, CallInv, ContextInv, ExclusiveInv, LifecycleInv, SectionInv,
         stage = "section", pc # 0
  PROVE  \E at : InSectionAt(at) /\ Len(ctx[now]) = 1 /\ ~InFiled(now)
<1>1. now = running /\ now \in Names /\ now \in Scopes /\ ctx[now] # <<>>
  BY DEF ExclusiveInv, LifecycleInv, Executing, Scopes
<1>2. ctx[now] \in Seq(SectionContext) /\ Len(ctx[now]) = 1 /\ ctx[now][1].at # 0
  BY <1>1 DEF CallInv, InOneSection, TypeInv, TypeOK
<1>3. ctx[now][1] \in SectionContext /\ Head(ctx[now]) = ctx[now][1]
  BY <1>1, <1>2
<1>4. ctx[now][1].at \in DOMAIN code
  BY <1>2, <1>3, CodeTyped DEF SectionContext, TypeInv, TypeOK
<1> QED  BY <1>1, <1>2, <1>3, <1>4 DEF InSectionAt, InFiled, ContextInv, SectionInv

(* A step to the next instruction does not reach the next section, for a   *)
(* jump is in front of it.                                                 *)
LEMMA StepOn ==
  ASSUME TypeInv, BlocksClosed(code), NEW at, InSectionAt(at), Reached(at, pc), ~Leaves(code, pc)
  PROVE  Succ(pc) = pc + 1 /\ pc + 1 \in DOMAIN code /\ Reached(at, pc + 1)
<1>1. /\ DOMAIN code = 1 .. Len(code) /\ Len(code) \in Nat /\ pc \in DOMAIN code
      /\ at \in DOMAIN code /\ at <= pc
  BY CodeTyped DEF TypeInv, TypeOK, InSectionAt, Reached
<1>2. pc # Len(code)
  <2> SUFFICES ASSUME pc = Len(code) PROVE FALSE
    OBVIOUS
  <2>1. EndsModule(code, pc)
    BY DEF BlocksClosed
  <2>2. at # pc
    BY <2>1 DEF EndsModule, InSectionAt, Sections
  <2> QED  BY <1>1, <2>1, <2>2 DEF Reached, EndsModule, Boundary
<1>3. pc + 1 \in DOMAIN code /\ (pc + 1) - 1 = pc
  BY <1>1, <1>2
<1>4. ~Boundary(code, pc + 1)
  BY <1>3 DEF BlocksClosed
<1> QED  BY <1>1, <1>2, <1>3, <1>4 DEF Reached, Succ

(* The section's module is the current one.                                *)
LEMMA SectionWithin ==
  ASSUME TypeInv, LoadInv, BlocksClosed(code), err = "none",
         NEW at, InSectionAt(at), Reached(at, pc)
  PROVE  \E n : Within(code, n, at) /\ Within(code, n, pc) /\ code[n].arg = now
<1>1. /\ DOMAIN code = 1 .. Len(code) /\ Len(code) \in Nat /\ pc \in DOMAIN code
      /\ at \in DOMAIN code /\ at <= pc /\ now \in Scopes
  BY CodeTyped DEF TypeInv, TypeOK, InSectionAt, Reached, Scopes
<1>2. PICK n : Within(code, n, at) /\ code[n].arg = now
  BY <1>1 DEF InSectionAt, LoadInv
<1>3. Within(code, n, pc)
  <2>1. n \in DOMAIN code /\ n <= at /\ code[n].op = "NAME"
    BY <1>2 DEF Within
  <2>2. ASSUME NEW k \in DOMAIN code, n < k, k <= pc, code[k].op = "NAME" PROVE FALSE
    <3>1. at < k /\ k > 1
      BY <1>1, <1>2, <2>1, <2>2 DEF Within
    <3>2. EndsModule(code, k - 1)
      BY <2>2, <3>1 DEF BlocksClosed
    <3>3. k - 1 # at
      BY <3>2 DEF EndsModule, InSectionAt, Sections
    <3>4. k - 1 \in DOMAIN code /\ at < k - 1 /\ k - 1 <= pc
      BY <1>1, <2>2, <3>1, <3>3
    <3> QED  BY <3>2, <3>4 DEF Reached, EndsModule, Boundary
  <2> QED  BY <1>1, <2>1, <2>2 DEF Within
<1> QED  BY <1>2, <1>3

(* A jump that is taken leads forward, and not into the next section.      *)
LEMMA BranchOn ==
  ASSUME TypeInv, AddressInv, LoadInv, BlocksClosed(code), BranchesForward(code), err = "none",
         NEW at, InSectionAt(at), Reached(at, pc), Target # 0, op = "JMP", ~Leaves(code, pc)
  PROVE  /\ Target \in DOMAIN code /\ pc < Target /\ Reached(at, Target)
         /\ Succ(Target) = Target + 1 /\ Reached(at, Target + 1)
<1>1. /\ DOMAIN code = 1 .. Len(code) /\ Len(code) \in Nat /\ pc \in DOMAIN code
      /\ at \in DOMAIN code /\ at <= pc /\ now \in Scopes /\ arg \in Labels
  BY CodeTyped DEF TypeInv, TypeOK, InSectionAt, Reached, Scopes, op, arg
<1>2. Target \in DOMAIN code /\ code[Target].op = "LABEL" /\ code[Target].arg = code[pc].arg
  <2>1. labels \in [Scopes -> [Labels -> 0 .. Len(code)]]
    BY DEF TypeInv, TypeOK
  <2>2. Target \in 0 .. Len(code)
    BY <1>1, <2>1 DEF Target
  <2>3. code[Target].op = "LABEL" /\ code[Target].arg = arg
    BY <1>1 DEF AddressInv, Target
  <2> QED  BY <1>1, <2>2, <2>3 DEF arg
<1>3. PICK n : Within(code, n, at) /\ Within(code, n, pc) /\ code[n].arg = now
  BY SectionWithin
<1>4. PICK m : Within(code, m, Target) /\ code[m].arg = now
  BY <1>1 DEF LoadInv, Target
<1>5. n = m
  <2>1. Loaded(n) /\ Loaded(m)
    BY <1>3, <1>4 DEF Within, Loaded, Loading, InSectionAt
  <2>2. now # Root
    BY NamesAssumption DEF InSectionAt
  <2> QED  BY <1>3, <1>4, <2>1, <2>2 DEF LoadInv
<1>6. pc < Target /\ \A k \in DOMAIN code : pc < k /\ k <= Target => ~Boundary(code, k)
  <2>1. n \in DOMAIN code
    BY <1>3 DEF Within
  <2> QED  BY <1>1, <1>2, <1>3, <1>4, <1>5, <2>1 DEF BranchesForward, op
<1>7. Reached(at, Target)
  BY <1>1, <1>2, <1>6 DEF Reached
<1>8. Target # Len(code)
  BY <1>1, <1>2, <1>6 DEF BlocksClosed, EndsModule, Boundary
<1>9. Target + 1 \in DOMAIN code /\ ~Boundary(code, Target + 1)
  <2>1. Target + 1 \in DOMAIN code /\ (Target + 1) - 1 = Target
    BY <1>1, <1>2, <1>8
  <2> QED  BY <1>2, <2>1 DEF BlocksClosed, Leaves
<1> QED  BY <1>1, <1>2, <1>6, <1>7, <1>8, <1>9 DEF Reached, Succ

(* A declaration in a section is not one of those before it.               *)
LEMMA ObjectsApart ==
  ASSUME TypeInv, DeclarationsApart(code), op = "ALLOC", NEW at, InSectionAt(at),
         Reached(at, pc), NEW objs, Declared(objs, at, pc)
  PROVE  arg \notin Elements(objs)
<1>1. DOMAIN code = 1 .. Len(code) /\ Len(code) \in Nat /\ pc \in DOMAIN code
      /\ at \in DOMAIN code
  BY CodeTyped DEF TypeInv, TypeOK, InSectionAt
<1>2. SUFFICES ASSUME arg \in Elements(objs) PROVE FALSE
  OBVIOUS
<1>3. PICK i \in DOMAIN code : at < i /\ i < pc /\ code[i].op = "ALLOC" /\ code[i].arg = arg
  BY <1>2 DEF Declared
<1>4. PICK k \in DOMAIN code : i < k /\ k < pc /\ Boundary(code, k)
  BY <1>1, <1>3 DEF DeclarationsApart, op, arg
<1> QED  BY <1>1, <1>3, <1>4 DEF Reached

LEMMA SectionInvExecute ==
  ASSUME Exclusive, ~OutOfMemory, TypeInv, CallInv, AddressInv, ContextInv, ExclusiveInv,
         LifecycleInv, ErrorStopsCall, LoadInv, SectionInv, WellCompiled(code), WellDeclared(code),
         Execute, [Next]_vars, UNCHANGED code
  PROVE  SectionInv'
<1>1. /\ UNCHANGED <<loader, initAt, now, running, inits, labels, code>>
      /\ stage \in {"init", "section"} /\ pc # 0 /\ now \in Scopes
      /\ stage' = stage /\ ctx[now] # <<>>
      /\ \A s \in Scopes \ {now} : ctx'[s] = ctx[s]
      /\ ctx \in [Scopes -> Seq(SectionContext)] /\ pc \in DOMAIN code
      /\ DOMAIN code = 1 .. Len(code) /\ Len(code) \in Nat
  <2>1. /\ UNCHANGED <<loader, initAt, now, running, inits>>
        /\ stage \in {"init", "section"} /\ pc # 0 /\ now \in Scopes
        /\ stage' = stage \/ ctx[now] = <<>>
        /\ \A s \in Scopes \ {now} : ctx'[s] = ctx[s]
    BY ExecuteFrame
  <2>2. ctx[now] # <<>>
    <3>1. Executing
      BY DEF Execute, Skip, SystemCall, RefusedCall, MoveBool, Alloc, Use, ExecCrash, UnknownLabel,
             ChangeSection, Exit, Branch, Jumping
    <3> QED  BY <3>1 DEF ExclusiveInv
  <2>3. UNCHANGED <<labels, code>>
    BY <2>1 DEF loader
  <2>4. ctx \in [Scopes -> Seq(SectionContext)] /\ pc \in DOMAIN code
    BY <2>1 DEF TypeInv, TypeOK
  <2>5. DOMAIN code = 1 .. Len(code) /\ Len(code) \in Nat
    BY CodeTyped
  <2> QED  BY <2>1, <2>2, <2>3, <2>4, <2>5
<1>2. err # "none" => err' # "none"
  BY ErrorStays
<1>3. CASE stage = "init"
  <2>1. ctx' = ctx
    <3>1. InFiled(now) /\ Popped(now) = ctx[now]
      <4>1. Head(ctx[now]) = ctx[now][1] /\ ctx[now][1].at = 0
        BY <1>1, <1>3 DEF ContextInv
      <4> QED  BY <1>1, <4>1 DEF InFiled, Popped
    <3>2. ~ChangeSection
      <4>1. op = "JMP" => arg = "exit"
        BY <1>1, <1>3, InitialiserJumps DEF WellCompiled
      <4> QED  BY <4>1 DEF ChangeSection, Jumping
    <3>3. Alloc \/ Exit => ctx' = ctx
      BY <1>1, <3>1 DEF Alloc, Exit
    <3> QED
      BY <3>2, <3>3 DEF Execute, Skip, SystemCall, RefusedCall, MoveBool, Use, ExecCrash,
                         UnknownLabel, Branch, Fail
  <2> QED  BY <1>1, <1>2, <1>3, <2>1 DEF SectionInv
<1>4. CASE stage = "section"
  <2>1. PICK at : InSectionAt(at) /\ Len(ctx[now]) = 1 /\ ~InFiled(now)
    BY <1>1, <1>4, SectionRuns
  <2> DEFINE objs == ctx[now][1].objs
             Ran(p, a, o) == Reached(a, p) /\ Declared(o, a, p)
  <2>2. /\ at = ctx[now][1].at /\ at \in DOMAIN code /\ code[at].op = "LABEL"
        /\ \E l \in Labels : labels[now][l] = at
        /\ NoRepeats(objs) /\ objs \in Seq(Vars)
    <3>1. ctx[now][1] \in SectionContext
      BY <1>1
    <3> QED  BY <1>1, <2>1, <3>1 DEF InSectionAt, SectionInv, SectionContext
  <2>3. (err # "none" /\ pc = at) \/ Ran(pc, at, objs)
    BY <1>1, <1>4, <2>2 DEF SectionInv
  <2> HIDE DEF objs, Ran
  (* It is enough to look at the current module's context.                 *)
  <2>4. SUFFICES ASSUME ctx'[now] # <<>>
                 PROVE  /\ NoRepeats(ctx'[now][1].objs)
                        /\ ctx'[now][1].objs = <<>> \/ err' # "none" \/ pc' # 0
                        /\ ctx'[now][1].at # 0 =>
                             \E l \in Labels : labels[now][l] = ctx'[now][1].at
                        /\ pc' # 0 => Ran(pc', ctx'[now][1].at, ctx'[now][1].objs)
    <3>1. pc' # 0 => ctx'[now] # <<>>
      <4>1. ExclusiveInv'
        BY ExclusiveInvNext
      <4> QED  BY <1>1, <1>4, <4>1 DEF ExclusiveInv, Executing
    <3>2. ASSUME NEW s \in Scopes \ {now}, ctx[s] # <<>>
          PROVE  /\ NoRepeats(ctx[s][1].objs)
                 /\ ctx[s][1].objs = <<>> \/ err' # "none"
                 /\ ctx[s][1].at # 0 => \E l \in Labels : labels[s][l] = ctx[s][1].at
      BY <1>2, <3>2 DEF SectionInv
    <3>3. \A p, a, o : Ran(p, a, o) => Reached(a, p) /\ Declared(o, a, p)
      BY DEF Ran
    <3> QED  BY <1>1, <1>4, <3>1, <3>2, <3>3 DEF SectionInv, Reached, Declared
  <2>5. CASE ctx' = ctx /\ pc' = 0 /\ err' # "none"
    BY <2>2, <2>5 DEF objs
  <2>6. CASE ctx' = ctx /\ pc' = Succ(pc) /\ err' = "none" /\ ~Leaves(code, pc)
    <3>1. Ran(pc, at, objs)
      BY <1>2, <2>3, <2>6
    <3>2. pc' = pc + 1 /\ pc' # 0 /\ Reached(at, pc')
      BY <1>1, <2>1, <2>6, <3>1, StepOn DEF Ran, WellDeclared
    <3>3. Declared(objs, at, pc')
      BY <1>1, <2>2, <3>1, <3>2 DEF Ran, Declared
    <3> QED  BY <2>2, <2>6, <3>2, <3>3 DEF Ran, objs
  <2>7. CASE ctx' = ctx /\ Branch /\ result = "TRUE"
    <3>1. err = "none" /\ err' = err /\ pc' = Succ(Target) /\ Target # 0 /\ op = "JMP"
          /\ ~Leaves(code, pc)
      BY <2>7, TakenWithoutError DEF Branch, Jumping, Leaves, op, arg, Bools, Fail, WellCompiled
    <3>2. Ran(pc, at, objs)
      BY <2>3, <3>1
    <3>3. Target \in DOMAIN code /\ pc < Target /\ pc' = Target + 1 /\ Reached(at, pc')
      BY <2>1, <3>1, <3>2, BranchOn DEF Ran, WellDeclared
    <3>4. Declared(objs, at, pc')
      BY <1>1, <2>2, <3>2, <3>3 DEF Ran, Declared
    <3>5. pc' # 0
      BY <1>1, <3>3
    <3> QED  BY <2>2, <2>7, <3>3, <3>4, <3>5 DEF Ran, objs
  <2>8. CASE Alloc
    <3>1. /\ op = "ALLOC" /\ pc # at /\ err' = err /\ pc' = After(err, pc)
          /\ ctx' = [ctx EXCEPT ![now][1].objs = <<arg>> \o @] /\ arg \in Vars
      BY <1>1, <2>1, <2>2, <2>8, CodeTyped, AllocGranted DEF Alloc, op, arg
    <3>2. Ran(pc, at, objs)
      BY <2>3, <3>1
    <3>3. arg \notin Elements(objs)
      BY <2>1, <3>1, <3>2, ObjectsApart DEF Ran, WellDeclared
    <3>4. NoRepeats(<<arg>> \o objs) /\ Elements(<<arg>> \o objs) = Elements(objs) \cup {arg}
      BY <2>2, <3>1, <3>3, Prepended
    <3>5. ctx'[now][1].at = at /\ ctx'[now][1].objs = <<arg>> \o objs
      BY <1>1, <2>1, <2>2, <3>1 DEF objs
    <3>6. ASSUME err = "none" PROVE pc' # 0 /\ Ran(pc', at, <<arg>> \o objs)
      <4>1. ~Leaves(code, pc)
        BY <3>1 DEF Leaves, op
      <4>2. pc' = pc + 1 /\ pc' # 0 /\ Reached(at, pc')
        BY <1>1, <2>1, <3>1, <3>2, <3>6, <4>1, StepOn DEF Ran, WellDeclared, After, Errors
      <4>3. \A x \in Elements(objs) : \E i \in DOMAIN code :
              at < i /\ i < pc' /\ code[i].op = "ALLOC" /\ code[i].arg = x
        BY <1>1, <2>2, <3>2, <4>2 DEF Ran, Declared
      <4>4. at < pc /\ pc < pc' /\ code[pc].op = "ALLOC" /\ code[pc].arg = arg
        BY <1>1, <2>2, <3>1, <3>2, <4>2 DEF Ran, Reached, op, arg
      <4> QED  BY <1>1, <3>4, <4>2, <4>3, <4>4 DEF Ran, Declared
    <3> QED  BY <2>2, <3>1, <3>4, <3>5, <3>6, ExecuteReports DEF After
  <2>9. CASE ChangeSection
    <3>1. Popped(now) = <<>>
      BY <1>1, <1>4, PoppedSection DEF CallInv
    <3>2. ctx'[now] = <<Context(Target)>> \o <<>> /\ pc' = 0 /\ arg \in Labels
      BY <1>1, <2>9, <3>1, NamesAssumption DEF ChangeSection, Sections
    <3>3. ctx'[now] = <<Context(Target)>>
      BY <3>2
    <3> QED  BY <3>2, <3>3, NewContext DEF Target
  <2>10. CASE Exit
    <3>1. Popped(now) = <<>>
      BY <1>1, <1>4, PoppedSection DEF CallInv
    <3> QED  BY <1>1, <2>4, <2>10, <3>1 DEF Exit
  <2>11. ASSUME ~Alloc, ~ChangeSection, ~Exit, ~(Branch /\ result = "TRUE")
         PROVE  /\ ctx' = ctx
                /\ \/ pc' = 0 /\ err' # "none"
                   \/ pc' = Succ(pc) /\ err' = "none" /\ ~Leaves(code, pc)
    <3>1. ctx' = ctx
      BY <2>11 DEF Execute, Skip, SystemCall, RefusedCall, MoveBool, Use, ExecCrash,
                   UnknownLabel, Branch, Fail
    <3>2. ~ExecCrash
      BY <1>1 DEF ExecCrash
    <3>3. CASE Skip \/ SystemCall \/ MoveBool \/ Use
      <4>1. op # "JMP" /\ pc' = After(err', pc)
        BY <3>3 DEF Skip, SystemCall, MoveBool, Use, Ignored, Bools
      <4> QED  BY <3>1, <4>1, ExecuteReports DEF After, Leaves, op
    <3>4. CASE RefusedCall \/ UnknownLabel
      BY <3>1, <3>4, ExecuteReports
    <3>5. CASE Branch
      <4>1. pc' = After(err', pc) /\ op = "JMP" /\ arg \notin {"main", "end", "exit"}
        BY <2>11, <3>5 DEF Branch, Fail, Jumping
      <4> QED  BY <3>1, <4>1, ExecuteReports DEF After, Leaves, arg, op
    <3> QED  BY <2>11, <3>2, <3>3, <3>4, <3>5 DEF Execute
  <2>12. Branch /\ result = "TRUE" => ctx' = ctx
    BY DEF Branch, Fail
  <2> QED  BY <2>5, <2>6, <2>7, <2>8, <2>9, <2>10, <2>11, <2>12
<1> QED  BY <1>1, <1>3, <1>4

LEMMA SectionInvNext ==
  ASSUME AllCompiled, AllWellDeclared, Exclusive, ~OutOfMemory
  PROVE  /\ TypeInv /\ CallInv /\ AddressInv /\ ContextInv /\ ExclusiveInv /\ LifecycleInv
         /\ ErrorStopsCall /\ LoadInv /\ SectionInv /\ [Next]_vars
         => SectionInv'
<1> SUFFICES ASSUME TypeInv, CallInv, AddressInv, ContextInv, ExclusiveInv, LifecycleInv,
                    ErrorStopsCall, LoadInv, SectionInv, [Next]_vars
             PROVE  SectionInv'
  OBVIOUS
<1>1. WellCompiled(code) /\ WellDeclared(code)
  BY DEF AllCompiled, AllWellDeclared, TypeInv
<1>2. CASE UNCHANGED vars
  BY <1>2 DEF vars, SectionInv, Reached, Declared
<1>3. CASE Collect
  <2>1. stage = "collect" /\ stage' \in {"collect", "crashed"} /\ UNCHANGED ctx
    BY <1>3 DEF Collect, CollectName, CollectLabel, CollectOther, CollectCrash, Collecting
  <2>2. \A s \in Scopes : ctx[s] = <<>>
    BY <2>1 DEF CallInv
  <2> QED  BY <2>1, <2>2 DEF SectionInv
<1>4. CASE (StartGlobal \/ Run \/ \E m \in Hosted : Update(m)) /\ UNCHANGED code
  BY <1>1, <1>4, SectionInvCall DEF WellDeclared
<1>5. CASE Execute /\ UNCHANGED code
  BY <1>1, <1>5, SectionInvExecute
<1> QED  BY <1>2, <1>3, <1>4, <1>5 DEF Next, Machine, Host

-----------------------------------------------------------------------------
DeclareInv ==
  /\ TypeInv /\ CallInv /\ AddressInv /\ ContextInv /\ ExclusiveInv /\ LifecycleInv
  /\ ErrorStopsCall /\ LoadInv /\ FieldInv /\ SectionInv

LEMMA DeclareInvariant ==
  ASSUME AllCompiled, AllWellDeclared, Exclusive, ~OutOfMemory
  PROVE  Spec => []DeclareInv
<1>1. Init => DeclareInv
  BY TypeInvInit, CallInvInit, AddressInvInit, ContextInvInit, ExclusiveInvInit,
     LifecycleInvInit, ErrorStopsCallInit, LoadInvInit, FieldInvInit, SectionInvInit
  DEF DeclareInv
<1>2. DeclareInv /\ [Next]_vars => DeclareInv'
  BY TypeInvNext, CallInvNext, ContextInvNext, ExclusiveInvNext, LifecycleInvNext,
     ErrorStopsCallNext, LoadInvNext, FieldInvNext, SectionInvNext
  DEF DeclareInv
<1> QED  BY <1>1, <1>2, PTL DEF Spec

(* No table ever has two variables of one name: alloc_sce_vm_context_local *)
(* does not look for one (sce_run.c:1579-1593), and no declaration runs    *)
(* twice in the life of the table it goes to.                              *)
THEOREM VariablesDeclaredOnce ==
  ASSUME AllCompiled, AllWellDeclared, Exclusive, ~OutOfMemory
  PROVE  Spec => []DeclaredOnce
<1>1. DeclareInv => DeclaredOnce
  <2> SUFFICES ASSUME DeclareInv, NEW s \in Scopes, NEW k \in DOMAIN ctx[s]
               PROVE  NoRepeats(filed[s]) /\ NoRepeats(ctx[s][k].objs)
    BY DEF DeclareInv, DeclaredOnce, FieldInv
  <2>1. ctx[s] \in Seq(SectionContext)
    BY DEF DeclareInv, TypeInv, TypeOK
  <2>2. ctx[s] # <<>>
    BY <2>1
  <2>3. Len(ctx[s]) = 1
    BY <2>2 DEF DeclareInv, CallInv, InOneSection, ContextInv
  <2>4. k = 1
    BY <2>1, <2>3
  <2> QED  BY <2>2, <2>4 DEF DeclareInv, FieldInv, SectionInv
<1> QED  BY <1>1, DeclareInvariant, PTL

-----------------------------------------------------------------------------
(* Calls end.                                                              *)

(* A jump that is taken leads forward: there is none in an initialiser,    *)
(* and none is taken while an error is pending.                            *)
LEMMA BranchForward ==
  ASSUME ~OutOfMemory, DeclareInv, WellCompiled(code), WellDeclared(code), Execute, Branch,
         result = "TRUE"
  PROVE  pc' \in Nat /\ pc < pc'
<1>1. /\ op = "JMP" /\ Target # 0 /\ ~Leaves(code, pc) /\ arg # "exit" /\ pc' = Succ(Target)
      /\ stage \in {"init", "section"} /\ pc # 0
  BY ExecuteFrame DEF DeclareInv, Branch, Jumping, Leaves, op, arg, Bools, Fail
<1>2. stage = "section"
  BY <1>1, InitialiserJumps DEF DeclareInv, WellCompiled
<1>3. err = "none"
  BY TakenWithoutError DEF DeclareInv, WellCompiled
<1>4. PICK at : InSectionAt(at)
  BY <1>1, <1>2, SectionRuns DEF DeclareInv
<1>5. Reached(at, pc)
  <2>1. now \in Scopes /\ ctx[now] # <<>> /\ at = ctx[now][1].at
    BY <1>4 DEF InSectionAt, Scopes
  <2> QED  BY <1>1, <1>2, <1>3, <2>1 DEF DeclareInv, SectionInv, Reached
<1>6. Target \in DOMAIN code /\ pc < Target /\ Succ(Target) = Target + 1
  BY <1>1, <1>3, <1>4, <1>5, BranchOn DEF DeclareInv, WellDeclared
<1>7. DOMAIN code = 1 .. Len(code) /\ Len(code) \in Nat /\ pc \in 1 .. Len(code)
  BY <1>1, CodeTyped DEF DeclareInv, TypeInv, TypeOK
<1> QED  BY <1>1, <1>6, <1>7

(* Every call is one pass forward over the code, whatever the jumps and    *)
(* the order of updates: an update costs at most one turn of               *)
(* run_sce_vm_context_basic's loop per instruction (sce_run.c:600-703).    *)
THEOREM EveryCallGoesForward ==
  ASSUME AllCompiled, AllWellDeclared, Exclusive, ~OutOfMemory
  PROVE  Spec => CallsGoForward
<1>1. DeclareInv /\ [Next]_vars =>
        [Executing => pc' = 0 \/ pc < pc' \/ stage' = "crashed"]_vars
  <2> SUFFICES ASSUME DeclareInv, Next, Executing
               PROVE  pc' = 0 \/ pc < pc' \/ stage' = "crashed"
    OBVIOUS
  <2>1. Execute /\ WellCompiled(code) /\ WellDeclared(code)
    <3>1. Execute
      BY DEF Next, Machine, Host, Collect, CollectName, CollectLabel, CollectOther, CollectCrash,
             Collecting, StartGlobal, Run, FinishInit, Resume, EnterStart, NothingToRun,
             FinishRun, Update, Executing
    <3> QED  BY <3>1 DEF DeclareInv, TypeInv, AllCompiled, AllWellDeclared
  <2>2. pc \in Nat /\ (Succ(pc) = 0 \/ Succ(pc) = pc + 1)
    BY DEF DeclareInv, TypeInv, TypeOK, Succ
  <2>3. CASE Branch /\ result = "TRUE"
    BY <2>1, <2>3, BranchForward
  <2>4. CASE ~(Branch /\ result = "TRUE")
    <3>1. pc' = 0 \/ pc' = Succ(pc) \/ stage' = "crashed"
      BY <2>1, <2>4
      DEF Execute, Skip, SystemCall, RefusedCall, MoveBool, Alloc, Use, ExecCrash,
          UnknownLabel, ChangeSection, Exit, Branch, Fail, After
    <3> QED  BY <2>2, <3>1
  <2> QED  BY <2>3, <2>4
<1> QED  BY <1>1, DeclareInvariant, PTL DEF Spec, CallsGoForward

-----------------------------------------------------------------------------
(* Initialisers are found.                                                 *)

(* The initialiser of a scope that is loaded is behind its NAME_REPEAT,    *)
(* until it was run.                                                       *)
InitialiserInv ==
  err = "none" =>
    /\ Loading /\ inst # 1 /\ code[inst - 1].op = "NAME" => ~started
    /\ \A s \in Scopes : initAt[s] # 0 =>
         \E n : Loaded(n) /\ code[n].arg = s /\ initAt[s] = n + 2
    /\ \A n : Loaded(n) /\ inits[code[n].arg] = 0 /\ (Loading => n + 1 < inst) =>
         initAt[code[n].arg] = n + 2
    /\ stage \notin {"collect", "crashed"} => inits[Root] # 0

LEMMA InitialiserInvInit == Init => InitialiserInv
<1> SUFFICES ASSUME Init PROVE InitialiserInv
  OBVIOUS
<1>1. ASSUME NEW n, Loaded(n) PROVE FALSE
  <2>1. DOMAIN code = 1 .. Len(code) /\ Len(code) \in Nat
    BY ProgramsAssumption DEF Init
  <2> QED  BY <1>1, <2>1 DEF Init, Loaded, Loading
<1> QED  BY <1>1 DEF Init, InitialiserInv, Scopes

(* Until an error, a scope has one NAME.                                   *)
LEMMA OneName ==
  ASSUME TypeInv, LoadInv, GlobalsFirst(code), err = "none",
         NEW n, NEW k, Loaded(n), Loaded(k), code[n].arg = code[k].arg
  PROVE  n = k
<1>1. /\ n \in 1 .. Len(code) /\ k \in 1 .. Len(code) /\ Len(code) \in Nat
      /\ DOMAIN code = 1 .. Len(code) /\ code[n].op = "NAME" /\ code[k].op = "NAME"
  BY CodeTyped DEF Loaded, TypeInv, TypeOK
<1>2. n = k \/ code[n].arg = Root
  BY DEF LoadInv
<1>3. code[n].arg = Root => n = 1 /\ k = 1
  <2>1. \A i \in 1 .. Len(code) : code[i].op = "NAME" /\ code[i].arg = Root => ~(i > 1)
    BY <1>1 DEF GlobalsFirst
  <2>2. n \in Nat /\ n >= 1 /\ k \in Nat /\ k >= 1
    BY <1>1
  <2>3. code[n].arg = Root => ~(n > 1) /\ ~(k > 1)
    BY <1>1, <2>1
  <2> QED  BY <2>2, <2>3
<1> QED  BY <1>2, <1>3

LEMMA InitialiserInvCollect ==
  ASSUME ~OutOfMemory, TypeInv, CallInv, AddressInv, ExclusiveInv, LoadInv, LoadInv',
         InitialiserInv, GlobalsFirst(code), NamesRepeated(code), BlocksClosed(code),
         Collect, UNCHANGED code, err' = "none", err = "none"
  PROVE  InitialiserInv'
<1>1. /\ stage = "collect" /\ inst \in 1 .. Len(code) /\ Loading
      /\ DOMAIN code = 1 .. Len(code) /\ Len(code) \in Nat
  BY CodeTyped DEF Collect, CollectName, CollectLabel, CollectOther, CollectCrash,
                   Collecting, Loading, TypeInv, TypeOK
<1>2. Succ(inst) # 0 => Succ(inst) - 1 = inst /\ Succ(inst) = inst + 1
  BY <1>1 DEF Succ
<1>3. ~CollectCrash
  BY <1>1 DEF CollectCrash, NoScope, ExclusiveInv
<1>4. inst' = Succ(inst) /\ stage' = stage /\ UNCHANGED inits
  BY <1>1, <1>3 DEF Collect, CollectName, CollectLabel, CollectOther
<1>5. \A n : Loaded(n) => Loaded(n)'
  BY <1>1, <1>2, <1>4 DEF Loaded, Loading, TypeInv, TypeOK
<1>6. ASSUME NEW n, Loaded(n)', Loading' => n + 1 < inst'
      PROVE  Loaded(n) /\ (n + 1 < inst \/ n + 1 = inst)
  <2>1. n \in 1 .. Len(code) /\ code[n].op = "NAME"
    BY <1>1, <1>6 DEF Loaded
  <2>2. n # Len(code)
    BY <2>1 DEF BlocksClosed, EndsModule
  <2>3. n < inst /\ n + 1 <= inst
    BY <1>1, <1>2, <1>4, <1>6, <2>1, <2>2 DEF Loading, Succ
  <2> QED  BY <1>1, <2>1, <2>3 DEF Loaded
<1>7. CASE CollectName
  <2>1. Op = "NAME" /\ started' = FALSE /\ UNCHANGED initAt
    BY <1>7 DEF CollectName
  <2>2. ASSUME NEW n, Loaded(n), n + 1 = inst PROVE FALSE
    <3>1. code[n + 1].op = "REPEAT"
      BY <2>2 DEF Loaded, NamesRepeated
    <3> QED  BY <2>1, <2>2, <3>1 DEF Op
  <2>3. \A n : Loaded(n)' /\ (inits[code[n].arg] = 0)' /\ (Loading' => n + 1 < inst') =>
          initAt'[code[n].arg] = n + 2
    BY <1>1, <1>4, <1>6, <2>1, <2>2 DEF InitialiserInv
  <2>4. \A s \in Scopes : initAt'[s] # 0 =>
         \E n : Loaded(n)' /\ code[n].arg = s /\ initAt'[s] = n + 2
    BY <1>5, <2>1 DEF InitialiserInv
  <2> QED  BY <1>1, <1>4, <2>1, <2>3, <2>4 DEF InitialiserInv
<1>8. CASE CollectLabel \/ (CollectOther /\ started)
  <2>1. Op # "NAME" /\ UNCHANGED initAt
    BY <1>8 DEF CollectLabel, CollectOther
  <2>2. ASSUME NEW n, Loaded(n), n + 1 = inst PROVE FALSE
    <3>1. n \in 1 .. Len(code) /\ code[n].op = "NAME" /\ inst - 1 = n /\ inst # 1
      BY <1>1, <2>2 DEF Loaded
    <3>2. code[n + 1].op = "REPEAT"
      BY <1>1, <3>1 DEF NamesRepeated
    <3>3. ~started
      BY <1>1, <3>1 DEF InitialiserInv
    <3> QED  BY <1>8, <2>2, <3>2, <3>3 DEF CollectLabel, Op
  <2>3. \A n : Loaded(n)' /\ (inits[code[n].arg] = 0)' /\ (Loading' => n + 1 < inst') =>
          initAt'[code[n].arg] = n + 2
    BY <1>1, <1>4, <1>6, <2>1, <2>2 DEF InitialiserInv
  <2>4. \A s \in Scopes : initAt'[s] # 0 =>
         \E n : Loaded(n)' /\ code[n].arg = s /\ initAt'[s] = n + 2
    BY <1>5, <2>1 DEF InitialiserInv
  <2>5. Loading' => code[inst' - 1].op # "NAME"
    BY <1>2, <1>4, <2>1 DEF Loading, Op
  <2> QED  BY <1>1, <1>4, <2>3, <2>4, <2>5 DEF InitialiserInv
<1>9. CASE CollectOther /\ ~started
  <2>1. /\ Op \notin {"NAME", "LABEL"} /\ started' = TRUE /\ inst # 1
        /\ initAt' = [initAt EXCEPT ![Scope] = Succ(inst)]
    BY <1>9, CodeTyped DEF CollectOther, Op
  <2>2. PICK q \in DOMAIN code : q + 1 = inst /\ code[q].op = "NAME"
    <3>1. code[inst - 1].op = "NAME"
      BY <1>1, <1>9, <2>1 DEF AddressInv, Loading
    <3>2. inst - 1 \in DOMAIN code /\ (inst - 1) + 1 = inst
      BY <1>1, <2>1
    <3> QED  BY <3>1, <3>2
  <2>3. code[q].arg = Scope
    <3>1. PICK n : Within(code, n, inst - 1) /\ code[n].arg = Scope
      BY <1>1, <2>1 DEF LoadInv
    <3>2. n = q
      BY <1>1, <2>2, <3>1 DEF Within
    <3> QED  BY <3>1, <3>2
  <2>4. Loaded(q)
    BY <1>1, <2>2 DEF Loaded
  <2>5. Succ(inst) = q + 2
    <3>1. inst # Len(code)
      <4>1. code[inst].op = "REPEAT"
        BY <2>2 DEF NamesRepeated
      <4> QED  BY <1>1, <4>1 DEF BlocksClosed, EndsModule
    <3>2. inst \in Nat /\ Len(code) \in Nat /\ inst <= Len(code)
      BY <1>1
    <3>3. inst < Len(code)
      BY <3>1, <3>2
    <3>4. Succ(inst) = inst + 1
      BY <3>3 DEF Succ
    <3>5. q \in Nat
      BY <1>1
    <3> QED  BY <2>2, <3>4, <3>5
  <2>6. Scope \in Scopes /\ initAt \in [Scopes -> 0 .. Len(code)]
    BY <1>1, <2>2, <2>3, CodeTyped DEF TypeInv, TypeOK
  <2>7. initAt'[Scope] = q + 2 /\ \A s \in Scopes \ {Scope} : initAt'[s] = initAt[s]
    BY <2>1, <2>5, <2>6
  <2>8. ASSUME NEW n, Loaded(n)', inits[code[n].arg] = 0, Loading' => n + 1 < inst'
        PROVE  initAt'[code[n].arg] = n + 2
    <3>1. Loaded(n) /\ (n + 1 < inst \/ n + 1 = inst)
      BY <1>6, <2>8
    <3>2. CASE code[n].arg = Scope
      <4>1. n = q
        BY <2>3, <2>4, <3>1, <3>2, OneName
      <4> QED  BY <2>7, <3>2, <4>1
    <3>3. CASE code[n].arg # Scope
      <4>1. code[n].arg \in Scopes /\ n \in 1 .. Len(code)
        BY <1>1, <3>1, CodeTyped DEF Loaded
      <4>2. n # q
        BY <2>3, <3>3
      <4>3. n + 1 # inst
        BY <1>1, <2>2, <4>1, <4>2
      <4> QED  BY <1>1, <2>7, <2>8, <3>1, <3>3, <4>1, <4>3 DEF InitialiserInv
    <3> QED  BY <3>2, <3>3
  <2>9. \A s \in Scopes : initAt'[s] # 0 =>
         \E n : Loaded(n)' /\ code[n].arg = s /\ initAt'[s] = n + 2
    BY <1>5, <2>3, <2>4, <2>7 DEF InitialiserInv
  <2>10. Loading' => code[inst' - 1].op # "NAME"
    BY <1>2, <1>4, <2>1 DEF Loading, Op
  <2> QED  BY <1>1, <1>4, <2>8, <2>9, <2>10 DEF InitialiserInv
<1> QED  BY <1>3, <1>7, <1>8, <1>9 DEF Collect

LEMMA InitialiserInvNext ==
  ASSUME ~OutOfMemory, AllCompiled, AllWellDeclared
  PROVE  /\ TypeInv /\ CallInv /\ AddressInv /\ ExclusiveInv /\ FieldInv
         /\ LoadInv /\ LoadInv' /\ InitialiserInv /\ [Next]_vars
         => InitialiserInv'
<1> SUFFICES ASSUME TypeInv, CallInv, AddressInv, ExclusiveInv, FieldInv, LoadInv, LoadInv',
                    InitialiserInv, [Next]_vars, err' = "none"
             PROVE  InitialiserInv'
  BY DEF InitialiserInv
<1>1. err = "none"
  BY ErrorStays
<1>2. GlobalsFirst(code) /\ NamesRepeated(code) /\ BlocksClosed(code)
  BY DEF AllCompiled, WellCompiled, AllWellDeclared, WellDeclared, TypeInv
<1>3. inits \in [Scopes -> Nat] /\ initAt \in [Scopes -> 0 .. Len(code)] /\ Root \in Scopes
      /\ \A n : Loaded(n) => code[n].arg \in Scopes
  <2>1. DOMAIN code = 1 .. Len(code)
    BY CodeTyped DEF TypeInv, TypeOK
  <2> QED  BY <2>1, CodeTyped DEF TypeInv, TypeOK, Loaded, Scopes
<1>4. CASE Collect /\ UNCHANGED code
  BY <1>1, <1>2, <1>4, InitialiserInvCollect
(* Past loading, an initialiser is forgotten only when it was run.         *)
<1>5. ASSUME UNCHANGED code, ~Loading, ~Loading',
             \A s \in Scopes : inits[s] # 0 => inits'[s] # 0,
             \A s \in Scopes : initAt'[s] = initAt[s] \/ (initAt'[s] = 0 /\ inits[s] # 0),
             stage' \notin {"collect", "crashed"} => inits'[Root] # 0
      PROVE  InitialiserInv'
  <2>1. \A n : Loaded(n)' <=> Loaded(n)
    BY <1>5 DEF Loaded
  <2>2. \A s \in Scopes : initAt'[s] # 0 =>
          \E n : Loaded(n) /\ code[n].arg = s /\ initAt'[s] = n + 2
    BY <1>1, <1>5 DEF InitialiserInv
  <2>3. \A n : Loaded(n) /\ inits'[code[n].arg] = 0 => initAt'[code[n].arg] = n + 2
    BY <1>1, <1>3, <1>5 DEF InitialiserInv
  <2> QED  BY <1>5, <2>1, <2>2, <2>3 DEF InitialiserInv
<1>6. CASE UNCHANGED vars
  <2>1. (\A n : Loaded(n)' <=> Loaded(n)) /\ (Loading' <=> Loading)
    BY <1>6 DEF vars, Loaded, Loading
  <2> QED  BY <1>6, <2>1 DEF vars, InitialiserInv
<1>7. ASSUME NEW s \in Scopes, Initialise(s), UNCHANGED <<code, initAt>>, ~Loading,
             s = Root \/ inits[Root] # 0
      PROVE  InitialiserInv'
  <2>1. inits' = [inits EXCEPT ![s] = @ + 1] /\ stage' = "init"
    BY <1>7 DEF Initialise
  <2> QED  BY <1>3, <1>5, <1>7, <2>1 DEF Loading
<1>8. CASE StartGlobal /\ UNCHANGED code
  <2>1. Initialise(Root) /\ UNCHANGED initAt /\ ~Loading
    BY <1>8 DEF StartGlobal, Loading
  <2> QED  BY <1>3, <1>7, <1>8, <2>1
<1>9. CASE (\E m \in Hosted : Update(m)) /\ UNCHANGED code
  <2> PICK m \in Hosted : Update(m)
    BY <1>9
  <2>1. m \in Scopes /\ stage = "idle" /\ UNCHANGED initAt /\ inits[Root] # 0 /\ ~Loading
    BY <1>1, NamesAssumption DEF Scopes, Update, InitialiserInv, Loading
  <2>2. CASE initAt[m] # 0
    BY <1>7, <1>9, <2>1, <2>2 DEF Update
  <2>3. CASE initAt[m] = 0
    BY <1>5, <1>9, <2>1, <2>3 DEF Update, Loading
  <2> QED  BY <2>2, <2>3
<1>10. CASE Run /\ UNCHANGED code
  <2>1. UNCHANGED inits /\ ~Loading /\ ~Loading' /\ inits[Root] # 0
    BY <1>1, <1>10 DEF Run, FinishInit, Resume, EnterStart, NothingToRun, FinishRun,
                       Loading, InitialiserInv
  <2>2. \A s \in Scopes : initAt'[s] = initAt[s] \/ (initAt'[s] = 0 /\ inits[s] # 0)
    <3>1. CASE FinishInit
      <4>1. initAt' = [initAt EXCEPT ![now] = 0] /\ inits[now] # 0
        BY <3>1 DEF FinishInit, FieldInv
      <4> QED  BY <1>3, <4>1
    <3>2. CASE ~FinishInit
      BY <1>10, <3>2 DEF Run, Resume, EnterStart, NothingToRun, FinishRun
    <3> QED  BY <3>1, <3>2
  <2> QED  BY <1>5, <1>10, <2>1, <2>2
<1>11. CASE Execute /\ UNCHANGED code
  <2>1. UNCHANGED <<initAt, inits>> /\ ~Loading /\ ~Loading' /\ inits[Root] # 0
    BY <1>1, <1>11, ExecuteFrame DEF Loading, InitialiserInv
  <2> QED  BY <1>5, <1>11, <2>1
<1> QED  BY <1>4, <1>6, <1>8, <1>9, <1>10, <1>11 DEF Next, Machine, Host

-----------------------------------------------------------------------------
(* Names are found.                                                        *)

FieldsFiled(n, p) ==
  \A i \in DOMAIN code :
    n < i /\ i < p /\ code[i].op = "ALLOC" => code[i].arg \in Elements(filed[code[n].arg])

(* The fields of a scope whose initialiser was run are in its table, and   *)
(* those in front of pc while it runs; in a section, the objects every way *)
(* to pc declares are in the section's.                                    *)
FoundInv ==
  err = "none" =>
    /\ \A n : Loaded(n) /\ inits[code[n].arg] # 0 =>
         \/ stage = "init" /\ now = code[n].arg /\ pc # 0
         \/ \A i \in DOMAIN code :
              FieldAt(code, n, i) => code[i].arg \in Elements(filed[code[n].arg])
    /\ stage = "init" /\ pc # 0 =>
         \E n : /\ Loaded(n) /\ code[n].arg = now /\ n + 2 <= pc
                /\ NoJump(code, n, pc) /\ FieldsFiled(n, pc)
    /\ stage = "section" /\ pc # 0 =>
         \A i \in DOMAIN code :
           DeclaredAt(code, ctx[now][1].at, i, pc)
             => code[i].arg \in Elements(ctx[now][1].objs)

LEMMA FoundInvInit == Init => FoundInv
<1> SUFFICES ASSUME Init PROVE FoundInv
  OBVIOUS
<1>1. ASSUME NEW n, Loaded(n) PROVE FALSE
  <2>1. DOMAIN code = 1 .. Len(code) /\ Len(code) \in Nat
    BY ProgramsAssumption DEF Init
  <2> QED  BY <1>1, <2>1 DEF Init, Loaded, Loading
<1> QED  BY <1>1 DEF Init, FoundInv

(* Executing a declaration puts it into the current table; nothing is ever *)
(* taken out of a scope's.                                                 *)
LEMMA FiledGrows ==
  ASSUME ~OutOfMemory, TypeInv, CallInv, ContextInv, ExclusiveInv, Execute
  PROVE  /\ \A s \in Scopes : Elements(filed[s]) \subseteq Elements(filed'[s])
         /\ stage = "init" /\ op = "ALLOC" => arg \in Elements(filed'[now])
<1>1. /\ stage \in {"init", "section"} /\ pc \in 1 .. Len(code) /\ now \in Scopes
      /\ filed \in [Scopes -> Seq(Vars)] /\ ctx[now] # <<>> /\ ctx[now] \in Seq(SectionContext)
  BY ExecuteFrame, CodeTyped DEF ExclusiveInv, Executing, TypeInv, TypeOK
<1>2. CASE filed' = [filed EXCEPT ![now] = <<arg>> \o @] /\ op = "ALLOC"
  <2>1. arg \in Vars /\ filed[now] \in Seq(Vars)
    BY <1>1, <1>2, CodeTyped DEF op, arg
  <2>2. Elements(<<arg>> \o filed[now]) = Elements(filed[now]) \cup {arg}
    BY <2>1, Prepended
  <2> QED  BY <1>1, <1>2, <2>2
<1>3. CASE UNCHANGED filed /\ ~(stage = "init" /\ op = "ALLOC")
  BY <1>3
<1>4. stage = "init" => InFiled(now)
  <2>1. ctx[now][1] = Head(ctx[now])
    BY <1>1
  <2> QED  BY <1>1, <2>1 DEF InFiled, ContextInv
<1>5. CASE Alloc
  BY <1>2, <1>3, <1>4, <1>5, AllocGranted DEF Alloc
<1>6. CASE ~Alloc
  <2>1. UNCHANGED filed
    BY <1>6 DEF Execute, Skip, SystemCall, RefusedCall, MoveBool, Use, ExecCrash,
                UnknownLabel, ChangeSection, Exit, Branch
  <2>2. op # "ALLOC"
    BY <1>1, <1>6 DEF Execute, Skip, Ignored, SystemCall, RefusedCall, MoveBool, Bools, Use,
                ExecCrash, UnknownLabel, ChangeSection, Exit, Branch, Jumping
  <2> QED  BY <1>3, <2>1, <2>2
<1> QED  BY <1>5, <1>6

LEMMA FoundInvCall ==
  ASSUME TypeInv, CallInv, ExclusiveInv, LoadInv, FieldInv, InitialiserInv,
         FoundInv, NamesRepeated(code), UNCHANGED code, err = "none",
         StartGlobal \/ Run \/ \E m \in Hosted : Update(m)
  PROVE  FoundInv'
<1>1. /\ inits \in [Scopes -> Nat] /\ ctx \in [Scopes -> Seq(SectionContext)]
      /\ DOMAIN code = 1 .. Len(code) /\ Len(code) \in Nat
      /\ labels \in [Scopes -> [Labels -> 0 .. Len(code)]]
      /\ \A n : Loaded(n) => code[n].arg \in Scopes
  <2>1. DOMAIN code = 1 .. Len(code)
    BY DEF TypeInv, TypeOK
  <2> QED  BY <2>1, CodeTyped DEF TypeInv, TypeOK, Loaded
<1>2. /\ UNCHANGED filed /\ err' = "none" /\ ~Loading /\ ~Loading'
      /\ \A n : Loaded(n)' <=> Loaded(n)
  BY DEF StartGlobal, Initialise, Run, FinishInit, Resume, EnterStart, NothingToRun,
         FinishRun, Update, Loading, Loaded
(* A call that has not begun to run an initialiser.                        *)
<1>3. ASSUME stage' # "init", stage # "init" \/ pc = 0, UNCHANGED inits,
             stage' = "section" /\ pc' # 0 => \A i \in DOMAIN code :
               DeclaredAt(code, ctx'[now'][1].at, i, pc')
                 => code[i].arg \in Elements(ctx'[now'][1].objs)
      PROVE  FoundInv'
  BY <1>2, <1>3, err = "none" DEF FoundInv
<1>4. ASSUME NEW s \in Scopes, Initialise(s), UNCHANGED initAt, inits[s] = 0, stage # "init"
      PROVE  FoundInv'
  <2>1. /\ now' = s /\ pc' = initAt[s] /\ stage' = "init"
        /\ inits' = [inits EXCEPT ![s] = @ + 1]
    BY <1>4 DEF Initialise
  <2>2. ASSUME NEW n, Loaded(n), inits'[code[n].arg] # 0
        PROVE  \/ now' = code[n].arg /\ pc' # 0
               \/ \A i \in DOMAIN code :
                    FieldAt(code, n, i) => code[i].arg \in Elements(filed[code[n].arg])
    <3>1. CASE code[n].arg = s
      <4>1. initAt[s] = n + 2
        BY <1>2, <1>4, <2>2, <3>1, err = "none" DEF InitialiserInv
      <4>2. n \in Nat
        BY <1>1, <2>2 DEF Loaded
      <4> QED  BY <2>1, <3>1, <4>1, <4>2
    <3>2. CASE code[n].arg # s
      <4>1. inits[code[n].arg] # 0
        BY <1>1, <2>1, <2>2, <3>2
      <4> QED  BY <1>4, <2>2, <4>1, err = "none" DEF FoundInv
    <3> QED  BY <3>1, <3>2
  <2>3. ASSUME pc' # 0
        PROVE  \E n : /\ Loaded(n) /\ code[n].arg = s /\ n + 2 <= pc'
                      /\ NoJump(code, n, pc') /\ FieldsFiled(n, pc')
    <3>1. PICK n : Loaded(n) /\ code[n].arg = s /\ initAt[s] = n + 2
      BY <2>1, <2>3, err = "none" DEF InitialiserInv
    <3>2. n \in DOMAIN code /\ n \in Nat /\ code[n + 1].op = "REPEAT"
      BY <1>1, <3>1 DEF Loaded, NamesRepeated
    <3>3. \A i \in DOMAIN code : n < i /\ i < pc' => code[i].op = "REPEAT"
      <4> SUFFICES ASSUME NEW i \in DOMAIN code, n < i, i < pc' PROVE code[i].op = "REPEAT"
        OBVIOUS
      <4>1. i = n + 1
        BY <1>1, <2>1, <3>1, <3>2
      <4> QED  BY <3>2, <4>1
    <3> QED  BY <2>1, <3>1, <3>2, <3>3 DEF NoJump, FieldsFiled
  <2>4. \A n, p : FieldsFiled(n, p)' <=> FieldsFiled(n, p')
    BY <1>2 DEF FieldsFiled
  <2> QED  BY <1>2, <2>1, <2>2, <2>3, <2>4 DEF FoundInv, FieldsFiled
<1>5. CASE StartGlobal
  <2>1. Initialise(Root) /\ UNCHANGED initAt /\ Root \in Scopes /\ inits[Root] = 0
        /\ stage = "collect"
    BY <1>5 DEF StartGlobal, Scopes, CallInv
  <2> QED  BY <1>4, <2>1
<1>6. CASE \E m \in Hosted : Update(m)
  <2> PICK m \in Hosted : Update(m)
    BY <1>6
  <2>1. m \in Scopes /\ stage = "idle" /\ UNCHANGED initAt
    BY NamesAssumption DEF Scopes, Update
  <2>2. CASE initAt[m] # 0
    <3>1. inits[m] = 0
      BY <2>1, <2>2 DEF CallInv
    <3> QED  BY <1>4, <2>1, <2>2, <3>1 DEF Update
  <2>3. CASE initAt[m] = 0
    BY <1>3, <2>1, <2>3 DEF Update
  <2> QED  BY <2>2, <2>3
<1>7. CASE FinishInit \/ NothingToRun \/ FinishRun
  BY <1>3, <1>7 DEF FinishInit, NothingToRun, FinishRun
(* Nothing is declared between a section's label and the first instruction.*)
<1>8. ASSUME NEW at \in Nat, NEW p \in Nat, p <= at + 1, NEW i \in DOMAIN code
      PROVE  ~DeclaredAt(code, at, i, p)
  BY <1>1, <1>8 DEF DeclaredAt
<1>9. CASE Resume
  <2>1. /\ stage = "enter" /\ now' = now /\ ctx' = ctx /\ ctx[now] # <<>> /\ running = now
        /\ pc' = Head(ctx[now]).at /\ now \in Scopes /\ stage' = "section"
    BY <1>9 DEF Resume, ExclusiveInv, TypeInv
  <2>2. ctx[now][1] \in SectionContext /\ Head(ctx[now]) = ctx[now][1]
    BY <1>1, <2>1
  <2>3. pc' = ctx[now][1].at /\ pc' \in Nat
    BY <1>1, <2>1, <2>2 DEF SectionContext
  <2>4. \A i \in DOMAIN code : ~DeclaredAt(code, ctx[now][1].at, i, pc')
    BY <1>8, <2>3
  <2>5. UNCHANGED inits
    BY <1>9 DEF Resume
  <2> QED  BY <1>3, <2>1, <2>4, <2>5
<1>10. CASE EnterStart
  <2>1. /\ running \in Scopes /\ now' = running /\ pc' = Succ(labels[running]["start"])
        /\ ctx' = [ctx EXCEPT ![running] = <<Context(labels[running]["start"])>>]
        /\ stage = "enter" /\ stage' = "section" /\ UNCHANGED inits /\ "start" \in Labels
    BY <1>10, NamesAssumption DEF EnterStart, TypeInv, Sections
  <2>2. PICK at \in Nat : at = labels[running]["start"]
    BY <1>1, <2>1
  <2>3. ctx'[running] = <<Context(at)>>
    BY <1>1, <2>1, <2>2
  <2>4. ctx'[now'][1].at = at
    BY <2>1, <2>3, NewContext
  <2>5. pc' \in Nat /\ pc' <= at + 1
    BY <1>1, <2>1, <2>2 DEF Succ
  <2>6. \A i \in DOMAIN code : ~DeclaredAt(code, ctx'[now'][1].at, i, pc')
    BY <1>8, <2>4, <2>5
  <2> QED  BY <1>3, <2>1, <2>6
<1> QED  BY <1>5, <1>6, <1>7, <1>9, <1>10 DEF Run

(* An initialiser declares one object after the other, and then exits.     *)
LEMMA FoundInvInitialiser ==
  ASSUME ~OutOfMemory, TypeInv, CallInv, ContextInv, ExclusiveInv, LoadInv, FoundInv,
         InitialisersExit(code), BlocksClosed(code), GlobalsFirst(code),
         err = "none", err' = "none", stage = "init", Execute, UNCHANGED code
  PROVE  \/ /\ pc' # 0
            /\ \E n : /\ Loaded(n) /\ code[n].arg = now /\ n + 2 <= pc'
                      /\ NoJump(code, n, pc') /\ FieldsFiled(n, pc)'
         \/ /\ pc' = 0
            /\ \A n : Loaded(n) /\ code[n].arg = now =>
                 \A i \in DOMAIN code :
                   FieldAt(code, n, i) => code[i].arg \in Elements(filed'[now])
<1>1. /\ DOMAIN code = 1 .. Len(code) /\ Len(code) \in Nat /\ pc \in DOMAIN code
      /\ now \in Scopes /\ now' = now /\ pc # 0 /\ stage' = stage
  <2>1. ctx[now] # <<>>
    BY ExecuteFrame DEF ExclusiveInv, Executing
  <2> QED  BY <2>1, ExecuteFrame, CodeTyped DEF TypeInv, TypeOK
<1>2. PICK n : /\ Loaded(n) /\ code[n].arg = now /\ n + 2 <= pc
               /\ NoJump(code, n, pc) /\ FieldsFiled(n, pc)
  BY <1>1 DEF FoundInv
<1>3. n \in DOMAIN code /\ code[n].op = "NAME"
  BY <1>2 DEF Loaded
<1>4. /\ Elements(filed[now]) \subseteq Elements(filed'[now])
      /\ op = "ALLOC" => arg \in Elements(filed'[now])
  BY <1>1, FiledGrows
<1>5. CASE op # "JMP"
  <2>1. pc' = After(err', pc)
    BY <1>1, <1>5 DEF Execute, Skip, SystemCall, RefusedCall, MoveBool, Alloc, Use, ExecCrash,
                      UnknownLabel, ChangeSection, Exit, Branch, Jumping, After
  <2>2. pc # Len(code)
    <3> SUFFICES ASSUME pc = Len(code) PROVE FALSE
      OBVIOUS
    <3>1. Boundary(code, pc)
      BY DEF BlocksClosed, EndsModule, Boundary
    <3>2. pc > 1 /\ code[pc - 1].op = "JMP"
      BY <1>1, <3>1 DEF BlocksClosed, Leaves
    <3>3. pc - 1 \in DOMAIN code /\ n < pc - 1 /\ pc - 1 < pc
      BY <1>1, <1>2, <1>3, <3>2
    <3> QED  BY <1>2, <3>2, <3>3 DEF NoJump
  <2>3. pc' = pc + 1
    BY <1>1, <2>1, <2>2 DEF After, Succ, Errors
  <2>4. \A i \in DOMAIN code : n < i /\ i < pc' => (n < i /\ i < pc) \/ i = pc
    BY <1>1, <2>3
  <2>5. NoJump(code, n, pc')
    BY <1>2, <1>5, <2>4 DEF NoJump, op
  <2>6. ASSUME NEW i \in DOMAIN code, n < i, i < pc', code[i].op = "ALLOC"
        PROVE  code[i].arg \in Elements(filed'[now])
    BY <1>2, <1>4, <2>4, <2>6 DEF FieldsFiled, op, arg
  <2>7. FieldsFiled(n, pc)'
    BY <1>2, <2>6 DEF FieldsFiled
  <2> QED  BY <1>1, <1>2, <1>3, <2>3, <2>5, <2>7
<1>6. CASE op = "JMP"
  <2>1. pc' = 0
    <3>1. arg = "exit"
      BY <1>1, <1>6, InitialiserJumps
    <3>2. UnknownLabel => pc' = 0
      BY ExecuteReports
    <3>3. ~ExecCrash /\ ~RefusedCall /\ (ChangeSection => FALSE)
      BY <1>6, <3>1 DEF ExecCrash, RefusedCall, ChangeSection
    <3> QED
      BY <1>6, <3>1, <3>2, <3>3 DEF Execute, Skip, Ignored, SystemCall, MoveBool, Bools, Alloc,
                                    Use, Exit, Branch
  <2>2. ASSUME NEW k, Loaded(k), code[k].arg = now, NEW i \in DOMAIN code, FieldAt(code, k, i)
        PROVE  code[i].arg \in Elements(filed'[now])
    <3>1. k = n
      BY <1>2, <2>2, OneName
    <3>2. n <= i /\ code[i].op = "ALLOC" /\ NoJump(code, n, i)
      BY <2>2, <3>1 DEF FieldAt, Within
    <3>3. n # i /\ pc # i
      BY <1>3, <1>6, <3>2 DEF op
    <3>4. ~(pc < i)
      BY <1>1, <1>2, <1>3, <1>6, <3>2 DEF NoJump, op
    <3>5. n < i /\ i < pc
      BY <1>1, <1>3, <3>2, <3>3, <3>4
    <3> QED  BY <1>2, <1>4, <3>2, <3>5 DEF FieldsFiled
  <2> QED  BY <2>1, <2>2
<1> QED  BY <1>5, <1>6

(* In a section, what every way to the next instruction declares is in the *)
(* table.                                                                  *)
LEMMA FoundInvSection ==
  ASSUME ~OutOfMemory, TypeInv, CallInv, AddressInv, ContextInv, ExclusiveInv, LifecycleInv,
         LoadInv, SectionInv, FoundInv, BlocksClosed(code), BranchesForward(code),
         err = "none", err' = "none", stage = "section", Execute, UNCHANGED code, pc' # 0
  PROVE  \A i \in DOMAIN code :
           DeclaredAt(code, ctx'[now'][1].at, i, pc')
             => code[i].arg \in Elements(ctx'[now'][1].objs)
<1>1. /\ DOMAIN code = 1 .. Len(code) /\ Len(code) \in Nat /\ pc \in DOMAIN code
      /\ now \in Scopes /\ now' = now /\ pc # 0 /\ ctx \in [Scopes -> Seq(SectionContext)]
  BY ExecuteFrame, CodeTyped DEF TypeInv, TypeOK
<1>2. PICK at : InSectionAt(at) /\ Len(ctx[now]) = 1 /\ ~InFiled(now)
  BY <1>1, SectionRuns
<1>3. PICK objs \in Seq(Vars) : objs = ctx[now][1].objs
  <2>1. ctx[now] \in Seq(SectionContext)
    BY <1>1
  <2>2. ctx[now][1] \in SectionContext
    BY <1>2, <2>1
  <2> QED  BY <2>2 DEF SectionContext
<1>4. /\ at = ctx[now][1].at /\ at \in DOMAIN code /\ code[at].op = "LABEL"
      /\ Reached(at, pc)
      /\ \A i \in DOMAIN code : DeclaredAt(code, at, i, pc) => code[i].arg \in Elements(objs)
  BY <1>1, <1>2, <1>3 DEF InSectionAt, SectionInv, FoundInv
<1>5. ASSUME ~Alloc
      PROVE  /\ ctx' = ctx /\ op # "ALLOC"
             /\ \/ pc' = Succ(pc)
                \/ op = "JMP" /\ Target # 0 /\ ~Leaves(code, pc) /\ pc' = Succ(Target)
  <2>1. ~ChangeSection /\ ~Exit /\ ~ExecCrash /\ ~UnknownLabel /\ ~RefusedCall
    BY <1>2, ExecuteReports DEF ChangeSection, Exit, ExecCrash, InSectionAt
  <2>2. CASE Skip \/ SystemCall \/ MoveBool \/ Use
    BY <2>2 DEF Skip, Ignored, SystemCall, MoveBool, Bools, Use, After
  <2>3. CASE Branch
    <3>1. ~(result \notin Bools /\ Fail("invalid"))
      BY DEF Fail, Report, Lost
    <3> QED  BY <2>3, <3>1 DEF Branch, After, Jumping, Leaves, op, arg
  <2> QED  BY <1>5, <2>1, <2>2, <2>3 DEF Execute
<1>6. CASE Alloc
  <2>1. /\ op = "ALLOC" /\ pc' = Succ(pc) /\ arg \in Vars
        /\ ctx' = [ctx EXCEPT ![now][1].objs = <<arg>> \o @]
    BY <1>1, <1>2, <1>6, CodeTyped, AllocGranted DEF Alloc, After, op, arg
  <2>2. ctx'[now][1].at = at /\ ctx'[now][1].objs = <<arg>> \o objs
    BY <1>1, <1>2, <1>3, <1>4, <2>1
  <2>3. Elements(<<arg>> \o objs) = Elements(objs) \cup {arg}
    BY <2>1, Prepended
  <2>4. pc' = pc + 1
    BY <1>1, <2>1 DEF Succ
  <2>5. ASSUME NEW i \in DOMAIN code, DeclaredAt(code, at, i, pc')
        PROVE  i = pc \/ DeclaredAt(code, at, i, pc)
    <3>1. i # pc => i < pc
      BY <1>1, <2>4, <2>5 DEF DeclaredAt
    <3>2. \A k \in DOMAIN code : k < pc => k < pc'
      BY <1>1, <2>4
    <3> QED  BY <2>5, <3>1, <3>2 DEF DeclaredAt
  <2> QED  BY <1>1, <1>4, <2>2, <2>3, <2>5 DEF arg
<1>7. CASE ~Alloc /\ pc' = Succ(pc)
  <2>1. pc' = pc + 1 /\ ctx' = ctx /\ code[pc].op # "ALLOC"
    BY <1>1, <1>5, <1>7 DEF Succ, op
  <2>2. ASSUME NEW i \in DOMAIN code, DeclaredAt(code, at, i, pc')
        PROVE  DeclaredAt(code, at, i, pc)
    <3>1. i < pc
      BY <1>1, <2>1, <2>2 DEF DeclaredAt
    <3>2. \A k \in DOMAIN code : k < pc => k < pc'
      BY <1>1, <2>1
    <3> QED  BY <2>2, <3>1, <3>2 DEF DeclaredAt
  <2> QED  BY <1>1, <1>3, <1>4, <2>1, <2>2
(* A jump that is taken passes over no declaration of the ways to it.      *)
<1>8. CASE ~Alloc /\ op = "JMP" /\ Target # 0 /\ ~Leaves(code, pc) /\ pc' = Succ(Target)
  <2>1. Target \in DOMAIN code /\ pc < Target /\ pc' = Target + 1
    BY <1>2, <1>4, <1>8, BranchOn
  <2>2. code[Target].op = "LABEL" /\ code[Target].arg = code[pc].arg
    <3>1. arg \in Labels
      BY <1>1, <1>8, CodeTyped DEF op, arg
    <3> QED  BY <1>1, <1>8, <3>1 DEF AddressInv, Target, arg
  <2>3. at < pc
    <3>1. at # pc
      BY <1>4, <1>8 DEF op
    <3> QED  BY <1>1, <1>4, <3>1 DEF Reached
  <2>4. ASSUME NEW i \in DOMAIN code, DeclaredAt(code, at, i, pc')
        PROVE  DeclaredAt(code, at, i, pc)
    <3>1. at < i /\ i < pc' /\ code[i].op = "ALLOC"
      BY <2>4 DEF DeclaredAt
    <3>2. i # pc /\ i # Target
      BY <1>8, <2>2, <3>1 DEF op
    <3>3. ~(pc < i)
      <4> SUFFICES ASSUME pc < i PROVE FALSE
        OBVIOUS
      <4>1. i < Target /\ Target < pc'
        BY <1>1, <2>1, <3>1, <3>2
      <4> QED  BY <1>1, <1>8, <2>1, <2>2, <2>3, <2>4, <4>1 DEF DeclaredAt, op
    <3>4. i < pc /\ \A k \in DOMAIN code : k < pc => k < pc'
      BY <1>1, <2>1, <3>2, <3>3
    <3> QED  BY <2>4, <3>1, <3>4 DEF DeclaredAt
  <2> QED  BY <1>1, <1>3, <1>4, <1>5, <1>8, <2>4
<1> QED  BY <1>5, <1>6, <1>7, <1>8

LEMMA FoundInvNext ==
  ASSUME AllCompiled, AllWellDeclared, Exclusive, ~OutOfMemory
  PROVE  DeclareInv /\ InitialiserInv /\ FoundInv /\ [Next]_vars => FoundInv'
<1> SUFFICES ASSUME DeclareInv, InitialiserInv, FoundInv, [Next]_vars, err' = "none"
             PROVE  FoundInv'
  BY DEF FoundInv
<1>1. err = "none"
  BY ErrorStays
<1>2. /\ InitialisersExit(code) /\ BlocksClosed(code) /\ BranchesForward(code)
      /\ GlobalsFirst(code) /\ NamesRepeated(code)
  BY DEF AllCompiled, WellCompiled, AllWellDeclared, WellDeclared, DeclareInv, TypeInv
<1>3. /\ TypeInv /\ CallInv /\ AddressInv /\ ContextInv /\ ExclusiveInv /\ LifecycleInv
      /\ LoadInv /\ FieldInv /\ SectionInv
  BY DEF DeclareInv
<1>4. DOMAIN code = 1 .. Len(code) /\ \A n : Loaded(n) => code[n].arg \in Scopes
  <2>1. DOMAIN code = 1 .. Len(code)
    BY <1>3 DEF TypeInv, TypeOK
  <2> QED  BY <1>3, <2>1, CodeTyped DEF Loaded
<1>5. CASE UNCHANGED vars
  <2>1. \A n : Loaded(n)' <=> Loaded(n)
    BY <1>5 DEF vars, Loaded, Loading
  <2> QED  BY <1>5, <2>1 DEF vars, FoundInv, FieldsFiled
<1>6. CASE Collect /\ UNCHANGED code
  <2>1. stage' \in {"collect", "crashed"} /\ UNCHANGED inits /\ stage = "collect"
    BY <1>6 DEF Collect, CollectName, CollectLabel, CollectOther, CollectCrash, Collecting
  <2>2. \A n \in DOMAIN code : code[n].op = "NAME" => inits[code[n].arg] = 0
    BY <1>3, <1>4, <2>1, CodeTyped DEF CallInv
  <2>3. ASSUME NEW n, Loaded(n)' PROVE inits'[code'[n].arg] = 0
    BY <1>6, <2>1, <2>2, <2>3 DEF Loaded
  <2> QED  BY <2>1, <2>3 DEF FoundInv
<1>7. CASE (StartGlobal \/ Run \/ \E m \in Hosted : Update(m)) /\ UNCHANGED code
  BY <1>1, <1>2, <1>3, <1>7, FoundInvCall
<1>8. CASE Execute /\ UNCHANGED code
  <2>1. /\ UNCHANGED <<now, inits>> /\ stage \in {"init", "section"} /\ pc # 0 /\ now \in Scopes
        /\ stage' = stage
    BY <1>3, <1>8, ExecuteFrame DEF ExclusiveInv, Executing
  <2>2. \A n : Loaded(n)' <=> Loaded(n)
    BY <1>8, <2>1 DEF Loaded, Loading
  <2>3. \A s \in Scopes : Elements(filed[s]) \subseteq Elements(filed'[s])
    BY <1>3, <1>8, FiledGrows
  <2>4. ASSUME NEW n, Loaded(n), inits[code[n].arg] # 0
        PROVE  \/ stage = "init" /\ now = code[n].arg /\ pc # 0
               \/ \A i \in DOMAIN code :
                    FieldAt(code, n, i) => code[i].arg \in Elements(filed'[code[n].arg])
    BY <1>1, <1>4, <2>3, <2>4 DEF FoundInv
  <2>5. CASE stage = "init"
    <3>1. \/ /\ pc' # 0
             /\ \E n : /\ Loaded(n) /\ code[n].arg = now /\ n + 2 <= pc'
                       /\ NoJump(code, n, pc') /\ FieldsFiled(n, pc)'
          \/ /\ pc' = 0
             /\ \A n : Loaded(n) /\ code[n].arg = now =>
                  \A i \in DOMAIN code :
                    FieldAt(code, n, i) => code[i].arg \in Elements(filed'[now])
      BY <1>1, <1>2, <1>3, <1>8, <2>5, FoundInvInitialiser
    <3>2. ASSUME NEW n, Loaded(n), inits[code[n].arg] # 0
          PROVE  \/ now = code[n].arg /\ pc' # 0
                 \/ \A i \in DOMAIN code :
                      FieldAt(code, n, i) => code[i].arg \in Elements(filed'[code[n].arg])
      BY <2>4, <3>1, <3>2
    <3> QED  BY <1>8, <2>1, <2>2, <2>5, <3>1, <3>2 DEF FoundInv, FieldsFiled
  <2>6. CASE stage = "section"
    <3>1. pc' # 0 => \A i \in DOMAIN code :
            DeclaredAt(code, ctx'[now'][1].at, i, pc')
              => code[i].arg \in Elements(ctx'[now'][1].objs)
      BY <1>1, <1>2, <1>3, <1>8, <2>6, FoundInvSection
    <3> QED  BY <1>8, <2>1, <2>2, <2>4, <2>6, <3>1 DEF FoundInv
  <2> QED  BY <2>1, <2>5, <2>6
<1> QED  BY <1>5, <1>6, <1>7, <1>8 DEF Next, Machine, Host

(* A name used in a section is in one of the tables that are searched.     *)
LEMMA UsedFound ==
  ASSUME ~OutOfMemory, TypeInv, CallInv, ContextInv, ExclusiveInv, LifecycleInv, LoadInv, SectionInv,
         InitialiserInv, FoundInv, BlocksClosed(code), UsesDeclared(code),
         err = "none", Executing, op = "USE"
  PROVE  InFields(arg) \/ InFiled(now) \/ InSection(arg)
<1>1. /\ DOMAIN code = 1 .. Len(code) /\ Len(code) \in Nat /\ pc \in DOMAIN code
      /\ code[1].op = "NAME" /\ 1 \in DOMAIN code
      /\ pc # 0 /\ stage \in {"init", "section"} /\ ctx[now] # <<>> /\ now \in Scopes
      /\ ctx[now] \in Seq(SectionContext)
  BY CodeTyped DEF Executing, ExclusiveInv, TypeInv, TypeOK
<1>2. Head(ctx[now]) = ctx[now][1]
  BY <1>1
<1>3. CASE stage = "init"
  BY <1>1, <1>2, <1>3 DEF ContextInv, InFiled
<1>4. CASE stage = "section"
  <2>1. PICK at : InSectionAt(at) /\ Reached(at, pc)
    <3>1. PICK at : InSectionAt(at)
      BY <1>1, <1>4, SectionRuns
    <3>2. Reached(at, pc)
      BY <1>1, <1>4, <3>1 DEF SectionInv, InSectionAt
    <3> QED  BY <3>1, <3>2
  <2>2. /\ at = ctx[now][1].at /\ now \in Names /\ at \in DOMAIN code
        /\ code[at].op = "LABEL" /\ code[at].arg \in Sections
    BY <2>1 DEF InSectionAt
  <2>3. PICK n : Within(code, n, at) /\ Within(code, n, pc) /\ code[n].arg = now
    BY <2>1, SectionWithin
  <2>4. at < pc
    <3>1. at # pc
      BY <2>2, op = "USE" DEF op
    <3> QED  BY <1>1, <2>1, <2>2, <3>1 DEF Reached
  <2>5. n \in DOMAIN code /\ Loaded(n) /\ Loaded(1)
    BY <1>1, <1>4, <2>3 DEF Within, Loaded, Loading
  <2>6. PICK i \in DOMAIN code :
          /\ code[i].arg = arg
          /\ \/ DeclaredAt(code, at, i, pc) \/ FieldAt(code, n, i)
             \/ FieldAt(code, 1, i) /\ code[1].arg = Root
    BY <1>1, <2>1, <2>2, <2>3, <2>4, <2>5, op = "USE" DEF UsesDeclared, Reached, op, arg
  <2>7. CASE DeclaredAt(code, at, i, pc)
    BY <1>1, <1>2, <1>4, <2>2, <2>6, <2>7, err = "none" DEF FoundInv, InSection
  <2>8. CASE FieldAt(code, n, i)
    <3>1. inits[now] # 0
      <4>1. initAt[now] = 0
        BY <1>1, <1>4 DEF CallInv, ExclusiveInv
      <4>2. n \in Nat
        BY <1>1, <2>5
      <4> QED  BY <1>4, <2>3, <2>5, <4>1, <4>2, err = "none" DEF InitialiserInv, Loading
    <3>2. arg \in Elements(filed[now])
      BY <1>4, <2>3, <2>5, <2>6, <2>8, <3>1, err = "none" DEF FoundInv
    <3> QED  BY <3>2 DEF InFields
  <2>9. CASE FieldAt(code, 1, i) /\ code[1].arg = Root
    <3>1. inits[Root] # 0
      BY <1>4, err = "none" DEF InitialiserInv
    <3>2. arg \in Elements(filed[Root])
      BY <1>4, <2>5, <2>6, <2>9, <3>1, err = "none" DEF FoundInv
    <3> QED  BY <2>2, <3>2, NamesAssumption DEF InFields
  <2> QED  BY <2>6, <2>7, <2>8, <2>9
<1> QED  BY <1>1, <1>3, <1>4

(* Until a call fails, every name that is used is found: the tables that   *)
(* are alive when the code runs (sce_run.c:1873-1938) hold what the code   *)
(* generator resolved (sce_ir.c:44-56).                                    *)
THEOREM NamesAreFound ==
  ASSUME AllCompiled, AllWellDeclared, Exclusive, ~OutOfMemory
  PROVE  Spec => NamesFound
<1>1. Init => InitialiserInv /\ FoundInv
  BY InitialiserInvInit, FoundInvInit
<1>2. DeclareInv /\ DeclareInv' /\ InitialiserInv /\ FoundInv /\ [Next]_vars
        => InitialiserInv' /\ FoundInv'
  BY InitialiserInvNext, FoundInvNext DEF DeclareInv
<1>3. DeclareInv /\ InitialiserInv /\ FoundInv /\ [Next]_vars
        => [err = "none" => err' # "undefined"]_vars
  <2> SUFFICES ASSUME DeclareInv, InitialiserInv, FoundInv, [Next]_vars,
                      err = "none", err' = "undefined"
               PROVE  FALSE
    OBVIOUS
  <2>1. BlocksClosed(code) /\ UsesDeclared(code)
    BY DEF AllWellDeclared, WellDeclared, DeclareInv, TypeInv
  <2>2. CASE UNCHANGED vars
    BY <2>2 DEF vars
  <2>3. CASE Collect
    BY <2>3 DEF Collect, CollectName, CollectLabel, CollectOther, CollectCrash, Report, Lost
  <2>4. CASE StartGlobal \/ Run \/ \E m \in Hosted : Update(m)
    BY <2>4 DEF StartGlobal, Run, FinishInit, Resume, EnterStart, NothingToRun, FinishRun,
                Update
  <2>5. CASE Execute
    <3>1. Use
      BY <2>5 DEF Execute, Skip, SystemCall, RefusedCall, MoveBool, Alloc, ExecCrash,
                  UnknownLabel, ChangeSection, Exit, Branch, Fail, Report, Lost
    <3>2. Executing /\ op = "USE" /\ ~(InFields(arg) \/ InFiled(now) \/ InSection(arg))
      BY <3>1 DEF Use
    <3> QED  BY <2>1, <3>2, UsedFound DEF DeclareInv
  <2> QED  BY <2>2, <2>3, <2>4, <2>5 DEF Next, Machine, Host
<1> QED  BY <1>1, <1>2, <1>3, DeclareInvariant, PTL DEF Spec, NamesFound
=============================================================================
