--------------------------- MODULE VmControlProofs ---------------------------
(***************************************************************************)
(* What holds of VmControl for every set of programs, modules and labels.  *)
(***************************************************************************)
EXTENDS VmControl, SequenceTheorems, TLAPS

-----------------------------------------------------------------------------
(* Types.                                                                  *)

(* What the types rest on: the chain is one of Programs and is not         *)
(* changed, the loader knows its scope after the first instruction, a call *)
(* has a scope to resolve names in, and messages are not lost while memory *)
(* lasts.                                                                  *)
TypeInv ==
  /\ TypeOK
  /\ code \in Programs
  /\ inst # 1 => mode # "none"
  /\ stage \in {"idle", "init", "enter", "section"} => now \in Scopes
  /\ stage \in {"init", "enter", "section"} => running \in Scopes
  /\ ~OutOfMemory => err # Lost

(* An error sets a message or loses it, and only for want of memory.       *)
LEMMA Reported ==
  ASSUME NEW e \in Errors, Report(e)
  PROVE  /\ err' \in Errors \cup {"none", Lost}
         /\ ~OutOfMemory => err' \in Errors /\ err' # Lost /\ err' # "none"
  BY DEF Report, Grants, Errors, Lost

(* The chain is not empty, and its instructions have the names their       *)
(* opcodes promise.                                                        *)
LEMMA CodeTyped ==
  ASSUME TypeInv
  PROVE  /\ Len(code) \in Nat /\ Len(code) # 0
         /\ code[1].op = "NAME"
         /\ \A p \in 1 .. Len(code) :
              /\ code[p].op = "NAME" => code[p].arg \in Scopes
              /\ code[p].op \in {"LABEL", "JMP"} => code[p].arg \in Labels
              /\ code[p].op \in {"ALLOC", "USE"} => code[p].arg \in Vars
<1>1. code \in Seq(Instruction) /\ code # <<>> /\ code[1].op = "NAME"
      /\ \A p \in DOMAIN code :
           /\ code[p].op = "NAME" => code[p].arg \in Scopes
           /\ code[p].op \in {"LABEL", "JMP"} => code[p].arg \in Labels
           /\ code[p].op \in {"ALLOC", "USE"} => code[p].arg \in Vars
  BY ProgramsAssumption DEF TypeInv
<1>2. Len(code) \in Nat /\ DOMAIN code = 1 .. Len(code) /\ Len(code) # 0
  BY <1>1
<1> QED  BY <1>1, <1>2

(* The address after an address is an address.                             *)
LEMMA SuccTyped ==
  ASSUME TypeInv
  PROVE  /\ \A p \in 0 .. Len(code) : Succ(p) \in 0 .. Len(code)
         /\ \A p \in 1 .. Len(code) : Succ(p) # 1
         /\ \A e : \A p \in 0 .. Len(code) : After(e, p) \in 0 .. Len(code)
<1>1. Len(code) \in Nat /\ Len(code) # 0
  BY CodeTyped
<1>2. \A p \in 0 .. Len(code) : Succ(p) \in 0 .. Len(code)
  BY <1>1 DEF Succ
<1>3. \A p \in 1 .. Len(code) : Succ(p) # 1
  BY <1>1 DEF Succ
<1> QED  BY <1>1, <1>2, <1>3 DEF After

(* The stack under the current section is a stack of contexts.             *)
LEMMA PoppedTyped ==
  ASSUME TypeInv, NEW s \in Scopes
  PROVE  Popped(s) \in Seq(SectionContext)
<1>1. ctx[s] \in Seq(SectionContext)
  BY DEF TypeInv, TypeOK
<1>2. ctx[s] # <<>> => Tail(ctx[s]) \in Seq(SectionContext)
  BY <1>1
<1> QED  BY <1>1, <1>2 DEF Popped

LEMMA TypeInvInit == Init => TypeInv
<1> SUFFICES ASSUME Init PROVE TypeInv
  OBVIOUS
<1>1. code \in Programs /\ code \in Seq(Instruction) /\ code # <<>>
  BY ProgramsAssumption DEF Init
<1>2. Len(code) \in Nat /\ Len(code) # 0
  BY <1>1
<1>3. /\ labels \in [Scopes -> [Labels -> 0 .. Len(code)]]
      /\ initAt \in [Scopes -> 0 .. Len(code)]
      /\ inits \in [Scopes -> Nat]
      /\ inst \in 0 .. Len(code) /\ pc \in 0 .. Len(code)
  BY <1>2 DEF Init
<1>4. filed \in [Scopes -> Seq(Vars)] /\ ctx \in [Scopes -> Seq(SectionContext)]
  BY DEF Init
<1>5. modules \in Seq(Names)
  BY DEF Init
<1> QED
  BY <1>1, <1>3, <1>4, <1>5 DEF Init, TypeInv, TypeOK, Stages, Bools, Lost

(* A loader step keeps the types.                                          *)
LEMMA TypeInvCollect == TypeInv /\ Collect /\ UNCHANGED code => TypeInv'
<1> SUFFICES ASSUME TypeInv, Collect, UNCHANGED code
             PROVE  TypeInv'
  OBVIOUS
<1> USE DEF loader
<1>. SectionContext' = SectionContext
  BY DEF SectionContext
<1>1. inst \in 1 .. Len(code) /\ stage = "collect"
  BY CodeTyped DEF Collect, CollectName, CollectLabel, CollectOther, CollectCrash,
                   Collecting, TypeInv, TypeOK
<1>2. Succ(inst) \in 0 .. Len(code) /\ Succ(inst) # 1
  BY <1>1, SuccTyped, CodeTyped
<1>3. CASE CollectName
  <2>1. code[inst].arg \in Scopes
    BY <1>1, <1>3, CodeTyped DEF CollectName, Op
  <2>2. modules' \in Seq(Names)
    <3>1. modules' = modules \/ (Arg \in Names /\ modules' = <<Arg>> \o modules)
      BY <1>3 DEF CollectName
    <3>2. modules \in Seq(Names)
      BY DEF TypeInv, TypeOK
    <3>3. ASSUME Arg \in Names PROVE <<Arg>> \o modules \in Seq(Names)
      <4>1. <<Arg>> \in Seq(Names)
        BY <3>3
      <4> QED  BY <3>2, <4>1, ConcatProperties
    <3> QED  BY <3>1, <3>2, <3>3
  <2>3. err' \in Errors \cup {"none", Lost} /\ (~OutOfMemory => err' # Lost)
    BY <1>3, Reported DEF CollectName, Errors, TypeInv, TypeOK
  <2> QED
    BY <1>1, <1>2, <1>3, <2>2, <2>3 DEF CollectName, TypeInv, TypeOK
<1>4. CASE CollectLabel
  <2>1. code[inst].arg \in Labels
    BY <1>1, <1>4, CodeTyped DEF CollectLabel, Op
  <2>4. inst # 1
    BY <1>4, CodeTyped DEF CollectLabel, Op
  <2>2. labels' \in [Scopes -> [Labels -> 0 .. Len(code)]]
    <3>1. labels' = labels \/ labels' = [labels EXCEPT ![Scope][Arg] = inst]
      BY <1>4 DEF CollectLabel
    <3>2. inst \in 0 .. Len(code) /\ labels \in [Scopes -> [Labels -> 0 .. Len(code)]]
      BY DEF TypeInv, TypeOK
    <3>3. Scope \in Scopes
      BY <1>4, <2>4 DEF CollectLabel, NoScope, Scope, Scopes, TypeInv, TypeOK
    <3>4. [labels[Scope] EXCEPT ![Arg] = inst] \in [Labels -> 0 .. Len(code)]
      BY <2>1, <3>2, <3>3 DEF Arg
    <3> HIDE DEF Scope, Arg
    <3> QED  BY <3>1, <3>2, <3>3, <3>4
  <2>3. err' \in Errors \cup {"none", Lost} /\ (~OutOfMemory => err' # Lost)
    BY <1>4, Reported DEF CollectLabel, Errors, TypeInv, TypeOK
  <2> QED
    BY <1>1, <1>2, <1>4, <2>2, <2>3, <2>4 DEF CollectLabel, TypeInv, TypeOK
<1>5. CASE CollectOther
  <2>1. initAt' \in [Scopes -> 0 .. Len(code)] /\ started' \in BOOLEAN
    BY <1>2, <1>5 DEF CollectOther, TypeInv, TypeOK
  <2>2. inst # 1
    BY <1>5, CodeTyped DEF CollectOther, Op
  <2> QED
    BY <1>1, <1>2, <1>5, <2>1, <2>2 DEF CollectOther, TypeInv, TypeOK
<1>6. CASE CollectCrash
  BY <1>6 DEF CollectCrash, TypeInv, TypeOK, Stages
<1> QED  BY <1>3, <1>4, <1>5, <1>6 DEF Collect

(* A call's own steps keep the types.                                      *)
LEMMA InitialiseTyped ==
  ASSUME TypeInv, NEW s \in Scopes, Initialise(s), UNCHANGED <<loader, initAt, filed, result, err, code>>
  PROVE  TypeInv'
<1>1. Filed \in SectionContext
  BY CodeTyped DEF Filed, Context, SectionContext
<1>2. ctx' \in [Scopes -> Seq(SectionContext)]
  BY <1>1 DEF Initialise, TypeInv, TypeOK
<1>3. SectionContext' = SectionContext
  BY DEF SectionContext
<1>4. inits' \in [Scopes -> Nat]
  <2>1. inits \in [Scopes -> Nat]
    BY DEF TypeInv, TypeOK
  <2>2. inits' = [inits EXCEPT ![s] = inits[s] + 1]
    BY DEF Initialise
  <2>3. inits[s] + 1 \in Nat
    BY <2>1
  <2> QED  BY <2>1, <2>2, <2>3
<1> QED
  BY <1>2, <1>3, <1>4 DEF Initialise, TypeInv, TypeOK, Stages, loader

LEMMA TypeInvCall ==
  ASSUME TypeInv, UNCHANGED code,
         StartGlobal \/ Run \/ \E m \in Hosted : Update(m)
  PROVE  TypeInv'
<1> USE DEF loader
<1>1. SectionContext' = SectionContext
  BY DEF SectionContext
<1>2. Len(code) \in Nat /\ \A p \in 0 .. Len(code) : Succ(p) \in 0 .. Len(code)
  BY CodeTyped, SuccTyped
<1>3. CASE StartGlobal
  BY <1>3, InitialiseTyped DEF StartGlobal, Scopes
<1>4. CASE \E m \in Hosted : Update(m)
  <2> PICK m \in Hosted : Update(m)
    BY <1>4
  <2>1. m \in Scopes
    BY NamesAssumption DEF Scopes
  <2>2. CASE initAt[m] # 0
    BY <2>1, <2>2, InitialiseTyped DEF Update
  <2>3. CASE initAt[m] = 0
    BY <1>1, <2>1, <2>3 DEF Update, TypeInv, TypeOK, Stages
  <2> QED  BY <2>2, <2>3
<1>5. CASE FinishInit
  <2>1. ctx' \in [Scopes -> Seq(SectionContext)]
    BY <1>5 DEF FinishInit, TypeInv, TypeOK
  <2>2. initAt' \in [Scopes -> 0 .. Len(code)]
    BY <1>2, <1>5 DEF FinishInit, TypeInv, TypeOK
  <2> QED
    BY <1>1, <1>5, <2>1, <2>2 DEF FinishInit, TypeInv, TypeOK, Stages
<1>6. CASE Resume
  <2>1. Head(ctx[running]) \in SectionContext
    BY <1>6 DEF Resume, TypeInv, TypeOK
  <2>2. pc' \in 0 .. Len(code)
    BY <1>6, <2>1 DEF Resume, SectionContext
  <2> QED
    BY <1>1, <1>6, <2>2 DEF Resume, TypeInv, TypeOK, Stages
<1>7. CASE EnterStart
  <2>1. running \in Scopes /\ labels[running]["start"] \in 0 .. Len(code)
    BY <1>7, NamesAssumption DEF EnterStart, TypeInv, TypeOK, Sections
  <2>2. Context(labels[running]["start"]) \in SectionContext
    BY <2>1 DEF Context, SectionContext
  <2>3. ctx' \in [Scopes -> Seq(SectionContext)]
    BY <1>7, <2>1, <2>2 DEF EnterStart, TypeInv, TypeOK
  <2>4. pc' \in 0 .. Len(code)
    BY <1>2, <1>7, <2>1 DEF EnterStart
  <2> QED
    BY <1>1, <1>7, <2>1, <2>3, <2>4 DEF EnterStart, TypeInv, TypeOK, Stages
<1>8. CASE NothingToRun
  <2>1. stage = "enter" /\ stage' = "section" /\ pc' = 0
        /\ UNCHANGED <<loader, initAt, filed, ctx, now, running, result, err, inits>>
    BY <1>8 DEF NothingToRun
  <2>2. pc' \in 0 .. Len(code)
    BY <1>2, <2>1
  <2> QED
    BY <1>1, <2>1, <2>2 DEF TypeInv, TypeOK, Stages
<1>9. CASE FinishRun
  BY <1>1, <1>9 DEF FinishRun, TypeInv, TypeOK, Stages
<1> QED
  BY <1>3, <1>4, <1>5, <1>6, <1>7, <1>8, <1>9 DEF Run

(* A declaration changes the objects of the current context only.          *)
LEMMA AllocStack ==
  ASSUME TypeInv, Alloc, now \in Scopes, pc \in 1 .. Len(code),
         ctx' = [ctx EXCEPT ![now][1].objs = <<arg>> \o @]
  PROVE  /\ ctx' \in [Scopes -> Seq(SectionContext)]
         /\ Len(ctx'[now]) = Len(ctx[now]) /\ ctx'[now] # <<>>
         /\ ctx'[now][1].at = ctx[now][1].at
<1> DEFINE top == [ctx[now][1] EXCEPT !.objs = <<arg>> \o @]
<1>1. ctx \in [Scopes -> Seq(SectionContext)] /\ ctx[now] \in Seq(SectionContext)
      /\ ctx[now] # <<>>
  BY DEF Alloc, TypeInv, TypeOK
<1>2. ctx[now][1] \in SectionContext /\ 1 \in 1 .. Len(ctx[now])
  BY <1>1
<1>3. <<arg>> \o ctx[now][1].objs \in Seq(Vars)
  <2>1. arg \in Vars
    BY CodeTyped DEF Alloc, op, arg
  <2> QED  BY <1>2, <2>1, ConcatProperties DEF SectionContext
<1>4. top \in SectionContext /\ top.at = ctx[now][1].at
  BY <1>2, <1>3 DEF SectionContext
<1>5. ctx' = [ctx EXCEPT ![now] = [ctx[now] EXCEPT ![1] = top]]
  OBVIOUS
<1> HIDE DEF top
<1>6. /\ [ctx[now] EXCEPT ![1] = top] \in Seq(SectionContext)
      /\ Len([ctx[now] EXCEPT ![1] = top]) = Len(ctx[now])
      /\ [ctx[now] EXCEPT ![1] = top][1] = top
  BY <1>1, <1>2, <1>4, ExceptSeq
<1>7. ctx'[now] = [ctx[now] EXCEPT ![1] = top]
  BY <1>1, <1>5
<1>8. ctx' \in [Scopes -> Seq(SectionContext)]
  BY <1>1, <1>5, <1>6
<1>9. Len(ctx'[now]) # 0
  BY <1>2, <1>6, <1>7
<1> QED  BY <1>4, <1>6, <1>7, <1>8, <1>9

(* An instruction keeps the types.                                         *)
LEMMA TypeInvExecute ==
  ASSUME TypeInv, UNCHANGED code, Execute
  PROVE  TypeInv'
<1> USE DEF loader
<1>. SectionContext' = SectionContext
  BY DEF SectionContext
<1>1. /\ stage \in {"init", "section"}
      /\ pc \in 1 .. Len(code) /\ now \in Scopes /\ running \in Scopes
      /\ Len(code) \in Nat
  <2>1. stage \in {"init", "section"} /\ pc # 0
    BY DEF Execute, Skip, SystemCall, RefusedCall, MoveBool, Alloc, Use, ExecCrash,
           UnknownLabel, ChangeSection, Exit, Branch, Jumping, Executing
  <2>2. pc \in 0 .. Len(code) /\ Len(code) \in Nat
    BY CodeTyped DEF TypeInv, TypeOK
  <2> QED  BY <2>1, <2>2 DEF TypeInv
<1>2. \A e : After(e, pc) \in 0 .. Len(code)
  BY <1>1, SuccTyped
<1>3. 0 \in 0 .. Len(code)
  BY <1>1
<1>4. CASE Skip
  BY <1>1, <1>2, <1>4 DEF Skip, TypeInv, TypeOK
<1>5. CASE SystemCall
  BY <1>1, <1>2, <1>5 DEF SystemCall, TypeInv, TypeOK
<1>6. CASE RefusedCall
  <2>1. err' \in Errors \cup {"none", Lost} /\ (~OutOfMemory => err' # Lost)
    BY <1>6, Reported DEF RefusedCall, Errors
  <2>2. pc' \in 0 .. Len(code)
    BY <1>2, <1>6 DEF RefusedCall
  <2>3. result' \in Bools \cup {"other"}
    BY <1>6 DEF RefusedCall, TypeInv, TypeOK
  <2> QED
    BY <1>1, <1>6, <2>1, <2>2, <2>3 DEF RefusedCall, TypeInv, TypeOK
<1>7. CASE MoveBool
  <2>1. result' \in Bools
    BY <1>7 DEF MoveBool
  <2> QED
    BY <1>1, <1>2, <1>7, <2>1 DEF MoveBool, TypeInv, TypeOK
<1>8. CASE Alloc
  <2>1. arg \in Vars
    BY <1>1, <1>8, CodeTyped DEF Alloc, op, arg
  <2>2. \A q \in Seq(Vars) : <<arg>> \o q \in Seq(Vars)
    BY <2>1, ConcatProperties
  <2>3. filed' \in [Scopes -> Seq(Vars)] /\ ctx' \in [Scopes -> Seq(SectionContext)]
    <3>1. CASE UNCHANGED <<filed, ctx>>
      BY <3>1 DEF TypeInv, TypeOK
    <3>2. CASE filed' = [filed EXCEPT ![now] = <<arg>> \o @] /\ UNCHANGED ctx
      BY <1>1, <2>2, <3>2 DEF TypeInv, TypeOK
    <3>3. CASE ctx' = [ctx EXCEPT ![now][1].objs = <<arg>> \o @] /\ UNCHANGED filed
      BY <1>1, <1>8, <3>3, AllocStack DEF Alloc, TypeInv, TypeOK
    <3> QED  BY <1>8, <3>1, <3>2, <3>3 DEF Alloc
  <2> QED
    BY <1>1, <1>2, <1>8, <2>3 DEF Alloc, TypeInv, TypeOK
<1>9. CASE Use
  <2>1. err' \in Errors \cup {"none", Lost} /\ (~OutOfMemory => err' # Lost)
    BY <1>9, Reported DEF Use, Errors, TypeInv, TypeOK
  <2>2. pc' \in 0 .. Len(code)
    BY <1>2, <1>9 DEF Use
  <2> QED
    BY <1>1, <1>9, <2>1, <2>2 DEF Use, TypeInv, TypeOK
<1>10. CASE ExecCrash
  BY <1>10 DEF ExecCrash, TypeInv, TypeOK, Stages
<1>11. CASE UnknownLabel
  <2>1. err' \in Errors \cup {"none", Lost} /\ (~OutOfMemory => err' # Lost)
    BY <1>11, Reported DEF UnknownLabel, Fail, Errors
  <2>2. pc' \in 0 .. Len(code) /\ ctx' = ctx
    BY <1>2, <1>11 DEF UnknownLabel, Fail
  <2> QED
    BY <1>1, <1>11, <2>1, <2>2 DEF UnknownLabel, TypeInv, TypeOK
<1>12. CASE ChangeSection
  <2>1. arg \in Labels
    BY <1>1, <1>12, CodeTyped DEF ChangeSection, Jumping, op, arg
  <2>2. Target \in 0 .. Len(code)
    BY <1>1, <2>1 DEF Target, TypeInv, TypeOK
  <2>3. <<Context(Target)>> \o Popped(now) \in Seq(SectionContext)
        /\ Popped(now) \in Seq(SectionContext)
    <3>1. Context(Target) \in SectionContext
      BY <2>2 DEF Context, SectionContext
    <3>2. <<Context(Target)>> \in Seq(SectionContext)
      BY <3>1
    <3> QED  BY <1>1, <3>2, PoppedTyped, ConcatProperties
  <2>4. ctx' \in [Scopes -> Seq(SectionContext)]
    BY <1>1, <1>12, <2>3 DEF ChangeSection, TypeInv, TypeOK
  <2>5. err' \in Errors \cup {"none", Lost} /\ (~OutOfMemory => err' # Lost)
    BY <1>12, Reported DEF ChangeSection, Errors, TypeInv, TypeOK
  <2>6. pc' \in 0 .. Len(code)
    BY <1>2, <1>3, <1>12 DEF ChangeSection
  <2> QED
    BY <1>1, <1>12, <2>4, <2>5, <2>6 DEF ChangeSection, TypeInv, TypeOK
<1>13. CASE Exit
  <2>1. ctx' \in [Scopes -> Seq(SectionContext)]
    BY <1>1, <1>13, PoppedTyped DEF Exit, TypeInv, TypeOK
  <2> QED
    BY <1>1, <1>3, <1>13, <2>1 DEF Exit, TypeInv, TypeOK
<1>14. CASE Branch
  <2>1. arg \in Labels
    BY <1>1, <1>14, CodeTyped DEF Branch, Jumping, op, arg
  <2>2. Succ(Target) \in 0 .. Len(code)
    BY <1>1, <2>1, SuccTyped DEF Target, TypeInv, TypeOK
  <2>3. pc' \in 0 .. Len(code) /\ ctx' = ctx
    BY <1>2, <1>14, <2>2 DEF Branch, Fail
  <2>4. err' \in Errors \cup {"none", Lost} /\ (~OutOfMemory => err' # Lost)
    BY <1>14, Reported DEF Branch, Fail, Errors, TypeInv, TypeOK
  <2> QED
    BY <1>1, <1>14, <2>3, <2>4 DEF Branch, TypeInv, TypeOK
<1> QED
  BY <1>4, <1>5, <1>6, <1>7, <1>8, <1>9, <1>10, <1>11, <1>12, <1>13, <1>14 DEF Execute

LEMMA TypeInvNext == TypeInv /\ [Next]_vars => TypeInv'
<1> SUFFICES ASSUME TypeInv, [Next]_vars PROVE TypeInv'
  OBVIOUS
<1>1. CASE UNCHANGED vars
  <2>1. SectionContext' = SectionContext
    BY <1>1 DEF SectionContext, vars
  <2> QED
    BY <1>1, <2>1 DEF vars, TypeInv, TypeOK
<1>2. CASE Next
  BY <1>2, TypeInvCollect, TypeInvCall, TypeInvExecute DEF Next, Machine, Host
<1> QED  BY <1>1, <1>2

(* Every variable keeps its type, whatever the programs, the host's calls  *)
(* and the failed allocations.                                             *)
THEOREM TypeCorrect == Spec => []TypeOK
<1>1. TypeInv => TypeOK
  BY DEF TypeInv
<1> QED
  BY <1>1, TypeInvInit, TypeInvNext, PTL DEF Spec

-----------------------------------------------------------------------------
(* Initialisers and sections.                                              *)

(* What an instruction leaves alone, and the one stack it may change.      *)
LEMMA ExecuteFrame ==
  ASSUME TypeInv, Execute
  PROVE  /\ UNCHANGED <<loader, initAt, now, running, inits>>
         /\ stage \in {"init", "section"} /\ pc # 0 /\ now \in Scopes
         /\ stage' = stage \/ (stage' = "crashed" /\ ctx[now] = <<>> /\ ctx' = ctx)
         /\ \A s \in Scopes \ {now} : ctx'[s] = ctx[s]
<1>1. stage \in {"init", "section"} /\ pc # 0
  BY DEF Execute, Skip, SystemCall, RefusedCall, MoveBool, Alloc, Use, ExecCrash,
         UnknownLabel, ChangeSection, Exit, Branch, Jumping, Executing
<1>2. UNCHANGED <<loader, initAt, now, running, inits>>
  BY DEF Execute, Skip, SystemCall, RefusedCall, MoveBool, Alloc, Use, ExecCrash,
         UnknownLabel, ChangeSection, Exit, Branch, Fail
<1>3. stage' = stage \/ (stage' = "crashed" /\ ctx[now] = <<>> /\ ctx' = ctx)
  BY DEF Execute, Skip, SystemCall, RefusedCall, MoveBool, Alloc, Use, ExecCrash,
         UnknownLabel, ChangeSection, Exit, Branch, Fail
<1>4. ctx' = ctx \/ \E q : ctx' = [ctx EXCEPT ![now] = q]
  <2>1. CASE Alloc
    BY <2>1 DEF Alloc
  <2>2. CASE ChangeSection \/ Exit
    BY <2>2 DEF ChangeSection, Exit
  <2>3. CASE ~(Alloc \/ ChangeSection \/ Exit)
    BY <2>3 DEF Execute, Skip, SystemCall, RefusedCall, MoveBool, Use, ExecCrash,
                UnknownLabel, Branch, Fail
  <2> QED  BY <2>1, <2>2, <2>3
<1>5. ctx \in [Scopes -> Seq(SectionContext)]
  BY DEF TypeInv, TypeOK
<1> QED
  BY <1>1, <1>2, <1>3, <1>4, <1>5 DEF TypeInv

(* While memory lasts, an instruction keeps the error or sets a message,   *)
(* what sets one ends the call, and a declaration gets its object.         *)
LEMMA ExecuteReports ==
  ASSUME ~OutOfMemory, TypeInv, Execute
  PROVE  /\ err \in Errors \cup {"none"} /\ (err' \in Errors <=> err' # "none")
         /\ err' = err \/ err' \in Errors
         /\ RefusedCall \/ UnknownLabel => pc' = 0 /\ err' \in Errors /\ err' # "none"
<1>1. err' = err \/ \E e \in Errors : Report(e)
  BY DEF Execute, Skip, SystemCall, RefusedCall, MoveBool, Alloc, Use, ExecCrash,
         UnknownLabel, ChangeSection, Exit, Branch, Fail, Errors
<1>2. err \in Errors \cup {"none"}
  BY DEF TypeInv, TypeOK
<1>3. ASSUME RefusedCall \/ UnknownLabel
      PROVE  pc' = After(err', pc) /\ \E e \in Errors : Report(e)
  BY <1>3 DEF RefusedCall, UnknownLabel, Fail, Errors
<1>4. "none" \notin Errors
  BY DEF Errors
<1> QED  BY <1>1, <1>2, <1>3, <1>4, Reported DEF After

LEMMA AllocGranted ==
  ASSUME ~OutOfMemory, Alloc
  PROVE  IF InFiled(now)
           THEN filed' = [filed EXCEPT ![now] = <<arg>> \o @] /\ ctx' = ctx
           ELSE ctx' = [ctx EXCEPT ![now][1].objs = <<arg>> \o @] /\ filed' = filed
  BY DEF Alloc, GrantsObject, Grants

(* A scope's stack is empty or holds one section, save the global_filed of *)
(* the scope whose initialiser runs.                                       *)
InOneSection(s) == ctx[s] = <<>> \/ (Len(ctx[s]) = 1 /\ ctx[s][1].at # 0)

(* An initialiser that was run is gone, or is the one that runs.           *)
CallInv ==
  /\ \A s \in Scopes : (stage = "init" /\ s = now) \/ InOneSection(s)
  /\ stage = "collect" => \A s \in Scopes : ctx[s] = <<>> /\ inits[s] = 0
  /\ stage = "init" => now = running
  /\ \A s \in Scopes :
       /\ inits[s] <= 1
       /\ stage # "crashed" /\ inits[s] # 0 =>
            initAt[s] = 0 \/ (stage = "init" /\ s = now)
  /\ stage \in {"enter", "section"} => initAt[running] = 0

LEMMA CallInvInit == Init => CallInv
  BY DEF Init, CallInv, InOneSection

(* A section is left for one other: its context was the only one.          *)
LEMMA PoppedSection ==
  ASSUME TypeInv, NEW s \in Scopes, InOneSection(s)
  PROVE  Popped(s) = <<>>
<1>1. ctx[s] \in Seq(SectionContext)
  BY DEF TypeInv, TypeOK
<1>2. CASE ctx[s] = <<>>
  BY <1>2 DEF Popped
<1>3. CASE Len(ctx[s]) = 1 /\ ctx[s][1].at # 0
  <2>1. Head(ctx[s]).at # 0 /\ Tail(ctx[s]) \in Seq(SectionContext) /\ Len(Tail(ctx[s])) = 0
    BY <1>1, <1>3
  <2>2. Tail(ctx[s]) = <<>>
    BY <2>1, EmptySeq
  <2> QED  BY <2>1, <2>2, <1>3 DEF Popped, InFiled
<1> QED  BY <1>2, <1>3 DEF InOneSection

LEMMA CallInvExecute ==
  ASSUME TypeInv, CallInv, Execute
  PROVE  CallInv'
<1>1. /\ UNCHANGED <<loader, initAt, now, running, inits>>
      /\ stage \in {"init", "section"} /\ pc # 0 /\ now \in Scopes
      /\ stage' = stage \/ (stage' = "crashed" /\ ctx[now] = <<>> /\ ctx' = ctx)
      /\ \A s \in Scopes \ {now} : ctx'[s] = ctx[s]
  BY ExecuteFrame
<1>2. \A s \in Scopes \ {now} : InOneSection(s)'
  BY <1>1 DEF CallInv, InOneSection
<1>3. stage' = "init" \/ InOneSection(now)'
  <2>1. CASE stage' = "crashed"
    BY <1>1, <2>1 DEF InOneSection
  <2>2. CASE stage' = "section"
    <3>0. InOneSection(now) /\ ctx \in [Scopes -> Seq(SectionContext)]
      BY <1>1, <2>2 DEF CallInv, TypeInv, TypeOK
    <3>1. CASE ctx' = ctx
      BY <1>1, <3>0, <3>1 DEF InOneSection
    <3>2. CASE Alloc /\ ctx' # ctx
      <4>1. ctx' = [ctx EXCEPT ![now][1].objs = <<arg>> \o @] /\ ctx[now] # <<>>
        BY <3>2 DEF Alloc
      <4>2. /\ ctx[now] \in Seq(SectionContext) /\ Len(ctx[now]) = 1
            /\ ctx[now][1].at # 0
        BY <1>1, <3>0, <4>1 DEF InOneSection
      <4>3. pc \in 1 .. Len(code)
        BY <1>1, CodeTyped DEF TypeInv, TypeOK
      <4>4. Len(ctx'[now]) = 1 /\ ctx'[now][1].at = ctx[now][1].at
        BY <1>1, <3>2, <4>1, <4>2, <4>3, AllocStack
      <4> QED  BY <1>1, <4>2, <4>4 DEF InOneSection
    <3>3. CASE ChangeSection
      <4>1. Popped(now) = <<>>
        BY <1>1, <3>0, PoppedSection
      <4>2. ctx'[now] = <<Context(Target)>> \o <<>> \/ ctx'[now] = <<>>
        BY <1>1, <3>0, <3>3, <4>1 DEF ChangeSection
      <4>3. Target # 0
        BY <3>3 DEF ChangeSection
      <4>4. <<Context(Target)>> \o <<>> = <<Context(Target)>>
        OBVIOUS
      <4>5. Len(<<Context(Target)>>) = 1 /\ <<Context(Target)>>[1].at = Target
        BY DEF Context
      <4> QED  BY <1>1, <4>2, <4>3, <4>4, <4>5 DEF InOneSection
    <3>4. CASE Exit
      BY <1>1, <3>0, <3>4, PoppedSection DEF Exit, InOneSection
    <3>5. CASE ~(ctx' = ctx \/ Alloc \/ ChangeSection \/ Exit)
      BY <3>5 DEF Execute, Skip, SystemCall, RefusedCall, MoveBool, Use, ExecCrash,
                  UnknownLabel, Branch, Fail
    <3> QED  BY <3>1, <3>2, <3>3, <3>4, <3>5
  <2> QED  BY <1>1, <2>1, <2>2
<1> QED
  BY <1>1, <1>2, <1>3 DEF CallInv

LEMMA CallInvCall ==
  ASSUME TypeInv, CallInv,
         StartGlobal \/ Run \/ \E m \in Hosted : Update(m)
  PROVE  CallInv'
<1> USE DEF CallInv, InOneSection
<1>1. CASE StartGlobal
  BY <1>1 DEF StartGlobal, Initialise, Scopes, TypeInv, TypeOK
<1>2. CASE \E m \in Hosted : Update(m)
  <2> PICK m \in Hosted : Update(m)
    BY <1>2
  <2>1. m \in Scopes /\ stage = "idle"
    BY NamesAssumption DEF Scopes, Update
  <2>2. CASE initAt[m] # 0
    <3>1. inits[m] = 0
      BY <2>1, <2>2 DEF TypeInv, TypeOK
    <3>2. /\ stage' = "init" /\ now' = m /\ running' = m /\ initAt' = initAt
          /\ inits'[m] = 1 /\ \A s \in Scopes \ {m} : inits'[s] = inits[s] /\ ctx'[s] = ctx[s]
      BY <2>1, <2>2, <3>1 DEF Update, Initialise, TypeInv, TypeOK
    <3> QED  BY <2>1, <3>1, <3>2
  <2>3. CASE initAt[m] = 0
    BY <2>1, <2>3 DEF Update
  <2> QED  BY <2>2, <2>3
<1>3. CASE FinishInit
  BY <1>3 DEF FinishInit, TypeInv, TypeOK
<1>4. CASE Resume
  BY <1>4 DEF Resume
<1>5. CASE EnterStart
  <2>1. /\ Len(<<Context(labels[running]["start"])>>) = 1
        /\ <<Context(labels[running]["start"])>>[1].at # 0
    BY <1>5 DEF EnterStart, Context
  <2> QED  BY <1>5, <2>1 DEF EnterStart, TypeInv, TypeOK
<1>6. CASE NothingToRun
  BY <1>6 DEF NothingToRun
<1>7. CASE FinishRun
  BY <1>7 DEF FinishRun
<1> QED
  BY <1>1, <1>2, <1>3, <1>4, <1>5, <1>6, <1>7 DEF Run

LEMMA CallInvNext == TypeInv /\ CallInv /\ [Next]_vars => CallInv'
<1> SUFFICES ASSUME TypeInv, CallInv, [Next]_vars PROVE CallInv'
  OBVIOUS
<1>1. CASE UNCHANGED vars
  BY <1>1 DEF vars, CallInv, InOneSection
<1>2. CASE Collect
  <2>1. stage = "collect" /\ stage' \in {"collect", "crashed"} /\ UNCHANGED <<ctx, now, running, inits>>
    BY <1>2 DEF Collect, CollectName, CollectLabel, CollectOther, CollectCrash, Collecting
  <2> QED  BY <2>1 DEF CallInv, InOneSection
<1>3. CASE StartGlobal \/ Run \/ \E m \in Hosted : Update(m)
  BY <1>3, CallInvCall
<1>4. CASE Execute
  BY <1>4, CallInvExecute
<1> QED  BY <1>1, <1>2, <1>3, <1>4 DEF Next, Machine, Host

(* An initialiser runs at most once and before every section of its scope, *)
(* in every order of updates, after errors and failed allocations.         *)
THEOREM InitialisedOnce == Spec => []InitOnce
<1>1. TypeInv /\ CallInv => InitOnce
  BY DEF TypeInv, CallInv, InOneSection, InitOnce, InFiled, TypeOK
<1> QED
  BY <1>1, TypeInvInit, TypeInvNext, CallInvInit, CallInvNext, PTL DEF Spec

(* No scope is ever in two sections: label_context does not grow.          *)
THEOREM AtMostOneSection == Spec => []OneSection
<1>1. TypeInv /\ CallInv => OneSection
  <2>1. ASSUME NEW s, InOneSection(s) PROVE Len(ctx[s]) <= 1
    <3>1. CASE ctx[s] = <<>>
      <4>1. Len(ctx[s]) = 0
        BY <3>1
      <4> QED  BY <4>1
    <3>2. CASE Len(ctx[s]) = 1
      BY <3>2
    <3> QED  BY <2>1, <3>1, <3>2 DEF InOneSection
  <2> QED  BY <2>1 DEF CallInv, OneSection
<1> QED
  BY <1>1, TypeInvInit, TypeInvNext, CallInvInit, CallInvNext, PTL DEF Spec

-----------------------------------------------------------------------------
(* A host that updates one module at a time.                               *)

(* Only the current module is in a section; a call that has still to enter *)
(* one finds the other modules in none; while memory lasts, code runs in a *)
(* section's context and the loader has a module when it is in a module's  *)
(* code.                                                                   *)
ExclusiveInv ==
  /\ \A n \in Names : ctx[n] # <<>> => n = now
  /\ stage = "enter" => running \in Names /\ \A n \in Names \ {running} : ctx[n] = <<>>
  /\ stage = "section" /\ pc # 0 => now = running
  /\ Executing /\ ~OutOfMemory => ctx[now] # <<>>
  /\ mode = "local" /\ ~OutOfMemory => modules # <<>>
  /\ stage = "crashed" => OutOfMemory

LEMMA ExclusiveInvInit == Init => ExclusiveInv
<1> SUFFICES ASSUME Init PROVE ExclusiveInv
  OBVIOUS
<1>1. \A n \in Names : ctx[n] = <<>>
  BY DEF Init, Scopes
<1> QED  BY <1>1 DEF Init, ExclusiveInv, Executing

LEMMA ExclusiveInvCollect ==
  ASSUME TypeInv, CallInv, ExclusiveInv, Collect
  PROVE  ExclusiveInv'
<1>1. /\ stage = "collect" /\ stage' \in {"collect", "crashed"}
      /\ UNCHANGED <<ctx, now, running, pc>>
  BY DEF Collect, CollectName, CollectLabel, CollectOther, CollectCrash, Collecting
<1>2. mode' = "local" /\ ~OutOfMemory => modules' # <<>>
  <2>1. CASE CollectName
    <3>1. CASE modules' = modules /\ Arg \in Elements(modules)
      BY <3>1 DEF Elements
    <3>2. CASE ~OutOfMemory /\ modules' = <<Arg>> \o modules
      <4>1. modules \in Seq(Names)
        BY DEF TypeInv, TypeOK
      <4>2. Len(<<Arg>> \o modules) # 0
        BY <4>1
      <4> QED  BY <3>2, <4>2
    <3> QED  BY <2>1, <3>1, <3>2 DEF CollectName, Grants
  <2>2. CASE ~CollectName
    BY <2>2 DEF Collect, CollectLabel, CollectOther, CollectCrash, ExclusiveInv, loader
  <2> QED  BY <2>1, <2>2
<1>3. stage' = "crashed" => OutOfMemory
  BY <1>1 DEF Collect, CollectName, CollectLabel, CollectOther, CollectCrash, NoScope,
              ExclusiveInv
<1> QED
  BY <1>1, <1>2, <1>3 DEF ExclusiveInv, Executing

LEMMA ExclusiveInvCall ==
  ASSUME Exclusive, TypeInv, CallInv, ExclusiveInv,
         StartGlobal \/ Run \/ \E m \in Hosted : Update(m)
  PROVE  ExclusiveInv'
<1> USE DEF ExclusiveInv, Executing, loader
<1>1. ASSUME NEW s \in Scopes, Initialise(s), \A n \in Names \ {s} : ctx[n] = <<>>
      PROVE  /\ \A n \in Names : ctx'[n] # <<>> => n = now'
             /\ ctx'[now'] # <<>> /\ stage' = "init"
  BY <1>1 DEF Initialise, Scopes, TypeInv, TypeOK
<1>2. CASE StartGlobal
  <2>1. \A n \in Names \ {Root} : ctx[n] = <<>>
    BY <1>2 DEF StartGlobal, CallInv, Scopes
  <2>2. UNCHANGED <<mode, modules>> /\ Initialise(Root)
    BY <1>2 DEF StartGlobal
  <2> QED  BY <1>1, <2>1, <2>2 DEF Scopes
<1>3. CASE \E m \in Hosted : Update(m)
  <2> PICK m \in Hosted : Update(m)
    BY <1>3
  <2>1. m \in Names /\ m \in Scopes /\ \A n \in Names \ {m} : ctx[n] = <<>>
    BY NamesAssumption DEF Scopes, Update
  <2>2. CASE initAt[m] # 0
    BY <1>1, <2>1, <2>2 DEF Update
  <2>3. CASE initAt[m] = 0
    BY <2>1, <2>3 DEF Update
  <2> QED  BY <2>2, <2>3
<1>4. CASE FinishInit
  BY <1>4 DEF FinishInit, CallInv, Scopes, TypeInv, TypeOK
<1>5. CASE Resume
  <2>1. running = now
    BY <1>5 DEF Resume
  <2> QED  BY <1>5, <2>1 DEF Resume
<1>6. CASE EnterStart
  BY <1>6 DEF EnterStart, Scopes, TypeInv, TypeOK
<1>7. CASE NothingToRun
  BY <1>7 DEF NothingToRun
<1>8. CASE FinishRun
  BY <1>8 DEF FinishRun
<1> QED
  BY <1>2, <1>3, <1>4, <1>5, <1>6, <1>7, <1>8 DEF Run

LEMMA ExclusiveInvExecute ==
  ASSUME Exclusive, TypeInv, CallInv, ExclusiveInv, Execute
  PROVE  ExclusiveInv'
<1>1. /\ UNCHANGED <<loader, initAt, now, running, inits>>
      /\ stage \in {"init", "section"} /\ pc # 0 /\ now \in Scopes
      /\ stage' = stage \/ (stage' = "crashed" /\ ctx[now] = <<>> /\ ctx' = ctx)
      /\ \A s \in Scopes \ {now} : ctx'[s] = ctx[s]
  BY ExecuteFrame
<1>2. ~OutOfMemory => ctx[now] # <<>>
  BY <1>1 DEF ExclusiveInv, Executing
<1>3. stage' = stage \/ (stage' = "crashed" /\ OutOfMemory)
  BY <1>1, <1>2
<1>4. ~OutOfMemory /\ pc' # 0 => ctx'[now] # <<>>
  <2>1. CASE Alloc
    <3>1. ctx' = ctx \/ ctx' = [ctx EXCEPT ![now][1].objs = <<arg>> \o @]
      BY <2>1 DEF Alloc
    <3>2. pc \in 1 .. Len(code)
      BY <1>1, CodeTyped DEF TypeInv, TypeOK
    <3> QED  BY <1>1, <1>2, <2>1, <3>1, <3>2, AllocStack
  <2>2. CASE ChangeSection \/ Exit
    BY <2>2 DEF ChangeSection, Exit
  <2>3. CASE ~(Alloc \/ ChangeSection \/ Exit)
    BY <1>2, <2>3 DEF Execute, Skip, SystemCall, RefusedCall, MoveBool, Use, ExecCrash,
                UnknownLabel, Branch, Fail
  <2> QED  BY <2>1, <2>2, <2>3
<1>5. \A n \in Names : ctx'[n] # <<>> => n = now
  BY <1>1 DEF ExclusiveInv, Scopes
<1> QED
  BY <1>1, <1>3, <1>4, <1>5 DEF ExclusiveInv, Executing, loader

LEMMA ExclusiveInvNext ==
  ASSUME Exclusive
  PROVE  TypeInv /\ CallInv /\ ExclusiveInv /\ [Next]_vars => ExclusiveInv'
<1> SUFFICES ASSUME TypeInv, CallInv, ExclusiveInv, [Next]_vars PROVE ExclusiveInv'
  OBVIOUS
<1>1. CASE UNCHANGED vars
  BY <1>1 DEF vars, ExclusiveInv, Executing
<1>2. CASE Next
  BY <1>2, ExclusiveInvCollect, ExclusiveInvCall, ExclusiveInvExecute
  DEF Next, Machine, Host
<1> QED  BY <1>1, <1>2

(* While the host keeps to one module at a time, a call looks names and    *)
(* labels up in the tables of the module it is for, after errors and failed*)
(* allocations too.                                                        *)
THEOREM CodeRunsInItsScope == ASSUME Exclusive PROVE Spec => []RunsInOwnScope
<1>1. ExclusiveInv => RunsInOwnScope
  BY DEF ExclusiveInv, RunsInOwnScope
<1> QED
  BY <1>1, TypeInvInit, TypeInvNext, CallInvInit, CallInvNext, ExclusiveInvInit,
     ExclusiveInvNext, PTL DEF Spec

(* And no NULL module or context is followed, as long as memory lasts.     *)
THEOREM NoCrash == ASSUME Exclusive, ~OutOfMemory PROVE Spec => []NoNullContext
<1>1. ExclusiveInv => NoNullContext
  BY DEF ExclusiveInv, NoNullContext
<1> QED
  BY <1>1, TypeInvInit, TypeInvNext, CallInvInit, CallInvNext, ExclusiveInvInit,
     ExclusiveInvNext, PTL DEF Spec

-----------------------------------------------------------------------------
(* Compiled programs.                                                      *)

(* Addresses are where they should be: a label's at its LABEL, an          *)
(* initialiser's behind a REPEAT, for the loader takes what is directly    *)
(* behind a NAME.                                                          *)
AddressInv ==
  /\ stage = "collect" /\ ~started /\ inst # 0 /\ inst # 1 => code[inst - 1].op = "NAME"
  /\ \A s \in Scopes : \A l \in Labels :
       labels[s][l] # 0 => code[labels[s][l]].op = "LABEL" /\ code[labels[s][l]].arg = l
  /\ \A s \in Scopes :
       initAt[s] # 0 => initAt[s] > 1 /\ code[initAt[s] - 1].op = "REPEAT"

LEMMA AddressInvInit == Init => AddressInv
  BY DEF Init, AddressInv, Scopes

LEMMA AddressInvCollect ==
  ASSUME TypeInv, AddressInv, NamesRepeated(code), Collect, UNCHANGED code
  PROVE  AddressInv'
<1>1. /\ stage = "collect" /\ inst \in 1 .. Len(code)
      /\ DOMAIN code = 1 .. Len(code)
  BY CodeTyped DEF Collect, CollectName, CollectLabel, CollectOther, CollectCrash,
                   Collecting, TypeInv, TypeOK
<1>3. Succ(inst) # 0 => Succ(inst) - 1 = inst /\ Succ(inst) > 1
  BY <1>1 DEF Succ
<1>4. CASE CollectName
  <2>1. inst' = Succ(inst) /\ Op = "NAME" /\ UNCHANGED <<labels, initAt>>
    BY <1>4 DEF CollectName
  <2> QED  BY <1>3, <2>1 DEF AddressInv, Op
<1>5. CASE CollectLabel
  <2>0. Op = "LABEL" /\ started' /\ UNCHANGED initAt
        /\ (labels' = labels \/ labels' = [labels EXCEPT ![Scope][Arg] = inst])
    BY <1>5 DEF CollectLabel
  <2>1. ASSUME NEW s \in Scopes, NEW l \in Labels, labels'[s][l] # 0
        PROVE  code[labels'[s][l]].op = "LABEL" /\ code[labels'[s][l]].arg = l
    <3>1. labels'[s][l] = labels[s][l] \/ (labels'[s][l] = inst /\ l = Arg)
      <4> labels \in [Scopes -> [Labels -> 0 .. Len(code)]]
        BY DEF TypeInv, TypeOK
      <4> QED  BY <2>0
    <3> QED  BY <2>0, <2>1, <3>1 DEF AddressInv, Op, Arg
  <2> QED  BY <2>0, <2>1 DEF AddressInv
<1>6. CASE CollectOther
  <2>1. CASE started
    BY <1>6, <2>1 DEF CollectOther, AddressInv
  <2>2. CASE ~started
    <3>1. /\ Op \notin {"NAME", "LABEL"} /\ started' /\ UNCHANGED labels
          /\ initAt' = [initAt EXCEPT ![Scope] = Succ(inst)]
      BY <1>6, <2>2 DEF CollectOther
    <3>2. inst # 1 /\ code[inst - 1].op = "NAME"
      BY <1>1, <2>2, <3>1, CodeTyped DEF AddressInv, Op
    <3>3. code[inst].op = "REPEAT"
      <4>1. inst - 1 \in DOMAIN code /\ (inst - 1) + 1 = inst
        BY <1>1, <3>2
      <4> QED  BY <3>2, <4>1 DEF NamesRepeated
    <3>4. \A s \in Scopes : initAt'[s] = initAt[s] \/ initAt'[s] = Succ(inst)
      BY <3>1 DEF TypeInv, TypeOK
    <3> QED  BY <1>3, <3>1, <3>3, <3>4 DEF AddressInv
  <2> QED  BY <2>1, <2>2
<1>7. CASE CollectCrash
  BY <1>7 DEF CollectCrash, AddressInv, loader
<1> QED  BY <1>4, <1>5, <1>6, <1>7 DEF Collect

LEMMA AddressInvNext ==
  ASSUME NamesRepeated(code)
  PROVE  TypeInv /\ AddressInv /\ [Next]_vars => AddressInv'
<1> SUFFICES ASSUME TypeInv, AddressInv, [Next]_vars PROVE AddressInv'
  OBVIOUS
<1>1. CASE UNCHANGED vars
  BY <1>1 DEF vars, AddressInv
<1>2. CASE Collect /\ UNCHANGED code
  BY <1>2, AddressInvCollect
<1>3. CASE (StartGlobal \/ Run \/ \E m \in Hosted : Update(m)) /\ UNCHANGED code
  <2>1. /\ UNCHANGED labels /\ stage' # "collect"
        /\ \A s \in Scopes : initAt'[s] # 0 => initAt'[s] = initAt[s]
    BY <1>3 DEF StartGlobal, Initialise, Update, Run, FinishInit, Resume, EnterStart,
                NothingToRun, FinishRun, loader, TypeInv, TypeOK
  <2> QED  BY <1>3, <2>1 DEF AddressInv
<1>4. CASE Execute /\ UNCHANGED code
  <2>1. UNCHANGED <<loader, initAt>> /\ stage' # "collect"
    BY <1>4, ExecuteFrame
  <2> QED  BY <1>4, <2>1 DEF AddressInv, loader
<1> QED  BY <1>1, <1>2, <1>3, <1>4 DEF Next, Machine, Host

(* While memory lasts, an initialiser runs in global_filed, from its REPEAT*)
(* on and over no jump; every other context is one of a start, main or end *)
(* section.                                                                *)
ContextInv ==
  /\ stage = "init" =>
       /\ Len(ctx[now]) = 1 /\ ctx[now][1].at = 0
       /\ pc # 0 => \E r \in DOMAIN code : r < pc /\ code[r].op = "REPEAT" /\ NoJump(code, r, pc)
  /\ \A s \in Scopes : ctx[s] # <<>> /\ ctx[s][1].at # 0 =>
       code[ctx[s][1].at].op = "LABEL" /\ code[ctx[s][1].at].arg \in Sections

LEMMA ContextInvInit == Init => ContextInv
  BY DEF Init, ContextInv, Scopes

LEMMA ContextInvCall ==
  ASSUME TypeInv, CallInv, AddressInv, ContextInv, UNCHANGED code,
         StartGlobal \/ Run \/ \E m \in Hosted : Update(m)
  PROVE  ContextInv'
<1>1. DOMAIN code = 1 .. Len(code) /\ Len(code) \in Nat
      /\ ctx \in [Scopes -> Seq(SectionContext)]
  BY CodeTyped DEF TypeInv, TypeOK
<1>2. ASSUME NEW s \in Scopes, Initialise(s), UNCHANGED initAt
      PROVE  ContextInv'
  <2>1. now' = s /\ pc' = initAt[s]
        /\ ctx' = [ctx EXCEPT ![s] = <<Filed>>]
    BY <1>2 DEF Initialise
  <2>2. ctx'[s] = <<Filed>> /\ Len(ctx'[s]) = 1 /\ ctx'[s][1].at = 0
    BY <1>1, <2>1 DEF Filed, Context
  <2>3. \A t \in Scopes \ {s} : ctx'[t] = ctx[t]
    BY <1>1, <2>1
  <2>4. ASSUME pc' # 0
        PROVE  \E r \in DOMAIN code : r < pc' /\ code[r].op = "REPEAT" /\ NoJump(code, r, pc')
    <3>1. initAt[s] \in 2 .. Len(code) /\ code[initAt[s] - 1].op = "REPEAT"
      BY <2>1, <2>4, CodeTyped DEF AddressInv, TypeInv, TypeOK
    <3>2. initAt[s] - 1 \in DOMAIN code /\ initAt[s] - 1 < initAt[s]
      BY <1>1, <3>1
    <3>3. NoJump(code, initAt[s] - 1, initAt[s])
      BY <1>1, <3>1 DEF NoJump
    <3> QED  BY <2>1, <3>1, <3>2, <3>3
  <2> QED  BY <2>1, <2>2, <2>3, <2>4 DEF ContextInv
<1>3. CASE StartGlobal
  BY <1>2, <1>3 DEF StartGlobal, Scopes
<1>4. CASE \E m \in Hosted : Update(m)
  <2> PICK m \in Hosted : Update(m)
    BY <1>4
  <2>1. m \in Scopes
    BY NamesAssumption DEF Scopes
  <2>2. CASE initAt[m] # 0
    BY <1>2, <2>1, <2>2 DEF Update
  <2>3. CASE initAt[m] = 0
    BY <2>3 DEF Update, ContextInv
  <2> QED  BY <2>2, <2>3
<1>5. CASE FinishInit
  BY <1>1, <1>5 DEF FinishInit, ContextInv
<1>6. CASE EnterStart
  <2>1. running \in Scopes /\ "start" \in Labels /\ "start" \in Sections
    BY <1>6, NamesAssumption DEF EnterStart, Sections, TypeInv
  <2>2. \A s \in Scopes : s # running => ctx'[s] = ctx[s]
    BY <1>1, <1>6 DEF EnterStart
  <2>3. ctx'[running][1].at = labels[running]["start"]
    BY <1>1, <1>6, <2>1 DEF EnterStart, Context
  <2>4. stage' # "init" /\ labels[running]["start"] # 0
    BY <1>6 DEF EnterStart
  <2>5. code[labels[running]["start"]].op = "LABEL" /\ code[labels[running]["start"]].arg = "start"
    BY <2>1, <2>4 DEF AddressInv
  <2> QED  BY <2>1, <2>2, <2>3, <2>4, <2>5 DEF ContextInv
<1>7. CASE Resume \/ NothingToRun \/ FinishRun
  BY <1>7 DEF Resume, NothingToRun, FinishRun, ContextInv
<1> QED
  BY <1>3, <1>4, <1>5, <1>6, <1>7 DEF Run

(* The only jump of an initialiser is to exit.                             *)
LEMMA InitialiserJumps ==
  ASSUME TypeInv, ContextInv, InitialisersExit(code), stage = "init", pc # 0, op = "JMP"
  PROVE  arg = "exit"
<1>1. pc \in DOMAIN code
  BY CodeTyped DEF TypeInv, TypeOK
<1>2. PICK r \in DOMAIN code : r < pc /\ code[r].op = "REPEAT" /\ NoJump(code, r, pc)
  BY DEF ContextInv
<1> QED  BY <1>1, <1>2 DEF InitialisersExit, op, arg

LEMMA ContextInvExecute ==
  ASSUME ~OutOfMemory, TypeInv, CallInv, AddressInv, ContextInv, InitialisersExit(code),
         Execute, UNCHANGED code
  PROVE  ContextInv'
<1>1. /\ UNCHANGED <<loader, initAt, now, running, inits>>
      /\ stage \in {"init", "section"} /\ pc # 0 /\ now \in Scopes
      /\ stage' = stage \/ (stage' = "crashed" /\ ctx[now] = <<>> /\ ctx' = ctx)
      /\ \A s \in Scopes \ {now} : ctx'[s] = ctx[s]
  BY ExecuteFrame
<1>2. ctx \in [Scopes -> Seq(SectionContext)] /\ pc \in 1 .. Len(code)
      /\ DOMAIN code = 1 .. Len(code) /\ Len(code) \in Nat
  BY <1>1, CodeTyped DEF TypeInv, TypeOK
<1>3. stage = "init" => InFiled(now) /\ Popped(now) = ctx[now]
  <2> SUFFICES ASSUME stage = "init" PROVE InFiled(now) /\ Popped(now) = ctx[now]
    OBVIOUS
  <2>1. Len(ctx[now]) = 1 /\ ctx[now][1].at = 0 /\ ctx[now] \in Seq(SectionContext)
    BY <1>1, <1>2 DEF ContextInv
  <2>2. ctx[now] # <<>> /\ Head(ctx[now]) = ctx[now][1]
    BY <2>1
  <2> QED  BY <2>1, <2>2 DEF InFiled, Popped
<1>4. \/ ctx' = ctx
      \/ stage = "section" /\ ctx'[now][1].at = ctx[now][1].at /\ ctx[now] # <<>>
      \/ stage = "section" /\ ctx'[now] = <<>>
      \/ stage = "section" /\ ctx'[now][1].at = Target /\ Target # 0 /\ arg \in Sections \cap Labels
  <2>1. CASE Alloc /\ ctx' # ctx
    <3>1. ctx' = [ctx EXCEPT ![now][1].objs = <<arg>> \o @] /\ ctx[now] # <<>> /\ ~InFiled(now)
      BY <2>1 DEF Alloc
    <3> QED  BY <1>1, <1>2, <1>3, <2>1, <3>1, AllocStack
  <2>2. CASE ChangeSection
    <3>1. stage = "section"
      <4>1. op = "JMP" /\ arg # "exit"
        BY <2>2 DEF ChangeSection, Jumping
      <4> QED  BY <1>1, <4>1, InitialiserJumps
    <3>2. Popped(now) = <<>>
      BY <1>1, <3>1, PoppedSection DEF CallInv
    <3>3. ctx'[now] = <<Context(Target)>> \o <<>> \/ ctx'[now] = <<>>
      BY <1>1, <1>2, <2>2, <3>2 DEF ChangeSection
    <3>4. (<<Context(Target)>> \o <<>>)[1].at = Target
      BY DEF Context
    <3>5. Target # 0 /\ arg \in Sections \cap Labels
      BY <2>2, NamesAssumption DEF ChangeSection, Sections
    <3> QED  BY <3>1, <3>3, <3>4, <3>5
  <2>3. CASE Exit
    <3>1. ctx' = [ctx EXCEPT ![now] = Popped(now)]
      BY <2>3 DEF Exit
    <3>2. CASE stage = "init"
      BY <1>1, <1>2, <1>3, <3>1, <3>2
    <3>3. CASE stage = "section"
      <4>1. Popped(now) = <<>>
        BY <1>1, <3>3, PoppedSection DEF CallInv
      <4> QED  BY <1>1, <1>2, <3>1, <3>3, <4>1
    <3> QED  BY <1>1, <3>2, <3>3
  <2>4. CASE ~(Alloc \/ ChangeSection \/ Exit)
    BY <2>4 DEF Execute, Skip, SystemCall, RefusedCall, MoveBool, Use, ExecCrash,
                UnknownLabel, Branch, Fail
  <2> QED  BY <2>1, <2>2, <2>3, <2>4
<1>5. ASSUME stage = "init", pc' # 0
      PROVE  \E r \in DOMAIN code : r < pc' /\ code[r].op = "REPEAT" /\ NoJump(code, r, pc')
  <2>1. (op # "JMP" /\ pc' = Succ(pc)) \/ pc' = pc
    <3>1. CASE op = "JMP"
      <4>1. arg = "exit"
        BY <1>1, <1>5, <3>1, InitialiserJumps
      <4>2. ~UnknownLabel
        BY <1>5, ExecuteReports
      <4> QED
        BY <1>5, <3>1, <4>1, <4>2
        DEF Execute, Skip, Ignored, SystemCall, RefusedCall, MoveBool, Bools, Alloc, Use,
            ExecCrash, UnknownLabel, ChangeSection, Exit, Branch
    <3>2. CASE op # "JMP"
      BY <1>5, <3>2
      DEF Execute, Skip, SystemCall, RefusedCall, MoveBool, Alloc, Use, ExecCrash,
          UnknownLabel, ChangeSection, Exit, Branch, Jumping, Fail, After
    <3> QED  BY <3>1, <3>2
  <2>2. PICK r \in DOMAIN code : r < pc /\ code[r].op = "REPEAT" /\ NoJump(code, r, pc)
    BY <1>1, <1>5 DEF ContextInv
  <2>3. CASE pc' = pc
    BY <2>2, <2>3
  <2>4. CASE op # "JMP" /\ pc' = Succ(pc)
    <3>1. pc' = pc + 1
      BY <1>5, <2>4 DEF Succ
    <3>2. NoJump(code, r, pc')
      BY <1>2, <2>2, <2>4, <3>1 DEF NoJump, op
    <3> QED  BY <1>2, <2>2, <3>1, <3>2
  <2> QED  BY <2>1, <2>3, <2>4
<1>6. \A s \in Scopes : ctx'[s] # <<>> /\ ctx'[s][1].at # 0 =>
       code[ctx'[s][1].at].op = "LABEL" /\ code[ctx'[s][1].at].arg \in Sections
  BY <1>1, <1>4 DEF AddressInv, ContextInv, Target
<1>7. stage' = "init" => Len(ctx'[now]) = 1 /\ ctx'[now][1].at = 0
  BY <1>1, <1>4 DEF ContextInv
<1> QED  BY <1>1, <1>5, <1>6, <1>7 DEF ContextInv

(* What the theorems about compiled programs assume, and the runs check    *)
(* for what SceIr compiles (JumpsPlaced).                                  *)
AllCompiled == \A p \in Programs : WellCompiled(p)

LEMMA ContextInvNext ==
  ASSUME AllCompiled, ~OutOfMemory
  PROVE  TypeInv /\ CallInv /\ AddressInv /\ ContextInv /\ [Next]_vars
           => AddressInv' /\ ContextInv'
<1> SUFFICES ASSUME TypeInv, CallInv, AddressInv, ContextInv, [Next]_vars
             PROVE  AddressInv' /\ ContextInv'
  OBVIOUS
<1>1. NamesRepeated(code) /\ InitialisersExit(code)
  BY DEF AllCompiled, WellCompiled, TypeInv
<1>2. AddressInv'
  BY <1>1, AddressInvNext
<1>3. CASE UNCHANGED vars
  BY <1>2, <1>3 DEF vars, ContextInv, NoJump
<1>4. CASE Collect /\ UNCHANGED code
  <2>1. stage' # "init" /\ UNCHANGED ctx
    BY <1>4 DEF Collect, CollectName, CollectLabel, CollectOther, CollectCrash, Collecting
  <2> QED  BY <1>2, <1>4, <2>1 DEF ContextInv
<1>5. CASE (StartGlobal \/ Run \/ \E m \in Hosted : Update(m)) /\ UNCHANGED code
  BY <1>2, <1>5, ContextInvCall
<1>6. CASE Execute /\ UNCHANGED code
  BY <1>1, <1>2, <1>6, ContextInvExecute
<1> QED  BY <1>2, <1>3, <1>4, <1>5, <1>6 DEF Next, Machine, Host

LEMMA ErrorStopsCallInit == Init => ErrorStopsCall
  BY DEF Init, ErrorStopsCall, Executing

(* No jump is taken with an error pending: no call starts with one.        *)
LEMMA TakenWithoutError ==
  ASSUME TypeInv, CallInv, AddressInv, ContextInv, ErrorStopsCall, BranchesTest(code),
         Execute, Branch, result = "TRUE"
  PROVE  err = "none"
<1>1. stage \in {"init", "section"} /\ pc # 0
  BY ExecuteFrame
<1>2. DOMAIN code = 1 .. Len(code) /\ Len(code) \in Nat /\ pc \in 1 .. Len(code)
      /\ ctx \in [Scopes -> Seq(SectionContext)] /\ running \in Scopes
  BY <1>1, CodeTyped DEF TypeInv, TypeOK
<1>3. op = "JMP" /\ arg \notin {"main", "end", "exit"}
  BY DEF Branch, Jumping
<1>4. pc > 1 /\ code[pc - 1].op \in Bools \cup {"EQ"}
  BY <1>2, <1>3 DEF BranchesTest, op, arg
<1>5. ~(stage = "init" /\ pc = initAt[running])
  <2>1. initAt[running] # 0 => code[initAt[running] - 1].op = "REPEAT"
    BY <1>2 DEF AddressInv
  <2> QED  BY <1>1, <1>4, <2>1 DEF Bools
<1>6. ASSUME stage = "section", ctx[running] # <<>>,
             pc \in {Head(ctx[running]).at, Succ(Head(ctx[running]).at)}
      PROVE  FALSE
  <2> DEFINE at == ctx[running][1].at
  <2>1. ctx[running] \in Seq(SectionContext) /\ Head(ctx[running]).at = at
    BY <1>2, <1>6
  <2>2. at # 0 /\ code[at].op = "LABEL"
    BY <1>2, <1>6, <2>1 DEF CallInv, InOneSection, ContextInv
  <2>3. CASE pc = at
    BY <1>3, <2>2, <2>3 DEF op
  <2>4. CASE pc = Succ(at)
    <3>1. at \in 1 .. Len(code)
      <4>1. ctx[running][1] \in SectionContext
        BY <1>6, <2>1
      <4> QED  BY <1>2, <2>2, <4>1 DEF SectionContext
    <3>2. pc - 1 = at
      BY <1>1, <2>4, <3>1 DEF Succ
    <3> QED  BY <1>4, <2>2, <3>2 DEF Bools
  <2> QED  BY <1>6, <2>1, <2>3, <2>4
<1>7. Executing
  BY <1>1 DEF Executing
<1> QED  BY <1>5, <1>6, <1>7 DEF ErrorStopsCall

(* Only a jump that is taken goes on with an error pending.                *)
LEMMA ErrorStopsCallExecute ==
  ASSUME ~OutOfMemory, TypeInv, CallInv, AddressInv, ContextInv, ErrorStopsCall,
         BranchesTest(code), Execute, UNCHANGED code
  PROVE  ErrorStopsCall'
<1>1. CASE Branch /\ result = "TRUE"
  <2>1. err = "none" /\ err' = err
    BY <1>1, TakenWithoutError DEF Branch, Bools, Fail
  <2> QED  BY <2>1 DEF ErrorStopsCall
<1>2. CASE err' # "none" /\ ~(Branch /\ result = "TRUE")
  <2>0. err' \in Errors
    BY <1>2, ExecuteReports
  <2>1. pc' = 0 \/ stage' = "crashed"
    BY <1>2, <2>0
    DEF Execute, Skip, SystemCall, RefusedCall, MoveBool, Alloc, Use, ExecCrash,
        UnknownLabel, ChangeSection, Exit, Branch, Fail, After
  <2> QED  BY <2>1 DEF ErrorStopsCall, Executing
<1>3. CASE err' = "none"
  BY <1>3 DEF ErrorStopsCall
<1> QED  BY <1>1, <1>2, <1>3

LEMMA ErrorStopsCallNext ==
  ASSUME AllCompiled, ~OutOfMemory
  PROVE  TypeInv /\ CallInv /\ AddressInv /\ ContextInv /\ ErrorStopsCall /\ [Next]_vars
           => ErrorStopsCall'
<1> SUFFICES ASSUME TypeInv, CallInv, AddressInv, ContextInv, ErrorStopsCall, [Next]_vars
             PROVE  ErrorStopsCall'
  OBVIOUS
<1>1. CASE UNCHANGED vars
  BY <1>1 DEF vars, ErrorStopsCall, Executing, Succ
<1>2. CASE Collect
  <2>1. stage' \in {"collect", "crashed"}
    BY <1>2 DEF Collect, CollectName, CollectLabel, CollectOther, CollectCrash, Collecting
  <2> QED  BY <2>1 DEF ErrorStopsCall, Executing
<1>3. CASE (StartGlobal \/ Run \/ \E m \in Hosted : Update(m)) /\ UNCHANGED code
  <2>1. Executing' =>
          \/ stage' = "init" /\ pc' = initAt'[running']
          \/ EnterStart \/ Resume
    BY <1>3 DEF StartGlobal, Initialise, Update, Run, FinishInit, NothingToRun, FinishRun, Executing
  <2>2. CASE Resume
    BY <2>2 DEF Resume, ErrorStopsCall
  <2>3. CASE EnterStart
    <3>1. ctx \in [Scopes -> Seq(SectionContext)] /\ running \in Scopes
      BY <2>3 DEF EnterStart, TypeInv, TypeOK
    <3>2. ctx'[running] = <<Context(labels[running]["start"])>>
      BY <2>3, <3>1 DEF EnterStart
    <3>3. Head(ctx'[running]).at = labels[running]["start"] /\ ctx'[running] # <<>>
      BY <3>2 DEF Context
    <3>4. stage' = "section" /\ running' = running /\ pc' = Succ(labels[running]["start"])
      BY <2>3 DEF EnterStart
    <3>5. pc' = Succ(Head(ctx[running]).at)'
      BY <1>3, <3>3, <3>4 DEF Succ
    <3> QED  BY <3>3, <3>4, <3>5 DEF ErrorStopsCall
  <2> QED  BY <2>1, <2>2, <2>3 DEF ErrorStopsCall
<1>4. CASE Execute /\ UNCHANGED code
  <2>1. BranchesTest(code)
    BY DEF AllCompiled, WellCompiled, TypeInv
  <2> QED  BY <1>4, <2>1, ErrorStopsCallExecute
<1> QED  BY <1>1, <1>2, <1>3, <1>4 DEF Next, Machine, Host

(* While memory lasts, for the messages too, an error ends the call it     *)
(* happens in, and the next ones after their first instruction, in every   *)
(* order of updates.                                                       *)
THEOREM ErrorsStopCalls ==
  ASSUME AllCompiled, ~OutOfMemory PROVE Spec => []ErrorStopsCall
  BY TypeInvInit, TypeInvNext, CallInvInit, CallInvNext, AddressInvInit, ContextInvInit,
     ContextInvNext, ErrorStopsCallInit, ErrorStopsCallNext, PTL DEF Spec

-----------------------------------------------------------------------------
(* The life cycle, for a host that updates one module at a time.           *)

(* A module whose sections have begun has no initialiser left; a call that *)
(* is past its initialiser is for a module.                                *)
LifecycleInv ==
  /\ \A s \in Scopes : ctx[s] # <<>> => initAt[s] = 0 \/ (stage = "init" /\ s = now)
  /\ stage \in {"enter", "section"} => running \in Names

LEMMA LifecycleInvInit == Init => LifecycleInv
  BY DEF Init, LifecycleInv, Scopes

LEMMA LifecycleInvNext ==
  ASSUME Exclusive
  PROVE  TypeInv /\ CallInv /\ ExclusiveInv /\ LifecycleInv /\ [Next]_vars => LifecycleInv'
<1> SUFFICES ASSUME TypeInv, CallInv, ExclusiveInv, LifecycleInv, [Next]_vars
             PROVE  LifecycleInv'
  OBVIOUS
<1>0. ctx \in [Scopes -> Seq(SectionContext)] /\ initAt \in [Scopes -> 0 .. Len(code)]
  BY DEF TypeInv, TypeOK
<1>1. CASE UNCHANGED vars
  BY <1>1 DEF vars, LifecycleInv
<1>2. CASE Collect
  <2>1. stage = "collect" /\ stage' \in {"collect", "crashed"} /\ UNCHANGED ctx
    BY <1>2 DEF Collect, CollectName, CollectLabel, CollectOther, CollectCrash, Collecting
  <2> QED  BY <2>1 DEF LifecycleInv, CallInv
<1>3. ASSUME NEW s \in Scopes, Initialise(s), stage # "init", UNCHANGED initAt
      PROVE  LifecycleInv'
  <2>1. stage' = "init" /\ now' = s /\ \A t \in Scopes \ {s} : ctx'[t] = ctx[t]
    BY <1>0, <1>3 DEF Initialise
  <2> QED  BY <1>3, <2>1 DEF LifecycleInv
<1>4. CASE StartGlobal
  BY <1>3, <1>4 DEF StartGlobal, Scopes
<1>5. CASE \E m \in Hosted : Update(m)
  <2> PICK m \in Hosted : Update(m)
    BY <1>5
  <2>1. m \in Names /\ m \in Scopes /\ stage = "idle"
    BY NamesAssumption DEF Scopes, Update
  <2> QED  BY <1>3, <2>1 DEF Update, LifecycleInv
<1>6. CASE FinishInit
  <2>1. running = now /\ running \in Scopes /\ stage = "init"
    BY <1>6 DEF FinishInit, CallInv, TypeInv
  <2>2. ctx'[now] = <<>> /\ \A s \in Scopes \ {now} : ctx'[s] = ctx[s] /\ initAt'[s] = initAt[s]
    BY <1>0, <1>6, <2>1 DEF FinishInit
  <2>3. stage' = "idle" \/ (stage' = "enter" /\ running' = running /\ running # Root)
    BY <1>6 DEF FinishInit
  <2> QED  BY <2>1, <2>2, <2>3 DEF LifecycleInv, Scopes
<1>7. CASE EnterStart
  <2>1. \A s \in Scopes : s # running => ctx'[s] = ctx[s]
    BY <1>0, <1>7 DEF EnterStart
  <2> QED  BY <1>7, <2>1 DEF EnterStart, LifecycleInv, CallInv
<1>8. CASE Resume \/ NothingToRun \/ FinishRun
  BY <1>8 DEF Resume, NothingToRun, FinishRun, LifecycleInv
<1>9. CASE Execute
  <2>1. /\ UNCHANGED <<loader, initAt, now, running, inits>>
        /\ stage \in {"init", "section"} /\ pc # 0 /\ now \in Scopes
        /\ stage' = stage \/ (stage' = "crashed" /\ ctx[now] = <<>> /\ ctx' = ctx)
        /\ \A s \in Scopes \ {now} : ctx'[s] = ctx[s]
    BY <1>9, ExecuteFrame
  <2>2. stage = "section" => now = running /\ initAt[now] = 0
    BY <2>1 DEF ExclusiveInv, CallInv
  <2>3. CASE stage' = stage
    BY <2>1, <2>2, <2>3 DEF LifecycleInv
  <2>4. CASE stage' = "crashed" /\ ctx[now] = <<>> /\ ctx' = ctx
    BY <2>1, <2>4 DEF LifecycleInv
  <2> QED  BY <2>1, <2>3, <2>4
<1> QED
  BY <1>1, <1>2, <1>4, <1>5, <1>6, <1>7, <1>8, <1>9 DEF Next, Machine, Host, Run

(* The variables of the abstract specification.                            *)
phases == [m \in Names |-> Phase(m)]

LifecycleInvs ==
  TypeInv /\ CallInv /\ AddressInv /\ ContextInv /\ ExclusiveInv /\ LifecycleInv

(* A module's phase depends on nothing but its stack, and is idle without  *)
(* a section.                                                              *)
PhaseInv ==
  \A m \in Names :
    /\ ctx[m] = <<>> => Phase(m) = "idle"
    /\ stage = "init" /\ m = now => Phase(m) = "idle"
    /\ stage # "collect" /\ ctx[m] # <<>> /\ ctx[m][1].at # 0 =>
         Phase(m) = code[ctx[m][1].at].arg /\ Phase(m) \in Sections

LEMMA PhaseOfStack == LifecycleInvs => PhaseInv
<1> SUFFICES ASSUME TypeInv, ContextInv, NEW m \in Names
             PROVE  /\ ctx[m] = <<>> => Phase(m) = "idle"
                    /\ stage = "init" /\ m = now => Phase(m) = "idle"
                    /\ stage # "collect" /\ ctx[m] # <<>> /\ ctx[m][1].at # 0 =>
                         Phase(m) = code[ctx[m][1].at].arg /\ Phase(m) \in Sections
  BY DEF PhaseInv, LifecycleInvs
<1>1. ctx[m] \in Seq(SectionContext) /\ m \in Scopes
  BY DEF TypeInv, TypeOK, Scopes
<1>2. ctx[m] # <<>> => Head(ctx[m]) = ctx[m][1]
  BY <1>1
<1>3. stage = "init" /\ m = now => ctx[m] = <<>> \/ InFiled(m)
  BY <1>2 DEF ContextInv, InFiled
<1> QED  BY <1>1, <1>2, <1>3 DEF Phase, InFiled, ContextInv

LEMMA SamePhase ==
  ASSUME TypeInv, CallInv, UNCHANGED code, NEW m \in Names, ctx'[m] = ctx[m],
         stage' = "collect" => stage = "collect"
  PROVE  Phase(m)' = Phase(m)
<1>1. m \in Scopes /\ (stage = "collect" => ctx[m] = <<>>)
  BY DEF CallInv, Scopes
<1>2. CASE ctx[m] = <<>>
  BY <1>2 DEF Phase
<1>3. CASE ctx[m] # <<>>
  BY <1>1, <1>3 DEF Phase, InFiled
<1> QED  BY <1>2, <1>3

(* A step of the host, or of a call that runs no instruction.              *)
LEMMA CallRefines ==
  ASSUME LifecycleInvs, PhaseInv, PhaseInv', UNCHANGED code, Exclusive,
         StartGlobal \/ Run \/ \E m \in Hosted : Update(m)
  PROVE  \/ UNCHANGED <<phases, Active>>
         \/ Active = None /\ Active' \in Names /\ UNCHANGED phases
         \/ Active # None /\ Active' = None /\ UNCHANGED phases
         \/ /\ Active # None /\ phases[Active] = "idle"
            /\ phases' = [phases EXCEPT ![Active] = "start"] /\ UNCHANGED Active
<1> USE DEF LifecycleInvs
<1>0. ctx \in [Scopes -> Seq(SectionContext)] /\ Root \notin Names /\ None \notin Names
      /\ stage' # "collect" /\ \A m \in Names : m \in Scopes
  BY NamesAssumption
  DEF TypeInv, TypeOK, StartGlobal, Initialise, Update, Run, FinishInit, Resume, EnterStart,
      NothingToRun, FinishRun, Scopes
<1>1. ASSUME \A m \in Names : Phase(m)' = Phase(m)
      PROVE  UNCHANGED phases
  BY <1>1 DEF phases
<1>2. CASE StartGlobal
  <2>1. \A m \in Names : ctx'[m] = ctx[m]
    BY <1>0, <1>2 DEF StartGlobal, Initialise
  <2>2. Active = None /\ Active' = None
    BY <1>0, <1>2 DEF StartGlobal, Initialise, Active
  <2> QED  BY <1>0, <1>1, <2>1, <2>2, SamePhase
<1>3. CASE \E m \in Hosted : Update(m)
  <2> PICK m \in Hosted : Update(m)
    BY <1>3
  <2>1. m \in Names /\ m \in Scopes /\ stage = "idle" /\ running' = m
        /\ stage' \in {"init", "enter"}
    BY NamesAssumption DEF Scopes, Update, Initialise
  <2>2. Active = None /\ Active' = m
    BY <2>1 DEF Active
  <2>3. \A n \in Names \ {m} : ctx'[n] = ctx[n]
    BY <1>0 DEF Update, Initialise
  <2>4. Phase(m)' = Phase(m)
    <3>1. CASE initAt[m] # 0
      <4>1. ctx[m] = <<>>
        BY <2>1, <3>1 DEF LifecycleInv
      <4>2. stage' = "init" /\ now' = m
        BY <3>1 DEF Update, Initialise
      <4> QED  BY <2>1, <4>1, <4>2 DEF PhaseInv
    <3>2. CASE initAt[m] = 0
      BY <1>0, <2>1, <3>2, SamePhase DEF Update
    <3> QED  BY <3>1, <3>2
  <2> QED  BY <1>0, <1>1, <2>1, <2>2, <2>3, <2>4, SamePhase
<1>4. CASE FinishInit
  <2>1. running = now /\ running \in Scopes /\ stage = "init"
    BY <1>4 DEF FinishInit, CallInv, TypeInv
  <2>2. ctx'[now] = <<>> /\ \A s \in Scopes \ {now} : ctx'[s] = ctx[s]
    BY <1>0, <1>4, <2>1 DEF FinishInit
  <2>3. Active' = Active
    BY <1>0, <1>4, <2>1 DEF FinishInit, Active
  <2>4. ASSUME NEW m \in Names PROVE Phase(m)' = Phase(m)
    <3>1. CASE m = now
      <4>1. Phase(m)' = "idle"
        BY <2>2, <3>1 DEF Phase
      <4> QED  BY <2>1, <3>1, <4>1 DEF PhaseInv
    <3>2. CASE m # now
      BY <1>0, <2>2, <3>2, SamePhase
    <3> QED  BY <3>1, <3>2
  <2> QED  BY <1>1, <2>3, <2>4
<1>5. CASE Resume \/ NothingToRun
  <2>1. UNCHANGED <<ctx, running>> /\ stage = "enter" /\ stage' = "section"
    BY <1>5 DEF Resume, NothingToRun
  <2>2. Active' = Active
    BY <2>1 DEF Active
  <2> QED  BY <1>0, <1>1, <2>1, <2>2, SamePhase
<1>6. CASE EnterStart
  <2>1. /\ running \in Names /\ stage = "enter" /\ stage' = "section" /\ running' = running
        /\ ctx[running] = <<>>
    BY <1>6 DEF EnterStart, LifecycleInv
  <2>2. Active = running /\ Active' = running /\ Active # None
    BY <1>0, <2>1 DEF Active
  <2>3. Phase(running) = "idle"
    BY <2>1 DEF PhaseInv
  <2>4. Phase(running)' = "start"
    <3>1. ctx'[running] = <<Context(labels[running]["start"])>>
      BY <1>0, <1>6, <2>1 DEF EnterStart
    <3>2. Head(ctx'[running]).at = labels[running]["start"] /\ ctx'[running] # <<>>
      BY <3>1 DEF Context
    <3>3. labels[running]["start"] # 0 /\ "start" \in Labels
      BY <1>6, NamesAssumption DEF EnterStart, Sections
    <3>4. code[labels[running]["start"]].arg = "start"
      BY <1>0, <2>1, <3>3 DEF AddressInv
    <3> QED  BY <2>1, <3>2, <3>3, <3>4 DEF Phase, InFiled
  <2>5. \A m \in Names \ {running} : Phase(m)' = Phase(m)
    <3>1. \A m \in Names \ {running} : ctx'[m] = ctx[m]
      BY <1>0, <1>6 DEF EnterStart
    <3> QED  BY <1>0, <3>1, SamePhase
  <2>6. phases[Active] = "idle" /\ phases' = [phases EXCEPT ![Active] = "start"]
    BY <2>1, <2>2, <2>3, <2>4, <2>5 DEF phases
  <2> QED  BY <2>2, <2>6
<1>7. CASE FinishRun
  <2>1. UNCHANGED ctx /\ stage = "section" /\ running \in Names /\ stage' = "idle"
    BY <1>7 DEF FinishRun, LifecycleInv
  <2>2. Active # None /\ Active' = None
    BY <1>0, <2>1 DEF Active
  <2> QED  BY <1>0, <1>1, <2>1, <2>2, SamePhase
<1> QED  BY <1>2, <1>3, <1>4, <1>5, <1>6, <1>7 DEF Run

(* An instruction: only a jump of the running section moves a module.      *)
LEMMA ExecuteRefines ==
  ASSUME ~OutOfMemory, LifecycleInvs, PhaseInv, PhaseInv', UNCHANGED code, Execute, InitialisersExit(code)
  PROVE  \/ UNCHANGED <<phases, Active>>
         \/ /\ Active # None /\ phases[Active] # "idle" /\ UNCHANGED Active
            /\ \E q \in {"main", "end", "idle"} : phases' = [phases EXCEPT ![Active] = q]
<1> USE DEF LifecycleInvs
<1>1. /\ UNCHANGED <<loader, initAt, now, running, inits>>
      /\ stage \in {"init", "section"} /\ pc # 0 /\ now \in Scopes
      /\ stage' = stage \/ (stage' = "crashed" /\ ctx[now] = <<>> /\ ctx' = ctx)
      /\ \A s \in Scopes \ {now} : ctx'[s] = ctx[s]
  BY ExecuteFrame
<1>2. ctx[now] # <<>> /\ ctx \in [Scopes -> Seq(SectionContext)] /\ None \notin Names
      /\ \A m \in Names : m \in Scopes
  BY <1>1, NamesAssumption DEF ExclusiveInv, Executing, TypeInv, TypeOK, Scopes
<1>3. stage' = stage /\ Active' = Active /\ stage # "collect"
  BY <1>1, <1>2 DEF Active
<1>4. ASSUME NEW m \in Names, m # now PROVE Phase(m)' = Phase(m)
  BY <1>1, <1>2, <1>3, <1>4, SamePhase
<1>5. CASE stage = "init"
  <2>1. ASSUME NEW m \in Names, m = now PROVE Phase(m) = "idle" /\ Phase(m)' = "idle"
    BY <1>1, <1>3, <1>5, <2>1 DEF PhaseInv
  <2> QED  BY <1>3, <1>4, <2>1 DEF phases
<1>6. CASE stage = "section"
  <2>0. now = running /\ running \in Names
    BY <1>1, <1>6 DEF ExclusiveInv, LifecycleInv
  <2> PICK m \in Names : m = now
    BY <2>0
  <2>1. m \in Scopes /\ Active = m
    BY <1>2, <1>6, <2>0 DEF Active
  <2>2. ctx[m][1].at # 0 /\ Phase(m) \in Sections /\ Phase(m) = code[ctx[m][1].at].arg
    <3>1. ctx[m][1].at # 0
      BY <1>1, <1>2, <1>6 DEF CallInv, InOneSection
    <3> QED  BY <1>2, <1>3, <3>1 DEF PhaseInv
  <2>3. Phase(m) # "idle"
    BY <2>2 DEF Sections
  <2>4. Phase(m)' = Phase(m) \/ Phase(m)' \in {"main", "end", "idle"}
    <3>0. ctx'[m] # <<>> /\ ctx'[m][1].at # 0 => Phase(m)' = code[ctx'[m][1].at].arg
      BY <1>3 DEF PhaseInv
    <3>1. CASE ctx' = ctx
      BY <1>3, <3>1, SamePhase
    <3>2. CASE Alloc /\ ctx' # ctx
      <4>1. ctx' = [ctx EXCEPT ![now][1].objs = <<arg>> \o @]
        BY <3>2 DEF Alloc
      <4>2. pc \in 1 .. Len(code)
        BY <1>1, CodeTyped DEF TypeInv, TypeOK
      <4>3. ctx'[m] # <<>> /\ ctx'[m][1].at = ctx[m][1].at
        BY <1>1, <3>2, <4>1, <4>2, AllocStack
      <4> QED  BY <2>2, <3>0, <4>3
    <3>3. CASE ChangeSection \/ Exit
      <4>1. Popped(now) = <<>>
        BY <1>1, <1>6, PoppedSection DEF CallInv
      <4>2. CASE ctx'[m] = <<>>
        BY <4>2 DEF PhaseInv
      <4>3. CASE ctx'[m] = <<Context(Target)>> \o <<>> /\ ChangeSection
        <5>1. (<<Context(Target)>> \o <<>>)[1].at = Target /\ <<Context(Target)>> \o <<>> # <<>>
          BY DEF Context
        <5>2. arg \in Labels /\ Target # 0 /\ arg \in {"main", "end"}
          BY <4>3, NamesAssumption DEF ChangeSection, Sections
        <5>3. code[Target].arg = arg
          BY <1>1, <5>2 DEF AddressInv, Target
        <5> QED  BY <3>0, <4>3, <5>1, <5>2, <5>3
      <4> QED  BY <1>1, <1>2, <3>3, <4>1, <4>2, <4>3 DEF ChangeSection, Exit
    <3>4. CASE ~(ctx' = ctx \/ Alloc \/ ChangeSection \/ Exit)
      BY <3>4 DEF Execute, Skip, SystemCall, RefusedCall, MoveBool, Use, ExecCrash,
                  UnknownLabel, Branch, Fail
    <3> QED  BY <3>1, <3>2, <3>3, <3>4
  <2>5. \A n \in Names : n # m => Phase(n)' = Phase(n)
    BY <1>4
  <2>6. CASE Phase(m)' = Phase(m)
    BY <1>3, <2>5, <2>6 DEF phases
  <2>7. CASE Phase(m)' \in {"main", "end", "idle"}
    <3>1. PICK q \in {"main", "end", "idle"} : Phase(m)' = q
      BY <2>7
    <3>2. phases[m] # "idle" /\ phases' = [phases EXCEPT ![m] = q]
      BY <2>3, <2>5, <3>1 DEF phases
    <3> QED  BY <1>2, <1>3, <2>1, <3>2
  <2> QED  BY <2>4, <2>6, <2>7
<1> QED  BY <1>1, <1>5, <1>6

LEMMA LifecycleInit == Init => Lifecycle!Init
<1> SUFFICES ASSUME Init PROVE Lifecycle!Init
  OBVIOUS
<1>1. \A m \in Names : Phase(m) = "idle"
  BY DEF Init, Phase
<1>2. Active = None
  BY DEF Init, Active
<1> QED  BY <1>1, <1>2 DEF Lifecycle!Init

LEMMA LifecycleStep ==
  ASSUME AllCompiled, Exclusive, ~OutOfMemory
  PROVE  LifecycleInvs /\ PhaseInv /\ PhaseInv' /\ [Next]_vars
           => [Lifecycle!Next]_(Lifecycle!vars)
<1> SUFFICES ASSUME LifecycleInvs, PhaseInv, PhaseInv', [Next]_vars
             PROVE  [Lifecycle!Next]_(Lifecycle!vars)
  OBVIOUS
<1>1. ASSUME UNCHANGED <<phases, Active>> PROVE UNCHANGED Lifecycle!vars
  BY <1>1 DEF Lifecycle!vars, phases
<1>2. CASE UNCHANGED vars
  <2>1. \A m \in Names : Phase(m)' = Phase(m)
    BY <1>2 DEF vars, Phase, InFiled
  <2>2. Active' = Active
    BY <1>2 DEF vars, Active
  <2> QED  BY <1>1, <2>1, <2>2 DEF phases
<1>3. CASE Collect /\ UNCHANGED code
  <2>1. /\ stage = "collect" /\ stage' \in {"collect", "crashed"} /\ UNCHANGED ctx
    BY <1>3 DEF Collect, CollectName, CollectLabel, CollectOther, CollectCrash, Collecting
  <2>2. \A m \in Names : Phase(m)' = Phase(m)
    BY <1>3, <2>1, SamePhase DEF LifecycleInvs
  <2>3. Active' = Active
    BY <2>1 DEF Active
  <2> QED  BY <1>1, <2>2, <2>3 DEF phases
<1>4. CASE (StartGlobal \/ Run \/ \E m \in Hosted : Update(m)) /\ UNCHANGED code
  <2>1. \/ UNCHANGED <<phases, Active>>
        \/ Active = None /\ Active' \in Names /\ UNCHANGED phases
        \/ Active # None /\ Active' = None /\ UNCHANGED phases
        \/ /\ Active # None /\ phases[Active] = "idle"
           /\ phases' = [phases EXCEPT ![Active] = "start"] /\ UNCHANGED Active
    BY <1>4, CallRefines
  <2> QED
    BY <1>1, <2>1
    DEF phases, Lifecycle!Next, Lifecycle!Begin, Lifecycle!Yield, Lifecycle!Start, Lifecycle!Move
<1>5. CASE Execute /\ UNCHANGED code
  <2>1. InitialisersExit(code)
    BY DEF AllCompiled, WellCompiled, TypeInv, LifecycleInvs
  <2>2. \/ UNCHANGED <<phases, Active>>
        \/ /\ Active # None /\ phases[Active] # "idle" /\ UNCHANGED Active
           /\ \E q \in {"main", "end", "idle"} : phases' = [phases EXCEPT ![Active] = q]
    BY <1>5, <2>1, ExecuteRefines
  <2> QED
    BY <1>1, <2>2 DEF phases, Lifecycle!Next, Lifecycle!Leave, Lifecycle!Move
<1> QED  BY <1>2, <1>3, <1>4, <1>5 DEF Next, Machine, Host

(* While memory lasts and the host finishes a module before it updates     *)
(* another, each module goes through the sections the comments promise, and*)
(* a call moves its own module only.                                       *)
THEOREM LifecycleImplemented ==
  ASSUME AllCompiled, Exclusive, ~OutOfMemory PROVE Spec => ModuleLifecycleSpec
<1>1. Init => LifecycleInvs
  BY TypeInvInit, CallInvInit, AddressInvInit, ContextInvInit, ExclusiveInvInit,
     LifecycleInvInit DEF LifecycleInvs
<1>2. LifecycleInvs /\ [Next]_vars => LifecycleInvs'
  BY TypeInvNext, CallInvNext, ContextInvNext, ExclusiveInvNext, LifecycleInvNext
  DEF LifecycleInvs
<1> QED
  BY <1>1, <1>2, PhaseOfStack, LifecycleInit, LifecycleStep, PTL DEF Spec, ModuleLifecycleSpec, Lifecycle!Spec
=============================================================================
