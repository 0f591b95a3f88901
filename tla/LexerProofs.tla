----------------------------- MODULE LexerProofs -----------------------------
(***************************************************************************)
(* Lexer for every source, every declaration text, every alphabet and      *)
(* every initial room of the token list.                                   *)
(***************************************************************************)
EXTENDS Lexer, TLAPS

Output == [toks : Seq(Token), buf : Seq(Nat), room : Nat, starved : BOOLEAN]

Below(a, p) == \A i \in DOMAIN a : a[i] < p

(* The tokens are in order, and made of bytes before p.                    *)
TokensSound(o, p) ==
  \A k \in DOMAIN o.toks :
    /\ Increasing(o.toks[k].at) /\ Below(o.toks[k].at, p)
    /\ \A l \in DOMAIN o.toks : k < l => Before(o.toks[k].at, o.toks[l].at)

(* The bytes of a come behind all tokens and before p.                     *)
Behind(o, a, p) ==
  /\ a \in Seq(Nat) /\ Increasing(a) /\ Below(a, p)
  /\ \A k \in DOMAIN o.toks : Before(o.toks[k].at, a)

Sound(o, p) == o \in Output /\ TokensSound(o, p) /\ Behind(o, o.buf, p)

(* The first byte that is in neither a token nor the stack buffer: a dot   *)
(* that was read is put there later.                                       *)
Unused == IF mode = "dot" THEN pos - 1 ELSE pos

LexerInv ==
  /\ TypeOK
  /\ stage \in {"load", "insert"} => pos = 1 /\ mode = "normal"
  /\ Unused \in Nat
  /\ stage = "lex" /\ mode = "operator" => out.buf # <<>>
  /\ Sound(out, Unused)

-----------------------------------------------------------------------------
(* The operations on the token list and the stack buffer.                  *)

LEMMA TokenTyped ==
  ASSUME NEW o \in Output, NEW k \in DOMAIN o.toks
  PROVE  o.toks[k] \in Token /\ o.toks[k].at \in Seq(Nat)
<1>1. o.toks \in Seq(Token)
  BY DEF Output
<1>2. o.toks[k] \in Token
  BY <1>1
<1> QED  BY <1>2 DEF Token

(* An append to the list, of bytes behind its tokens, keeps the order and  *)
(* leaves the stack buffer alone.                                          *)
LEMMA ListedSound ==
  ASSUME NEW o \in Output, NEW p \in Nat, NEW a, NEW type \in Types,
         TokensSound(o, p), Behind(o, a, p), NEW l \in Listed(o, a, type)
  PROVE  l \in Output /\ TokensSound(l, p) /\ l.buf = o.buf
<1>1. CASE l = [o EXCEPT !.starved = TRUE]
  BY <1>1 DEF Output, TokensSound
<1>2. CASE l = Added(o, a, type)
  <2> DEFINE t == [type |-> type, at |-> a]
             n == Len(o.toks)
  <2>1. t \in Token /\ o.toks \in Seq(Token) /\ n \in Nat
    BY DEF Behind, Token, Output
  <2>2. l.toks = Append(o.toks, t) /\ l.buf = o.buf
    BY <1>2 DEF Added, Output
  <2>3. /\ Len(l.toks) = n + 1
        /\ \A k \in 1..n : l.toks[k] = o.toks[k]
        /\ l.toks[n + 1] = t
        /\ DOMAIN l.toks = 1..(n + 1) /\ DOMAIN o.toks = 1..n
    BY <2>1, <2>2
  <2>4. l \in Output
    <3>1. l.room \in Nat
      BY <1>2, <2>1 DEF Added, Output
    <3>2. l = [o EXCEPT !.toks = Append(@, t), !.room = l.room]
      BY <1>2 DEF Added, Output
    <3>3. Append(o.toks, t) \in Seq(Token)
      BY <2>1
    <3> QED  BY <3>1, <3>2, <3>3 DEF Output
  <2>5. TokensSound(l, p)
    <3> SUFFICES ASSUME NEW k \in 1..(n + 1)
                 PROVE  /\ Increasing(l.toks[k].at) /\ Below(l.toks[k].at, p)
                        /\ \A j \in 1..(n + 1) : k < j => Before(l.toks[k].at, l.toks[j].at)
      BY <2>3 DEF TokensSound
    <3>1. CASE k = n + 1
      BY <2>1, <2>3, <3>1 DEF Behind
    <3>2. CASE k \in 1..n
      <4>1. Increasing(l.toks[k].at) /\ Below(l.toks[k].at, p)
        BY <2>3, <3>2 DEF TokensSound
      <4>2. ASSUME NEW j \in 1..(n + 1), k < j  PROVE Before(l.toks[k].at, l.toks[j].at)
        <5>1. CASE j = n + 1
          <6>1. l.toks[k] = o.toks[k] /\ l.toks[j] = t /\ k \in DOMAIN o.toks
            BY <2>3, <3>2, <5>1
          <6>2. Before(o.toks[k].at, a)
            BY <6>1 DEF Behind
          <6> QED  BY <6>1, <6>2
        <5>2. CASE j \in 1..n
          BY <2>3, <3>2, <4>2, <5>2 DEF TokensSound
        <5> QED  BY <2>1, <5>1, <5>2
      <4> QED  BY <4>1, <4>2
    <3> QED  BY <2>1, <3>1, <3>2
  <2> QED  BY <2>2, <2>4, <2>5
<1> QED  BY <1>1, <1>2 DEF Listed

(* An empty stack buffer is behind anything.                               *)
LEMMA EmptiedSound ==
  ASSUME NEW o \in Output, NEW p \in Nat, TokensSound(o, p)
  PROVE  Sound(Emptied(o), p) /\ Emptied(o).toks = o.toks /\ Emptied(o).buf = <<>>
<1> DEFINE none == <<>>
<1>1. none \in Seq(Nat) /\ DOMAIN none = {}
  OBVIOUS
<1>2. Emptied(o) = [o EXCEPT !.buf = none]
  BY DEF Emptied
<1> HIDE DEF none
<1>3. Emptied(o) \in Output /\ Emptied(o).toks = o.toks /\ Emptied(o).buf = none
  BY <1>1, <1>2 DEF Output
<1>4. Behind(Emptied(o), none, p)
  BY <1>1 DEF Behind, Increasing, Below, Before
<1>5. TokensSound(Emptied(o), p)
  BY <1>3 DEF TokensSound
<1> QED  BY <1>3, <1>4, <1>5 DEF Sound, none

(* A token made of the stack buffer, whether the list can grow or not.     *)
LEMMA ClosedSound ==
  ASSUME NEW o, NEW p \in Nat, Sound(o, p), NEW type \in Types, NEW c \in Closed(o, type)
  PROVE  Sound(c, p)
<1>1. PICK l \in Listed(o, o.buf, type) : c = IF l.toks = o.toks THEN l ELSE Emptied(l)
  BY DEF Closed
<1> DEFINE a == o.buf
<1>2. l \in Output /\ TokensSound(l, p) /\ l.buf = o.buf
  <2>1. o \in Output /\ TokensSound(o, p) /\ Behind(o, a, p) /\ l \in Listed(o, a, type)
    BY <1>1 DEF Sound
  <2> HIDE DEF a
  <2>2. l \in Output /\ TokensSound(l, p) /\ l.buf = o.buf
    BY <2>1, ListedSound
  <2> QED  BY <2>2
<1>3. CASE l.toks = o.toks
  BY <1>1, <1>2, <1>3 DEF Sound, Behind
<1>4. CASE l.toks # o.toks
  BY <1>1, <1>2, <1>4, EmptiedSound
<1> QED  BY <1>3, <1>4

LEMMA FlushSound ==
  ASSUME NEW o, NEW p \in Nat, Sound(o, p), NEW type \in Types
  PROVE  \A c \in Flush(o, type) : Sound(c, p)
BY ClosedSound DEF Flush

LEMMA WordTyped == \A w : WordType(w) \in Types
BY DEF WordType, ValueType, Types, WordTypes

LEMMA FlushWordSound ==
  ASSUME NEW o, NEW p \in Nat, Sound(o, p)
  PROVE  \A c \in FlushWord(o) : Sound(c, p)
BY ClosedSound, WordTyped DEF FlushWord

(* Bytes appended in the order in which they are read stay in order.       *)
LEMMA Lengthened ==
  ASSUME NEW o \in Output, NEW p \in Nat, TokensSound(o, p), NEW a, Behind(o, a, p), NEW q \in Nat, p <= q
  PROVE  Behind(o, Append(a, q), q + 1)
<1> DEFINE b == Append(a, q)
           n == Len(a)
<1>1. /\ a \in Seq(Nat) /\ n \in Nat /\ b \in Seq(Nat)
      /\ DOMAIN a = 1..n /\ DOMAIN b = 1..(n + 1)
      /\ \A i \in 1..n : b[i] = a[i] /\ a[i] \in Nat /\ a[i] < p
      /\ b[n + 1] = q
  BY DEF Behind, Below
<1>2. Increasing(b)
  <2> SUFFICES ASSUME NEW i \in 1..(n + 1), NEW j \in 1..(n + 1), i < j
               PROVE  b[i] < b[j]
    BY <1>1 DEF Increasing
  <2>1. i \in 1..n
    BY <1>1
  <2>2. CASE j = n + 1
    BY <1>1, <2>1, <2>2
  <2>3. CASE j \in 1..n
    BY <1>1, <2>1, <2>3 DEF Behind, Increasing
  <2> QED  BY <1>1, <2>2, <2>3
<1>3. Below(b, q + 1)
  <2> SUFFICES ASSUME NEW i \in 1..(n + 1)  PROVE b[i] < q + 1
    BY <1>1 DEF Below
  <2>1. CASE i = n + 1
    BY <1>1, <2>1
  <2>2. CASE i \in 1..n
    BY <1>1, <2>2
  <2> QED  BY <1>1, <2>1, <2>2
<1>4. ASSUME NEW k \in DOMAIN o.toks  PROVE Before(o.toks[k].at, b)
  <2> SUFFICES ASSUME NEW i \in DOMAIN o.toks[k].at, NEW j \in 1..(n + 1)
               PROVE  o.toks[k].at[i] < b[j]
    BY <1>1 DEF Before
  <2>1. CASE j = n + 1
    <3>1. o.toks[k].at \in Seq(Nat)
      BY TokenTyped
    <3>2. o.toks[k].at[i] < p /\ o.toks[k].at[i] \in Nat
      BY <3>1 DEF TokensSound, Below
    <3> QED  BY <1>1, <2>1, <3>2
  <2>2. CASE j \in 1..n
    BY <1>1, <2>2 DEF Behind, Before
  <2> QED  BY <1>1, <2>1, <2>2
<1> QED  BY <1>1, <1>2, <1>3, <1>4 DEF Behind

LEMMA TokensStaySound ==
  ASSUME NEW o \in Output, NEW p \in Nat, NEW q \in Nat, p <= q, TokensSound(o, p)
  PROVE  TokensSound(o, q)
<1>1. ASSUME NEW k \in DOMAIN o.toks  PROVE Below(o.toks[k].at, q)
  <2>1. o.toks[k].at \in Seq(Nat)
    BY TokenTyped
  <2> QED  BY <2>1 DEF TokensSound, Below
<1> QED  BY <1>1 DEF TokensSound

LEMMA StaysSound ==
  ASSUME NEW o, NEW p \in Nat, NEW q \in Nat, p <= q, Sound(o, p)
  PROVE  Sound(o, q)
<1>1. TokensSound(o, q)
  BY TokensStaySound DEF Sound
<1>2. Below(o.buf, q)
  BY DEF Sound, Behind, Below
<1> QED  BY <1>1, <1>2 DEF Sound, Behind

LEMMA PushSound ==
  ASSUME NEW o, NEW p \in Nat, Sound(o, p), NEW q \in Nat, p <= q
  PROVE  Sound(Push(o, q), q + 1) /\ Push(o, q).buf # <<>>
<1>1. o \in Output /\ o.buf \in Seq(Nat)
  BY DEF Sound, Output
<1>2. /\ Push(o, q) \in Output
      /\ Push(o, q).buf = Append(o.buf, q) /\ Push(o, q).toks = o.toks
  <2>1. Append(o.buf, q) \in Seq(Nat)
    BY <1>1
  <2>2. Push(o, q) = [o EXCEPT !.buf = Append(o.buf, q)]
    BY <1>1 DEF Push, Output
  <2> QED  BY <1>1, <2>1, <2>2 DEF Output
<1>3. Behind(o, Append(o.buf, q), q + 1)
  BY <1>1, Lengthened DEF Sound
<1>4. TokensSound(o, q + 1)
  BY <1>1, TokensStaySound DEF Sound
<1>5. Append(o.buf, q) # <<>>
  BY <1>1
<1> QED  BY <1>2, <1>3, <1>4, <1>5 DEF Sound, TokensSound, Behind

(* What split_operator_sce_token makes a token of: the first one or two of *)
(* the bytes.                                                              *)
LEMMA FirstBytes ==
  ASSUME NEW o \in Output, NEW p \in Nat, NEW a, Behind(o, a, p), NEW n \in 1..2, n <= Len(a)
  PROVE  Behind(o, SubSeq(a, 1, n), p)
<1> DEFINE b == SubSeq(a, 1, n)
<1>1. /\ a \in Seq(Nat) /\ b \in Seq(Nat)
      /\ DOMAIN b = 1..n /\ 1..n \subseteq DOMAIN a
      /\ \A i \in 1..n : b[i] = a[i]
  BY DEF Behind
<1> HIDE DEF b
<1>2. Increasing(b) /\ Below(b, p)
  BY <1>1 DEF Behind, Increasing, Below
<1>3. \A k \in DOMAIN o.toks : Before(o.toks[k].at, b)
  BY <1>1 DEF Behind, Before
<1>4. Behind(o, b, p)
  BY <1>1, <1>2, <1>3 DEF Behind
<1> QED  BY <1>4 DEF b

-----------------------------------------------------------------------------
(* The steps.                                                              *)

LEMMA InitInv == Init => LexerInv
<1> SUFFICES ASSUME Init  PROVE LexerInv
  OBVIOUS
<1> DEFINE none == <<>>
<1>1. /\ none \in Seq(Nat) /\ none \in Seq(Token) /\ none \in Seq(STRING)
      /\ DOMAIN none = {} /\ Len(none) = 0
  OBVIOUS
<1>2. /\ out = [toks |-> none, buf |-> none, room |-> Room, starved |-> FALSE]
      /\ text = none /\ user = 0 /\ pos = 1 /\ mode = "normal" /\ stage = "load" /\ file = FALSE
  BY DEF Init
<1> HIDE DEF none
<1>3. out \in Output
  BY <1>1, <1>2, BytesAssumption DEF Output
<1>4. TypeOK
  <2>1. text \in Seq(STRING) /\ user \in 0..Len(text) /\ pos \in 1..(Len(text) + 1)
    BY <1>1, <1>2
  <2> QED  BY <1>2, <1>3, <2>1 DEF TypeOK, Output, Modes, Stages
<1>5. Sound(out, 1)
  BY <1>1, <1>2, <1>3 DEF Sound, TokensSound, Behind, Increasing, Below, Before
<1> QED  BY <1>2, <1>4, <1>5 DEF LexerInv, Unused

(* A byte is taken: the position goes on in the text.                      *)
LEMMA TakeTyped ==
  ASSUME TypeOK, NEW m \in Modes, NEW n, In(n), Take(m)
  PROVE  /\ pos' \in 1..(Len(text') + 1) /\ pos' = pos + 1 /\ mode' = m
         /\ stage' = "lex" /\ UNCHANGED <<file, text, user>>
BY DEF TypeOK, In, Take

LEMMA AgainTyped ==
  ASSUME TypeOK, NEW m \in Modes, NEW n, In(n), Again(m)
  PROVE  /\ pos' = pos /\ mode' = m
         /\ stage' = "lex" /\ UNCHANGED <<file, text, user>>
BY DEF In, Again

(* A step of the loop that takes a byte, or leaves it, and keeps the       *)
(* tokens and the stack buffer in order up to it.                          *)
LEMMA TakeKeeps ==
  ASSUME LexerInv, NEW m \in Modes, NEW n, In(n), n # "dot", Take(m),
         Sound(out', IF m = "dot" THEN pos ELSE pos + 1),
         m = "operator" => out'.buf # <<>>
  PROVE  LexerInv'
<1>1. TypeOK /\ pos \in Nat
  BY DEF LexerInv, TypeOK
<1>2. /\ pos' \in 1..(Len(text') + 1) /\ pos' = pos + 1 /\ mode' = m
      /\ stage' = "lex" /\ UNCHANGED <<file, text, user>>
  BY <1>1, TakeTyped
<1>3. out' \in Output
  BY DEF Sound
<1>4. TypeOK'
  BY <1>1, <1>2, <1>3 DEF TypeOK, Output, Stages
<1>5. Unused' = (IF m = "dot" THEN pos ELSE pos + 1)
  BY <1>1, <1>2 DEF Unused
<1> QED  BY <1>1, <1>2, <1>4, <1>5 DEF LexerInv

LEMMA AgainKeeps ==
  ASSUME LexerInv, NEW m \in Modes \ {"dot", "operator"}, NEW n, In(n), Again(m), Sound(out', pos)
  PROVE  LexerInv'
<1>1. TypeOK /\ pos \in Nat
  BY DEF LexerInv, TypeOK
<1>2. pos' = pos /\ mode' = m /\ stage' = "lex" /\ UNCHANGED <<file, text, user>>
  BY <1>1, AgainTyped
<1>3. out' \in Output
  BY DEF Sound
<1>4. TypeOK'
  BY <1>1, <1>2, <1>3 DEF TypeOK, Output, Stages
<1> QED  BY <1>1, <1>2, <1>4 DEF LexerInv, Unused

(* What split_normal_sce_token does with the byte at pos.                  *)
LEMMA NormalKeeps ==
  ASSUME LexerInv, Punct \/ StartOperator \/ SingleOperator \/ Quote \/ DotOrAt \/ Blank \/ WordByte
  PROVE  LexerInv'
<1>1. In("normal") /\ pos \in Nat /\ Sound(out, pos)
  BY DEF LexerInv, TypeOK, Unused, Punct, StartOperator, SingleOperator, Quote, DotOrAt, Blank,
         WordByte, In
<1>2. \A o \in FlushWord(out) : Sound(o, pos)
  BY <1>1, FlushWordSound
<1>3. \A o \in FlushWord(out) : Sound(Push(o, pos), pos + 1) /\ Push(o, pos).buf # <<>>
  BY <1>1, <1>2, PushSound
<1>4. \A o \in FlushWord(out) : Sound(o, pos + 1)
  BY <1>1, <1>2, StaysSound
<1>5. {"normal", "operator", "char", "string", "dot", "comment"} \subseteq Modes
  BY DEF Modes
<1>6. CASE Punct \/ SingleOperator
  <2>1. PICK o \in FlushWord(out), type \in {"punct", "operator"} :
          out' \in Flush(Push(o, pos), type) /\ Take("normal")
    BY <1>6 DEF Punct, SingleOperator
  <2>2. Sound(out', pos + 1)
    BY <1>1, <1>3, <2>1, FlushSound DEF Types
  <2> QED  BY <1>1, <1>5, <2>1, <2>2, TakeKeeps
<1>7. CASE StartOperator
  <2>1. PICK o \in FlushWord(out) : out' = Push(o, pos) /\ Take("operator")
    BY <1>7 DEF StartOperator
  <2> QED  BY <1>1, <1>3, <1>5, <2>1, TakeKeeps
<1>8. CASE Quote \/ Blank
  <2>1. PICK m \in {"normal", "char", "string"} : out' \in FlushWord(out) /\ Take(m)
    BY <1>8 DEF Quote, Blank
  <2> QED  BY <1>1, <1>4, <1>5, <2>1, TakeKeeps
<1>9. CASE DotOrAt
  <2>1. PICK m \in {"dot", "comment"} : out' = out /\ Take(m)
    BY <1>9 DEF DotOrAt
  <2>2. Sound(out', pos) /\ Sound(out', pos + 1)
    BY <1>1, <2>1, StaysSound
  <2> QED  BY <1>1, <1>5, <2>1, <2>2, TakeKeeps
<1>10. CASE WordByte
  <2>1. out' = Push(out, pos) /\ Take("normal")
    BY <1>10 DEF WordByte
  <2>2. Sound(out', pos + 1)
    BY <1>1, <2>1, PushSound
  <2> QED  BY <1>1, <1>5, <2>1, <2>2, TakeKeeps
<1> QED  BY <1>6, <1>7, <1>8, <1>9, <1>10

(* A table of two bytes only has entries of two bytes.                     *)
LEMMA TwoBytes ==
  ASSUME NEW a \in Seq(Nat), Texts(a) \in TwoByteOperators
  PROVE  Len(a) = 2
<1>1. DOMAIN Texts(a) = 1..2
  BY DEF TwoByteOperators
<1>2. DOMAIN a = 1..2
  BY <1>1 DEF Texts
<1> QED  BY <1>2

(* The second byte is taken with the operator or is left for the next      *)
(* token; in that case the operator's own byte is before it.               *)
LEMMA OperatorKeeps ==
  ASSUME LexerInv, Operator
  PROVE  LexerInv'
<1> DEFINE b   == Append(out.buf, pos)
           two == Texts(b) \in TwoByteOperators
           n   == IF two THEN 2 ELSE 1
<1>1. /\ In("operator") /\ pos \in Nat /\ Sound(out, pos)
      /\ out \in Output /\ out.buf \in Seq(Nat) /\ out.buf # <<>>
  BY DEF LexerInv, TypeOK, Unused, Operator, In, Sound, Output
<1>2. /\ out' \in Listed(Emptied(out), SubSeq(b, 1, n), "operator")
      /\ IF two THEN Take("normal") ELSE Again("normal")
  BY DEF Operator
<1>3. Behind(out, b, pos + 1)
  BY <1>1, Lengthened DEF Sound
<1>4. b \in Seq(Nat) /\ Len(b) = Len(out.buf) + 1 /\ Len(out.buf) >= 1
  BY <1>1
<1>5. "normal" \in Modes \ {"dot", "operator"} /\ "operator" \in Types
  BY DEF Modes, Types
<1>6. Emptied(out) \in Output /\ Emptied(out).toks = out.toks /\ Emptied(out).buf = <<>>
  BY <1>1, EmptiedSound DEF Sound
<1>7. ASSUME NEW q \in Nat, NEW a, TokensSound(out, q), Behind(out, a, q),
             out' \in Listed(Emptied(out), a, "operator")
      PROVE  Sound(out', q)
  <2>1. TokensSound(Emptied(out), q) /\ Behind(Emptied(out), a, q)
    BY <1>6, <1>7 DEF TokensSound, Behind
  <2>2. out' \in Output /\ TokensSound(out', q) /\ out'.buf = Emptied(out).buf
    BY <1>5, <1>6, <1>7, <2>1, ListedSound
  <2>3. Emptied(out') = out'
    BY <1>6, <2>2 DEF Emptied, Output
  <2> QED  BY <2>2, <2>3, EmptiedSound
<1> HIDE DEF b
<1>8. CASE two
  <2>1. Len(b) = 2
    BY <1>4, <1>8, TwoBytes
  <2>2. Behind(out, SubSeq(b, 1, n), pos + 1)
    <3>1. n = 2
      BY <1>8
    <3>2. PICK q \in Nat : q = pos + 1
      BY <1>1
    <3>3. Behind(out, b, q) /\ 2 \in 1..2 /\ 2 <= Len(b)
      BY <1>3, <2>1, <3>2
    <3>4. Behind(out, SubSeq(b, 1, 2), q)
      BY <1>1, <3>3, FirstBytes
    <3> QED  BY <3>1, <3>2, <3>4
  <2>3. TokensSound(out, pos + 1)
    BY <1>1, TokensStaySound DEF Sound
  <2>4. Sound(out', pos + 1)
    BY <1>1, <1>2, <1>7, <2>2, <2>3
  <2> QED  BY <1>1, <1>2, <1>5, <1>8, <2>4, TakeKeeps
<1>9. CASE ~two
  <2>1. SubSeq(b, 1, n) = SubSeq(out.buf, 1, 1)
    <3>1. SubSeq(Append(out.buf, pos), 1, 1) = SubSeq(out.buf, 1, 1)
      BY <1>1, <1>4
    <3> QED  BY <1>9, <3>1 DEF b
  <2>2. Behind(out, SubSeq(out.buf, 1, 1), pos)
    BY <1>1, <1>4, FirstBytes DEF Sound
  <2>3. Sound(out', pos)
    BY <1>1, <1>2, <1>7, <2>1, <2>2 DEF Sound
  <2> QED  BY <1>1, <1>2, <1>5, <1>9, <2>3, AgainKeeps
<1> QED  BY <1>8, <1>9

(* The dot that was read is put behind the word or becomes an operator;    *)
(* the byte after it is left.                                              *)
LEMMA DotKeeps ==
  ASSUME LexerInv, Dot
  PROVE  LexerInv'
<1>1. In("dot") /\ pos - 1 \in Nat /\ pos \in Nat /\ Sound(out, pos - 1)
  BY DEF LexerInv, TypeOK, Unused, Dot, In
<1>2. \A o \in FlushWord(out) : Sound(o, pos - 1)
  BY <1>1, FlushWordSound
<1>3. (pos - 1) + 1 = pos
  BY <1>1
<1>4. \A o : Sound(o, pos - 1) => Sound(Push(o, pos - 1), pos)
  BY <1>1, <1>3, PushSound
<1>5. Sound(out', pos)
  <2>1. CASE out' = Push(out, pos - 1)
    BY <1>1, <1>4, <2>1
  <2>2. CASE \E o \in FlushWord(out) : out' \in Flush(Push(o, pos - 1), "operator")
    <3>1. PICK o \in FlushWord(out) : out' \in Flush(Push(o, pos - 1), "operator")
      BY <2>2
    <3> QED  BY <1>1, <1>2, <1>4, <3>1, FlushSound DEF Types
  <2> QED  BY <2>1, <2>2 DEF Dot
<1>6. "normal" \in Modes \ {"dot", "operator"} /\ Again("normal")
  BY DEF Modes, Dot
<1> QED  BY <1>1, <1>5, <1>6, AgainKeeps

(* Strings and comments.                                                   *)
LEMMA StringKeeps ==
  ASSUME LexerInv, String \/ Escape \/ GoOnAfterString \/ EndString
  PROVE  LexerInv'
<1>1. PICK n \in {"string", "escape", "after"} : In(n)
  BY DEF String, Escape, GoOnAfterString, EndString
<1>2. pos \in Nat /\ Sound(out, pos)
  BY <1>1 DEF LexerInv, TypeOK, Unused, In
<1>3. Sound(out, pos + 1) /\ Sound(Push(out, pos), pos + 1)
  BY <1>2, StaysSound, PushSound
<1>4. {"string", "escape", "after", "normal"} \subseteq Modes \ {"dot", "operator"}
  BY DEF Modes
<1>5. CASE EndString
  <2>1. Sound(out', pos) /\ Again("normal")
    BY <1>2, <1>5, ClosedSound DEF EndString, Types
  <2> QED  BY <1>1, <1>4, <2>1, AgainKeeps
<1>6. CASE String \/ Escape \/ GoOnAfterString
  <2>1. PICK m \in {"string", "escape", "after"} : Take(m) /\ out' \in {out, Push(out, pos)}
    BY <1>6 DEF String, Escape, GoOnAfterString
  <2> QED  BY <1>1, <1>3, <1>4, <2>1, TakeKeeps
<1> QED  BY <1>5, <1>6

LEMMA CommentKeeps ==
  ASSUME LexerInv, Comment
  PROVE  LexerInv'
<1>1. PICK n \in {"comment", "line", "multi", "multiEnd"} : In(n) /\ Take(NextInComment(n, Byte))
  BY DEF Comment
<1>2. NextInComment(n, Byte) \in {"normal", "line", "multi", "multiEnd"}
  BY DEF NextInComment
<1>3. pos \in Nat /\ Sound(out, pos) /\ out' = out
  BY <1>1 DEF LexerInv, TypeOK, Unused, In, Comment
<1>4. Sound(out', pos + 1)
  BY <1>3, StaysSound
<1>5. {"normal", "line", "multi", "multiEnd"} \subseteq Modes \ {"dot", "operator"}
  BY DEF Modes
<1> QED  BY <1>1, <1>2, <1>4, <1>5, TakeKeeps

(* The driver's steps, and the two ways in which the loop ends.            *)
LEMMA EndsKeep ==
  ASSUME LexerInv, Load \/ InsertStd \/ Abort \/ Finish
  PROVE  LexerInv'
<1>1. pos' = pos /\ mode' = mode /\ Unused' = Unused /\ TypeOK
  BY DEF LexerInv, Unused, Load, InsertStd, Abort, Finish
<1>2. CASE Load
  <2>1. pos = 1 /\ out' = out /\ stage' = "insert"
    BY <1>2 DEF LexerInv, Load
  <2>2. /\ text' \in Seq(STRING) /\ file' \in BOOLEAN
        /\ user' \in 0..Len(text') /\ pos \in 1..(Len(text') + 1)
    <3>1. text' \in Seq(STRING) /\ file' \in BOOLEAN /\ user' = Len(text')
      <4>1. <<>> \in Seq(STRING)
        OBVIOUS
      <4>2. user' = Len(text') /\ (text' \in Files \/ text' = <<>>) /\ file' \in BOOLEAN
        BY <1>2 DEF Load
      <4> QED  BY <4>1, <4>2, BytesAssumption
    <3>2. Len(text') \in Nat
      BY <3>1
    <3> QED  BY <2>1, <3>1, <3>2
  <2>3. mode = "normal"
    BY <1>2 DEF LexerInv, Load
  <2>4. TypeOK'
    BY <1>1, <2>1, <2>2 DEF TypeOK, Stages
  <2> QED  BY <1>1, <2>1, <2>3, <2>4 DEF LexerInv
<1>3. CASE InsertStd
  <2>1. out' = out /\ stage' \in {"lex", "crashed"} /\ UNCHANGED <<file, user>>
    BY <1>3 DEF InsertStd
  <2>2. text' \in Seq(STRING) /\ Len(text) <= Len(text') /\ Len(text) \in Nat /\ Len(text') \in Nat
    <3>1. text \in Seq(STRING) /\ Std \in Seq(STRING) /\ text' \in {text, text \o Std}
      BY <1>1, <1>3, BytesAssumption DEF InsertStd, TypeOK
    <3>2. text \o Std \in Seq(STRING) /\ Len(text \o Std) = Len(text) + Len(Std)
      BY <3>1
    <3> QED  BY <3>1, <3>2
  <2>3. user' \in 0..Len(text') /\ pos' \in 1..(Len(text') + 1)
    BY <1>1, <2>1, <2>2 DEF TypeOK
  <2>4. mode = "normal"
    BY <1>3 DEF LexerInv, InsertStd
  <2>5. TypeOK'
    BY <1>1, <2>1, <2>2, <2>3 DEF TypeOK, Stages
  <2> QED  BY <1>1, <2>1, <2>4, <2>5 DEF LexerInv
<1>4. CASE Abort
  <2>1. UNCHANGED <<file, text, user, out>> /\ stage' = "aborted"
    BY <1>4 DEF Abort
  <2> QED  BY <1>1, <2>1 DEF LexerInv, TypeOK, Stages
<1>5. CASE Finish
  <2>1. UNCHANGED <<file, text, user>> /\ stage' = "done" /\ out' \in FlushWord(out)
    BY <1>5 DEF Finish
  <2>2. Sound(out', Unused)
    BY <2>1, FlushWordSound DEF LexerInv
  <2>3. out' \in Output
    BY <2>2 DEF Sound
  <2>4. TypeOK'
    BY <1>1, <2>1, <2>3 DEF TypeOK, Output, Stages
  <2> QED  BY <1>1, <2>1, <2>2, <2>4 DEF LexerInv
<1> QED  BY <1>2, <1>3, <1>4, <1>5

LEMMA StepInv == LexerInv /\ [Next]_vars => LexerInv'
<1> SUFFICES ASSUME LexerInv, [Next]_vars  PROVE LexerInv'
  OBVIOUS
<1>1. CASE Punct \/ StartOperator \/ SingleOperator \/ Quote \/ DotOrAt \/ Blank \/ WordByte
  BY <1>1, NormalKeeps
<1>2. CASE Operator
  BY <1>2, OperatorKeeps
<1>3. CASE Dot
  BY <1>3, DotKeeps
<1>4. CASE String \/ Escape \/ GoOnAfterString \/ EndString
  BY <1>4, StringKeeps
<1>5. CASE Comment
  BY <1>5, CommentKeeps
<1>6. CASE Load \/ InsertStd \/ Abort \/ Finish
  BY <1>6, EndsKeep
<1>7. CASE UNCHANGED vars
  BY <1>7 DEF LexerInv, TypeOK, Unused, vars
<1> QED  BY <1>1, <1>2, <1>3, <1>4, <1>5, <1>6, <1>7 DEF Next, Lex

(* The loop stays in the text and every variable keeps its type, for every *)
(* source and every way in which the token list fails to grow.             *)
THEOREM LexerTyped == Spec => []TypeOK
<1>1. LexerInv => TypeOK
  BY DEF LexerInv
<1> QED  BY <1>1, InitInv, StepInv, PTL DEF Spec

(* No byte is doubled or moved, for every source and every way in which    *)
(* the token list fails to grow: tokens and the stack buffer are made of   *)
(* rising positions.                                                       *)
THEOREM BytesInOrder == Spec => []InOrder
<1>1. LexerInv => InOrder
  BY DEF LexerInv, Sound, TokensSound, Behind, InOrder
<1> QED  BY <1>1, InitInv, StepInv, PTL DEF Spec

(* Every turn of the loop brings its end closer, for every source and      *)
(* every list: a byte that a handler leaves is taken by the next.          *)
THEOREM LoopComesToAnEnd == Spec => TurnsRunOut
<1>1. TypeOK /\ [Next]_vars => [stage = "lex" => stage' # "lex" \/ Ahead' < Ahead]_vars
  <2> SUFFICES ASSUME TypeOK, Next, stage = "lex", stage' = "lex"
               PROVE  Ahead' < Ahead
    OBVIOUS
  <2>1. /\ pos \in Nat /\ Len(text) \in Nat /\ pos <= Len(text)
        /\ \/ \E m : Take(m)
           \/ mode \in {"operator", "dot", "after"} /\ Again("normal")
    <3>1. pos \in Nat /\ Len(text) \in Nat
      BY DEF TypeOK
    <3>2. Lex /\ ~Abort /\ ~Finish
      BY DEF Next, Load, InsertStd, Abort, Finish
    <3>3. \E m : In(m)
      BY <3>2 DEF Lex, Punct, StartOperator, SingleOperator, Quote, DotOrAt, Blank, WordByte,
                  Operator, Dot, String, Escape, GoOnAfterString, EndString, Comment
    <3>4. CASE Operator
      <4>1. mode = "operator" /\ (Take("normal") \/ Again("normal"))
        BY <3>4 DEF Operator, In
      <4> QED  BY <3>1, <3>3, <4>1 DEF In
    <3>5. CASE Dot \/ EndString
      <4>1. mode \in {"dot", "after"} /\ Again("normal")
        BY <3>5 DEF Dot, EndString, In
      <4> QED  BY <3>1, <3>3, <4>1 DEF In
    <3>6. CASE Comment
      <4>1. PICK m : Take(m)
        BY <3>6 DEF Comment
      <4> QED  BY <3>1, <3>3, <4>1 DEF In
    <3>7. CASE Punct \/ StartOperator \/ SingleOperator \/ Quote \/ DotOrAt \/ Blank \/ WordByte
               \/ String \/ Escape \/ GoOnAfterString
      <4>1. PICK m : Take(m)
        BY <3>7 DEF Punct, StartOperator, SingleOperator, Quote, DotOrAt, Blank, WordByte, String,
                    Escape, GoOnAfterString
      <4> QED  BY <3>1, <3>3, <4>1 DEF In
    <3> QED  BY <3>2, <3>4, <3>5, <3>6, <3>7 DEF Lex
  <2>2. CASE \E m : Take(m)
    BY <2>1, <2>2 DEF Take, Ahead
  <2>3. CASE mode \in {"operator", "dot", "after"} /\ Again("normal")
    BY <2>1, <2>3 DEF Again, Ahead
  <2> QED  BY <2>1, <2>2, <2>3
<1>2. LexerInv => TypeOK
  BY DEF LexerInv
<1> QED  BY <1>1, <1>2, InitInv, StepInv, PTL DEF Spec, TurnsRunOut
=============================================================================
