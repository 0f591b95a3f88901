--------------------------- MODULE LexerMatchProofs ---------------------------
(***************************************************************************)
(* Where the lexer cuts: no word is cut in two and no operator is shorter  *)
(* than the table of operators allows, and the declarations behind a       *)
(* source keep their tokens, for every source.                             *)
(***************************************************************************)
EXTENDS LexerTextProofs

CONSTANTS First, Last  \* where the tokens of Std start and end

(* An operator of one byte could not have taken the byte behind it.        *)
Whole(t) ==
  t.type = "operator" /\ Len(t.at) = 1 =>
    \/ text[t.at[1]] \in SingleOperators
    \/ <<text[t.at[1]], text[t.at[1] + 1]>> \notin TwoByteOperators

WordsApart(t, u) == ~(t.type \in WordTypes /\ u.type \in WordTypes /\ Adjoin(t, u))

Cut(o) ==
  /\ \A k \in DOMAIN o.toks : Whole(o.toks[k])
  /\ \A k \in 2..Len(o.toks) : WordsApart(o.toks[k - 1], o.toks[k])

(* If the last token is a word, a byte at q or behind does not adjoin it.  *)
Gap(o, q) ==
  LET t == o.toks[Len(o.toks)]
  IN  o.toks # <<>> /\ t.type \in WordTypes /\ t.at # <<>> => t.at[Len(t.at)] + 1 < q

(* Where the next token starts: with the stack buffer, or with what is     *)
(* read at p or behind.                                                    *)
Front(o, p) == IF o.buf = <<>> THEN p ELSE o.buf[1]

(* The byte behind an operator comes next to it; in every other mode the   *)
(* stack buffer is apart from the last word.                               *)
CutInv ==
  /\ stage \in {"load", "insert"} => out.toks = <<>> /\ out.buf = <<>>
  /\ stage = "lex" /\ ~out.starved =>
       /\ Cut(out)
       /\ mode = "operator" => out.buf = <<pos - 1>>
       /\ mode # "operator" => Gap(out, Front(out, Unused))
  /\ stage = "done" /\ mode = "normal" /\ ~out.starved => Cut(out)

-----------------------------------------------------------------------------
(* The operations on the list.                                             *)

LEMMA CutLonger ==
  ASSUME NEW o \in Output, Cut(o), NEW t \in Token, NEW l \in Output,
         l.toks = Append(o.toks, t), Whole(t),
         t.type \in WordTypes /\ t.at # <<>> => Gap(o, t.at[1])
  PROVE  /\ Cut(l)
         /\ \A q : (t.type \in WordTypes /\ t.at # <<>> => t.at[Len(t.at)] + 1 < q) => Gap(l, q)
<1> DEFINE n == Len(o.toks)
<1>1. /\ o.toks \in Seq(Token) /\ n \in Nat
      /\ DOMAIN l.toks = 1..(n + 1) /\ DOMAIN o.toks = 1..n /\ Len(l.toks) = n + 1
      /\ \A k \in 1..n : l.toks[k] = o.toks[k]
      /\ l.toks[n + 1] = t /\ l.toks # <<>>
      /\ o.toks # <<>> <=> n # 0
  BY DEF Output
<1> HIDE DEF n
<1>2. ASSUME NEW k \in 1..(n + 1) PROVE Whole(l.toks[k])
  <2>1. k = n + 1 \/ k \in 1..n
    BY <1>1
  <2> QED  BY <1>1, <2>1 DEF Cut
<1>3. ASSUME NEW k \in 2..(n + 1) PROVE WordsApart(l.toks[k - 1], l.toks[k])
  <2>1. CASE k = n + 1
    <3>1. k - 1 = n /\ n \in 1..n /\ l.toks[k - 1] = o.toks[n] /\ l.toks[k] = t /\ n # 0
      BY <1>1, <2>1
    <3>2. PICK u : u = o.toks[n]
      OBVIOUS
    <3>3. u.at \in Seq(Nat) /\ t.at \in Seq(Nat)
      <4>1. u \in Token
        BY <1>1, <3>1, <3>2
      <4> QED  BY <4>1 DEF Token
    <3>4. ASSUME u.type \in WordTypes, t.type \in WordTypes, u.at # <<>>, t.at # <<>>
          PROVE  u.at[Len(u.at)] + 1 # t.at[1]
      <4>1. Gap(o, t.at[1])
        BY <3>4
      <4>2. u.at[Len(u.at)] + 1 < t.at[1]
        BY <1>1, <3>1, <3>2, <3>4, <4>1 DEF Gap, n
      <4>3. u.at[Len(u.at)] \in Nat /\ t.at[1] \in Nat
        BY <3>3, <3>4
      <4> QED  BY <4>2, <4>3
    <3> QED  BY <3>1, <3>2, <3>4 DEF WordsApart, Adjoin
  <2>2. CASE k \in 2..n
    <3>1. k \in 1..n /\ k - 1 \in 1..n
      BY <1>1, <2>2
    <3> QED  BY <1>1, <2>2, <3>1 DEF Cut, n
  <2> QED  BY <1>1, <2>1, <2>2
<1>4. Cut(l)
  BY <1>1, <1>2, <1>3 DEF Cut
<1> QED  BY <1>1, <1>4 DEF Gap

(* What is not a word is cut off whatever comes before and behind it.      *)
LEMMA FlushCut ==
  ASSUME NEW o \in Output, NEW type \in Types \ WordTypes, Cut(o), o.buf # <<>>,
         Whole([type |-> type, at |-> o.buf]), NEW c \in Flush(o, type), c \in Output, ~c.starved
  PROVE  ~o.starved /\ Cut(c) /\ c.buf = <<>> /\ \A q : Gap(c, q)
<1> PICK t : t = [type |-> type, at |-> o.buf]
  OBVIOUS
<1>1. t \in Token /\ t.type = type
  BY DEF Token, Output
<1>2. ~o.starved /\ c.buf = <<>> /\ c.toks = Append(o.toks, t)
  BY ClosedHolds DEF Flush
<1>3. Cut(c) /\ \A q : Gap(c, q)
  BY <1>1, <1>2, CutLonger
<1> QED  BY <1>2, <1>3

LEMMA GapWider ==
  ASSUME NEW o \in Output, NEW p \in Nat, Gap(o, p)
  PROVE  Gap(o, p + 1)
<1>1. PICK t : t = o.toks[Len(o.toks)]
  OBVIOUS
<1>2. ASSUME o.toks # <<>>, t.at # <<>> PROVE t.at[Len(t.at)] \in Nat
  <2>1. o.toks \in Seq(Token)
    BY DEF Output
  <2>2. t \in Token
    BY <1>1, <1>2, <2>1
  <2>3. t.at \in Seq(Nat)
    BY <2>2 DEF Token
  <2> QED  BY <1>2, <2>3
<1> QED  BY <1>1, <1>2 DEF Gap

(* A word that is flushed is apart from the last one, and the next one     *)
(* from it if the byte at p is left out.                                   *)
LEMMA FlushWordCut ==
  ASSUME NEW o, NEW p \in Nat, Sound(o, p), Cut(o), Gap(o, Front(o, p)),
         NEW c \in FlushWord(o), ~c.starved
  PROVE  ~o.starved /\ Cut(c) /\ c.buf = <<>> /\ Gap(c, p + 1)
<1>1. o \in Output /\ c \in Output
  BY FlushWordSound DEF Sound
<1>2. CASE o.buf = <<>>
  <2>1. c = o /\ Gap(o, p)
    BY <1>2 DEF FlushWord, Front
  <2>2. Gap(o, p + 1)
    BY <1>1, <2>1, GapWider
  <2> QED  BY <1>2, <2>1, <2>2
<1>3. CASE o.buf # <<>>
  <2>1. PICK type \in WordTypes : c \in Closed(o, type)
    BY <1>3 DEF FlushWord, WordType, ValueType, WordTypes
  <2>2. PICK t : t = [type |-> type, at |-> o.buf]
    OBVIOUS
  <2>3. t \in Token /\ t.type = type /\ t.at = o.buf /\ type \in Types /\ Whole(t)
    BY <1>1, <2>2 DEF Token, Output, Types, Whole, WordTypes
  <2>4. ~o.starved /\ c.buf = <<>> /\ c.toks = Append(o.toks, t)
    BY <1>1, <2>1, <2>2, <2>3, ClosedHolds
  <2>5. Gap(o, t.at[1])
    BY <1>3, <2>3 DEF Front
  <2>6. t.at[Len(t.at)] + 1 < p + 1
    <3>1. o.buf \in Seq(Nat) /\ Len(o.buf) \in DOMAIN o.buf
      BY <1>1, <1>3 DEF Output
    <3>2. o.buf[Len(o.buf)] < p /\ o.buf[Len(o.buf)] \in Nat
      BY <3>1 DEF Sound, Behind, Below
    <3> QED  BY <2>3, <3>2
  <2>7. Cut(c) /\ \A q : (t.at[Len(t.at)] + 1 < q) => Gap(c, q)
    BY <1>1, <2>3, <2>4, <2>5, CutLonger
  <2> QED  BY <2>4, <2>6, <2>7
<1> QED  BY <1>2, <1>3

(* A byte behind the stack buffer is apart from the last word if the       *)
(* buffer is, or if the byte is.                                           *)
LEMMA PushCut ==
  ASSUME NEW o \in Output, NEW p \in Nat, Cut(o)
  PROVE  /\ Cut(Push(o, p)) /\ Push(o, p).buf = Append(o.buf, p)
         /\ Push(o, p).buf # <<>> /\ Push(o, p).starved = o.starved
         /\ Gap(o, Front(o, p)) => \A q : Gap(Push(o, p), Front(Push(o, p), q))
<1>1. Push(o, p).toks = o.toks /\ Push(o, p).buf = Append(o.buf, p)
      /\ Push(o, p).starved = o.starved /\ o.buf \in Seq(Nat)
  BY PushHolds DEF Output
<1>2. Append(o.buf, p) # <<>> /\ Append(o.buf, p)[1] = Front(o, p)
  BY <1>1 DEF Front
<1>3. \A q : Front(Push(o, p), q) = Front(o, p)
  BY <1>1, <1>2 DEF Front
<1> QED  BY <1>1, <1>2, <1>3 DEF Cut, Gap

-----------------------------------------------------------------------------
(* The steps of the loop.                                                  *)

LEMMA CutPrimed ==
  ASSUME UNCHANGED text, stage' = "lex",
         ~out'.starved =>
           /\ Cut(out')
           /\ mode' = "operator" => out'.buf = <<pos' - 1>>
           /\ mode' # "operator" => Gap(out', Front(out', Unused'))
  PROVE  CutInv'
<1>1. PICK o : o = out'
  OBVIOUS
<1>2. Cut(o)' <=> Cut(o)
  BY DEF Cut, Whole, WordsApart, Adjoin
<1>3. \A q : Gap(o, q)' <=> Gap(o, q)
  BY DEF Gap
<1>4. \A q : Front(o, q)' = Front(o, q)
  BY DEF Front
<1>5. ~out'.starved => Cut(o)'
  BY <1>1, <1>2
<1>6. ~out'.starved /\ mode' # "operator" => Gap(out', Front(out', Unused'))
  OBVIOUS
<1> QED  BY <1>1, <1>5, <1>6 DEF CutInv, Cut, Gap, Front

LEMMA TakeCut ==
  ASSUME LexerInv, NEW m, NEW n, In(n), Take(m),
         ~out'.starved =>
           /\ Cut(out')
           /\ m = "operator" => out'.buf = <<pos>>
           /\ m # "operator" => Gap(out', Front(out', IF m = "dot" THEN pos ELSE pos + 1))
  PROVE  CutInv'
<1>1. pos \in Nat /\ pos' = pos + 1 /\ pos' - 1 = pos /\ mode' = m /\ text' = text /\ stage' = "lex"
  BY DEF Take, In, LexerInv, TypeOK
<1>2. Unused' = IF m = "dot" THEN pos ELSE pos + 1
  BY <1>1 DEF Unused
<1> QED  BY <1>1, <1>2, CutPrimed

LEMMA AgainCut ==
  ASSUME LexerInv, NEW n, In(n), Again("normal"),
         ~out'.starved => Cut(out') /\ Gap(out', Front(out', pos))
  PROVE  CutInv'
<1>1. pos' = pos /\ mode' = "normal" /\ text' = text /\ stage' = "lex"
  BY DEF Again, In
<1>2. Unused' = pos
  BY <1>1 DEF Unused
<1> QED  BY <1>1, <1>2, CutPrimed

LEMMA NormalCut ==
  ASSUME LexerInv, CutInv,
         Punct \/ StartOperator \/ SingleOperator \/ Quote \/ DotOrAt \/ Blank \/ WordByte
  PROVE  CutInv'
<1>1. In("normal") /\ pos \in Nat /\ Sound(out, pos) /\ out \in Output
  <2>1. In("normal")
    BY DEF Punct, StartOperator, SingleOperator, Quote, DotOrAt, Blank, WordByte
  <2> QED  BY <2>1 DEF LexerInv, TypeOK, Unused, In, Sound
<1>2. ~out.starved => Cut(out) /\ Gap(out, Front(out, pos))
  BY <1>1 DEF CutInv, In, Unused
<1>3. ASSUME NEW o \in FlushWord(out), ~o.starved
      PROVE  /\ ~out.starved /\ o \in Output /\ Cut(o) /\ o.buf = <<>> /\ Gap(o, pos + 1)
             /\ Cut(Push(o, pos)) /\ Push(o, pos) \in Output
             /\ Push(o, pos).buf = <<pos>> /\ ~Push(o, pos).starved
  <2>1. o \in Output
    BY <1>1, FlushWordSound DEF Sound
  <2>2. ~out.starved
    BY <1>1, <1>3, FlushWordHolds
  <2>3. Cut(o) /\ o.buf = <<>> /\ Gap(o, pos + 1)
    BY <1>1, <1>2, <1>3, <2>2, FlushWordCut
  <2>4. Cut(Push(o, pos)) /\ Push(o, pos).buf = Append(o.buf, pos) /\ Push(o, pos) \in Output
        /\ Push(o, pos).starved = o.starved
    BY <1>1, <2>1, <2>3, PushCut, PushHolds
  <2>5. Append(o.buf, pos) = <<pos>>
    BY <2>3
  <2> QED  BY <1>3, <2>1, <2>2, <2>3, <2>4, <2>5
<1>4. \A o \in FlushWord(out) : Push(o, pos).starved = o.starved
  <2> SUFFICES ASSUME NEW o \in FlushWord(out) PROVE Push(o, pos).starved = o.starved
    OBVIOUS
  <2>1. o \in Output
    BY <1>1, FlushWordSound DEF Sound
  <2> QED  BY <1>1, <2>1, PushHolds
<1>5. ASSUME NEW o \in FlushWord(out), NEW type \in {"punct", "operator"},
             out' \in Flush(Push(o, pos), type), Take("normal"),
             type = "operator" => text[pos] \in SingleOperators
      PROVE  CutInv'
  <2>1. Push(o, pos) \in Output /\ type \in Types \ WordTypes
    <3>1. o \in Output
      BY <1>1, FlushWordSound DEF Sound
    <3> QED  BY <1>1, <3>1, PushHolds DEF Types, WordTypes
  <2>2. ASSUME ~out'.starved PROVE Cut(out') /\ \A q : Gap(out', q)
    <3>1. ~Push(o, pos).starved
      BY <1>5, <2>1, <2>2, FlushHolds DEF Types
    <3>2. ~o.starved
      BY <1>4, <3>1
    <3>3. Cut(Push(o, pos)) /\ Push(o, pos).buf = <<pos>>
      BY <1>3, <3>2
    <3>4. Whole([type |-> type, at |-> <<pos>>]) /\ <<pos>> # <<>>
      <4>1. <<pos>>[1] = pos
        OBVIOUS
      <4> QED  BY <1>5, <4>1 DEF Whole
    <3>5. PICK p : p = Push(o, pos)
      OBVIOUS
    <3>6. out' \in Output
      <4>1. Sound(o, pos)
        BY <1>1, FlushWordSound
      <4>2. PICK q \in Nat : q = pos + 1
        BY <1>1
      <4>3. Sound(p, q)
        BY <1>1, <3>5, <4>1, <4>2, PushSound
      <4> QED  BY <1>5, <2>1, <3>5, <4>3, FlushSound DEF Sound
    <3>7. PICK c : c = out'
      OBVIOUS
    <3>8. Cut(c) /\ \A q : Gap(c, q)
      BY <1>5, <2>1, <2>2, <3>3, <3>4, <3>5, <3>6, <3>7, FlushCut
    <3> QED  BY <3>7, <3>8
  <2> QED  BY <1>1, <1>5, <2>2, TakeCut
<1>6. CASE Punct \/ SingleOperator
  BY <1>5, <1>6 DEF Punct, SingleOperator, Byte
<1>7. CASE StartOperator
  <2>1. PICK o \in FlushWord(out) : out' = Push(o, pos) /\ Take("operator")
    BY <1>7 DEF StartOperator
  <2>2. ~out'.starved => Cut(out') /\ out'.buf = <<pos>>
    BY <1>3, <1>4, <2>1
  <2> QED  BY <1>1, <2>1, <2>2, TakeCut
<1>8. CASE Quote \/ Blank
  <2>1. PICK m \in {"normal", "char", "string"} : out' \in FlushWord(out) /\ Take(m)
    BY <1>8 DEF Quote, Blank
  <2>2. ~out'.starved => Cut(out') /\ out'.buf = <<>> /\ Gap(out', pos + 1)
    BY <1>3, <2>1
  <2>3. ~out'.starved => Front(out', pos + 1) = pos + 1
    BY <2>2 DEF Front
  <2> QED  BY <1>1, <2>1, <2>2, <2>3, TakeCut
<1>9. CASE DotOrAt
  <2>1. PICK m \in {"dot", "comment"} : out' = out /\ Take(m)
    BY <1>9 DEF DotOrAt
  <2>2. ~out.starved => Gap(out, Front(out, pos)) /\ Gap(out, Front(out, pos + 1))
    BY <1>1, <1>2, GapWider DEF Front
  <2> QED  BY <1>1, <1>2, <2>1, <2>2, TakeCut
<1>10. CASE WordByte
  <2>1. out' = Push(out, pos) /\ Take("normal")
    BY <1>10 DEF WordByte
  <2>2. out'.starved = out.starved
    BY <1>1, <2>1, PushHolds
  <2>3. ~out'.starved => Cut(out') /\ Gap(out', Front(out', pos + 1))
    BY <1>1, <1>2, <2>1, <2>2, PushCut
  <2> QED  BY <1>1, <2>1, <2>3, TakeCut
<1> QED  BY <1>6, <1>7, <1>8, <1>9, <1>10

(* The table has decided whether the operator takes the byte behind it.    *)
LEMMA OperatorCut ==
  ASSUME LexerInv, CutInv, Operator
  PROVE  CutInv'
<1> DEFINE b   == Append(out.buf, pos)
           two == Texts(b) \in TwoByteOperators
<1>1. /\ In("operator") /\ pos \in Nat /\ out \in Output /\ stage = "lex" /\ mode = "operator"
      /\ Emptied(out) \in Output /\ Emptied(out).toks = out.toks /\ Emptied(out).buf = <<>>
      /\ Emptied(out).starved = out.starved
  <2>1. In("operator") /\ pos \in Nat /\ out \in Output /\ stage = "lex" /\ mode = "operator"
        /\ Sound(out, pos)
    BY DEF LexerInv, TypeOK, Unused, Operator, In, Sound
  <2>2. Emptied(out) \in Output /\ Emptied(out).toks = out.toks /\ Emptied(out).buf = <<>>
    BY <2>1, EmptiedSound DEF Sound
  <2> QED  BY <2>1, <2>2 DEF Emptied, Output
<1>2. ASSUME NEW a \in Seq(Nat), out' \in Listed(Emptied(out), a, "operator"), ~out'.starved,
             Whole([type |-> "operator", at |-> a])
      PROVE  Cut(out') /\ \A q : Gap(out', Front(out', q))
  <2>1. PICK o, l, t : o = Emptied(out) /\ l = out' /\ t = [type |-> "operator", at |-> a]
    OBVIOUS
  <2>2. t \in Token /\ t.type \notin WordTypes
    BY <2>1 DEF Token, Types, WordTypes
  <2>3. ~o.starved /\ l.buf = <<>> /\ l.toks = Append(o.toks, t) /\ l \in Output
    <3>1. PICK type \in Types : type = "operator"
      BY DEF Types
    <3>2. o \in Output /\ l \in Listed(o, a, type) /\ ~l.starved /\ o.buf = <<>>
      BY <1>1, <1>2, <2>1, <3>1
    <3>3. /\ ~o.starved /\ l.buf = o.buf
          /\ l.toks = Append(o.toks, [type |-> type, at |-> a]) /\ l.toks # o.toks
          /\ \A q : InTokens(l, q) <=> InTokens(o, q) \/ InBuffer(a, q)
      BY <3>2, ListedHolds
    <3>4. l \in Output
      BY <2>1, OperatorKeeps DEF LexerInv, TypeOK, Output
    <3> QED  BY <2>1, <3>1, <3>2, <3>3, <3>4
  <2>4. Cut(o)
    <3>1. ~out.starved
      BY <1>1, <2>1, <2>3
    <3>2. Cut(out)
      BY <1>1, <3>1 DEF CutInv
    <3> QED  BY <1>1, <2>1, <3>2 DEF Cut
  <2>5. Cut(l) /\ \A q : Gap(l, q)
    BY <1>1, <1>2, <2>1, <2>2, <2>3, <2>4, CutLonger
  <2> QED  BY <2>1, <2>5
<1>3. ASSUME ~out'.starved PROVE ~out.starved
  <2>1. PICK a : out' \in Listed(Emptied(out), a, "operator")
    BY DEF Operator
  <2>2. out'.starved = Emptied(out).starved
    BY <1>1, <1>3, <2>1 DEF Listed, Added, Output
  <2> QED  BY <1>1, <1>3, <2>2
<1>4. ASSUME ~out'.starved
      PROVE  /\ out.buf \in Seq(Nat) /\ Len(out.buf) = 1 /\ out.buf[1] + 1 = pos
             /\ b \in Seq(Nat) /\ Len(b) = 2 /\ b[1] = out.buf[1] /\ b[2] = pos
             /\ SubSeq(b, 1, 1) = out.buf /\ SubSeq(b, 1, 2) = b
  <2>1. PICK p : p = pos - 1 /\ out.buf = <<p>>
    BY <1>1, <1>3, <1>4 DEF CutInv
  <2>2. out.buf \in Seq(Nat)
    BY <1>1 DEF Output
  <2>3. PICK s \in Seq(Nat) : s = out.buf
    BY <2>2
  <2>4. Len(s) = 1 /\ s[1] = p
    BY <2>1, <2>3
  <2>5. s[1] + 1 = pos
    BY <1>1, <2>1, <2>4
  <2>6. /\ Append(s, pos) \in Seq(Nat) /\ Len(Append(s, pos)) = Len(s) + 1
        /\ \A i \in 1..Len(s) : Append(s, pos)[i] = s[i]
        /\ Append(s, pos)[Len(s) + 1] = pos
    BY <1>1
  <2>7. \A t \in Seq(Nat) : Len(t) = 2 => SubSeq(t, 1, 2) = t
    OBVIOUS
  <2>8. PICK a : a = Append(s, pos)
    OBVIOUS
  <2>9. SubSeq(Append(s, pos), 1, 1) = s
    <3>1. a \in Seq(Nat) /\ Len(a) = 2 /\ a[1] = s[1]
      BY <2>4, <2>6, <2>8
    <3>2. PICK c : c = SubSeq(a, 1, 1)
      OBVIOUS
    <3>3. c \in Seq(Nat) /\ Len(c) = 1 /\ c[1] = a[1]
      BY <3>1, <3>2
    <3>4. c = s
      BY <2>4, <3>1, <3>3
    <3> QED  BY <2>8, <3>2, <3>4
  <2>10. a \in Seq(Nat) /\ Len(a) = 2 /\ a[1] = s[1] /\ a[2] = pos /\ SubSeq(a, 1, 2) = a
    BY <2>4, <2>6, <2>7, <2>8
  <2> QED  BY <2>3, <2>4, <2>5, <2>9, <2>8, <2>10
<1> HIDE DEF b
<1>5. CASE two
  <2>1. Take("normal") /\ out' \in Listed(Emptied(out), SubSeq(b, 1, 2), "operator")
    BY <1>5 DEF Operator, b
  <2>2. ASSUME ~out'.starved PROVE Cut(out') /\ \A q : Gap(out', Front(out', q))
    <3>1. Whole([type |-> "operator", at |-> b])
      BY <1>4, <2>2 DEF Whole
    <3> QED  BY <1>2, <1>4, <2>1, <2>2, <3>1
  <2> QED  BY <1>1, <2>1, <2>2, TakeCut
<1>6. CASE ~two
  <2>1. Again("normal") /\ out' \in Listed(Emptied(out), SubSeq(b, 1, 1), "operator")
    BY <1>6 DEF Operator, b
  <2>2. ASSUME ~out'.starved PROVE Cut(out') /\ \A q : Gap(out', Front(out', q))
    <3>1. <<text[out.buf[1]], text[pos]>> \notin TwoByteOperators
      <4>1. DOMAIN b = 1..2
        BY <1>4, <2>2
      <4>2. Texts(b) = <<text[b[1]], text[b[2]]>>
        BY <4>1 DEF Texts
      <4> QED  BY <1>4, <1>6, <2>2, <4>2
    <3>2. Whole([type |-> "operator", at |-> out.buf])
      BY <1>4, <2>2, <3>1 DEF Whole
    <3> QED  BY <1>2, <1>4, <2>1, <2>2, <3>2
  <2> QED  BY <1>1, <2>1, <2>2, AgainCut
<1> QED  BY <1>5, <1>6

(* A dot is an operator that the table does not lengthen, or a part of the *)
(* word that starts with it or goes on.                                    *)
LEMMA DotCut ==
  ASSUME LexerInv, KeptInv, CutInv, Dot
  PROVE  CutInv'
<1>1. /\ In("dot") /\ pos \in Nat /\ pos - 1 \in Nat /\ Sound(out, pos - 1) /\ out \in Output
      /\ Again("normal") /\ stage = "lex" /\ mode = "dot"
  BY DEF LexerInv, TypeOK, Unused, Dot, In, Sound
<1>2. PICK p \in Nat : p = pos - 1 /\ p + 1 = pos
  BY <1>1
<1>3. ~out.starved => Cut(out) /\ Gap(out, Front(out, p))
  BY <1>1, <1>2 DEF CutInv, Unused
<1>4. CASE out' = Push(out, p)
  <2>1. out'.starved = out.starved
    BY <1>1, <1>4, PushHolds
  <2>2. ~out'.starved => Cut(out') /\ Gap(out', Front(out', pos))
    BY <1>1, <1>3, <1>4, <2>1, PushCut
  <2> QED  BY <1>1, <2>2, AgainCut
<1>5. CASE Byte \in Letters
  <2>1. PICK o \in FlushWord(out) : out' \in Flush(Push(o, p), "operator")
    BY <1>2, <1>5 DEF Dot
  <2>2. PICK w, type : w = Push(o, p) /\ type = "operator"
    OBVIOUS
  <2>3. /\ type \in Types \ WordTypes /\ o \in Output /\ Sound(o, p)
        /\ w \in Output /\ w.starved = o.starved /\ w.buf = Append(o.buf, p) /\ Sound(w, p + 1)
    <3>1. Sound(o, p)
      BY <1>1, <1>2, <2>1, FlushWordSound
    <3>2. o \in Output
      BY <3>1 DEF Sound
    <3>3. w \in Output /\ w.starved = o.starved /\ w.buf = Append(o.buf, p)
      BY <2>2, <3>2, PushHolds
    <3>4. Sound(w, p + 1)
      BY <2>2, <3>1, PushSound
    <3> QED  BY <2>2, <3>1, <3>2, <3>3, <3>4 DEF Types, WordTypes
  <2>4. ASSUME ~out'.starved PROVE Cut(out') /\ \A q : Gap(out', q)
    <3>1. ~w.starved
      BY <2>1, <2>2, <2>3, <2>4, FlushHolds
    <3>2. ~o.starved /\ ~out.starved
      BY <1>1, <2>1, <2>3, <3>1, FlushWordHolds
    <3>3. Cut(o) /\ o.buf = <<>>
      BY <1>1, <1>2, <1>3, <2>1, <3>2, FlushWordCut
    <3>4. Cut(w) /\ w.buf = <<p>>
      <4>1. Append(o.buf, p) = <<p>>
        BY <3>3
      <4> QED  BY <2>2, <2>3, <3>3, <4>1, PushCut
    <3>5. Whole([type |-> type, at |-> w.buf]) /\ w.buf # <<>>
      <4>1. text[p] = "."
        BY <1>1, <1>2, <3>2 DEF KeptInv, Kept
      <4>2. \A c : <<".", c>> \notin TwoByteOperators
        BY DEF TwoByteOperators
      <4> QED  BY <3>4, <4>1, <4>2 DEF Whole
    <3>6. PICK c : c = out'
      OBVIOUS
    <3>7. c \in Output
      <4>1. \A d \in Flush(w, type) : Sound(d, p + 1)
        BY <2>3, FlushSound
      <4> QED  BY <2>1, <2>2, <3>6, <4>1 DEF Sound
    <3>8. Cut(c) /\ \A q : Gap(c, q)
      BY <2>1, <2>2, <2>3, <2>4, <3>4, <3>5, <3>6, <3>7, FlushCut
    <3> QED  BY <3>6, <3>8
  <2> QED  BY <1>1, <2>4, AgainCut
<1> QED  BY <1>2, <1>4, <1>5 DEF Dot

(* A string is not a word; the bytes of strings and comments that are left *)
(* out only widen the gap.                                                 *)
LEMMA StringCut ==
  ASSUME LexerInv, CutInv, String \/ Escape \/ GoOnAfterString \/ EndString \/ Comment
  PROVE  CutInv'
<1>1. PICK n \in {"string", "escape", "after"} \cup CommentModes : In(n)
  BY DEF String, Escape, GoOnAfterString, EndString, Comment, CommentModes
<1>2. pos \in Nat /\ out \in Output /\ stage = "lex" /\ mode = n /\ Unused = pos /\ n # "operator"
  BY <1>1 DEF LexerInv, TypeOK, Unused, In, Sound, CommentModes
<1>3. ~out.starved => Cut(out) /\ Gap(out, Front(out, pos))
  BY <1>2 DEF CutInv
<1>4. CASE EndString
  <2>1. out' \in Closed(out, "str") /\ Again("normal")
    BY <1>4 DEF EndString
  <2>2. PICK type \in Types : type = "str"
    BY DEF Types
  <2>3. ASSUME ~out'.starved PROVE Cut(out') /\ \A q : Gap(out', q)
    <3>1. PICK c, t : c = out' /\ t = [type |-> type, at |-> out.buf]
      OBVIOUS
    <3>2. ~out.starved /\ c.toks = Append(out.toks, t)
      <4>1. c \in Closed(out, type) /\ ~c.starved
        BY <2>1, <2>2, <2>3, <3>1
      <4>2. /\ ~out.starved /\ c.buf = <<>>
            /\ c.toks = Append(out.toks, [type |-> type, at |-> out.buf])
            /\ \A q : Holds(c, q) <=> Holds(out, q)
        BY <1>2, <4>1, ClosedHolds
      <4> QED  BY <3>1, <4>2
    <3>3. t \in Token /\ Whole(t) /\ t.type \notin WordTypes
      BY <1>2, <2>2, <3>1 DEF Token, Output, Whole, WordTypes
    <3>4. c \in Output
      BY <1>4, <3>1, StringKeeps DEF LexerInv, TypeOK, Output
    <3>5. Cut(c) /\ \A q : Gap(c, q)
      BY <1>2, <1>3, <3>2, <3>3, <3>4, CutLonger
    <3> QED  BY <3>1, <3>5
  <2> QED  BY <1>1, <2>1, <2>3, AgainCut
<1>5. CASE String \/ Escape \/ GoOnAfterString \/ Comment
  <2>1. PICK m : m \notin {"dot", "operator"} /\ Take(m)
    <3>1. CASE String \/ Escape \/ GoOnAfterString
      BY <3>1 DEF String, Escape, GoOnAfterString
    <3>2. CASE Comment
      <4>1. PICK c \in CommentModes : Take(NextInComment(c, Byte))
        BY <3>2 DEF Comment, CommentModes
      <4>2. NextInComment(c, Byte) \notin {"dot", "operator"}
        BY DEF NextInComment, CommentModes
      <4> QED  BY <4>1, <4>2
    <3> QED  BY <1>5, <3>1, <3>2
  <2>2. out' = out \/ out' = Push(out, pos)
    BY <1>5 DEF String, Escape, GoOnAfterString, Comment
  <2>3. out'.starved = out.starved
    BY <1>2, <2>2, PushHolds
  <2>4. ~out'.starved => Cut(out') /\ Gap(out', Front(out', pos + 1))
    <3>1. CASE out' = out
      BY <1>2, <1>3, <3>1, GapWider DEF Front
    <3>2. CASE out' = Push(out, pos)
      BY <1>2, <1>3, <2>3, <3>2, PushCut
    <3> QED  BY <2>2, <3>1, <3>2
  <2> QED  BY <1>1, <2>1, <2>4, TakeCut
<1> QED  BY <1>4, <1>5

(* The driver starts the loop with an empty list, and what the loop leaves *)
(* in the stack buffer is cut off as any other word.                       *)
LEMMA EndsCut ==
  ASSUME LexerInv, CutInv, Load \/ InsertStd \/ Abort \/ Finish
  PROVE  CutInv'
<1>1. CASE Load \/ Abort
  BY <1>1 DEF Load, Abort, CutInv
<1>2. CASE InsertStd
  <2>1. out' = out /\ out.toks = <<>> /\ mode' = "normal" /\ stage' \in {"lex", "crashed"}
    BY <1>2 DEF InsertStd, CutInv, LexerInv
  <2>2. \A k \in DOMAIN out'.toks : FALSE
    BY <2>1
  <2>3. \A k \in 2..Len(out'.toks) : FALSE
    BY <2>1
  <2>4. Cut(out)'
    BY <2>2, <2>3 DEF Cut
  <2>5. Gap(out, Front(out, Unused))'
    BY <2>1 DEF Gap
  <2> QED  BY <2>1, <2>4, <2>5 DEF CutInv
<1>3. CASE Finish
  <2>1. /\ stage = "lex" /\ stage' = "done" /\ out' \in FlushWord(out)
        /\ UNCHANGED <<text, pos, mode>> /\ Sound(out, Unused) /\ Unused \in Nat
    BY <1>3 DEF Finish, LexerInv
  <2>2. ASSUME mode = "normal", ~out'.starved PROVE Cut(out')
    <3>1. ~out.starved
      BY <2>1, <2>2, FlushWordHolds DEF Sound
    <3>2. Cut(out) /\ Gap(out, Front(out, Unused))
      BY <2>1, <2>2, <3>1 DEF CutInv
    <3> QED  BY <2>1, <2>2, <3>2, FlushWordCut
  <2>3. PICK o : o = out'
    OBVIOUS
  <2>4. Cut(o)' <=> Cut(o)
    BY <2>1 DEF Cut, Whole, WordsApart, Adjoin
  <2>5. mode' = "normal" /\ ~out'.starved => Cut(o)'
    BY <2>1, <2>2, <2>3, <2>4
  <2> QED  BY <2>1, <2>3, <2>5 DEF CutInv, Cut
<1> QED  BY <1>1, <1>2, <1>3

LEMMA StepCut == LexerInv /\ KeptInv /\ CutInv /\ [Next]_vars => CutInv'
<1> SUFFICES ASSUME LexerInv, KeptInv, CutInv, [Next]_vars PROVE CutInv'
  OBVIOUS
<1>1. CASE UNCHANGED vars
  BY <1>1 DEF vars, CutInv, Cut, Whole, WordsApart, Adjoin, Gap, Front, Unused
<1>2. CASE Punct \/ StartOperator \/ SingleOperator \/ Quote \/ DotOrAt \/ Blank \/ WordByte
  BY <1>2, NormalCut
<1>3. CASE Operator
  BY <1>3, OperatorCut
<1>4. CASE Dot
  BY <1>4, DotCut
<1>5. CASE String \/ Escape \/ GoOnAfterString \/ EndString \/ Comment
  BY <1>5, StringCut
<1>6. CASE Load \/ InsertStd \/ Abort \/ Finish
  BY <1>6, EndsCut
<1> QED  BY <1>1, <1>2, <1>3, <1>4, <1>5, <1>6 DEF Next, Lex

LEMMA CutSuffices == LexerInv /\ CutInv => LongestMatch
<1> SUFFICES ASSUME LexerInv, CutInv, stage = "done", mode = "normal", ~out.starved,
                    NEW k \in 2..Len(out.toks),
                    NEW t, NEW u, t = out.toks[k - 1], u = out.toks[k], Adjoin(t, u)
             PROVE  /\ ~(t.type \in WordTypes /\ u.type \in WordTypes)
                    /\ t.type = "operator" /\ u.type = "operator" /\ Len(t.at) = 1 =>
                         \/ <<text[t.at[1]], text[u.at[1]]>> \notin TwoByteOperators
                         \/ text[t.at[1]] \in SingleOperators
  BY DEF LongestMatch
<1>1. out.toks \in Seq(Token)
  BY DEF LexerInv, TypeOK
<1>2. k - 1 \in DOMAIN out.toks
  BY <1>1
<1>3. Whole(t) /\ WordsApart(t, u)
  BY <1>2 DEF CutInv, Cut
<1> QED  BY <1>3 DEF Whole, WordsApart, Adjoin

(* Words are not cut in two, and an operator is as long as the table of    *)
(* operators allows, for every source, alphabet and initial room, unless   *)
(* the token list failed to grow.                                          *)
THEOREM WordsAndOperatorsWhole == Spec => []LongestMatch
<1>1. Init => KeptInv /\ CutInv
  BY DEF Init, KeptInv, CutInv
<1> QED  BY <1>1, InitInv, StepInv, StepKept, StepCut, CutSuffices, PTL DEF Spec

-----------------------------------------------------------------------------
(* The declarations behind the source.                                     *)

Count == Len(StdTokens)
Bytes(a, b) == [i \in 1..(b + 1 - a) |-> a + i - 1]

(* The last m tokens of the list are the first m of the declarations.      *)
Read(o, d, m) ==
  /\ d \in Nat /\ m \in 0..Count /\ Len(o.toks) = d + m
  /\ \A k \in 1..m :
       o.toks[d + k] = [type |-> StdTokens[k][1], at |-> Bytes(user + First[k], user + Last[k])]

(* Byte p of the declarations comes next, between two tokens, in a word,   *)
(* or behind an operator.                                                  *)
AtGap(o, p, d, m) == Read(o, d, m) /\ o.buf = <<>> /\ Last[m] < p /\ p <= First[m + 1]
InWord(o, p, d, m) ==
  /\ Read(o, d, m) /\ m < Count /\ First[m + 1] < p /\ p <= Last[m + 1] + 1
  /\ o.buf = Bytes(user + First[m + 1], user + p - 1)
  /\ WordFrom(First[m + 1], Last[m + 1])
  /\ StdTokens[m + 1][1] = WordType(SubSeq(Std, First[m + 1], Last[m + 1]))
InOperator(o, p, d, m) ==
  /\ Read(o, d, m) /\ m < Count /\ p = First[m + 1] + 1
  /\ o.buf = <<user + p - 1>> /\ Std[First[m + 1]] \in OperatorBytes
Follows(o, m, p) ==
  \E d, k : \/ m = "normal" /\ (AtGap(o, p, d, k) \/ InWord(o, p, d, k))
            \/ m = "operator" /\ InOperator(o, p, d, k)

(* What the driver puts behind the source.                                 *)
TextInv ==
  /\ stage = "insert" => Len(text) = user
  /\ stage \notin {"load", "insert"} =>
       \/ Len(text) = user
       \/ Len(text) = user + Len(Std) /\ \A p \in 1..Len(Std) : text[user + p] = Std[p]

FollowInv ==
  /\ stage \notin {"load", "insert"}
  /\ stage = "lex" /\ Len(text) > user /\ ~out.starved =>
       \E p \in Nat : pos = user + p /\ Follows(out, mode, p)
  /\ stage = "done" /\ Len(text) > user /\ ~out.starved => StdIsThere

LEMMA TextInvStep == TypeOK /\ TextInv /\ [Next]_vars => TextInv'
<1> SUFFICES ASSUME TypeOK, TextInv, [Next]_vars PROVE TextInv'
  OBVIOUS
<1>1. CASE Load
  BY <1>1 DEF Load, TextInv
<1>2. CASE InsertStd
  <2>1. /\ text \in Seq(STRING) /\ Std \in Seq(STRING) /\ Len(text) = user /\ user' = user
        /\ text' = text \/ text' = text \o Std
    BY <1>2, BytesAssumption DEF InsertStd, TypeOK, TextInv
  <2>2. /\ Len(text \o Std) = Len(text) + Len(Std)
        /\ \A p \in 1..Len(Std) : (text \o Std)[Len(text) + p] = Std[p]
    BY <2>1
  <2>3. stage' \notin {"load", "insert"}
    BY <1>2 DEF InsertStd
  <2> QED  BY <2>1, <2>2, <2>3 DEF TextInv
<1>3. CASE Lex
  <2>1. UNCHANGED <<text, user>> /\ stage = "lex" /\ stage' \in {"lex", "done", "aborted"}
    BY <1>3 DEF Lex, Punct, StartOperator, SingleOperator, Quote, DotOrAt, Blank, WordByte,
                Operator, Dot, String, Escape, GoOnAfterString, EndString, Comment, Abort, Finish,
                Take, Again, In
  <2> QED  BY <2>1 DEF TextInv
<1>4. CASE UNCHANGED vars
  BY <1>4 DEF TextInv, vars
<1> QED  BY <1>1, <1>2, <1>3, <1>4 DEF Next

LEMMA BytesRise ==
  ASSUME NEW a \in Nat, NEW b \in Nat, a <= b + 1
  PROVE  /\ Bytes(a, b) \in Seq(Nat) /\ Len(Bytes(a, b)) = b + 1 - a
         /\ Append(Bytes(a, b), b + 1) = Bytes(a, b + 1)
         /\ Bytes(a, a) = <<a>>
<1>1. b + 1 - a \in Nat /\ \A i \in 1..(b + 1 - a) : a + i - 1 \in Nat
  OBVIOUS
<1>2. Bytes(a, b) \in Seq(Nat) /\ Len(Bytes(a, b)) = b + 1 - a
  BY <1>1 DEF Bytes
<1>3. PICK s \in Seq(Nat) : s = Bytes(a, b)
  BY <1>2
<1>4. Append(s, b + 1) = Bytes(a, b + 1)
  <2>1. PICK c : c = Append(s, b + 1)
    OBVIOUS
  <2>2. /\ c \in Seq(Nat) /\ Len(c) = Len(s) + 1
        /\ \A i \in 1..Len(s) : c[i] = s[i]
        /\ c[Len(s) + 1] = b + 1
    BY <2>1
  <2>3. \A i \in 1..(b + 1 - a) : s[i] = a + i - 1
    BY <1>3 DEF Bytes
  <2>4. Len(c) = b + 2 - a
    BY <1>2, <1>3, <2>2
  <2>5. ASSUME NEW i \in 1..(b + 2 - a) PROVE c[i] = a + i - 1
    <3>1. CASE i = b + 2 - a
      BY <1>2, <1>3, <2>2, <3>1
    <3>2. CASE i # b + 2 - a
      <4>1. i \in 1..(b + 1 - a)
        BY <3>2
      <4> QED  BY <1>2, <1>3, <2>2, <2>3, <4>1
    <3> QED  BY <3>1, <3>2
  <2>6. c = [i \in 1..(b + 2 - a) |-> a + i - 1]
    BY <2>2, <2>4, <2>5
  <2>7. (b + 1) + 1 - a = b + 2 - a
    OBVIOUS
  <2> QED  BY <2>1, <2>6, <2>7 DEF Bytes
<1>5. Bytes(a, a) = <<a>>
  <2>1. PICK c : c = Bytes(a, a)
    OBVIOUS
  <2>2. c = [i \in 1..1 |-> a + i - 1]
    BY <2>1 DEF Bytes
  <2>3. c \in Seq(Nat) /\ Len(c) = 1 /\ c[1] = a
    BY <2>2
  <2> QED  BY <2>1, <2>3
<1> QED  BY <1>2, <1>3, <1>4, <1>5

LEMMA CutFacts ==
  ASSUME StdCut(First, Last)
  PROVE  /\ Count \in Nat /\ Len(Std) \in Nat /\ Std \in Seq(STRING)
         /\ \A k \in 0..Count :
              /\ First[k + 1] \in 1..(Len(Std) + 1) /\ Last[k] \in 0..Len(Std)
              /\ Last[k] < First[k + 1]
              /\ \A p \in (Last[k] + 1)..(First[k + 1] - 1) : Std[p] \in Blanks
         /\ First[Count + 1] = Len(Std) + 1 /\ Last[0] = 0
         /\ \A p \in 1..Len(Std) : Std[p] \notin {"\"", "'", ".", "@"}
         /\ \A k \in 1..Count :
              /\ First[k] <= Last[k] /\ ReadsAs(StdTokens[k][1], First[k], Last[k])
              /\ StdTokens[k] = <<StdTokens[k][1], SubSeq(Std, First[k], Last[k])>>
              /\ StdTokens[k][1] \in Types
<1>1. StdTokens \in Seq(Types \X Seq(STRING))
  BY Zenon DEF StdCut
<1>2. Count \in Nat /\ \A k \in 1..Count : StdTokens[k] \in Types \X Seq(STRING)
  BY <1>1 DEF Count
<1>3. /\ First \in [1..(Count + 1) -> 1..(Len(Std) + 1)] /\ First[Count + 1] = Len(Std) + 1
      /\ Last \in [0..Count -> 0..Len(Std)] /\ Last[0] = 0
      /\ \A p \in 1..Len(Std) : Std[p] \notin {"\"", "'", ".", "@"}
      /\ \A k \in 0..Count :
           /\ Last[k] < First[k + 1]
           /\ \A p \in (Last[k] + 1)..(First[k + 1] - 1) : Std[p] \in Blanks
      /\ \A k \in 1..Count :
           /\ First[k] <= Last[k] /\ ReadsAs(StdTokens[k][1], First[k], Last[k])
           /\ StdTokens[k] = <<StdTokens[k][1], SubSeq(Std, First[k], Last[k])>>
  BY Zenon DEF StdCut, Count
<1>4. \A k \in 0..Count : First[k + 1] \in 1..(Len(Std) + 1) /\ Last[k] \in 0..Len(Std)
  <2>1. First \in [1..(Count + 1) -> 1..(Len(Std) + 1)] /\ Last \in [0..Count -> 0..Len(Std)]
    BY <1>3
  <2>2. Count \in Nat
    BY <1>2
  <2> QED  BY <2>1, <2>2
<1>5. \A k \in 1..Count : StdTokens[k][1] \in Types
  BY <1>2
<1>6. Count \in Nat /\ Len(Std) \in Nat /\ Std \in Seq(STRING)
  BY <1>2, BytesAssumption
<1> QED  BY <1>3, <1>4, <1>5, <1>6, Zenon

(* The numbers among them.                                                 *)
LEMMA CutNumbers ==
  ASSUME StdCut(First, Last)
  PROVE  /\ Count \in Nat /\ Len(Std) \in Nat /\ First[Count + 1] = Len(Std) + 1 /\ Last[0] = 0
         /\ \A k \in 0..Count : /\ First[k + 1] \in 1..(Len(Std) + 1) /\ Last[k] \in 0..Len(Std)
                                /\ Last[k] < First[k + 1]
         /\ \A k \in 1..Count : First[k] <= Last[k]
BY CutFacts

(* What the byte at p can be, if no token of the declarations holds it     *)
(* yet.                                                                    *)
LEMMA NextInStd ==
  ASSUME StdCut(First, Last), NEW m \in 0..Count, NEW p \in 1..Len(Std),
         Last[m] < p, p <= First[m + 1]
  PROVE  /\ Std[p] \notin {"\"", "'", ".", "@"}
         /\ \/ p < First[m + 1] /\ Std[p] \in Blanks
            \/ /\ p = First[m + 1] /\ m < Count
               /\ ReadsAs(StdTokens[m + 1][1], p, Last[m + 1])
<1>1. Count \in Nat /\ Len(Std) \in Nat
  BY CutFacts
<1>2. /\ First[m + 1] \in 1..(Len(Std) + 1) /\ First[Count + 1] = Len(Std) + 1
      /\ Last[m] \in 0..Len(Std)
  BY CutFacts
<1>3. Std[p] \notin {"\"", "'", ".", "@"}
  BY CutFacts
<1>4. CASE p < First[m + 1]
  <2>1. p \in (Last[m] + 1)..(First[m + 1] - 1)
    BY <1>2, <1>4
  <2>2. Std[p] \in Blanks
    BY <2>1, CutFacts
  <2> QED  BY <1>4, <1>3, <2>2
<1>5. CASE p = First[m + 1]
  <2>1. m # Count
    <3>1. First[m + 1] # First[Count + 1]
      BY <1>1, <1>2, <1>5
    <3> QED  BY <3>1
  <2>2. m < Count /\ m + 1 \in 1..Count
    BY <1>1, <2>1
  <2>3. ReadsAs(StdTokens[m + 1][1], First[m + 1], Last[m + 1])
    BY <2>2, CutFacts
  <2> QED  BY <1>5, <1>3, <2>2, <2>3
<1>6. p < First[m + 1] \/ p = First[m + 1]
  BY <1>2
<1> QED  BY <1>4, <1>5, <1>6

(* A token that is listed is the next one of the declarations.             *)
LEMMA TokenRead ==
  ASSUME StdCut(First, Last), NEW o \in Output, user \in Nat,
         NEW d, NEW m, Read(o, d, m), m < Count,
         NEW a, a = Bytes(user + First[m + 1], user + Last[m + 1]),
         NEW c \in Listed(o, a, StdTokens[m + 1][1]), ~c.starved
  PROVE  Read(c, d, m + 1) /\ c.buf = o.buf /\ ~o.starved /\ m + 1 \in 0..Count
<1>1. m \in Nat /\ d \in Nat /\ Count \in Nat /\ m + 1 \in 1..Count /\ Len(o.toks) = d + m
  <2>1. Count \in Nat
    BY CutFacts
  <2>2. d \in Nat /\ m \in 0..Count /\ Len(o.toks) = d + m
    BY DEF Read
  <2> QED  BY <2>1, <2>2
<1>2. a \in Seq(Nat)
  <2>1. m \in 0..Count /\ m + 1 \in 0..Count
    BY <1>1
  <2>2. First[m + 1] \in 1..(Len(Std) + 1) /\ Last[m + 1] \in 0..Len(Std) /\ Len(Std) \in Nat
    BY <2>1, CutFacts
  <2>3. First[m + 1] <= Last[m + 1]
    BY <1>1, CutFacts
  <2>4. user + First[m + 1] \in Nat /\ user + Last[m + 1] \in Nat
        /\ user + First[m + 1] <= user + Last[m + 1] + 1
    BY <2>2, <2>3
  <2> QED  BY <2>4, BytesRise
<1>3. StdTokens[m + 1][1] \in Types
  BY <1>1, CutFacts
<1>4. PICK t : t = [type |-> StdTokens[m + 1][1], at |-> a]
  OBVIOUS
<1>5. ~o.starved /\ c.buf = o.buf /\ c.toks = Append(o.toks, t)
  BY <1>2, <1>3, <1>4, ListedHolds
<1>6. /\ o.toks \in Seq(Token) /\ t \in Token
  BY <1>2, <1>3, <1>4 DEF Token, Output
<1>7. /\ Len(c.toks) = d + m + 1 /\ c.toks[d + m + 1] = t
      /\ \A k \in 1..(d + m) : c.toks[k] = o.toks[k]
  BY <1>1, <1>5, <1>6
<1>8. ASSUME NEW k \in 1..(m + 1)
      PROVE  c.toks[d + k]
               = [type |-> StdTokens[k][1], at |-> Bytes(user + First[k], user + Last[k])]
  <2>1. CASE k = m + 1
    <3>1. d + k = d + m + 1
      BY <1>1, <2>1
    <3> QED  BY <1>4, <1>7, <2>1, <3>1
  <2>2. CASE k # m + 1
    <3>1. k \in 1..m /\ d + k \in 1..(d + m)
      BY <1>1, <2>2
    <3> QED  BY <1>7, <3>1 DEF Read
  <2> QED  BY <2>1, <2>2
<1>9. Len(c.toks) = d + (m + 1) /\ m + 1 \in 0..Count
  BY <1>1, <1>7
<1> QED  BY <1>1, <1>5, <1>8, <1>9 DEF Read

(* The bytes of a piece of the declarations.                               *)
LEMMA TextOfStd ==
  ASSUME NEW f \in Nat, NEW l \in Nat, 1 <= f, f <= l, l <= Len(Std), user \in Nat,
         \A p \in 1..Len(Std) : text[user + p] = Std[p]
  PROVE  Texts(Bytes(user + f, user + l)) = SubSeq(Std, f, l)
<1>1. Std \in Seq(STRING) /\ Len(Std) \in Nat
  BY BytesAssumption
<1>2. PICK n \in Nat : n = l + 1 - f
  OBVIOUS
<1>3. (user + l) + 1 - (user + f) = n
  BY <1>2
<1>4. Bytes(user + f, user + l) = [i \in 1..n |-> (user + f) + i - 1]
  BY <1>3 DEF Bytes
<1>5. Texts(Bytes(user + f, user + l)) = [i \in 1..n |-> text[(user + f) + i - 1]]
  BY <1>4 DEF Texts
<1>6. ASSUME NEW i \in 1..n PROVE text[(user + f) + i - 1] = Std[f + i - 1]
  <2>1. f + i - 1 \in 1..Len(Std)
    BY <1>1, <1>2
  <2>2. (user + f) + i - 1 = user + (f + i - 1)
    OBVIOUS
  <2> QED  BY <2>1, <2>2
<1>7. SubSeq(Std, f, l) = [i \in 1..n |-> Std[f + i - 1]]
  BY <1>1, <1>2
<1> QED  BY <1>5, <1>6, <1>7

(* The stack buffer holds the next token of the declarations.              *)
LEMMA ClosedRead ==
  ASSUME StdCut(First, Last), NEW o \in Output, user \in Nat,
         NEW d, NEW m, Read(o, d, m), m < Count,
         o.buf = Bytes(user + First[m + 1], user + Last[m + 1]),
         NEW c \in Closed(o, StdTokens[m + 1][1]), ~c.starved
  PROVE  c \in Output /\ ~o.starved /\ AtGap(c, Last[m + 1] + 1, d, m + 1)
<1>1. /\ m + 1 \in 1..Count /\ m + 1 \in 0..Count
      /\ StdTokens[m + 1][1] \in Types /\ o.buf \in Seq(Nat)
      /\ Last[m + 1] \in Nat /\ First[m + 1 + 1] \in Nat /\ Last[m + 1] < First[m + 1 + 1]
  <2>1. Count \in Nat /\ m \in 0..Count
    BY CutFacts DEF Read
  <2>2. m + 1 \in 1..Count /\ m + 1 \in 0..Count
    BY <2>1
  <2>3. /\ First[m + 1 + 1] \in 1..(Len(Std) + 1) /\ Last[m + 1] \in 0..Len(Std) /\ Len(Std) \in Nat
        /\ Last[m + 1] < First[m + 1 + 1] /\ StdTokens[m + 1][1] \in Types
    BY <2>2, CutFacts
  <2> QED  BY <2>2, <2>3 DEF Output
<1>2. PICK g \in Listed(o, o.buf, StdTokens[m + 1][1]) :
        c = IF g.toks = o.toks THEN g ELSE Emptied(g)
  BY DEF Closed
<1>3. ~g.starved
  <2>1. g.starved = c.starved
    BY <1>2 DEF Listed, Added, Emptied, Output
  <2> QED  BY <2>1
<1>4. Read(g, d, m + 1) /\ ~o.starved
  BY <1>3, TokenRead
<1>5. g.toks # o.toks /\ g \in Output
  <2>1. g = Added(o, o.buf, StdTokens[m + 1][1])
    BY <1>3 DEF Listed, Output
  <2>2. /\ g = [o EXCEPT !.toks = g.toks, !.room = g.room] /\ g.room \in Nat
        /\ g.toks = Append(o.toks, [type |-> StdTokens[m + 1][1], at |-> o.buf])
    BY <2>1 DEF Added, Output
  <2>3. [type |-> StdTokens[m + 1][1], at |-> o.buf] \in Token
    BY <1>1 DEF Token
  <2>4. g.toks \in Seq(Token)
    BY <2>2, <2>3 DEF Output
  <2>5. Len(g.toks) = Len(o.toks) + 1 /\ Len(o.toks) \in Nat
    BY <2>2, <2>3 DEF Output
  <2>6. g.toks # o.toks
    BY <2>5
  <2> QED  BY <2>2, <2>4, <2>6 DEF Output
<1>6. c = Emptied(g)
  BY <1>2, <1>5
<1>7. c \in Output /\ c.toks = g.toks /\ c.buf = <<>>
  <2>1. <<>> \in Seq(Nat)
    OBVIOUS
  <2> QED  BY <1>5, <1>6, <2>1 DEF Emptied, Output
<1>8. Read(c, d, m + 1)
  BY <1>4, <1>7 DEF Read
<1>9. Last[m + 1] < Last[m + 1] + 1 /\ Last[m + 1] + 1 <= First[m + 1 + 1]
  BY <1>1
<1> QED  BY <1>4, <1>7, <1>8, <1>9 DEF AtGap

(* What ends a word leaves the machine between two tokens.                 *)
LEMMA FlushAtGap ==
  ASSUME StdCut(First, Last), NEW o \in Output, user \in Nat,
         \A q \in 1..Len(Std) : text[user + q] = Std[q],
         NEW p \in 1..(Len(Std) + 1), p <= Len(Std) => Std[p] \in Special,
         NEW d, NEW m, AtGap(o, p, d, m) \/ InWord(o, p, d, m),
         NEW c \in FlushWord(o), ~c.starved
  PROVE  c \in Output /\ ~o.starved /\ \E k \in 0..Count : AtGap(c, p, d, k)
<1>1. CASE AtGap(o, p, d, m)
  <2>1. c = o /\ m \in 0..Count
    BY <1>1 DEF AtGap, FlushWord, Read
  <2> QED  BY <1>1, <2>1
<1>2. CASE InWord(o, p, d, m)
  <2> DEFINE f == First[m + 1]
             l == Last[m + 1]
  <2>1. /\ m \in 0..Count /\ m + 1 \in 1..Count /\ m + 1 \in 0..Count /\ Count \in Nat
        /\ f < p /\ p <= l + 1 /\ o.buf = Bytes(user + f, user + p - 1)
        /\ WordFrom(f, l) /\ StdTokens[m + 1][1] = WordType(SubSeq(Std, f, l))
    <3>1. Count \in Nat /\ m \in 0..Count /\ m < Count
      BY <1>2, CutFacts DEF InWord, Read
    <3>2. m + 1 \in 1..Count /\ m + 1 \in 0..Count
      BY <3>1
    <3> QED  BY <1>2, <3>1, <3>2 DEF InWord
  <2>2. f \in 1..(Len(Std) + 1) /\ l \in 0..Len(Std) /\ Len(Std) \in Nat /\ f <= l
    <3>1. \A k \in 0..Count : First[k + 1] \in 1..(Len(Std) + 1) /\ Last[k] \in 0..Len(Std)
      BY CutFacts
    <3>2. Len(Std) \in Nat /\ f <= l
      BY <2>1, CutFacts
    <3> QED  BY <2>1, <3>1, <3>2
  <2> HIDE DEF f, l
  <2>3. p = l + 1
    <3>1. f < p /\ p <= l + 1 /\ p \in 1..(Len(Std) + 1)
      BY <2>1
    <3>2. p <= l => p \in f..l /\ p <= Len(Std)
      BY <2>2, <3>1
    <3>3. ~(p <= l)
      BY <2>1, <3>2 DEF WordFrom
    <3> QED  BY <2>2, <3>1, <3>3
  <2>4. user + p - 1 = user + l
    BY <2>2, <2>3
  <2>5. o.buf = Bytes(user + f, user + l) /\ Texts(o.buf) = SubSeq(Std, f, l)
    <3>1. o.buf = Bytes(user + f, user + l)
      BY <2>1, <2>4
    <3>2. f \in Nat /\ l \in Nat /\ 1 <= f /\ f <= l /\ l <= Len(Std)
      BY <2>2
    <3>3. Texts(Bytes(user + f, user + l)) = SubSeq(Std, f, l)
      BY <3>2, TextOfStd
    <3> QED  BY <3>1, <3>3
  <2>6. o.buf # <<>>
    <3>1. user + f \in Nat /\ user + l \in Nat /\ user + f <= (user + l) + 1
          /\ (user + l) + 1 - (user + f) > 0
      BY <2>2
    <3>2. Len(o.buf) > 0
      BY <2>5, <3>1, BytesRise
    <3> QED  BY <3>2
  <2>7. c \in Closed(o, StdTokens[m + 1][1])
    BY <2>1, <2>5, <2>6 DEF FlushWord
  <2>8. c \in Output /\ ~o.starved /\ AtGap(c, l + 1, d, m + 1)
    BY <1>2, <2>5, <2>7, ClosedRead DEF InWord, f, l
  <2> QED  BY <2>1, <2>3, <2>8
<1> QED  BY <1>1, <1>2

(* The first byte of a token tells what the token is.                      *)
LEMMA TokenAt ==
  ASSUME StdCut(First, Last), NEW m \in 0..Count, NEW p \in 1..Len(Std),
         Last[m] < p, p <= First[m + 1]
  PROVE  /\ Std[p] \notin {"\"", "'", ".", "@"}
         /\ Std[p] \in Blanks => p < First[m + 1]
         /\ Std[p] \notin Blanks => p = First[m + 1] /\ m < Count
         /\ Std[p] \in Punctuation => Last[m + 1] = p /\ StdTokens[m + 1][1] = "punct"
         /\ Std[p] \in SingleOperators => Last[m + 1] = p /\ StdTokens[m + 1][1] = "operator"
         /\ Std[p] \in OperatorBytes =>
              /\ StdTokens[m + 1][1] = "operator"
              /\ \/ /\ Last[m + 1] = p /\ p < Len(Std)
                    /\ <<Std[p], Std[p + 1]>> \notin TwoByteOperators
                 \/ /\ Last[m + 1] = p + 1
                    /\ <<Std[p], Std[p + 1]>> \in TwoByteOperators
         /\ Std[p] \notin Special =>
              /\ WordFrom(p, Last[m + 1]) /\ p <= Last[m + 1]
              /\ StdTokens[m + 1][1] = WordType(SubSeq(Std, p, Last[m + 1]))
<1> DEFINE b    == Std[p]
           l    == Last[m + 1]
           type == StdTokens[m + 1][1]
<1>1. /\ b \notin {"\"", "'", ".", "@"}
      /\ \/ p < First[m + 1] /\ b \in Blanks
         \/ p = First[m + 1] /\ m < Count /\ ReadsAs(type, p, l)
  BY NextInStd
<1>2. p = First[m + 1] /\ m < Count => p <= l /\ l \in Nat
  <2> SUFFICES ASSUME p = First[m + 1], m < Count PROVE p <= l /\ l \in Nat
    OBVIOUS
  <2>1. m + 1 \in 1..Count /\ m + 1 \in 0..Count
    BY CutNumbers
  <2> QED  BY <2>1, CutNumbers
<1>3. ASSUME p = First[m + 1], m < Count, WordFrom(p, l) PROVE b \notin Special
  <2>1. p \in p..l
    BY <1>2, <1>3
  <2> QED  BY <1>3, <2>1 DEF WordFrom
<1>4. /\ b \in Special <=> b \in Punctuation \/ b \in OperatorBytes \/ b \in SingleOperators
                           \/ b \in Blanks \/ b \in {"\"", "'", ".", "@"}
      /\ b \in Punctuation => b \notin OperatorBytes /\ b \notin SingleOperators /\ b \notin Blanks
      /\ b \in OperatorBytes => b \notin SingleOperators /\ b \notin Blanks
      /\ b \in SingleOperators => b \notin Blanks
  <2> HIDE DEF b
  <2> QED  BY DEF Special, Punctuation, OperatorBytes, SingleOperators, Blanks
<1>5. ReadsAs(type, p, l) =>
        \/ WordFrom(p, l) /\ type = WordType(SubSeq(Std, p, l))
        \/ p = l /\ b \in Punctuation /\ type = "punct"
        \/ p = l /\ b \in SingleOperators /\ type = "operator"
        \/ /\ p = l /\ p < Len(Std) /\ b \in OperatorBytes /\ type = "operator"
           /\ <<b, Std[p + 1]>> \notin TwoByteOperators
        \/ /\ l = p + 1 /\ b \in OperatorBytes /\ type = "operator"
           /\ <<b, Std[p + 1]>> \in TwoByteOperators
  BY Zenon DEF ReadsAs
<1> DEFINE word   == WordFrom(p, l)
           single == <<b, Std[p + 1]>> \notin TwoByteOperators
           asWord == type = WordType(SubSeq(Std, p, l))
           there  == p = First[m + 1]
           more   == m < Count
           blank  == b \in Blanks
           early  == p < First[m + 1]
<1>6. ~(early /\ there)
  <2>1. First[m + 1] \in Nat
    BY CutNumbers
  <2> QED  BY <2>1
<1>7. /\ blank => early
      /\ ~blank => there /\ more
      /\ b \in Punctuation => l = p /\ type = "punct"
      /\ b \in SingleOperators => l = p /\ type = "operator"
      /\ b \in OperatorBytes => /\ type = "operator"
                                /\ \/ l = p /\ p < Len(Std) /\ single
                                   \/ l = p + 1 /\ ~single
      /\ b \notin Special => word /\ asWord /\ p <= l
  BY <1>1, <1>2, <1>3, <1>4, <1>5, Zenon
<1> QED  BY <1>1, <1>7, Zenon

(* A list that failed to grow stays known.                                 *)
LEMMA StarvedStays == LexerInv /\ stage = "lex" /\ Lex /\ out.starved => out'.starved
<1> SUFFICES ASSUME LexerInv, stage = "lex", Lex, out.starved PROVE out'.starved
  OBVIOUS
<1>1. out \in Output
  BY DEF LexerInv, TypeOK, Output
<1>2. ASSUME NEW o, o.starved, NEW a, NEW type, NEW l \in Listed(o, a, type), o \in Output
      PROVE  l.starved /\ Emptied(l).starved
  BY <1>2 DEF Listed, Added, Emptied, Output
<1>3. ASSUME NEW o \in Output, o.starved, NEW type, NEW c \in Closed(o, type) PROVE c.starved
  <2>1. PICK l \in Listed(o, o.buf, type) : c = IF l.toks = o.toks THEN l ELSE Emptied(l)
    BY <1>3 DEF Closed
  <2> QED  BY <1>2, <1>3, <2>1
<1>4. ASSUME NEW c \in FlushWord(out)
      PROVE  c \in Output /\ c.starved
  <2>1. Sound(out, Unused) /\ Unused \in Nat
    BY DEF LexerInv
  <2>2. c \in Output
    BY <2>1, FlushWordSound DEF Sound
  <2>3. c.starved
    BY <1>1, <1>3 DEF FlushWord
  <2> QED  BY <2>2, <2>3
<1>5. ASSUME NEW o \in Output, o.starved, NEW p \in Nat
      PROVE  /\ Push(o, p).starved
             /\ \A type : \A c \in Flush(Push(o, p), type) : c.starved
  <2>1. Push(o, p) \in Output /\ Push(o, p).starved
    BY <1>5, PushHolds
  <2>2. \A type : \A c \in Flush(Push(o, p), type) : c.starved
    BY <1>3, <2>1 DEF Flush
  <2> QED  BY <2>1, <2>2
<1>6. CASE pos \in Nat /\ pos - 1 \in Nat
  <2>1. CASE Punct
    BY <1>4, <1>5, <1>6, <2>1 DEF Punct
  <2>2. CASE StartOperator
    BY <1>4, <1>5, <1>6, <2>2 DEF StartOperator
  <2>3. CASE SingleOperator
    BY <1>4, <1>5, <1>6, <2>3 DEF SingleOperator
  <2>4. CASE Quote \/ Blank \/ Finish
    BY <1>4, <2>4 DEF Quote, Blank, Finish
  <2>5. CASE DotOrAt \/ GoOnAfterString \/ Comment \/ Abort
    BY <2>5 DEF DotOrAt, GoOnAfterString, Comment, Abort
  <2>6. CASE WordByte \/ String \/ Escape
    BY <1>1, <1>5, <1>6, <2>6 DEF WordByte, String, Escape
  <2>7. CASE Operator
    <3>1. Emptied(out) \in Output /\ Emptied(out).starved
      <4>1. <<>> \in Seq(Nat)
        OBVIOUS
      <4> QED  BY <1>1, <4>1 DEF Emptied, Output
    <3>2. PICK a : out' \in Listed(Emptied(out), a, "operator")
      BY <2>7 DEF Operator
    <3> QED  BY <1>2, <3>1, <3>2
  <2>8. CASE Dot
    BY <1>1, <1>4, <1>5, <1>6, <2>8 DEF Dot
  <2>9. CASE EndString
    BY <1>1, <1>3, <2>9 DEF EndString
  <2> QED  BY <2>1, <2>2, <2>3, <2>4, <2>5, <2>6, <2>7, <2>8, <2>9 DEF Lex
<1>7. pos \in Nat /\ pos - 1 \in Nat
  BY DEF LexerInv, TypeOK
<1> QED  BY <1>6, <1>7

(* The steps of the loop over the declarations.  Byte p comes next.        *)
LEMMA NormalFollows ==
  ASSUME StdCut(First, Last), LexerInv, \A q \in 1..Len(Std) : text[user + q] = Std[q],
         NEW p \in 1..Len(Std), pos = user + p,
         NEW d, NEW m, AtGap(out, p, d, m) \/ InWord(out, p, d, m),
         Punct \/ StartOperator \/ SingleOperator \/ Quote \/ DotOrAt \/ Blank \/ WordByte,
         ~out'.starved
  PROVE  Follows(out', mode', p + 1) /\ pos' = user + (p + 1)
<1>1. /\ pos \in Nat /\ user \in Nat /\ out \in Output /\ Byte = Std[p] /\ pos' = pos + 1
      /\ Len(Std) \in Nat
  <2>1. pos \in Nat /\ user \in Nat /\ out \in Output
    BY DEF LexerInv, TypeOK, Output
  <2>2. Byte = Std[p]
    BY DEF Byte
  <2>3. pos' = pos + 1
    BY DEF Punct, StartOperator, SingleOperator, Quote, DotOrAt, Blank, WordByte, Take
  <2> QED  BY <2>1, <2>2, <2>3, CutNumbers
<1>2. pos' = user + (p + 1) /\ user + p \in Nat /\ (user + p) + 1 = user + (p + 1)
      /\ user + (p + 1) - 1 = user + p /\ p <= Len(Std) /\ p \in Nat /\ p \in 1..(Len(Std) + 1)
  BY <1>1
<1>3. ASSUME NEW c \in FlushWord(out), ~c.starved, Std[p] \in Special
      PROVE  c \in Output /\ \E k \in 0..Count : AtGap(c, p, d, k)
  BY <1>1, <1>2, <1>3, FlushAtGap
<1>4. ASSUME NEW c \in Output, NEW k \in 0..Count, AtGap(c, p, d, k)
      PROVE  /\ Push(c, pos) \in Output /\ Push(c, pos).starved = c.starved
             /\ Push(c, pos).buf = <<user + p>> /\ Push(c, pos).buf # <<>>
             /\ Push(c, pos).buf = Bytes(user + p, user + p)
             /\ Read(Push(c, pos), d, k)
             /\ Last[k] < p /\ p <= First[k + 1]
  <2>1. /\ Push(c, pos) \in Output /\ Push(c, pos).starved = c.starved
        /\ Push(c, pos).buf = Append(c.buf, pos) /\ Push(c, pos).toks = c.toks
    BY <1>1, PushHolds
  <2>2. c.buf = <<>> /\ Read(c, d, k) /\ Last[k] < p /\ p <= First[k + 1]
    BY <1>4 DEF AtGap
  <2>3. Append(c.buf, pos) = <<user + p>> /\ Append(c.buf, pos) # <<>>
    BY <2>2
  <2>4. Bytes(user + p, user + p) = <<user + p>>
    <3>1. PICK a \in Nat : a = user + p
      BY <1>2
    <3>2. a <= a + 1
      OBVIOUS
    <3>3. Bytes(a, a) = <<a>>
      BY <3>2, BytesRise
    <3> QED  BY <3>1, <3>3
  <2>5. Read(Push(c, pos), d, k)
    BY <2>1, <2>2 DEF Read
  <2> QED  BY <2>1, <2>2, <2>3, <2>4, <2>5
<1>5. ASSUME NEW c \in FlushWord(out), NEW type \in {"punct", "operator"},
             out' \in Flush(Push(c, pos), type), mode' = "normal",
             Std[p] \in IF type = "punct" THEN Punctuation ELSE SingleOperators
      PROVE  Follows(out', mode', p + 1)
  <2>1. Std[p] \in Special /\ Std[p] \notin Blanks
    BY <1>5 DEF Special, Punctuation, SingleOperators, Blanks
  <2>2. ~c.starved
    <3>1. c \in Output
      <4>1. Sound(out, Unused) /\ Unused \in Nat
        BY DEF LexerInv
      <4> QED  BY <4>1, FlushWordSound DEF Sound
    <3>2. Push(c, pos) \in Output /\ Push(c, pos).starved = c.starved
      BY <1>1, <3>1, PushHolds
    <3>3. type \in Types
      BY DEF Types
    <3> QED  BY <1>5, <3>2, <3>3, ClosedHolds DEF Flush
  <2>3. c \in Output
    BY <1>3, <2>1, <2>2
  <2>4. PICK k \in 0..Count : AtGap(c, p, d, k)
    BY <1>3, <2>1, <2>2
  <2>5. /\ Push(c, pos) \in Output /\ Push(c, pos).buf # <<>> /\ Read(Push(c, pos), d, k)
        /\ Push(c, pos).buf = Bytes(user + p, user + p) /\ Last[k] < p /\ p <= First[k + 1]
    BY <1>4, <2>3, <2>4
  <2>6. p = First[k + 1] /\ k < Count
    BY <2>1, <2>5, TokenAt
  <2>7. Last[k + 1] = p /\ StdTokens[k + 1][1] = type
    <3>1. CASE type = "punct"
      <4>1. Std[p] \in Punctuation
        BY <1>5, <3>1
      <4> QED  BY <2>5, <3>1, <4>1, TokenAt
    <3>2. CASE type = "operator"
      <4>1. Std[p] \in SingleOperators
        BY <1>5, <3>2
      <4> QED  BY <2>5, <3>2, <4>1, TokenAt
    <3> QED  BY <3>1, <3>2
  <2>8. out' \in Closed(Push(c, pos), StdTokens[k + 1][1])
    BY <1>5, <2>5, <2>7 DEF Flush
  <2>9. Push(c, pos).buf = Bytes(user + First[k + 1], user + Last[k + 1])
    BY <2>5, <2>6, <2>7
  <2>10. PICK o : o = Push(c, pos)
    OBVIOUS
  <2>11. /\ o \in Output /\ Read(o, d, k) /\ o.buf = Bytes(user + First[k + 1], user + Last[k + 1])
         /\ out' \in Closed(o, StdTokens[k + 1][1])
    BY <2>5, <2>8, <2>9, <2>10
  <2>12. PICK g : g = out'
    OBVIOUS
  <2>13. AtGap(g, Last[k + 1] + 1, d, k + 1)
    BY <1>1, <2>6, <2>11, <2>12, ClosedRead
  <2> QED  BY <1>5, <2>7, <2>12, <2>13 DEF Follows
<1>6. CASE Punct
  BY <1>1, <1>2, <1>5, <1>6 DEF Punct, Take
<1>7. CASE SingleOperator
  BY <1>1, <1>2, <1>5, <1>7 DEF SingleOperator, Take
<1>8. CASE StartOperator
  <2>1. PICK c \in FlushWord(out) : out' = Push(c, pos)
    BY <1>8 DEF StartOperator
  <2>2. Std[p] \in OperatorBytes /\ Std[p] \in Special /\ Std[p] \notin Blanks
    BY <1>1, <1>8 DEF StartOperator, Special, OperatorBytes, Blanks
  <2>3. ~c.starved
    <3>1. c \in Output
      <4>1. Sound(out, Unused) /\ Unused \in Nat
        BY DEF LexerInv
      <4> QED  BY <4>1, FlushWordSound DEF Sound
    <3> QED  BY <1>1, <2>1, <3>1, PushHolds
  <2>4. c \in Output
    BY <1>3, <2>2, <2>3
  <2>5. PICK k \in 0..Count : AtGap(c, p, d, k)
    BY <1>3, <2>2, <2>3
  <2>6. /\ out'.buf = <<user + p>> /\ Read(out', d, k) /\ Last[k] < p /\ p <= First[k + 1]
    BY <1>4, <2>1, <2>4, <2>5
  <2>7. p = First[k + 1] /\ k < Count
    BY <2>2, <2>6, TokenAt
  <2>8. InOperator(out', p + 1, d, k)
    BY <1>2, <2>2, <2>6, <2>7 DEF InOperator
  <2>9. mode' = "operator"
    BY <1>8 DEF StartOperator, Take
  <2> QED  BY <1>2, <2>8, <2>9 DEF Follows
<1>9. CASE Blank
  <2>1. out' \in FlushWord(out) /\ mode' = "normal" /\ Std[p] \in Blanks
    BY <1>1, <1>9 DEF Blank, Take
  <2>2. Std[p] \in Special
    BY <2>1 DEF Special
  <2>3. PICK k \in 0..Count : AtGap(out', p, d, k)
    BY <1>3, <2>1, <2>2
  <2>4. Last[k] < p /\ p <= First[k + 1]
    BY <2>3 DEF AtGap
  <2>5. p < First[k + 1]
    BY <2>1, <2>4, TokenAt
  <2>6. Last[k] < p + 1 /\ p + 1 <= First[k + 1]
    <3>1. First[k + 1] \in Nat /\ Last[k] \in Nat
      BY CutNumbers
    <3> QED  BY <1>2, <2>4, <2>5, <3>1
  <2>7. AtGap(out', p + 1, d, k)
    BY <2>3, <2>6 DEF AtGap
  <2> QED  BY <1>2, <2>1, <2>7 DEF Follows
<1>10. CASE WordByte
  <2>1. out' = Push(out, pos) /\ mode' = "normal" /\ Std[p] \notin Special
    BY <1>1, <1>10 DEF WordByte, Take
  <2>2. Std[p] \notin Blanks
    BY <2>1 DEF Special
  <2>3. CASE AtGap(out, p, d, m)
    <3>1. m \in 0..Count
      BY <2>3 DEF AtGap, Read
    <3>2. /\ out'.buf = Bytes(user + p, user + p) /\ Read(out', d, m)
          /\ Last[m] < p /\ p <= First[m + 1]
      BY <1>1, <1>4, <2>1, <2>3, <3>1
    <3>3. /\ p = First[m + 1] /\ m < Count /\ WordFrom(p, Last[m + 1]) /\ p <= Last[m + 1]
          /\ StdTokens[m + 1][1] = WordType(SubSeq(Std, p, Last[m + 1]))
      BY <2>1, <2>2, <3>1, <3>2, TokenAt
    <3>4. First[m + 1] < p + 1 /\ p + 1 <= Last[m + 1] + 1
      <4>1. Last[m + 1] \in Nat
        <5>1. m + 1 \in 0..Count
          BY <3>1, <3>3, CutNumbers
        <5> QED  BY <5>1, CutNumbers
      <4>2. p = First[m + 1] /\ p <= Last[m + 1]
        BY <3>3
      <4> QED  BY <1>2, <4>1, <4>2
    <3>5. out'.buf = Bytes(user + First[m + 1], user + (p + 1) - 1)
      BY <1>2, <3>2, <3>3
    <3>6. InWord(out', p + 1, d, m)
      BY <3>2, <3>3, <3>4, <3>5, Zenon DEF InWord
    <3> QED  BY <1>2, <2>1, <3>6 DEF Follows
  <2>4. CASE InWord(out, p, d, m)
    <3>1. /\ Read(out, d, m) /\ m < Count /\ First[m + 1] < p /\ p <= Last[m + 1] + 1
          /\ out.buf = Bytes(user + First[m + 1], user + p - 1)
          /\ WordFrom(First[m + 1], Last[m + 1])
          /\ StdTokens[m + 1][1] = WordType(SubSeq(Std, First[m + 1], Last[m + 1]))
      BY <2>4 DEF InWord
    <3>2. First[m + 1] \in Nat /\ Last[m + 1] \in Nat
      <4>1. m \in 0..Count /\ m < Count
        BY <3>1 DEF Read
      <4>2. m + 1 \in 0..Count
        BY <4>1, CutNumbers
      <4>3. First[m + 1] \in 1..(Len(Std) + 1) /\ Last[m + 1] \in 0..Len(Std) /\ Len(Std) \in Nat
        BY <4>1, <4>2, CutNumbers
      <4> QED  BY <4>3
    <3>3. p # Last[m + 1] + 1
      <4>1. ASSUME p = Last[m + 1] + 1 PROVE FALSE
        <5>1. Last[m + 1] < Len(Std)
          BY <1>1, <1>2, <3>2, <4>1
        <5>2. Std[p] \in Special
          BY <3>1, <4>1, <5>1 DEF WordFrom
        <5> QED  BY <2>1, <5>2
      <4> QED  BY <4>1
    <3>4. First[m + 1] < p + 1 /\ p + 1 <= Last[m + 1] + 1
      <4>1. First[m + 1] < p /\ p <= Last[m + 1] + 1
        BY <3>1
      <4> QED  BY <1>2, <3>2, <3>3, <4>1
    <3>5. /\ out'.buf = Append(out.buf, pos) /\ out'.toks = out.toks
      BY <1>1, <2>1, PushHolds
    <3>6. Append(Bytes(user + First[m + 1], user + p - 1), user + p)
            = Bytes(user + First[m + 1], user + p)
      <4>1. PICK a, b : a = user + First[m + 1] /\ b = user + p - 1
        OBVIOUS
      <4>2. First[m + 1] < p
        BY <3>1
      <4>3. a \in Nat /\ b \in Nat /\ a <= b + 1 /\ b + 1 = user + p
        BY <1>1, <1>2, <3>2, <4>1, <4>2
      <4>4. Append(Bytes(a, b), b + 1) = Bytes(a, b + 1)
        BY <4>3, BytesRise
      <4> QED  BY <4>1, <4>3, <4>4
    <3>7. out'.buf = Bytes(user + First[m + 1], user + (p + 1) - 1)
      BY <1>2, <3>1, <3>5, <3>6
    <3>8. Read(out', d, m)
      BY <3>1, <3>5 DEF Read
    <3>9. InWord(out', p + 1, d, m)
      BY <3>1, <3>4, <3>7, <3>8, Zenon DEF InWord
    <3> QED  BY <1>2, <2>1, <3>9 DEF Follows
  <2> QED  BY <2>3, <2>4
<1>11. CASE Quote \/ DotOrAt
  <2>1. Std[p] \in {"\"", "'", ".", "@"}
    BY <1>1, <1>11 DEF Quote, DotOrAt
  <2> QED  BY <2>1, CutFacts
<1>12. pos' = user + (p + 1)
  BY <1>2
<1> QED  BY <1>6, <1>7, <1>8, <1>9, <1>10, <1>11, <1>12

(* Behind an operator the next byte is taken if it belongs to it.          *)
LEMMA OperatorFollows ==
  ASSUME StdCut(First, Last), LexerInv, \A q \in 1..Len(Std) : text[user + q] = Std[q],
         NEW p \in 1..Len(Std), pos = user + p,
         NEW d, NEW m, InOperator(out, p, d, m), Operator, ~out'.starved
  PROVE  \E q \in Nat : Follows(out', mode', q) /\ pos' = user + q
<1> DEFINE f == First[m + 1]
           l == Last[m + 1]
<1>1. /\ m \in 0..Count /\ m + 1 \in 1..Count /\ m + 1 \in 0..Count
      /\ f \in Nat /\ f >= 1 /\ p = f + 1
      /\ f \in 1..Len(Std) /\ l \in Nat /\ l <= Len(Std) /\ Len(Std) \in Nat
      /\ First[m + 1 + 1] \in Nat /\ l < First[m + 1 + 1]
  <2>1. m \in 0..Count /\ m < Count /\ p = f + 1
    BY DEF InOperator, Read
  <2>2. m + 1 \in 1..Count /\ m + 1 \in 0..Count
    BY <2>1, CutNumbers
  <2>3. /\ f \in 1..(Len(Std) + 1) /\ Len(Std) \in Nat /\ l \in 0..Len(Std)
        /\ First[m + 1 + 1] \in 1..(Len(Std) + 1) /\ l < First[m + 1 + 1]
    BY <2>1, <2>2, CutNumbers
  <2>4. f \in 1..Len(Std)
    BY <2>1, <2>3
  <2> QED  BY <2>1, <2>2, <2>3, <2>4
<1>2. /\ Read(out, d, m) /\ m < Count /\ out.buf = <<user + p - 1>> /\ Std[f] \in OperatorBytes
  BY DEF InOperator
<1>3. /\ Last[m] < f /\ f <= First[m + 1]
  BY <1>1, CutNumbers
<1>4. StdTokens[m + 1][1] = "operator" /\ (l = f \/ l = f + 1)
      /\ (l = f + 1 <=> <<Std[f], Std[f + 1]>> \in TwoByteOperators)
  <2>1. StdTokens[m + 1][1] = "operator"
        /\ \/ l = f /\ <<Std[f], Std[f + 1]>> \notin TwoByteOperators
           \/ l = f + 1 /\ <<Std[f], Std[f + 1]>> \in TwoByteOperators
    BY <1>1, <1>2, <1>3, TokenAt
  <2>2. f # f + 1
    BY <1>1
  <2> QED  BY <2>1, <2>2
<1> HIDE DEF f, l
<1>5. PICK a \in Nat : a = user + f
  BY <1>1 DEF LexerInv, TypeOK
<1>6. pos = a + 1 /\ user + p - 1 = a /\ user \in Nat /\ pos \in Nat
  <2>1. user \in Nat /\ p = f + 1 /\ f \in Nat
    BY <1>1 DEF LexerInv, TypeOK
  <2> QED  BY <1>5, <2>1
<1>7. PICK b \in Seq(Nat) :
        b = Append(out.buf, pos) /\ b = Bytes(a, a + 1) /\ Len(b) = 2 /\ b[1] = a
  <2>8. a <= a + 1 /\ a + 1 \in Nat /\ a <= (a + 1) + 1
    OBVIOUS
  <2>1. /\ Bytes(a, a) = <<a>> /\ Append(Bytes(a, a), a + 1) = Bytes(a, a + 1)
        /\ a + 1 \in Nat /\ a <= (a + 1) + 1
    BY <2>8, BytesRise
  <2>2. Bytes(a, a + 1) \in Seq(Nat) /\ Len(Bytes(a, a + 1)) = (a + 1) + 1 - a
    BY <2>1, BytesRise
  <2>3. PICK s : s = Bytes(a, a + 1)
    OBVIOUS
  <2>4. s = Append(<<a>>, a + 1)
    BY <2>1, <2>3
  <2>5. s[1] = a
    BY <2>4
  <2>6. (a + 1) + 1 - a = 2
    OBVIOUS
  <2>7. Append(out.buf, pos) = s
    BY <1>2, <1>6, <2>4
  <2> QED  BY <2>2, <2>3, <2>5, <2>6, <2>7
<1>8. Texts(b) \in TwoByteOperators <=> l = f + 1
  <2>1. DOMAIN b = 1..2 /\ b[2] = a + 1
    <3>1. b = [i \in 1..((a + 1) + 1 - a) |-> a + i - 1]
      BY <1>7 DEF Bytes
    <3> QED  BY <3>1
  <2>2. Texts(b) = <<text[b[1]], text[b[2]]>>
    BY <2>1 DEF Texts
  <2>3. f + 1 \in 1..Len(Std)
    BY <1>1
  <2>4. text[user + f] = Std[f] /\ text[user + (f + 1)] = Std[f + 1]
    BY <1>1, <2>3
  <2>5. a + 1 = user + (f + 1)
    BY <1>1, <1>5, <1>6
  <2>6. text[b[1]] = Std[f] /\ text[b[2]] = Std[f + 1]
    BY <1>5, <1>7, <2>1, <2>4, <2>5
  <2> QED  BY <1>4, <2>2, <2>6
<1>9. SubSeq(b, 1, 2) = b /\ SubSeq(b, 1, 1) = Bytes(a, a)
  <2>1. SubSeq(b, 1, 2) = b
    BY <1>7
  <2>2. PICK c : c = SubSeq(b, 1, 1)
    OBVIOUS
  <2>3. c \in Seq(Nat) /\ Len(c) = 1 /\ c[1] = a
    BY <1>7, <2>2
  <2>4. c = <<a>>
    BY <2>3
  <2> QED  BY <2>1, <2>2, <2>4, BytesRise
<1>10. PICK o : o = Emptied(out)
  OBVIOUS
<1>11. o \in Output /\ Read(o, d, m) /\ o.buf = <<>>
  <2>1. out \in Output /\ <<>> \in Seq(Nat)
    BY DEF LexerInv, TypeOK, Output
  <2>2. o \in Output /\ o.toks = out.toks /\ o.buf = <<>>
    BY <1>10, <2>1 DEF Emptied, Output
  <2> QED  BY <1>2, <2>2 DEF Read
<1>12. ASSUME out' \in Listed(o, Bytes(user + f, user + l), "operator"), mode' = "normal",
              pos' = user + (l + 1)
       PROVE  \E q \in Nat : Follows(out', mode', q) /\ pos' = user + q
  <2>1. PICK g : g = out'
    OBVIOUS
  <2>2. g \in Listed(o, Bytes(user + First[m + 1], user + Last[m + 1]), StdTokens[m + 1][1])
    BY <1>4, <1>12, <2>1 DEF f, l
  <2>3. Read(g, d, m + 1) /\ g.buf = <<>>
    BY <1>2, <1>6, <1>11, <2>1, <2>2, TokenRead
  <2>4. l < l + 1 /\ l + 1 <= First[m + 1 + 1] /\ l + 1 \in Nat
    BY <1>1
  <2>5. AtGap(g, l + 1, d, m + 1)
    BY <2>3, <2>4 DEF AtGap, l
  <2>6. Follows(g, "normal", l + 1)
    BY <2>5 DEF Follows
  <2> QED  BY <1>12, <2>1, <2>4, <2>6
<1>13. CASE l = f + 1
  <2>1. Take("normal") /\ out' \in Listed(o, SubSeq(b, 1, 2), "operator")
    BY <1>7, <1>8, <1>10, <1>13 DEF Operator
  <2>2. user + l = a + 1 /\ user + (l + 1) = pos + 1
    BY <1>1, <1>5, <1>6, <1>13
  <2>3. mode' = "normal" /\ pos' = pos + 1
    BY <2>1 DEF Take
  <2>4. SubSeq(b, 1, 2) = Bytes(user + f, user + l)
    BY <1>5, <1>7, <1>9, <2>2
  <2> QED  BY <1>12, <2>1, <2>2, <2>3, <2>4
<1>14. CASE l = f
  <2>1. Texts(b) \notin TwoByteOperators
    BY <1>1, <1>8, <1>14
  <2>2. Again("normal") /\ out' \in Listed(o, SubSeq(b, 1, 1), "operator")
    BY <1>7, <1>10, <2>1 DEF Operator
  <2>3. user + l = a /\ user + (l + 1) = pos
    BY <1>1, <1>5, <1>6, <1>14
  <2>4. mode' = "normal" /\ pos' = pos
    BY <2>2 DEF Again
  <2>5. SubSeq(b, 1, 1) = Bytes(user + f, user + l)
    BY <1>5, <1>9, <2>3
  <2> QED  BY <1>12, <2>2, <2>3, <2>4, <2>5
<1> QED  BY <1>4, <1>13, <1>14

(* At the end all of the declarations have been read.                      *)
LEMMA EndFollows ==
  ASSUME StdCut(First, Last), LexerInv, \A q \in 1..Len(Std) : text[user + q] = Std[q],
         pos = user + (Len(Std) + 1), Follows(out, mode, Len(Std) + 1),
         NEW c \in FlushWord(out), ~c.starved
  PROVE  /\ c \in Output /\ \E d : Read(c, d, Count)
<1>1. PICK d, m : \/ /\ mode = "normal"
                     /\ AtGap(out, Len(Std) + 1, d, m) \/ InWord(out, Len(Std) + 1, d, m)
                  \/ mode = "operator" /\ InOperator(out, Len(Std) + 1, d, m)
  BY DEF Follows
<1>2. out \in Output /\ user \in Nat /\ Len(Std) \in Nat /\ Len(Std) + 1 \in 1..(Len(Std) + 1)
      /\ ~(Len(Std) + 1 <= Len(Std)) /\ Count \in Nat
  BY CutNumbers DEF LexerInv, TypeOK, Output
<1>3. CASE AtGap(out, Len(Std) + 1, d, m) \/ InWord(out, Len(Std) + 1, d, m)
  <2>1. c \in Output /\ \E k \in 0..Count : AtGap(c, Len(Std) + 1, d, k)
    BY <1>2, <1>3, FlushAtGap
  <2>2. PICK k \in 0..Count : AtGap(c, Len(Std) + 1, d, k)
    BY <2>1
  <2>3. Read(c, d, k) /\ Len(Std) + 1 <= First[k + 1]
    BY <2>2 DEF AtGap
  <2>4. k = Count
    <3>1. ASSUME k # Count PROVE FALSE
      <4>1. k + 1 \in 1..Count /\ k + 1 \in 0..Count
        BY <1>2, <3>1
      <4>2. /\ First[k + 1] <= Last[k + 1] /\ Last[k + 1] \in 0..Len(Std)
            /\ First[k + 1] \in 1..(Len(Std) + 1)
        BY <4>1, CutNumbers
      <4> QED  BY <1>2, <2>3, <4>2
    <3> QED  BY <3>1
  <2> QED  BY <2>1, <2>3, <2>4
<1>4. CASE InOperator(out, Len(Std) + 1, d, m)
  <2>1. /\ Read(out, d, m) /\ m < Count /\ Len(Std) + 1 = First[m + 1] + 1
        /\ Std[First[m + 1]] \in OperatorBytes
    BY <1>4 DEF InOperator
  <2>2. m \in 0..Count /\ m + 1 \in 0..Count
    BY <1>2, <2>1 DEF Read
  <2>3. Last[m] < First[m + 1] /\ Last[m + 1] \in 0..Len(Std) /\ First[m + 1] \in 1..(Len(Std) + 1)
    BY <2>2, CutNumbers
  <2>4. First[m + 1] = Len(Std) /\ First[m + 1] \in 1..Len(Std) /\ First[m + 1] <= First[m + 1]
    BY <1>2, <2>1, <2>3
  <2>5. \/ First[m + 1] < Len(Std)
        \/ Last[m + 1] = First[m + 1] + 1
    BY <2>1, <2>2, <2>3, <2>4, TokenAt
  <2> QED  BY <1>2, <2>3, <2>4, <2>5
<1> QED  BY <1>1, <1>3, <1>4

(* So what DeclarationsSurvive asks for is there.                          *)
LEMMA ReadIsThere ==
  ASSUME StdCut(First, Last), NEW o, NEW d, Read(o, d, Count), user \in Nat,
         \A q \in 1..Len(Std) : text[user + q] = Std[q]
  PROVE  /\ Len(o.toks) - Count = d /\ d >= 0
         /\ \A k \in 1..Count :
              /\ <<o.toks[d + k].type, Texts(o.toks[d + k].at)>> = StdTokens[k]
              /\ \A i \in DOMAIN o.toks[d + k].at : o.toks[d + k].at[i] > user
<1>1. d \in Nat /\ Count \in Nat /\ Len(o.toks) = d + Count
  BY CutNumbers DEF Read
<1>2. Len(o.toks) - Count = d
  BY <1>1
<1>3. ASSUME NEW k \in 1..Count, NEW t, t = o.toks[d + k]
      PROVE  /\ <<t.type, Texts(t.at)>> = StdTokens[k]
             /\ \A i \in DOMAIN t.at : t.at[i] > user
  <2>1. t.type = StdTokens[k][1] /\ t.at = Bytes(user + First[k], user + Last[k])
    <3>1. o.toks[d + k] = [type |-> StdTokens[k][1], at |-> Bytes(user + First[k], user + Last[k])]
      BY DEF Read
    <3> QED  BY <1>3, <3>1
  <2>2. /\ First[k] \in Nat /\ Last[k] \in Nat /\ 1 <= First[k] /\ First[k] <= Last[k]
        /\ Last[k] <= Len(Std)
    <3>1. PICK j \in 0..Count : j + 1 = k
      <4>1. k - 1 \in 0..Count /\ (k - 1) + 1 = k
        BY <1>1
      <4> QED  BY <4>1
    <3>2. First[j + 1] \in 1..(Len(Std) + 1) /\ Len(Std) \in Nat
      BY CutNumbers
    <3>3. k \in 0..Count
      BY <1>1
    <3>4. Last[k] \in 0..Len(Std) /\ First[k] <= Last[k]
      BY <3>3, CutNumbers
    <3> QED  BY <3>1, <3>2, <3>4
  <2>3. Texts(t.at) = SubSeq(Std, First[k], Last[k])
    BY <2>1, <2>2, TextOfStd
  <2>4. StdTokens[k] = <<StdTokens[k][1], SubSeq(Std, First[k], Last[k])>>
    BY CutFacts
  <2>5. ASSUME NEW i \in DOMAIN t.at PROVE t.at[i] > user
    <3>1. PICK n \in Int : n = (user + Last[k]) + 1 - (user + First[k])
      BY <2>2
    <3>2. t.at = [j \in 1..n |-> (user + First[k]) + j - 1]
      BY <2>1, <3>1 DEF Bytes
    <3>3. i \in 1..n /\ t.at[i] = (user + First[k]) + i - 1
      BY <2>5, <3>2
    <3> QED  BY <2>2, <3>1, <3>3
  <2>6. <<t.type, Texts(t.at)>> = StdTokens[k]
    BY <2>1, <2>3, <2>4
  <2> QED  BY <2>5, <2>6
<1>4. d >= 0
  BY <1>1
<1>5. ASSUME NEW k \in 1..Count
      PROVE  /\ <<o.toks[d + k].type, Texts(o.toks[d + k].at)>> = StdTokens[k]
             /\ \A i \in DOMAIN o.toks[d + k].at : o.toks[d + k].at[i] > user
  BY <1>3
<1> QED  BY <1>2, <1>4, <1>5

(* A step of the loop, as far as it is not the last.                       *)
LEMMA LoopFollows ==
  ASSUME StdCut(First, Last), LexerInv, \A q \in 1..Len(Std) : text[user + q] = Std[q],
         Len(text) = user + Len(Std), NEW p \in Nat, pos = user + p, Follows(out, mode, p),
         Lex, stage' = "lex", ~out'.starved
  PROVE  \E q \in Nat : pos' = user + q /\ Follows(out', mode', q)
<1>1. PICK d, m : \/ mode = "normal" /\ (AtGap(out, p, d, m) \/ InWord(out, p, d, m))
                  \/ mode = "operator" /\ InOperator(out, p, d, m)
  BY DEF Follows
<1>2. ~Finish /\ ~Abort
  BY DEF Finish, Abort
<1>3. pos <= Len(text)
  BY <1>2 DEF Lex, Punct, StartOperator, SingleOperator, Quote, DotOrAt, Blank, WordByte,
              Operator, Dot, String, Escape, GoOnAfterString, EndString, Comment, In
<1>4. p >= 1
  <2>1. Read(out, d, m)
    BY <1>1 DEF AtGap, InWord, InOperator
  <2>2. m \in 0..Count
    BY <2>1 DEF Read
  <2>3. Last[m] \in 0..Len(Std) /\ First[m + 1] \in 1..(Len(Std) + 1) /\ Len(Std) \in Nat
    BY <2>2, CutNumbers
  <2>4. Last[m] < p \/ First[m + 1] < p \/ p = First[m + 1] + 1
    BY <1>1 DEF AtGap, InWord, InOperator
  <2> QED  BY <2>3, <2>4
<1>5. p \in 1..Len(Std)
  <2>1. user \in Nat /\ Len(Std) \in Nat
    BY CutNumbers DEF LexerInv, TypeOK
  <2> QED  BY <1>3, <1>4, <2>1
<1>6. CASE mode = "normal"
  <2>1. Punct \/ StartOperator \/ SingleOperator \/ Quote \/ DotOrAt \/ Blank \/ WordByte
    BY <1>2, <1>6 DEF Lex, Operator, Dot, String, Escape, GoOnAfterString, EndString, Comment, In
  <2>2. AtGap(out, p, d, m) \/ InWord(out, p, d, m)
    BY <1>1, <1>6
  <2>3. Follows(out', mode', p + 1) /\ pos' = user + (p + 1)
    BY <1>5, <2>1, <2>2, NormalFollows
  <2>4. p + 1 \in Nat
    BY <1>5
  <2> QED  BY <2>3, <2>4
<1>7. CASE mode = "operator"
  <2>1. Operator
    BY <1>2, <1>7 DEF Lex, Punct, StartOperator, SingleOperator, Quote, DotOrAt, Blank, WordByte,
                      Dot, String, Escape, GoOnAfterString, EndString, Comment, In
  <2>2. InOperator(out, p, d, m)
    BY <1>1, <1>7
  <2> QED  BY <1>5, <2>1, <2>2, OperatorFollows
<1> QED  BY <1>1, <1>6, <1>7

LEMMA FollowStep ==
  ASSUME StdCut(First, Last), LexerInv, TextInv, FollowInv, [Next]_vars
  PROVE  FollowInv'
<1>1. stage \notin {"load", "insert"}
  BY DEF FollowInv
<1>2. CASE UNCHANGED vars
  BY <1>2 DEF FollowInv, vars, Follows, AtGap, InWord, InOperator, Read, StdIsThere, Texts
<1>3. CASE Lex
  <2>1. /\ stage = "lex" /\ UNCHANGED <<text, user>> /\ stage' \in {"lex", "done", "aborted"}
        /\ stage' = "done" => Finish
    BY <1>3 DEF Lex, Punct, StartOperator, SingleOperator, Quote, DotOrAt, Blank, WordByte,
                Operator, Dot, String, Escape, GoOnAfterString, EndString, Comment, Abort, Finish,
                Take, Again, In
  <2>2. ASSUME Len(text) > user, ~out'.starved
        PROVE  /\ ~out.starved /\ user \in Nat /\ pos \in 1..(Len(text) + 1) /\ Len(Std) \in Nat
               /\ Len(text) = user + Len(Std) /\ \A q \in 1..Len(Std) : text[user + q] = Std[q]
               /\ \E p \in Nat : pos = user + p /\ Follows(out, mode, p)
    <3>1. ~out.starved
      BY <1>3, <2>1, <2>2, StarvedStays
    <3>2. user \in Nat /\ pos \in 1..(Len(text) + 1) /\ Len(Std) \in Nat /\ Len(text) \in Nat
      BY CutNumbers DEF LexerInv, TypeOK
    <3>3. Len(text) # user
      BY <2>2, <3>2
    <3>4. Len(text) = user + Len(Std) /\ \A q \in 1..Len(Std) : text[user + q] = Std[q]
      BY <2>1, <3>3 DEF TextInv
    <3>5. \E p \in Nat : pos = user + p /\ Follows(out, mode, p)
      BY <2>1, <2>2, <3>1 DEF FollowInv
    <3> QED  BY <3>1, <3>2, <3>4, <3>5
  <2>3. CASE stage' = "lex"
    <3>1. ASSUME Len(text) > user, ~out'.starved
          PROVE  \E q \in Nat : pos' = user + q /\ Follows(out', mode', q)
      <4>1. PICK p \in Nat : pos = user + p /\ Follows(out, mode, p)
        BY <2>2, <3>1
      <4> QED  BY <1>3, <2>2, <2>3, <3>1, <4>1, LoopFollows
    <3>2. Len(text)' = Len(text) /\ user' = user
      BY <2>1
    <3>3. ASSUME NEW q PROVE Follows(out, mode, q)' <=> Follows(out', mode', q)
      BY <3>2, Zenon DEF Follows, AtGap, InWord, InOperator, Read
    <3> QED  BY <2>3, <3>1, <3>2, <3>3 DEF FollowInv
  <2>4. CASE stage' = "done"
    <3>1. ASSUME Len(text) > user, ~out'.starved PROVE StdIsThere'
      <4>1. out' \in FlushWord(out) /\ pos > Len(text)
        BY <2>1, <2>4 DEF Finish
      <4>2. PICK p \in Nat : pos = user + p /\ Follows(out, mode, p)
        BY <2>2, <3>1
      <4>3. p = Len(Std) + 1
        <5>1. /\ user \in Nat /\ Len(Std) \in Nat /\ Len(text) = user + Len(Std)
              /\ pos \in 1..(Len(text) + 1)
          BY <2>2, <3>1
        <5> QED  BY <4>1, <4>2, <5>1
      <4>4. PICK o, u, x : o = out' /\ u = user /\ x = text
        OBVIOUS
      <4>5. PICK d : Read(o, d, Count)
        <5>1. o \in FlushWord(out) /\ ~o.starved /\ pos = user + (Len(Std) + 1)
              /\ Follows(out, mode, Len(Std) + 1)
          BY <3>1, <4>1, <4>2, <4>3, <4>4
        <5> QED  BY <2>2, <3>1, <5>1, EndFollows
      <4>6. /\ Len(o.toks) - Count = d /\ d >= 0
            /\ \A k \in 1..Count :
                 /\ <<o.toks[d + k].type, Texts(o.toks[d + k].at)>> = StdTokens[k]
                 /\ \A i \in DOMAIN o.toks[d + k].at : o.toks[d + k].at[i] > user
        BY <2>2, <3>1, <4>5, ReadIsThere
      <4>7. \A at : Texts(at)' = Texts(at)
        BY <2>1 DEF Texts
      <4>8. Texts(o.toks)' = Texts(o.toks) /\ user' = user /\ out' = o
        BY <2>1, <4>4, <4>7
      <4> QED  BY <2>1, <4>4, <4>6, Zenon DEF StdIsThere, Count, Texts
    <3>2. Len(text)' = Len(text) /\ user' = user
      BY <2>1
    <3> QED  BY <2>4, <3>1, <3>2 DEF FollowInv
  <2>5. CASE stage' = "aborted"
    BY <2>5 DEF FollowInv
  <2> QED  BY <2>1, <2>3, <2>4, <2>5
<1> QED  BY <1>1, <1>2, <1>3 DEF Next, Load, InsertStd

(* With nothing open at the end of the source, the declarations come next. *)
LEMMA FollowStart == StdCut(First, Last) /\ LexerInv /\ EndsClean => FollowInv
<1> SUFFICES ASSUME StdCut(First, Last), LexerInv, EndsClean PROVE FollowInv
  OBVIOUS
<1>1. stage = "lex" /\ pos = user + 1 /\ mode = "normal" /\ out.buf = <<>> /\ out \in Output
  BY DEF EndsClean, LexerInv, TypeOK, Output
<1>2. Len(out.toks) \in Nat /\ Len(out.toks) = Len(out.toks) + 0 /\ 0 \in 0..Count
  BY <1>1, CutNumbers DEF Output
<1>3. Read(out, Len(out.toks), 0)
  BY <1>2 DEF Read
<1>4. Last[0] < 1 /\ 1 <= First[0 + 1]
  BY <1>2, CutNumbers
<1>5. Follows(out, "normal", 1)
  BY <1>1, <1>3, <1>4 DEF Follows, AtGap
<1> QED  BY <1>1, <1>5 DEF FollowInv

(* A source that leaves nothing open does not change the declarations the  *)
(* driver appends: they are at the end of the token list, as they read on  *)
(* their own (insert_std_code, app_1.c:66; lexer_sce_source_codes).        *)
THEOREM DeclarationsStay == ASSUME StdCut(First, Last) PROVE Spec => DeclarationsSurvive
<1>1. Init => TextInv
  BY DEF Init, TextInv
<1>2. LexerInv /\ TextInv /\ [Next]_vars => TextInv'
  BY TextInvStep DEF LexerInv
<1>3. LexerInv /\ TextInv /\ FollowInv /\ [Next]_vars => FollowInv'
  BY FollowStep
<1>4. LexerInv /\ EndsClean => FollowInv
  BY FollowStart
<1>5. FollowInv => (stage = "done" /\ Len(text) > user /\ ~out.starved => StdIsThere)
  BY DEF FollowInv
<1>6. LexerInv /\ [Next]_vars => LexerInv'
  BY StepInv
<1> QED  BY <1>1, <1>2, <1>3, <1>4, <1>5, <1>6, InitInv, PTL DEF Spec, DeclarationsSurvive
=============================================================================
