---------------------------- MODULE ParserProofs ----------------------------
(***************************************************************************)
(* The parser's blocks, for every set of token lists and whatever is       *)
(* inside expressions and declarations: fields come first, and a section   *)
(* comes once.                                                             *)
(***************************************************************************)
EXTENDS Parser, SequenceTheorems, TLAPS

-----------------------------------------------------------------------------
(* Lists, of which the elements may be anything.                           *)

Members(s) == {s[i] : i \in DOMAIN s}
IsList(s)  == s \in Seq(Members(s))

LEMMA SequenceIsList ==
  ASSUME NEW S, NEW s \in Seq(S)
  PROVE  IsList(s)
<1>1. Len(s) \in Nat /\ s = [i \in 1..Len(s) |-> s[i]] /\ DOMAIN s = 1..Len(s)
  BY LenProperties
<1>2. \A i \in 1..Len(s) : s[i] \in Members(s)
  BY <1>1 DEF Members
<1> QED  BY <1>1, <1>2, IsASeq DEF IsList

LEMMA ListLength ==
  ASSUME NEW s, IsList(s)
  PROVE  /\ Len(s) \in Nat /\ DOMAIN s = 1..Len(s)
         /\ s # <<>> <=> Len(s) > 0
BY LenProperties, EmptySeq DEF IsList

LEMMA Appended ==
  ASSUME NEW s, IsList(s), NEW e
  PROVE  /\ IsList(Append(s, e)) /\ Len(Append(s, e)) = Len(s) + 1
         /\ \A i \in 1..Len(s) : Append(s, e)[i] = s[i]
         /\ Append(s, e)[Len(s) + 1] = e
<1> DEFINE S == Members(s) \cup {e}
<1>1. s \in Seq(S)
  BY DEF IsList
<1>2. e \in S
  OBVIOUS
<1> HIDE DEF S
<1>3. /\ Append(s, e) \in Seq(S) /\ Len(Append(s, e)) = Len(s) + 1
      /\ \A i \in 1..Len(s) : Append(s, e)[i] = s[i]
      /\ Append(s, e)[Len(s) + 1] = e
  BY <1>1, <1>2, AppendProperties
<1> QED  BY <1>3, SequenceIsList

Joins(c, a, b) ==
  /\ IsList(c) /\ Len(c) = Len(a) + Len(b)
  /\ \A i \in 1..Len(a) : c[i] = a[i]
  /\ \A i \in 1..Len(b) : c[Len(a) + i] = b[i]

LEMMA Joined ==
  ASSUME NEW a, IsList(a), NEW b, IsList(b)
  PROVE  Joins(a \o b, a, b)
<1> DEFINE c == a \o b
           S == Members(a) \cup Members(b)
<1>1. a \in Seq(S) /\ b \in Seq(S)
  BY SeqMonotonic DEF IsList
<1>2. Len(a) \in Nat /\ Len(b) \in Nat
  BY ListLength
<1>3. /\ c \in Seq(S) /\ Len(c) = Len(a) + Len(b)
      /\ \A i \in 1..(Len(a) + Len(b)) : c[i] = IF i <= Len(a) THEN a[i] ELSE b[i - Len(a)]
  BY <1>1, ConcatProperties
<1>4. IsList(c)
  BY <1>3, SequenceIsList
<1>5. ASSUME NEW i \in 1..Len(b) PROVE c[Len(a) + i] = b[i]
  <2>1. Len(a) + i \in 1..(Len(a) + Len(b)) /\ ~(Len(a) + i <= Len(a)) /\ (Len(a) + i) - Len(a) = i
    BY <1>2
  <2> QED  BY <1>3, <2>1
<1> QED  BY <1>2, <1>3, <1>4, <1>5 DEF Joins

(* All but the last element.                                               *)
LEMMA Shortened ==
  ASSUME NEW s, IsList(s), s # <<>>
  PROVE  /\ IsList(Front(s)) /\ Len(Front(s)) = Len(s) - 1
         /\ \A i \in 1..(Len(s) - 1) : Front(s)[i] = s[i]
<1>1. Len(s) \in Nat /\ Len(s) > 0 /\ DOMAIN s = 1..Len(s)
  BY ListLength
<1>2. \A i \in 1..(Len(s) - 1) : s[i] \in Members(s)
  BY <1>1 DEF Members
<1> DEFINE f == Front(s)
           n == Len(s) - 1
<1>3. n \in Nat /\ f = SubSeq(s, 1, n)
  BY <1>1 DEF Front
<1> HIDE DEF f
<1>4. /\ f \in Seq(Members(s)) /\ Len(f) = (IF 1 <= n THEN n - 1 + 1 ELSE 0)
      /\ \A i \in 1..(n - 1 + 1) : f[i] = s[1 + i - 1]
  BY <1>2, <1>3, SubSeqProperties
<1> HIDE DEF n
<1>5. n - 1 + 1 = n /\ (IF 1 <= n THEN n - 1 + 1 ELSE 0) = n
  BY <1>3
<1>6. ASSUME NEW i \in 1..n PROVE f[i] = s[i]
  <2>1. 1 + i - 1 = i
    BY <1>3
  <2> QED  BY <1>4, <1>5, <2>1
<1>7. IsList(f) /\ Len(f) = n
  BY <1>4, <1>5, SequenceIsList
<1> QED  BY <1>6, <1>7 DEF f, n

(* All but the first.                                                      *)
LEMMA Shifted ==
  ASSUME NEW s, IsList(s), s # <<>>
  PROVE  /\ IsList(Tail(s)) /\ Len(Tail(s)) = Len(s) - 1
         /\ \A i \in 1..(Len(s) - 1) : Tail(s)[i] = s[i + 1]
BY HeadTailProperties, SequenceIsList DEF IsList

LEMMA Single ==
  ASSUME NEW e
  PROVE  IsList(<<e>>) /\ Len(<<e>>) = 1 /\ <<e>>[1] = e
<1>1. <<e>> \in Seq({e})
  OBVIOUS
<1> QED  BY <1>1, SequenceIsList

LEMMA NoElement == IsList(<<>>) /\ Len(<<>>) = 0
<1>1. <<>> \in Seq({})
  OBVIOUS
<1> QED  BY <1>1, SequenceIsList

(* A node that is put is the last; those before it were there.             *)
LEMMA PutLast ==
  ASSUME NEW s, IsList(s), s # <<>>, NEW n
  PROVE  /\ IsList(Put(s, n)) /\ Put(s, n) # <<>>
         /\ Len(Put(s, n)) = IF Last(s) = NULL THEN Len(s) ELSE Len(s) + 1
         /\ Put(s, n)[Len(Put(s, n))] = n
         /\ \A i \in 1..(Len(Put(s, n)) - 1) : i \in DOMAIN s /\ Put(s, n)[i] = s[i]
<1>1. Len(s) \in Nat /\ Len(s) > 0 /\ DOMAIN s = 1..Len(s)
  BY ListLength
<1>2. CASE Last(s) = NULL
  <2> DEFINE p == [s EXCEPT ![Len(s)] = n]
  <2>1. Put(s, n) = p
    BY <1>2 DEF Put
  <2>2. s \in Seq(Members(s) \cup {n})
    BY SeqMonotonic DEF IsList
  <2>3. p \in Seq(Members(s) \cup {n}) /\ Len(p) = Len(s)
    BY <1>1, <2>2, ExceptSeq
  <2>4. p[Len(s)] = n /\ \A i \in 1..(Len(s) - 1) : p[i] = s[i]
    BY <1>1, <2>2
  <2>5. IsList(p)
    BY <2>3, SequenceIsList
  <2> HIDE DEF p
  <2>6. p # <<>>
    BY <1>1, <2>3, <2>5, ListLength
  <2> QED  BY <1>1, <1>2, <2>1, <2>3, <2>4, <2>5, <2>6
<1>3. CASE Last(s) # NULL
  <2> DEFINE p == Append(s, n)
  <2>1. Put(s, n) = p
    BY <1>3 DEF Put
  <2>2. /\ IsList(p) /\ Len(p) = Len(s) + 1 /\ p[Len(s) + 1] = n
        /\ \A i \in 1..Len(s) : p[i] = s[i]
    BY Appended
  <2> HIDE DEF p
  <2>3. p # <<>>
    BY <1>1, <2>2, ListLength
  <2> QED  BY <1>1, <1>3, <2>1, <2>2, <2>3
<1> QED  BY <1>2, <1>3

-----------------------------------------------------------------------------
(* Nodes.                                                                  *)

HasParts(n, type, text, left, right) ==
  /\ n # NULL /\ TypeOf(n) = type
  /\ n[1] = type /\ n[2] = text /\ n[3] = left /\ n[4] = right

LEMMA NodeParts ==
  ASSUME NEW type, NEW text, NEW left, NEW right
  PROVE  HasParts(Node(type, text, left, right), type, text, left, right)
<1>1. Node(type, text, left, right) # NULL
  BY DEF Node, NULL
<1> QED  BY <1>1 DEF Node, TypeOf, HasParts

IsUnit(n)    == TypeOf(n) = "Name_Statement_Decl"
UnitSound(n) == IsUnit(n) => n[4][2] = "Error" \/ EachOnce(Items(n[4]))
UnitLed(n)   == IsUnit(n) => FieldsLead(Items(n[4]))

-----------------------------------------------------------------------------
(* Frames.                                                                 *)

FrameTyped(f) ==
  /\ f = [type |-> f.type, owner |-> f.owner, slots |-> f.slots, fields |-> f.fields,
          has |-> f.has]
  /\ IsList(f.slots) /\ f.slots # <<>> /\ IsList(f.fields)
  /\ f.has \subseteq Sections
  /\ \A i \in DOMAIN f.fields : TypeOf(f.fields[i]) = "Expr"

(* The sections of a name block are noted.                                 *)
Noted(f) ==
  /\ EachOnce(f.slots)
  /\ \A i \in DOMAIN f.slots : TypeOf(f.slots[i]) \in Sections => TypeOf(f.slots[i]) \in f.has

(* Behind the first slot there is no expression statement, and no slot is  *)
(* empty unless all is.                                                    *)
Led(f) ==
  \/ f.slots = <<NULL>> /\ f.fields = <<>>
  \/ /\ \A i \in DOMAIN f.slots : f.slots[i] # NULL
     /\ \A i \in DOMAIN f.slots : i > 1 => TypeOf(f.slots[i]) # "Expr"

LEMMA FrameStarts ==
  ASSUME NEW type, NEW owner
  PROVE  LET f == Frame(type, owner)
         IN /\ FrameTyped(f) /\ f.type = type /\ f.owner = owner /\ Noted(f) /\ Led(f)
            /\ f.slots = <<NULL>>
<1> DEFINE f == Frame(type, owner)
<1>1. /\ f = [type |-> type, owner |-> owner, slots |-> <<NULL>>, fields |-> <<>>, has |-> {}]
      /\ f.type = type /\ f.owner = owner /\ f.slots = <<NULL>> /\ f.fields = <<>> /\ f.has = {}
  BY DEF Frame
<1>2. f = [type |-> f.type, owner |-> f.owner, slots |-> f.slots, fields |-> f.fields,
          has |-> f.has]
  BY <1>1
<1> HIDE DEF f
<1>3. IsList(f.slots) /\ Len(f.slots) = 1 /\ f.slots[1] = NULL /\ IsList(f.fields)
  BY <1>1, Single, NoElement
<1>4. f.slots # <<>> /\ DOMAIN f.slots = {1} /\ DOMAIN f.fields = {}
  BY <1>1, <1>3, ListLength
<1>5. TypeOf(NULL) \notin Sections
  BY DEF TypeOf, Sections
<1>6. FrameTyped(f)
  BY <1>1, <1>2, <1>3, <1>4 DEF FrameTyped
<1>7. Noted(f) /\ Led(f)
  BY <1>1, <1>3, <1>4, <1>5 DEF Noted, Led, EachOnce
<1> QED  BY <1>1, <1>6, <1>7 DEF f

(* A statement goes to the fields or to the slots.                         *)
LEMMA PlacedOnce ==
  ASSUME NEW f, FrameTyped(f), NEW n
  PROVE  LET p == Placed(f, n)
         IN /\ FrameTyped(p) /\ p.type = f.type /\ p.owner = f.owner /\ p.has = f.has
            /\ \/ TypeOf(n) = "Expr" /\ p.slots = f.slots /\ p.fields = Append(f.fields, n)
                  /\ Last(f.slots) # NULL
               \/ ~(f.type \in {Module, Unit} /\ TypeOf(n) = "Expr" /\ Last(f.slots) # NULL)
                  /\ p.fields = f.fields /\ p.slots = Put(f.slots, n)
<1> DEFINE p == Placed(f, n)
           Shape(g) == g = [type |-> g.type, owner |-> g.owner, slots |-> g.slots,
                            fields |-> g.fields, has |-> g.has]
           joins == f.type \in {Module, Unit} /\ TypeOf(n) = "Expr" /\ Last(f.slots) # NULL
<1>1. Shape(f) /\ IsList(f.slots) /\ f.slots # <<>> /\ IsList(f.fields)
  BY DEF FrameTyped
<1>2. CASE joins
  <2>1. p = [f EXCEPT !.fields = Append(f.fields, n)]
    BY <1>2 DEF Placed
  <2>2. /\ p.type = f.type /\ p.owner = f.owner /\ p.has = f.has
        /\ p.slots = f.slots /\ p.fields = Append(f.fields, n) /\ Shape(p)
    BY <1>1, <2>1
  <2> HIDE DEF p
  <2>3. IsList(p.fields) /\ DOMAIN p.fields = 1..(Len(f.fields) + 1)
    BY <1>1, <2>2, Appended, ListLength
  <2>4. \A i \in DOMAIN p.fields : TypeOf(p.fields[i]) = "Expr"
    BY <1>1, <1>2, <2>2, <2>3, Appended, ListLength DEF FrameTyped
  <2>5. FrameTyped(p)
    BY <2>2, <2>3, <2>4 DEF FrameTyped
  <2> QED  BY <1>2, <2>2, <2>5 DEF p
<1>3. CASE ~joins
  <2>1. p = [f EXCEPT !.slots = Put(f.slots, n)]
    BY <1>3 DEF Placed
  <2>2. /\ p.type = f.type /\ p.owner = f.owner /\ p.has = f.has
        /\ p.slots = Put(f.slots, n) /\ p.fields = f.fields /\ Shape(p)
    BY <1>1, <2>1
  <2> HIDE DEF p
  <2>3. IsList(p.slots) /\ p.slots # <<>>
    BY <1>1, <2>2, PutLast
  <2>4. FrameTyped(p)
    BY <2>2, <2>3 DEF FrameTyped
  <2> QED  BY <1>3, <2>2, <2>4 DEF p
<1> QED  BY <1>2, <1>3

(* A frame with its statement, and its section noted.                      *)
Taken(f, n) == [Placed(f, n) EXCEPT !.has = @ \cup ({TypeOf(n)} \cap Sections)]

LEMMA TakenOnce ==
  ASSUME NEW f, FrameTyped(f), NEW n
  PROVE  LET p == Placed(f, n)
             g == Taken(f, n)
         IN /\ FrameTyped(g) /\ g.type = f.type /\ g.owner = f.owner
            /\ g.slots = p.slots /\ g.fields = p.fields
            /\ g.has = f.has \cup ({TypeOf(n)} \cap Sections)
<1> DEFINE p == Placed(f, n)
           more == p.has \cup ({TypeOf(n)} \cap Sections)
           g == [p EXCEPT !.has = more]
<1>1. FrameTyped(p) /\ p.type = f.type /\ p.owner = f.owner /\ p.has = f.has
  BY PlacedOnce
<1>2. Taken(f, n) = g
  BY DEF Taken
<1> HIDE DEF p
<1>3. p = [type |-> p.type, owner |-> p.owner, slots |-> p.slots, fields |-> p.fields,
           has |-> p.has]
  BY <1>1 DEF FrameTyped
<1>4. more \subseteq Sections
  BY <1>1 DEF FrameTyped
<1> HIDE DEF more
<1>5. /\ g.type = p.type /\ g.owner = p.owner /\ g.slots = p.slots /\ g.fields = p.fields
      /\ g.has = more
      /\ g = [type |-> g.type, owner |-> g.owner, slots |-> g.slots, fields |-> g.fields,
              has |-> g.has]
  BY <1>3
<1> HIDE DEF g
<1>6. FrameTyped(g)
  BY <1>1, <1>4, <1>5 DEF FrameTyped
<1> QED  BY <1>1, <1>2, <1>5, <1>6 DEF p, more

LEMMA SlotPut ==
  ASSUME NEW s, IsList(s), s # <<>>, NEW n
  PROVE  /\ DOMAIN Put(s, n) = 1..Len(Put(s, n)) /\ Len(Put(s, n)) \in Nat \ {0}
         /\ \A i \in DOMAIN Put(s, n) :
              \/ i = Len(Put(s, n)) /\ Put(s, n)[i] = n
              \/ i < Len(Put(s, n)) /\ i \in DOMAIN s /\ Put(s, n)[i] = s[i]
<1> DEFINE p == Put(s, n)
<1>1. /\ IsList(p) /\ p # <<>> /\ p[Len(p)] = n
      /\ \A i \in 1..(Len(p) - 1) : i \in DOMAIN s /\ p[i] = s[i]
  BY PutLast
<1> HIDE DEF p
<1>2. DOMAIN p = 1..Len(p) /\ Len(p) \in Nat \ {0}
  BY <1>1, ListLength
<1>3. ASSUME NEW i \in DOMAIN p
      PROVE  \/ i = Len(p) /\ p[i] = n
             \/ i < Len(p) /\ i \in DOMAIN s /\ p[i] = s[i]
  BY <1>1, <1>2
<1> QED  BY <1>2, <1>3 DEF p

(* A section that was not noted yet is noted.                              *)
LEMMA NotedFurther ==
  ASSUME NEW f, FrameTyped(f), Noted(f), NEW n, TypeOf(n) \notin f.has
  PROVE  Noted(Taken(f, n))
<1> DEFINE g == Taken(f, n)
           put == Put(f.slots, n)
<1>1. /\ g.slots = f.slots \/ g.slots = put
      /\ g.has = f.has \cup ({TypeOf(n)} \cap Sections)
  BY TakenOnce, PlacedOnce
<1>2. CASE g.slots = f.slots
  BY <1>1, <1>2 DEF Noted
<1>3. CASE g.slots = put
  <2>1. \A i \in DOMAIN put :
          \/ i = Len(put) /\ put[i] = n
          \/ i < Len(put) /\ i \in DOMAIN f.slots /\ put[i] = f.slots[i]
    BY SlotPut DEF FrameTyped
  <2> HIDE DEF put
  <2>2. EachOnce(put)
    <3> SUFFICES ASSUME NEW i \in DOMAIN put, NEW j \in DOMAIN put,
                        TypeOf(put[i]) \in Sections, TypeOf(put[j]) = TypeOf(put[i])
                 PROVE  i = j
      BY DEF EachOnce
    <3> QED  BY <2>1 DEF Noted, EachOnce
  <2>3. \A i \in DOMAIN put : TypeOf(put[i]) \in Sections => TypeOf(put[i]) \in g.has
    BY <1>1, <2>1 DEF Noted
  <2> QED  BY <1>3, <2>2, <2>3 DEF Noted
<1> QED  BY <1>1, <1>2, <1>3

(* A statement of a module or a name block leaves it led.                  *)
LEMMA LedFurther ==
  ASSUME NEW f, FrameTyped(f), Led(f), f.type \in {Module, Unit}, NEW n, n # NULL
  PROVE  Led(Placed(f, n))
<1> DEFINE p == Placed(f, n)
           put == Put(f.slots, n)
<1>1. IsList(f.slots) /\ f.slots # <<>> /\ IsList(f.fields)
  BY DEF FrameTyped
<1>2. Len(f.slots) \in Nat \ {0} /\ DOMAIN f.slots = 1..Len(f.slots)
  BY <1>1, ListLength
<1>3. CASE TypeOf(n) = "Expr" /\ p.slots = f.slots /\ Last(f.slots) # NULL
  <2>1. f.slots # <<NULL>>
    BY <1>3, Single DEF Last
  <2> QED  BY <1>3, <2>1 DEF Led
<1>4. CASE /\ ~(f.type \in {Module, Unit} /\ TypeOf(n) = "Expr" /\ Last(f.slots) # NULL)
           /\ p.fields = f.fields /\ p.slots = put
  <2>1. /\ DOMAIN put = 1..Len(put) /\ Len(put) \in Nat \ {0}
        /\ \A i \in DOMAIN put :
             \/ i = Len(put) /\ put[i] = n
             \/ i < Len(put) /\ i \in DOMAIN f.slots /\ put[i] = f.slots[i]
    BY <1>1, SlotPut
  <2>2. Len(put) = IF Last(f.slots) = NULL THEN Len(f.slots) ELSE Len(f.slots) + 1
    BY <1>1, PutLast
  <2> HIDE DEF put, p
  <2>3. CASE f.slots = <<NULL>>
    <3>1. Len(put) = 1
      BY <2>2, <2>3, Single DEF Last
    <3> QED  BY <1>4, <2>1, <3>1 DEF Led, p
  <2>4. CASE f.slots # <<NULL>>
    <3>1. /\ \A i \in DOMAIN f.slots : f.slots[i] # NULL
          /\ \A i \in DOMAIN f.slots : i > 1 => TypeOf(f.slots[i]) # "Expr"
      BY <2>4 DEF Led
    <3>2. Last(f.slots) # NULL
      BY <1>2, <3>1 DEF Last
    <3>3. TypeOf(n) # "Expr"
      BY <1>4, <3>2
    <3> QED  BY <1>4, <2>1, <3>1, <3>3 DEF Led, p
  <2> QED  BY <2>3, <2>4
<1> QED  BY <1>3, <1>4, PlacedOnce

-----------------------------------------------------------------------------
(* The statements of a block that is over.                                 *)

(* The first statement, the fields, and the other statements.              *)
JoinsBehind(h, a, b) ==
  /\ IsList(h) /\ Len(h) = Len(a) + Len(b) /\ h[1] = b[1]
  /\ \A i \in 1..Len(a) : h[i + 1] = a[i]
  /\ \A i \in 2..Len(b) : h[Len(a) + i] = b[i]

LEMMA FieldsBehindFirst ==
  ASSUME NEW a, IsList(a), NEW b, IsList(b), b # <<>>
  PROVE  JoinsBehind(<<b[1]>> \o a \o Tail(b), a, b)
<1> DEFINE h == <<b[1]>> \o a \o Tail(b)
<1>1. PICK head : head = <<b[1]>>
  OBVIOUS
<1>2. PICK tail : tail = Tail(b)
  OBVIOUS
<1>3. PICK front : front = head \o a
  OBVIOUS
<1>4. PICK m \in Nat : m = Len(a)
  BY ListLength
<1>5. PICK n \in Nat \ {0} : n = Len(b)
  BY ListLength
<1>6. IsList(head) /\ Len(head) = 1 /\ head[1] = b[1]
  BY <1>1, Single
<1>7. IsList(tail) /\ Len(tail) = n - 1 /\ \A i \in 1..(n - 1) : tail[i] = b[i + 1]
  BY <1>2, <1>5, Shifted
<1>8. Joins(front, head, a)
  BY <1>3, <1>6, Joined
<1>9. /\ IsList(front) /\ Len(front) = 1 + m
      /\ front[1] = b[1] /\ \A i \in 1..m : front[1 + i] = a[i]
  BY <1>4, <1>6, <1>8 DEF Joins
<1> SUFFICES ASSUME NEW c, c = h PROVE JoinsBehind(c, a, b)
  OBVIOUS
<1>10. Joins(c, front, tail)
  BY <1>1, <1>2, <1>3, <1>7, <1>9, Joined
<1>11. /\ IsList(c) /\ Len(c) = m + n /\ c[1] = b[1]
       /\ \A i \in 1..(1 + m) : c[i] = front[i]
       /\ \A i \in 1..(n - 1) : c[(1 + m) + i] = tail[i]
  BY <1>7, <1>9, <1>10 DEF Joins
<1>12. ASSUME NEW i \in 1..m PROVE c[i + 1] = a[i]
  BY <1>9, <1>11
<1>13. ASSUME NEW i \in 2..n PROVE c[m + i] = b[i]
  <2>1. i - 1 \in 1..(n - 1) /\ (i - 1) + 1 = i /\ (1 + m) + (i - 1) = m + i
    OBVIOUS
  <2> QED  BY <1>7, <1>11, <2>1
<1> QED  BY <1>4, <1>5, <1>11, <1>12, <1>13 DEF JoinsBehind

(* Where each statement comes from: with a first expression statement, the *)
(* fields are behind it, and else in front of all.                         *)
Whence(f, h, m, n) ==
  LET first == TypeOf(f.slots[1]) = "Expr"
  IN /\ DOMAIN f.fields = 1..m /\ DOMAIN f.slots = 1..n /\ DOMAIN h = 1..(m + n)
     /\ \A i \in 1..m : h[IF first THEN i + 1 ELSE i] = f.fields[i]
     /\ \A i \in 1..n : h[IF first /\ i = 1 THEN 1 ELSE m + i] = f.slots[i]

LEMMA HoistedFrom ==
  ASSUME NEW f, FrameTyped(f)
  PROVE  \E m \in Nat, n \in Nat \ {0} : Whence(f, Hoisted(f), m, n)
<1>1. PICK a : a = f.fields
  OBVIOUS
<1>2. PICK b : b = f.slots
  OBVIOUS
<1>3. PICK h : h = Hoisted(f)
  OBVIOUS
<1>4. IsList(a) /\ IsList(b) /\ b # <<>>
  BY <1>1, <1>2 DEF FrameTyped
<1>5. PICK m \in Nat : m = Len(a) /\ DOMAIN a = 1..m
  BY <1>4, ListLength
<1>6. PICK n \in Nat \ {0} : n = Len(b) /\ DOMAIN b = 1..n
  BY <1>4, ListLength
<1> DEFINE first == TypeOf(b[1]) = "Expr"
<1>7. SUFFICES /\ DOMAIN h = 1..(m + n)
               /\ \A i \in 1..m : h[IF first THEN i + 1 ELSE i] = a[i]
               /\ \A i \in 1..n : h[IF first /\ i = 1 THEN 1 ELSE m + i] = b[i]
  <2>1. Whence(f, h, m, n)
    BY <1>1, <1>2, <1>5, <1>6, <1>7 DEF Whence
  <2> QED  BY <1>3, <2>1
<1>8. CASE a = <<>>
  <2>1. h = b /\ m = 0
    BY <1>1, <1>2, <1>3, <1>5, <1>8, NoElement DEF Hoisted
  <2> QED  BY <1>6, <2>1
<1>9. CASE a # <<>> /\ first
  <2>1. h = <<b[1]>> \o a \o Tail(b)
    BY <1>1, <1>2, <1>3, <1>9 DEF Hoisted
  <2>2. JoinsBehind(h, a, b)
    BY <1>4, <2>1, FieldsBehindFirst
  <2>3. /\ IsList(h) /\ Len(h) = m + n /\ h[1] = b[1]
        /\ \A i \in 1..m : h[i + 1] = a[i]
        /\ \A i \in 2..n : h[m + i] = b[i]
    BY <1>5, <1>6, <2>2 DEF JoinsBehind
  <2>4. DOMAIN h = 1..(m + n)
    BY <2>3, ListLength
  <2> QED  BY <1>9, <2>3, <2>4
<1>10. CASE a # <<>> /\ ~first
  <2>1. h = a \o b
    BY <1>1, <1>2, <1>3, <1>10 DEF Hoisted
  <2>2. Joins(h, a, b)
    BY <1>4, <2>1, Joined
  <2>3. /\ IsList(h) /\ Len(h) = m + n
        /\ \A i \in 1..m : h[i] = a[i]
        /\ \A i \in 1..n : h[m + i] = b[i]
    BY <1>5, <1>6, <2>2 DEF Joins
  <2>4. DOMAIN h = 1..(m + n)
    BY <2>3, ListLength
  <2> QED  BY <1>10, <2>3, <2>4
<1> QED  BY <1>8, <1>9, <1>10

(* A statement of the chain is a field or a slot.                          *)
FieldOrSlot(f, h, m, n, i) ==
  LET first == TypeOf(f.slots[1]) = "Expr"
  IN \/ \E k \in 1..m : i = (IF first THEN k + 1 ELSE k) /\ h[i] = f.fields[k]
     \/ \E k \in 1..n : i = (IF first /\ k = 1 THEN 1 ELSE m + k) /\ h[i] = f.slots[k]

LEMMA HoistedOrigin ==
  ASSUME NEW f, NEW h, NEW m \in Nat, NEW n \in Nat \ {0}, Whence(f, h, m, n),
         NEW i \in DOMAIN h
  PROVE  FieldOrSlot(f, h, m, n, i)
<1> DEFINE first == TypeOf(f.slots[1]) = "Expr"
<1>1. /\ i \in 1..(m + n)
      /\ \A k \in 1..m : h[IF first THEN k + 1 ELSE k] = f.fields[k]
      /\ \A k \in 1..n : h[IF first /\ k = 1 THEN 1 ELSE m + k] = f.slots[k]
  BY DEF Whence
<1> HIDE DEF first, FieldOrSlot
<1>2. CASE first /\ i = 1
  <2>1. 1 \in 1..n /\ h[1] = f.slots[1]
    BY <1>1, <1>2
  <2> QED  BY <1>2, <2>1 DEF first, FieldOrSlot
<1>3. CASE first /\ i \in 2..(m + 1)
  <2>1. i - 1 \in 1..m /\ (i - 1) + 1 = i
    BY <1>3
  <2>2. h[i] = f.fields[i - 1]
    BY <1>1, <1>3, <2>1
  <2> QED  BY <1>3, <2>1, <2>2 DEF first, FieldOrSlot
<1>4. CASE ~first /\ i \in 1..m
  <2>1. h[i] = f.fields[i]
    BY <1>1, <1>4
  <2> QED  BY <1>4, <2>1 DEF first, FieldOrSlot
<1>5. CASE i > m /\ ~(first /\ i <= m + 1)
  <2>1. i - m \in 1..n /\ m + (i - m) = i /\ ~(first /\ i - m = 1)
    BY <1>1, <1>5
  <2>2. h[i] = f.slots[i - m]
    BY <1>1, <2>1
  <2> QED  BY <2>1, <2>2 DEF first, FieldOrSlot
<1> QED  BY <1>1, <1>2, <1>3, <1>4, <1>5

LEMMA HoistedMembers ==
  ASSUME NEW f, FrameTyped(f), NEW i \in DOMAIN Hoisted(f)
  PROVE  \/ TypeOf(Hoisted(f)[i]) = "Expr"
         \/ \E k \in DOMAIN f.slots : Hoisted(f)[i] = f.slots[k]
<1>1. PICK m \in Nat, n \in Nat \ {0} : Whence(f, Hoisted(f), m, n)
  BY HoistedFrom
<1>2. \/ \E k \in 1..m : Hoisted(f)[i] = f.fields[k]
      \/ \E k \in 1..n : Hoisted(f)[i] = f.slots[k]
  <2>1. FieldOrSlot(f, Hoisted(f), m, n, i)
    BY <1>1, HoistedOrigin
  <2> QED  BY <2>1 DEF FieldOrSlot
<1>3. DOMAIN f.fields = 1..m /\ DOMAIN f.slots = 1..n
  BY <1>1 DEF Whence
<1> QED  BY <1>2, <1>3 DEF FrameTyped

LEMMA HoistedOnce ==
  ASSUME NEW f, FrameTyped(f), EachOnce(f.slots)
  PROVE  EachOnce(Hoisted(f))
<1>1. PICK h : h = Hoisted(f)
  OBVIOUS
<1>2. PICK m \in Nat, n \in Nat \ {0} : Whence(f, h, m, n)
  BY <1>1, HoistedFrom
<1>3. DOMAIN f.fields = 1..m /\ DOMAIN f.slots = 1..n
  BY <1>2 DEF Whence
<1> DEFINE first == TypeOf(f.slots[1]) = "Expr"
           Slot(i, k) == i = (IF first /\ k = 1 THEN 1 ELSE m + k) /\ h[i] = f.slots[k]
<1>4. \A i \in DOMAIN h : TypeOf(h[i]) \in Sections => \E k \in 1..n : Slot(i, k)
  <2> SUFFICES ASSUME NEW i \in DOMAIN h, TypeOf(h[i]) \in Sections PROVE \E k \in 1..n : Slot(i, k)
    OBVIOUS
  <2>1. \A k \in 1..m : TypeOf(f.fields[k]) \notin Sections
    BY <1>3 DEF FrameTyped, Sections
  <2>2. \/ \E k \in 1..m : i = (IF first THEN k + 1 ELSE k) /\ h[i] = f.fields[k]
        \/ \E k \in 1..n : Slot(i, k)
    <3>1. FieldOrSlot(f, h, m, n, i)
      BY <1>2, HoistedOrigin
    <3> QED  BY <3>1 DEF FieldOrSlot
  <2> QED  BY <2>1, <2>2
<1>5. ASSUME NEW i \in DOMAIN h, NEW j \in DOMAIN h,
             TypeOf(h[i]) \in Sections, TypeOf(h[j]) = TypeOf(h[i])
      PROVE  i = j
  <2>1. PICK k \in 1..n : Slot(i, k)
    BY <1>4, <1>5
  <2>2. PICK l \in 1..n : Slot(j, l)
    BY <1>4, <1>5
  <2>3. k = l
    BY <1>3, <1>5, <2>1, <2>2 DEF EachOnce
  <2> QED  BY <2>1, <2>2, <2>3
<1> QED  BY <1>1, <1>5 DEF EachOnce

LEMMA HoistedLeads ==
  ASSUME NEW f, FrameTyped(f), Led(f)
  PROVE  FieldsLead(Hoisted(f))
<1>1. PICK h : h = Hoisted(f)
  OBVIOUS
<1>2. PICK m \in Nat, n \in Nat \ {0} : Whence(f, h, m, n)
  BY <1>1, HoistedFrom
<1> DEFINE first == TypeOf(f.slots[1]) = "Expr"
<1>3. /\ DOMAIN f.fields = 1..m /\ DOMAIN f.slots = 1..n /\ DOMAIN h = 1..(m + n)
      /\ \A i \in 1..m : h[IF first THEN i + 1 ELSE i] = f.fields[i]
      /\ \A i \in 1..n : h[IF first /\ i = 1 THEN 1 ELSE m + i] = f.slots[i]
  BY <1>2 DEF Whence
<1>4. \A k \in 1..m : TypeOf(f.fields[k]) = "Expr"
  BY <1>3 DEF FrameTyped
<1> SUFFICES ASSUME NEW i \in DOMAIN h, NEW j \in DOMAIN h, i < j, TypeOf(h[j]) = "Expr"
             PROVE  TypeOf(h[i]) = "Expr"
  BY <1>1 DEF FieldsLead
<1>5. CASE f.slots = <<NULL>> /\ f.fields = <<>>
  <2>1. m = 0 /\ n = 1
    BY <1>3, <1>5
  <2> QED  BY <1>3, <2>1
<1>6. CASE \A k \in DOMAIN f.slots : k > 1 => TypeOf(f.slots[k]) # "Expr"
  <2>a. ASSUME NEW k \in 1..n, TypeOf(f.slots[k]) = "Expr" PROVE k = 1
    <3>1. DOMAIN f.slots = 1..n
      BY <1>3
    <3>2. ~(k > 1)
      BY <1>6, <2>a, <3>1
    <3> QED  BY <3>2
  <2>1. \/ \E k \in 1..m : j = (IF first THEN k + 1 ELSE k) /\ h[j] = f.fields[k]
        \/ \E k \in 1..n : j = (IF first /\ k = 1 THEN 1 ELSE m + k) /\ h[j] = f.slots[k]
    <3>1. FieldOrSlot(f, h, m, n, j)
      BY <1>2, HoistedOrigin
    <3> QED  BY <3>1 DEF FieldOrSlot
  <2>2. CASE first
    <3>1. j \in 2..(m + 1)
      <4>1. ASSUME NEW k \in 1..n, j = (IF first /\ k = 1 THEN 1 ELSE m + k), h[j] = f.slots[k]
            PROVE  FALSE
        <5>1. k = 1
          BY <2>a, <4>1
        <5> QED  BY <1>3, <2>2, <4>1, <5>1
      <4>2. PICK k \in 1..m : j = k + 1
        BY <2>1, <2>2, <4>1
      <4> QED  BY <4>2
    <3>2. CASE i = 1
      BY <1>3, <2>2, <3>2
    <3>3. CASE i # 1
      <4>1. i - 1 \in 1..m /\ (i - 1) + 1 = i
        BY <1>3, <3>1, <3>3
      <4> QED  BY <1>3, <1>4, <2>2, <4>1
    <3> QED  BY <3>2, <3>3
  <2>3. CASE ~first
    <3>1. j \in 1..m
      <4>1. \A k \in 1..n : TypeOf(f.slots[k]) # "Expr"
        BY <2>a, <2>3
      <4> QED  BY <2>1, <2>3, <4>1
    <3>2. i \in 1..m
      BY <1>3, <3>1
    <3> QED  BY <1>3, <1>4, <2>3, <3>2
  <2> QED  BY <2>2, <2>3
<1> QED  BY <1>5, <1>6 DEF Led

-----------------------------------------------------------------------------
(* The node of a name block that is over.                                  *)

LEMMA UnitWhole ==
  ASSUME NEW f, FrameTyped(f), f.owner = Node("Name_Statement_Decl", f.owner[2], NULL, NULL),
         NEW mark
  PROVE  LET w == Whole(f, mark)
         IN /\ w # NULL /\ IsUnit(w)
            /\ mark = "Error" \/ EachOnce(f.slots) => UnitSound(w)
            /\ Led(f) => UnitLed(w)
<1> DEFINE chain == Chain(f.type, mark, Hoisted(f))
           w == Whole(f, mark)
<1>1. f.owner # NULL /\ f.owner[1] = "Name_Statement_Decl" /\ f.owner[3] = NULL
  <2>1. HasParts(f.owner, "Name_Statement_Decl", f.owner[2], NULL, NULL)
    BY NodeParts
  <2> QED  BY <2>1 DEF HasParts
<1>2. chain[2] = mark /\ chain[4] = Hoisted(f)
  <2>1. HasParts(chain, f.type, mark, NULL, Hoisted(f))
    BY NodeParts DEF Chain
  <2> QED  BY <2>1 DEF HasParts
<1> HIDE DEF chain
<1>3. w = Node("Name_Statement_Decl", f.owner[2], NULL, chain)
  BY <1>1 DEF Whole, chain
<1> HIDE DEF w
<1>4. w # NULL /\ TypeOf(w) = "Name_Statement_Decl" /\ w[4] = chain
  BY <1>3, NodeParts DEF HasParts
<1>5. IsUnit(w) /\ w[4][2] = mark /\ Items(w[4]) = Hoisted(f)
  BY <1>2, <1>4 DEF IsUnit, Items
<1>6. ASSUME mark = "Error" \/ EachOnce(f.slots) PROVE UnitSound(w)
  BY <1>5, <1>6, HoistedOnce DEF UnitSound
<1>7. ASSUME Led(f) PROVE UnitLed(w)
  BY <1>5, <1>7, HoistedLeads DEF UnitLed
<1> QED  BY <1>4, <1>5, <1>6, <1>7 DEF w

(* The slots behind a statement are those before, and it.                  *)
LEMMA SlotsAfter ==
  ASSUME NEW f, FrameTyped(f), NEW n, NEW i \in DOMAIN Placed(f, n).slots
  PROVE  Placed(f, n).slots[i] = n \/ \E j \in DOMAIN f.slots : Placed(f, n).slots[i] = f.slots[j]
<1>1. PICK p : p = Placed(f, n)
  OBVIOUS
<1>2. p.slots = f.slots \/ p.slots = Put(f.slots, n)
  BY <1>1, PlacedOnce
<1>3. CASE p.slots = f.slots
  BY <1>1, <1>3
<1>4. CASE p.slots = Put(f.slots, n)
  <2>1. IsList(f.slots) /\ f.slots # <<>>
    BY DEF FrameTyped
  <2>2. Put(f.slots, n)[i] = n \/ (i \in DOMAIN f.slots /\ Put(f.slots, n)[i] = f.slots[i])
    BY <1>1, <1>4, <2>1, SlotPut
  <2> QED  BY <1>1, <1>4, <2>2
<1> QED  BY <1>2, <1>3, <1>4

-----------------------------------------------------------------------------
(* The stack of open blocks.                                               *)

Owned(k, f) ==
  /\ k \in {1, 3} => f.owner = NULL
  /\ k = 2 => f.owner = Node("Name_Statement_Decl", f.owner[2], NULL, NULL)
  /\ k > 3 => f.owner[1] # "Name_Statement_Decl"

Nested(s) ==
  /\ IsList(s) /\ s # <<>>
  /\ \A k \in DOMAIN s : FrameTyped(s[k]) /\ s[k].type \in BlocksAt(k) /\ Owned(k, s[k])

(* Sections are noted, and once in the name blocks that are over.          *)
Held(s) ==
  /\ \A i \in DOMAIN s[1].slots : UnitSound(s[1].slots[i])
  /\ 2 \in DOMAIN s => Noted(s[2])

(* Fields are first in the open blocks and in the name blocks that are over. *)
FieldsHeld(s) ==
  /\ \A i \in DOMAIN s[1].slots : UnitLed(s[1].slots[i])
  /\ \A k \in DOMAIN s \cap {1, 2} : Led(s[k])

Changed(t, s, g) ==
  /\ Nested(t) /\ Len(t) = Len(s)
  /\ \A i \in DOMAIN s : t[i] = IF i = Len(s) THEN g ELSE s[i]

LEMMA NestedLength ==
  ASSUME NEW s, Nested(s)
  PROVE  IsList(s) /\ Len(s) \in Nat \ {0} /\ DOMAIN s = 1..Len(s) /\ 1 \in DOMAIN s
BY ListLength DEF Nested

LEMMA LastTyped ==
  ASSUME NEW s, Nested(s)
  PROVE  /\ Last(s) = s[Len(s)] /\ FrameTyped(Last(s)) /\ Last(s).type \in BlocksAt(Len(s))
         /\ Owned(Len(s), Last(s))
BY NestedLength DEF Nested, Last

(* The innermost block in another state.                                   *)
LEMMA Replaced ==
  ASSUME NEW s, Nested(s), NEW g, FrameTyped(g),
         g.type = Last(s).type, g.owner = Last(s).owner
  PROVE  Changed(Append(Front(s), g), s, g)
<1>1. PICK t : t = Append(Front(s), g)
  OBVIOUS
<1>2. PICK n \in Nat \ {0} : n = Len(s) /\ DOMAIN s = 1..n
  BY NestedLength
<1>3. IsList(s) /\ s # <<>>
  BY DEF Nested
<1>4. IsList(Front(s)) /\ Len(Front(s)) = n - 1 /\ \A i \in 1..(n - 1) : Front(s)[i] = s[i]
  BY <1>2, <1>3, Shortened
<1>5. /\ IsList(t) /\ Len(t) = (n - 1) + 1 /\ t[(n - 1) + 1] = g
      /\ \A i \in 1..(n - 1) : t[i] = Front(s)[i]
  BY <1>1, <1>4, Appended
<1>6. Len(t) = n /\ t[n] = g /\ \A i \in 1..(n - 1) : t[i] = s[i]
  BY <1>4, <1>5
<1>7. t # <<>> /\ DOMAIN t = 1..n
  BY <1>5, <1>6, ListLength
<1>8. Last(s) = s[n]
  BY <1>2 DEF Last
<1>9. ASSUME NEW k \in DOMAIN t PROVE FrameTyped(t[k]) /\ t[k].type \in BlocksAt(k) /\ Owned(k, t[k])
  <2>1. FrameTyped(s[k]) /\ s[k].type \in BlocksAt(k) /\ Owned(k, s[k])
    BY <1>2, <1>7 DEF Nested
  <2>2. CASE k = n
    BY <1>6, <1>8, <2>1, <2>2 DEF Owned
  <2>3. CASE k # n
    BY <1>6, <1>7, <2>1, <2>3
  <2> QED  BY <2>2, <2>3
<1> QED  BY <1>1, <1>2, <1>5, <1>6, <1>7, <1>9 DEF Changed, Nested

(* Without the innermost block.                                            *)
LEMMA Removed ==
  ASSUME NEW s, Nested(s), Len(s) > 1
  PROVE  /\ Nested(Front(s)) /\ Len(Front(s)) = Len(s) - 1
         /\ \A i \in DOMAIN Front(s) : i \in DOMAIN s /\ Front(s)[i] = s[i]
<1>1. PICK t : t = Front(s)
  OBVIOUS
<1>2. PICK n \in Nat \ {0} : n = Len(s) /\ DOMAIN s = 1..n
  BY NestedLength
<1>3. IsList(t) /\ Len(t) = n - 1 /\ \A i \in 1..(n - 1) : t[i] = s[i]
  BY <1>1, <1>2, Shortened DEF Nested
<1>4. t # <<>> /\ DOMAIN t = 1..(n - 1)
  BY <1>2, <1>3, ListLength
<1>5. \A i \in DOMAIN t : i \in DOMAIN s /\ t[i] = s[i]
  BY <1>2, <1>3, <1>4
<1>6. Nested(t)
  BY <1>3, <1>4, <1>5 DEF Nested
<1> QED  BY <1>1, <1>2, <1>3, <1>5, <1>6

(* With one more.                                                          *)
LEMMA Pushed ==
  ASSUME NEW s, Nested(s), NEW g, FrameTyped(g),
         g.type \in BlocksAt(Len(s) + 1), Owned(Len(s) + 1, g)
  PROVE  /\ Nested(Append(s, g)) /\ Len(Append(s, g)) = Len(s) + 1
         /\ Append(s, g)[Len(s) + 1] = g
         /\ \A i \in DOMAIN s : i \in DOMAIN Append(s, g) /\ Append(s, g)[i] = s[i]
<1>1. PICK t : t = Append(s, g)
  OBVIOUS
<1>2. PICK n \in Nat \ {0} : n = Len(s) /\ DOMAIN s = 1..n
  BY NestedLength
<1>3. IsList(t) /\ Len(t) = n + 1 /\ t[n + 1] = g /\ \A i \in 1..n : t[i] = s[i]
  BY <1>1, <1>2, Appended DEF Nested
<1>4. t # <<>> /\ DOMAIN t = 1..(n + 1)
  BY <1>2, <1>3, ListLength
<1>5. ASSUME NEW k \in DOMAIN t PROVE FrameTyped(t[k]) /\ t[k].type \in BlocksAt(k) /\ Owned(k, t[k])
  <2>1. CASE k = n + 1
    BY <1>2, <1>3, <2>1
  <2>2. CASE k \in 1..n
    BY <1>2, <1>3, <2>2 DEF Nested
  <2> QED  BY <1>4, <2>1, <2>2
<1>6. Nested(t)
  BY <1>3, <1>4, <1>5 DEF Nested
<1> QED  BY <1>1, <1>2, <1>3, <1>4, <1>6

LEMMA BlockDepths ==
  ASSUME NEW k \in Nat \ {0}, NEW type \in BlocksAt(k)
  PROVE  /\ type = Module <=> k = 1
         /\ type = Unit <=> k = 2
         /\ type \in Sections <=> k = 3
         /\ type \in Sections \cup Branches <=> k > 2
<1>1. CASE k = 1
  BY <1>1 DEF BlocksAt, Module, Unit, Sections, Branches
<1>2. CASE k = 2
  BY <1>2 DEF BlocksAt, Module, Unit, Sections, Branches
<1>3. CASE k = 3
  BY <1>3 DEF BlocksAt, Module, Unit, Sections, Branches
<1>4. CASE k > 3
  BY <1>4 DEF BlocksAt, Module, Unit, Sections, Branches
<1> QED  BY <1>1, <1>2, <1>3, <1>4

-----------------------------------------------------------------------------
(* A statement is delivered.                                               *)

Second(s, n) == Last(s).type = Unit /\ TypeOf(n) \in Last(s).has

(* A second section of a kind: the name block is over, and in the module.  *)
LEMMA SecondDelivered ==
  ASSUME NEW s, Nested(s), NEW n, Second(s, n)
  PROVE  LET w == Whole(Placed(s[2], n), "Error")
             g == Placed(s[1], w)
         IN /\ Len(s) = 2 /\ s[1].type = Module /\ s[2].type = Unit
            /\ w # NULL /\ UnitSound(w) /\ (Led(Placed(s[2], n)) => UnitLed(w))
            /\ FrameTyped(g) /\ g.type = Module
            /\ Nested(Delivered(s, n)) /\ Len(Delivered(s, n)) = 1 /\ Delivered(s, n)[1] = g
<1> DEFINE p == Placed(s[2], n)
           w == Whole(p, "Error")
           g == Placed(s[1], w)
           up == Front(s)
<1>1. Len(s) \in Nat \ {0} /\ DOMAIN s = 1..Len(s)
  BY NestedLength
<1>2. \A k \in DOMAIN s : FrameTyped(s[k]) /\ s[k].type \in BlocksAt(k) /\ Owned(k, s[k])
  BY DEF Nested
<1>3. Last(s) = s[Len(s)] /\ s[Len(s)].type = Unit
  BY DEF Second, Last
<1>4. Len(s) = 2
  BY <1>1, <1>2, <1>3, BlockDepths
<1>5. s[1].type = Module /\ s[2].type = Unit
  BY <1>1, <1>2, <1>3, <1>4, BlockDepths
<1>6. FrameTyped(p) /\ p.owner = s[2].owner
  BY <1>1, <1>2, <1>4, PlacedOnce
<1>7. p.owner = Node("Name_Statement_Decl", p.owner[2], NULL, NULL)
  BY <1>1, <1>2, <1>4, <1>6 DEF Owned
<1> HIDE DEF p
<1>8. w # NULL /\ UnitSound(w) /\ (Led(p) => UnitLed(w))
  BY <1>6, <1>7, UnitWhole
<1> HIDE DEF w
<1>9. FrameTyped(g) /\ g.type = s[1].type /\ g.owner = s[1].owner
  BY <1>1, <1>2, <1>4, PlacedOnce
<1>10. Nested(up) /\ Len(up) = 1 /\ up[1] = s[1]
  <2>1. Len(s) > 1
    BY <1>4
  <2>2. Nested(up) /\ Len(up) = Len(s) - 1
    BY <2>1, Removed
  <2>3. \A i \in DOMAIN up : up[i] = s[i]
    BY <2>1, Removed
  <2> HIDE DEF up
  <2>4. Len(up) = 1 /\ 1 \in DOMAIN up
    BY <1>4, <2>2, NestedLength
  <2> QED  BY <2>2, <2>3, <2>4
<1>11. Delivered(s, n) = Append(Front(up), Placed(Last(up), w))
  BY <1>3, <1>4 DEF Delivered, Second, w, p
<1> HIDE DEF up, g
<1>12. Last(up) = s[1]
  BY <1>10 DEF Last
<1>13. Changed(Delivered(s, n), up, g)
  BY <1>9, <1>10, <1>11, <1>12, Replaced DEF g
<1>14. Nested(Delivered(s, n)) /\ Len(Delivered(s, n)) = 1 /\ Delivered(s, n)[1] = g
  BY <1>10, <1>13, NestedLength DEF Changed
<1> QED  BY <1>4, <1>5, <1>8, <1>9, <1>14 DEF g, w, p

LEMMA FirstDelivered ==
  ASSUME NEW s, Nested(s), NEW n, ~Second(s, n)
  PROVE  /\ FrameTyped(Taken(Last(s), n))
         /\ Changed(Delivered(s, n), s, Taken(Last(s), n))
<1> DEFINE f == Last(s)
           g == Taken(f, n)
<1>1. FrameTyped(f)
  BY NestedLength DEF Nested, Last
<1>2. FrameTyped(g) /\ g.type = f.type /\ g.owner = f.owner
  BY <1>1, TakenOnce
<1>3. Delivered(s, n) = Append(Front(s), g)
  BY DEF Delivered, Second, Taken
<1> HIDE DEF g
<1>4. Changed(Append(Front(s), g), s, g)
  BY <1>2, Replaced
<1> QED  BY <1>2, <1>3, <1>4 DEF g

(* What a frame is after its statement, of module and name block.          *)
LEMMA DeliveredHeld ==
  ASSUME NEW s, Nested(s), Held(s), NEW n, UnitSound(n)
  PROVE  Nested(Delivered(s, n)) /\ Held(Delivered(s, n))
<1> DEFINE d == Delivered(s, n)
<1>1. Len(s) \in Nat \ {0} /\ DOMAIN s = 1..Len(s) /\ Last(s) = s[Len(s)]
  BY NestedLength DEF Last
<1>2. \A k \in DOMAIN s : FrameTyped(s[k]) /\ s[k].type \in BlocksAt(k)
  BY DEF Nested
<1>3. CASE Second(s, n)
  <2> DEFINE w == Whole(Placed(s[2], n), "Error")
             g == Placed(s[1], w)
  <2>1. UnitSound(w) /\ Nested(d) /\ Len(d) = 1 /\ d[1] = g
    BY <1>3, SecondDelivered
  <2> HIDE DEF w, d
  <2>2. \A i \in DOMAIN g.slots : g.slots[i] = w \/ \E j \in DOMAIN s[1].slots : g.slots[i] = s[1].slots[j]
    BY <1>1, <1>2, SlotsAfter
  <2>3. \A i \in DOMAIN g.slots : UnitSound(g.slots[i])
    BY <2>1, <2>2 DEF Held
  <2>4. 2 \notin DOMAIN d
    BY <2>1, NestedLength
  <2> QED  BY <2>1, <2>3, <2>4 DEF Held, d
<1>4. CASE ~Second(s, n)
  <2> DEFINE f == Last(s)
             g == Taken(f, n)
  <2>1. Changed(d, s, g)
    BY <1>4, FirstDelivered
  <2>2. Nested(d) /\ DOMAIN d = DOMAIN s /\ \A i \in DOMAIN s : d[i] = IF i = Len(s) THEN g ELSE s[i]
    BY <1>1, <2>1, NestedLength DEF Changed
  <2>3. FrameTyped(f) /\ g.slots = Placed(f, n).slots
    BY <1>1, <1>2, TakenOnce
  <2> HIDE DEF d, g
  <2>4. ASSUME NEW i \in DOMAIN d[1].slots PROVE UnitSound(d[1].slots[i])
    <3>1. CASE Len(s) = 1
      <4>1. d[1] = g /\ f = s[1]
        BY <1>1, <2>2, <3>1
      <4>2. g.slots[i] = n \/ \E j \in DOMAIN f.slots : g.slots[i] = f.slots[j]
        BY <2>3, <2>4, <4>1, SlotsAfter
      <4> QED  BY <4>1, <4>2 DEF Held
    <3>2. CASE Len(s) # 1
      BY <1>1, <2>2, <2>4, <3>2 DEF Held
    <3> QED  BY <3>1, <3>2
  <2>5. ASSUME 2 \in DOMAIN d PROVE Noted(d[2])
    <3>1. 2 \in DOMAIN s /\ Noted(s[2])
      BY <2>2, <2>5 DEF Held
    <3>2. CASE Len(s) = 2
      <4>1. d[2] = g /\ f = s[2]
        BY <1>1, <2>2, <3>1, <3>2
      <4>2. f.type = Unit
        BY <1>2, <3>1, <4>1, BlockDepths
      <4>3. TypeOf(n) \notin f.has
        BY <1>4, <4>2 DEF Second
      <4> QED  BY <2>3, <3>1, <4>1, <4>3, NotedFurther DEF g
    <3>3. CASE Len(s) # 2
      BY <2>2, <3>1, <3>3
    <3> QED  BY <3>2, <3>3
  <2> QED  BY <2>2, <2>4, <2>5 DEF Held, d
<1> QED  BY <1>3, <1>4

LEMMA DeliveredFields ==
  ASSUME NEW s, Nested(s), FieldsHeld(s), NEW n, n # NULL, UnitLed(n)
  PROVE  FieldsHeld(Delivered(s, n))
<1> DEFINE d == Delivered(s, n)
<1>1. Len(s) \in Nat \ {0} /\ DOMAIN s = 1..Len(s) /\ Last(s) = s[Len(s)]
  BY NestedLength DEF Last
<1>2. \A k \in DOMAIN s : FrameTyped(s[k]) /\ s[k].type \in BlocksAt(k)
  BY DEF Nested
<1>3. CASE Second(s, n)
  <2> DEFINE p == Placed(s[2], n)
             w == Whole(p, "Error")
             g == Placed(s[1], w)
  <2>1. /\ Len(s) = 2 /\ s[1].type = Module /\ s[2].type = Unit
        /\ w # NULL /\ (Led(p) => UnitLed(w))
        /\ Nested(d) /\ Len(d) = 1 /\ d[1] = g
    BY <1>3, SecondDelivered
  <2> HIDE DEF w, d
  <2>2. FrameTyped(s[1]) /\ Led(s[1]) /\ FrameTyped(s[2]) /\ Led(s[2])
    BY <1>1, <1>2, <2>1 DEF FieldsHeld
  <2>3. UnitLed(w)
    BY <2>1, <2>2, LedFurther
  <2>4. Led(g)
    BY <2>1, <2>2, LedFurther
  <2>5. \A i \in DOMAIN g.slots : g.slots[i] = w \/ \E j \in DOMAIN s[1].slots : g.slots[i] = s[1].slots[j]
    BY <2>2, SlotsAfter
  <2>6. \A i \in DOMAIN g.slots : UnitLed(g.slots[i])
    BY <2>3, <2>5 DEF FieldsHeld
  <2>7. DOMAIN d = {1}
    BY <2>1, NestedLength
  <2> QED  BY <2>1, <2>4, <2>6, <2>7 DEF FieldsHeld, d
<1>4. CASE ~Second(s, n)
  <2> DEFINE f == Last(s)
             g == Taken(f, n)
  <2>1. Changed(d, s, g)
    BY <1>4, FirstDelivered
  <2>2. DOMAIN d = DOMAIN s /\ \A i \in DOMAIN s : d[i] = IF i = Len(s) THEN g ELSE s[i]
    BY <1>1, <2>1, NestedLength DEF Changed
  <2>3. FrameTyped(f) /\ g.slots = Placed(f, n).slots /\ g.fields = Placed(f, n).fields
    BY <1>1, <1>2, TakenOnce
  <2> HIDE DEF d, g
  <2>4. ASSUME NEW i \in DOMAIN d[1].slots PROVE UnitLed(d[1].slots[i])
    <3>1. CASE Len(s) = 1
      <4>1. d[1] = g /\ f = s[1]
        BY <1>1, <2>2, <3>1
      <4>2. g.slots[i] = n \/ \E j \in DOMAIN f.slots : g.slots[i] = f.slots[j]
        BY <2>3, <2>4, <4>1, SlotsAfter
      <4> QED  BY <4>1, <4>2 DEF FieldsHeld
    <3>2. CASE Len(s) # 1
      BY <1>1, <2>2, <2>4, <3>2 DEF FieldsHeld
    <3> QED  BY <3>1, <3>2
  <2>5. ASSUME NEW k \in DOMAIN d \cap {1, 2} PROVE Led(d[k])
    <3>1. k \in DOMAIN s /\ Led(s[k]) /\ s[k].type \in {Module, Unit}
      BY <1>2, <2>2, <2>5, BlockDepths DEF FieldsHeld
    <3>2. CASE k = Len(s)
      <4>1. Led(Placed(f, n))
        BY <1>1, <2>3, <3>1, <3>2, LedFurther
      <4>2. Led(g)
        BY <2>3, <4>1 DEF Led
      <4> QED  BY <2>2, <3>1, <3>2, <4>2
    <3>3. CASE k # Len(s)
      BY <2>2, <3>1, <3>3
    <3> QED  BY <3>2, <3>3
  <2> QED  BY <2>4, <2>5 DEF FieldsHeld, d
<1> QED  BY <1>3, <1>4

-----------------------------------------------------------------------------
(* The invariant.  Fields are first as long as no token was dropped; when  *)
(* the loop of a name block spins, nothing was dropped, and no step but    *)
(* this one is left.                                                       *)

Inv ==
  /\ toks \in TokenLists /\ pos \in 1..(Len(toks) + 1)
  /\ stage \in {"parse", "hung", "crashed", "done"}
  /\ lost = [tokens |-> lost.tokens, ends |-> lost.ends]
  /\ lost.ends \in Nat /\ lost.tokens \in Seq(Members(toks)) /\ Len(lost.tokens) < pos
  /\ Nested(stack) /\ Held(stack)
  /\ lost.tokens = <<>> => FieldsHeld(stack) \/ (stage = "parse" /\ StartsNothing)
  /\ FieldsFirst /\ SectionsOnce

LEMMA Tokens ==
  ASSUME toks \in TokenLists
  PROVE  toks \in Seq(Members(toks)) /\ Len(toks) \in Nat /\ DOMAIN toks = 1..Len(toks)
<1>1. toks \in Seq(Members(toks))
  BY ReadersAssumption DEF Members
<1> QED  BY <1>1, LenProperties

LEMMA InvInit ==
  Init => Inv
<1> SUFFICES ASSUME Init PROVE Inv
  OBVIOUS
<1> DEFINE f == Frame(Module, NULL)
<1>1. Len(toks) \in Nat
  BY Tokens DEF Init
<1>2. FrameTyped(f) /\ f.type = Module /\ f.owner = NULL /\ Noted(f) /\ Led(f) /\ f.slots = <<NULL>>
  BY FrameStarts
<1> HIDE DEF f
<1>3. stack = <<f>>
  BY DEF Init, f
<1>4. IsList(stack) /\ stack # <<>> /\ DOMAIN stack = {1} /\ stack[1] = f
  BY <1>3, Single, ListLength
<1>5. Module \in BlocksAt(1)
  BY DEF BlocksAt
<1>6. Nested(stack)
  BY <1>2, <1>4, <1>5 DEF Nested, Owned
<1>7. f.slots[1] = NULL /\ DOMAIN f.slots = {1} /\ ~IsUnit(NULL)
  BY <1>2, Single, ListLength DEF IsUnit, TypeOf
<1>8. Held(stack) /\ FieldsHeld(stack)
  BY <1>2, <1>4, <1>7 DEF Held, FieldsHeld, UnitSound, UnitLed
<1>9. /\ toks \in TokenLists /\ pos = 1 /\ stage = "parse"
      /\ lost = [tokens |-> <<>>, ends |-> 0] /\ lost.tokens = <<>> /\ lost.ends = 0
  BY DEF Init
<1>10. lost.tokens \in Seq(Members(toks)) /\ Len(lost.tokens) = 0
  BY <1>9, EmptySeq
<1>11. FieldsFirst /\ SectionsOnce
  BY <1>9 DEF FieldsFirst, SectionsOnce
<1>12. lost = [tokens |-> lost.tokens, ends |-> lost.ends]
  BY <1>9
<1> QED  BY <1>1, <1>6, <1>8, <1>9, <1>10, <1>11, <1>12 DEF Inv

(* A statement is read from a position on.                                 *)
Reads(r, i) ==
  r.next \in {0} \cup i..(Len(toks) + 1) /\ r.node # NULL /\ ~IsUnit(r.node)

LEMMA InvStatement ==
  ASSUME Inv, stage = "parse", ~StartsNothing, NEW r, Statement(r), Reads(r, pos)
  PROVE  Inv'
<1> r.next \in {0} \cup pos..(Len(toks) + 1) /\ r.node # NULL /\ ~IsUnit(r.node)
  BY DEF Reads
<1>1. /\ UNCHANGED <<toks, tree, lost>> /\ pos \in 1..(Len(toks) + 1) /\ Len(lost.tokens) < pos
      /\ Nested(stack) /\ Held(stack) /\ (lost.tokens = <<>> => FieldsHeld(stack))
  BY DEF Inv, Statement
<1>2. Len(toks) \in Nat /\ Len(lost.tokens) \in Nat
  BY Tokens, LenProperties DEF Inv
<1>3. CASE r.next = 0
  <2>1. stage' = "hung" /\ pos' = pos /\ stack' = stack
    BY <1>3 DEF Statement
  <2>2. Nested(stack)' /\ Held(stack)' /\ (lost.tokens = <<>> => FieldsHeld(stack))'
    BY <1>1, <2>1 DEF Nested, Held, FieldsHeld
  <2>3. FieldsFirst' /\ SectionsOnce'
    BY <2>1 DEF FieldsFirst, SectionsOnce
  <2> QED  BY <1>1, <2>1, <2>2, <2>3 DEF Inv
<1>4. CASE r.next # 0
  <2>1. stage' = "parse" /\ pos' = r.next /\ stack' = Delivered(stack, r.node)
    BY <1>4 DEF Statement
  <2>2. Nested(Delivered(stack, r.node)) /\ Held(Delivered(stack, r.node))
    BY <1>1, DeliveredHeld DEF UnitSound
  <2>3. lost.tokens = <<>> => FieldsHeld(Delivered(stack, r.node))
    BY <1>1, DeliveredFields DEF UnitLed
  <2>4. Nested(stack)' /\ Held(stack)' /\ (lost.tokens = <<>> => FieldsHeld(stack))'
    BY <1>1, <2>1, <2>2, <2>3 DEF Nested, Held, FieldsHeld
  <2>5. FieldsFirst' /\ SectionsOnce'
    BY <2>1 DEF FieldsFirst, SectionsOnce
  <2>6. pos' \in 1..(Len(toks) + 1) /\ Len(lost.tokens) < pos'
    BY <1>1, <1>2, <1>4, <2>1
  <2> QED  BY <1>1, <2>1, <2>4, <2>5, <2>6 DEF Inv
<1> QED  BY <1>3, <1>4

(* A block is opened.                                                      *)
LEMMA InvOpen ==
  ASSUME Inv, stage = "parse", ~StartsNothing,
         NEW type, NEW owner, NEW next \in pos..(Len(toks) + 1), Open(type, owner, next),
         type \in BlocksAt(Len(stack) + 1), Owned(Len(stack) + 1, Frame(type, owner))
  PROVE  Inv'
<1> DEFINE f == Frame(type, owner)
           d == Append(stack, f)
<1>1. /\ UNCHANGED <<toks, tree, lost, stage>> /\ pos' = next /\ stack' = d
      /\ pos \in 1..(Len(toks) + 1) /\ Len(lost.tokens) < pos
      /\ Nested(stack) /\ Held(stack) /\ (lost.tokens = <<>> => FieldsHeld(stack))
  BY DEF Inv, Open
<1>2. Len(toks) \in Nat /\ Len(lost.tokens) \in Nat
  BY Tokens, LenProperties DEF Inv
<1>3. FrameTyped(f) /\ f.type = type /\ Noted(f) /\ Led(f)
  BY FrameStarts
<1> HIDE DEF f
<1>4. /\ Nested(d) /\ Len(d) = Len(stack) + 1 /\ d[Len(stack) + 1] = f
      /\ \A i \in DOMAIN stack : d[i] = stack[i]
  BY <1>1, <1>3, Pushed DEF f
<1> HIDE DEF d
<1>5. Len(stack) \in Nat \ {0} /\ DOMAIN stack = 1..Len(stack) /\ DOMAIN d = 1..(Len(stack) + 1)
  BY <1>1, <1>4, NestedLength
<1>6. ASSUME NEW k \in DOMAIN d, k # Len(stack) + 1 PROVE k \in DOMAIN stack /\ d[k] = stack[k]
  BY <1>4, <1>5, <1>6
<1>7. 1 \in DOMAIN stack /\ d[1] = stack[1]
  BY <1>4, <1>5
<1>8. Held(d)
  <2>1. 2 \in DOMAIN d => Noted(d[2])
    BY <1>1, <1>3, <1>4, <1>6 DEF Held
  <2> QED  BY <1>1, <1>7, <2>1 DEF Held
<1>9. FieldsHeld(stack) => FieldsHeld(d)
  <2> SUFFICES ASSUME FieldsHeld(stack) PROVE FieldsHeld(d)
    OBVIOUS
  <2>1. ASSUME NEW k \in DOMAIN d \cap {1, 2} PROVE Led(d[k])
    BY <1>3, <1>4, <1>6 DEF FieldsHeld
  <2> QED  BY <1>7, <2>1 DEF FieldsHeld
<1>10. Nested(stack)' /\ Held(stack)' /\ (lost.tokens = <<>> => FieldsHeld(stack))'
  BY <1>1, <1>4, <1>8, <1>9 DEF Nested, Held, FieldsHeld
<1>11. FieldsFirst' /\ SectionsOnce'
  BY <1>1 DEF FieldsFirst, SectionsOnce
<1>12. pos' \in 1..(Len(toks) + 1) /\ Len(lost.tokens) < pos'
  BY <1>1, <1>2
<1> QED  BY <1>1, <1>10, <1>11, <1>12 DEF Inv

(* Tokens are dropped, or none is and the loop spins.                      *)
LEMMA InvDropped ==
  ASSUME Inv, stage = "parse", NEW next \in pos..(Len(toks) + 1), Dropped(next),
         next = pos => StartsNothing
  PROVE  Inv'
<1> DEFINE gone == SubSeq(toks, pos, next - 1)
           told == lost.tokens \o gone
           d == Delivered(stack, NULL)
<1>1. /\ UNCHANGED <<toks, tree, stage>> /\ pos' = next /\ stack' = d
      /\ lost' = [lost EXCEPT !.tokens = told]
      /\ pos \in 1..(Len(toks) + 1) /\ lost.ends \in Nat
      /\ lost.tokens \in Seq(Members(toks)) /\ Len(lost.tokens) < pos
      /\ lost = [tokens |-> lost.tokens, ends |-> lost.ends]
      /\ Nested(stack) /\ Held(stack)
  BY DEF Inv, Dropped
<1>2. Len(toks) \in Nat /\ DOMAIN toks = 1..Len(toks) /\ Len(lost.tokens) \in Nat
  BY <1>1, Tokens, LenProperties DEF Inv
<1>3. /\ gone \in Seq(Members(toks)) /\ Len(gone) = next - pos
      /\ next = pos => gone = <<>>
  <2>1. pos \in Int /\ next - 1 \in Int /\ \A i \in pos..(next - 1) : toks[i] \in Members(toks)
    BY <1>1, <1>2 DEF Members
  <2>2. /\ gone \in Seq(Members(toks))
        /\ Len(gone) = IF pos <= next - 1 THEN next - 1 - pos + 1 ELSE 0
    BY <2>1, SubSeqProperties
  <2> HIDE DEF gone
  <2>3. Len(gone) = next - pos
    BY <1>1, <1>2, <2>2
  <2>4. next = pos => gone = <<>>
    BY <1>1, <1>2, <2>2, <2>3, EmptySeq
  <2> QED  BY <2>2, <2>3, <2>4
<1> HIDE DEF gone
<1>4. /\ told \in Seq(Members(toks)) /\ Len(told) = Len(lost.tokens) + (next - pos)
      /\ next = pos => told = lost.tokens
  <2>1. told \in Seq(Members(toks)) /\ Len(told) = Len(lost.tokens) + Len(gone)
    BY <1>1, <1>3, ConcatProperties
  <2>2. ASSUME next = pos PROVE told = lost.tokens
    <3>1. told = lost.tokens \o <<>>
      BY <1>3, <2>2
    <3> QED  BY <1>1, <3>1, ConcatEmptySeq
  <2> QED  BY <1>3, <2>1, <2>2
<1> HIDE DEF told
<1>5. /\ lost'.tokens = told /\ lost'.ends = lost.ends
      /\ lost' = [tokens |-> lost'.tokens, ends |-> lost'.ends]
  BY <1>1
<1>6. TypeOf(NULL) = "none"
  BY DEF TypeOf
<1>7. Nested(d) /\ Held(d)
  BY <1>1, <1>6, DeliveredHeld DEF UnitSound, IsUnit
<1>8. ASSUME told = <<>> PROVE StartsNothing'
  <2>1. Len(told) = 0
    BY <1>8, EmptySeq
  <2>2. next = pos
    BY <1>1, <1>2, <1>4, <2>1
  <2>3. StartsNothing
    BY <2>2
  <2>4. Len(stack) \in Nat \ {0} /\ DOMAIN stack = 1..Len(stack)
    BY <1>1, NestedLength
  <2>5. FrameTyped(Top)
    BY <1>1, <2>4 DEF Nested, Last, Top
  <2>6. ~Second(stack, NULL)
    BY <1>6, <2>5 DEF Second, FrameTyped, Sections, Top
  <2>7. Changed(d, stack, Taken(Top, NULL))
    BY <1>1, <2>6, FirstDelivered DEF Top
  <2>8. Last(d) = Taken(Top, NULL)
    BY <2>4, <2>7 DEF Changed, Last
  <2>9. Last(d).type = Top.type
    BY <2>5, <2>8, TakenOnce
  <2> HIDE DEF d
  <2> QED  BY <1>1, <2>2, <2>3, <2>9 DEF StartsNothing, In, Top
<1>9. Nested(stack)' /\ Held(stack)'
  BY <1>1, <1>7 DEF Nested, Held
<1>10. FieldsFirst' /\ SectionsOnce'
  BY <1>1 DEF FieldsFirst, SectionsOnce
<1>11. pos' \in 1..(Len(toks) + 1) /\ Len(told) < pos'
  BY <1>1, <1>2, <1>4
<1> QED  BY <1>1, <1>4, <1>5, <1>8, <1>9, <1>10, <1>11 DEF Inv

(* A block ends, and its node goes to the block around it.                 *)
LEMMA InvClose ==
  ASSUME Inv, stage = "parse", ~StartsNothing, NEW closed \in BOOLEAN,
         NEW next \in pos..(Len(toks) + 1), Close(closed, next), Top.type # Module
  PROVE  Inv'
<1> DEFINE node == IF closed \/ Top.type = Unit THEN Whole(Top, "") ELSE Error(NULL, Whole(Top, ""))
           s == Front(stack)
           d == Delivered(s, node)
           more == IF Top.type = Unit /\ ~closed THEN 1 ELSE 0
<1>1. /\ UNCHANGED <<toks, tree, stage>> /\ pos' = next /\ stack' = d
      /\ lost' = [lost EXCEPT !.ends = lost.ends + more]
      /\ pos \in 1..(Len(toks) + 1) /\ lost.ends \in Nat
      /\ lost.tokens \in Seq(Members(toks)) /\ Len(lost.tokens) < pos
      /\ lost = [tokens |-> lost.tokens, ends |-> lost.ends]
      /\ Nested(stack) /\ Held(stack) /\ (lost.tokens = <<>> => FieldsHeld(stack))
  BY DEF Inv, Close
<1>2. Len(toks) \in Nat /\ Len(lost.tokens) \in Nat
  BY <1>1, Tokens, LenProperties DEF Inv
<1>3. Len(stack) \in Nat \ {0} /\ DOMAIN stack = 1..Len(stack) /\ Top = stack[Len(stack)]
  BY <1>1, NestedLength DEF Top, Last
<1> DEFINE k == Len(stack)
<1>4. FrameTyped(Top) /\ Top.type \in BlocksAt(k) /\ Owned(k, Top)
  BY <1>1, LastTyped DEF Top
<1>5. k > 1
  BY <1>3, <1>4, BlockDepths
<1>6. Nested(s) /\ Len(s) = k - 1 /\ \A i \in DOMAIN s : i \in DOMAIN stack /\ s[i] = stack[i]
  BY <1>1, <1>5, Removed
<1>7. 1 \in DOMAIN s
  BY <1>6, NestedLength
<1> HIDE DEF s
<1>8. Held(s) /\ (FieldsHeld(stack) => FieldsHeld(s))
  BY <1>1, <1>6, <1>7 DEF Held, FieldsHeld
<1>9. node # NULL /\ UnitSound(node) /\ (FieldsHeld(stack) => UnitLed(node))
  <2>1. CASE Top.type = Unit
    <3>1. k = 2
      BY <1>3, <1>4, <2>1, BlockDepths
    <3>2. Noted(Top) /\ (FieldsHeld(stack) => Led(Top))
      <4>1. 2 \in DOMAIN stack /\ Top = stack[2]
        BY <1>3, <3>1
      <4>2. Noted(stack[2]) /\ (FieldsHeld(stack) => Led(stack[2]))
        BY <1>1, <4>1 DEF Held, FieldsHeld
      <4> QED  BY <4>1, <4>2
    <3>3. node = Whole(Top, "")
      BY <2>1
    <3>4. Top.owner = Node("Name_Statement_Decl", Top.owner[2], NULL, NULL)
      BY <1>4, <3>1 DEF Owned
    <3> HIDE DEF node
    <3> QED  BY <1>4, <3>2, <3>3, <3>4, UnitWhole DEF Noted
  <2>2. CASE Top.type # Unit
    <3>1. k > 2 /\ Top.type \in Sections \cup Branches
      BY <1>3, <1>4, <1>5, <2>2, BlockDepths
    <3>2. Whole(Top, "") # NULL /\ TypeOf(Whole(Top, "")) # "Name_Statement_Decl"
      <4>1. CASE Top.owner = NULL
        <5>1. Whole(Top, "") = Node(Top.type, "", NULL, Hoisted(Top))
          BY <4>1 DEF Whole, Chain
        <5>2. Whole(Top, "") # NULL /\ TypeOf(Whole(Top, "")) = Top.type
          <6>1. HasParts(Whole(Top, ""), Top.type, "", NULL, Hoisted(Top))
            BY <5>1, NodeParts
          <6> QED  BY <6>1 DEF HasParts
        <5> QED  BY <3>1, <5>2 DEF Sections, Branches
      <4>2. CASE Top.owner # NULL
        <5>1. k > 3 /\ Top.owner[1] # "Name_Statement_Decl"
          BY <1>3, <1>4, <3>1, <4>2 DEF Owned
        <5>2. Whole(Top, "") = Node(Top.owner[1], Top.owner[2], Top.owner[3],
                                    Chain(Top.type, "", Hoisted(Top)))
          BY <4>2 DEF Whole
        <5>3. HasParts(Whole(Top, ""), Top.owner[1], Top.owner[2], Top.owner[3],
                       Chain(Top.type, "", Hoisted(Top)))
          BY <5>2, NodeParts
        <5> QED  BY <5>1, <5>3 DEF HasParts
      <4> QED  BY <4>1, <4>2
    <3>3. Error(NULL, Whole(Top, "")) # NULL /\ TypeOf(Error(NULL, Whole(Top, ""))) = "Error"
      <4>1. HasParts(Error(NULL, Whole(Top, "")), "Error", "", NULL, Whole(Top, ""))
        BY NodeParts DEF Error
      <4> QED  BY <4>1 DEF HasParts
    <3>4. node # NULL /\ TypeOf(node) # "Name_Statement_Decl"
      BY <3>2, <3>3
    <3> HIDE DEF node
    <3> QED  BY <3>4 DEF UnitSound, UnitLed, IsUnit
  <2> QED  BY <2>1, <2>2
<1> HIDE DEF node
<1>10. Nested(d) /\ Held(d)
  BY <1>6, <1>8, <1>9, DeliveredHeld
<1>11. FieldsHeld(stack) => FieldsHeld(d)
  BY <1>6, <1>8, <1>9, DeliveredFields
<1> HIDE DEF d
<1>12. Nested(stack)' /\ Held(stack)' /\ (lost.tokens = <<>> => FieldsHeld(stack)')
  BY <1>1, <1>10, <1>11 DEF Nested, Held, FieldsHeld
<1>13. more \in Nat
  OBVIOUS
<1> HIDE DEF more
<1>14. /\ lost'.tokens = lost.tokens /\ lost'.ends \in Nat
       /\ lost' = [tokens |-> lost'.tokens, ends |-> lost'.ends]
  BY <1>1, <1>13
<1>15. FieldsFirst' /\ SectionsOnce'
  BY <1>1 DEF FieldsFirst, SectionsOnce
<1>16. pos' \in 1..(Len(toks) + 1) /\ Len(lost.tokens) < pos'
  BY <1>1, <1>2
<1> QED  BY <1>1, <1>12, <1>14, <1>15, <1>16 DEF Inv

(* The tree is the module's chain.                                         *)
LEMMA InvFinish ==
  ASSUME Inv, Finish
  PROVE  Inv'
<1>1. /\ UNCHANGED <<toks, pos, stack, lost>> /\ stage' = "done" /\ tree' = Whole(Top, "")
      /\ Top.type = Module /\ Nested(stack) /\ Held(stack)
  BY DEF Inv, Finish, In
<1>2. lost.tokens = <<>> => FieldsHeld(stack)
  BY <1>1 DEF Inv, StartsNothing, In, Module, Unit
<1>3. Len(stack) \in Nat \ {0} /\ DOMAIN stack = 1..Len(stack) /\ Top = stack[Len(stack)]
  BY <1>1, NestedLength DEF Top, Last
<1>4. FrameTyped(Top) /\ Top.type \in BlocksAt(Len(stack)) /\ Owned(Len(stack), Top)
  BY <1>1, LastTyped DEF Top
<1>5. Len(stack) = 1 /\ Top = stack[1]
  BY <1>1, <1>3, <1>4, BlockDepths
<1>6. Top.owner = NULL
  BY <1>4, <1>5 DEF Owned
<1> DEFINE h == Hoisted(Top)
<1>7. tree' = Node(Module, "", NULL, h)
  BY <1>1, <1>6 DEF Whole, Chain
<1>8. Items(tree') = h
  <2>1. HasParts(tree', Module, "", NULL, h)
    BY <1>7, NodeParts
  <2> QED  BY <2>1 DEF HasParts, Items
<1> HIDE DEF h
<1>9. ASSUME NEW u \in NameBlocks(tree') PROVE IsUnit(u) /\ \E k \in DOMAIN Top.slots : u = Top.slots[k]
  <2>1. IsUnit(u) /\ \E i \in DOMAIN h : u = h[i]
    BY <1>8, <1>9 DEF NameBlocks, IsUnit
  <2>2. PICK i \in DOMAIN h : u = h[i]
    BY <2>1
  <2>3. TypeOf(h[i]) = "Expr" \/ \E k \in DOMAIN Top.slots : h[i] = Top.slots[k]
    BY <1>4, HoistedMembers DEF h
  <2> QED  BY <2>1, <2>2, <2>3 DEF IsUnit
<1>10. ASSUME NEW u \in NameBlocks(tree') PROVE u[4][2] = "Error" \/ EachOnce(Items(u[4]))
  <2>1. IsUnit(u) /\ UnitSound(u)
    BY <1>1, <1>5, <1>9 DEF Held
  <2> QED  BY <2>1 DEF UnitSound
<1>11. ASSUME lost.tokens = <<>> PROVE \A b \in Blocks(tree') : FieldsLead(Items(b))
  <2>1. FieldsHeld(stack)
    BY <1>2, <1>11
  <2>2. FieldsLead(h)
    BY <1>3, <1>4, <1>5, <2>1, HoistedLeads DEF FieldsHeld, h
  <2>3. \A u \in NameBlocks(tree') : FieldsLead(Items(u[4]))
    BY <1>5, <1>9, <2>1 DEF FieldsHeld, UnitLed
  <2> QED  BY <1>8, <2>2, <2>3 DEF Blocks
<1>12. SectionsOnce'
  BY <1>10 DEF SectionsOnce, NameBlocks
<1>13. FieldsFirst'
  BY <1>1, <1>11 DEF FieldsFirst, Blocks, NameBlocks
<1>14. Nested(stack)' /\ Held(stack)' /\ (lost.tokens = <<>> => FieldsHeld(stack))'
  BY <1>1, <1>2 DEF Nested, Held, FieldsHeld
<1> QED  BY <1>1, <1>12, <1>13, <1>14 DEF Inv

-----------------------------------------------------------------------------
(* Every step keeps the invariant.                                         *)

LEMMA NodeReads ==
  ASSUME NEW type, type # "Name_Statement_Decl", NEW text, NEW left, NEW right,
         NEW i, NEW next \in {0} \cup i..(Len(toks) + 1)
  PROVE  Reads(R(Node(type, text, left, right), next), i)
<1> DEFINE n == Node(type, text, left, right)
<1>1. HasParts(n, type, text, left, right)
  BY NodeParts
<1> HIDE DEF n
<1>2. n # NULL /\ ~IsUnit(n)
  BY <1>1 DEF HasParts, IsUnit
<1>3. R(n, next).node = n /\ R(n, next).next = next
  BY DEF R
<1> QED  BY <1>2, <1>3 DEF Reads, n

LEMMA EndedReads ==
  ASSUME toks \in TokenLists, NEW i \in Nat, NEW node,
         NEW next \in {0} \cup i..(Len(toks) + 1)
  PROVE  Reads(Ended(toks, R(node, next)), i)
<1>1. Len(toks) \in Nat /\ DOMAIN toks = 1..Len(toks)
  BY Tokens
<1>2. R(node, next).node = node /\ R(node, next).next = next
  BY DEF R
<1>3. CASE At(toks, next, "punct", ";")
  <2>1. next + 1 \in {0} \cup i..(Len(toks) + 1)
    <3>1. next \in 1..Len(toks)
      BY <1>1, <1>3 DEF At, There
    <3>2. next >= i /\ next \in Nat
      BY <1>1, <3>1
    <3> QED  BY <1>1, <3>1, <3>2
  <2>2. Ended(toks, R(node, next)) = R(Node("Expr", "", node, NULL), next + 1)
    BY <1>2, <1>3 DEF Ended
  <2> QED  BY <2>1, <2>2, NodeReads
<1>4. CASE ~At(toks, next, "punct", ";")
  <2>1. Skip(toks, next) \in {0} \cup i..(Len(toks) + 1)
    BY <1>1 DEF Skip, There
  <2>2. Ended(toks, R(node, next)) = R(Node("Error", "", node, NULL), Skip(toks, next))
    BY <1>2, <1>4 DEF Ended, Error
  <2> QED  BY <2>1, <2>2, NodeReads
<1> QED  BY <1>3, <1>4

(* A position behind a token that is there.                                *)
LEMMA Behind ==
  ASSUME toks \in TokenLists, pos \in 1..(Len(toks) + 1),
         NEW i \in Nat, i >= pos, There(toks, i)
  PROVE  i + 1 \in pos..(Len(toks) + 1) /\ i + 1 # pos
<1>1. Len(toks) \in Nat /\ DOMAIN toks = 1..Len(toks)
  BY Tokens
<1>2. i \in 1..Len(toks)
  BY <1>1 DEF There
<1> QED  BY <1>1, <1>2

LEMMA AtIsThere ==
  ASSUME NEW i, NEW type, NEW text, At(toks, i, type, text)
  PROVE  There(toks, i)
BY DEF At

LEMMA InvSteps ==
  ASSUME Inv, Next
  PROVE  Inv'
<1>1. /\ toks \in TokenLists /\ pos \in 1..(Len(toks) + 1) /\ Nested(stack)
  BY DEF Inv
<1>2. Len(toks) \in Nat /\ DOMAIN toks = 1..Len(toks) /\ pos \in Nat
  BY <1>1, Tokens
<1> DEFINE ahead(i) == i \in pos..(Len(toks) + 1) /\ i # pos
<1>22. /\ There(toks, pos) => ahead(pos + 1)
       /\ There(toks, pos + 1) => ahead(pos + 2)
       /\ There(toks, pos + 2) => ahead(pos + 3)
  <2>1. ASSUME NEW k \in 0..2, There(toks, pos + k) PROVE ahead(pos + k + 1)
    <3>1. pos + k \in Nat /\ pos + k >= pos
      BY <1>2
    <3> QED  BY <1>1, <2>1, <3>1, Behind
  <2>2. (pos + 0 = pos) /\ (pos + 0 + 1 = pos + 1) /\ (pos + 1 + 1 = pos + 2) /\ (pos + 2 + 1 = pos + 3)
    BY <1>2
  <2>3. There(toks, pos) => ahead(pos + 1)
    BY <2>1, <2>2
  <2>4. There(toks, pos + 1) => ahead(pos + 2)
    BY <2>1, <2>2
  <2>5. There(toks, pos + 2) => ahead(pos + 3)
    BY <2>1, <2>2
  <2> QED  BY <2>3, <2>4, <2>5
<1>3. Len(stack) \in Nat \ {0} /\ Top.type \in BlocksAt(Len(stack))
  BY <1>1, NestedLength, LastTyped DEF Top
<1>4. CASE NullStatement
  <2>1. stage = "parse" /\ At(toks, pos, "punct", ";") /\ Statement(R(Empty, pos + 1))
    BY <1>4 DEF NullStatement
  <2>2. Reads(R(Empty, pos + 1), pos)
    <3>1. pos + 1 \in {0} \cup pos..(Len(toks) + 1)
      BY <1>22, <2>1 DEF At
    <3> QED  BY <3>1, NodeReads DEF Empty
  <2>3. ~StartsNothing
    BY <2>1 DEF StartsNothing, At
  <2> QED  BY <2>1, <2>2, <2>3, InvStatement
<1>5. CASE Declaration
  <2>1. /\ stage = "parse" /\ At(toks, pos, "keyword", "obj") /\ There(toks, pos + 1)
        /\ Statement(ReadDecl(toks, pos + 1))
    BY <1>5 DEF Declaration
  <2>2. /\ ReadDecl(toks, pos + 1).next \in {0} \cup (pos + 1)..(Len(toks) + 1)
        /\ TypeOf(ReadDecl(toks, pos + 1).node) \notin {"none", "Name_Statement_Decl"}
    BY <1>1, <2>1, ReadersAssumption DEF There
  <2>3. Reads(ReadDecl(toks, pos + 1), pos)
    BY <1>1, <1>2, <2>2 DEF Reads, IsUnit, TypeOf
  <2>4. ~StartsNothing
    BY <2>1 DEF StartsNothing, At, IsKeyword
  <2> QED  BY <2>1, <2>3, <2>4, InvStatement
<1>6. CASE LastObj
  <2>1. stage = "parse" /\ At(toks, pos, "keyword", "obj")
    BY <1>6 DEF LastObj
  <2>2. pos + 1 \in pos..(Len(toks) + 1) /\ pos + 1 # pos
    BY <1>22, <2>1 DEF At
  <2>3. ~StartsNothing
    BY <2>1 DEF StartsNothing, At, IsKeyword
  <2>4. CASE InStatements
    <3>1. Statement(Ended(toks, R(NULL, pos + 1)))
      BY <1>6, <2>4 DEF LastObj
    <3>2. Reads(Ended(toks, R(NULL, pos + 1)), pos)
      BY <1>1, <2>2, EndedReads
    <3> QED  BY <2>1, <2>3, <3>1, <3>2, InvStatement
  <2>5. CASE ~InStatements
    <3>1. Dropped(pos + 1)
      BY <1>6, <2>5 DEF LastObj
    <3> QED  BY <2>1, <2>2, <3>1, InvDropped
  <2> QED  BY <2>4, <2>5
<1>7. CASE OpenUnit
  <2> DEFINE owner == Node("Name_Statement_Decl", toks[pos + 1][2], NULL, NULL)
  <2>1. /\ stage = "parse" /\ Top.type = Module /\ At(toks, pos + 2, "punct", "{")
        /\ Open(Unit, owner, pos + 3)
    BY <1>7 DEF OpenUnit, In
  <2>2. pos + 3 \in pos..(Len(toks) + 1)
    BY <1>22, <2>1 DEF At
  <2>3. ~StartsNothing
    BY <2>1 DEF StartsNothing, In, Module, Unit
  <2>4. Len(stack) + 1 = 2 /\ Unit \in BlocksAt(2)
    <3>1. Len(stack) = 1
      BY <1>3, <2>1, BlockDepths
    <3> QED  BY <3>1 DEF BlocksAt
  <2>5. HasParts(owner, "Name_Statement_Decl", toks[pos + 1][2], NULL, NULL)
    BY NodeParts
  <2>6. owner = Node("Name_Statement_Decl", owner[2], NULL, NULL)
    BY <2>5 DEF HasParts
  <2> HIDE DEF owner
  <2>7. Frame(Unit, owner).owner = owner
    BY FrameStarts
  <2>8. Owned(2, Frame(Unit, owner))
    BY <2>6, <2>7 DEF Owned
  <2> QED  BY <2>1, <2>2, <2>3, <2>4, <2>8, InvOpen DEF owner
<1>8. CASE UnitWithoutBody
  <2>1. /\ stage = "parse" /\ There(toks, pos + 1) /\ Dropped(Skip(toks, pos + 2))
    BY <1>8 DEF UnitWithoutBody, In
  <2>2. Skip(toks, pos + 2) \in pos..(Len(toks) + 1) /\ Skip(toks, pos + 2) # pos
    BY <1>1, <1>2, <1>22, <2>1 DEF Skip
  <2> QED  BY <2>1, <2>2, InvDropped
<1>9. CASE NameAtEnd
  <2>1. stage = "parse" /\ stage' = "crashed" /\ UNCHANGED <<toks, pos, stack, tree, lost>>
    BY <1>9 DEF NameAtEnd, In
  <2>2. ~StartsNothing
    BY <1>9 DEF NameAtEnd, StartsNothing, In, Module, Unit
  <2>3. Nested(stack)' /\ Held(stack)' /\ (lost.tokens = <<>> => FieldsHeld(stack))'
    BY <2>1, <2>2 DEF Inv, Nested, Held, FieldsHeld
  <2>4. FieldsFirst' /\ SectionsOnce'
    BY <2>1 DEF FieldsFirst, SectionsOnce
  <2> QED  BY <2>1, <2>3, <2>4 DEF Inv
<1>10. CASE Stray
  <2>1. stage = "parse" /\ There(toks, pos) /\ Dropped(pos + 1)
    BY <1>10 DEF Stray, In
  <2>2. pos + 1 \in pos..(Len(toks) + 1) /\ pos + 1 # pos
    BY <1>22, <2>1
  <2> QED  BY <2>1, <2>2, InvDropped
<1>11. CASE OpenSection
  <2> DEFINE type == SectionOf[toks[pos][2]]
  <2>1. /\ stage = "parse" /\ Top.type = Unit /\ IsKeyword(toks, pos, DOMAIN SectionOf)
        /\ At(toks, pos + 1, "punct", "{") /\ Open(type, NULL, pos + 2)
    BY <1>11 DEF OpenSection, In
  <2>2. pos + 2 \in pos..(Len(toks) + 1)
    BY <1>22, <2>1 DEF At
  <2>3. ~StartsNothing
    BY <2>1 DEF StartsNothing, IsKeyword
  <2>4. type \in Sections
    BY <2>1 DEF IsKeyword, SectionOf, Sections
  <2>5. Len(stack) + 1 = 3 /\ type \in BlocksAt(3)
    <3>1. Len(stack) = 2
      BY <1>3, <2>1, BlockDepths
    <3> QED  BY <2>4, <3>1 DEF BlocksAt
  <2> HIDE DEF type
  <2>6. Frame(type, NULL).owner = NULL
    BY FrameStarts
  <2>7. Owned(3, Frame(type, NULL))
    BY <2>6 DEF Owned
  <2> QED  BY <2>1, <2>2, <2>3, <2>5, <2>7, InvOpen
<1>12. CASE SectionWithoutBody
  <2>1. /\ stage = "parse" /\ IsKeyword(toks, pos, DOMAIN SectionOf)
        /\ Statement(R(Error(NULL, NULL), pos + 1))
    BY <1>12 DEF SectionWithoutBody, In
  <2>2. Reads(R(Error(NULL, NULL), pos + 1), pos)
    <3>1. pos + 1 \in {0} \cup pos..(Len(toks) + 1)
      BY <1>22, <2>1 DEF IsKeyword
    <3> QED  BY <3>1, NodeReads DEF Error
  <2>3. ~StartsNothing
    BY <2>1 DEF StartsNothing, IsKeyword
  <2> QED  BY <2>1, <2>2, <2>3, InvStatement
<1>13. CASE Foreign
  <2>1. stage = "parse" /\ StartsNothing /\ Dropped(pos)
    BY <1>13 DEF Foreign, StartsNothing, In
  <2>2. pos \in pos..(Len(toks) + 1)
    BY <1>1, <1>2
  <2> QED  BY <2>1, <2>2, InvDropped
<1>14. ASSUME InStatements
       PROVE  /\ stage = "parse" /\ ~StartsNothing /\ Len(stack) + 1 > 3
              /\ \A type \in Branches : type \in BlocksAt(Len(stack) + 1)
  <2>1. stage = "parse" /\ Top.type \in Sections \cup Branches
    BY <1>14 DEF InStatements, In
  <2>2. ~StartsNothing
    BY <2>1 DEF StartsNothing, In, Sections, Branches, Unit
  <2>3. Len(stack) > 2
    BY <1>3, <2>1, BlockDepths
  <2>4. Len(stack) + 1 > 3 /\ Len(stack) + 1 \notin {1, 2, 3}
    BY <1>3, <2>3
  <2>5. BlocksAt(Len(stack) + 1) = Branches
    BY <2>4 DEF BlocksAt
  <2> QED  BY <2>1, <2>2, <2>4, <2>5
<1>15. ASSUME InStatements, NEW type \in Branches, NEW kind \in {"If", "Else_If", "Else"}, NEW cond,
              NEW next \in pos..(Len(toks) + 1), Open(type, Node(kind, "", cond, NULL), next)
       PROVE  Inv'
  <2> DEFINE owner == Node(kind, "", cond, NULL)
  <2>1. Open(type, owner, next)
    BY <1>15
  <2>2. HasParts(owner, kind, "", cond, NULL)
    BY NodeParts
  <2> HIDE DEF owner
  <2>3. owner[1] # "Name_Statement_Decl"
    BY <2>2 DEF HasParts
  <2>4. Frame(type, owner).owner = owner
    BY FrameStarts
  <2>5. Owned(Len(stack) + 1, Frame(type, owner))
    <3>1. Len(stack) + 1 > 3
      BY <1>14, <1>15
    <3>2. Len(stack) + 1 \notin {1, 2, 3}
      BY <1>3, <3>1
    <3> QED  BY <2>3, <2>4, <3>2 DEF Owned
  <2> QED  BY <1>14, <1>15, <2>1, <2>5, InvOpen
<1>16. ASSUME NEW i \in 1..(Len(toks) + 1)
       PROVE  ReadExpr(toks, i).next \in {0} \cup i..(Len(toks) + 1)
  BY <1>1, ReadersAssumption
<1>17. ASSUME InStatements, NEW type \in {"If", "Else_If"}, NEW i \in pos..(Len(toks) + 1), IfElse(type, i)
       PROVE  Inv'
  <2> DEFINE cond == ReadExpr(toks, i + 1)
  <2>1. IF ~IsBranch(i, cond)
          THEN Statement(IF At(toks, i, "punct", "(") THEN R(Error(NULL, cond.node), cond.next)
                         ELSE R(Error(NULL, NULL), i))
        ELSE IF At(toks, cond.next + 1, "punct", "{")
          THEN Open(IF type = "If" THEN "If_Section" ELSE "Else_If_Section",
                    Node(type, "", cond.node, NULL), cond.next + 2)
        ELSE LET body == ReadExpr(toks, cond.next + 1)
             IN Statement(Ended(toks, R(Node(type, "", cond.node, body.node), body.next)))
    BY <1>17 DEF IfElse
  <2>2. i \in Nat /\ i >= pos
    BY <1>2
  <2>3. At(toks, i, "punct", "(") => cond.next \in {0} \cup pos..(Len(toks) + 1)
    <3>1. SUFFICES ASSUME At(toks, i, "punct", "(") PROVE cond.next \in {0} \cup pos..(Len(toks) + 1)
      OBVIOUS
    <3>2. i + 1 \in pos..(Len(toks) + 1)
      BY <1>1, <2>2, <3>1, AtIsThere, Behind
    <3>3. i + 1 \in 1..(Len(toks) + 1)
      BY <1>1, <1>2, <3>2
    <3>4. cond.next \in {0} \cup (i + 1)..(Len(toks) + 1)
      BY <1>16, <3>3
    <3> QED  BY <1>2, <2>2, <3>4
  <2>4. IsBranch(i, cond) => cond.next \in Nat /\ cond.next >= pos /\ There(toks, cond.next)
    <3>1. SUFFICES ASSUME IsBranch(i, cond)
                   PROVE  cond.next \in Nat /\ cond.next >= pos /\ There(toks, cond.next)
      OBVIOUS
    <3>2. There(toks, cond.next) /\ cond.next \in {0} \cup pos..(Len(toks) + 1)
      BY <2>3, <3>1, AtIsThere DEF IsBranch
    <3>3. cond.next \in 1..Len(toks)
      BY <1>2, <3>2 DEF There
    <3> QED  BY <1>2, <3>2, <3>3
  <2> HIDE DEF cond
  <2>5. CASE ~IsBranch(i, cond) /\ At(toks, i, "punct", "(")
    <3>1. Statement(R(Error(NULL, cond.node), cond.next))
      BY <2>1, <2>5
    <3>2. Reads(R(Error(NULL, cond.node), cond.next), pos)
      BY <2>3, <2>5, NodeReads DEF Error
    <3> QED  BY <1>14, <1>17, <3>1, <3>2, InvStatement
  <2>6. CASE ~IsBranch(i, cond) /\ ~At(toks, i, "punct", "(")
    <3>1. Statement(R(Error(NULL, NULL), i))
      BY <2>1, <2>6
    <3>2. Reads(R(Error(NULL, NULL), i), pos)
      BY NodeReads DEF Error
    <3> QED  BY <1>14, <1>17, <3>1, <3>2, InvStatement
  <2>7. CASE IsBranch(i, cond)
    <3>1. cond.next + 1 \in pos..(Len(toks) + 1) /\ cond.next + 1 \in Nat /\ cond.next + 1 >= pos
      BY <1>1, <1>2, <2>4, <2>7, Behind
    <3>2. CASE At(toks, cond.next + 1, "punct", "{")
      <4> DEFINE section == IF type = "If" THEN "If_Section" ELSE "Else_If_Section"
      <4>1. Open(section, Node(type, "", cond.node, NULL), cond.next + 2)
        BY <2>1, <2>7, <3>2
      <4>2. section \in Branches
        BY DEF Branches
      <4> HIDE DEF section
      <4>3. There(toks, cond.next + 1)
        BY <3>2, AtIsThere
      <4>4. cond.next + 1 + 1 \in pos..(Len(toks) + 1)
        BY <1>1, <3>1, <4>3, Behind
      <4>5. cond.next + 2 \in pos..(Len(toks) + 1)
        BY <2>4, <2>7, <4>4
      <4> QED  BY <1>15, <1>17, <4>1, <4>2, <4>5
    <3>3. CASE ~At(toks, cond.next + 1, "punct", "{")
      <4>1. PICK body : body = ReadExpr(toks, cond.next + 1)
        OBVIOUS
      <4>2. Statement(Ended(toks, R(Node(type, "", cond.node, body.node), body.next)))
        BY <2>1, <2>7, <3>3, <4>1
      <4>3. cond.next + 1 \in 1..(Len(toks) + 1)
        BY <1>1, <1>2, <3>1
      <4>4. body.next \in {0} \cup (cond.next + 1)..(Len(toks) + 1)
        BY <1>16, <4>1, <4>3
      <4>5. body.next \in {0} \cup pos..(Len(toks) + 1)
        BY <1>2, <3>1, <4>4
      <4>6. Reads(Ended(toks, R(Node(type, "", cond.node, body.node), body.next)), pos)
        BY <1>1, <1>2, <4>5, EndedReads
      <4> QED  BY <1>14, <1>17, <4>2, <4>6, InvStatement
    <3> QED  BY <3>2, <3>3
  <2> QED  BY <2>5, <2>6, <2>7
<1>18. CASE If
  <2>1. InStatements
    BY <1>18 DEF If
  <2>2. CASE At(toks, pos, "keyword", "if") /\ IfElse("If", pos + 1)
    <3>1. pos + 1 \in pos..(Len(toks) + 1)
      BY <1>22, <2>2, AtIsThere
    <3> QED  BY <1>17, <2>1, <2>2, <3>1
  <2>3. CASE At(toks, pos + 1, "keyword", "if") /\ IfElse("Else_If", pos + 2)
    <3>1. pos + 2 \in pos..(Len(toks) + 1)
      BY <1>22, <2>3, AtIsThere
    <3> QED  BY <1>17, <2>1, <2>3, <3>1
  <2> QED  BY <1>18, <2>2, <2>3 DEF If
<1>19. CASE Else
  <2>1. InStatements /\ There(toks, pos)
    BY <1>19 DEF Else, At
  <2>2. CASE At(toks, pos + 1, "punct", "{")
    <3>1. Open("Else_Section", Node("Else", "", NULL, NULL), pos + 2)
      BY <1>19, <2>2 DEF Else
    <3>2. pos + 2 \in pos..(Len(toks) + 1)
      BY <1>22, <2>2, AtIsThere
    <3>3. "Else_Section" \in Branches
      BY DEF Branches
    <3> QED  BY <1>15, <2>1, <3>1, <3>2, <3>3
  <2>3. CASE ~At(toks, pos + 1, "punct", "{")
    <3>1. PICK e : e = ReadExpr(toks, pos + 1)
      OBVIOUS
    <3>2. Statement(Ended(toks, R(Node("Else", "", NULL, e.node), e.next)))
      BY <1>19, <2>3, <3>1 DEF Else
    <3>3. pos + 1 \in pos..(Len(toks) + 1)
      BY <1>22, <2>1
    <3>4. pos + 1 \in 1..(Len(toks) + 1)
      BY <1>1, <1>2, <3>3
    <3>5. e.next \in {0} \cup (pos + 1)..(Len(toks) + 1)
      BY <1>16, <3>1, <3>4
    <3>6. e.next \in {0} \cup pos..(Len(toks) + 1)
      BY <1>2, <3>5
    <3>7. Reads(Ended(toks, R(Node("Else", "", NULL, e.node), e.next)), pos)
      BY <1>1, <1>2, <3>6, EndedReads
    <3> QED  BY <1>14, <2>1, <3>2, <3>7, InvStatement
  <2> QED  BY <2>2, <2>3
<1>23. CASE CallSection
  <2>1. InStatements /\ There(toks, pos)
    BY <1>23 DEF CallSection, IsKeyword
  <2>2. CASE At(toks, pos + 1, "operator", ";")
    <3>1. Statement(R(Node("Call_Section", toks[pos][2], NULL, NULL), pos + 2))
      BY <1>23, <2>2 DEF CallSection
    <3>2. pos + 2 \in {0} \cup pos..(Len(toks) + 1)
      BY <1>22, <2>2, AtIsThere
    <3>3. Reads(R(Node("Call_Section", toks[pos][2], NULL, NULL), pos + 2), pos)
      BY <3>2, NodeReads
    <3> QED  BY <1>14, <2>1, <3>1, <3>3, InvStatement
  <2>3. CASE ~At(toks, pos + 1, "operator", ";")
    <3>1. Statement(R(Error(NULL, NULL), pos + 1))
      BY <1>23, <2>3 DEF CallSection
    <3>2. pos + 1 \in {0} \cup pos..(Len(toks) + 1)
      BY <1>22, <2>1
    <3>3. Reads(R(Error(NULL, NULL), pos + 1), pos)
      BY <3>2, NodeReads DEF Error
    <3> QED  BY <1>14, <2>1, <3>1, <3>3, InvStatement
  <2> QED  BY <2>2, <2>3
<1>24. CASE ExprStatement
  <2>1. PICK e : e = ReadExpr(toks, pos)
    OBVIOUS
  <2>2. InStatements /\ Statement(Ended(toks, e))
    BY <1>24, <2>1 DEF ExprStatement
  <2>3. e.next \in {0} \cup pos..(Len(toks) + 1)
    BY <1>1, <1>16, <2>1
  <2>4. Reads(Ended(toks, e), pos)
    <3>1. Ended(toks, e) = Ended(toks, R(e.node, e.next))
      BY DEF Ended, R
    <3>2. Reads(Ended(toks, R(e.node, e.next)), pos)
      BY <1>1, <1>2, <2>3, EndedReads
    <3> QED  BY <3>1, <3>2
  <2> QED  BY <1>14, <2>2, <2>4, InvStatement
<1>25. CASE CloseBlock
  <2>1. /\ stage = "parse" /\ Top.type # Module /\ At(toks, pos, "punct", "}") /\ Close(TRUE, pos + 1)
    BY <1>25 DEF CloseBlock
  <2>2. pos + 1 \in pos..(Len(toks) + 1)
    BY <1>22, <2>1 DEF At
  <2>3. ~StartsNothing
    BY <2>1 DEF StartsNothing, At
  <2> QED  BY <2>1, <2>2, <2>3, InvClose
<1>26. CASE EndOfTokens
  <2>1. /\ stage = "parse" /\ Top.type # Module /\ ~There(toks, pos) /\ Close(FALSE, pos)
    BY <1>26 DEF EndOfTokens
  <2>2. pos \in pos..(Len(toks) + 1)
    BY <1>1, <1>2
  <2>3. ~StartsNothing
    BY <2>1 DEF StartsNothing
  <2> QED  BY <2>1, <2>2, <2>3, InvClose
<1>27. CASE Finish
  BY <1>27, InvFinish
<1> QED
  BY <1>4, <1>5, <1>6, <1>7, <1>8, <1>9, <1>10, <1>11, <1>12, <1>13, <1>18, <1>19, <1>23, <1>24,
     <1>25, <1>26, <1>27 DEF Next

LEMMA InvNext ==
  ASSUME Inv, [Next]_vars
  PROVE  Inv'
<1>1. CASE Next
  BY <1>1, InvSteps
<1>2. CASE UNCHANGED vars
  <2>1. UNCHANGED <<toks, pos, stack, stage, tree, lost>>
    BY <1>2 DEF vars
  <2>2. Nested(stack)' /\ Held(stack)' /\ (FieldsHeld(stack)' <=> FieldsHeld(stack))
    BY <2>1 DEF Inv, Nested, Held, FieldsHeld
  <2>3. StartsNothing' <=> StartsNothing
    BY <2>1 DEF StartsNothing, In, Top
  <2>4. FieldsFirst' /\ SectionsOnce'
    BY <2>1 DEF Inv, FieldsFirst, SectionsOnce
  <2> QED  BY <2>1, <2>2, <2>3, <2>4 DEF Inv
<1> QED  BY <1>1, <1>2

LEMMA InvHolds == Spec => []Inv
<1>1. Init => Inv
  BY InvInit
<1>2. Inv /\ [Next]_vars => Inv'
  BY InvNext
<1> QED  BY <1>1, <1>2, PTL DEF Spec

-----------------------------------------------------------------------------
(* Every turn of a loop goes forward.                                      *)

Onward(next) == next \in (pos + 1)..(Len(toks) + 1)

(* A statement that is delivered opens no block.                           *)
LEMMA DeliveredShort ==
  ASSUME NEW s, Nested(s), NEW n
  PROVE  Len(Delivered(s, n)) \in Nat /\ Len(Delivered(s, n)) <= Len(s)
<1>1. Len(s) \in Nat
  BY NestedLength
<1>2. CASE Second(s, n)
  <2>1. Len(s) = 2 /\ Len(Delivered(s, n)) = 1
    BY <1>2, SecondDelivered
  <2> QED  BY <2>1
<1>3. CASE ~Second(s, n)
  <2>1. Changed(Delivered(s, n), s, Taken(Last(s), n))
    BY <1>3, FirstDelivered
  <2> QED  BY <1>1, <2>1 DEF Changed
<1> QED  BY <1>2, <1>3

LEMMA EndedAhead ==
  ASSUME toks \in TokenLists, pos \in 1..(Len(toks) + 1), There(toks, pos),
         NEW e, e.next \in {0} \cup pos..(Len(toks) + 1)
  PROVE  Ended(toks, e).next = 0 \/ Onward(Ended(toks, e).next)
<1>1. Len(toks) \in Nat /\ DOMAIN toks = 1..Len(toks) /\ pos \in 1..Len(toks)
  BY Tokens DEF There
<1>2. CASE At(toks, e.next, "punct", ";")
  <2>1. e.next \in 1..Len(toks) /\ e.next \in pos..(Len(toks) + 1)
    <3>1. e.next \in DOMAIN toks
      BY <1>2 DEF At, There
    <3> QED  BY <1>1, <3>1
  <2>2. Ended(toks, e).next = e.next + 1
    BY <1>2 DEF Ended, R
  <2> QED  BY <1>1, <2>1, <2>2 DEF Onward
<1>3. CASE ~At(toks, e.next, "punct", ";")
  <2>1. Ended(toks, e).next = Skip(toks, e.next)
    BY <1>3 DEF Ended, R
  <2>2. e.next = 0 => Skip(toks, e.next) = 0
    BY <1>1 DEF Skip, There
  <2>3. e.next \in pos..Len(toks) => Skip(toks, e.next) = e.next + 1
    BY <1>1 DEF Skip, There
  <2>4. e.next = Len(toks) + 1 => Skip(toks, e.next) = e.next
    BY <1>1 DEF Skip, There
  <2> QED  BY <1>1, <2>1, <2>2, <2>3, <2>4 DEF Onward
<1> QED  BY <1>2, <1>3

(* What a turn does to the position and the stack.                         *)
Turn ==
  \/ \E n : pos' = n[1] /\ Onward(n[1]) /\ stack' = Delivered(stack, n[2])
  \/ \E f : pos' \in (pos + 2)..(Len(toks) + 1) /\ stack' = Append(stack, f)
  \/ \E n : /\ pos' \in pos..(Len(toks) + 1) /\ Top.type # Module
            /\ stack' = Delivered(Front(stack), n)

LEMMA StatementTurns ==
  ASSUME NEW r, Statement(r), stage = "parse", stage' = "parse", r.next = 0 \/ Onward(r.next)
  PROVE  Turn
<1>1. pos' = r.next /\ stack' = Delivered(stack, r.node) /\ Onward(r.next)
  BY DEF Statement
<1>2. PICK n : n = <<r.next, r.node>>
  OBVIOUS
<1> QED  BY <1>1, <1>2 DEF Turn

LEMMA DroppedTurns ==
  ASSUME NEW next, Dropped(next), Onward(next)
  PROVE  Turn
<1>1. PICK n : n = <<next, NULL>>
  OBVIOUS
<1> QED  BY <1>1 DEF Turn, Dropped

LEMMA OpenTurns ==
  ASSUME NEW type, NEW owner, NEW next \in (pos + 2)..(Len(toks) + 1), Open(type, owner, next)
  PROVE  Turn
BY DEF Turn, Open

LEMMA CloseTurns ==
  ASSUME NEW closed \in BOOLEAN, NEW next \in pos..(Len(toks) + 1), Close(closed, next),
         Top.type # Module
  PROVE  Turn
BY DEF Turn, Close

LEMMA Turns ==
  ASSUME Inv, Next, stage = "parse", stage' = "parse", ~StartsNothing
  PROVE  Turn
<1>1. /\ toks \in TokenLists /\ pos \in 1..(Len(toks) + 1) /\ pos \in Nat
      /\ Len(toks) \in Nat /\ DOMAIN toks = 1..Len(toks)
  BY Tokens DEF Inv
<1>2. /\ There(toks, pos) => Onward(pos + 1)
      /\ There(toks, pos + 1) => Onward(pos + 2) /\ pos + 2 \in (pos + 2)..(Len(toks) + 1)
      /\ There(toks, pos + 2) => pos + 3 \in (pos + 2)..(Len(toks) + 1)
  BY <1>1 DEF There, Onward
<1>3. \A node, next : R(node, next).next = next
  BY DEF R
<1>4. ASSUME NEW j \in 1..(Len(toks) + 1)
      PROVE  ReadExpr(toks, j).next \in {0} \cup j..(Len(toks) + 1)
  BY <1>1, ReadersAssumption
<1>5. CASE NullStatement
  BY <1>2, <1>3, <1>5, StatementTurns DEF NullStatement, At
<1>6. CASE Declaration
  <2>1. There(toks, pos + 1) /\ Statement(ReadDecl(toks, pos + 1))
    BY <1>6 DEF Declaration
  <2>2. ReadDecl(toks, pos + 1).next \in {0} \cup (pos + 1)..(Len(toks) + 1)
    BY <1>1, <2>1, ReadersAssumption DEF There
  <2> QED  BY <2>1, <2>2, StatementTurns DEF Onward
<1>7. CASE LastObj
  <2>1. There(toks, pos)
    BY <1>7 DEF LastObj, At
  <2>2. pos + 1 \in {0} \cup pos..(Len(toks) + 1)
    BY <1>1, <1>2, <2>1 DEF Onward
  <2>3. LET r == Ended(toks, R(NULL, pos + 1)) IN r.next = 0 \/ Onward(r.next)
    BY <1>1, <1>3, <2>1, <2>2, EndedAhead
  <2> QED  BY <1>2, <1>7, <2>1, <2>3, StatementTurns, DroppedTurns DEF LastObj
<1>8. CASE OpenUnit \/ OpenSection
  <2>1. ASSUME NEW d \in {1, 2}, NEW type, NEW owner,
               Open(type, owner, pos + d + 1), There(toks, pos + d)
        PROVE  Turn
    <3>1. pos + d \in 1..Len(toks)
      BY <1>1, <2>1 DEF There
    <3>2. pos + d + 1 \in (pos + 2)..(Len(toks) + 1)
      BY <1>1, <3>1
    <3> QED  BY <2>1, <3>2, OpenTurns
  <2>2. pos + 1 + 1 = pos + 2 /\ pos + 2 + 1 = pos + 3
    BY <1>1
  <2>3. CASE OpenUnit
    <3>1. PICK owner : Open(Unit, owner, pos + 3)
      BY <2>3 DEF OpenUnit
    <3>2. There(toks, pos + 2)
      BY <2>3 DEF OpenUnit, At
    <3> QED  BY <2>1, <2>2, <3>1, <3>2
  <2>4. CASE OpenSection
    <3>1. PICK type : Open(type, NULL, pos + 2)
      BY <2>4 DEF OpenSection
    <3>2. There(toks, pos + 1)
      BY <2>4 DEF OpenSection, At
    <3> QED  BY <2>1, <2>2, <3>1, <3>2
  <2> QED  BY <1>8, <2>3, <2>4
<1>9. CASE UnitWithoutBody
  <2>1. There(toks, pos + 1) /\ Dropped(Skip(toks, pos + 2))
    BY <1>9 DEF UnitWithoutBody
  <2>2. Onward(Skip(toks, pos + 2))
    BY <1>1, <2>1 DEF Skip, There, Onward
  <2> QED  BY <2>1, <2>2, DroppedTurns
<1>10. CASE Stray
  BY <1>2, <1>10, DroppedTurns DEF Stray
<1>11. CASE SectionWithoutBody
  BY <1>2, <1>3, <1>11, StatementTurns DEF SectionWithoutBody, IsKeyword
<1>12. ASSUME NEW type, NEW j \in (pos + 1)..(Len(toks) + 1), There(toks, pos), IfElse(type, j)
       PROVE  Turn
  <2>1. PICK cond : /\ cond = ReadExpr(toks, j + 1)
                    /\ IF ~IsBranch(j, cond)
                         THEN Statement(IF At(toks, j, "punct", "(") THEN R(Error(NULL, cond.node), cond.next)
                                        ELSE R(Error(NULL, NULL), j))
                       ELSE IF At(toks, cond.next + 1, "punct", "{")
                         THEN Open(IF type = "If" THEN "If_Section" ELSE "Else_If_Section",
                                   Node(type, "", cond.node, NULL), cond.next + 2)
                       ELSE \E body \in {ReadExpr(toks, cond.next + 1)} :
                              Statement(Ended(toks, R(Node(type, "", cond.node, body.node), body.next)))
    BY <1>12 DEF IfElse
  <2>2. At(toks, j, "punct", "(") => cond.next \in {0} \cup (j + 1)..(Len(toks) + 1)
    <3>1. At(toks, j, "punct", "(") => j + 1 \in 1..(Len(toks) + 1)
      BY <1>1 DEF At, There
    <3> QED  BY <1>4, <2>1, <3>1
  <2>3. CASE ~IsBranch(j, cond)
    <3>1. At(toks, j, "punct", "(") => cond.next = 0 \/ Onward(cond.next)
      BY <1>1, <2>2 DEF Onward
    <3>2. Onward(j)
      BY DEF Onward
    <3> QED  BY <1>3, <2>1, <2>3, <3>1, <3>2, StatementTurns
  <2>4. CASE IsBranch(j, cond)
    <3>1. cond.next \in (j + 1)..Len(toks)
      BY <1>1, <2>2, <2>4 DEF IsBranch, At, There
    <3>2. CASE At(toks, cond.next + 1, "punct", "{")
      <4>1. cond.next + 2 \in (pos + 2)..(Len(toks) + 1)
        <5>1. cond.next + 1 \in DOMAIN toks
          BY <3>2 DEF At, There
        <5>2. cond.next + 1 <= Len(toks)
          BY <1>1, <5>1
        <5>3. cond.next \in Nat /\ cond.next >= j + 1 /\ j \in Nat /\ j >= pos + 1
          BY <1>1, <3>1
        <5> QED  BY <1>1, <5>2, <5>3
      <4> QED  BY <2>1, <2>4, <3>2, <4>1, OpenTurns
    <3>3. CASE ~At(toks, cond.next + 1, "punct", "{")
      <4>1. PICK body : /\ body = ReadExpr(toks, cond.next + 1)
                        /\ Statement(Ended(toks, R(Node(type, "", cond.node, body.node), body.next)))
        BY <2>1, <2>4, <3>3
      <4>2. cond.next + 1 \in 1..(Len(toks) + 1) /\ cond.next + 1 >= pos
        BY <1>1, <3>1
      <4>3. body.next \in {0} \cup (cond.next + 1)..(Len(toks) + 1)
        BY <1>4, <4>1, <4>2
      <4>4. body.next \in {0} \cup pos..(Len(toks) + 1)
        BY <1>1, <4>2, <4>3
      <4>5. LET r == Ended(toks, R(Node(type, "", cond.node, body.node), body.next))
            IN r.next = 0 \/ Onward(r.next)
        BY <1>1, <1>3, <1>12, <4>4, EndedAhead
      <4> QED  BY <4>1, <4>5, StatementTurns
    <3> QED  BY <3>2, <3>3
  <2> QED  BY <2>3, <2>4
<1>13. CASE If
  <2>1. There(toks, pos) /\ There(toks, pos + 1) => pos + 2 \in (pos + 1)..(Len(toks) + 1)
    BY <1>1 DEF There
  <2> QED  BY <1>2, <1>12, <1>13, <2>1 DEF If, At, Onward
<1>14. CASE Else
  <2>1. There(toks, pos)
    BY <1>14 DEF Else, At
  <2>2. CASE At(toks, pos + 1, "punct", "{")
    BY <1>2, <1>14, <2>2, OpenTurns DEF Else, At
  <2>3. CASE ~At(toks, pos + 1, "punct", "{")
    <3>1. PICK e : e = ReadExpr(toks, pos + 1) /\ Statement(Ended(toks, R(Node("Else", "", NULL, e.node), e.next)))
      BY <1>14, <2>3 DEF Else
    <3>2. e.next \in {0} \cup (pos + 1)..(Len(toks) + 1)
      <4>1. Onward(pos + 1)
        BY <1>2, <2>1
      <4>2. pos + 1 \in 1..(Len(toks) + 1)
        BY <1>1, <4>1 DEF Onward
      <4> QED  BY <1>4, <3>1, <4>2
    <3>3. e.next \in {0} \cup pos..(Len(toks) + 1)
      BY <1>1, <3>2
    <3>4. LET r == Ended(toks, R(Node("Else", "", NULL, e.node), e.next)) IN r.next = 0 \/ Onward(r.next)
      BY <1>1, <1>3, <2>1, <3>3, EndedAhead
    <3> QED  BY <3>1, <3>4, StatementTurns
  <2> QED  BY <2>2, <2>3
<1>15. CASE CallSection
  BY <1>2, <1>3, <1>15, StatementTurns DEF CallSection, IsKeyword, At
<1>16. CASE ExprStatement
  <2>1. PICK e : e = ReadExpr(toks, pos) /\ There(toks, pos) /\ Statement(Ended(toks, e))
    BY <1>16 DEF ExprStatement
  <2>2. e.next \in {0} \cup pos..(Len(toks) + 1)
    BY <1>1, <1>4, <2>1
  <2>3. Ended(toks, e).next = 0 \/ Onward(Ended(toks, e).next)
    BY <1>1, <2>1, <2>2, EndedAhead
  <2> QED  BY <2>1, <2>3, StatementTurns
<1>17. CASE CloseBlock \/ EndOfTokens
  <2>1. pos \in pos..(Len(toks) + 1) /\ (There(toks, pos) => pos + 1 \in pos..(Len(toks) + 1))
    BY <1>1, <1>2 DEF Onward
  <2>2. CASE CloseBlock
    BY <2>1, <2>2, CloseTurns DEF CloseBlock, At
  <2>3. CASE EndOfTokens
    BY <2>1, <2>3, CloseTurns DEF EndOfTokens
  <2> QED  BY <1>17, <2>2, <2>3
<1>18. CASE NameAtEnd \/ Finish
  BY <1>18 DEF NameAtEnd, Finish
<1> QED
  BY <1>5, <1>6, <1>7, <1>8, <1>9, <1>10, <1>11, <1>13, <1>14, <1>15, <1>16, <1>17, <1>18
     DEF Next, Foreign

LEMMA TurnsForward ==
  ASSUME Inv, Next, stage = "parse", stage' = "parse", ~StartsNothing
  PROVE  Ahead' < Ahead
<1>1. pos \in Nat /\ Len(toks) \in Nat /\ Nested(stack) /\ Len(stack) \in Nat \ {0}
  BY Tokens, NestedLength DEF Inv
<1>2. toks' = toks
  BY DEF Next, NullStatement, Declaration, LastObj, OpenUnit, UnitWithoutBody, NameAtEnd, Stray,
         OpenSection, SectionWithoutBody, Foreign, If, IfElse, Else, CallSection, ExprStatement,
         CloseBlock, EndOfTokens, Finish, Statement, Dropped, Open, Close
<1>3. Turn
  BY Turns
<1>4. CASE \E n : pos' = n[1] /\ Onward(n[1]) /\ stack' = Delivered(stack, n[2])
  <2>1. Len(stack') \in Nat /\ Len(stack') <= Len(stack) /\ Onward(pos')
    BY <1>1, <1>4, DeliveredShort
  <2> QED  BY <1>1, <1>2, <2>1 DEF Ahead, Onward
<1>5. CASE \E f : pos' \in (pos + 2)..(Len(toks) + 1) /\ stack' = Append(stack, f)
  <2>1. Len(stack') = Len(stack) + 1
    BY <1>1, <1>5, Appended, NestedLength
  <2> QED  BY <1>1, <1>2, <1>5, <2>1 DEF Ahead
<1>6. CASE \E n : /\ pos' \in pos..(Len(toks) + 1) /\ Top.type # Module
                 /\ stack' = Delivered(Front(stack), n)
  <2>1. Len(stack) > 1
    <3>1. Top.type \in BlocksAt(Len(stack))
      BY <1>1, LastTyped DEF Top
    <3>2. Len(stack) # 1
      BY <1>6, <3>1 DEF BlocksAt
    <3> QED  BY <1>1, <3>2
  <2>2. Nested(Front(stack)) /\ Len(Front(stack)) = Len(stack) - 1
    BY <1>1, <2>1, Removed
  <2>3. Len(stack') \in Nat /\ Len(stack') <= Len(stack) - 1
    BY <1>6, <2>2, DeliveredShort
  <2> QED  BY <1>1, <1>2, <1>6, <2>3 DEF Ahead
<1> QED  BY <1>3, <1>4, <1>5, <1>6 DEF Turn

-----------------------------------------------------------------------------
(* Theorems.                                                               *)

(* For every token list and every reader of expressions and declarations   *)
(* that does not run past the end: the parser's position stays within the  *)
(* tokens and the one behind them, no more is dropped than was consumed,   *)
(* and a block is of a kind that may be at its depth.                      *)
THEOREM ParserTyped == Spec => []TypeOK
<1>1. Inv => TypeOK
  <2> SUFFICES ASSUME Inv PROVE TypeOK
    OBVIOUS
  <2>1. ASSUME NEW k \in DOMAIN stack
        PROVE  stack[k].slots # <<>> /\ stack[k].has \subseteq Sections /\ stack[k].type \in BlocksAt(k)
    BY DEF Inv, Nested, FrameTyped
  <2> QED  BY <2>1 DEF Inv, TypeOK
<1> QED  BY <1>1, InvHolds, PTL

(* The loops that link a block's statements move its fields to the front:  *)
(* in the tree of a token list nothing was dropped from, no field of the   *)
(* module or of a name block is behind a section or a name block.          *)
THEOREM FieldsComeFirst == Spec => []FieldsFirst
<1>1. Inv => FieldsFirst
  BY DEF Inv
<1> QED  BY <1>1, InvHolds, PTL

(* build_sce_ast_name_field notes the sections it has met: a name block of *)
(* the tree has each once, or ends in the error of the second.             *)
THEOREM SectionsComeOnce == Spec => []SectionsOnce
<1>1. Inv => SectionsOnce
  BY DEF Inv
<1> QED  BY <1>1, InvHolds, PTL

(* Every turn of a block's loop consumes a token or ends a block, but for  *)
(* the one that spins: there is no other way for the parser not to come to *)
(* an end, if the readers come back.                                       *)
THEOREM BlocksComeToAnEnd == Spec => TurnsRunOut
<1>1. Inv /\ [Next]_vars =>
        [stage = "parse" /\ stage' = "parse" => StartsNothing \/ Ahead' < Ahead]_vars
  BY TurnsForward
<1> QED  BY <1>1, InvHolds, PTL DEF Spec, TurnsRunOut
=============================================================================
