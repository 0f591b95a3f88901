--------------------------- MODULE LexerTextProofs ---------------------------
(***************************************************************************)
(* What becomes of the bytes of the source: none is lost between the modes *)
(* of the loop, for every source, alphabet and room of the token list.     *)
(***************************************************************************)
EXTENDS LexerProofs, FiniteSetTheorems

-----------------------------------------------------------------------------
(* The bytes that are in a token or in the stack buffer.                   *)

InTokens(o, q) == \E k \in DOMAIN o.toks : \E i \in DOMAIN o.toks[k].at : o.toks[k].at[i] = q
InBuffer(a, q) == \E i \in DOMAIN a : a[i] = q
Holds(o, q) == InTokens(o, q) \/ InBuffer(o.buf, q)

(* They are before p if the output is sound up to p.                       *)
LEMMA HeldBefore ==
  ASSUME NEW o, NEW p \in Nat, Sound(o, p), NEW q, Holds(o, q)
  PROVE  q \in Nat /\ q < p
<1>1. o \in Output /\ TokensSound(o, p) /\ Behind(o, o.buf, p)
  BY DEF Sound
<1>2. CASE InTokens(o, q)
  <2>1. PICK k \in DOMAIN o.toks : \E i \in DOMAIN o.toks[k].at : o.toks[k].at[i] = q
    BY <1>2 DEF InTokens
  <2>2. o.toks[k].at \in Seq(Nat) /\ Below(o.toks[k].at, p)
    BY <1>1, TokenTyped DEF TokensSound
  <2> QED  BY <2>1, <2>2 DEF Below
<1>3. CASE InBuffer(o.buf, q)
  BY <1>1, <1>3 DEF InBuffer, Behind, Below
<1> QED  BY <1>2, <1>3 DEF Holds

(* An append to the list adds the token's bytes, unless the list starves.  *)
LEMMA ListedHolds ==
  ASSUME NEW o \in Output, NEW a \in Seq(Nat), NEW type \in Types,
         NEW l \in Listed(o, a, type), ~l.starved
  PROVE  /\ ~o.starved /\ l.buf = o.buf
         /\ l.toks = Append(o.toks, [type |-> type, at |-> a]) /\ l.toks # o.toks
         /\ \A q : InTokens(l, q) <=> InTokens(o, q) \/ InBuffer(a, q)
<1> DEFINE t == [type |-> type, at |-> a]
           n == Len(o.toks)
<1>1. l = Added(o, a, type)
  BY DEF Listed, Output
<1>2. t \in Token /\ o.toks \in Seq(Token) /\ n \in Nat /\ t.at = a
  BY DEF Token, Output
<1>3. l.toks = Append(o.toks, t) /\ l.buf = o.buf /\ l.starved = o.starved
  BY <1>1 DEF Added, Output
<1>4. /\ DOMAIN l.toks = 1..(n + 1) /\ DOMAIN o.toks = 1..n /\ l.toks # o.toks
      /\ \A k \in 1..n : l.toks[k] = o.toks[k]
      /\ l.toks[n + 1] = t
  BY <1>2, <1>3
<1> HIDE DEF t, n
<1>5. ASSUME NEW q, InTokens(l, q) PROVE InTokens(o, q) \/ InBuffer(a, q)
  <2>1. PICK k \in 1..(n + 1) : \E i \in DOMAIN l.toks[k].at : l.toks[k].at[i] = q
    BY <1>4, <1>5 DEF InTokens
  <2>2. CASE k = n + 1
    BY <1>2, <1>4, <2>1, <2>2 DEF InBuffer
  <2>3. CASE k \in 1..n
    BY <1>4, <2>1, <2>3 DEF InTokens
  <2> QED  BY <1>2, <2>2, <2>3 DEF n
<1>6. ASSUME NEW q, InTokens(o, q) \/ InBuffer(a, q) PROVE InTokens(l, q)
  <2>1. CASE InTokens(o, q)
    <3>1. PICK k \in 1..n : \E i \in DOMAIN o.toks[k].at : o.toks[k].at[i] = q
      BY <1>4, <2>1 DEF InTokens
    <3>2. k \in DOMAIN l.toks /\ l.toks[k] = o.toks[k]
      BY <1>2, <1>4
    <3> QED  BY <3>1, <3>2 DEF InTokens
  <2>2. CASE InBuffer(a, q)
    <3>1. n + 1 \in DOMAIN l.toks /\ l.toks[n + 1].at = a
      BY <1>2, <1>4
    <3> QED  BY <2>2, <3>1 DEF InBuffer, InTokens
  <2> QED  BY <1>6, <2>1, <2>2
<1> QED  BY <1>3, <1>4, <1>5, <1>6 DEF t

(* A token made of the stack buffer holds what the buffer held.            *)
LEMMA ClosedHolds ==
  ASSUME NEW o \in Output, NEW type \in Types, NEW c \in Closed(o, type), ~c.starved
  PROVE  /\ ~o.starved /\ c.buf = <<>>
         /\ c.toks = Append(o.toks, [type |-> type, at |-> o.buf])
         /\ \A q : Holds(c, q) <=> Holds(o, q)
<1>1. PICK l \in Listed(o, o.buf, type) : c = IF l.toks = o.toks THEN l ELSE Emptied(l)
  BY DEF Closed
<1>2. o.buf \in Seq(Nat)
  BY DEF Output
<1>3. ~l.starved
  <2>1. l \in {Added(o, o.buf, type), [o EXCEPT !.starved = TRUE]}
    BY <1>1 DEF Listed
  <2>2. CASE l = Added(o, o.buf, type)
    BY <1>1, <2>2 DEF Added, Emptied, Output
  <2>3. CASE l = [o EXCEPT !.starved = TRUE]
    BY <1>1, <2>3 DEF Emptied, Output
  <2> QED  BY <2>1, <2>2, <2>3
<1>4. PICK a : a = o.buf
  OBVIOUS
<1>5. /\ ~o.starved /\ l.buf = o.buf
      /\ l.toks = Append(o.toks, [type |-> type, at |-> a]) /\ l.toks # o.toks
      /\ \A q : InTokens(l, q) <=> InTokens(o, q) \/ InBuffer(a, q)
  BY <1>1, <1>2, <1>3, <1>4, ListedHolds
<1>6. c = Emptied(l) /\ l = Added(o, o.buf, type)
  BY <1>1, <1>5 DEF Listed, Output
<1>7. c.buf = <<>> /\ c.toks = l.toks
  BY <1>6 DEF Emptied, Added, Output
<1>8. \A q : InTokens(c, q) <=> InTokens(l, q)
  BY <1>7 DEF InTokens
<1>9. \A q : ~InBuffer(c.buf, q)
  BY <1>7 DEF InBuffer
<1> QED  BY <1>4, <1>5, <1>7, <1>8, <1>9 DEF Holds

LEMMA FlushHolds ==
  ASSUME NEW o \in Output, NEW type \in Types, NEW c \in Flush(o, type), ~c.starved
  PROVE  /\ ~o.starved /\ c.buf = <<>>
         /\ \A q : Holds(c, q) <=> Holds(o, q)
BY ClosedHolds DEF Flush

LEMMA FlushWordHolds ==
  ASSUME NEW o \in Output, NEW c \in FlushWord(o), ~c.starved
  PROVE  /\ ~o.starved /\ c.buf = <<>>
         /\ \A q : Holds(c, q) <=> Holds(o, q)
BY ClosedHolds, WordTyped DEF FlushWord

(* A byte is put behind the stack buffer.                                  *)
LEMMA PushHolds ==
  ASSUME NEW o \in Output, NEW p \in Nat
  PROVE  /\ Push(o, p) \in Output /\ Push(o, p).starved = o.starved
         /\ Push(o, p).toks = o.toks /\ Push(o, p).buf = Append(o.buf, p)
         /\ \A q : Holds(Push(o, p), q) <=> Holds(o, q) \/ q = p
<1> DEFINE n == Len(o.buf)
           b == Append(o.buf, p)
<1>1. o.buf \in Seq(Nat) /\ n \in Nat /\ b \in Seq(Nat)
      /\ DOMAIN b = 1..(n + 1) /\ DOMAIN o.buf = 1..n
      /\ (\A i \in 1..n : b[i] = o.buf[i]) /\ b[n + 1] = p
  BY DEF Output
<1>2. Push(o, p) = [o EXCEPT !.buf = b]
  BY DEF Push, Output
<1> HIDE DEF b, n
<1>3. Push(o, p) \in Output /\ Push(o, p).starved = o.starved
      /\ Push(o, p).toks = o.toks /\ Push(o, p).buf = b
  BY <1>1, <1>2 DEF Output
<1>4. \A q : InBuffer(b, q) <=> InBuffer(o.buf, q) \/ q = p
  <2>1. ASSUME NEW q, InBuffer(b, q) PROVE InBuffer(o.buf, q) \/ q = p
    <3>1. PICK i \in 1..(n + 1) : b[i] = q
      BY <1>1, <2>1 DEF InBuffer
    <3>2. i = n + 1 \/ i \in 1..n
      BY <1>1
    <3> QED  BY <1>1, <3>1, <3>2 DEF InBuffer
  <2>2. ASSUME NEW q, InBuffer(o.buf, q) \/ q = p PROVE InBuffer(b, q)
    <3>1. n + 1 \in DOMAIN b /\ \A i \in DOMAIN o.buf : i \in DOMAIN b
      BY <1>1
    <3> QED  BY <1>1, <2>2, <3>1 DEF InBuffer
  <2> QED  BY <2>1, <2>2
<1>5. \A q : InTokens(Push(o, p), q) <=> InTokens(o, q)
  BY <1>3 DEF InTokens
<1> QED  BY <1>3, <1>4, <1>5 DEF Holds, b

-----------------------------------------------------------------------------
(* No byte is lost.                                                        *)

Skipped == Blanks \cup {"\"", "'", "\\"}
CommentModes == {"comment", "line", "multi", "multiEnd"}

NoneHeld(o, q, p) == \A r \in q..p : ~Holds(o, r)

Commented(o, p) == \E q \in 1..p : text[q] = "@" /\ Reaches(q, p) /\ NoneHeld(o, q, p)

HasPlace(o, p) == Holds(o, p) \/ text[p] \in Skipped \/ Commented(o, p)

(* The comment that mode m is in before p starts at q; it reaches what was *)
(* read of it, and in a long one the mode says whether the colons so far   *)
(* are odd.                                                                *)
CommentFrom(q, o, m, p) ==
  /\ text[q] = "@" /\ NoneHeld(o, q, p - 1)
  /\ m = "comment" => q = p - 1
  /\ m = "line" =>
       /\ q < p - 1 /\ text[q + 1] # ":"
       /\ \A r \in (q + 2)..(p - 1) : text[r] # "\n"
  /\ m \in {"multi", "multiEnd"} =>
       /\ q < p - 1 /\ text[q + 1] = ":"
       /\ \A r \in (q + 2)..(p - 2) : text[r + 1] = "@" => Colons(q, r) % 2 = 0
       /\ Colons(q, p - 1) % 2 = (IF m = "multiEnd" THEN 1 ELSE 0)

(* What was read has a place, a dot that was read is remembered, and only  *)
(* an operator's byte is in the stack buffer when the next one is looked   *)
(* at.                                                                     *)
ReadUpTo(m, p) == IF m = "dot" THEN p - 2 ELSE p - 1
Kept(o, m, p) ==
  /\ \A q \in 1..ReadUpTo(m, p) : HasPlace(o, q)
  /\ m = "dot" => text[p - 1] = "."
  /\ m = "operator" => Len(o.buf) = 1
  /\ m \in CommentModes => \E q \in 1..(p - 1) : CommentFrom(q, o, m, p)

KeptInv == stage = "lex" /\ ~out.starved => Kept(out, mode, pos)

(* Colons counts the run of colons that ends at r.                         *)
LEMMA ColonRun ==
  ASSUME NEW q \in Nat, NEW r \in Nat, r >= q + 1
  PROVE  /\ Colons(q, r) \in Nat
         /\ Colons(q, q + 1) = 0
         /\ text[r + 1] = ":" => Colons(q, r + 1) = Colons(q, r) + 1
         /\ text[r + 1] # ":" => Colons(q, r + 1) = 0
<1> DEFINE Run(n) == {s \in (q + 2)..n : \A u \in s..n : text[u] = ":"}
<1>1. \A n \in Nat : IsFiniteSet(Run(n)) /\ Colons(q, n) = Cardinality(Run(n))
  <2> SUFFICES ASSUME NEW n \in Nat PROVE IsFiniteSet(Run(n))
    BY DEF Colons
  <2>1. IsFiniteSet((q + 2)..n)
    BY FS_Interval
  <2> QED  BY <2>1, FS_Subset
<1>2. Colons(q, r) \in Nat
  BY <1>1, FS_CardinalityType
<1>3. Colons(q, q + 1) = 0
  <2>1. Run(q + 1) = {}
    OBVIOUS
  <2> QED  BY <1>1, <2>1, FS_EmptySet
<1>4. ASSUME text[r + 1] # ":" PROVE Colons(q, r + 1) = 0
  <2>1. Run(r + 1) = {}
    <3>1. \A s \in (q + 2)..(r + 1) : r + 1 \in s..(r + 1)
      OBVIOUS
    <3> QED  BY <1>4, <3>1
  <2> QED  BY <1>1, <2>1, FS_EmptySet
<1>5. ASSUME text[r + 1] = ":" PROVE Colons(q, r + 1) = Colons(q, r) + 1
  <2>1. Run(r + 1) = Run(r) \cup {r + 1} /\ r + 1 \notin Run(r)
    <3>1. \A s \in (q + 2)..(r + 1) : s = r + 1 \/ s \in (q + 2)..r
      OBVIOUS
    <3>2. \A s \in (q + 2)..r : s..(r + 1) = (s..r) \cup {r + 1}
      OBVIOUS
    <3>3. r + 1 \in (q + 2)..(r + 1) /\ (r + 1)..(r + 1) = {r + 1} /\ r + 1 \notin (q + 2)..r
      OBVIOUS
    <3>4. \A s \in (q + 2)..r : s \in (q + 2)..(r + 1)
      OBVIOUS
    <3>5. ASSUME NEW s \in Run(r + 1) PROVE s \in Run(r) \cup {r + 1}
      BY <3>1, <3>2
    <3>6. ASSUME NEW s \in Run(r) \cup {r + 1} PROVE s \in Run(r + 1)
      BY <1>5, <3>2, <3>3, <3>4
    <3> QED  BY <3>3, <3>5, <3>6
  <2> HIDE DEF Run
  <2>2. Cardinality(Run(r + 1)) = Cardinality(Run(r)) + 1
    BY <1>1, <2>1, FS_AddElement
  <2> QED  BY <1>1, <2>2
<1> QED  BY <1>2, <1>3, <1>4, <1>5

LEMMA TextKept ==
  ASSUME UNCHANGED text
  PROVE  /\ \A q, r : Colons(q, r)' = Colons(q, r)
         /\ \A q, p : Reaches(q, p)' <=> Reaches(q, p)
<1>1. \A q, r : Colons(q, r)' = Colons(q, r)
  BY DEF Colons
<1> QED  BY <1>1 DEF Reaches

(* None of this looks at anything but its arguments and the text.          *)
LEMMA KeptPrimed ==
  ASSUME UNCHANGED text, ~out'.starved => Kept(out', mode', pos')
  PROVE  KeptInv'
<1> SUFFICES ASSUME ~out'.starved PROVE Kept(out, mode, pos)'
  BY DEF KeptInv
<1> PICK o, m, p : o = out' /\ m = mode' /\ p = pos'
  OBVIOUS
<1>1. Kept(o, m, p)
  OBVIOUS
<1>2. \A q : HasPlace(o, q)' <=> HasPlace(o, q)
  BY TextKept DEF HasPlace, Commented, Reaches, NoneHeld, Holds, InTokens, InBuffer
<1>3. \A q : CommentFrom(q, o, m, p)' <=> CommentFrom(q, o, m, p)
  BY TextKept DEF CommentFrom, NoneHeld, Holds, InTokens, InBuffer
<1>4. Kept(o, m, p)'
  BY <1>1, <1>2, <1>3 DEF Kept
<1> QED  BY <1>4

(* What has a place keeps it if the bytes that are held are the same up to *)
(* there.                                                                  *)
LEMMA PlaceKept ==
  ASSUME NEW o, NEW l, NEW n \in Int,
         \A p \in 1..n : HasPlace(o, p),
         \A q \in 1..n : Holds(l, q) <=> Holds(o, q)
  PROVE  \A p \in 1..n : HasPlace(l, p)
<1> SUFFICES ASSUME NEW p \in 1..n PROVE HasPlace(l, p)
  OBVIOUS
<1>1. CASE Commented(o, p)
  <2>1. PICK q \in 1..p : text[q] = "@" /\ Reaches(q, p) /\ NoneHeld(o, q, p)
    BY <1>1 DEF Commented
  <2>2. NoneHeld(l, q, p)
    BY <2>1 DEF NoneHeld
  <2> QED  BY <2>1, <2>2 DEF HasPlace, Commented
<1>2. CASE ~Commented(o, p)
  BY <1>2 DEF HasPlace
<1> QED  BY <1>1, <1>2

(* A step that takes the byte at pos.                                      *)
LEMMA TakeKept ==
  ASSUME LexerInv, KeptInv, NEW m, NEW n, In(n), n # "dot", Take(m),
         ~out'.starved =>
           /\ ~out.starved
           /\ \A q \in 1..(pos - 1) : Holds(out', q) <=> Holds(out, q)
           /\ m = "dot" => Byte = "."
           /\ m # "dot" => HasPlace(out', pos)
           /\ m = "operator" => Len(out'.buf) = 1
           /\ m \in CommentModes => \E q \in 1..pos : CommentFrom(q, out', m, pos + 1)
  PROVE  KeptInv'
<1>1. pos \in Nat /\ pos # 0 /\ pos' = pos + 1 /\ mode' = m /\ text' = text
      /\ stage = "lex" /\ mode = n
  BY DEF Take, In, LexerInv, TypeOK
<1> SUFFICES ASSUME ~out'.starved PROVE Kept(out', m, pos + 1)
  BY <1>1, KeptPrimed
<1>2. \A p \in 1..(pos - 1) : HasPlace(out, p)
  BY <1>1 DEF KeptInv, Kept, ReadUpTo
<1>3. PICK o, k : k \in Int /\ o = out' /\ k = pos - 1
  BY <1>1
<1>4. \A p \in 1..k : HasPlace(o, p)
  BY <1>2, <1>3, PlaceKept
<1>5. \A p \in 1..ReadUpTo(m, pos + 1) : HasPlace(out', p)
  <2> SUFFICES ASSUME NEW p \in 1..ReadUpTo(m, pos + 1) PROVE HasPlace(out', p)
    OBVIOUS
  <2>1. p \in 1..(pos - 1) \/ (m # "dot" /\ p = pos)
    BY <1>1 DEF ReadUpTo
  <2> QED  BY <1>3, <1>4, <2>1
<1>6. (pos + 1) - 1 = pos
  BY <1>1
<1> QED  BY <1>1, <1>5, <1>6 DEF Byte, Kept

(* A step that leaves it to the normal mode.                               *)
LEMMA AgainKept ==
  ASSUME LexerInv, KeptInv, NEW n, In(n), Again("normal"),
         ~out'.starved =>
           /\ ~out.starved
           /\ \A q \in 1..ReadUpTo(n, pos) : Holds(out', q) <=> Holds(out, q)
           /\ n = "dot" => Holds(out', pos - 1)
  PROVE  KeptInv'
<1>1. pos \in Nat /\ pos # 0 /\ pos' = pos /\ mode' = "normal" /\ text' = text
      /\ stage = "lex" /\ mode = n
  BY DEF Again, In, LexerInv, TypeOK
<1> SUFFICES ASSUME ~out'.starved PROVE Kept(out', "normal", pos)
  BY <1>1, KeptPrimed
<1>2. PICK o, k : k \in Int /\ o = out' /\ k = ReadUpTo(n, pos)
  BY <1>1 DEF ReadUpTo
<1>3. \A p \in 1..k : HasPlace(out, p)
  BY <1>1, <1>2 DEF KeptInv, Kept
<1>4. \A p \in 1..k : HasPlace(o, p)
  BY <1>2, <1>3, PlaceKept
<1>5. ASSUME NEW p \in 1..(pos - 1) PROVE HasPlace(out', p)
  <2>1. p \in 1..k \/ (n = "dot" /\ p = pos - 1)
    BY <1>1, <1>2 DEF ReadUpTo
  <2> QED  BY <1>2, <1>4, <2>1 DEF HasPlace
<1> QED  BY <1>5 DEF Kept, ReadUpTo, CommentModes

LEMMA NormalKept ==
  ASSUME LexerInv, KeptInv,
         Punct \/ StartOperator \/ SingleOperator \/ Quote \/ DotOrAt \/ Blank \/ WordByte
  PROVE  KeptInv'
<1>1. In("normal") /\ pos \in Nat /\ pos # 0 /\ Sound(out, pos) /\ out \in Output
  <2>1. In("normal")
    BY DEF Punct, StartOperator, SingleOperator, Quote, DotOrAt, Blank, WordByte
  <2> QED  BY <2>1 DEF LexerInv, TypeOK, Unused, In, Sound
<1>2. ASSUME NEW o \in FlushWord(out), ~o.starved
      PROVE  ~out.starved /\ o \in Output /\ o.buf = <<>> /\ \A q : Holds(o, q) <=> Holds(out, q)
  <2>1. o \in Output
    BY <1>1, FlushWordSound DEF Sound
  <2> QED  BY <1>1, <1>2, <2>1, FlushWordHolds
<1>3. \A q \in 1..(pos - 1) : q # pos
  BY <1>1
<1>6. CASE Punct \/ SingleOperator
  <2>1. PICK o \in FlushWord(out), type \in {"punct", "operator"} :
          out' \in Flush(Push(o, pos), type) /\ Take("normal")
    BY <1>6 DEF Punct, SingleOperator
  <2>2. ASSUME ~out'.starved
        PROVE  ~out.starved /\ \A q : Holds(out', q) <=> Holds(out, q) \/ q = pos
    <3>0. o \in Output /\ type \in Types
      BY <1>1, FlushWordSound DEF Sound, Types
    <3>1. Push(o, pos) \in Output /\ Push(o, pos).starved = o.starved
          /\ \A q : Holds(Push(o, pos), q) <=> Holds(o, q) \/ q = pos
      BY <1>1, <3>0, PushHolds
    <3>2. ~Push(o, pos).starved /\ \A q : Holds(out', q) <=> Holds(Push(o, pos), q)
      BY <2>1, <2>2, <3>0, <3>1, FlushHolds
    <3> QED  BY <1>2, <3>1, <3>2
  <2>3. ~out'.starved => HasPlace(out', pos)
    BY <2>2 DEF HasPlace
  <2> QED  BY <1>1, <1>3, <2>1, <2>2, <2>3, TakeKept DEF CommentModes
<1>7. CASE StartOperator
  <2>1. PICK o \in FlushWord(out) : out' = Push(o, pos) /\ Take("operator")
    BY <1>7 DEF StartOperator
  <2>2. ASSUME ~out'.starved
        PROVE  /\ ~out.starved /\ \A q : Holds(out', q) <=> Holds(out, q) \/ q = pos
               /\ Len(out'.buf) = 1
    <3>0. o \in Output
      BY <1>1, FlushWordSound DEF Sound
    <3>1. out'.starved = o.starved /\ out'.buf = Append(o.buf, pos)
          /\ \A q : Holds(out', q) <=> Holds(o, q) \/ q = pos
      BY <1>1, <2>1, <3>0, PushHolds
    <3> QED  BY <1>2, <2>2, <3>1
  <2>3. ~out'.starved => HasPlace(out', pos)
    BY <2>2 DEF HasPlace
  <2> QED  BY <1>1, <1>3, <2>1, <2>2, <2>3, TakeKept DEF CommentModes
<1>8. CASE Quote \/ Blank
  <2>1. PICK m \in {"normal", "char", "string"} : out' \in FlushWord(out) /\ Take(m)
    BY <1>8 DEF Quote, Blank
  <2>2. text[pos] \in Skipped
    BY <1>8 DEF Quote, Blank, Byte, Skipped
  <2>3. HasPlace(out', pos)
    BY <2>2 DEF HasPlace
  <2> QED  BY <1>1, <1>2, <2>1, <2>3, TakeKept DEF CommentModes
<1>9. CASE DotOrAt /\ Byte = "."
  <2>1. out' = out /\ Take("dot")
    BY <1>9 DEF DotOrAt
  <2> QED  BY <1>1, <1>9, <2>1, TakeKept DEF CommentModes
<1>10. CASE DotOrAt /\ Byte = "@"
  <2>1. out' = out /\ Take("comment")
    BY <1>10 DEF DotOrAt
  <2>2. NoneHeld(out', pos, pos) /\ (pos + 1) - 1 = pos
    BY <1>1, <2>1, HeldBefore DEF NoneHeld
  <2>3. Reaches(pos, pos)
    BY <1>1 DEF Reaches
  <2>4. text[pos] = "@" /\ pos \in 1..pos
    BY <1>1, <1>10 DEF Byte
  <2>5. HasPlace(out', pos)
    BY <2>2, <2>3, <2>4 DEF HasPlace, Commented
  <2>6. CommentFrom(pos, out', "comment", pos + 1)
    BY <2>2, <2>4 DEF CommentFrom
  <2> QED  BY <1>1, <2>1, <2>4, <2>5, <2>6, TakeKept
<1>11. CASE WordByte
  <2>1. out' = Push(out, pos) /\ Take("normal")
    BY <1>11 DEF WordByte
  <2>2. out'.starved = out.starved /\ \A q : Holds(out', q) <=> Holds(out, q) \/ q = pos
    BY <1>1, <2>1, PushHolds
  <2>3. HasPlace(out', pos)
    BY <2>2 DEF HasPlace
  <2> QED  BY <1>1, <1>3, <2>1, <2>2, <2>3, TakeKept DEF CommentModes
<1> QED  BY <1>6, <1>7, <1>8, <1>9, <1>10, <1>11 DEF DotOrAt

(* The operator is made of the stack buffer's byte, and of the byte after  *)
(* it if the two are in the table.                                         *)
LEMMA OperatorKept ==
  ASSUME LexerInv, KeptInv, Operator
  PROVE  KeptInv'
<1> DEFINE b   == Append(out.buf, pos)
           two == Texts(b) \in TwoByteOperators
<1>1. /\ In("operator") /\ pos \in Nat /\ pos # 0 /\ Sound(out, pos)
      /\ out \in Output /\ out.buf \in Seq(Nat)
      /\ stage = "lex" /\ mode = "operator"
  BY DEF LexerInv, TypeOK, Unused, Operator, In, Sound, Output
<1>2. Emptied(out) \in Output /\ Emptied(out).toks = out.toks /\ Emptied(out).buf = <<>>
      /\ Emptied(out).starved = out.starved
  <2>1. Emptied(out) \in Output /\ Emptied(out).toks = out.toks /\ Emptied(out).buf = <<>>
    BY <1>1, EmptiedSound DEF Sound
  <2> QED  BY <1>1, <2>1 DEF Emptied, Output
<1>3. ASSUME NEW a \in Seq(Nat), out' \in Listed(Emptied(out), a, "operator"), ~out'.starved
      PROVE  ~out.starved /\ \A q : Holds(out', q) <=> InTokens(out, q) \/ InBuffer(a, q)
  <2>1. "operator" \in Types
    BY DEF Types
  <2>2. PICK o, l : o = Emptied(out) /\ l = out'
    OBVIOUS
  <2>3. /\ ~o.starved /\ l.buf = o.buf
        /\ \A q : InTokens(l, q) <=> InTokens(o, q) \/ InBuffer(a, q)
    <3>1. PICK type \in Types : type = "operator"
      BY <2>1
    <3>2. o \in Output /\ l \in Listed(o, a, type) /\ ~l.starved
      BY <1>2, <1>3, <2>2, <3>1
    <3>3. /\ ~o.starved /\ l.buf = o.buf
          /\ l.toks = Append(o.toks, [type |-> type, at |-> a]) /\ l.toks # o.toks
          /\ \A q : InTokens(l, q) <=> InTokens(o, q) \/ InBuffer(a, q)
      BY <3>2, ListedHolds
    <3> QED  BY <3>3
  <2>4. \A q : InTokens(o, q) <=> InTokens(out, q)
    BY <1>2, <2>2 DEF InTokens
  <2>5. \A q : ~InBuffer(l.buf, q)
    BY <1>2, <2>2, <2>3 DEF InBuffer
  <2> QED  BY <1>2, <2>2, <2>3, <2>4, <2>5 DEF Holds
<1>4. /\ b \in Seq(Nat) /\ Len(b) = Len(out.buf) + 1
      /\ ~out.starved => Len(out.buf) = 1
      /\ \A q : InBuffer(b, q) <=> InBuffer(out.buf, q) \/ q = pos
  <2>1. ~out.starved => Len(out.buf) = 1
    BY <1>1 DEF KeptInv, Kept
  <2>2. \A q : InBuffer(b, q) <=> InBuffer(out.buf, q) \/ q = pos
    <3>1. /\ DOMAIN b = 1..(Len(out.buf) + 1) /\ DOMAIN out.buf = 1..Len(out.buf)
          /\ Len(out.buf) \in Nat
          /\ (\A i \in 1..Len(out.buf) : b[i] = out.buf[i]) /\ b[Len(out.buf) + 1] = pos
      BY <1>1
    <3>2. \A i : i \in 1..(Len(out.buf) + 1) <=> i \in 1..Len(out.buf) \/ i = Len(out.buf) + 1
      BY <3>1
    <3> HIDE DEF b
    <3>3. PICK n \in Nat : n = Len(out.buf)
      BY <3>1
    <3>4. ASSUME NEW q, InBuffer(b, q) PROVE InBuffer(out.buf, q) \/ q = pos
      <4>1. PICK i \in 1..(n + 1) : b[i] = q
        BY <3>1, <3>3, <3>4 DEF InBuffer
      <4> QED  BY <3>1, <3>2, <3>3, <4>1 DEF InBuffer
    <3>5. ASSUME NEW q, InBuffer(out.buf, q) \/ q = pos PROVE InBuffer(b, q)
      <4>1. n + 1 \in DOMAIN b /\ \A i \in DOMAIN out.buf : i \in DOMAIN b
        BY <3>1, <3>3
      <4> QED  BY <3>1, <3>3, <3>5, <4>1 DEF InBuffer
    <3> QED  BY <3>4, <3>5
  <2> QED  BY <1>1, <2>1, <2>2
<1>5. ~out'.starved => ~out.starved
  <2>1. PICK a \in Seq(Nat) : out' \in Listed(Emptied(out), a, "operator")
    <3>1. SubSeq(b, 1, 2) \in Seq(Nat) /\ SubSeq(b, 1, 1) \in Seq(Nat)
      <4>1. Len(out.buf) >= 1
        BY <1>1 DEF LexerInv
      <4> QED  BY <1>4, <4>1
    <3>2. PICK k \in {1, 2} : out' \in Listed(Emptied(out), SubSeq(b, 1, k), "operator")
      BY DEF Operator
    <3> QED  BY <3>1, <3>2
  <2> QED  BY <1>3, <2>1
<1>6. CASE two
  <2>1. Take("normal") /\ out' \in Listed(Emptied(out), SubSeq(b, 1, 2), "operator")
    BY <1>6 DEF Operator
  <2>2. ASSUME ~out'.starved PROVE \A q : Holds(out', q) <=> Holds(out, q) \/ q = pos
    <3>1. SubSeq(b, 1, 2) = b
      <4>1. Len(b) = 2
        <5>1. Len(out.buf) = 1
          BY <1>4, <1>5, <2>2
        <5> HIDE DEF b
        <5> QED  BY <1>4, <5>1
      <4>2. \A s \in Seq(Nat) : Len(s) = 2 => SubSeq(s, 1, 2) = s
        OBVIOUS
      <4> QED  BY <1>4, <4>1, <4>2
    <3>2. \A q : Holds(out', q) <=> InTokens(out, q) \/ InBuffer(b, q)
      BY <1>3, <1>4, <2>1, <2>2, <3>1
    <3> QED  BY <1>4, <3>2 DEF Holds
  <2>3. ~out'.starved => HasPlace(out', pos)
    BY <2>2 DEF HasPlace
  <2>4. \A q \in 1..(pos - 1) : q # pos
    BY <1>1
  <2> QED  BY <1>1, <1>5, <2>1, <2>2, <2>3, <2>4, TakeKept DEF CommentModes
<1>7. CASE ~two
  <2>1. Again("normal") /\ out' \in Listed(Emptied(out), SubSeq(b, 1, 1), "operator")
    BY <1>7 DEF Operator
  <2>2. ASSUME ~out'.starved PROVE \A q : Holds(out', q) <=> Holds(out, q)
    <3>1. SubSeq(b, 1, 1) = out.buf
      <4>1. Len(out.buf) = 1
        BY <1>4, <1>5, <2>2
      <4> QED  BY <1>1, <4>1
    <3>2. \A q : Holds(out', q) <=> InTokens(out, q) \/ InBuffer(out.buf, q)
      BY <1>1, <1>3, <2>1, <2>2, <3>1
    <3> QED  BY <3>2 DEF Holds
  <2> QED  BY <1>1, <1>5, <2>1, <2>2, AgainKept
<1> QED  BY <1>6, <1>7

(* The dot becomes an operator, or a part of the word.                     *)
LEMMA DotKept ==
  ASSUME LexerInv, KeptInv, Dot
  PROVE  KeptInv'
<1>1. /\ In("dot") /\ pos \in Nat /\ pos - 1 \in Nat /\ Sound(out, pos - 1) /\ out \in Output
      /\ Again("normal")
  BY DEF LexerInv, TypeOK, Unused, Dot, In, Sound
<1>2. PICK p \in Nat : p = pos - 1
  BY <1>1
<1>3. ASSUME ~out'.starved
      PROVE  ~out.starved /\ \A q : Holds(out', q) <=> Holds(out, q) \/ q = p
  <2>1. CASE out' = Push(out, p)
    BY <1>1, <1>3, <2>1, PushHolds
  <2>2. CASE \E o \in FlushWord(out) : out' \in Flush(Push(o, p), "operator")
    <3>1. PICK o \in FlushWord(out) : out' \in Flush(Push(o, p), "operator")
      BY <2>2
    <3>2. o \in Output /\ "operator" \in Types
      BY <1>1, <1>2, FlushWordSound DEF Sound, Types
    <3>3. Push(o, p) \in Output /\ Push(o, p).starved = o.starved
          /\ \A q : Holds(Push(o, p), q) <=> Holds(o, q) \/ q = p
      BY <3>2, PushHolds
    <3>4. ~Push(o, p).starved /\ \A q : Holds(out', q) <=> Holds(Push(o, p), q)
      BY <1>3, <3>1, <3>2, <3>3, FlushHolds
    <3>5. ~out.starved /\ \A q : Holds(o, q) <=> Holds(out, q)
      BY <1>1, <3>1, <3>3, <3>4, FlushWordHolds
    <3> QED  BY <3>3, <3>4, <3>5
  <2> QED  BY <1>2, <2>1, <2>2 DEF Dot
<1>4. \A q \in 1..ReadUpTo("dot", pos) : q # p
  BY <1>1, <1>2 DEF ReadUpTo
<1> QED  BY <1>1, <1>2, <1>3, <1>4, AgainKept

(* A byte of a string is kept, or it is a quote, a backslash or a line end *)
(* between two strings.                                                    *)
LEMMA StringKept ==
  ASSUME LexerInv, KeptInv, String \/ Escape \/ GoOnAfterString \/ EndString
  PROVE  KeptInv'
<1>1. PICK n \in {"string", "escape", "after"} : In(n)
  BY DEF String, Escape, GoOnAfterString, EndString
<1>2. pos \in Nat /\ pos # 0 /\ out \in Output
  BY <1>1 DEF LexerInv, TypeOK, Unused, In, Sound
<1>3. CASE EndString
  <2>1. out' \in Closed(out, "str") /\ Again("normal") /\ "str" \in Types
    BY <1>3 DEF EndString, Types
  <2>2. ~out'.starved => ~out.starved /\ \A q : Holds(out', q) <=> Holds(out, q)
    BY <1>2, <2>1, ClosedHolds
  <2> QED  BY <1>1, <2>1, <2>2, AgainKept
<1>4. CASE String \/ Escape \/ GoOnAfterString
  <2>1. PICK m \in {"string", "escape", "after"} : Take(m)
    BY <1>4 DEF String, Escape, GoOnAfterString
  <2>2. out' = Push(out, pos) \/ (out' = out /\ text[pos] \in Skipped)
    <3>1. CASE String
      BY <3>1 DEF String, Byte, Skipped
    <3>2. CASE Escape \/ GoOnAfterString
      BY <3>2 DEF Escape, GoOnAfterString, Byte, Skipped, Blanks
    <3> QED  BY <1>4, <3>1, <3>2
  <2>3. CASE out' = Push(out, pos)
    <3>1. out'.starved = out.starved /\ \A q : Holds(out', q) <=> Holds(out, q) \/ q = pos
      BY <1>2, <2>3, PushHolds
    <3>2. HasPlace(out', pos) /\ \A q \in 1..(pos - 1) : q # pos
      BY <1>2, <3>1 DEF HasPlace
    <3> QED  BY <1>1, <2>1, <3>1, <3>2, TakeKept DEF CommentModes
  <2>4. CASE out' = out /\ text[pos] \in Skipped
    <3>1. HasPlace(out', pos)
      BY <2>4 DEF HasPlace
    <3> QED  BY <1>1, <2>1, <2>4, <3>1, TakeKept DEF CommentModes
  <2> QED  BY <2>2, <2>3, <2>4
<1> QED  BY <1>3, <1>4

(* A byte in a comment belongs to it, and the mode behind it says what the *)
(* comment waits for.                                                      *)
LEMMA CommentGrows ==
  ASSUME NEW p \in Nat, NEW q \in 1..(p - 1), NEW m \in CommentModes,
         Sound(out, p), CommentFrom(q, out, m, p)
  PROVE  /\ HasPlace(out, p)
         /\ NextInComment(m, text[p]) \in CommentModes =>
              CommentFrom(q, out, NextInComment(m, text[p]), p + 1)
<1> DEFINE n == NextInComment(m, text[p])
<1>1. /\ q \in Nat /\ q < p /\ q \in 1..p /\ p - 1 \in Nat /\ p - 1 >= q
      /\ (p + 1) - 1 = p /\ (p + 1) - 2 = p - 1 /\ (p - 1) + 1 = p /\ (p - 2) + 1 = p - 1
  OBVIOUS
<1>2. NoneHeld(out, q, p)
  <2> SUFFICES ASSUME NEW r \in q..p PROVE ~Holds(out, r)
    BY DEF NoneHeld
  <2>1. r = p \/ r \in q..(p - 1)
    BY <1>1
  <2>2. ~Holds(out, p)
    BY HeldBefore
  <2> QED  BY <2>1, <2>2 DEF CommentFrom, NoneHeld
<1>3. Reaches(q, p)
  <2>1. CASE m = "comment"
    <3>1. q + 2 > p - 1 /\ q + 2 > p - 2
      BY <2>1 DEF CommentFrom
    <3> QED  BY <1>1, <3>1 DEF Reaches
  <2>2. CASE m = "line"
    BY <2>2 DEF CommentFrom, Reaches
  <2>3. CASE m \in {"multi", "multiEnd"}
    BY <1>1, <2>3 DEF CommentFrom, Reaches
  <2> QED  BY <2>1, <2>2, <2>3 DEF CommentModes
<1>4. HasPlace(out, p)
  BY <1>1, <1>2, <1>3 DEF HasPlace, Commented, CommentFrom
<1>5. ASSUME n \in CommentModes PROVE CommentFrom(q, out, n, p + 1)
  <2>0. text[q] = "@"
    BY DEF CommentFrom
  <2>1. CASE m = "comment"
    <3>1. q = p - 1 /\ p = q + 1 /\ n \in {"multi", "line"} /\ (n = "multi" <=> text[p] = ":")
      BY <1>1, <2>1 DEF CommentFrom, NextInComment
    <3>2. CASE n = "multi"
      <4>1. Colons(q, p) = 0
        BY <1>1, <3>1, ColonRun
      <4>2. q < p /\ text[q + 1] = ":" /\ q + 2 > p - 1
        BY <1>1, <3>1, <3>2
      <4>3. \A r \in (q + 2)..(p - 1) : FALSE
        BY <1>1, <4>2
      <4>4. Colons(q, p) % 2 = 0
        BY <4>1
      <4> HIDE DEF n
      <4> QED  BY <1>1, <1>2, <2>0, <3>2, <4>2, <4>3, <4>4 DEF CommentFrom
    <3>3. CASE n = "line"
      <4>1. q < p /\ text[q + 1] # ":" /\ \A r \in (q + 2)..p : FALSE
        BY <1>1, <3>1, <3>3
      <4> HIDE DEF n
      <4> QED  BY <1>1, <1>2, <2>0, <3>3, <4>1 DEF CommentFrom
    <3> QED  BY <3>1, <3>2, <3>3
  <2>2. CASE m = "line"
    <3>1. n = "line" /\ text[p] # "\n"
      BY <1>5, <2>2 DEF NextInComment, CommentModes
    <3>2. q < p /\ text[q + 1] # ":" /\ \A r \in (q + 2)..p : r = p \/ r \in (q + 2)..(p - 1)
      BY <1>1, <2>2 DEF CommentFrom
    <3>3. \A r \in (q + 2)..p : text[r] # "\n"
      BY <2>2, <3>1, <3>2 DEF CommentFrom
    <3> HIDE DEF n
    <3> QED  BY <1>1, <1>2, <2>0, <3>1, <3>2, <3>3 DEF CommentFrom
  <2>3. CASE m \in {"multi", "multiEnd"}
    <3>1. /\ q < p - 1 /\ text[q + 1] = ":"
          /\ \A r \in (q + 2)..(p - 2) : text[r + 1] = "@" => Colons(q, r) % 2 = 0
          /\ Colons(q, p - 1) % 2 = (IF m = "multiEnd" THEN 1 ELSE 0)
      BY <2>3 DEF CommentFrom
    <3>2. /\ n \in {"multi", "multiEnd"}
          /\ text[p] = "@" => m = "multi"
          /\ n = "multiEnd" <=> m = "multi" /\ text[p] = ":"
      BY <1>5, <2>3 DEF NextInComment, CommentModes
    <3>3. /\ Colons(q, p - 1) \in Nat
          /\ text[p] = ":" => Colons(q, p) = Colons(q, p - 1) + 1
          /\ text[p] # ":" => Colons(q, p) = 0
      <4>1. PICK k \in Nat : k = p - 1 /\ k >= q + 1 /\ k + 1 = p
        BY <1>1, <3>1
      <4>2. /\ Colons(q, k) \in Nat
            /\ text[k + 1] = ":" => Colons(q, k + 1) = Colons(q, k) + 1
            /\ text[k + 1] # ":" => Colons(q, k + 1) = 0
        BY <1>1, <4>1, ColonRun
      <4> QED  BY <4>1, <4>2
    <3>4. Colons(q, p) % 2 = (IF n = "multiEnd" THEN 1 ELSE 0)
      <4>1. PICK c \in Nat : c = Colons(q, p - 1)
        BY <3>3
      <4> HIDE DEF n
      <4>2. CASE text[p] = ":"
        BY <2>3, <3>1, <3>2, <3>3, <4>1, <4>2
      <4>3. CASE text[p] # ":"
        BY <3>2, <3>3, <4>3
      <4> QED  BY <4>2, <4>3
    <3>5. ASSUME NEW r \in (q + 2)..(p - 1), text[r + 1] = "@" PROVE Colons(q, r) % 2 = 0
      <4>1. r = p - 1 \/ r \in (q + 2)..(p - 2)
        BY <1>1
      <4>2. CASE r = p - 1
        <5>1. m = "multi"
          BY <1>1, <3>2, <3>5, <4>2
        <5> QED  BY <3>1, <4>2, <5>1
      <4> QED  BY <3>1, <3>5, <4>1, <4>2
    <3>6. q < p
      BY <1>1
    <3> HIDE DEF n
    <3> QED  BY <1>1, <1>2, <2>0, <3>1, <3>2, <3>4, <3>5, <3>6 DEF CommentFrom
  <2> QED  BY <2>1, <2>2, <2>3 DEF CommentModes
<1> QED  BY <1>4, <1>5

LEMMA CommentKept ==
  ASSUME LexerInv, KeptInv, Comment
  PROVE  KeptInv'
<1>1. PICK n \in CommentModes : In(n) /\ Take(NextInComment(n, Byte))
  BY DEF Comment, CommentModes
<1>2. pos \in Nat /\ pos # 0 /\ Sound(out, pos) /\ out' = out /\ stage = "lex" /\ mode = n
  BY <1>1 DEF LexerInv, TypeOK, Unused, In, Comment, CommentModes
<1>3. PICK m : m = NextInComment(n, Byte)
  OBVIOUS
<1>4. m \in {"normal", "line", "multi", "multiEnd"}
  BY <1>3 DEF NextInComment, CommentModes
<1>5. ASSUME ~out.starved
      PROVE  /\ HasPlace(out, pos)
             /\ m \in CommentModes => \E q \in 1..pos : CommentFrom(q, out, m, pos + 1)
  <2>1. PICK q \in 1..(pos - 1) : CommentFrom(q, out, n, pos)
    BY <1>1, <1>2, <1>5 DEF KeptInv, Kept
  <2>2. q \in 1..pos
    BY <1>2
  <2> QED  BY <1>2, <1>3, <2>1, <2>2, CommentGrows DEF Byte
<1> QED  BY <1>1, <1>2, <1>3, <1>4, <1>5, TakeKept DEF CommentModes

-----------------------------------------------------------------------------
(* The driver, the end of the loop and the theorem.                        *)

LEMMA EndsKept ==
  ASSUME LexerInv, Load \/ InsertStd \/ Abort \/ Finish
  PROVE  KeptInv'
<1>1. CASE Load \/ Abort \/ Finish
  BY <1>1 DEF Load, Abort, Finish, KeptInv
<1>2. CASE InsertStd
  <2>1. pos' = 1 /\ mode' = "normal"
    BY <1>2 DEF InsertStd, LexerInv
  <2> QED  BY <2>1 DEF KeptInv, Kept, ReadUpTo, CommentModes
<1> QED  BY <1>1, <1>2

LEMMA StepKept == LexerInv /\ KeptInv /\ [Next]_vars => KeptInv'
<1> SUFFICES ASSUME LexerInv, KeptInv, [Next]_vars PROVE KeptInv'
  OBVIOUS
<1>1. CASE UNCHANGED vars
  <2>1. UNCHANGED <<stage, text, pos, mode, out>>
    BY <1>1 DEF vars
  <2>2. CASE stage = "lex"
    BY <2>1, <2>2, KeptPrimed DEF KeptInv
  <2>3. CASE stage # "lex"
    BY <2>1, <2>3 DEF KeptInv
  <2> QED  BY <2>2, <2>3
<1>2. CASE Punct \/ StartOperator \/ SingleOperator \/ Quote \/ DotOrAt \/ Blank \/ WordByte
  BY <1>2, NormalKept
<1>3. CASE Operator
  BY <1>3, OperatorKept
<1>4. CASE Dot
  BY <1>4, DotKept
<1>5. CASE String \/ Escape \/ GoOnAfterString \/ EndString
  BY <1>5, StringKept
<1>6. CASE Comment
  BY <1>6, CommentKept
<1>7. CASE Load \/ InsertStd \/ Abort \/ Finish
  BY <1>7, EndsKept
<1> QED  BY <1>1, <1>2, <1>3, <1>4, <1>5, <1>6, <1>7 DEF Next, Lex

(* At the end the stack buffer is empty, and each byte has a place.        *)
Placed(o) ==
  /\ o.buf = <<>>
  /\ \A p \in 1..Len(text) : HasPlace(o, p) \/ (p = Len(text) /\ text[p] = ".")
EndInv == stage = "done" /\ ~out.starved => Placed(out)

LEMMA PlacedPrimed ==
  ASSUME UNCHANGED text, ~out'.starved => Placed(out')
  PROVE  EndInv'
<1> SUFFICES ASSUME ~out'.starved PROVE Placed(out)'
  BY DEF EndInv
<1> PICK o : o = out'
  OBVIOUS
<1>1. \A q : HasPlace(o, q)' <=> HasPlace(o, q)
  BY TextKept DEF HasPlace, Commented, Reaches, NoneHeld, Holds, InTokens, InBuffer
<1>2. Placed(o)'
  BY <1>1 DEF Placed
<1> QED  BY <1>2

LEMMA FinishPlaces ==
  ASSUME LexerInv, KeptInv, Finish
  PROVE  EndInv'
<1>1. /\ stage = "lex" /\ out' \in FlushWord(out) /\ text' = text
      /\ pos = Len(text) + 1 /\ Len(text) \in Nat /\ out \in Output
  BY DEF Finish, LexerInv, TypeOK, Sound
<1> SUFFICES ASSUME ~out'.starved PROVE Placed(out')
  BY <1>1, PlacedPrimed
<1>2. /\ ~out.starved /\ out'.buf = <<>>
      /\ \A q : Holds(out', q) <=> Holds(out, q)
  BY <1>1, FlushWordHolds
<1>3. Kept(out, mode, pos)
  BY <1>1, <1>2 DEF KeptInv
<1>4. PICK o, k : k \in Int /\ o = out' /\ k = ReadUpTo(mode, pos)
  BY <1>1 DEF ReadUpTo
<1>5. \A p \in 1..k : HasPlace(out, p)
  BY <1>3, <1>4 DEF Kept
<1>6. \A p \in 1..k : HasPlace(o, p)
  BY <1>2, <1>4, <1>5, PlaceKept
<1>7. ASSUME NEW p \in 1..Len(text), p \notin 1..k
      PROVE  p = Len(text) /\ text[p] = "."
  BY <1>1, <1>3, <1>4, <1>7 DEF Kept, ReadUpTo
<1> QED  BY <1>2, <1>4, <1>6, <1>7 DEF Placed

LEMMA StepPlaced == LexerInv /\ KeptInv /\ EndInv /\ [Next]_vars => EndInv'
<1> SUFFICES ASSUME LexerInv, KeptInv, EndInv, [Next]_vars PROVE EndInv'
  OBVIOUS
<1>1. CASE Finish
  BY <1>1, FinishPlaces
<1>2. CASE UNCHANGED vars
  <2>1. UNCHANGED <<stage, text, out>>
    BY <1>2 DEF vars
  <2>2. CASE stage = "done"
    BY <2>1, <2>2, PlacedPrimed DEF EndInv
  <2>3. CASE stage # "done"
    BY <2>1, <2>3 DEF EndInv
  <2> QED  BY <2>2, <2>3
<1>3. CASE Next /\ ~Finish
  <2>1. stage' # "done"
    <3>1. CASE Load \/ InsertStd \/ Abort
      BY <3>1 DEF Load, InsertStd, Abort
    <3>2. CASE \E m : Take(m) \/ Again(m)
      <4>1. CASE stage = "lex"
        BY <3>2, <4>1 DEF Take, Again
      <4> QED  BY <1>3, <3>1, <4>1 DEF Next, Lex, Punct, StartOperator, SingleOperator, Quote,
                 DotOrAt, Blank, WordByte, Operator, Dot, String, Escape, GoOnAfterString, EndString,
                 Comment, In
    <3>3. (\E m : Take(m) \/ Again(m)) \/ Load \/ InsertStd \/ Abort
      <4>1. CASE Punct \/ StartOperator \/ SingleOperator \/ Quote \/ DotOrAt \/ Blank \/ WordByte
        BY <4>1 DEF Punct, StartOperator, SingleOperator, Quote, DotOrAt, Blank, WordByte
      <4>2. CASE Operator \/ Dot
        BY <4>2 DEF Operator, Dot
      <4>3. CASE String \/ Escape \/ GoOnAfterString \/ EndString
        BY <4>3 DEF String, Escape, GoOnAfterString, EndString
      <4>4. CASE Comment
        BY <4>4 DEF Comment
      <4> QED  BY <1>3, <4>1, <4>2, <4>3, <4>4 DEF Next, Lex
    <3> QED  BY <3>1, <3>2, <3>3
  <2> QED  BY <2>1 DEF EndInv
<1> QED  BY <1>1, <1>2, <1>3

LEMMA PlacesSuffice == EndInv => NothingLost
<1> SUFFICES ASSUME EndInv, stage = "done", ~out.starved, NEW p \in 1..Len(text)
             PROVE  \/ p \in Covered \/ text[p] \in Skipped \/ InComment(p)
                    \/ p = Len(text) /\ text[p] = "."
  BY DEF NothingLost, Skipped
<1>1. Placed(out)
  BY DEF EndInv
<1>2. \A q : Holds(out, q) <=> q \in Covered
  <2>1. \A q : ~InBuffer(out.buf, q)
    BY <1>1 DEF Placed, InBuffer
  <2> QED  BY <2>1 DEF Holds, InTokens, Covered
<1>3. Commented(out, p) => InComment(p)
  BY <1>2 DEF Commented, InComment, NoneHeld
<1> QED  BY <1>1, <1>2, <1>3 DEF Placed, HasPlace

(* No byte of the source disappears between the modes, for every source,   *)
(* alphabet and initial room: once the loop is over, each is in a token or *)
(* was to be left out, unless the list failed to grow.                     *)
THEOREM NoByteLost == Spec => []NothingLost
<1>1. Init => KeptInv /\ EndInv
  BY DEF Init, KeptInv, EndInv
<1> QED  BY <1>1, InitInv, StepInv, StepKept, StepPlaced, PlacesSuffice, PTL DEF Spec
=============================================================================
