-------------------------- MODULE StringBufferProofs --------------------------
(***************************************************************************)
(* StringBuffer for every number of buffers, every text and every bound.   *)
(***************************************************************************)
EXTENDS StringBuffer, TLAPS

(* The fields a buffer has whose block is there: the block is size__ bytes *)
(* and the text ends in it.                                                *)
Sound(r) ==
  /\ r.alloc = r.size
  /\ r.index < r.size
  /\ r.nul = r.index

(* No allocation has failed and no value was too long for the first block. *)
Quiet == ~starved /\ ~overlong

(* Until a byte outside a block is accessed, a block that is there is      *)
(* sound; while all is quiet that is so, and every buffer in use has its   *)
(* block.                                                                  *)
BufferInv ==
  /\ TypeOK
  /\ fault = {} => \A b \in live : buf[b].alloc # 0 => Sound(buf[b])
  /\ Quiet => fault = {} /\ \A b \in live : buf[b].alloc # 0

(* The next block is longer than the request, and block_capacity, a        *)
(* uint32_t, does not wrap.                                                *)
LEMMA CapacityIsEnough ==
  ASSUME NEW size \in Nat, size # 0, NEW pos \in Nat, pos <= MaxLength + 1
  PROVE  pos < Capacity(size, pos)
<1>1. (pos + 1) * 2 < Width /\ (pos + 1) * 2 \in Nat
  BY LengthsAssumption
<1>2. ((pos + 1) * 2) % Width = (pos + 1) * 2
  BY <1>1, LengthsAssumption
<1> QED  BY <1>1, <1>2 DEF Capacity

(* A buffer is a buffer after it grew.                                     *)
LEMMA GrownTyped ==
  ASSUME NEW r \in Buffer, NEW n \in Nat, NEW ok \in BOOLEAN
  PROVE  Grown(r, n, ok) \in Buffer
<1>1. Ended(r, r.index + n) \in Buffer
  BY DEF Buffer, Ended
<1>2. Capacity(r.size, r.index + n + 1) \in Nat
  <2>1. ((r.index + n + 1 + 1) * 2) \in Nat /\ Width \in Nat /\ Width > 0
    BY LengthsAssumption DEF Buffer
  <2>2. ((r.index + n + 1 + 1) * 2) % Width \in Nat
    BY <2>1
  <2> QED  BY <2>2 DEF Capacity, BaseSize
<1>3. Fresh(Capacity(r.size, r.index + n + 1), r.index + n, TRUE) \in Buffer
  BY <1>2 DEF Fresh, Buffer
<1> QED  BY <1>1, <1>3 DEF Grown

(* A block that is there stays sound when the buffer grows without leaving *)
(* it, and so does a block that is made for a buffer that had none.        *)
LEMMA GrownIsSound ==
  ASSUME NEW r \in Buffer, r.alloc # 0 => Sound(r), NEW n \in Nat, NEW ok \in BOOLEAN,
         Fits(r, n, ok), Grown(r, n, ok).alloc # 0
  PROVE  Sound(Grown(r, n, ok))
<1>1. CASE Enough(r.size, r.index + n + 1)
  <2>1. Grown(r, n, ok) = Ended(r, r.index + n)
    BY <1>1 DEF Grown
  <2>2. r.alloc # 0
    BY <2>1 DEF Ended
  <2> QED  BY <1>1, <2>1, <2>2 DEF Buffer, Sound, Enough, Ended
<1>2. CASE ~Enough(r.size, r.index + n + 1) /\ ok
  <2> DEFINE g == Fresh(Capacity(r.size, r.index + n + 1), r.index + n, TRUE)
  <2>1. Grown(r, n, ok) = g
    BY <1>2 DEF Grown
  <2>2. r.index + n < g.alloc
    BY <1>2, <2>1 DEF Fits, Served
  <2>3. g.alloc = g.size /\ g.index = r.index + n /\ g.nul = g.index
    BY DEF Fresh
  <2> QED  BY <2>1, <2>2, <2>3 DEF Sound
<1>3. CASE ~Enough(r.size, r.index + n + 1) /\ ~ok
  <2>1. Grown(r, n, ok) = r
    BY <1>3 DEF Grown
  <2> QED  BY <2>1
<1> QED  BY <1>1, <1>2, <1>3

(* An append to a sound buffer stays in its block.                         *)
LEMMA GrownFits ==
  ASSUME NEW r \in Buffer, Sound(r), NEW n \in Nat, NEW ok \in BOOLEAN,
         r.index + n <= MaxLength, Served(r, n, ok)
  PROVE  Fits(r, n, ok) /\ Grown(r, n, ok).alloc # 0
<1> DEFINE pos == r.index + n + 1
<1>1. r.index \in Nat /\ r.size \in Nat /\ r.size # 0 /\ pos \in Nat /\ pos <= MaxLength + 1
  BY LengthsAssumption DEF Buffer, Sound
<1>2. CASE Enough(r.size, pos)
  <2>1. Grown(r, n, ok) = Ended(r, r.index + n)
    BY <1>2 DEF Grown
  <2> QED  BY <1>1, <1>2, <2>1 DEF Buffer, Sound, Fits, Enough, Ended
<1>3. CASE ~Enough(r.size, pos) /\ ok
  <2>1. Grown(r, n, ok).alloc = Capacity(r.size, pos)
    BY <1>3 DEF Grown, Fresh
  <2>2. pos < Capacity(r.size, pos)
    BY <1>1, CapacityIsEnough
  <2>3. Grown(r, n, ok) \in Buffer
    BY GrownTyped
  <2> QED  BY <1>1, <2>1, <2>2, <2>3, LengthsAssumption DEF Buffer, Fits
<1> QED  BY <1>2, <1>3 DEF Served

(* A value printed in less than the first block's size fits in it.         *)
LEMMA ValueFits ==
  ASSUME NEW n \in Nat, n < BaseSize, NEW ok \in BOOLEAN, Served(Zero, n, ok)
  PROVE  Fits(Zero, n, ok) /\ Grown(Zero, n, ok).alloc # 0
<1>1. Zero.index = 0 /\ Zero.size = 0
  BY DEF Zero
<1>2. ~Enough(Zero.size, Zero.index + n + 1) /\ Capacity(Zero.size, Zero.index + n + 1) = BaseSize
  BY <1>1 DEF Enough, Capacity
<1>3. Grown(Zero, n, ok) = Fresh(BaseSize, Zero.index + n, TRUE)
  BY <1>2 DEF Grown, Served
<1>4. Grown(Zero, n, ok).alloc = BaseSize
  BY <1>3 DEF Fresh
<1> QED  BY <1>1, <1>4 DEF Fits, BaseSize

(* A step that gives one buffer new fields.                                *)
LEMMA OneBuffer ==
  ASSUME BufferInv, NEW b \in Buffers, NEW r \in Buffer, NEW good \in BOOLEAN,
         live' \subseteq live \cup {b}, Set(b, r), Touch(b, good),
         starved' \in BOOLEAN, overlong' \in BOOLEAN,
         good /\ fault = {} /\ r.alloc # 0 => Sound(r),
         Quiet' => Quiet /\ good /\ r.alloc # 0
  PROVE  BufferInv'
<1>1. /\ buf' = [buf EXCEPT ![b] = r] /\ buf \in [Buffers -> Buffer]
      /\ live \subseteq Buffers /\ fault \subseteq Buffers
  BY DEF Set, BufferInv, TypeOK
<1>2. TypeOK'
  BY <1>1 DEF TypeOK, Touch
<1>3. fault' = {} => good /\ fault = {}
  BY <1>1 DEF Touch
<1>4. good => fault' = fault
  BY DEF Touch
<1> QED  BY <1>1, <1>2, <1>3, <1>4 DEF BufferInv

(* One operation.                                                          *)
LEMMA BufferStep ==
  ASSUME BufferInv, Next
  PROVE  BufferInv'
<1>0. /\ Texts \subseteq Nat /\ Numerals \subseteq Nat
      /\ live \subseteq Buffers /\ starved \in BOOLEAN /\ overlong \in BOOLEAN
      /\ \A b \in Buffers : buf[b] \in Buffer
      /\ Zero \in Buffer
  BY LengthsAssumption DEF BufferInv, TypeOK, Zero, Buffer
<1>1. ASSUME NEW b \in Buffers, NEW n \in Nat, NEW i \in Nat, i < n, NEW ok \in BOOLEAN,
             live' \subseteq live \cup {b}, Set(b, Fresh(n, i, ok)), Note(ok),
             UNCHANGED <<fault, overlong>>
      PROVE  BufferInv'
  <2>1. Fresh(n, i, ok) \in Buffer /\ (Fresh(n, i, ok).alloc # 0 => Sound(Fresh(n, i, ok)))
    BY <1>1 DEF Fresh, Buffer, Sound
  <2>2. ok => Fresh(n, i, ok).alloc # 0
    BY <1>1 DEF Fresh
  <2>3. Touch(b, TRUE) /\ starved' \in BOOLEAN /\ overlong' \in BOOLEAN /\ (Quiet' => Quiet /\ ok)
    BY <1>0, <1>1 DEF Touch, Note, Quiet
  <2> QED  BY <1>1, <2>1, <2>2, <2>3, OneBuffer
<1>2. ASSUME NEW b \in Buffers, NEW r \in Buffer, NEW n \in Nat, NEW ok \in BOOLEAN,
             NEW read \in BOOLEAN, NEW long \in BOOLEAN, live' \subseteq live \cup {b},
             overlong' = (overlong \/ long),
             fault = {} /\ r.alloc # 0 => Sound(r),
             Grow(b, r, n, ok), Touch(b, read /\ Fits(r, n, ok)),
             Quiet /\ ~long /\ Served(r, n, ok) =>
               read /\ Fits(r, n, ok) /\ Grown(r, n, ok).alloc # 0
      PROVE  BufferInv'
  <2>1. Grown(r, n, ok) \in Buffer
    BY GrownTyped
  <2>2. Fits(r, n, ok) /\ fault = {} /\ Grown(r, n, ok).alloc # 0 => Sound(Grown(r, n, ok))
    BY <1>2, GrownIsSound
  <2>3. /\ starved' \in BOOLEAN /\ overlong' \in BOOLEAN
        /\ Quiet' => Quiet /\ ~long /\ Served(r, n, ok)
    BY <1>0, <1>2 DEF Grow, Note, Quiet
  <2>4. (read /\ Fits(r, n, ok)) \in BOOLEAN
    BY DEF Fits
  <2> DEFINE good == read /\ Fits(r, n, ok)
  <2>5. Set(b, Grown(r, n, ok)) /\ Touch(b, good)
    BY <1>2 DEF Grow
  <2>6. good /\ fault = {} /\ Grown(r, n, ok).alloc # 0 => Sound(Grown(r, n, ok))
    BY <2>2
  <2>7. Quiet' => Quiet /\ good /\ Grown(r, n, ok).alloc # 0
    BY <1>2, <2>3
  <2> HIDE DEF good
  <2> QED  BY <1>2, <2>1, <2>3, <2>4, <2>5, <2>6, <2>7, OneBuffer DEF good
<1>3. ASSUME NEW b \in Buffers, Init(b, 20) PROVE BufferInv'
  <2>1. Larger(20, BaseSize) = 20
    BY DEF Larger, BaseSize
  <2>2. PICK ok \in BOOLEAN : Set(b, Fresh(20, 0, ok)) /\ Note(ok)
    BY <1>3, <2>1 DEF Init, Grants
  <2> QED  BY <1>1, <1>3, <2>2 DEF Init, New
<1>4. ASSUME NEW b \in Buffers, NEW n \in Texts, Literal(b, n) PROVE BufferInv'
  <2>1. PICK ok \in BOOLEAN : Set(b, Fresh(n + 1, n, ok)) /\ Note(ok)
    BY <1>4 DEF Literal, Grants
  <2>2. n \in Nat /\ n + 1 \in Nat /\ n < n + 1
    BY <1>0
  <2> QED  BY <1>1, <1>4, <2>1, <2>2 DEF Literal, New
<1>5. ASSUME NEW b \in Buffers, NEW n \in Texts, Append(b, n) PROVE BufferInv'
  <2>1. PICK ok \in BOOLEAN : Grow(b, buf[b], n, ok) /\ Touch(b, Fits(buf[b], n, ok))
    BY <1>5 DEF Append, Grants
  <2>2. b \in live /\ live' = live /\ buf[b].index + n <= MaxLength
    BY <1>5 DEF Append, Use
  <2>3. Quiet /\ Served(buf[b], n, ok) =>
          Fits(buf[b], n, ok) /\ Grown(buf[b], n, ok).alloc # 0
    BY <1>0, <2>2, GrownFits DEF BufferInv
  <2>4. fault = {} /\ buf[b].alloc # 0 => Sound(buf[b])
    BY <2>2 DEF BufferInv
  <2>5. Touch(b, TRUE /\ Fits(buf[b], n, ok)) /\ overlong' = (overlong \/ FALSE)
    BY <1>0, <1>5, <2>1 DEF Append, Touch
  <2> QED  BY <1>0, <1>2, <2>1, <2>2, <2>3, <2>4, <2>5
<1>6. ASSUME NEW b \in Buffers, NEW s \in Buffers, AppendBuffer(b, s) PROVE BufferInv'
  <2> DEFINE n == buf[s].index
  <2>1. PICK ok \in BOOLEAN :
          /\ Grow(b, buf[b], n, ok)
          /\ Touch(b, (Served(buf[b], n, ok) => n <= buf[s].alloc) /\ Fits(buf[b], n, ok))
    BY <1>6 DEF AppendBuffer, Grants
  <2>2. b \in live /\ s \in live /\ live' = live /\ buf[b].index + n <= MaxLength /\ n \in Nat
    BY <1>0, <1>6 DEF AppendBuffer, Use, Buffer
  <2>3. Quiet => n <= buf[s].alloc
    BY <1>0, <2>2 DEF BufferInv, Sound, Buffer
  <2>4. Quiet /\ Served(buf[b], n, ok) =>
          Fits(buf[b], n, ok) /\ Grown(buf[b], n, ok).alloc # 0
    BY <1>0, <2>2, GrownFits DEF BufferInv
  <2>5. fault = {} /\ buf[b].alloc # 0 => Sound(buf[b])
    BY <2>2 DEF BufferInv
  <2> DEFINE read == Served(buf[b], n, ok) => n <= buf[s].alloc
  <2>6. /\ read \in BOOLEAN /\ (Quiet => read) /\ Touch(b, read /\ Fits(buf[b], n, ok))
        /\ overlong' = (overlong \/ FALSE)
    BY <1>0, <1>6, <2>1, <2>3 DEF AppendBuffer
  <2> HIDE DEF n, read
  <2> QED  BY <1>0, <1>2, <2>1, <2>2, <2>4, <2>5, <2>6
<1>7. ASSUME NEW b \in Buffers, NEW n \in Numerals, FromValue(b, n) PROVE BufferInv'
  <2>1. PICK ok \in BOOLEAN : Grow(b, Zero, n, ok) /\ Touch(b, Fits(Zero, n, ok))
    BY <1>7 DEF FromValue, Grants
  <2>2. live' \subseteq live \cup {b} /\ n \in Nat
    BY <1>0, <1>7 DEF FromValue, New
  <2> DEFINE long == n >= BaseSize
  <2>3. long \in BOOLEAN /\ overlong' = (overlong \/ long)
    BY <1>7, <2>2 DEF FromValue
  <2>4. ~long /\ Served(Zero, n, ok) => Fits(Zero, n, ok) /\ Grown(Zero, n, ok).alloc # 0
    BY <2>2, ValueFits DEF BaseSize
  <2>5. Zero.alloc = 0
    BY DEF Zero
  <2>6. Touch(b, TRUE /\ Fits(Zero, n, ok))
    BY <2>1 DEF Touch
  <2> HIDE DEF long
  <2> QED  BY <1>0, <1>2, <2>1, <2>2, <2>3, <2>4, <2>5, <2>6
<1>8. ASSUME NEW b \in Buffers, NEW s \in Buffers, NEW n \in Texts, Move(s, b, n)
      PROVE  BufferInv'
  <2> DEFINE k == Smaller(n, buf[s].index)
             e == Ended(buf[s], 0)
  <2>1. k \in Nat /\ k <= buf[s].index /\ s \in live /\ s # b /\ live' = live \cup {b}
    BY <1>0, <1>8 DEF Move, New, Smaller, Buffer
  <2>2. e \in Buffer /\ e.alloc = buf[s].alloc
        /\ (buf[s].alloc # 0 /\ Sound(buf[s]) => Sound(e))
    BY <1>0 DEF Ended, Buffer, Sound
  <2>3. PICK ok \in BOOLEAN :
          /\ buf' = [buf EXCEPT ![s] = Ended(@, 0), ![b] = Fresh(k + 1, k, ok)]
          /\ Touch(b, ok /\ k < buf[s].alloc) /\ Note(ok)
    BY <1>8 DEF Move, Grants
  <2> DEFINE f == Fresh(k + 1, k, ok)
  <2>4. f \in Buffer /\ (f.alloc # 0 => Sound(f)) /\ (ok => f.alloc # 0)
    BY <2>1 DEF Fresh, Buffer, Sound
  <2>5. buf' = [buf EXCEPT ![s] = e, ![b] = f]
    BY <2>3
  <2>6. (fault' = {} => fault = {}) /\ fault' \subseteq Buffers
        /\ (Quiet' => Quiet /\ ok) /\ starved' \in BOOLEAN /\ overlong' \in BOOLEAN
    BY <1>0, <1>8, <2>3 DEF Move, Touch, Note, Quiet, BufferInv, TypeOK
  <2>7. Quiet => k < buf[s].alloc
    BY <1>0, <2>1 DEF BufferInv, Sound, Buffer
  <2>8. Quiet' => fault' = {}
    BY <2>3, <2>6, <2>7 DEF Touch, BufferInv
  <2> HIDE DEF e, f, k
  <2>9. buf'[s] = e /\ buf'[b] = f /\ \A c \in Buffers \ {s, b} : buf'[c] = buf[c]
    BY <2>1, <2>5 DEF BufferInv, TypeOK
  <2>10. TypeOK'
    BY <1>0, <2>1, <2>2, <2>4, <2>5, <2>6 DEF BufferInv, TypeOK
  <2>11. (fault = {} => \A c \in live : buf[c].alloc # 0 => Sound(buf[c]))
         /\ (Quiet => \A c \in live : buf[c].alloc # 0)
    BY DEF BufferInv
  <2>12. ASSUME fault' = {}, NEW c \in live', buf'[c].alloc # 0 PROVE Sound(buf'[c])
    BY <1>0, <2>1, <2>2, <2>4, <2>6, <2>9, <2>11, <2>12
  <2>13. ASSUME Quiet', NEW c \in live' PROVE buf'[c].alloc # 0
    BY <1>0, <2>1, <2>2, <2>4, <2>6, <2>9, <2>11, <2>13
  <2> QED  BY <2>8, <2>10, <2>12, <2>13 DEF BufferInv
<1>9. ASSUME NEW b \in Buffers, NEW pos \in Nat, b \in live, pos <= buf[b].index,
             live' = live, Set(b, Ended(buf[b], pos)), Touch(b, buf[b].alloc > pos),
             UNCHANGED <<starved, overlong>>
      PROVE  BufferInv'
  <2>1. /\ Ended(buf[b], pos) \in Buffer /\ Ended(buf[b], pos).alloc = buf[b].alloc
        /\ (Sound(buf[b]) => Sound(Ended(buf[b], pos)))
    BY <1>0, <1>9 DEF Ended, Buffer, Sound
  <2>2. Quiet' => Quiet /\ buf[b].alloc > pos /\ buf[b].alloc # 0
    BY <1>0, <1>9 DEF BufferInv, Sound, Buffer, Quiet
  <2>3. fault = {} /\ buf[b].alloc # 0 => Sound(buf[b])
    BY <1>9 DEF BufferInv
  <2>4. (buf[b].alloc > pos) \in BOOLEAN
    BY <1>0, <1>9 DEF Buffer
  <2> QED  BY <1>0, <1>9, <2>1, <2>2, <2>3, <2>4, OneBuffer
<1>10. ASSUME NEW b \in Buffers, Delete(b) PROVE BufferInv'
  BY <1>10 DEF Delete, Set, Zero, Buffer, BufferInv, TypeOK, Quiet
<1>11. ASSUME NEW b \in Buffers, NEW n \in Texts, Truncate(b, n) PROVE BufferInv'
  BY <1>0, <1>9, <1>11 DEF Truncate, Use
<1>12. ASSUME NEW b \in Buffers, Empty(b) PROVE BufferInv'
  <2>1. 0 <= buf[b].index
    BY <1>0 DEF Buffer
  <2> QED  BY <1>9, <1>12, <2>1 DEF Empty, Use
<1> QED
  BY <1>3, <1>4, <1>5, <1>6, <1>7, <1>8, <1>10, <1>11, <1>12 DEF Next

(* The invariant holds for texts and values of every length.               *)
LEMMA BufferInvariant == Spec => []BufferInv
<1>1. Start => BufferInv
  <2>1. Zero \in Buffer
    BY DEF Zero, Buffer
  <2>2. Start => TypeOK
    BY <2>1 DEF Start, TypeOK
  <2>3. Start => \A b \in live : FALSE
    BY DEF Start
  <2> QED  BY <2>2, <2>3 DEF Start, BufferInv
<1>2. BufferInv /\ [Next]_vars => BufferInv'
  <2>1. BufferInv /\ UNCHANGED vars => BufferInv'
    BY DEF vars, BufferInv, TypeOK, Sound, Quiet
  <2> QED  BY <2>1, BufferStep
<1> QED  BY <1>1, <1>2, PTL DEF Spec

(* In any order of operations, on texts of less than half of uint32_t and  *)
(* values of any length, a byte outside a block is accessed only after an  *)
(* allocation failed or a value of BaseSize characters was printed to its  *)
(* first block.                                                            *)
THEOREM BuffersInBlock == Spec => []InBlock
<1>1. BufferInv => InBlock
  BY DEF BufferInv, InBlock, Quiet
<1> QED  BY <1>1, BufferInvariant, PTL

(* A text is terminated in its block, even after an allocation failed,     *)
(* until a byte outside a block was accessed.                              *)
THEOREM TextsTerminated == Spec => []Terminated
<1>1. BufferInv => Terminated
  BY DEF BufferInv, Terminated, Sound
<1> QED  BY <1>1, BufferInvariant, PTL
=============================================================================
