----------------------------- MODULE StringBuffer -----------------------------
(***************************************************************************)
(* The growable strings of the program (transfer_test_functions.h, on      *)
(* safety_realloc of std_ext/ext_alloc.c): the lexer's token texts, the    *)
(* code generator's label prefix and the virtual machine's String values.  *)
(*                                                                         *)
(* Bytes are left out.  A buffer is its fields, the number of bytes its    *)
(* block really has (0 is NULL) and where its terminator was written last; *)
(* `fault` records that a byte outside a block was read or written.  Any   *)
(* allocation may fail.                                                    *)
(***************************************************************************)
EXTENDS Naturals

CONSTANTS
  Buffers,     \* the buffers
  Texts,       \* the lengths of the texts that are appended
  Numerals,    \* the lengths in characters of the values that ADD prints
  MaxLength,   \* bound: no text grows longer
  Width        \* block_capacity is a number below Width

ASSUME LengthsAssumption ==
  /\ Texts \subseteq 0 .. MaxLength /\ Numerals \subseteq 0 .. MaxLength
  /\ MaxLength \in Nat /\ Width \in Nat
  /\ 2 * MaxLength + 4 < Width

VARIABLES
  live,    \* the buffers in use
  buf,     \* their fields
  fault,   \* the buffers that a byte outside a block was accessed for
  starved, \* history: an allocation has failed
  overlong \* history: a value has been printed that needs more than the first block

vars == <<live, buf, fault, starved, overlong>>

BaseSize == 10  \* BASE_ALLOC_SIZE and U8_STR_REQUIRE_DEFAULT_SIZE

Buffer == [alloc : Nat, size : Nat, index : Nat, nul : Nat]
Zero == [alloc |-> 0, size |-> 0, index |-> 0, nul |-> 0]

(* What malloc and realloc may answer.                                     *)
Grants == BOOLEAN

(* A buffer of a block of n bytes that holds a text of length i.           *)
Fresh(n, i, ok) ==
  [alloc |-> IF ok THEN n ELSE 0, size |-> n, index |-> i, nul |-> i]

(* r with its text cut or extended to length i, and terminated there.      *)
Ended(r, i) == [alloc |-> r.alloc, size |-> r.size, index |-> i, nul |-> i]

Smaller(m, n) == IF m < n THEN m ELSE n
Larger(m, n) == IF m < n THEN n ELSE m

-----------------------------------------------------------------------------
(* safety_realloc: the block is to have a byte at position pos.            *)

Doubled(size, pos) ==  \* mutant: the block grows whatever is asked for
  IF size # 0 THEN (size * 2) % Width ELSE BaseSize

Enough(size, pos) == pos < size
Capacity(size, pos) == IF size # 0 THEN ((pos + 1) * 2) % Width ELSE BaseSize

(* There is room in r for n more bytes and the terminator, or it is made.  *)
Served(r, n, ok) == Enough(r.size, r.index + n + 1) \/ ok

(* r after n more bytes and the terminator, and after a failure to grow.   *)
Grown(r, n, ok) ==
  LET pos == r.index + n + 1
  IN IF Enough(r.size, pos) THEN Ended(r, r.index + n)
     ELSE IF ok THEN Fresh(Capacity(r.size, pos), r.index + n, TRUE)
     ELSE r

(* Growing from r wrote its n bytes and the terminator inside the block.   *)
Fits(r, n, ok) == Served(r, n, ok) => r.index + n < Grown(r, n, ok).alloc

-----------------------------------------------------------------------------
(* Operations.                                                             *)

Use(b) == b \in live /\ UNCHANGED live
New(b) == b \notin live /\ live' = live \cup {b}
Set(b, r) == buf' = [buf EXCEPT ![b] = r]
Touch(b, good) == fault' = IF good THEN fault ELSE fault \cup {b}
Note(granted) == starved' = (starved \/ ~granted)

(* n more bytes for b.                                                     *)
Grow(b, r, n, ok) ==
  Set(b, Grown(r, n, ok)) /\ Note(Served(r, n, ok))

Init(b, n) ==
  /\ New(b)
  /\ \E ok \in Grants : Set(b, Fresh(Larger(n, BaseSize), 0, ok)) /\ Note(ok)
  /\ UNCHANGED <<fault, overlong>>

(* A literal of n bytes (SMOV).                                            *)
Literal(b, n) ==
  /\ New(b)
  /\ \E ok \in Grants : Set(b, Fresh(n + 1, n, ok)) /\ Note(ok)
  /\ UNCHANGED <<fault, overlong>>

(* Append a byte (n = 1), bytes, a C string or a printed number.           *)
Append(b, n) ==
  /\ Use(b) /\ buf[b].index + n <= MaxLength
  /\ \E ok \in Grants : Grow(b, buf[b], n, ok) /\ Touch(b, Fits(buf[b], n, ok))
  /\ UNCHANGED overlong

(* Append the text of s, which may be b itself.                            *)
AppendBuffer(b, s) ==
  LET n == buf[s].index
  IN /\ Use(b) /\ s \in live /\ buf[b].index + n <= MaxLength
     /\ \E ok \in Grants :
          /\ Grow(b, buf[b], n, ok)
          /\ Touch(b, (Served(buf[b], n, ok) => n <= buf[s].alloc) /\ Fits(buf[b], n, ok))
     /\ UNCHANGED overlong

(* ADD makes a string of a value: its n characters and the terminator are  *)
(* printed to a zeroed buffer (and the string it is added to is appended,  *)
(* AppendBuffer).  safety_realloc gives that buffer BaseSize bytes however *)
(* many are asked for: 1000000000 and 100.0, which is 100.000000, have ten *)
(* characters.                                                             *)
FromValue(b, n) ==
  /\ New(b)
  /\ \E ok \in Grants : Grow(b, Zero, n, ok) /\ Touch(b, Fits(Zero, n, ok))
  /\ overlong' = (overlong \/ n >= BaseSize)

Empty(b) ==
  /\ Use(b)
  /\ Set(b, Ended(buf[b], 0))
  /\ Touch(b, buf[b].alloc > 0)
  /\ UNCHANGED <<starved, overlong>>

TruncateUnended(b, pos) ==  \* mutant: the terminator stays where it was
  /\ Use(b) /\ pos <= buf[b].index
  /\ Set(b, [buf[b] EXCEPT !.index = pos])
  /\ Touch(b, buf[b].alloc > pos)
  /\ UNCHANGED <<starved, overlong>>

Truncate(b, pos) ==
  /\ Use(b) /\ pos <= buf[b].index
  /\ Set(b, Ended(buf[b], pos))
  /\ Touch(b, buf[b].alloc > pos)
  /\ UNCHANGED <<starved, overlong>>

(* The first n bytes of s become b, cut to s's length; s is emptied.  The  *)
(* copy takes one byte more, which becomes b's terminator.                 *)
Move(s, b, n) ==
  LET k == Smaller(n, buf[s].index)
  IN /\ s \in live /\ New(b)
     /\ \E ok \in Grants :
          /\ buf' = [buf EXCEPT ![s] = Ended(@, 0), ![b] = Fresh(k + 1, k, ok)]
          /\ Touch(b, ok /\ k < buf[s].alloc)
          /\ Note(ok)
     /\ UNCHANGED overlong

Delete(b) ==
  /\ b \in live /\ live' = live \ {b}
  /\ Set(b, Zero)
  /\ UNCHANGED <<fault, starved, overlong>>

-----------------------------------------------------------------------------
Start ==
  /\ live = {} /\ buf = [b \in Buffers |-> Zero] /\ fault = {}
  /\ starved = FALSE /\ overlong = FALSE

Next ==
  \E b \in Buffers :
    \/ \E n \in {20} : Init(b, n)
    \/ \E n \in Texts : Literal(b, n) \/ Append(b, n)
    \/ \E n \in Numerals : FromValue(b, n)
    \/ \E s \in Buffers : AppendBuffer(b, s)
    \/ \E s \in Buffers, n \in Texts : Move(s, b, n)
    \/ \E n \in Texts : Truncate(b, n)
    \/ Empty(b)
    \/ Delete(b)

Spec == Start /\ [][Next]_vars
-----------------------------------------------------------------------------
(* Properties.                                                             *)

(* Every buffer has the fields of a U8_String_Buffers.                     *)
TypeOK ==
  /\ live \subseteq Buffers /\ buf \in [Buffers -> Buffer]
  /\ fault \subseteq Buffers /\ starved \in BOOLEAN /\ overlong \in BOOLEAN

(* Nothing but a failed allocation and a value printed with BaseSize       *)
(* characters or more (FromValue) makes an operation, after any others,    *)
(* read or write outside a block: what safety_realloc grants is what the   *)
(* appends of transfer_test_functions.h:84-138 then write.                 *)
InBlock == fault # {} => starved \/ overlong

(* A text ends inside its block with a terminator, and size__ is the size  *)
(* of the block, whatever was moved, cut or failed to grow before (a       *)
(* buffer whose block could not be allocated at first has none, and all is *)
(* open once its NULL was followed).                                       *)
Terminated ==
  fault = {} => \A b \in live : buf[b].alloc # 0 =>
    /\ buf[b].alloc = buf[b].size
    /\ buf[b].nul = buf[b].index /\ buf[b].index < buf[b].alloc
(* What the comment above ADD (sce_run.c:1059-1062) shows, I + "HELLO", is *)
(* a string for every number I: while every allocation succeeds, no sum    *)
(* leaves its block.  FromValue does, from ten characters on.              *)
SumsStayInBlock == ~starved => fault = {}
=============================================================================
