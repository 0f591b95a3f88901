-------------------------------- MODULE Lexer --------------------------------
(***************************************************************************)
(* The lexer (sce_lexer.c) and the driver's way to its input (app_1.c):    *)
(* the source file is read, the declarations of the standard streams are   *)
(* appended to its bytes, and one loop over the bytes cuts them into       *)
(* tokens.  The loop is a mode machine: a byte is taken, or left to be     *)
(* read again in another mode.                                             *)
(*                                                                         *)
(* A byte is a one-character string, and only the bytes that take          *)
(* different paths are told apart.  The stack buffer and the texts of the  *)
(* tokens are sequences of positions in the source, so that a byte that is *)
(* lost, doubled or moved can be seen.                                     *)
(***************************************************************************)
EXTENDS Naturals, Sequences, FiniteSets

CONSTANTS
  Files,     \* the sources the driver may read
  Std,       \* the declarations insert_std_code appends
  StdTokens, \* the types and texts of their tokens
  Letters,   \* the bytes is_u8byte_utf8words accepts
  Digits,
  Keywords,  \* the words of is_sce_token_keyword
  Literals,  \* the words of is_sce_token_literals
  Room       \* the number of tokens the list has space for at first

ASSUME BytesAssumption ==
  /\ Files \subseteq Seq(STRING)
  /\ Std \in Seq(STRING)
  /\ Room \in Nat

Punctuation     == {";", "(", ")", "{", "}"}
OperatorBytes   == {"=", "+", "-", "*", "%", "/", "&", "|", "^", "~", "<", ">"}
SingleOperators == {",", "!", "[", "]", "?", ":"}
Blanks          == {" ", "\n", "\r", "\t", "backspace"}

(* two_byte_operator_                                                      *)
TwoByteOperators ==
  {<<a, "=">> : a \in {"=", "!", "+", "-", "*", "/", "%", "<", ">", "^", "~", "|", "&"}}
  \cup {<<a, a>> : a \in {"&", "|", "+", "-", "<", ">", ":"}}

Modes == {"normal", "operator", "dot", "char", "string", "after", "escape",
          "comment", "line", "multi", "multiEnd"}
WordTypes == {"iden", "keyword", "value", "error", "bool"}
Types == WordTypes \cup {"punct", "operator", "str"}
Stages == {"load", "insert", "lex", "done", "aborted", "crashed"}

VARIABLES
  stage,  \* where the driver is
  file,   \* a source was read; NULL otherwise
  text,   \* the bytes in the buffer
  user,   \* how many of them are the file's
  pos,    \* the byte to read, sce_code
  mode,   \* now_mode
  out     \* token list and stack buffer

vars == <<stage, file, text, user, pos, mode, out>>

-----------------------------------------------------------------------------
(* The token list.  room is its capacity and starved says that it could    *)
(* not grow when it should.                                                *)

Texts(at) == [i \in DOMAIN at |-> text[at[i]]]

IsDigit(b) == b \in Digits

(* is_sce_token_value: a leading dot is counted twice, so it is an error.  *)
Dots(w) == Cardinality({i \in DOMAIN w : w[i] = "."}) + (IF w[1] = "." THEN 1 ELSE 0)
ValueType(w) ==
  IF Dots(w) <= 1 /\ \A i \in DOMAIN w : IsDigit(w[i]) \/ w[i] = "." THEN "value" ELSE "error"

WordType(w) ==
  IF w \in Keywords THEN "keyword"
  ELSE IF IsDigit(w[1]) \/ w[1] = "." THEN ValueType(w)
  ELSE IF w \in Literals THEN "bool" ELSE "iden"

Push(o, p) == [o EXCEPT !.buf = Append(@, p)]
Emptied(o) == [o EXCEPT !.buf = <<>>]

Added(o, at, type) ==
  [o EXCEPT !.toks = Append(@, [type |-> type, at |-> at]),
            !.room = IF Len(o.toks) < @ THEN @ ELSE 2 * (Len(o.toks) + 1)]

(* The outcomes of an append to the list: when it has to grow and cannot,  *)
(* the append returns with nothing done.                                   *)
Listed(o, at, type) ==
  {Added(o, at, type)}
  \cup IF Len(o.toks) < o.room THEN {} ELSE {[o EXCEPT !.starved = TRUE]}

ClosedUnemptied(o, type) == Listed(o, o.buf, type)  \* mutant: the buffer keeps its bytes

(* append_lexer_token_lists on the stack buffer, which keeps its bytes if  *)
(* the list could not grow.                                                *)
Closed(o, type) ==
  {IF l.toks = o.toks THEN l ELSE Emptied(l) : l \in Listed(o, o.buf, type)}

Flush(o, type)  == IF o.buf = <<>> THEN {o} ELSE Closed(o, type)
FlushWord(o)    == IF o.buf = <<>> THEN {o} ELSE Closed(o, WordType(Texts(o.buf)))

-----------------------------------------------------------------------------
(* The driver: load_files, insert_std_code.                                *)

Load ==
  /\ stage = "load"
  /\ \/ text' \in Files /\ file' = TRUE
     \/ text' = <<>> /\ file' = FALSE
  /\ user' = Len(text')
  /\ stage' = "insert"
  /\ UNCHANGED <<pos, mode, out>>

InsertStdShort ==  \* mutant: the terminator takes the place of the last byte
  /\ stage = "insert"
  /\ text' = text \o SubSeq(Std, 1, Len(Std) - 1) /\ stage' = "lex"
  /\ UNCHANGED <<file, user, pos, mode, out>>

InsertStd ==
  /\ stage = "insert"
  /\ \/ text' = text \o Std /\ stage' = "lex"
     \/ text' = text /\ stage' = IF file THEN "lex" ELSE "crashed"  \* realloc fails
  /\ UNCHANGED <<file, user, pos, mode, out>>

-----------------------------------------------------------------------------
(* The loop.  Take reads a byte and goes on, Again leaves it for the next  *)
(* mode.                                                                   *)

In(m) == stage = "lex" /\ pos <= Len(text) /\ mode = m
Byte == text[pos]

TakeTwo(m) ==  \* mutant: the byte after is skipped
  /\ pos' = pos + 2 /\ mode' = m
  /\ UNCHANGED <<stage, file, text, user>>

Take(m) ==
  /\ pos' = pos + 1 /\ mode' = m
  /\ UNCHANGED <<stage, file, text, user>>

TakeToo(m) == Take(m)  \* mutant: the byte is not read again

AgainInMode(m) ==  \* mutant: the mode is kept as well
  UNCHANGED <<stage, file, text, user, pos, mode>>

Again(m) ==
  /\ mode' = m
  /\ UNCHANGED <<stage, file, text, user, pos>>

(* split_normal_sce_token                                                  *)
Punct ==
  /\ In("normal") /\ Byte \in Punctuation
  /\ \E o \in FlushWord(out) : out' \in Flush(Push(o, pos), "punct")
  /\ Take("normal")

StartOperator ==
  /\ In("normal") /\ Byte \in OperatorBytes
  /\ \E o \in FlushWord(out) : out' = Push(o, pos)
  /\ Take("operator")

SingleOperator ==
  /\ In("normal") /\ Byte \in SingleOperators
  /\ \E o \in FlushWord(out) : out' \in Flush(Push(o, pos), "operator")
  /\ Take("normal")

Quote ==
  /\ In("normal") /\ Byte \in {"\"", "'"}
  /\ out' \in FlushWord(out)
  /\ Take(IF Byte = "'" THEN "char" ELSE "string")

DotOrAt ==
  /\ In("normal") /\ Byte \in {".", "@"}
  /\ Take(IF Byte = "." THEN "dot" ELSE "comment")
  /\ UNCHANGED out

Blank ==
  /\ In("normal") /\ Byte \in Blanks
  /\ out' \in FlushWord(out)
  /\ Take("normal")

Special == Punctuation \cup OperatorBytes \cup SingleOperators \cup Blanks
             \cup {"\"", "'", ".", "@"}

WordByte ==
  /\ In("normal") /\ Byte \notin Special
  /\ out' = Push(out, pos)
  /\ Take("normal")

(* split_operator_sce_token: the byte behind an operator belongs to it if  *)
(* the two are in the table.  The stack buffer is emptied in any case.     *)
OperatorTooEarly ==  \* mutant: the table is looked up before the byte is appended
  /\ In("operator")
  /\ LET b   == Append(out.buf, pos)
         two == Texts(out.buf) \in TwoByteOperators
     IN  /\ out' \in Listed(Emptied(out), SubSeq(b, 1, IF two THEN 2 ELSE 1), "operator")
         /\ IF two THEN Take("normal") ELSE Again("normal")

Operator ==
  /\ In("operator")
  /\ LET b   == Append(out.buf, pos)
         two == Texts(b) \in TwoByteOperators
     IN  /\ out' \in Listed(Emptied(out), SubSeq(b, 1, IF two THEN 2 ELSE 1), "operator")
         /\ IF two THEN Take("normal") ELSE Again("normal")

(* split_dot_sce_token: before a letter the dot is an operator, otherwise  *)
(* a part of the word.                                                     *)
Dot ==
  /\ In("dot")
  /\ IF Byte \in Letters
       THEN \E o \in FlushWord(out) : out' \in Flush(Push(o, pos - 1), "operator")
       ELSE out' = Push(out, pos - 1)
  /\ Again("normal")

(* Strings: split_start_string, split_doll_string, split_next_string.      *)
(* Two strings with nothing but line ends between them are one.            *)
String ==
  /\ In("string")
  /\ out' = IF Byte \in {"\\", "\""} THEN out ELSE Push(out, pos)
  /\ Take(IF Byte = "\\" THEN "escape" ELSE IF Byte = "\"" THEN "after" ELSE "string")

EscapeToChar ==  \* mutant: the mode of a character
  /\ In("escape")
  /\ out' = Push(out, pos)
  /\ Take("char")

Escape ==
  /\ In("escape")
  /\ out' = Push(out, pos)
  /\ Take("string")

GoOnAfterString ==
  /\ In("after") /\ Byte \in {"\"", "\n"}
  /\ Take(IF Byte = "\"" THEN "string" ELSE "after")
  /\ UNCHANGED out

(* An empty string is made one byte long, so the append takes place.       *)
EndString ==
  /\ In("after") /\ Byte \notin {"\"", "\n"}
  /\ out' \in Closed(out, "str")
  /\ Again("normal")

(* The four comment handlers.                                              *)
NextInComment(m, b) ==
  CASE m = "comment"  -> IF b = ":" THEN "multi" ELSE "line"
    [] m = "line"     -> IF b = "\n" THEN "normal" ELSE "line"
    [] m = "multi"    -> IF b = ":" THEN "multiEnd" ELSE "multi"
    [] m = "multiEnd" -> IF b = "@" THEN "normal" ELSE "multi"

Comment ==
  /\ \E m \in {"comment", "line", "multi", "multiEnd"} :
       In(m) /\ Take(NextInComment(m, Byte))
  /\ UNCHANGED out

(* The character modes have no case in the loop: assert(false).            *)
Abort ==
  /\ In("char")
  /\ stage' = "aborted"
  /\ UNCHANGED <<file, text, user, pos, mode, out>>

(* The end of the source: what is in the stack buffer is a word, whatever  *)
(* the mode.                                                               *)
Finish ==
  /\ stage = "lex" /\ pos > Len(text)
  /\ out' \in FlushWord(out)
  /\ stage' = "done"
  /\ UNCHANGED <<file, text, user, pos, mode>>

-----------------------------------------------------------------------------

Init ==
  /\ stage = "load" /\ file = FALSE /\ text = <<>> /\ user = 0
  /\ pos = 1 /\ mode = "normal"
  /\ out = [toks |-> <<>>, buf |-> <<>>, room |-> Room, starved |-> FALSE]

Lex ==
  \/ Punct \/ StartOperator \/ SingleOperator \/ Quote \/ DotOrAt \/ Blank \/ WordByte
  \/ Operator \/ Dot \/ String \/ Escape \/ GoOnAfterString \/ EndString \/ Comment
  \/ Abort \/ Finish

Next == Load \/ InsertStd \/ Lex

Spec == Init /\ [][Next]_vars

(* The driver and the loop are one thread that nothing holds up.           *)
FairSpec == Spec /\ WF_vars(Next)

-----------------------------------------------------------------------------
(* Properties.                                                             *)

Token == [type : Types, at : Seq(Nat)]

(* Types of the variables; the loop stays in the text.                     *)
TypeOK ==
  /\ stage \in Stages /\ file \in BOOLEAN /\ mode \in Modes
  /\ text \in Seq(STRING) /\ user \in 0..Len(text)
  /\ pos \in 1..(Len(text) + 1)
  /\ out \in [toks : Seq(Token), buf : Seq(Nat), room : Nat, starved : BOOLEAN]

(* Whether every position in a comes before every position in b.           *)
Before(a, b) == \A i \in DOMAIN a, j \in DOMAIN b : a[i] < b[j]
Increasing(a) == \A i, j \in DOMAIN a : i < j => a[i] < a[j]

(* Bytes keep their order and none is used twice: through the bytes that   *)
(* are read again behind an operator, a dot and a string, a comment inside *)
(* a word, and a token list that failed to grow.                           *)
InOrder ==
  /\ Increasing(out.buf)
  /\ \A k \in DOMAIN out.toks :
       /\ Increasing(out.toks[k].at)
       /\ Before(out.toks[k].at, out.buf)
       /\ \A l \in DOMAIN out.toks : k < l => Before(out.toks[k].at, out.toks[l].at)

Covered == UNION {{t.at[i] : i \in DOMAIN t.at} : t \in {out.toks[k] : k \in DOMAIN out.toks}}

(* Whether a comment that starts at q reaches p: no line end in between,   *)
(* or no `:@` whose colon is at an odd place in its run of colons.  The    *)
(* byte after @ is never looked at for a line end.                         *)
Colons(q, r) == Cardinality({s \in (q + 2)..r : \A u \in s..r : text[u] = ":"})
Reaches(q, p) ==
  IF q < p /\ text[q + 1] = ":"
    THEN \A r \in (q + 2)..(p - 2) : text[r + 1] = "@" => Colons(q, r) % 2 = 0
    ELSE \A r \in (q + 2)..(p - 1) : text[r] # "\n"
InComment(p) ==
  \E q \in 1..p : /\ text[q] = "@" /\ Reaches(q, p)
                  /\ \A r \in q..p : r \notin Covered

(* When the loop is over, each byte is in a token, or it is a blank, a     *)
(* quote, a backslash or part of a comment; a dot at the very end is lost. *)
NothingLost ==
  stage = "done" /\ ~out.starved =>
    \A p \in 1..Len(text) :
      \/ p \in Covered \/ text[p] \in Blanks \cup {"\"", "'", "\\"} \/ InComment(p)
      \/ p = Len(text) /\ text[p] = "."

(* Of two tokens side by side neither could have taken the first byte of   *)
(* the next: words are not cut, and operators are the longest there are.   *)
(* `!` and `:` are tokens at once, so != and :: of the table are never     *)
(* formed.  An operator that ends the source becomes a word.               *)
Adjoin(t, u) == t.at # <<>> /\ u.at # <<>> /\ u.at[1] = t.at[Len(t.at)] + 1
LongestMatch ==
  stage = "done" /\ mode = "normal" /\ ~out.starved =>
    \A k \in 2..Len(out.toks) :
      LET t == out.toks[k - 1]  u == out.toks[k]
      IN  Adjoin(t, u) =>
            /\ ~(t.type \in WordTypes /\ u.type \in WordTypes)
            /\ t.type = "operator" /\ u.type = "operator" /\ Len(t.at) = 1 =>
                 \/ <<text[t.at[1]], text[u.at[1]]>> \notin TwoByteOperators
                 \/ text[t.at[1]] \in SingleOperators

(* The declarations the driver appends become the tokens they are alone,   *)
(* unless the file ends in a word, an operator, a string or a comment.     *)
EndsClean == stage = "lex" /\ pos = user + 1 /\ mode = "normal" /\ out.buf = <<>>
StdIsThere ==
  LET n == Len(StdTokens)
      d == Len(out.toks) - n
  IN  /\ d >= 0
      /\ \A k \in 1..n : LET t == out.toks[d + k]
                         IN  /\ <<t.type, Texts(t.at)>> = StdTokens[k]
                             /\ \A i \in DOMAIN t.at : t.at[i] > user
DeclarationsSurvive ==
  [](EndsClean => [](stage = "done" /\ Len(text) > user /\ ~out.starved => StdIsThere))

(* The declarations read as StdTokens says: words, operators and           *)
(* punctuation with blanks between them, and no strings, dots or comments  *)
(* (app_1.c:69-72).  Token k is the bytes from first[k] to last[k].        *)
WordFrom(f, l) ==
  /\ \A p \in f..l : Std[p] \notin Special
  /\ l < Len(Std) => Std[l + 1] \in Special
ReadsAs(type, f, l) ==
  \/ WordFrom(f, l) /\ type = WordType(SubSeq(Std, f, l))
  \/ f = l /\ Std[f] \in Punctuation /\ type = "punct"
  \/ f = l /\ Std[f] \in SingleOperators /\ type = "operator"
  \/ /\ f = l /\ l < Len(Std) /\ Std[f] \in OperatorBytes /\ type = "operator"
     /\ <<Std[f], Std[f + 1]>> \notin TwoByteOperators
  \/ /\ l = f + 1 /\ Std[f] \in OperatorBytes /\ type = "operator"
     /\ <<Std[f], Std[l]>> \in TwoByteOperators
StdCut(first, last) ==
  LET n == Len(StdTokens)
  IN  /\ StdTokens \in Seq(Types \X Seq(STRING))
      /\ first \in [1..(n + 1) -> 1..(Len(Std) + 1)] /\ first[n + 1] = Len(Std) + 1
      /\ last \in [0..n -> 0..Len(Std)] /\ last[0] = 0
      /\ \A p \in 1..Len(Std) : Std[p] \notin {"\"", "'", ".", "@"}
      /\ \A k \in 0..n :
           /\ last[k] < first[k + 1]
           /\ \A p \in (last[k] + 1)..(first[k + 1] - 1) : Std[p] \in Blanks
      /\ \A k \in 1..n :
           /\ first[k] <= last[k] /\ ReadsAs(StdTokens[k][1], first[k], last[k])
           /\ StdTokens[k] = <<StdTokens[k][1], SubSeq(Std, first[k], last[k])>>

(* What is left to do: two turns of the loop for a byte, and one for the   *)
(* modes that may leave a byte to the next.                                *)
Ahead == 2 * (Len(text) + 1 - pos) + (IF mode \in {"operator", "dot", "after"} THEN 1 ELSE 0)

(* The loop has no counter: it ends because a byte that is left by one     *)
(* handler is taken by the next, so that less is ahead after every turn.   *)
TurnsRunOut == [][stage = "lex" => stage' # "lex" \/ Ahead' < Ahead]_vars

(* A source without a ' is lexed to its end, if there is a source at all.  *)
Lexable == stage = "lex" /\ \A p \in DOMAIN text : text[p] # "'"
Completes == Lexable ~> stage = "done"
=============================================================================
