------------------------------- MODULE MCLexer -------------------------------
(***************************************************************************)
(* Lexer on all short sources, and on longer ones made of the bytes of     *)
(* comments, of strings and of numbers.  `k` is a keyword, `xx` a literal  *)
(* word, `_` a word byte that is not a letter.                             *)
(***************************************************************************)
EXTENDS Lexer

UpTo(bytes, n) == UNION {[1..k -> bytes] : k \in 0..n}

ShortFiles ==
  UpTo({"x", "1", ".", "=", "!", ";", " ", "\n", "\"", "\\", "'", "@", ":"}, 3)
LongFiles ==
  [1..6 -> {"@", ":", "x"}] \cup [1..5 -> {"@", "\n", "x", "="}]
  \cup [1..5 -> {"\"", "\n", "\\", "x"}] \cup [1..4 -> {"1", ".", "x", "_", "k"}]
SomeFiles == ShortFiles \cup LongFiles

Declaration == <<"k", " ", "x", "=", "1", ";">>
DeclarationTokens ==
  <<<<"keyword", <<"k">>>>, <<"iden", <<"x">>>>, <<"operator", <<"=">>>>,
    <<"value", <<"1">>>>, <<"punct", <<";">>>>>>
DeclarationFirst == <<1, 3, 4, 5, 6, 7>>
DeclarationLast  == [k \in 0..5 |-> IF k = 0 THEN 0 ELSE DeclarationFirst[k]]
ASSUME DeclarationReads == StdCut(DeclarationFirst, DeclarationLast)

KeywordTexts == {<<"k">>}
LiteralTexts == {<<"x", "x">>}
=============================================================================
