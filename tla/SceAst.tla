------------------------------- MODULE SceAst -------------------------------
(***************************************************************************)
(* Tokens and the nodes of the parser's tree (sce_parser.h).               *)
(***************************************************************************)
EXTENDS Naturals, Sequences, SequencesExt

(* A child is a node, NULL, or UNSET where the code never writes the       *)
(* pointer.                                                                *)
NULL  == <<>>
Node(type, text, left, right) == <<type, text, left, right>>
UNSET == Node("Unset", "", NULL, NULL)
Error(left, right) == Node("Error", "", left, right)

TypeOf(n) == IF n = NULL THEN "none" ELSE n[1]

(* The node of a block: statements that are linked by nodes of one type,   *)
(* here a sequence.  The mark "Error" is the type of the last link.        *)
Chain(type, mark, items) == Node(type, mark, NULL, items)
Items(n) == n[4]

PutOver(nodes, n) == [nodes EXCEPT ![Len(nodes)] = n]  \* mutant

(* A node is put in the last slot of a chain, or behind it if that is used. *)
Put(nodes, n) ==
  IF Last(nodes) = NULL THEN [nodes EXCEPT ![Len(nodes)] = n] ELSE Append(nodes, n)

-----------------------------------------------------------------------------
(* A token is its type and its text; t is a token list.                    *)

There(t, i) == i \in DOMAIN t
At(t, i, type, text) == There(t, i) /\ t[i] = <<type, text>>
IsKeyword(t, i, words) == There(t, i) /\ t[i][1] = "keyword" /\ t[i][2] \in words

Skip(t, i) == IF There(t, i) THEN i + 1 ELSE i

(* What reading a node gives: it and the position behind it.  Position 0   *)
(* says that a loop in there never ends.                                   *)
R(node, next) == [node |-> node, next |-> next]

(* build_sce_ast_expr_statement, around a node that was read.              *)
Ended(t, r) ==
  IF At(t, r.next, "punct", ";")
    THEN R(Node("Expr", "", r.node, NULL), r.next + 1)
    ELSE R(Error(r.node, NULL), Skip(t, r.next))

Empty == Node("Expr", "", NULL, NULL)  \* the statement `;`
=============================================================================
