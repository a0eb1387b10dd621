----------------------------- MODULE Selections -----------------------------
(***************************************************************************)
(* The loop that keeps the elements of a sequence that are wanted, in      *)
(* their order: the rows a query returns, the records that are messages.   *)
(* It is SelectSeq, with the wanted elements as a set, in a form that can  *)
(* be reasoned about.                                                      *)
(***************************************************************************)
EXTENDS Naturals, Sequences

Keep(out, x, wanted) == IF x \in wanted THEN Append(out, x) ELSE out

Only(s, wanted) ==
  LET out[i \in 0 .. Len(s)] ==
        IF i = 0 THEN <<>> ELSE Keep(out[i - 1], s[i], wanted)
  IN out[Len(s)]
=============================================================================
