------------------------------- MODULE SeqFold -------------------------------
(***************************************************************************)
(* Loops over a sequence that carry a result along, from left to right.    *)
(* They are FoldLeft and SelectSeq, by recursion over the length, which is *)
(* a form that can be reasoned about.                                      *)
(***************************************************************************)
EXTENDS Integers, Sequences

Through(Op(_, _), base, seq) ==
  LET upto[k \in 0..Len(seq)] == IF k = 0 THEN base ELSE Op(upto[k - 1], seq[k])
  IN upto[Len(seq)]

Filter(seq, Test(_)) ==
  Through(LAMBDA kept, x : IF Test(x) THEN Append(kept, x) ELSE kept, <<>>, seq)
=============================================================================
