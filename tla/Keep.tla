--------------------------------- MODULE Keep ---------------------------------
(* What Array.prototype.filter returns, given the positions it lets through.  *)
EXTENDS Naturals, Sequences

\* The subsequence of s at the positions in K.
Keep(s, K) ==
  LET kept[i \in 0 .. Len(s)] ==
        IF i = 0 THEN <<>> ELSE IF i \in K THEN Append(kept[i - 1], s[i]) ELSE kept[i - 1]
  IN  kept[Len(s)]
=============================================================================
