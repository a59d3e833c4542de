-------------------------------- MODULE Lists --------------------------------
(* A helper on sequences that the models share.                             *)
EXTENDS Integers, Sequences

(* A sequence without the members of K.                                     *)
Omit(s, K) ==
  LET kept[i \in 0 .. Len(s)] ==
        IF i = 0 THEN <<>>
        ELSE IF s[i] \in K THEN kept[i - 1] ELSE Append(kept[i - 1], s[i])
  IN kept[Len(s)]
=============================================================================
