------------------------------- MODULE Tables -------------------------------
(***************************************************************************)
(* Tables of numbered slots, as the kernel keeps them in fixed arrays: a   *)
(* function whose domain is the set of occupied slots.                     *)
(***************************************************************************)
EXTENDS Integers, Sequences

NoEntries == [k \in {} |-> k]

Put(f, k, v) == [x \in DOMAIN f \cup {k} |-> IF x = k THEN v ELSE f[x]]

Drop(f, S) == [x \in DOMAIN f \ S |-> f[x]]

Least(S) == CHOOSE x \in S : \A y \in S : x <= y

AtMost(a, b) == IF a < b THEN a ELSE b

(* What a loop over s keeps that passes by the members of S.               *)
Omitting(s, S) ==
    LET kept[i \in 0..Len(s)] ==
            IF i = 0 THEN <<>> ELSE IF s[i] \in S THEN kept[i - 1] ELSE Append(kept[i - 1], s[i])
    IN  kept[Len(s)]
=============================================================================
