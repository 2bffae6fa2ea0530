---------------------------- MODULE PipeChannel ----------------------------
(***************************************************************************)
(* What a pipe promises: a bounded first-in first-out channel of bytes.    *)
(* A reader gets the oldest bytes, in order and once; it is told that the  *)
(* stream has ended only when it has read everything that was written.     *)
(***************************************************************************)
EXTENDS Naturals, Sequences

CONSTANTS PipeIds, Readers, Bytes, Capacity, Eof, Closed

VARIABLES
    queue,   \* bytes in each pipe, or Closed
    got      \* what the last read of each process returned

vars == <<queue, got>>

Init ==
    /\ queue = [i \in PipeIds |-> Closed]
    /\ got = [r \in Readers |-> <<>>]

(* One system call releases any set of pipes nobody refers to any more, and *)
(* then opens a pipe, writes to one, reads from one, or does none of these. *)
Step(q) ==
    \/ queue' = q /\ UNCHANGED got
    \/ \E i \in PipeIds :
          /\ q[i] = Closed
          /\ queue' = [q EXCEPT ![i] = <<>>]
          /\ UNCHANGED got
    \/ \E i \in PipeIds, n \in 1..Capacity, s \in [1..Capacity -> Bytes] :
          /\ q[i] # Closed
          /\ Len(q[i]) + n <= Capacity
          /\ queue' = [q EXCEPT ![i] = @ \o SubSeq(s, 1, n)]
          /\ UNCHANGED got
    \/ \E i \in PipeIds, r \in Readers :
          /\ q[i] # Closed
          /\ \/ \E n \in 1..Len(q[i]) :
                   /\ got' = [got EXCEPT ![r] = SubSeq(q[i], 1, n)]
                   /\ queue' = [q EXCEPT ![i] = SubSeq(@, n + 1, Len(@))]
             \/ /\ q[i] = <<>>
                /\ got' = [got EXCEPT ![r] = Eof]
                /\ queue' = q

Next ==
    \E gone \in SUBSET PipeIds :
        Step([i \in PipeIds |-> IF i \in gone THEN Closed ELSE queue[i]])

Spec == Init /\ [][Next]_vars
=============================================================================
