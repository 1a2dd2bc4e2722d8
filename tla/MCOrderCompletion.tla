-------------------------- MODULE MCOrderCompletion --------------------------
(* Small instances of OrderCompletion: one cart that several callers pay for. *)
EXTENDS OrderCompletion, TLC

CONSTANTS o1, ring, p1, p2

RingCart == [o \in Order |-> << [row |-> ring, n |-> 1] >>]

TwoEach == [r \in Row |-> 2]

Handlers == Permutations(Proc)
=============================================================================
