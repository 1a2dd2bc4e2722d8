---------------------------- MODULE MCInventory ----------------------------
(* Small instances of Inventory: rings and chains, and carts of them. *)
EXTENDS Inventory, TLC

CONSTANTS o1, o2, c1, ring, chain, p1, p2

OneRing == << [row |-> ring, n |-> 1] >>
TwoRings == << [row |-> ring, n |-> 2] >>
RingAndChain == << [row |-> ring, n |-> 1], [row |-> chain, n |-> 1] >>
ChainAndRing == << [row |-> chain, n |-> 1], [row |-> ring, n |-> 1] >>
ChainsAndRing == << [row |-> chain, n |-> 2], [row |-> ring, n |-> 1] >>

RingCarts == [o \in Order |-> OneRing]
BulkCarts == [o \in Order |-> IF o = o2 THEN TwoRings ELSE OneRing]
MixedCarts == [o \in Order |-> CASE o = o1 -> RingAndChain
                                 [] o = o2 -> ChainsAndRing
                                 [] OTHER  -> ChainAndRing]

TwoEach == [r \in Row |-> 2]

Handlers == Permutations(Proc)
=============================================================================
