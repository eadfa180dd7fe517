------------------------------ MODULE Sequence ------------------------------
(***************************************************************************)
(* Sequence-number arithmetic of the transport                             *)
(* (include/vectornet/transport/sequence.hpp).  The code computes on       *)
(* uint32_t; here the width is the parameter Modulus (2^32 in the code), so *)
(* that a small instance wraps around.                                     *)
(***************************************************************************)
EXTENDS Integers

CONSTANT Modulus

ASSUME ModulusAssumption == Modulus \in Nat /\ Modulus > 0 /\ Modulus % 2 = 0

SeqNum == 0 .. (Modulus - 1)

\* Unsigned addition and subtraction wrap.
SeqAdd(a, n) == (a + n) % Modulus
SeqSub(a, b) == (a - b) % Modulus

\* The difference, read as a signed integer, is negative.
SequenceLess(a, b)      == SeqSub(a, b) >= Modulus \div 2
SequenceLessEqual(a, b) == a = b \/ SequenceLess(a, b)
SequenceGreater(a, b)   == SequenceLess(b, a)
=============================================================================
