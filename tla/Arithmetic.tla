------------------------------ MODULE Arithmetic ------------------------------
(***************************************************************************)
(* Powers, and the operations of C on bits, in forms that can be proved    *)
(* about: TLAPS knows nothing of ^, and Bitwise is recursive.  A number    *)
(* is the sum of the powers of two of its bits that are one, so that & and *)
(* | are the intersection and the union of two sets.                       *)
(***************************************************************************)
EXTENDS Integers, Functions

\* b to the k
Power(b, k) ==
  LET P[i \in Nat] == IF i = 0 THEN 1 ELSE b * P[i - 1]
  IN  P[k]

PowersOfTwo == [i \in Nat |-> Power(2, i)]

\* the bits of x that are one, of its n lowest
Bits(x, n) == {i \in 0..(n - 1) : (x \div PowersOfTwo[i]) % 2 = 1}

\* the number whose bits these are
Number(bits) == SumFunctionOnSet(PowersOfTwo, bits)

\* & | ^ of C, on n bits
And(x, y, n) == Number(Bits(x, n) \cap Bits(y, n))
Or(x, y, n)  == Number(Bits(x, n) \cup Bits(y, n))
Xor(x, y, n) == Number((Bits(x, n) \ Bits(y, n)) \cup (Bits(y, n) \ Bits(x, n)))

===============================================================================
