-------------------------------- MODULE Uuid --------------------------------
(***************************************************************************)
(* The number generator of Wsa::randUuid (wsdd/wsa.cpp), in the build      *)
(* without OpenSSL.  It works on 32-bit ints, whose division truncates     *)
(* towards zero, from a seed that is negative as an int.  The rest of an   *)
(* id is the time, rand() and whatever the soap buffer holds; the sum of   *)
(* the last with the step (wsa.cpp:90) is not modelled.                    *)
(***************************************************************************)
EXTENDS Integers

MaxInt == 2147483647

\* A 32-bit int, and not the least one.
IsInt(x) == x \in Int /\ -MaxInt <= x /\ x <= MaxInt

\* 0xFACEB00B, converted to an int.
Seed == -87117813

\* k / 127773 and k % 127773
Quot(k) == IF k >= 0 THEN k \div 127773 ELSE -((-k) \div 127773)
Rem(k) == k - 127773 * Quot(k)

\* 16807 * lo - 2836 * hi
Product(k) == 16807 * Rem(k) - 2836 * Quot(k)

\* Mutant of Step: the result is not brought above zero.
StepUnadjusted(k) == Product(k)

Step(k) == IF Product(k) <= 0 THEN Product(k) + MaxInt ELSE Product(k)

\* k &= 0x8FFFFFFF, of a positive k: the 28 low bits.
Masked(r) == r % 268435456

\* The next value of the static k.
NextK(k) == Masked(Step(k))
=============================================================================
