------------------------------ MODULE Wrapping ------------------------------
(***************************************************************************)
(* The 32-bit wrapping arithmetic of the routing core.  A counter of width *)
(* w is a number in 0..2*half-1 with half = 2^(w-1); the code uses w = 32  *)
(* for sequence numbers and for the millisecond stamps of time.rs, and     *)
(* every instance here scales half down.  The reductions are written as a  *)
(* single correction by 2*half: both operands are already in range, so     *)
(* that is the remainder modulo 2^w.                                       *)
(***************************************************************************)
EXTENDS Integers

Counter(half) == 0 .. (2 * half - 1)

\* a.wrapping_sub(b) as i32
SignedDiff(a, b, half) ==
    LET diff == a - b
    IN  IF diff >= half THEN diff - 2 * half
        ELSE IF diff < -half THEN diff + 2 * half
        ELSE diff

\* a.wrapping_add(k), for 0 <= k <= 2*half
WrappingAdd(a, k, half) ==
    IF a + k >= 2 * half THEN a + k - 2 * half ELSE a + k

\* Millis::elapsed_since: the wrapping difference, zero when it is negative.
ElapsedSince(now, earlier, half) ==
    LET diff == SignedDiff(now, earlier, half)
    IN  IF diff < 0 THEN 0 ELSE diff
=============================================================================
