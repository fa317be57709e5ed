----------------------------- MODULE MachineInts ----------------------------
(***************************************************************************)
(* Integers of a given width, as Java and C++ have them.                   *)
(***************************************************************************)
EXTENDS Integers

SignedInts(bits) == -(2^(bits - 1)) .. 2^(bits - 1) - 1
UnsignedInts(bits) == 0 .. 2^bits - 1

\* The value of the type that is congruent to x.
Signed(x, bits) == ((x + 2^(bits - 1)) % 2^bits) - 2^(bits - 1)
Unsigned(x, bits) == x % 2^bits

=============================================================================
