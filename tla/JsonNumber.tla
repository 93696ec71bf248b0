----------------------------- MODULE JsonNumber -----------------------------
(***************************************************************************)
(* What an unsigned integer becomes when it is written with the bundled    *)
(* json::dump() and read back with json::value(): dump_impl streams the    *)
(* double with the default precision of an ostream, so only the first      *)
(* significant digits survive.  Exact is the first number with more digits *)
(* than that (10^6 in the code).                                           *)
(***************************************************************************)
EXTENDS Integers

CONSTANT Exact

ASSUME ExactAssumption == Exact \in Nat \ {0}

\* The powers of ten of the numbers in use (bounded by TLC's 32-bit integers).
DecimalUnits == {1, 10, 100, 1000}

\* The weight of the last digit that is printed.
LastDigit(n) ==
  CHOOSE u \in DecimalUnits :
    /\ n < Exact * u
    /\ \A v \in DecimalUnits : n < Exact * v => u <= v

RoundTrip(n) ==
  LET u == LastDigit(n) IN ((n + u \div 2) \div u) * u

=============================================================================
