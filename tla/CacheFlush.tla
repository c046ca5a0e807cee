------------------------------ MODULE CacheFlush ------------------------------
(***************************************************************************)
(* flush_cache (profiler/lib/Utils.cpp): how many doubles it allocates and *)
(* reads for a cache of so many KB,                                        *)
(*     int to_flush = 1024 * cache_size / sizeof(double);                  *)
(* a product of ints, a quotient of size_t, and a conversion to int.       *)
(***************************************************************************)
EXTENDS Integers

CONSTANTS
  KB,           \* 1024 in the code
  Double,       \* sizeof(double), 8 in the code
  IntModulus,   \* 2^32 in the code
  SizeModulus   \* 2^64 in the code

ASSUME CacheFlushAssumption ==
  /\ KB \in Nat \ {0}
  /\ Double \in Nat \ {0}
  /\ IntModulus \in Nat \ {0} /\ IntModulus % 2 = 0
  /\ SizeModulus \in Nat /\ IntModulus <= SizeModulus

Half == IntModulus \div 2

IntRange == -Half .. Half - 1

\* Out of the range of int: modulo 2^32.
ToInt(n) == ((n + Half) % IntModulus) - Half

ToSize(n) == n % SizeModulus

\* The overflow of a product of ints is undefined: compilers let it wrap
\* around, or compute it in the wider type that it is converted to next.
Product(size) ==
  IF KB * size \in IntRange THEN {KB * size} ELSE {ToInt(KB * size), KB * size}

\* Wrong: whole doubles of one KB each.
to_flush_first(size) == {ToInt(KB * (size \div Double))}

\* A negative number makes the array new-expression throw.
to_flush(size) == {ToInt(ToSize(p) \div Double) : p \in Product(size)}

\* The sizes whose bytes an int can count, those of caches.
Counted(size) == size >= 0 /\ KB * size \in IntRange
=============================================================================
