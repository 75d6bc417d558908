-------------------------------- MODULE Int32 --------------------------------
(***************************************************************************)
(* The counter the prototypes keep in the enclave is an int32_t that       *)
(* a++ wraps.  IntMax is INT32_MAX; a small value makes the wrap-around    *)
(* happen within the bounds of a run.                                      *)
(***************************************************************************)
EXTENDS Integers

CONSTANT IntMax

ASSUME IntMaxAssumption == IntMax \in Nat \ {0}

IntMin == -IntMax - 1
Int32 == IntMin .. IntMax

(* Variant: the counter does not wrap.                                     *)
Succ32_NoWrap(n) == n + 1

(* a++ on an int32_t: signed overflow is undefined in C; gcc compiles the  *)
(* statement to an add, which wraps.                                       *)
Succ32(n) == IF n = IntMax THEN IntMin ELSE n + 1
=============================================================================
