------------------------------- MODULE Sizes -------------------------------
(***************************************************************************)
(* The parseSize functions of internal/console, internal/iso (both signed) *)
(* and internal/disk (unsigned): a decimal number with an optional unit,   *)
(* multiplied in 64 bits without a look at the overflow.  The text is      *)
(* abstracted to the number and the unit it shows.                         *)
(***************************************************************************)
EXTENDS Integers

CONSTANTS
  Half,    (* 2^63: an int64 is in -Half..Half-1, a uint64 in 0..2*Half-1  *)
  Kilo     (* 1024                                                         *)

ASSUME SizesAssumption == Half \in Nat \ {0} /\ Kilo \in Nat \ {0}

Units == {"", "K", "M", "G"}

Multiplier(u) ==
  CASE u = "G" -> Kilo * Kilo * Kilo
    [] u = "M" -> Kilo * Kilo
    [] u = "K" -> Kilo
    [] OTHER   -> 1

(* What the text says, whatever fits.                                      *)
Exact(size) == size.number * Multiplier(size.unit)

Int64(n)  == ((n + Half) % (2 * Half)) - Half
Uint64(n) == n % (2 * Half)

(* strconv reports a number that does not fit, and, as well, text that is  *)
(* none; the product is not looked at.                                     *)
ParseFails(size) == ~size.numeric \/ size.number \notin (-Half)..(Half - 1)

ParseSize(size) == Int64(Exact(size))

ParseFailsUnsigned(size) ==
  ~size.numeric \/ size.number \notin 0..(2 * Half - 1)

ParseSizeUnsigned(size) == Uint64(Exact(size))

Fits(size) == Exact(size) \in (-Half)..(Half - 1)

=============================================================================
