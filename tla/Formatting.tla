----------------------------- MODULE Formatting -----------------------------
(***************************************************************************)
(* formatBytes of utils.go, for an int64 of Int64Half non-negative values, *)
(* a float64 of FloatExact mantissas and units that grow by a factor of    *)
(* Unit.  "%.1f" is a number of tenths.                                    *)
(* A definition marked "Fault:" is not part of the model (EvictionLists).  *)
(***************************************************************************)
EXTENDS Integers

CONSTANTS
    Unit,           \* bytes in a kilobyte
    Int64Half,      \* the non-negative values of an int64
    FloatExact      \* a float64 has every natural below this one: 2^53

\* Powers of two, so that dividing a float64 by a unit is exact.
ASSUME FormatAssumption ==
    /\ Unit \in Nat \ {0, 1} /\ \E e \in 1 .. Unit : Unit = 2 ^ e
    /\ Int64Half \in Nat \ {0}
    /\ FloatExact \in Nat \ {0} /\ \E e \in 0 .. FloatExact : FloatExact = 2 ^ e

\* Fault: the units its comment lists (utils.go:339-344).
unitsDocumented == <<"KB", "MB", "GB", "TB">>

units == <<"KB", "MB", "GB", "TB", "PB">>

\* The nearest number to n / d; what is half way goes to the even neighbour.
RoundHalfEven(n, d) ==
    LET q == n \div d
        r == n % d
    IN  IF 2 * r < d \/ (2 * r = d /\ q % 2 = 0) THEN q ELSE q + 1

\* The distance of the float64 numbers around n.
spacing(n) ==
    LET step[m \in 0 .. n] == IF m < FloatExact THEN 1 ELSE 2 * step[m \div 2]
    IN  step[n]

\* The conversion of an int64 rounds what does not fit the mantissa.
float64(n) ==
    IF n < FloatExact THEN n ELSE spacing(n) * RoundHalfEven(n, spacing(n))

\* The loop that divides by Unit while it can; div and exp count the divisions.
divide(bytes) ==
    LET loop[n \in 0 .. bytes] ==
            IF n >= Unit
            THEN [div |-> loop[n \div Unit].div * Unit, exp |-> loop[n \div Unit].exp + 1]
            ELSE [div |-> Unit, exp |-> 0]
    IN  loop[bytes \div Unit]

Panic == [end |-> "index out of range"]
NoEnd == [end |-> "never"]

formatPositive(bytes) ==
    LET by == divide(bytes)
    IN  IF bytes < Unit
        THEN [end |-> "answer", minus |-> FALSE, tenths |-> 10 * bytes, unit |-> "B"]
        ELSE IF by.exp + 1 \in DOMAIN units
        THEN [end |-> "answer", minus |-> FALSE,
              tenths |-> RoundHalfEven(10 * float64(bytes), by.div), unit |-> units[by.exp + 1]]
        ELSE Panic

\* The negative of the least int64 is itself.
formatBytes(bytes) ==
    IF bytes = -Int64Half THEN NoEnd
    ELSE IF bytes >= 0 THEN formatPositive(bytes)
    ELSE IF formatPositive(-bytes) = Panic THEN Panic
    ELSE [formatPositive(-bytes) EXCEPT !.minus = TRUE]
=============================================================================
