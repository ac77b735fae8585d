----------------------------- MODULE LoopCalls ------------------------------
(***************************************************************************)
(* The pure functions over bounded inputs: a state is a call with its      *)
(* input.  Here are two functions with a loop, each with a property that   *)
(* compares it with what it is to do: which frequency the LFU list takes   *)
(* for the least, and how a number of bytes is printed.  MCUtils has the   *)
(* others.                                                                 *)
(***************************************************************************)
EXTENDS MinFreqLoop, Formatting

CONSTANTS
    MaxFreq,        \* highest frequency
    OtherInputs     \* calls of functions that are not defined here

ASSUME LoopsAssumption ==
    /\ MaxFreq \in Nat \ {0}
    /\ \A other \in OtherInputs : other.fn \notin {"updateMinFreq", "formatBytes"}

VARIABLE input

-----------------------------------------------------------------------------
\* Buckets of frequencies up to MaxFreq, all in the map or some, used or empty.
AllBuckets ==
    UNION {[F -> {<<>>, <<NoKey>>}] : F \in SUBSET (1 .. MaxFreq)}

Idle == [fn |-> "none"]

Inputs ==
    OtherInputs
    \cup [fn : {"updateMinFreq"}, buckets : AllBuckets, minFreq : 1 .. MaxFreq]
    \cup [fn : {"formatBytes"}, bytes : -Int64Half .. Int64Half - 1]

Init == input = Idle

Call == input = Idle /\ input' \in Inputs

Return == input # Idle /\ input' = Idle

Next == Call \/ Return

Spec == Init /\ [][Next]_input

-----------------------------------------------------------------------------
(* Properties.                                                             *)

\* The closed form the model of the LFU list uses has exactly the results of the
\* loop, over all orders in which Go may visit the buckets.
LoopMatchesClosedForm ==
    input.fn = "updateMinFreq"
        => updateMinFreqLoop(input.buckets, input.minFreq)
               = updateMinFreq(input.buckets, input.minFreq)

\* The bytes in one B, KB, MB, GB, TB and PB, and in 1024 PB.
UnitBytes ==
    LET MB == Unit * Unit
        GB == Unit * MB
        TB == Unit * GB
        PB == Unit * TB
    IN  <<1, Unit, MB, GB, TB, PB, Unit * PB>>

UnitNames == <<"B", "KB", "MB", "GB", "TB", "PB">>

\* What formatBytes prints is the nearest number of tenths of its unit, at least
\* one of it, and no more than make one of the next, with the sign of its input,
\* for all numbers a float64 has, that is, below 2^53 = 8 PB.  Above, the
\* conversion in utils.go:365 rounds first, and what is printed may be the tenth
\* beside the nearest: 8.25 PB and one byte print as 8.2 PB.  From 1024^6 on
\* there is no unit, and the least int64 negates to itself.
FormatIsNearest ==
    input.fn = "formatBytes"
        => LET size == IF input.bytes < 0 THEN -input.bytes ELSE input.bytes
               f == formatBytes(input.bytes)
           IN  size < UnitBytes[7] /\ size < FloatExact /\ input.bytes # -Int64Half
                   => /\ f.end = "answer"
                      /\ f.minus <=> input.bytes < 0
                      /\ \E i \in DOMAIN UnitNames :
                            LET error == f.tenths * UnitBytes[i] - 10 * size
                            IN  /\ f.unit = UnitNames[i]
                                /\ -UnitBytes[i] <= 2 * error
                                /\ 2 * error <= UnitBytes[i]
                      /\ f.unit = "B" \/ f.tenths >= 10
                      /\ f.tenths <= 10 * Unit
=============================================================================
