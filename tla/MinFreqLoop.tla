---------------------------- MODULE MinFreqLoop -----------------------------
(***************************************************************************)
(* The loop of LFUList.updateMinFreq as it runs: one bucket after the      *)
(* other, in whatever order Go visits a map.  EvictionLists has its        *)
(* results in closed form.                                                 *)
(***************************************************************************)
EXTENDS EvictionLists

\* Fault: minFreq is not taken for unset when it reads 1.
visitLower(buckets, f, minFreq) ==
    IF buckets[f] # <<>> /\ f < minFreq THEN f ELSE minFreq

\* What the body of the loop makes of minFreq when it meets bucket f.
visit(buckets, f, minFreq) ==
    IF buckets[f] # <<>> /\ (f < minFreq \/ minFreq = 1) THEN f ELSE minFreq

\* What the loop may leave in minFreq, which it starts with 1: after[todo][m] is
\* what it may leave there when it reads m and the buckets in todo are to come.
updateMinFreqLoop(buckets, minFreq) ==
    LET after[todo \in SUBSET DOMAIN buckets] ==
            [m \in DOMAIN buckets \cup {1} |->
                IF todo = {} THEN {m}
                ELSE UNION {after[todo \ {f}][visit(buckets, f, m)] : f \in todo}]
    IN  IF Bucket(buckets, minFreq) # <<>> THEN {minFreq}
        ELSE after[DOMAIN buckets][1]
=============================================================================
