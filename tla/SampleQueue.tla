---------------------------- MODULE SampleQueue ----------------------------
(***************************************************************************)
(* What a SampleRing promises its two threads, without slots or counters:  *)
(* a queue of at most Capacity samples.  The producer may lose the end of  *)
(* a block but never a sample from the middle; the consumer takes samples  *)
(* in the order they were accepted, each once; a reset throws away what    *)
(* nobody took.                                                            *)
(***************************************************************************)
EXTENDS Integers, Sequences, FiniteSets

CONSTANTS Capacity, Samples

VARIABLES
    accepted,   \* every sample that entered, in order
    taken       \* those that left, delivered or thrown away, in order

QueueVars == <<accepted, taken>>

QueueInit == accepted = << >> /\ taken = << >>

Accept ==
    /\ \E n \in 1..(Capacity - (Len(accepted) - Len(taken))) :
         \E block \in [1..n -> Samples] : accepted' = accepted \o block
    /\ UNCHANGED taken

Deliver ==
    /\ \E n \in (Len(taken) + 1)..Len(accepted) : taken' = SubSeq(accepted, 1, n)
    /\ UNCHANGED accepted

QueueNext == Accept \/ Deliver

\* What entered the queue leaves it.
EverythingLeaves == \A n \in 1..Cardinality(Samples) : (Len(accepted) = n) ~> (Len(taken) >= n)

QueueSpec == QueueInit /\ [][QueueNext]_QueueVars /\ EverythingLeaves
=============================================================================
