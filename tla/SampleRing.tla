----------------------------- MODULE SampleRing -----------------------------
(***************************************************************************)
(* The lock-free ring between the OBS audio thread and the VAD worker      *)
(* (audio/audio-tap, class SampleRing).  One producer, one consumer, no    *)
(* lock: each side reads the other's counter once, copies sample by sample *)
(* and publishes its own counter at the end.  The acquire/release pairs    *)
(* make a published counter imply the copies before it, which is the order *)
(* of the steps below; each copied slot is a step of its own because       *)
(* nothing keeps the other thread out of the array meanwhile.              *)
(*                                                                         *)
(* Counters are free-running and wrap at W (2^64 in the code); N is the    *)
(* number of slots.  Samples are numbered by the producer.                 *)
(***************************************************************************)
EXTENDS Integers, Sequences

CONSTANTS
    N,          \* slots: round_up_pow2 makes it a power of two
    W,          \* where a counter wraps
    MaxBlock,   \* bound: frames in one audio callback
    MaxChunk,   \* bound: samples asked for in one read
    MaxSamples  \* bound: samples the producer ever offers

\* The counter's modulus is a multiple of the size: round_up_pow2 is what
\* makes that true of 2^64, and it is all the ring needs of it.
ASSUME RingAssumption ==
    /\ N \in Nat \ {0} /\ W \in Nat /\ W > N
    /\ W % N = 0
ASSUME CallAssumption ==
    MaxBlock \in Nat /\ MaxChunk \in Nat /\ MaxSamples \in Nat

VARIABLES
    data,        \* the slots
    write_pos, read_pos, dropped,
    wcount, wdone, wnext,   \* the producer inside write(): samples to copy, copied, the next
    rcount, rdone,   \* the consumer inside read()
    offered,     \* history: number of the last sample the producer was given
    forgotten,   \* history: samples dropped before the last clear()
    log,         \* history: samples copied into the ring
    out          \* history: samples that left it

producer == <<wcount, wdone, wnext, dropped, offered, log>>
consumer == <<rcount, rdone, out>>
vars == <<data, write_pos, read_pos, producer, consumer, forgotten>>

Fewest(a, b) == IF a <= b THEN a ELSE b

\* Mutant: the last sample is never counted as readable.
FilledButOne == IF write_pos = read_pos THEN 0 ELSE ((write_pos - read_pos) % W) - 1
Filled == (write_pos - read_pos) % W
Slot(pos, i) == ((pos + i) % W) % N

Init ==
    /\ data = [s \in 0..(N - 1) |-> 0]
    /\ write_pos = 0 /\ read_pos = 0 /\ dropped = 0
    /\ wcount = 0 /\ wdone = 0 /\ wnext = 0 /\ rcount = 0 /\ rdone = 0
    /\ offered = 0 /\ forgotten = 0
    /\ log = << >> /\ out = << >>

-----------------------------------------------------------------------------
(* write(), on the audio thread *)

\* Mutant: the ring may be overfilled by one.
RoomPlusOne == N + 1 - Filled
Room == N - Filled

\* The consumer may free slots after this look at its counter.  What does not
\* fit is the end of the block; a full ring drops all of it and returns.
WriteBegin ==
    /\ wcount = 0
    /\ \E count \in 1..MaxBlock :
         /\ offered + count <= MaxSamples
         /\ offered' = offered + count
         /\ wcount' = Fewest(count, Room)
         /\ dropped' = dropped + (count - wcount')
    /\ wdone' = 0 /\ wnext' = offered + 1
    /\ UNCHANGED <<data, write_pos, read_pos, log, consumer, forgotten>>

\* One sample of the memcpy (two of them when the block wraps).
CopyIn ==
    /\ wdone < wcount
    /\ data' = [data EXCEPT ![Slot(write_pos, wdone)] = wnext]
    /\ log' = Append(log, wnext)
    /\ wdone' = wdone + 1 /\ wnext' = wnext + 1
    /\ UNCHANGED <<write_pos, read_pos, wcount, dropped, offered, consumer, forgotten>>

\* Mutant: the counter is published while the last sample is still to be copied.
PublishEarly ==
    /\ wcount > 0 /\ wdone = wcount - 1
    /\ write_pos' = (write_pos + wcount) % W
    /\ log' = Append(log, wnext)
    /\ wcount' = 0 /\ wdone' = 0
    /\ UNCHANGED <<data, read_pos, dropped, wnext, offered, consumer, forgotten>>

WriteEnd ==
    /\ wcount > 0 /\ wdone = wcount
    /\ write_pos' = (write_pos + wcount) % W
    /\ wcount' = 0 /\ wdone' = 0
    /\ UNCHANGED <<data, read_pos, dropped, wnext, offered, log, consumer, forgotten>>

-----------------------------------------------------------------------------
(* read(), on the VAD worker *)

ReadBegin ==
    /\ rcount = 0
    /\ \E count \in 1..MaxChunk : rcount' = Fewest(count, Filled)
    /\ rcount' > 0
    /\ rdone' = 0
    /\ UNCHANGED <<data, write_pos, read_pos, producer, out, forgotten>>

CopyOut ==
    /\ rdone < rcount
    /\ out' = Append(out, data[Slot(read_pos, rdone)])
    /\ rdone' = rdone + 1
    /\ UNCHANGED <<data, write_pos, read_pos, producer, rcount, forgotten>>

ReadEnd ==
    /\ rcount > 0 /\ rdone = rcount
    /\ read_pos' = (read_pos + rcount) % W
    /\ rcount' = 0 /\ rdone' = 0
    /\ UNCHANGED <<data, write_pos, producer, out, forgotten>>

-----------------------------------------------------------------------------
\* Mutant: the losses of the last stream are not counted off.
ClearKeepingDrops ==
    /\ wcount = 0 /\ rcount = 0
    /\ read_pos' = write_pos
    /\ out' = log
    /\ forgotten' = forgotten + dropped
    /\ UNCHANGED <<data, write_pos, producer, rcount, rdone>>

\* AudioTap::start() calls it before the callback is added and before the
\* workers exist, so neither side is inside a call.
Clear ==
    /\ wcount = 0 /\ rcount = 0
    /\ read_pos' = write_pos
    /\ out' = log
    /\ forgotten' = forgotten + dropped /\ dropped' = 0
    /\ UNCHANGED <<data, write_pos, wcount, wdone, wnext, offered, log, rcount, rdone>>

Produce == WriteBegin \/ CopyIn \/ WriteEnd
Consume == ReadBegin \/ CopyOut \/ ReadEnd

Next == Produce \/ Consume \/ Clear

Spec == Init /\ [][Next]_vars

\* The audio thread is never late for long and the worker reads every 10 ms.
FairSpec == Spec /\ WF_vars(Produce) /\ WF_vars(Consume)

-----------------------------------------------------------------------------
\* Every variable keeps to its range.
TypeOK ==
    /\ data \in [0..(N - 1) -> Nat]
    /\ write_pos \in 0..(W - 1) /\ read_pos \in 0..(W - 1)
    /\ dropped \in Nat /\ offered \in Nat /\ forgotten \in Nat /\ wnext \in Nat
    /\ wcount \in 0..N /\ rcount \in 0..N
    /\ wdone \in 0..wcount /\ rdone \in 0..rcount
    /\ log \in Seq(Nat) /\ out \in Seq(Nat)

\* How many samples were ever published by each side, had the counters never
\* wrapped.
Published == Len(log) - wdone
Consumed == Len(out) - rdone

\* The inductive invariant.  "Only their difference matters, so the wrap at 2^64 is
\* harmless" (audio-tap.hpp:58): both counters are the true ones modulo W; the
\* slots promised to the consumer are published and those promised to the
\* producer are free; every sample not yet consumed is still in its slot; and the worker
\* has exactly the samples that entered, in order: none twice, none skipped,
\* none torn or left over from an earlier lap.
Positions == write_pos = Published % W /\ read_pos = Consumed % W
Bounds ==
    /\ 0 <= Consumed /\ Consumed + rcount <= Published
    /\ Published + wcount <= Consumed + N
Contents ==
    \A p \in 1..Len(log) : p > Consumed => data[(p - 1) % N] = log[p]
Prefix == \A p \in 1..Len(out) : out[p] = log[p]
RingInvariant == TypeOK /\ Positions /\ Bounds /\ Contents /\ Prefix

\* The lock-free claim itself (audio-tap.hpp:36-42): the slots the producer
\* still has to write and those the consumer still has to read are disjoint.
NoDataRace ==
    \A i \in wdone..(wcount - 1), j \in rdone..(rcount - 1) :
        Slot(write_pos, i) # Slot(read_pos, j)

\* "The counter is what tells the log that anything was lost at all"
\* (audio-tap.cpp:59-61): between two calls, every sample the tap was given
\* is in the ring's history or in the count of this stream or an earlier one.
DropsAreCounted ==
    wcount = 0 => offered = Len(log) + dropped + forgotten

\* The ring behaves as the queue it stands for, and what entered it leaves it,
\* by a read or by the clear of the next start.
Queue == INSTANCE SampleQueue WITH
    Capacity <- N,
    Samples  <- 1..MaxSamples,
    accepted <- SubSeq(log, 1, Published),
    taken    <- SubSeq(out, 1, Consumed)
RefinesQueue == Queue!QueueSpec
=============================================================================
