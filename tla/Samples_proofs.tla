---------------------------- MODULE Samples_proofs ----------------------------
(***************************************************************************)
(* The way of a sample through two rings.                                  *)
(*                                                                         *)
(* Of SampleRing, between the audio thread and the VAD worker: it is safe, *)
(* and implements the queue SampleQueue describes, for every ring size,    *)
(* every wrap that is a multiple of it, and every interleaving of the two  *)
(* threads.                                                                *)
(*                                                                         *)
(* Of VadSegmenter, with its ring of the last moments before speech:       *)
(* utterances are unbroken, have their first word, and never more than the *)
(* code's bounds, for any sizes in the order the code has them, any        *)
(* verdicts of the network and a stream of any length.                     *)
(***************************************************************************)
EXTENDS SampleRing, VadSegmenter, TLAPS, SequenceTheorems

(***************************************************************************)
(* SampleRing                                                              *)
(***************************************************************************)


-----------------------------------------------------------------------------
(* Free-running counters that wrap: the facts behind the ring's "mask and  *)
(* subtract" (audio/audio-tap.cpp:52-98).                                  *)

\* Euclidean division, as a witness rather than as operators.
LEMMA DivMod ==
  ASSUME NEW a \in Int, NEW d \in Nat \ {0}
  PROVE \E q \in Int, r \in 0..(d-1) : a = d * q + r /\ a % d = r
<1>1. /\ a % d \in 0..(d-1) /\ a \div d \in Int /\ a = d * (a \div d) + (a % d)
  OBVIOUS
<1>. QED BY <1>1

\* A remainder in range is the remainder.
LEMMA ModUnique ==
  ASSUME NEW d \in Nat \ {0}, NEW q \in Int, NEW r \in 0..(d-1)
  PROVE (d * q + r) % d = r
OBVIOUS

\* The products the arguments below need, spelled out for the solver.
LEMMA Distribute ==
  ASSUME NEW d \in Int, NEW x \in Int, NEW y \in Int
  PROVE /\ d * (x - y) = d * x - d * y /\ d * x \in Int /\ d * y \in Int
OBVIOUS

\* "Only their difference matters" (audio-tap.hpp:58): two counters less than
\* one lap apart have the same difference after any number of wraps.
LEMMA ModDiff ==
  ASSUME NEW wrap \in Nat \ {0}, NEW a \in Nat, NEW b \in Nat, a - b >= 0, a - b < wrap
  PROVE ((a % wrap) - (b % wrap)) % wrap = a - b
<1>0. a \in Int /\ b \in Int
  OBVIOUS
<1>1. PICK qa \in Int, ra \in 0..(wrap-1) : a = wrap * qa + ra /\ a % wrap = ra
  BY <1>0, DivMod, Zenon
<1>2. PICK qb \in Int, rb \in 0..(wrap-1) : b = wrap * qb + rb /\ b % wrap = rb
  BY <1>0, DivMod, Zenon
<1>3. /\ wrap * (qb - qa) = wrap * qb - wrap * qa /\ wrap * qa \in Int /\ wrap * qb \in Int
  BY Distribute
<1>4. ra - rb = wrap * (qb - qa) + (a - b)
  BY <1>1, <1>2, <1>3
<1>5. (wrap * (qb - qa) + (a - b)) % wrap = a - b
  <2>1. qb - qa \in Int /\ a - b \in 0..(wrap-1)
    OBVIOUS
  <2>. QED BY <2>1, ModUnique
<1>. QED BY <1>1, <1>2, <1>4, <1>5

\* Advancing a wrapped counter is wrapping the advanced one.
LEMMA ModAdd ==
  ASSUME NEW wrap \in Nat \ {0}, NEW a \in Nat, NEW b \in Nat
  PROVE ((a % wrap) + b) % wrap = (a + b) % wrap
<1>0. a \in Int /\ a + b \in Int
  OBVIOUS
<1>1. PICK qa \in Int, ra \in 0..(wrap-1) : a = wrap * qa + ra /\ a % wrap = ra
  BY <1>0, DivMod, Zenon
<1>2. PICK q \in Int, r \in 0..(wrap-1) : a + b = wrap * q + r /\ (a + b) % wrap = r
  BY <1>0, DivMod, Zenon
<1>3. /\ wrap * (q - qa) = wrap * q - wrap * qa /\ wrap * qa \in Int /\ wrap * q \in Int
  BY Distribute
<1>4. ra + b = wrap * (q - qa) + r
  BY <1>1, <1>2, <1>3
<1>5. q - qa \in Int
  OBVIOUS
<1>6. (wrap * (q - qa) + r) % wrap = r
  BY <1>5, ModUnique
<1>. QED BY <1>1, <1>2, <1>4, <1>6

\* The slot of a wrapped counter is the slot of the true one when the wrap is a
\* whole number of rings (audio-tap.cpp:37-50: the size is a power of two).
LEMMA ModMod ==
  ASSUME NEW size \in Nat \ {0}, NEW wrap \in Nat \ {0}, wrap % size = 0, NEW a \in Nat
  PROVE (a % wrap) % size = a % size
<1>0. a \in Int /\ wrap \in Int
  OBVIOUS
<1>1. PICK k \in Int, z \in 0..(size-1) : wrap = size * k + z /\ wrap % size = z
  BY <1>0, DivMod, Zenon
<1>2. PICK q \in Int, r \in 0..(wrap-1) : a = wrap * q + r /\ a % wrap = r
  BY <1>0, DivMod, Zenon
<1>3. PICK c \in Int, s \in 0..(size-1) : a = size * c + s /\ a % size = s
  <2>1. \A d \in Nat \ {0} : \E c \in Int, s \in 0..(d-1) : a = d * c + s /\ a % d = s
    BY <1>0, DivMod, Zenon
  <2>. QED
    BY <2>1, Zenon
<1>4. wrap = size * k
  BY <1>1
<1>5. wrap * q = size * (k * q) /\ k * q \in Int
  BY <1>4
<1>6. /\ size * (c - k * q) = size * c - size * (k * q) /\ size * c \in Int /\ size * (k * q) \in Int
  BY <1>5, Distribute
<1>7. r = size * (c - k * q) + s
  BY <1>2, <1>3, <1>5, <1>6
<1>8. c - k * q \in Int
  BY <1>5
<1>9. (size * (c - k * q) + s) % size = s
  BY <1>8, ModUnique
<1>. QED BY <1>2, <1>3, <1>7, <1>9

\* Positions less than one ring apart never share a slot.
LEMMA ModDistinct ==
  ASSUME NEW size \in Nat \ {0}, NEW a \in Nat, NEW b \in Nat, a < b, b - a < size
  PROVE a % size # b % size
<1>0. a \in Int /\ b \in Int
  OBVIOUS
<1>1. PICK qa \in Int, r \in 0..(size-1) : a = size * qa + r /\ a % size = r
  BY <1>0, DivMod, Zenon
<1>2. PICK qb \in Int, s \in 0..(size-1) : b = size * qb + s /\ b % size = s
  BY <1>0, DivMod, Zenon
<1>. SUFFICES ASSUME r = s PROVE FALSE
  BY <1>1, <1>2
<1>3. /\ size * (qb - qa) = size * qb - size * qa /\ size * qa \in Int /\ size * qb \in Int
  BY Distribute
<1>4. b - a = size * (qb - qa) + 0
  BY <1>1, <1>2, <1>3
<1>5. (size * (qb - qa) + 0) % size = 0
  <2>1. qb - qa \in Int /\ 0 \in 0..(size-1)
    OBVIOUS
  <2>. QED BY <2>1, ModUnique
<1>6. (size * 0 + (b - a)) % size = b - a
  <2>1. b - a \in 0..(size-1)
    OBVIOUS
  <2>. QED BY <2>1, ModUnique
<1>. QED BY <1>4, <1>5, <1>6

-----------------------------------------------------------------------------
(* The invariant of the ring *)

\* What the assumption gives, in the form the arithmetic lemmas want.
LEMMA Sizes == N \in Nat \ {0} /\ W \in Nat \ {0} /\ N < W /\ W % N = 0
  BY RingAssumption

\* Both true counters are naturals, at most N apart.
LEMMA Distance ==
  ASSUME RingInvariant
  PROVE  /\ Published \in Nat /\ Consumed \in Nat
         /\ Published - Consumed >= 0 /\ Published - Consumed <= N
<1>1. Len(log) \in Nat /\ Len(out) \in Nat
  BY DEF RingInvariant, TypeOK
<1>2. rcount \in Nat /\ wcount \in Nat /\ wdone \in 0..wcount /\ rdone \in 0..rcount
  BY Sizes DEF RingInvariant, TypeOK
<1>. QED
  BY <1>1, <1>2, Sizes DEF RingInvariant, Bounds, Published, Consumed

\* The types again, as the arithmetic below uses them.
LEMMA Types ==
  ASSUME RingInvariant
  PROVE  /\ wcount \in Nat /\ wcount <= N /\ wdone \in Nat /\ wdone <= wcount
         /\ rcount \in Nat /\ rcount <= N /\ rdone \in Nat /\ rdone <= rcount
         /\ dropped \in Nat /\ offered \in Nat /\ forgotten \in Nat /\ wnext \in Nat
         /\ log \in Seq(Nat) /\ Len(log) \in Nat /\ out \in Seq(Nat) /\ Len(out) \in Nat
         /\ data \in [0..(N - 1) -> Nat]
         /\ write_pos \in 0..(W - 1) /\ read_pos \in 0..(W - 1)
<1>1. wcount \in Nat /\ wcount <= N /\ rcount \in Nat /\ rcount <= N
  BY Sizes DEF RingInvariant, TypeOK
<1>. QED
  BY <1>1 DEF RingInvariant, TypeOK

\* The subtraction modulo W that both sides compute is the number of samples held.
LEMMA FilledIsTrue ==
  ASSUME RingInvariant
  PROVE  Filled = Published - Consumed
<1>1. /\ Published \in Nat /\ Consumed \in Nat
      /\ Published - Consumed >= 0 /\ Published - Consumed < W
  BY Distance, Sizes
<1>2. ((Published % W) - (Consumed % W)) % W = Published - Consumed
  BY <1>1, Sizes, ModDiff
<1>. QED
  BY <1>2 DEF RingInvariant, Positions, Filled

\* The slot computed from a wrapped counter is that of the true one.
LEMMA SlotIsTrue ==
  ASSUME NEW a \in Nat, NEW i \in Nat, NEW p, p = a % W
  PROVE  Slot(p, i) = (a + i) % N /\ (a + i) % N \in 0..(N - 1)
<1>1. (p + i) % W = (a + i) % W
  BY Sizes, ModAdd
<1>2. ((a + i) % W) % N = (a + i) % N
  <2>1. a + i \in Nat
    OBVIOUS
  <2>. QED
    BY <2>1, Sizes, ModMod, Zenon
<1>3. (a + i) % N \in 0..(N - 1)
  BY Sizes, DivMod
<1>. QED
  BY <1>1, <1>2, <1>3 DEF Slot

\* The ring starts empty.
LEMMA InitInvariant == Init => RingInvariant
<1>. SUFFICES ASSUME Init PROVE RingInvariant
  OBVIOUS
<1>. USE DEF Init
<1>1. Len(log) = 0 /\ Len(out) = 0
  OBVIOUS
<1>2. 0 % W = 0
  BY Sizes, ModUnique
<1>3. TypeOK
  BY Sizes DEF TypeOK
<1>4. Positions /\ Bounds
  BY <1>1, <1>2, Sizes DEF Positions, Bounds, Published, Consumed
<1>5. Contents /\ Prefix
  BY <1>1 DEF Contents, Prefix
<1>. QED
  BY <1>3, <1>4, <1>5 DEF RingInvariant

\* Starting a write: what is promised to the producer is free, because the
\* look at read_pos can only underestimate the room.
LEMMA WriteBeginInvariant == RingInvariant /\ WriteBegin => RingInvariant'
<1>. SUFFICES ASSUME RingInvariant, WriteBegin PROVE RingInvariant'
  OBVIOUS
<1>1. /\ Published \in Nat /\ Consumed \in Nat
      /\ Published - Consumed >= 0 /\ Published - Consumed <= N
      /\ Filled = Published - Consumed
  BY Distance, FilledIsTrue
<1>2. PICK count \in 1..MaxBlock :
        /\ offered' = offered + count
        /\ wcount' = Fewest(count, Room)
        /\ dropped' = dropped + (count - wcount')
  BY DEF WriteBegin
<1>3. /\ wcount' \in 0..N /\ wcount' <= N - (Published - Consumed)
      /\ count - wcount' \in Nat
  BY <1>1, <1>2, Sizes, CallAssumption DEF Fewest, Room
<1>4. wdone = 0 /\ wdone' = 0
  BY DEF WriteBegin, RingInvariant, TypeOK
<1>5. Published' = Published /\ Consumed' = Consumed
  BY <1>4 DEF WriteBegin, consumer, Published, Consumed
<1>6. TypeOK'
  <2>1. count \in Nat /\ offered' \in Nat /\ dropped' \in Nat /\ wnext' \in Nat
    <3>1. /\ wnext' = offered + 1 /\ offered \in Nat /\ dropped \in Nat
          /\ count \in Nat
      <4>1. wnext' = offered + 1
        BY DEF WriteBegin
      <4>2. count \in Nat
        BY CallAssumption
      <4>. QED
        BY <4>1, <4>2, Types
    <3>2. dropped + (count - wcount') \in Nat
      <4>1. \A a, b \in Nat : a + b \in Nat
        OBVIOUS
      <4>. QED
        BY <1>3, <3>1, <4>1, Zenon
    <3>. QED
      BY <1>2, <3>1, <3>2
  <2>2. wcount' \in 0..N /\ wdone' \in 0..wcount'
    BY <1>3, <1>4, Sizes
  <2>. QED
    BY <2>1, <2>2 DEF WriteBegin, consumer, RingInvariant, TypeOK
<1>7. Positions' /\ Bounds'
  BY <1>1, <1>3, <1>5, Sizes
     DEF WriteBegin, consumer, RingInvariant, TypeOK, Positions, Bounds
<1>8. Contents' /\ Prefix'
  BY <1>5 DEF WriteBegin, consumer, RingInvariant, Contents, Prefix
<1>. QED
  BY <1>6, <1>7, <1>8 DEF RingInvariant

\* Copying in: the slot written is none of those still to be consumed.
LEMMA CopyInInvariant == RingInvariant /\ CopyIn => RingInvariant'
<1>. SUFFICES ASSUME RingInvariant, CopyIn PROVE RingInvariant'
  OBVIOUS
<1>1. /\ Published \in Nat /\ Consumed \in Nat
      /\ wdone \in Nat /\ wcount \in 0..N /\ wdone < wcount
      /\ Len(log) \in Nat /\ Len(log) = Published + wdone
      /\ Len(log) < Consumed + N /\ log \in Seq(Nat) /\ wnext \in Nat
  <2>1. wdone < wcount /\ Published + wcount <= Consumed + N
    BY DEF CopyIn, RingInvariant, Bounds
  <2>2. Len(log) = Published + wdone
    BY Types DEF Published
  <2>3. /\ Published \in Nat /\ Consumed \in Nat
    BY Distance
  <2>4. wdone \in Nat /\ wcount \in Nat /\ wcount <= N /\ N \in Nat
    BY Types, Sizes
  <2>5. wcount \in 0..N /\ Published + wdone < Consumed + N
    BY <2>1, <2>3, <2>4
  <2>. QED
    BY <2>1, <2>2, <2>3, <2>4, <2>5, Types
<1>2. /\ Slot(write_pos, wdone) = Len(log) % N
      /\ Len(log) % N \in 0..(N - 1)
  <2>1. write_pos = Published % W /\ Published \in Nat /\ wdone \in Nat
    BY Distance, Types DEF RingInvariant, Positions
  <2>2. /\ Slot(write_pos, wdone) = (Published + wdone) % N
        /\ (Published + wdone) % N \in 0..(N - 1)
    BY <2>1, SlotIsTrue, Zenon
  <2>3. Published + wdone = Len(log)
    BY Types DEF Published
  <2>. QED
    BY <2>2, <2>3, Zenon
<1>3. /\ log' = Append(log, wnext) /\ log' \in Seq(Nat)
      /\ Len(log') = Len(log) + 1 /\ log'[Len(log) + 1] = wnext
      /\ \A p \in 1..Len(log) : log'[p] = log[p]
  BY <1>1 DEF CopyIn
<1>4. data' = [data EXCEPT ![Len(log) % N] = wnext] /\ wdone' = wdone + 1
  BY <1>2 DEF CopyIn
<1>5. Published' = Published /\ Consumed' = Consumed
  BY <1>1, <1>3, <1>4 DEF CopyIn, consumer, Published, Consumed
<1>6. TypeOK'
  BY <1>1, <1>2, <1>3, <1>4 DEF CopyIn, consumer, RingInvariant, TypeOK
<1>7. Positions' /\ Bounds'
  BY <1>5 DEF CopyIn, consumer, RingInvariant, Positions, Bounds
<1>8. Contents'
  <2>. SUFFICES ASSUME NEW p \in 1..Len(log'), p > Consumed
                PROVE  data'[(p - 1) % N] = log'[p]
    BY <1>5 DEF Contents
  <2>1. data \in [0..(N - 1) -> Nat]
    BY DEF RingInvariant, TypeOK
  <2>2. CASE p = Len(log) + 1
    <3>1. (p - 1) % N = Len(log) % N
      BY <2>2, <1>1
    <3>. QED
      BY <2>1, <2>2, <3>1, <1>2, <1>3, <1>4
  <2>3. CASE p # Len(log) + 1
    <3>1. p \in 1..Len(log) /\ p - 1 \in Nat /\ p - 1 < Len(log) /\ Len(log) - (p - 1) < N
      BY <2>3, <1>1, <1>3, Sizes
    <3>2. (p - 1) % N # Len(log) % N
      BY <3>1, <1>1, Sizes, ModDistinct
    <3>3. data[(p - 1) % N] = log[p]
      BY <3>1 DEF RingInvariant, Contents
    <3>4. (p - 1) % N \in 0..(N - 1)
      BY <3>1, Sizes, DivMod
    <3>. QED
      BY <2>1, <3>1, <3>2, <3>3, <3>4, <1>3, <1>4
  <2>. QED
    BY <2>2, <2>3
<1>9. Prefix'
  <2>1. out' = out /\ Len(out) \in Nat /\ Len(out) <= Len(log)
    BY <1>1, Sizes
       DEF CopyIn, consumer, RingInvariant, TypeOK, Bounds, Published, Consumed
  <2>. QED
    BY <2>1, <1>1, <1>3 DEF RingInvariant, Prefix
<1>. QED
  BY <1>6, <1>7, <1>8, <1>9 DEF RingInvariant

\* Publishing: the true counter moves by what was copied, the wrapped one with it.
LEMMA WriteEndInvariant == RingInvariant /\ WriteEnd => RingInvariant'
<1>. SUFFICES ASSUME RingInvariant, WriteEnd PROVE RingInvariant'
  OBVIOUS
<1>1. /\ Published \in Nat /\ Consumed \in Nat /\ wcount \in Nat
      /\ wdone = wcount /\ write_pos = Published % W
  <2>1. Published \in Nat /\ Consumed \in Nat
    BY Distance, Zenon
  <2>2. wcount \in Nat
    BY Types, Zenon
  <2>3. wdone = wcount /\ write_pos = Published % W
    BY DEF WriteEnd, RingInvariant, Positions
  <2>. QED
    BY <2>1, <2>2, <2>3
<1>2. Published' = Published + wcount /\ Consumed' = Consumed
  BY <1>1 DEF WriteEnd, consumer, Published, Consumed, RingInvariant, TypeOK
<1>3. write_pos' = Published' % W
  BY <1>1, <1>2, Sizes, ModAdd DEF WriteEnd
<1>4. write_pos' \in 0..(W - 1)
  BY <1>1, <1>2, <1>3, Sizes, DivMod
<1>5. TypeOK'
  BY <1>4, Sizes DEF WriteEnd, consumer, RingInvariant, TypeOK
<1>6. Positions' /\ Bounds'
  <2>1. wcount' = 0 /\ UNCHANGED <<read_pos, rcount>>
    BY DEF WriteEnd, consumer
  <2>2. Positions'
    BY <1>2, <1>3, <2>1 DEF RingInvariant, Positions
  <2>3. /\ N \in Nat /\ rcount \in Nat
        /\ 0 <= Consumed /\ Consumed + rcount <= Published
        /\ Published + wcount <= Consumed + N
    BY Types, Sizes DEF RingInvariant, Bounds
  <2>. QED
    BY <1>1, <1>2, <2>1, <2>2, <2>3 DEF Bounds
<1>7. Contents' /\ Prefix'
  BY <1>2 DEF WriteEnd, consumer, RingInvariant, Contents, Prefix
<1>. QED
  BY <1>5, <1>6, <1>7 DEF RingInvariant

\* Starting a read: what is promised to the consumer is published.
LEMMA ReadBeginInvariant == RingInvariant /\ ReadBegin => RingInvariant'
<1>. SUFFICES ASSUME RingInvariant, ReadBegin PROVE RingInvariant'
  OBVIOUS
<1>1. /\ Published \in Nat /\ Consumed \in Nat
      /\ Published - Consumed >= 0 /\ Published - Consumed <= N
      /\ Filled = Published - Consumed
  BY Distance, FilledIsTrue
<1>2. PICK count \in 1..MaxChunk : rcount' = Fewest(count, Filled)
  BY DEF ReadBegin
<1>3. rcount' \in 0..N /\ rcount' <= Published - Consumed
  BY <1>1, <1>2, Sizes, CallAssumption DEF Fewest
<1>4. rdone = 0 /\ rdone' = 0
  <2>1. rcount = 0
    BY DEF ReadBegin
  <2>. QED
    BY <2>1, Types DEF ReadBegin
<1>5. Published' = Published /\ Consumed' = Consumed
  BY <1>4 DEF ReadBegin, producer, Published, Consumed
<1>6. TypeOK'
  <2>1. rdone' \in 0..rcount'
    BY <1>3, <1>4, Sizes
  <2>. QED
    BY <1>3, <2>1 DEF ReadBegin, producer, RingInvariant, TypeOK
<1>7. Positions' /\ Bounds'
  BY <1>1, <1>3, <1>5, Types, Sizes
     DEF ReadBegin, producer, RingInvariant, Positions, Bounds
<1>8. Contents' /\ Prefix'
  BY <1>5 DEF ReadBegin, producer, RingInvariant, Contents, Prefix
<1>. QED
  BY <1>6, <1>7, <1>8 DEF RingInvariant

\* Copying out: the slot still holds the sample that entered at this position.
LEMMA CopyOutInvariant == RingInvariant /\ CopyOut => RingInvariant'
<1>. SUFFICES ASSUME RingInvariant, CopyOut PROVE RingInvariant'
  OBVIOUS
<1>1. /\ Published \in Nat /\ Consumed \in Nat
      /\ Len(out) = Consumed + rdone /\ Len(out) + 1 \in 1..Len(log)
      /\ Len(out) + 1 > Consumed
  <2>1. rdone < rcount /\ Consumed + rcount <= Published
    BY DEF CopyOut, RingInvariant, Bounds
  <2>2. Len(out) = Consumed + rdone /\ Len(log) = Published + wdone
    BY Types DEF Published, Consumed
  <2>3. /\ Published \in Nat /\ Consumed \in Nat
        /\ wdone \in Nat /\ rdone \in Nat /\ rcount \in Nat
    BY Distance, Types
  <2>. QED
    BY <2>1, <2>2, <2>3
<1>2. Slot(read_pos, rdone) = Len(out) % N /\ Len(out) % N \in 0..(N - 1)
  BY <1>1, Types, SlotIsTrue DEF RingInvariant, Positions
<1>3. data[Len(out) % N] = log[Len(out) + 1]
  <2>1. data[((Len(out) + 1) - 1) % N] = log[Len(out) + 1]
    BY <1>1 DEF RingInvariant, Contents
  <2>2. (Len(out) + 1) - 1 = Len(out)
    BY Types
  <2>. QED
    BY <2>1, <2>2
<1>4. /\ out' = Append(out, log[Len(out) + 1]) /\ out' \in Seq(Nat)
      /\ Len(out') = Len(out) + 1 /\ out'[Len(out) + 1] = log[Len(out) + 1]
      /\ \A p \in 1..Len(out) : out'[p] = out[p]
  <2>1. out' = Append(out, log[Len(out) + 1]) /\ log[Len(out) + 1] \in Nat
    BY <1>1, <1>2, <1>3, Types DEF CopyOut
  <2>. QED
    BY <2>1, Types
<1>5. Published' = Published /\ Consumed' = Consumed
  BY <1>4, Types DEF CopyOut, producer, Published, Consumed
<1>6. TypeOK'
  <2>1. rdone' \in 0..rcount'
    BY Types DEF CopyOut
  <2>. QED
    BY <1>4, <2>1 DEF CopyOut, producer, RingInvariant, TypeOK
<1>7. Positions' /\ Bounds'
  BY <1>5 DEF CopyOut, producer, RingInvariant, Positions, Bounds
<1>8. Contents'
  BY <1>5 DEF CopyOut, producer, RingInvariant, Contents
<1>9. Prefix'
  <2>1. \A p \in 1..Len(out') : p \in 1..Len(out) \/ p = Len(out) + 1
    <3>1. Len(out') = Len(out) + 1 /\ Len(out) \in Nat
      BY <1>4, Types, Zenon
    <3>2. \A k \in Nat : \A p \in 1..(k + 1) : p \in 1..k \/ p = k + 1
      OBVIOUS
    <3>. QED
      BY <3>1, <3>2, Zenon
  <2>. QED
    BY <2>1, <1>4 DEF CopyOut, producer, RingInvariant, Prefix
<1>. QED
  BY <1>6, <1>7, <1>8, <1>9 DEF RingInvariant

\* Giving the slots back: fewer samples have to be where they were.
LEMMA ReadEndInvariant == RingInvariant /\ ReadEnd => RingInvariant'
<1>. SUFFICES ASSUME RingInvariant, ReadEnd PROVE RingInvariant'
  OBVIOUS
<1>1. /\ Published \in Nat /\ Consumed \in Nat /\ wcount \in Nat
      /\ rdone = rcount /\ read_pos = Consumed % W
  BY Distance, Types DEF ReadEnd, RingInvariant, Positions
<1>2. Published' = Published /\ Consumed' = Consumed + rcount
  <2>1. /\ log' = log /\ wdone' = wdone /\ out' = out
        /\ rdone = rcount /\ rdone' = 0
    BY DEF ReadEnd, producer
  <2>2. Len(out) \in Nat /\ rcount \in Nat
    BY Types
  <2>. QED
    BY <2>1, <2>2 DEF Published, Consumed
<1>3. read_pos' = Consumed' % W
  BY <1>1, <1>2, Types, Sizes, ModAdd DEF ReadEnd
<1>4. read_pos' \in 0..(W - 1)
  <2>1. Consumed' \in Int
    BY <1>1, <1>2, Types
  <2>. QED
    BY <1>3, <2>1, Sizes, DivMod
<1>5. TypeOK'
  BY <1>4, Sizes DEF ReadEnd, producer, RingInvariant, TypeOK
<1>6. Positions' /\ Bounds'
  <2>1. rcount' = 0 /\ UNCHANGED <<write_pos, wcount>>
    BY DEF ReadEnd, producer
  <2>2. Positions'
    BY <1>2, <1>3, <2>1 DEF RingInvariant, Positions
  <2>3. /\ N \in Nat /\ rcount \in Nat
        /\ 0 <= Consumed /\ Consumed + rcount <= Published
        /\ Published + wcount <= Consumed + N
    BY Types, Sizes DEF RingInvariant, Bounds
  <2>. QED
    BY <1>1, <1>2, <2>1, <2>2, <2>3 DEF Bounds
<1>7. Contents' /\ Prefix'
  <2>1. Consumed' >= Consumed
    BY <1>1, <1>2, Types
  <2>2. \A p \in 1..Len(log) : p > Consumed' => p > Consumed
    BY <2>1, <1>1, <1>2, Types
  <2>. QED
    BY <2>2 DEF ReadEnd, producer, RingInvariant, Contents, Prefix
<1>. QED
  BY <1>5, <1>6, <1>7 DEF RingInvariant

\* Clearing: everything that entered counts as gone.
LEMMA ClearInvariant == RingInvariant /\ Clear => RingInvariant'
<1>. SUFFICES ASSUME RingInvariant, Clear PROVE RingInvariant'
  OBVIOUS
<1>1. wcount = 0 /\ rcount = 0 /\ wdone = 0 /\ rdone = 0
  <2>1. wcount = 0 /\ rcount = 0
    BY DEF Clear
  <2>. QED
    BY <2>1, Types
<1>2. /\ Published \in Nat /\ Published' = Published /\ Consumed' = Published
      /\ Published = Len(log)
  BY <1>1, Types, Distance DEF Clear, Published, Consumed
<1>3. TypeOK'
  <2>1. forgotten' \in Nat /\ dropped' \in Nat
    BY Types DEF Clear
  <2>. QED
    BY <2>1 DEF Clear, RingInvariant, TypeOK
<1>4. Positions' /\ Bounds'
  BY <1>1, <1>2, Types, Sizes DEF Clear, RingInvariant, Positions, Bounds
<1>5. Contents' /\ Prefix'
  BY <1>2, Types DEF Clear, Contents, Prefix
<1>. QED
  BY <1>3, <1>4, <1>5 DEF RingInvariant

\* Every step of either thread keeps the invariant.
LEMMA StepInvariant == RingInvariant /\ [Next]_vars => RingInvariant'
<1>. SUFFICES ASSUME RingInvariant, [Next]_vars PROVE RingInvariant'
  OBVIOUS
<1>1. CASE UNCHANGED vars
  BY <1>1 DEF vars, producer, consumer, RingInvariant, TypeOK, Positions, Bounds,
              Contents, Prefix, Published, Consumed
<1>. QED
  BY <1>1, WriteBeginInvariant, CopyInInvariant, WriteEndInvariant,
     ReadBeginInvariant, CopyOutInvariant, ReadEndInvariant, ClearInvariant
     DEF Next, Produce, Consume

\* The invariant of the ring (audio-tap.cpp:52-104), for every N and W: above all, the
\* worker receives exactly what entered, in order, however often the counters wrapped.
THEOREM RingIsInvariant == Spec => []RingInvariant
  BY InitInvariant, StepInvariant, PTL DEF Spec

\* Type correctness: no counter leaves its modulus, no promise the ring's size.
THEOREM TypeCorrect == Spec => []TypeOK
<1>1. RingInvariant => TypeOK
  BY DEF RingInvariant
<1>. QED
  BY <1>1, RingIsInvariant, PTL

\* The two memcpys never touch the same slot, without any lock between them.
THEOREM CopiesAreDisjoint == Spec => []NoDataRace
<1>1. RingInvariant => NoDataRace
  <2>. SUFFICES ASSUME RingInvariant,
                       NEW i \in wdone..(wcount - 1), NEW j \in rdone..(rcount - 1)
                PROVE  Slot(write_pos, i) # Slot(read_pos, j)
    BY DEF NoDataRace
  <2>1. i \in Nat /\ j \in Nat /\ i < wcount /\ j < rcount
    BY Types
  <2>2. /\ Slot(write_pos, i) = (Published + i) % N
        /\ Slot(read_pos, j) = (Consumed + j) % N
    BY <2>1, Distance, SlotIsTrue DEF RingInvariant, Positions
  <2>3. /\ Published + i \in Nat /\ Consumed + j \in Nat
        /\ Consumed + j < Published + i /\ (Published + i) - (Consumed + j) < N
    <3>1. Consumed + rcount <= Published /\ Published + wcount <= Consumed + N
      BY DEF RingInvariant, Bounds
    <3>. QED
      <4>1. /\ Published \in Nat /\ Consumed \in Nat /\ N \in Nat
            /\ wcount \in Nat /\ rcount \in Nat
        BY Distance, Types, Sizes
      <4>. QED
        BY <2>1, <3>1, <4>1
  <2>. QED
    BY <2>2, <2>3, Sizes, ModDistinct
<1>. QED
  BY <1>1, RingIsInvariant, PTL

\* Every sample the tap was given is in the ring's history, still to be copied, or counted off.
Tally == offered = Len(log) + (wcount - wdone) + dropped + forgotten

LEMMA StepTally == RingInvariant /\ Tally /\ [Next]_vars => Tally'
<1>. SUFFICES ASSUME RingInvariant, Tally, [Next]_vars PROVE Tally'
  OBVIOUS
<1>1. /\ wcount \in Nat /\ wdone \in 0..wcount /\ log \in Seq(Nat) /\ Len(log) \in Nat
      /\ offered \in Nat /\ dropped \in Nat /\ forgotten \in Nat /\ wnext \in Nat
  BY Types DEF RingInvariant, TypeOK
<1>2. offered = Len(log) + (wcount - wdone) + dropped + forgotten
  BY DEF Tally
<1>3. CASE WriteBegin
  <2>1. PICK count \in 1..MaxBlock : offered' = offered + count /\ dropped' = dropped + (count - wcount')
    BY <1>3 DEF WriteBegin
  <2>2. wcount = 0 /\ wdone' = 0 /\ log' = log /\ forgotten' = forgotten /\ wcount' \in Nat
    <3>1. RingInvariant'
      BY <1>3, WriteBeginInvariant
    <3>2. wcount' \in Nat
      BY <3>1, Sizes DEF RingInvariant, TypeOK
    <3>. QED
      BY <1>3, <3>2 DEF WriteBegin
  <2>3. wdone = 0 /\ count \in Nat
    BY <1>1, <2>2, CallAssumption
  <2>. QED
    BY <1>1, <1>2, <2>1, <2>2, <2>3 DEF Tally
<1>4. CASE CopyIn
  <2>1. Len(log') = Len(log) + 1
    BY <1>1, <1>4 DEF CopyIn
  <2>. QED
    BY <1>1, <1>2, <1>4, <2>1 DEF CopyIn, Tally
<1>5. CASE WriteEnd
  BY <1>1, <1>2, <1>5 DEF WriteEnd, Tally
<1>6. CASE Consume \/ UNCHANGED vars
  BY <1>2, <1>6 DEF Consume, ReadBegin, CopyOut, ReadEnd, vars, producer, Tally
<1>7. CASE Clear
  BY <1>1, <1>2, <1>7 DEF Clear, Tally
<1>. QED
  BY <1>3, <1>4, <1>5, <1>6, <1>7 DEF Next, Produce

\* No sample is lost silently: between two calls of write(), the count of what was dropped and
\* the ring's history add up to what the tap was given.
THEOREM LossesAreCounted == Spec => []DropsAreCounted
<1>1. Init => Tally
  BY DEF Init, Tally
<1>2. RingInvariant /\ Tally => DropsAreCounted
  <2>. SUFFICES ASSUME RingInvariant, Tally, wcount = 0 PROVE DropsAreCounted
    BY DEF DropsAreCounted
  <2>1. wdone = 0 /\ Len(log) \in Nat
    BY DEF RingInvariant, TypeOK
  <2>. QED
    BY <2>1 DEF Tally, DropsAreCounted, RingInvariant, TypeOK
<1>. QED
  BY <1>1, <1>2, StepTally, RingIsInvariant, PTL DEF Spec

-----------------------------------------------------------------------------
(* The ring implements the queue *)

\* A sequence is the function of its elements.
LEMMA SameSequence ==
  ASSUME NEW s \in Seq(Nat), NEW t \in Seq(Nat), Len(s) = Len(t), \A i \in 1..Len(s) : s[i] = t[i]
  PROVE  s = t
<1>1. s = [i \in 1..Len(s) |-> s[i]] /\ t = [i \in 1..Len(t) |-> t[i]]
  OBVIOUS
<1>. QED
  BY <1>1

\* What a front of a sequence is.
LEMMA FrontOf ==
  ASSUME NEW s \in Seq(Nat), NEW n \in 0..Len(s)
  PROVE  /\ SubSeq(s, 1, n) \in Seq(Nat) /\ Len(SubSeq(s, 1, n)) = n
         /\ \A i \in 1..n : SubSeq(s, 1, n)[i] = s[i]
<1>1. Len(s) \in Nat /\ n \in Nat /\ n <= Len(s)
  OBVIOUS
<1>2. SubSeq(s, 1, n) = [i \in 1..n |-> s[i]]
  BY <1>1
<1>3. \A i \in 1..n : s[i] \in Nat
  BY <1>1
<1>. QED
  BY <1>1, <1>2, <1>3

\* What an append leaves of a front.
LEMMA FrontKept ==
  ASSUME NEW s \in Seq(Nat), NEW x \in Nat, NEW n \in 0..Len(s)
  PROVE  SubSeq(Append(s, x), 1, n) = SubSeq(s, 1, n)
<1>1. Append(s, x) \in Seq(Nat) /\ Len(Append(s, x)) = Len(s) + 1 /\ Len(s) \in Nat
  OBVIOUS
<1>2. n \in 0..Len(Append(s, x))
  BY <1>1
<1>3. \A i \in 1..n : Append(s, x)[i] = s[i]
  BY <1>1
<1>. QED
  BY <1>1, <1>2, <1>3, FrontOf, SameSequence

\* What is in the ring was offered: numbers from 1 to the last one given to the tap.
Offered ==
    /\ offered <= MaxSamples
    /\ \A p \in 1..Len(log) : log[p] \in 1..MaxSamples
    /\ wdone < wcount => wnext >= 1 /\ wnext + (wcount - wdone) <= offered + 1

LEMMA StepOffered == RingInvariant /\ Offered /\ [Next]_vars => Offered'
<1>. SUFFICES ASSUME RingInvariant, Offered, [Next]_vars PROVE Offered'
  OBVIOUS
<1>1. /\ wcount \in Nat /\ wdone \in Nat /\ wdone <= wcount /\ wnext \in Nat
      /\ offered \in Nat /\ MaxSamples \in Nat /\ log \in Seq(Nat) /\ Len(log) \in Nat
  BY Types, CallAssumption
<1>2. CASE WriteBegin
  <2>1. PICK count \in 1..MaxBlock :
          /\ offered + count <= MaxSamples /\ offered' = offered + count
          /\ wcount' = Fewest(count, Room)
    BY <1>2 DEF WriteBegin
  <2>2. count \in Nat /\ wcount' \in Nat
    <3>1. RingInvariant'
      BY <1>2, WriteBeginInvariant
    <3>. QED
      BY <3>1, Sizes, CallAssumption DEF RingInvariant, TypeOK
  <2>3. Room \in Int
    <3>1. write_pos \in Int /\ read_pos \in Int
      BY Types
    <3>2. write_pos - read_pos \in Int
      BY <3>1
    <3>3. Filled \in Int
      BY <3>2, Sizes, DivMod DEF Filled
    <3>. QED
      BY <3>3, Sizes DEF Room
  <2>4. wcount' <= count
    BY <2>1, <2>2, <2>3 DEF Fewest
  <2>5. wdone' = 0 /\ wnext' = offered + 1 /\ log' = log
    BY <1>2 DEF WriteBegin
  <2>. QED
    BY <1>1, <2>1, <2>2, <2>4, <2>5 DEF Offered
<1>3. CASE CopyIn
  <2>1. /\ wdone < wcount /\ wdone' = wdone + 1 /\ wnext' = wnext + 1
        /\ log' = Append(log, wnext) /\ wcount' = wcount /\ offered' = offered
    BY <1>3 DEF CopyIn
  <2>2. wnext \in 1..MaxSamples
    BY <1>1, <2>1 DEF Offered
  <2>3. /\ Len(log') = Len(log) + 1 /\ log'[Len(log) + 1] = wnext
        /\ \A p \in 1..Len(log) : log'[p] = log[p]
    BY <1>1, <2>1
  <2>4. \A p \in 1..Len(log') : log'[p] \in 1..MaxSamples
    BY <1>1, <2>2, <2>3 DEF Offered
  <2>. QED
    BY <1>1, <2>1, <2>4 DEF Offered
<1>4. CASE WriteEnd
  BY <1>4 DEF WriteEnd, Offered
<1>5. CASE Consume \/ Clear \/ UNCHANGED vars
  BY <1>5 DEF Consume, ReadBegin, CopyOut, ReadEnd, Clear, vars, producer, Offered
<1>. QED
  BY <1>2, <1>3, <1>4, <1>5 DEF Next, Produce

\* The queue's two sequences are fronts of the ring's histories.
LEMMA Fronts ==
  ASSUME RingInvariant
  PROVE  /\ Published \in 0..Len(log) /\ Consumed \in 0..Len(out)
         /\ Consumed <= Published /\ Published + wcount <= Consumed + N
         /\ Len(SubSeq(log, 1, Published)) = Published
         /\ Len(SubSeq(out, 1, Consumed)) = Consumed
<1>1. /\ Published \in Nat /\ Consumed \in Nat
      /\ Published = Len(log) - wdone /\ Consumed = Len(out) - rdone
  BY Distance DEF Published, Consumed
<1>2. Published \in 0..Len(log) /\ Consumed \in 0..Len(out)
  <2>1. Len(log) \in Nat /\ wdone \in Nat /\ Len(out) \in Nat /\ rdone \in Nat
    BY Types, Zenon
  <2>2. \A k, l, p \in Nat : p = k - l => p \in 0..k
    OBVIOUS
  <2>. QED
    BY <1>1, <2>1, <2>2, Zenon
<1>3. Consumed + rcount <= Published /\ Published + wcount <= Consumed + N
  BY DEF RingInvariant, Bounds
<1>4. Consumed <= Published
  <2>1. \A r \in Nat, c, p \in Nat : c + r <= p => c <= p
    OBVIOUS
  <2>2. rcount \in Nat
    BY Types
  <2>. QED
    BY <1>1, <1>3, <2>1, <2>2, Zenon
<1>5. Len(SubSeq(log, 1, Published)) = Published /\ Len(SubSeq(out, 1, Consumed)) = Consumed
  <2>1. log \in Seq(Nat) /\ out \in Seq(Nat)
    BY Types
  <2>2. Len(SubSeq(log, 1, Published)) = Published
    BY <1>2, <2>1, FrontOf
  <2>3. Len(SubSeq(out, 1, Consumed)) = Consumed
    BY <1>2, <2>1, FrontOf
  <2>. QED
    BY <2>2, <2>3
<1>. QED
  BY <1>2, <1>3, <1>4, <1>5

\* The steps between a begin and an end are not steps of the queue.
LEMMA CopiesStutter ==
  ASSUME RingInvariant, WriteBegin \/ CopyIn \/ ReadBegin \/ CopyOut
  PROVE  UNCHANGED Queue!QueueVars
<1>1. CASE WriteBegin
  <2>1. log' = log /\ out' = out /\ rdone' = rdone /\ wdone' = 0 /\ wcount = 0
    BY <1>1 DEF WriteBegin, consumer
  <2>2. Published' = Published /\ Consumed' = Consumed
    BY <2>1, Types DEF Published, Consumed
  <2>. QED
    BY <2>1, <2>2 DEF Queue!QueueVars
<1>2. CASE CopyIn
  <2>1. log' = Append(log, wnext) /\ out' = out /\ rdone' = rdone /\ wdone' = wdone + 1
    BY <1>2 DEF CopyIn, consumer
  <2>2. Len(log') = Len(log) + 1 /\ wnext \in Nat
    BY <2>1, Types
  <2>3. Published' = Published /\ Consumed' = Consumed
    BY <2>1, <2>2, Types DEF Published, Consumed
  <2>4. SubSeq(log', 1, Published) = SubSeq(log, 1, Published)
    BY <2>1, <2>2, Types, Fronts, FrontKept
  <2>. QED
    BY <2>1, <2>3, <2>4 DEF Queue!QueueVars
<1>3. CASE ReadBegin
  <2>1. log' = log /\ out' = out /\ wdone' = wdone /\ rdone' = 0 /\ rcount = 0
    BY <1>3 DEF ReadBegin, producer
  <2>2. Published' = Published /\ Consumed' = Consumed
    BY <2>1, Types DEF Published, Consumed
  <2>. QED
    BY <2>1, <2>2 DEF Queue!QueueVars
<1>4. CASE CopyOut
  <2>. DEFINE x == data[Slot(read_pos, rdone)]
  <2>1. out' = Append(out, x) /\ log' = log /\ wdone' = wdone /\ rdone' = rdone + 1
    BY <1>4 DEF CopyOut, producer
  <2>2. x \in Nat
    <3>1. Slot(read_pos, rdone) \in 0..(N - 1)
      <4>1. read_pos = Consumed % W /\ Consumed \in Nat /\ rdone \in Nat
        BY Distance, Types DEF RingInvariant, Positions
      <4>. QED
        BY <4>1, SlotIsTrue
    <3>. QED
      BY <3>1, Types
  <2>. HIDE DEF x
  <2>3. Len(out') = Len(out) + 1
    BY <2>1, <2>2, Types
  <2>4. Published' = Published /\ Consumed' = Consumed
    BY <2>1, <2>3, Types DEF Published, Consumed
  <2>5. SubSeq(out', 1, Consumed) = SubSeq(out, 1, Consumed)
    BY <2>1, <2>2, Types, Fronts, FrontKept
  <2>. QED
    BY <2>1, <2>4, <2>5 DEF Queue!QueueVars
<1>. QED
  BY <1>1, <1>2, <1>3, <1>4

\* A front put after a front is the longer front.
LEMMA FrontAndRest ==
  ASSUME NEW s \in Seq(Nat), NEW a \in Nat, NEW n \in Nat, a + n <= Len(s),
         NEW b \in Seq(Nat), Len(b) = n, \A i \in 1..n : b[i] = s[a + i]
  PROVE  SubSeq(s, 1, a) \o b = SubSeq(s, 1, a + n)
<1>. DEFINE f == SubSeq(s, 1, a)
            g == SubSeq(s, 1, a + n)
<1>1. Len(s) \in Nat /\ a \in 0..Len(s) /\ a + n \in 0..Len(s)
  OBVIOUS
<1>2. f \in Seq(Nat) /\ Len(f) = a /\ \A i \in 1..a : f[i] = s[i]
  BY <1>1, FrontOf
<1>3. g \in Seq(Nat) /\ Len(g) = a + n /\ \A i \in 1..(a + n) : g[i] = s[i]
  BY <1>1, FrontOf
<1>. HIDE DEF f, g
<1>4. /\ f \o b \in Seq(Nat) /\ Len(f \o b) = a + n
      /\ \A i \in 1..(a + n) : (f \o b)[i] = IF i <= a THEN f[i] ELSE b[i - a]
  <2>1. f \in Seq(Nat) /\ b \in Seq(Nat) /\ Len(f) = a /\ Len(b) = n
    BY <1>2, Zenon
  <2>2. /\ f \o b \in Seq(Nat) /\ Len(f \o b) = Len(f) + Len(b)
        /\ \A i \in 1..(Len(f) + Len(b)) : (f \o b)[i] = IF i <= Len(f) THEN f[i] ELSE b[i - Len(f)]
    BY <2>1, ConcatProperties, Zenon
  <2>. QED
    BY <2>1, <2>2, Zenon
<1>5. \A i \in 1..(a + n) : (f \o b)[i] = s[i]
  <2>. SUFFICES ASSUME NEW i \in 1..(a + n) PROVE (f \o b)[i] = s[i]
    OBVIOUS
  <2>1. i \in 1..a \/ (~(i <= a) /\ i - a \in 1..n /\ a + (i - a) = i)
    <3>1. \A x, y \in Nat : \A k \in 1..(x + y) :
            k \in 1..x \/ (~(k <= x) /\ k - x \in 1..y /\ x + (k - x) = k)
      OBVIOUS
    <3>. QED
      BY <3>1, Zenon
  <2>2. CASE i \in 1..a
    <3>1. i <= a
      BY <2>2
    <3>2. (f \o b)[i] = f[i] /\ f[i] = s[i]
      BY <1>2, <1>4, <2>2, <3>1, Zenon
    <3>. QED
      BY <3>2, Zenon
  <2>3. CASE ~(i <= a) /\ i - a \in 1..n /\ a + (i - a) = i
    <3>1. (f \o b)[i] = b[i - a]
      BY <1>4, <2>3, Zenon
    <3>2. b[i - a] = s[a + (i - a)]
      BY <2>3, Zenon
    <3>. QED
      BY <2>3, <3>1, <3>2, Zenon
  <2>. QED
    BY <2>1, <2>2, <2>3, Zenon
<1>6. f \o b = g
  BY <1>3, <1>4, <1>5, SameSequence
<1>. QED
  BY <1>6 DEF f, g

\* Publishing a block is the queue accepting it: it is not empty, it fits, and it was offered.
LEMMA PublishingAccepts ==
  ASSUME RingInvariant, Offered, WriteEnd
  PROVE  Queue!Accept
<1>. DEFINE block == [i \in 1..wcount |-> log[Published + i]]
<1>1. wcount > 0 /\ wdone = wcount /\ wdone' = 0 /\ log' = log /\ out' = out /\ rdone' = rdone
  BY DEF WriteEnd, consumer
<1>2. /\ wcount \in Nat /\ log \in Seq(Nat) /\ Len(log) \in Nat
      /\ Published \in Nat /\ Consumed \in Nat
  BY Types, Distance
<1>3. Len(log) = Published + wcount /\ Published' = Len(log) /\ Consumed' = Consumed
  BY <1>1, <1>2, Types DEF Published, Consumed
<1>4. \A i \in 1..wcount : Published + i \in 1..Len(log)
  BY <1>2, <1>3
<1>5. block \in [1..wcount -> 1..MaxSamples]
  BY <1>4 DEF Offered
<1>6. block \in Seq(Nat) /\ Len(block) = wcount /\ \A i \in 1..wcount : block[i] = log[Published + i]
  <2>1. \A p \in 1..Len(log) : log[p] \in Nat
    BY <1>2
  <2>2. \A i \in 1..wcount : log[Published + i] \in Nat
    BY <1>4, <2>1
  <2>3. block \in [1..wcount -> Nat] /\ wcount \in Nat
    BY <1>2, <2>2
  <2>4. \A i \in 1..wcount : block[i] = log[Published + i]
    OBVIOUS
  <2>. HIDE DEF block
  <2>5. block \in Seq(Nat) /\ Len(block) = wcount
    BY <2>3
  <2>. QED
    BY <2>4, <2>5
<1>. HIDE DEF block
<1>7. SubSeq(log, 1, Published) \o block = SubSeq(log, 1, Len(log))
  <2>1. Published + wcount <= Len(log)
    BY <1>2, <1>3
  <2>2. SubSeq(log, 1, Published) \o block = SubSeq(log, 1, Published + wcount)
    BY <1>2, <1>6, <2>1, FrontAndRest
  <2>. QED
    BY <1>3, <2>2
<1>8. wcount \in 1..(N - (Len(SubSeq(log, 1, Published)) - Len(SubSeq(out, 1, Consumed))))
  <2>1. Published + wcount <= Consumed + N
    BY Fronts
  <2>2. wcount \in 1..(N - (Published - Consumed))
    BY <1>1, <1>2, <2>1, Sizes
  <2>. QED
    BY <2>2, Fronts
<1>. QED
  BY <1>1, <1>3, <1>5, <1>7, <1>8 DEF Queue!Accept

\* Samples leave in the order they came in: by the end of a read, and by a clear with something
\* to throw away.
LEMMA LeavingDelivers ==
  ASSUME RingInvariant, ReadEnd \/ Clear
  PROVE  [Queue!Deliver]_(Queue!QueueVars)
<1>. DEFINE A == SubSeq(log, 1, Published)
            T == SubSeq(out, 1, Consumed)
<1>1. /\ log \in Seq(Nat) /\ out \in Seq(Nat) /\ Len(log) \in Nat /\ Len(out) \in Nat
      /\ Published \in Nat /\ Consumed \in Nat /\ Consumed <= Published
      /\ Len(A) = Published /\ Len(T) = Consumed /\ Published <= Len(log)
  BY Types, Distance, Fronts
<1>2. CASE ReadEnd
  <2>1. /\ rcount > 0 /\ rdone = rcount /\ rdone' = 0
        /\ log' = log /\ wdone' = wdone /\ out' = out
    BY <1>2 DEF ReadEnd, producer
  <2>2. /\ Len(out) = Consumed + rcount /\ rcount \in Nat /\ Published' = Published
        /\ Consumed' = Len(out)
    <3>1. rcount \in Nat /\ wdone \in Nat
      BY Types
    <3>. QED
      BY <1>1, <2>1, <3>1 DEF Published, Consumed
  <2>3. Len(out) <= Published /\ Len(out) <= Len(log)
    <3>1. Consumed + rcount <= Published
      BY DEF RingInvariant, Bounds
    <3>. QED
      BY <1>1, <2>2, <3>1
  <2>4. SubSeq(out, 1, Len(out)) = SubSeq(A, 1, Len(out))
    <3>1. A \in Seq(Nat) /\ \A i \in 1..Published : A[i] = log[i]
      <4>1. Published \in 0..Len(log)
        BY Fronts
      <4>. QED
        BY <1>1, <4>1, FrontOf
    <3>2. Len(out) \in 0..Len(A) /\ Len(out) \in 0..Len(out)
      BY <1>1, <2>3
    <3>. HIDE DEF A
    <3>3. /\ SubSeq(A, 1, Len(out)) \in Seq(Nat) /\ Len(SubSeq(A, 1, Len(out))) = Len(out)
          /\ \A i \in 1..Len(out) : SubSeq(A, 1, Len(out))[i] = A[i]
      BY <3>1, <3>2, FrontOf
    <3>4. /\ SubSeq(out, 1, Len(out)) \in Seq(Nat) /\ Len(SubSeq(out, 1, Len(out))) = Len(out)
          /\ \A i \in 1..Len(out) : SubSeq(out, 1, Len(out))[i] = out[i]
      BY <1>1, <3>2, FrontOf
    <3>5. \A i \in 1..Len(out) : out[i] = log[i] /\ log[i] = A[i]
      BY <1>1, <2>3, <3>1 DEF RingInvariant, Prefix
    <3>. QED
      BY <3>3, <3>4, <3>5, SameSequence
  <2>5. Len(out) \in (Len(T) + 1)..Len(A)
    BY <1>1, <2>1, <2>2, <2>3
  <2>. QED
    BY <2>1, <2>2, <2>4, <2>5 DEF Queue!Deliver
<1>3. CASE Clear
  <2>1. /\ wcount = 0 /\ rcount = 0 /\ out' = log /\ log' = log
        /\ wdone' = wdone /\ rdone' = rdone
    BY <1>3 DEF Clear
  <2>2. /\ wdone = 0 /\ rdone = 0 /\ Published = Len(log) /\ Consumed = Len(out)
        /\ Published' = Len(log) /\ Consumed' = Len(log)
    BY <1>1, <2>1, Types DEF Published, Consumed
  <2>3. A' = A /\ T' = A
    BY <2>1, <2>2
  <2>4. CASE Consumed < Published
    <3>1. Len(log) \in (Len(T) + 1)..Len(A)
      BY <1>1, <2>2, <2>4
    <3>2. A = SubSeq(A, 1, Len(log))
      <4>1. A \in Seq(Nat) /\ Len(log) \in 0..Len(log)
        BY <1>1, <2>2, FrontOf
      <4>2. Len(A) = Len(log)
        BY <1>1, <2>2
      <4>. HIDE DEF A
      <4>3. /\ SubSeq(A, 1, Len(log)) \in Seq(Nat) /\ Len(SubSeq(A, 1, Len(log))) = Len(log)
            /\ \A i \in 1..Len(log) : SubSeq(A, 1, Len(log))[i] = A[i]
        BY <4>1, <4>2, FrontOf
      <4>. QED
        BY <4>1, <4>2, <4>3, SameSequence
    <3>. QED
      BY <2>3, <3>1, <3>2 DEF Queue!Deliver
  <2>5. CASE Consumed = Published
    <3>1. A = T
      <4>1. Published \in 0..Len(log) /\ Published \in 0..Len(out)
        BY <2>2, <2>5, Fronts
      <4>2. \A i \in 1..Published : out[i] = log[i]
        BY <2>2, <2>5 DEF RingInvariant, Prefix
      <4>3. A \in Seq(Nat) /\ \A i \in 1..Published : A[i] = log[i]
        BY <1>1, <4>1, FrontOf
      <4>4. T \in Seq(Nat) /\ \A i \in 1..Published : T[i] = out[i]
        BY <1>1, <2>5, <4>1, FrontOf
      <4>. HIDE DEF A, T
      <4>. QED
        BY <1>1, <2>5, <4>2, <4>3, <4>4, SameSequence
    <3>. QED
      BY <2>3, <3>1 DEF Queue!QueueVars
  <2>. QED
    BY <1>1, <2>4, <2>5
<1>. QED
  BY <1>2, <1>3

\* The ring implements the queue (the safety half of SampleQueue's promise): seen through its
\* published counters, whatever the two threads are in the middle of, it only ever accepts
\* blocks that fit and gives samples up in the order they were accepted.
THEOREM RingImplementsQueue ==
  Spec => Queue!QueueInit /\ [][Queue!QueueNext]_(Queue!QueueVars)
<1>1. Init => Queue!QueueInit /\ Offered
  <2>. SUFFICES ASSUME Init PROVE Queue!QueueInit /\ Offered
    OBVIOUS
  <2>1. log = << >> /\ out = << >> /\ wdone = 0 /\ rdone = 0 /\ offered = 0 /\ wcount = 0
    BY DEF Init
  <2>2. Published = 0 /\ Consumed = 0
    BY <2>1 DEF Published, Consumed
  <2>3. SubSeq(<< >>, 1, 0) = << >>
    OBVIOUS
  <2>. QED
    BY <2>1, <2>2, <2>3, CallAssumption DEF Queue!QueueInit, Offered
<1>2. RingInvariant /\ Offered /\ [Next]_vars => [Queue!QueueNext]_(Queue!QueueVars)
  <2>. SUFFICES ASSUME RingInvariant, Offered, [Next]_vars
                PROVE  [Queue!QueueNext]_(Queue!QueueVars)
    OBVIOUS
  <2>1. CASE WriteBegin \/ CopyIn \/ ReadBegin \/ CopyOut
    BY <2>1, CopiesStutter
  <2>2. CASE WriteEnd
    BY <2>2, PublishingAccepts DEF Queue!QueueNext
  <2>3. CASE ReadEnd \/ Clear
    BY <2>3, LeavingDelivers DEF Queue!QueueNext
  <2>4. CASE UNCHANGED vars
    BY <2>4 DEF vars, producer, consumer, Published, Consumed, Queue!QueueVars
  <2>. QED
    BY <2>1, <2>2, <2>3, <2>4 DEF Next, Produce, Consume
<1>. QED
  BY <1>1, <1>2, StepOffered, RingIsInvariant, PTL DEF Spec

(***************************************************************************)
(* VadSegmenter                                                            *)
(***************************************************************************)


\* The constants as the arithmetic below uses them.
LEMMA SegmentSizes ==
  /\ kWindow \in Nat \ {0} /\ kPreRollMs \in Nat \ {0} /\ kPostRollMs \in Nat /\ kMinSegmentMs \in Nat
  /\ kMaxSegmentMs \in Nat \ {0} /\ kSilenceCloseMs \in Nat \ {0} /\ kVoiceEnterWindows \in Nat \ {0}
  /\ kResetAfterSilentWindows \in Nat \ {0} /\ MaxStream \in Nat \ {0}
  /\ kVoiceEnterWindows * kWindow <= kPreRollMs /\ kPreRollMs < kMaxSegmentMs
  /\ kMinSegmentMs <= kMaxSegmentMs
  BY SizeAssumption

-----------------------------------------------------------------------------
(* The inductive invariant *)

\* How far the segmenter has come, and where the histories point.
Progress ==
    /\ pos \in 0..MaxStream /\ window_ <= pos
    /\ voicedFrom \in Nat /\ trigger \in Nat /\ sentUpTo \in 0..pos
    /\ sent.duration \in Nat

\* The pre-roll ring holds the latest samples, each where the head was when it came.
PreRollIsLatest ==
    /\ pre_roll_filled_ = Lesser(pos, kPreRollMs)
    /\ pre_roll_head_ = pos % kPreRollMs
    /\ \A q \in 1..pos : q > pos - kPreRollMs => pre_roll_[(q - 1) % kPreRollMs] = q

\* The segment under way is the last so many samples.
SegmentEndsHere ==
    /\ ~speaking_ => segment_ = << >>
    /\ speaking_ => /\ Len(segment_) \in 1..pos /\ Len(segment_) < kMaxSegmentMs + window_
                    /\ \A i \in 1..Len(segment_) : segment_[i] = pos - Len(segment_) + i

\* While nobody is taken to be speaking, the voice of the windows counted so far is all there
\* is of the run, or what came before them was handed over.
RunIsCounted ==
    ~speaking_ =>
      /\ voicedFrom = 0 => consecutive_voice_ = 0
      /\ voicedFrom # 0 => pos - window_ - consecutive_voice_ * kWindow + 1
                             <= Greater(voicedFrom, sentUpTo + 1)

SegmenterInv ==
    /\ SegmenterTypeOK /\ Progress /\ PreRollIsLatest /\ SegmentEndsHere
    /\ OneStretch(sent.samples) /\ RunIsCounted /\ AttackIsKept /\ LongSilenceIsForgotten

-----------------------------------------------------------------------------
(* The pre-roll ring *)

\* A whole lap leads to the same slot.
LEMMA ModLap ==
  ASSUME NEW d \in Nat \ {0}, NEW a \in Nat
  PROVE  (a + d) % d = a % d
<1>0. a \in Int /\ d \in Int
  OBVIOUS
<1>1. PICK q \in Int, r \in 0..(d-1) : a = d * q + r /\ a % d = r
  BY <1>0, DivMod, Zenon
<1>2. d * (q + 1) = d * q + d
  OBVIOUS
<1>3. (d * (q + 1) + r) % d = r
  <2>1. q + 1 \in Int
    OBVIOUS
  <2>. QED
    BY <2>1, ModUnique
<1>4. a + d = d * (q + 1) + r
  <2>1. d * q \in Int
    OBVIOUS
  <2>. QED
    BY <1>1, <1>2, <2>1
<1>. QED
  BY <1>1, <1>3, <1>4

\* A position less than a lap is its own slot.
LEMMA ModSmall ==
  ASSUME NEW d \in Nat \ {0}, NEW r \in 0..(d-1)
  PROVE  r % d = r
  OBVIOUS

\* The i-th oldest of the samples kept is in the slot where it was put.
LEMMA OldestFirst ==
  ASSUME NEW P \in Nat \ {0}, NEW p \in Nat, NEW i \in 1..Lesser(p, P)
  PROVE  ((((p % P) + P - Lesser(p, P)) % P) + i - 1) % P = ((p - Lesser(p, P) + i) - 1) % P
<1>0. p \in Int /\ P \in Int /\ p % P \in 0..(P - 1)
  OBVIOUS
<1>1. CASE p < P
  <2>1. Lesser(p, P) = p /\ i \in 1..p
    BY <1>1 DEF Lesser
  <2>2. p % P = p
    <3>1. p \in 0..(P - 1)
      BY <1>1
    <3>. QED
      BY <3>1, ModSmall
  <2>3. (p + P - p) % P = 0
    <3>1. p + P - p = 0 + P /\ 0 \in 0..(P - 1) /\ 0 \in Nat
      OBVIOUS
    <3>2. (0 + P) % P = 0 % P
      BY <3>1, ModLap
    <3>3. 0 % P = 0
      BY <3>1, ModSmall
    <3>. QED
      BY <3>1, <3>2, <3>3
  <2>4. 0 + i - 1 = (p - p + i) - 1
    BY <2>1
  <2>. QED
    BY <2>1, <2>2, <2>3, <2>4
<1>2. CASE ~(p < P)
  <2>1. Lesser(p, P) = P /\ i \in 1..P
    BY <1>2 DEF Lesser
  <2>2. ((p % P) + P - P) % P = p % P
    <3>1. (p % P) + P - P = p % P
      BY <1>0
    <3>2. (p % P) % P = p % P
      BY <1>0, ModSmall
    <3>. QED
      BY <3>1, <3>2
  <2>3. ((p % P) + (i - 1)) % P = (p + (i - 1)) % P
    <3>1. i - 1 \in Nat
      BY <2>1
    <3>. QED
      BY <3>1, ModAdd
  <2>4. (p + (i - 1)) % P = ((p - P + i) - 1) % P
    <3>1. (p - P + i) - 1 \in Nat /\ p + (i - 1) = ((p - P + i) - 1) + P
      BY <1>2, <2>1
    <3>. QED
      BY <3>1, ModLap
  <2>5. (p % P) + i - 1 = (p % P) + (i - 1)
    BY <1>0, <2>1
  <2>. QED
    BY <2>1, <2>2, <2>3, <2>4, <2>5
<1>. QED
  BY <1>1, <1>2

\* A sample more, and the ring still holds the latest.
LEMMA HeardIsLatest ==
  ASSUME SegmenterInv, Heard
  PROVE  /\ PreRollIsLatest' /\ pos \in Nat /\ pos' = pos + 1 /\ pos' \in 1..MaxStream
         /\ pre_roll_' \in [0..kPreRollMs-1 -> 0..MaxStream]
         /\ pre_roll_head_' \in 0..kPreRollMs-1 /\ pre_roll_filled_' \in 0..kPreRollMs
<1>. DEFINE P == kPreRollMs
<1>0. P \in Nat \ {0}
  BY SegmentSizes
<1>. HIDE DEF P
<1>1. pos \in Nat /\ pos' = pos + 1 /\ pos' \in 1..MaxStream
  BY SegmentSizes DEF Heard, SegmenterInv, Progress
<1>2. /\ pre_roll_' = [pre_roll_ EXCEPT ![pos % P] = pos + 1]
      /\ pre_roll_ \in [0..P-1 -> 0..MaxStream]
      /\ \A q \in 1..pos : q > pos - P => pre_roll_[(q - 1) % P] = q
  BY DEF Heard, SegmenterInv, PreRollIsLatest, SegmenterTypeOK, P
<1>3. \A a \in Nat : a % P \in 0..P-1
  BY <1>0
<1>4. pre_roll_head_' = pos' % P
  <2>1. pre_roll_head_' = ((pos % P) + 1) % P
    BY DEF Heard, SegmenterInv, PreRollIsLatest, P
  <2>2. ((pos % P) + 1) % P = (pos + 1) % P
    BY <1>0, <1>1, ModAdd
  <2>. QED
    BY <1>1, <2>1, <2>2
<1>5. pre_roll_filled_' = Lesser(pos', P) /\ Lesser(pos', P) \in 0..P
  BY <1>0, <1>1 DEF Heard, SegmenterInv, PreRollIsLatest, Lesser, P
<1>6. ASSUME NEW q \in 1..pos', q > pos' - P PROVE pre_roll_'[(q - 1) % P] = q
  <2>1. q - 1 \in Nat /\ (q - 1) % P \in 0..P-1 /\ pos % P \in 0..P-1
    BY <1>1, <1>3
  <2>2. CASE q = pos'
    BY <1>1, <1>2, <2>1, <2>2
  <2>3. CASE q # pos'
    <3>1. q \in 1..pos /\ q > pos - P /\ q - 1 < pos /\ pos - (q - 1) < P
      BY <1>0, <1>1, <1>6, <2>3
    <3>2. (q - 1) % P # pos % P
      BY <1>0, <1>1, <2>1, <3>1, ModDistinct
    <3>3. pre_roll_[(q - 1) % P] = q
      BY <1>2, <3>1
    <3>. QED
      BY <1>2, <2>1, <3>2, <3>3
  <2>. QED
    BY <2>2, <2>3
<1>7. PreRollIsLatest'
  BY <1>4, <1>5, <1>6 DEF PreRollIsLatest, P
<1>8. pre_roll_' \in [0..P-1 -> 0..MaxStream]
  <2>1. pos + 1 \in 0..MaxStream
    BY <1>1, SegmentSizes
  <2>. QED
    BY <1>2, <2>1
<1>9. pre_roll_head_' \in 0..P-1
  BY <1>1, <1>3, <1>4
<1>. QED
  BY <1>1, <1>5, <1>7, <1>8, <1>9 DEF P

\* The last f of p samples, as a sequence.
LEMMA LatestAreASequence ==
  ASSUME NEW p \in Nat, NEW f \in Nat, f <= p, NEW m \in Nat, p <= m
  PROVE  /\ [i \in 1..f |-> p - f + i] \in Seq(1..m)
         /\ Len([i \in 1..f |-> p - f + i]) = f
<1>1. \A i \in 1..f : p - f + i \in 1..m
  OBVIOUS
<1>. QED
  BY <1>1

\* What the segment starts with: the latest samples, oldest first.
LEMMA PreRollInOrder ==
  ASSUME PreRollIsLatest', pos' \in 1..MaxStream
  PROVE  /\ PreRoll \in Seq(1..MaxStream) /\ Len(PreRoll) = Lesser(pos', kPreRollMs)
         /\ \A i \in 1..Len(PreRoll) : PreRoll[i] = pos' - Len(PreRoll) + i
<1>. DEFINE f == Lesser(pos', kPreRollMs)
            start == (pre_roll_head_' + kPreRollMs - pre_roll_filled_') % kPreRollMs
<1>1. /\ f \in Nat /\ f <= pos' /\ f <= kPreRollMs /\ kPreRollMs \in Nat \ {0} /\ pos' \in Nat
      /\ MaxStream \in Nat /\ pos' <= MaxStream
  BY SegmentSizes DEF Lesser
<1>2. PreRoll = [i \in 1..f |-> pre_roll_'[(start + i - 1) % kPreRollMs]]
  BY DEF PreRoll, PreRollIsLatest
<1>3. ASSUME NEW i \in 1..f PROVE pre_roll_'[(start + i - 1) % kPreRollMs] = pos' - f + i
  <2>1. start = ((pos' % kPreRollMs) + kPreRollMs - f) % kPreRollMs
    BY DEF PreRollIsLatest
  <2>2. (start + i - 1) % kPreRollMs = ((pos' - f + i) - 1) % kPreRollMs
    BY <1>1, <2>1, OldestFirst
  <2>3. pos' - f + i \in 1..pos' /\ pos' - f + i > pos' - kPreRollMs
    BY <1>1
  <2>4. pre_roll_'[((pos' - f + i) - 1) % kPreRollMs] = pos' - f + i
    BY <2>3 DEF PreRollIsLatest
  <2>. QED
    BY <2>2, <2>4
<1>4. PreRoll = [i \in 1..f |-> pos' - f + i]
  BY <1>2, <1>3
<1>5. PreRoll \in Seq(1..MaxStream) /\ Len(PreRoll) = f
  BY <1>1, <1>4, LatestAreASequence
<1>6. \A i \in 1..f : PreRoll[i] = pos' - f + i
  BY <1>4
<1>. QED
  BY <1>5, <1>6

-----------------------------------------------------------------------------
(* The segment under way *)

\* A sample more, and the segment still ends here and begins where it began.
LEMMA RecordedInOrder ==
  ASSUME SegmenterInv, speaking_, Heard
  PROVE  /\ Recorded \in Seq(1..MaxStream) /\ Len(Recorded) \in 1..pos'
         /\ Len(Recorded) < kMaxSegmentMs + window_ + 1
         /\ \A i \in 1..Len(Recorded) : Recorded[i] = pos' - Len(Recorded) + i
         /\ Recorded[1] = segment_[1]
<1>1. pos \in Nat /\ pos' = pos + 1 /\ pos + 1 \in 1..MaxStream
  BY HeardIsLatest
<1>2. /\ segment_ \in Seq(1..MaxStream) /\ Len(segment_) \in 1..pos
      /\ Len(segment_) < kMaxSegmentMs + window_ /\ window_ \in Nat /\ kMaxSegmentMs \in Nat
      /\ \A i \in 1..Len(segment_) : segment_[i] = pos - Len(segment_) + i
  BY SegmentSizes DEF SegmenterInv, SegmentEndsHere, SegmenterTypeOK
<1>3. /\ Recorded \in Seq(1..MaxStream) /\ Len(Recorded) = Len(segment_) + 1
      /\ \A i \in 1..Len(segment_) : Recorded[i] = segment_[i]
      /\ Recorded[Len(segment_) + 1] = pos + 1
  <2>1. Recorded = Append(segment_, pos + 1)
    BY DEF Recorded
  <2>. QED
    BY <1>1, <1>2, <2>1, AppendProperties
<1>4. ASSUME NEW i \in 1..Len(Recorded) PROVE Recorded[i] = pos' - Len(Recorded) + i
  <2>1. CASE i = Len(segment_) + 1
    BY <1>1, <1>2, <1>3, <2>1
  <2>2. CASE i # Len(segment_) + 1
    <3>1. i \in 1..Len(segment_)
      BY <1>2, <1>3, <2>2
    <3>. QED
      BY <1>1, <1>2, <1>3, <3>1
  <2>. QED
    BY <2>1, <2>2
<1>5. Len(Recorded) \in 1..pos' /\ Len(Recorded) < kMaxSegmentMs + window_ + 1 /\ 1 \in 1..Len(segment_)
  BY <1>1, <1>2, <1>3
<1>. QED
  BY <1>3, <1>4, <1>5

\* The latest so many samples are one stretch.
LEMMA LatestAreUnbroken ==
  ASSUME NEW s, Len(s) \in Nat, NEW p \in Nat, \A i \in 1..Len(s) : s[i] = p - Len(s) + i
  PROVE  OneStretch(s)
<1>. SUFFICES ASSUME NEW i \in 1..Len(s)-1 PROVE s[i+1] = s[i] + 1
  BY DEF OneStretch
<1>1. i \in 1..Len(s) /\ i + 1 \in 1..Len(s) /\ i \in Nat
  OBVIOUS
<1>. QED
  BY <1>1

\* What any window does when it is full, whatever the verdict.
LEMMA WindowIsHeard ==
  ASSUME SegmenterInv, NEW silent \in BOOLEAN, NEW p \in Verdicts, WindowFull(silent), RunOfVoice(p)
  PROVE  /\ PreRollIsLatest' /\ pos \in Nat /\ pos' = pos + 1 /\ pos' \in 1..MaxStream
         /\ pre_roll_' \in [0..kPreRollMs-1 -> 0..MaxStream]
         /\ pre_roll_head_' \in 0..kPreRollMs-1 /\ pre_roll_filled_' \in 0..kPreRollMs
         /\ window_' = 0 /\ window_ \in Nat /\ window_ + 1 = kWindow /\ kWindow <= pos'
         /\ silent_windows_' \in Nat /\ voicedFrom' \in Nat
         /\ (remembers' = FALSE \/ remembers' = AfterPredict(silent))
               => (remembers' \in BOOLEAN /\ LongSilenceIsForgotten')
<1>1. Heard /\ window_' = 0 /\ window_ + 1 = kWindow /\ silent_windows_' = CountSilence(silent)
  BY DEF WindowFull
<1>2. /\ PreRollIsLatest' /\ pos \in Nat /\ pos' = pos + 1 /\ pos' \in 1..MaxStream
      /\ pre_roll_' \in [0..kPreRollMs-1 -> 0..MaxStream]
      /\ pre_roll_head_' \in 0..kPreRollMs-1 /\ pre_roll_filled_' \in 0..kPreRollMs
  BY <1>1, HeardIsLatest
<1>3. window_ \in Nat /\ kWindow \in Nat /\ kWindow <= pos'
  BY <1>1, <1>2, SegmentSizes DEF SegmenterInv, SegmenterTypeOK, Progress
<1>4. silent_windows_ \in Nat /\ silent_windows_' \in Nat
  BY <1>1 DEF CountSilence, SegmenterInv, SegmenterTypeOK
<1>5. voicedFrom' \in Nat
  BY <1>2, <1>3 DEF RunOfVoice, SegmenterInv, Progress
<1>6. ASSUME remembers' = FALSE \/ remembers' = AfterPredict(silent)
      PROVE  remembers' \in BOOLEAN /\ LongSilenceIsForgotten'
  <2>1. remembers \in BOOLEAN /\ (silent_windows_ >= kResetAfterSilentWindows => ~remembers)
    BY DEF SegmenterInv, SegmenterTypeOK, LongSilenceIsForgotten
  <2>2. CASE remembers' = FALSE
    BY <2>2 DEF LongSilenceIsForgotten
  <2>3. CASE silent /\ remembers' = (remembers /\ silent_windows_' # kResetAfterSilentWindows)
    <3>1. silent_windows_' = silent_windows_ + 1
      BY <1>1, <2>3 DEF CountSilence
    <3>2. silent_windows_' >= kResetAfterSilentWindows =>
             silent_windows_' = kResetAfterSilentWindows \/ silent_windows_ >= kResetAfterSilentWindows
      BY <1>4, <3>1, SegmentSizes
    <3>. QED
      BY <2>1, <2>3, <3>2 DEF LongSilenceIsForgotten
  <2>4. CASE ~silent /\ remembers' = TRUE
    <3>1. silent_windows_' = 0
      BY <1>1, <2>4 DEF CountSilence
    <3>2. ~(silent_windows_' >= kResetAfterSilentWindows)
      BY <3>1, SegmentSizes
    <3>. QED
      BY <2>4, <3>2 DEF LongSilenceIsForgotten
  <2>. QED
    BY <1>6, <2>2, <2>3, <2>4 DEF AfterPredict
<1>. QED
  BY <1>1, <1>2, <1>3, <1>4, <1>5, <1>6

-----------------------------------------------------------------------------
(* The steps *)

LEMMA SegmenterStarts == SegmenterInit => SegmenterInv
<1>. SUFFICES ASSUME SegmenterInit PROVE SegmenterInv
  OBVIOUS
<1>. USE SegmentSizes DEF SegmenterInit
<1>1. segment_ \in Seq(1..MaxStream) /\ Len(segment_) = 0 /\ Len(sent.samples) = 0 /\ sent.duration = 0
  BY EmptySeq DEF NoSegment
<1>2. SegmenterTypeOK
  <2>1. pre_roll_ \in [0..kPreRollMs-1 -> 0..MaxStream] /\ 0 \in 0..kWindow-1 /\ 0 \in 0..kPreRollMs-1
        /\ 0 \in 0..kPreRollMs /\ 0 \in 0..kVoiceEnterWindows-1
    OBVIOUS
  <2>2. /\ 0 < kMaxSegmentMs + kWindow /\ 0 < kMaxSegmentMs + kWindow + kPostRollMs /\ 0 < kSilenceCloseMs
        /\ 0 \in Nat
    OBVIOUS
  <2>. QED
    BY <1>1, <2>1, <2>2 DEF SegmenterTypeOK
<1>3. Progress
  BY <1>1 DEF Progress
<1>4. PreRollIsLatest
  <2>1. 0 % kPreRollMs = 0
    OBVIOUS
  <2>. QED
    BY <2>1 DEF PreRollIsLatest, Lesser
<1>5. SegmentEndsHere /\ OneStretch(sent.samples) /\ RunIsCounted /\ AttackIsKept
  BY <1>1 DEF SegmentEndsHere, OneStretch, RunIsCounted, AttackIsKept
<1>6. LongSilenceIsForgotten
  BY DEF LongSilenceIsForgotten
<1>. QED
  BY <1>2, <1>3, <1>4, <1>5, <1>6 DEF SegmenterInv

\* A sample that does not fill the window only makes what is there longer.
LEMMA SampleInv == SegmenterInv /\ Sample => SegmenterInv'
<1>. SUFFICES ASSUME SegmenterInv, Sample PROVE SegmenterInv'
  OBVIOUS
<1>1. /\ Heard /\ window_ + 1 < kWindow /\ segment_' = Recorded /\ window_' = window_ + 1
      /\ UNCHANGED <<speaking_, consecutive_voice_, silence_ms_, silent_windows_, remembers,
                     voicedFrom, trigger, saidUpTo, sent, sentUpTo>>
  BY DEF Sample
<1>2. /\ PreRollIsLatest' /\ pos \in Nat /\ pos' = pos + 1 /\ pos' \in 1..MaxStream
      /\ pre_roll_' \in [0..kPreRollMs-1 -> 0..MaxStream]
      /\ pre_roll_head_' \in 0..kPreRollMs-1 /\ pre_roll_filled_' \in 0..kPreRollMs
  BY <1>1, HeardIsLatest
<1>3. window_ \in Nat /\ kWindow \in Nat /\ window_' \in 0..kWindow-1 /\ window_' <= pos'
  BY <1>1, <1>2, SegmentSizes DEF SegmenterInv, SegmenterTypeOK, Progress
<1>4. /\ segment_' \in Seq(1..MaxStream) /\ Len(segment_') < kMaxSegmentMs + kWindow
      /\ SegmentEndsHere' /\ AttackIsKept'
  <2>1. CASE speaking_
    <3>1. /\ segment_' \in Seq(1..MaxStream) /\ Len(segment_') \in 1..pos'
          /\ Len(segment_') < kMaxSegmentMs + window_ + 1
          /\ \A i \in 1..Len(segment_') : segment_'[i] = pos' - Len(segment_') + i
          /\ segment_'[1] = segment_[1]
      BY <1>1, <2>1, RecordedInOrder
    <3>2. Len(segment_') < kMaxSegmentMs + kWindow /\ Len(segment_') < kMaxSegmentMs + window_'
      BY <1>1, <1>2, <1>3, <3>1, SegmentSizes
    <3>3. SegmentEndsHere'
      BY <1>1, <2>1, <3>1, <3>2 DEF SegmentEndsHere
    <3>4. AttackIsKept'
      BY <1>1, <2>1, <3>1 DEF AttackIsKept, SegmenterInv
    <3>. QED
      BY <3>1, <3>2, <3>3, <3>4
  <2>2. CASE ~speaking_
    <3>1. segment_' = segment_
      BY <1>1, <2>2 DEF Recorded
    <3>. QED
      BY <1>1, <2>2, <3>1 DEF SegmentEndsHere, AttackIsKept, SegmenterInv, SegmenterTypeOK
  <2>. QED
    BY <2>1, <2>2
<1>5. SegmenterTypeOK'
  BY <1>1, <1>2, <1>3, <1>4 DEF SegmenterInv, SegmenterTypeOK
<1>6. Progress'
  BY <1>1, <1>2, <1>3, SegmentSizes DEF SegmenterInv, Progress
<1>7. RunIsCounted'
  <2>1. pos' - window_' = pos - window_
    BY <1>1, <1>2, <1>3
  <2>. QED
    BY <1>1, <2>1 DEF RunIsCounted, SegmenterInv
<1>8. OneStretch(sent.samples)' /\ LongSilenceIsForgotten'
  BY <1>1 DEF OneStretch, LongSilenceIsForgotten, SegmenterInv
<1>. QED
  BY <1>2, <1>4, <1>5, <1>6, <1>7, <1>8 DEF SegmenterInv

\* One window more of voice.
LEMMA OneMoreWindow ==
  ASSUME NEW c \in Nat, NEW w \in Nat
  PROVE  c * w \in Nat /\ (c + 1) * w = c * w + w
  OBVIOUS

\* Nobody is taken to be speaking: a window of voice lengthens the run, any other ends it.
LEMMA ListenInv ==
  ASSUME SegmenterInv, NEW silent \in BOOLEAN, NEW p \in Verdicts, Listen(p, silent)
  PROVE  SegmenterInv'
<1>1. /\ ~speaking_ /\ WindowFull(silent) /\ RunOfVoice(p) /\ remembers' = AfterPredict(silent)
      /\ p = "high" => consecutive_voice_ + 1 < kVoiceEnterWindows
      /\ consecutive_voice_' = IF p = "high" THEN consecutive_voice_ + 1 ELSE 0
      /\ UNCHANGED <<segment_, speaking_, silence_ms_, trigger, saidUpTo, sent, sentUpTo>>
  BY SegmentSizes DEF Listen, Agreed, SegmenterInv, SegmenterTypeOK
<1>2. /\ PreRollIsLatest' /\ pos \in Nat /\ pos' = pos + 1 /\ pos' \in 1..MaxStream
      /\ pre_roll_' \in [0..kPreRollMs-1 -> 0..MaxStream]
      /\ pre_roll_head_' \in 0..kPreRollMs-1 /\ pre_roll_filled_' \in 0..kPreRollMs
      /\ window_' = 0 /\ window_ \in Nat /\ window_ + 1 = kWindow /\ kWindow <= pos'
      /\ silent_windows_' \in Nat /\ voicedFrom' \in Nat
      /\ remembers' \in BOOLEAN /\ LongSilenceIsForgotten'
  BY <1>1, WindowIsHeard
<1>3. consecutive_voice_ \in Nat /\ consecutive_voice_' \in 0..kVoiceEnterWindows-1 /\ 0 \in 0..kWindow-1
  BY <1>1, SegmentSizes DEF SegmenterInv, SegmenterTypeOK
<1>4. SegmenterTypeOK'
  BY <1>1, <1>2, <1>3 DEF SegmenterInv, SegmenterTypeOK
<1>5. Progress'
  BY <1>1, <1>2, SegmentSizes DEF SegmenterInv, Progress
<1>6. SegmentEndsHere' /\ OneStretch(sent.samples)' /\ AttackIsKept'
  BY <1>1 DEF SegmentEndsHere, OneStretch, AttackIsKept, SegmenterInv
<1>7. RunIsCounted'
  <2>1. CASE p # "high"
    BY <1>1, <2>1 DEF RunOfVoice, RunIsCounted
  <2>2. CASE p = "high" /\ voicedFrom = 0
    <3>1. consecutive_voice_ = 0 /\ consecutive_voice_' = 1 /\ voicedFrom' = pos' - kWindow + 1
      BY <1>1, <2>2 DEF RunOfVoice, SegmenterInv, RunIsCounted
    <3>2. voicedFrom' # 0 /\ pos' - 0 - 1 * kWindow + 1 <= Greater(voicedFrom', sentUpTo + 1)
      <4>1. 1 * kWindow = kWindow /\ sentUpTo \in Nat /\ kWindow \in Nat
        BY SegmentSizes DEF SegmenterInv, Progress
      <4>. QED
        BY <1>2, <3>1, <4>1 DEF Greater
    <3>. QED
      BY <1>1, <1>2, <3>1, <3>2 DEF RunIsCounted
  <2>3. CASE p = "high" /\ voicedFrom # 0
    <3>1. /\ consecutive_voice_' = consecutive_voice_ + 1 /\ voicedFrom' = voicedFrom
          /\ pos - window_ - consecutive_voice_ * kWindow + 1 <= Greater(voicedFrom, sentUpTo + 1)
      BY <1>1, <2>3 DEF RunOfVoice, SegmenterInv, RunIsCounted
    <3>2. pos' - 0 - consecutive_voice_' * kWindow + 1 = pos - window_ - consecutive_voice_ * kWindow + 1
      <4>1. /\ consecutive_voice_ * kWindow \in Nat /\ kWindow \in Nat
            /\ consecutive_voice_' * kWindow = consecutive_voice_ * kWindow + kWindow
        BY <1>3, <3>1, OneMoreWindow, SegmentSizes
      <4>. QED
        BY <1>2, <4>1
    <3>. QED
      BY <1>1, <1>2, <2>3, <3>1, <3>2 DEF RunIsCounted
  <2>. QED
    BY <2>1, <2>2, <2>3
<1>. QED
  BY <1>2, <1>4, <1>5, <1>6, <1>7 DEF SegmenterInv

\* The pre-roll reaches back to where the run of voice began, to the beginning of the stream,
\* or into what was handed over before.
LEMMA start_segmentInv ==
  ASSUME SegmenterInv, NEW silent \in BOOLEAN, start_segment(silent)
  PROVE  SegmenterInv'
<1>1. /\ ~speaking_ /\ WindowFull(silent) /\ RunOfVoice("high") /\ remembers' = AfterPredict(silent)
      /\ consecutive_voice_ + 1 >= kVoiceEnterWindows
      /\ speaking_' = TRUE /\ consecutive_voice_' = 0 /\ silence_ms_' = 0
      /\ segment_' = PreRoll /\ trigger' = voicedFrom' /\ UNCHANGED <<sent, sentUpTo>>
  BY DEF start_segment, FirstSamples, Agreed
<1>2. /\ PreRollIsLatest' /\ pos \in Nat /\ pos' = pos + 1 /\ pos' \in 1..MaxStream
      /\ pre_roll_' \in [0..kPreRollMs-1 -> 0..MaxStream]
      /\ pre_roll_head_' \in 0..kPreRollMs-1 /\ pre_roll_filled_' \in 0..kPreRollMs
      /\ window_' = 0 /\ window_ \in Nat /\ window_ + 1 = kWindow /\ kWindow <= pos'
      /\ silent_windows_' \in Nat /\ voicedFrom' \in Nat
      /\ remembers' \in BOOLEAN /\ LongSilenceIsForgotten'
  <2>1. "high" \in Verdicts
    BY DEF Verdicts
  <2>. QED
    BY <1>1, <2>1, WindowIsHeard
<1>3. /\ segment_' \in Seq(1..MaxStream) /\ Len(segment_') = Lesser(pos', kPreRollMs)
      /\ \A i \in 1..Len(segment_') : segment_'[i] = pos' - Len(segment_') + i
  BY <1>1, <1>2, PreRollInOrder
<1>4. /\ Len(segment_') \in 1..pos' /\ Len(segment_') <= kPreRollMs
      /\ pos' <= kPreRollMs => Len(segment_') = pos'
      /\ pos' > kPreRollMs => Len(segment_') = kPreRollMs
  BY <1>2, <1>3, SegmentSizes DEF Lesser
<1>5. SegmenterTypeOK'
  <2>1. /\ Len(segment_') < kMaxSegmentMs + kWindow /\ 0 \in 0..kWindow-1 /\ 0 \in 0..kVoiceEnterWindows-1
        /\ 0 < kSilenceCloseMs
    BY <1>4, SegmentSizes
  <2>. QED
    BY <1>1, <1>2, <1>3, <2>1 DEF SegmenterInv, SegmenterTypeOK
<1>6. Progress'
  BY <1>1, <1>2, SegmentSizes DEF SegmenterInv, Progress
<1>7. SegmentEndsHere' /\ OneStretch(sent.samples)' /\ RunIsCounted'
  <2>1. Len(segment_') < kMaxSegmentMs + window_'
    BY <1>2, <1>4, SegmentSizes
  <2>. QED
    BY <1>1, <1>3, <1>4, <2>1 DEF SegmentEndsHere, OneStretch, RunIsCounted, SegmenterInv
<1>8. AttackIsKept'
  <2>1. segment_'[1] = pos' - Len(segment_') + 1 /\ segment_'[1] \in Nat
    BY <1>2, <1>3, <1>4
  <2>2. sentUpTo \in Nat /\ kWindow \in Nat /\ kPreRollMs \in Nat
    BY SegmentSizes DEF SegmenterInv, Progress
  <2>3. segment_'[1] <= Greater(voicedFrom', sentUpTo + 1)
    <3>1. CASE pos' <= kPreRollMs
      BY <1>2, <1>4, <2>1, <2>2, <3>1 DEF Greater
    <3>2. CASE pos' > kPreRollMs /\ voicedFrom = 0
      <4>1. voicedFrom' = pos' - kWindow + 1
        BY <1>1, <3>2 DEF RunOfVoice
      <4>2. kWindow <= kPreRollMs
        <5>1. PICK k \in Nat : kVoiceEnterWindows = k + 1
          <6>1. kVoiceEnterWindows - 1 \in Nat /\ kVoiceEnterWindows = (kVoiceEnterWindows - 1) + 1
            BY SegmentSizes
          <6>. QED
            BY <6>1
        <5>2. k * kWindow \in Nat /\ (k + 1) * kWindow = k * kWindow + kWindow
          BY <2>2, OneMoreWindow
        <5>. QED
          BY <2>2, <5>1, <5>2, SegmentSizes
      <4>. QED
        BY <1>2, <1>4, <2>1, <2>2, <3>2, <4>1, <4>2 DEF Greater
    <3>3. CASE pos' > kPreRollMs /\ voicedFrom # 0
      <4>1. /\ voicedFrom' = voicedFrom
            /\ pos - window_ - consecutive_voice_ * kWindow + 1 <= Greater(voicedFrom, sentUpTo + 1)
        BY <1>1, <3>3 DEF RunOfVoice, SegmenterInv, RunIsCounted
      <4>2. consecutive_voice_ \in Nat /\ consecutive_voice_ + 1 = kVoiceEnterWindows
        BY <1>1, SegmentSizes DEF SegmenterInv, SegmenterTypeOK
      <4>3. /\ consecutive_voice_ * kWindow \in Nat
            /\ consecutive_voice_ * kWindow + kWindow <= kPreRollMs
        <5>1. /\ consecutive_voice_ * kWindow \in Nat
              /\ (consecutive_voice_ + 1) * kWindow = consecutive_voice_ * kWindow + kWindow
          BY <2>2, <4>2, OneMoreWindow
        <5>2. (consecutive_voice_ + 1) * kWindow <= kPreRollMs
          BY <4>2, SegmentSizes
        <5>. QED
          BY <5>1, <5>2
      <4>4. pos' - kPreRollMs + 1 <= pos - window_ - consecutive_voice_ * kWindow + 1
        BY <1>2, <2>2, <4>3
      <4>5. Greater(voicedFrom, sentUpTo + 1) \in Nat
        BY <1>2, <2>2, <4>1 DEF Greater
      <4>6. segment_'[1] = pos' - kPreRollMs + 1
        BY <1>4, <2>1, <3>3
      <4>7. segment_'[1] <= Greater(voicedFrom, sentUpTo + 1)
        <5>. DEFINE reach == pos - window_ - consecutive_voice_ * kWindow + 1
        <5>1. reach \in Int
          BY <1>2, <4>3
        <5>2. segment_'[1] <= reach /\ reach <= Greater(voicedFrom, sentUpTo + 1)
          BY <4>1, <4>4, <4>6
        <5>. HIDE DEF reach
        <5>. QED
          BY <2>1, <4>5, <5>1, <5>2
      <4>. QED
        BY <4>1, <4>7
    <3>. QED
      BY <1>2, <2>2, <3>1, <3>2, <3>3
  <2>. QED
    BY <1>1, <2>3 DEF AttackIsKept
<1>. QED
  BY <1>2, <1>5, <1>6, <1>7, <1>8 DEF SegmenterInv

\* A window of an utterance that goes on.
LEMMA SpeakInv ==
  ASSUME SegmenterInv, NEW silent \in BOOLEAN, NEW p \in Verdicts, Speak(p, silent)
  PROVE  SegmenterInv'
<1>1. /\ speaking_ /\ WindowFull(silent) /\ RunOfVoice(p) /\ remembers' = AfterPredict(silent)
      /\ Silence(p) < kSilenceCloseMs /\ segment_' = Recorded /\ ~(Len(segment_') >= kMaxSegmentMs)
      /\ silence_ms_' = Silence(p)
      /\ UNCHANGED <<speaking_, consecutive_voice_, trigger, sent, sentUpTo>>
  BY DEF Speak, TooLong
<1>2. /\ PreRollIsLatest' /\ pos \in Nat /\ pos' = pos + 1 /\ pos' \in 1..MaxStream
      /\ pre_roll_' \in [0..kPreRollMs-1 -> 0..MaxStream]
      /\ pre_roll_head_' \in 0..kPreRollMs-1 /\ pre_roll_filled_' \in 0..kPreRollMs
      /\ window_' = 0 /\ window_ \in Nat /\ window_ + 1 = kWindow /\ kWindow <= pos'
      /\ silent_windows_' \in Nat /\ voicedFrom' \in Nat
      /\ remembers' \in BOOLEAN /\ LongSilenceIsForgotten'
  BY <1>1, WindowIsHeard
<1>3. /\ segment_' \in Seq(1..MaxStream) /\ Len(segment_') \in 1..pos'
      /\ \A i \in 1..Len(segment_') : segment_'[i] = pos' - Len(segment_') + i
      /\ segment_'[1] = segment_[1]
  BY <1>1, RecordedInOrder DEF WindowFull
<1>4. /\ Len(segment_') < kMaxSegmentMs + kWindow /\ Len(segment_') < kMaxSegmentMs + window_'
      /\ 0 \in 0..kWindow-1
  <2>1. Len(segment_') \in Nat /\ Len(segment_') < kMaxSegmentMs
    BY <1>1, <1>3, SegmentSizes
  <2>. QED
    BY <1>2, <2>1, SegmentSizes
<1>5. silence_ms_' \in Nat
  BY <1>1, SegmentSizes DEF Silence, SegmenterInv, SegmenterTypeOK
<1>6. SegmenterTypeOK'
  BY <1>1, <1>2, <1>3, <1>4, <1>5 DEF SegmenterInv, SegmenterTypeOK
<1>7. Progress'
  BY <1>1, <1>2, SegmentSizes DEF SegmenterInv, Progress
<1>8. SegmentEndsHere' /\ OneStretch(sent.samples)' /\ RunIsCounted' /\ AttackIsKept'
  BY <1>1, <1>3, <1>4 DEF SegmentEndsHere, OneStretch, RunIsCounted, AttackIsKept, SegmenterInv
<1>. QED
  BY <1>2, <1>6, <1>7, <1>8 DEF SegmenterInv

\* A segment ends in a pause, and then no run of voice goes on, or because it is long enough to
\* be cut, and then it is long enough to be handed over.
LEMMA close_segmentInv ==
  ASSUME SegmenterInv, NEW silent \in BOOLEAN, NEW p \in Verdicts, close_segment(p, silent)
  PROVE  SegmenterInv'
<1>. DEFINE duration == Len(Recorded) + kPostRollMs
<1>1. /\ speaking_ /\ WindowFull(silent) /\ RunOfVoice(p) /\ remembers' = FALSE
      /\ segment_' = << >> /\ (Silence(p) >= kSilenceCloseMs \/ Len(Recorded) >= kMaxSegmentMs)
      /\ speaking_' = FALSE /\ consecutive_voice_' = 0 /\ silence_ms_' = 0
      /\ UNCHANGED <<trigger, saidUpTo>>
  BY DEF close_segment
<1>2. \/ /\ duration >= kMinSegmentMs /\ sent'.samples = Recorded /\ sent'.duration = duration
         /\ sentUpTo' = pos'
      \/ duration < kMinSegmentMs /\ UNCHANGED <<sent, sentUpTo>>
  <2>1. IF duration >= kMinSegmentMs
        THEN /\ sent' = [samples |-> Recorded, duration |-> duration, speech |-> Speech(p) - trigger + 1]
             /\ sentUpTo' = pos'
        ELSE UNCHANGED <<sent, sentUpTo>>
    BY DEF close_segment
  <2>2. duration \in Nat /\ kMinSegmentMs \in Nat
    BY <1>1, RecordedInOrder, SegmentSizes DEF WindowFull
  <2>. HIDE DEF duration
  <2>. QED
    BY <2>1, <2>2
<1>3. /\ PreRollIsLatest' /\ pos \in Nat /\ pos' = pos + 1 /\ pos' \in 1..MaxStream
      /\ pre_roll_' \in [0..kPreRollMs-1 -> 0..MaxStream]
      /\ pre_roll_head_' \in 0..kPreRollMs-1 /\ pre_roll_filled_' \in 0..kPreRollMs
      /\ window_' = 0 /\ window_ \in Nat /\ window_ + 1 = kWindow /\ kWindow <= pos'
      /\ silent_windows_' \in Nat /\ voicedFrom' \in Nat
      /\ remembers' \in BOOLEAN /\ LongSilenceIsForgotten'
  BY <1>1, WindowIsHeard
<1>4. /\ Len(Recorded) \in 1..pos' /\ Len(Recorded) < kMaxSegmentMs + window_ + 1
      /\ \A i \in 1..Len(Recorded) : Recorded[i] = pos' - Len(Recorded) + i
  BY <1>1, RecordedInOrder DEF WindowFull
<1>5. duration \in Nat /\ duration < kMaxSegmentMs + kWindow + kPostRollMs
  BY <1>3, <1>4, SegmentSizes
<1>6. OneStretch(Recorded)
  <2>1. Len(Recorded) \in Nat /\ pos' \in Nat
    BY <1>3, <1>4
  <2>. QED
    BY <1>4, <2>1, LatestAreUnbroken, Zenon
<1>. HIDE DEF duration
<1>7. SegmenterTypeOK'
  <2>1. segment_' \in Seq(1..MaxStream) /\ Len(segment_') = 0
    BY <1>1, EmptySeq
  <2>2. /\ 0 < kMaxSegmentMs + kWindow /\ 0 \in 0..kWindow-1 /\ 0 \in 0..kVoiceEnterWindows-1
        /\ 0 < kSilenceCloseMs
    BY SegmentSizes
  <2>3. sent'.duration < kMaxSegmentMs + kWindow + kPostRollMs
    BY <1>2, <1>5 DEF SegmenterInv, SegmenterTypeOK
  <2>. QED
    BY <1>1, <1>3, <2>1, <2>2, <2>3 DEF SegmenterInv, SegmenterTypeOK
<1>8. Progress'
  <2>1. sentUpTo' \in 0..pos' /\ sent'.duration \in Nat
    BY <1>2, <1>3, <1>5 DEF SegmenterInv, Progress
  <2>. QED
    BY <1>1, <1>3, <2>1, SegmentSizes DEF SegmenterInv, Progress
<1>9. SegmentEndsHere' /\ AttackIsKept'
  BY <1>1 DEF SegmentEndsHere, AttackIsKept
<1>10. OneStretch(sent.samples)'
  BY <1>2, <1>6 DEF OneStretch, SegmenterInv
<1>11. RunIsCounted'
  <2>1. ASSUME voicedFrom' # 0 PROVE sentUpTo' = pos'
    <3>1. p = "high"
      BY <1>1, <2>1 DEF RunOfVoice
    <3>2. Silence(p) < kSilenceCloseMs
      BY <3>1, SegmentSizes DEF Silence
    <3>3. Len(Recorded) >= kMaxSegmentMs
      BY <1>1, <3>1, <3>2, SegmentSizes DEF Silence
    <3>4. ~(duration < kMinSegmentMs)
      BY <1>4, <3>3, SegmentSizes DEF duration
    <3>. QED
      BY <1>2, <3>4
  <2>2. ASSUME voicedFrom' # 0
        PROVE  pos' - window_' - consecutive_voice_' * kWindow + 1 <= Greater(voicedFrom', sentUpTo' + 1)
    <3>1. 0 * kWindow = 0
      BY SegmentSizes
    <3>. QED
      BY <1>1, <1>3, <2>1, <2>2, <3>1 DEF Greater
  <2>. QED
    BY <1>1, <2>2 DEF RunIsCounted
<1>. QED
  BY <1>3, <1>7, <1>8, <1>9, <1>10, <1>11 DEF SegmenterInv

LEMMA SegmenterStep == SegmenterInv /\ [SegmenterNext]_segmenterVars => SegmenterInv'
<1>. SUFFICES ASSUME SegmenterInv, [SegmenterNext]_segmenterVars PROVE SegmenterInv'
  OBVIOUS
<1>1. CASE UNCHANGED segmenterVars
  BY <1>1 DEF segmenterVars, ring, SegmenterInv, SegmenterTypeOK, Progress, PreRollIsLatest,
              SegmentEndsHere, OneStretch, RunIsCounted, AttackIsKept, LongSilenceIsForgotten
<1>. QED
  BY <1>1, SampleInv, ListenInv, start_segmentInv, SpeakInv, close_segmentInv DEF SegmenterNext

LEMMA SegmenterInvHolds == SegmenterSpec => []SegmenterInv
  BY SegmenterStarts, SegmenterStep, PTL DEF SegmenterSpec

-----------------------------------------------------------------------------
(* The theorems *)

\* For windows, rolls and limits of any size: every piece of a monologue stays short, and no
\* window is judged with a memory from before a long silence.
THEOREM SegmenterIsSafe == SegmenterSpec => []SegmenterInvariant
<1>1. SegmenterInv => SegmenterInvariant
  BY DEF SegmenterInv, SegmenterInvariant
<1>. QED
  BY <1>1, SegmenterInvHolds, PTL

\* An utterance is one stretch of the stream, across the pre-roll ring and what came after it.
THEOREM NothingIsCutOut == SegmenterSpec => []UtterancesAreUnbroken
<1>1. SegmenterInv => UtterancesAreUnbroken
  <2>. SUFFICES ASSUME SegmenterInv PROVE UtterancesAreUnbroken
    OBVIOUS
  <2>1. pos \in Nat
    BY SegmentSizes DEF SegmenterInv, Progress
  <2>2. CASE speaking_
    <3>1. Len(segment_) \in 1..pos /\ \A i \in 1..Len(segment_) : segment_[i] = pos - Len(segment_) + i
      BY <2>2 DEF SegmenterInv, SegmentEndsHere
    <3>2. OneStretch(segment_)
      <4>1. Len(segment_) \in Nat
        BY <3>1
      <4>. QED
        BY <2>1, <3>1, <4>1, LatestAreUnbroken, Zenon
    <3>3. segment_[Len(segment_)] = pos
      BY <2>1, <3>1
    <3>. QED
      BY <3>2, <3>3 DEF UtterancesAreUnbroken, SegmenterInv
  <2>3. CASE ~speaking_
    <3>1. segment_ = << >>
      BY <2>3 DEF SegmenterInv, SegmentEndsHere
    <3>. QED
      BY <2>3, <3>1 DEF UtterancesAreUnbroken, OneStretch, SegmenterInv
  <2>. QED
    BY <2>2, <2>3
<1>. QED
  BY <1>1, SegmenterInvHolds, PTL

\* Of the run of voice that started a segment nothing is missing, however many windows it takes
\* to agree on it and wherever the ring wraps.
THEOREM FirstWordIsWhole == SegmenterSpec => []AttackIsKept
<1>1. SegmenterInv => AttackIsKept
  BY DEF SegmenterInv
<1>. QED
  BY <1>1, SegmenterInvHolds, PTL

\* The windows counted so far came after what was handed over last.
CountedIsNew == ~speaking_ => sentUpTo + consecutive_voice_ * kWindow <= pos - window_

\* A segment begins no further back than the pre-roll reaches, and the count that started it
\* began after the last segment ended.
LEMMA RepeatsStep ==
  ASSUME SegmenterInv, RepeatsAreShort, CountedIsNew, [SegmenterNext]_segmenterVars
  PROVE  RepeatsAreShort' /\ CountedIsNew'
<1>1. /\ pos \in Nat /\ window_ \in Nat /\ sentUpTo \in Nat /\ sentUpTo <= pos /\ kWindow \in Nat
      /\ consecutive_voice_ \in Nat /\ consecutive_voice_ * kWindow \in Nat /\ 0 * kWindow = 0
  <2>1. consecutive_voice_ \in Nat /\ kWindow \in Nat
    BY SegmentSizes DEF SegmenterInv, SegmenterTypeOK
  <2>2. consecutive_voice_ * kWindow \in Nat /\ 0 * kWindow = 0
    BY <2>1, OneMoreWindow
  <2>. QED
    BY <2>1, <2>2, SegmentSizes DEF SegmenterInv, SegmenterTypeOK, Progress
<1>2. CASE Sample
  <2>1. /\ Heard /\ segment_' = Recorded /\ window_' = window_ + 1 /\ pos' = pos + 1
        /\ UNCHANGED <<speaking_, consecutive_voice_, sentUpTo>>
    BY <1>2, HeardIsLatest DEF Sample
  <2>2. speaking_ => segment_'[1] = segment_[1]
    BY <2>1, RecordedInOrder
  <2>3. pos' - window_' = pos - window_
    BY <1>1, <2>1
  <2>. QED
    BY <2>1, <2>2, <2>3 DEF RepeatsAreShort, CountedIsNew
<1>3. ASSUME NEW silent \in BOOLEAN, NEW p \in Verdicts, Listen(p, silent)
      PROVE  RepeatsAreShort' /\ CountedIsNew'
  <2>1. /\ ~speaking_ /\ ~speaking_' /\ sentUpTo' = sentUpTo /\ window_' = 0 /\ window_ + 1 = kWindow
        /\ pos' = pos + 1
        /\ consecutive_voice_' = IF p = "high" THEN consecutive_voice_ + 1 ELSE 0
    BY <1>3, HeardIsLatest DEF Listen, WindowFull
  <2>2. (consecutive_voice_ + 1) * kWindow = consecutive_voice_ * kWindow + kWindow
    BY <1>1, OneMoreWindow
  <2>3. sentUpTo + consecutive_voice_ * kWindow <= pos - window_
    BY <2>1 DEF CountedIsNew
  <2>4. sentUpTo' + consecutive_voice_' * kWindow <= pos' - window_'
    <3>1. CASE p = "high"
      <4>1. consecutive_voice_' * kWindow = consecutive_voice_ * kWindow + kWindow
        BY <2>1, <2>2, <3>1
      <4>. QED
        BY <1>1, <2>1, <2>3, <4>1
    <3>2. CASE p # "high"
      <4>1. consecutive_voice_' * kWindow = 0
        BY <1>1, <2>1, <3>2
      <4>. QED
        BY <1>1, <2>1, <4>1
    <3>. QED
      BY <3>1, <3>2
  <2>. QED
    BY <2>1, <2>4 DEF RepeatsAreShort, CountedIsNew
<1>4. ASSUME NEW silent \in BOOLEAN, start_segment(silent)
      PROVE  RepeatsAreShort' /\ CountedIsNew'
  <2>1. /\ ~speaking_ /\ speaking_' /\ sentUpTo' = sentUpTo /\ window_ + 1 = kWindow /\ Heard
        /\ consecutive_voice_ + 1 >= kVoiceEnterWindows /\ segment_' = PreRoll
    BY <1>4 DEF start_segment, WindowFull, Agreed, FirstSamples
  <2>2. consecutive_voice_ + 1 = kVoiceEnterWindows
    BY <1>1, <2>1, SegmentSizes DEF SegmenterInv, SegmenterTypeOK
  <2>3. kVoiceEnterWindows * kWindow = consecutive_voice_ * kWindow + kWindow
    BY <1>1, <2>2, OneMoreWindow
  <2>4. sentUpTo + consecutive_voice_ * kWindow <= pos - window_
    BY <2>1 DEF CountedIsNew
  <2>5. /\ PreRollIsLatest' /\ pos' = pos + 1 /\ pos' \in 1..MaxStream
    BY <2>1, HeardIsLatest
  <2>6. /\ Len(PreRoll) = Lesser(pos', kPreRollMs)
        /\ \A i \in 1..Len(PreRoll) : PreRoll[i] = pos' - Len(PreRoll) + i
    BY <2>5, PreRollInOrder
  <2>7. Len(PreRoll) \in 1..pos' /\ Len(PreRoll) <= kPreRollMs /\ kPreRollMs \in Nat
    BY <2>5, <2>6, SegmentSizes DEF Lesser
  <2>8. segment_'[1] = pos' - Len(PreRoll) + 1 /\ segment_'[1] >= pos' - kPreRollMs + 1 /\ segment_'[1] \in Nat
    BY <1>1, <2>1, <2>5, <2>6, <2>7
  <2>9. sentUpTo + 1 - segment_'[1] <= kPreRollMs - (consecutive_voice_ * kWindow + kWindow)
    BY <1>1, <2>1, <2>4, <2>5, <2>7, <2>8
  <2>. QED
    BY <2>1, <2>3, <2>9 DEF RepeatsAreShort, CountedIsNew
<1>5. ASSUME NEW silent \in BOOLEAN, NEW p \in Verdicts, Speak(p, silent)
      PROVE  RepeatsAreShort' /\ CountedIsNew'
  <2>1. speaking_ /\ speaking_' /\ sentUpTo' = sentUpTo /\ segment_' = Recorded /\ Heard
    BY <1>5 DEF Speak, WindowFull
  <2>2. segment_'[1] = segment_[1]
    BY <2>1, RecordedInOrder
  <2>. QED
    BY <2>1, <2>2 DEF RepeatsAreShort, CountedIsNew
<1>6. ASSUME NEW silent \in BOOLEAN, NEW p \in Verdicts, close_segment(p, silent)
      PROVE  RepeatsAreShort' /\ CountedIsNew'
  <2>1. /\ ~speaking_' /\ consecutive_voice_' = 0 /\ window_' = 0 /\ pos' = pos + 1
        /\ sentUpTo' = sentUpTo \/ sentUpTo' = pos'
    BY <1>6, HeardIsLatest DEF close_segment, WindowFull
  <2>2. sentUpTo' \in Nat /\ pos' \in Nat /\ sentUpTo' <= pos'
    BY <1>1, <2>1
  <2>3. sentUpTo' + consecutive_voice_' * kWindow <= pos' - window_'
    <3>1. consecutive_voice_' * kWindow = 0
      BY <1>1, <2>1
    <3>. QED
      BY <2>1, <2>2, <3>1
  <2>. QED
    BY <2>1, <2>3 DEF RepeatsAreShort, CountedIsNew
<1>7. CASE UNCHANGED segmenterVars
  BY <1>7 DEF segmenterVars, RepeatsAreShort, CountedIsNew
<1>. QED
  BY <1>2, <1>3, <1>4, <1>5, <1>6, <1>7 DEF SegmenterNext

\* For any sizes, any verdicts and a stream of any length: what two utterances share is no
\* more than the pre-roll less the windows of voice it takes to begin the second.
THEOREM LittleIsRepeated == SegmenterSpec => []RepeatsAreShort
<1>1. SegmenterInit => RepeatsAreShort /\ CountedIsNew
  <2>1. 0 * kWindow = 0
    BY SegmentSizes
  <2>. QED
    BY <2>1 DEF SegmenterInit, RepeatsAreShort, CountedIsNew
<1>. QED
  BY <1>1, RepeatsStep, SegmenterInvHolds, PTL DEF SegmenterSpec
=============================================================================
