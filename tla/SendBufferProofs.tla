-------------------------- MODULE SendBufferProofs --------------------------
(***************************************************************************)
(* What the operations of SendBuffer return, for every buffer and size of  *)
(* batch.  The proofs about the three drivers cite these lemmas.           *)
(***************************************************************************)
EXTENDS SendBuffer, SequenceTheorems, TLAPS

(* Facts about sequences. *)
LEMMA SeqOfElements ==
    ASSUME NEW S, NEW T, NEW s \in Seq(S), \A i \in 1..Len(s) : s[i] \in T
    PROVE  s \in Seq(T)
  OBVIOUS

LEMMA TailBounds ==
    ASSUME NEW S, NEW s \in Seq(S), s # << >>
    PROVE  Tail(s) \in Seq(S) /\ Len(Tail(s)) < Len(s) /\ Head(s) \in S
  BY EmptySeq, HeadTailProperties, LenProperties

(* STAGE_DECLARE leaves a suffix of the buffer. *)
LEMMA DeclareIsSuffix ==
    ASSUME NEW S, NEW buffer \in Seq(S), NEW n \in Nat
    PROVE  LET left == Declare(buffer, n) IN
           /\ left \in Seq(S)
           /\ Len(left) <= Len(buffer)
           /\ \A i \in 1..Len(left) : left[i] = buffer[Len(buffer) - Len(left) + i]
  <1>1. CASE Len(buffer) - n <= 0
    BY <1>1 DEF Declare
  <1>2. CASE ~(Len(buffer) - n <= 0)
    <2> DEFINE left == SubSeq(buffer, n + 1, Len(buffer))
    <2>1. Declare(buffer, n) = left
      BY <1>2 DEF Declare
    <2>2. /\ left \in Seq(S) /\ Len(left) = Len(buffer) - n
          /\ \A i \in 1..Len(left) : left[i] = buffer[n + i]
      BY <1>2, SubSeqProperties, Z3
    <2>3. Len(buffer) - Len(left) = n
      BY <2>2
    <2> HIDE DEF left
    <2>4. QED
      BY <2>1, <2>2, <2>3
  <1>3. QED
    BY <1>1, <1>2

(* A batch is no longer than one AT+QISEND may announce. *)
LEMMA BatchSizeBounded ==
    ASSUME NEW S, NEW buffer \in Seq(S)
    PROVE  BatchSize(buffer) \in 0..GSM_MAX_BYTES_SEND
  BY BufferAssumption DEF BatchSize

(* What send() appends: the next units. *)
LEMMA NextUnits ==
    ASSUME NEW a \in Nat, NEW n \in Nat, NEW m \in Nat, a + n <= m,
           NEW data, data = [i \in 1..n |-> a + i]
    PROVE  data \in Seq(1..m) /\ Len(data) = n /\ \A i \in 1..n : data[i] = a + i
  <1>1. \A i \in 1..n : a + i \in 1..m
    OBVIOUS
  <1>2. data \in [1..n -> 1..m]
    BY <1>1
  <1>3. data \in Seq(1..m)
    BY <1>2
  <1>4. Len(data) = n
    BY <1>2, <1>3, LenProperties
  <1>5. QED
    BY <1>3, <1>4

-----------------------------------------------------------------------------
(* The way of the units from a batch to the peer, which takes them one by one. *)

(* Units sent in their turn: each one behind all the earlier ones, but for    *)
(* those that are not to come any more.                                      *)
InTurn(units, gone) ==
    \A i \in 1..Len(units) : \A u \in 1..(units[i] - 1) :
        u \in gone \/ \E j \in 1..(i - 1) : units[j] = u

(* The batches on their way to the chip, the units the chip took, and the     *)
(* units that have arrived: nothing overtakes, nothing is left out.           *)
Flight(batches, taken, arrived, gone) ==
    /\ \A b \in batches : InTurn(b, gone)
    /\ InTurn(taken, arrived \cup gone)
    /\ \A t \in arrived : 1..(t - 1) \subseteq arrived \cup gone

(* A batch taken behind the units that are already flying. *)
LEMMA AppendInTurn ==
    ASSUME NEW taken \in Seq(Nat), NEW batch \in Seq(Nat), NEW arrived, NEW gone,
           InTurn(taken, arrived \cup gone), InTurn(batch, gone)
    PROVE  InTurn(taken \o batch, arrived \cup gone)
  <1> DEFINE all == taken \o batch
             n == Len(taken)
  <1>1. /\ n \in Nat /\ Len(batch) \in Nat /\ Len(all) = n + Len(batch)
        /\ \A i \in 1..(n + Len(batch)) : all[i] = IF i <= n THEN taken[i] ELSE batch[i - n]
    BY ConcatProperties, LenProperties
  <1> HIDE DEF all, n
  <1>2. SUFFICES ASSUME NEW i \in 1..Len(all), NEW u \in 1..(all[i] - 1), u \notin arrived \cup gone
                 PROVE  \E j \in 1..(i - 1) : all[j] = u
    BY DEF InTurn, all
  <1>3. CASE i <= n
    <2>1. i \in 1..n /\ all[i] = taken[i]
      BY <1>1, <1>3
    <2>2. PICK j \in 1..(i - 1) : taken[j] = u
      BY <1>2, <2>1 DEF InTurn, n
    <2>3. all[j] = taken[j]
      BY <1>1, <1>3, <2>1
    <2>4. QED
      BY <2>2, <2>3
  <1>4. CASE i > n
    <2>1. i - n \in 1..Len(batch) /\ all[i] = batch[i - n]
      BY <1>1, <1>4
    <2>2. PICK j \in 1..(i - n - 1) : batch[j] = u
      BY <1>2, <2>1 DEF InTurn
    <2>3. j + n \in 1..(i - 1) /\ all[j + n] = batch[j]
      <3>1. j + n \in 1..(n + Len(batch)) /\ ~(j + n <= n) /\ (j + n) - n = j
        BY <1>1, <1>4, <2>1
      <3>2. j + n \in 1..(i - 1)
        BY <1>1, <1>4, <2>1
      <3>3. QED
        BY <1>1, <3>1, <3>2
    <2>4. QED
      BY <2>2, <2>3
  <1>5. QED
    BY <1>1, <1>3, <1>4

(* The first unit that flies has nothing before it, and makes way.            *)
LEMMA FirstInTurn ==
    ASSUME NEW taken \in Seq(Nat), taken # << >>, NEW past, InTurn(taken, past)
    PROVE  /\ Head(taken) \in Nat /\ 1..(Head(taken) - 1) \subseteq past
           /\ Tail(taken) \in Seq(Nat) /\ InTurn(Tail(taken), past \cup {Head(taken)})
  <1>1. /\ Len(taken) \in Nat \ {0} /\ Head(taken) = taken[1] /\ Head(taken) \in Nat
        /\ Tail(taken) \in Seq(Nat) /\ Len(Tail(taken)) = Len(taken) - 1
        /\ \A i \in 1..Len(Tail(taken)) : Tail(taken)[i] = taken[i + 1]
    BY EmptySeq, HeadTailProperties
  <1>2. 1..(Head(taken) - 1) \subseteq past
    BY <1>1 DEF InTurn
  <1>3. ASSUME NEW i \in 1..Len(Tail(taken)), NEW u \in 1..(Tail(taken)[i] - 1),
               u \notin past \cup {Head(taken)}
        PROVE  \E j \in 1..(i - 1) : Tail(taken)[j] = u
    <2>1. i + 1 \in 1..Len(taken) /\ u \in 1..(taken[i + 1] - 1)
      BY <1>1
    <2>2. PICK j \in 1..i : taken[j] = u
      <3>1. \E j \in 1..((i + 1) - 1) : taken[j] = u
        BY <1>3, <2>1 DEF InTurn
      <3>2. (i + 1) - 1 = i
        BY <1>1
      <3>3. QED
        BY <3>1, <3>2
    <2>3. j # 1
      BY <1>1, <1>3, <2>2
    <2>4. j - 1 \in 1..(i - 1) /\ j - 1 \in 1..Len(Tail(taken)) /\ (j - 1) + 1 = j
      BY <1>1, <2>3
    <2>5. QED
      BY <1>1, <2>2, <2>4
  <1>4. InTurn(Tail(taken), past \cup {Head(taken)})
    BY <1>3 DEF InTurn
  <1>5. QED
    BY <1>1, <1>2, <1>4

(* More units that have arrived or are not to come change nothing.            *)
LEMMA InTurnStays ==
    ASSUME NEW units, NEW past, NEW more, past \subseteq more, InTurn(units, past)
    PROVE  InTurn(units, more)
  BY DEF InTurn

(* A batch of the oldest units that wait. *)
LEMMA BatchInTurn ==
    ASSUME NEW buffer \in Seq(Nat), NEW g \in Nat, NEW n \in 0..Len(buffer),
           \A i \in 1..Len(buffer) : buffer[i] = g + i
    PROVE  /\ Batch(buffer, n) \in Seq(Nat) /\ InTurn(Batch(buffer, n), 1..g)
           /\ \A i \in 1..Len(Batch(buffer, n)) :
                  i \in 1..Len(buffer) /\ Batch(buffer, n)[i] = buffer[i]
  <1> DEFINE batch == Batch(buffer, n)
  <1>1. Len(buffer) \in Nat
    BY LenProperties
  <1>2. /\ batch \in Seq(Nat) /\ Len(batch) = n
        /\ \A i \in 1..n : batch[i] = buffer[i]
    <2>1. \A i \in 1..n : buffer[i] \in Nat
      BY <1>1, ElementOfSeq
    <2>2. /\ SubSeq(buffer, 1, n) \in Seq(Nat)
          /\ Len(SubSeq(buffer, 1, n)) = IF 1 <= n THEN n - 1 + 1 ELSE 0
          /\ \A i \in 1..(n - 1 + 1) : SubSeq(buffer, 1, n)[i] = buffer[1 + i - 1]
      BY <1>1, <2>1, SubSeqProperties
    <2>3. n - 1 + 1 = n /\ \A i \in 1..n : 1 + i - 1 = i
      BY <1>1
    <2>4. QED
      BY <1>1, <2>2, <2>3 DEF Batch
  <1> HIDE DEF batch
  <1>3. ASSUME NEW i \in 1..n, NEW u \in 1..(batch[i] - 1), u \notin 1..g
        PROVE  \E j \in 1..(i - 1) : batch[j] = u
    <2>1. batch[i] = g + i
      <3>1. i \in 1..Len(buffer) /\ batch[i] = buffer[i]
        BY <1>1, <1>2
      <3>2. QED
        BY <3>1
    <2>2. u - g \in 1..(i - 1) /\ u - g \in 1..n /\ u - g \in 1..Len(buffer) /\ g + (u - g) = u
      BY <1>1, <1>3, <2>1
    <2>3. batch[u - g] = u
      BY <1>2, <2>2
    <2>4. QED
      BY <2>2, <2>3
  <1>4. InTurn(batch, 1..g)
    BY <1>2, <1>3 DEF InTurn
  <1>5. \A i \in 1..Len(batch) : i \in 1..Len(buffer) /\ batch[i] = buffer[i]
    BY <1>1, <1>2
  <1>6. QED
    BY <1>2, <1>4, <1>5 DEF batch

(* What may happen on the way: batches are sent or get lost, the chip takes   *)
(* one, everything it took gets lost, or a unit arrives.                      *)
LEMMA FlightGoesOn ==
    ASSUME NEW batches, NEW taken \in Seq(Nat), NEW arrived, NEW gone,
           \A b \in batches : b \in Seq(Nat),
           Flight(batches, taken, arrived, gone),
           NEW batches1, NEW taken1, NEW arrived1, NEW gone1, gone \subseteq gone1,
           \A b \in batches1 : b \in batches \/ InTurn(b, gone1),
           \/ taken1 \in {taken, << >>} /\ arrived1 = arrived
           \/ arrived1 = arrived /\ \E b \in batches : taken1 = taken \o b
           \/ taken # << >> /\ taken1 = Tail(taken) /\ arrived1 = arrived \cup {Head(taken)}
    PROVE  Flight(batches1, taken1, arrived1, gone1)
  <1>1. \A b \in batches1 : InTurn(b, gone1)
    BY InTurnStays DEF Flight
  <1>2. InTurn(taken, arrived \cup gone1)
    BY InTurnStays DEF Flight
  <1>3. CASE taken1 \in {taken, << >>} /\ arrived1 = arrived
    <2>1. InTurn(<< >>, arrived \cup gone1)
      BY EmptySeq DEF InTurn
    <2>2. InTurn(taken1, arrived1 \cup gone1)
      BY <1>2, <1>3, <2>1
    <2>3. QED
      BY <1>1, <1>3, <2>2 DEF Flight
  <1>4. CASE arrived1 = arrived /\ \E b \in batches : taken1 = taken \o b
    <2>1. PICK b \in batches : taken1 = taken \o b
      BY <1>4
    <2>2. b \in Seq(Nat) /\ InTurn(b, gone1)
      BY InTurnStays DEF Flight
    <2>3. InTurn(taken1, arrived \cup gone1)
      BY <1>2, <2>1, <2>2, AppendInTurn
    <2>4. QED
      BY <1>1, <1>4, <2>3 DEF Flight
  <1>5. CASE taken # << >> /\ taken1 = Tail(taken) /\ arrived1 = arrived \cup {Head(taken)}
    <2>1. /\ 1..(Head(taken) - 1) \subseteq arrived \cup gone1
          /\ InTurn(Tail(taken), (arrived \cup gone1) \cup {Head(taken)})
      BY <1>2, <1>5, FirstInTurn
    <2>2. (arrived \cup gone1) \cup {Head(taken)} = arrived1 \cup gone1
      BY <1>5
    <2>3. \A t \in arrived1 : 1..(t - 1) \subseteq arrived1 \cup gone1
      BY <1>5, <2>1 DEF Flight
    <2>4. QED
      BY <1>1, <1>5, <2>1, <2>2, <2>3 DEF Flight
  <1>6. QED
    BY <1>3, <1>4, <1>5
=============================================================================
