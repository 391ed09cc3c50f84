--------------------------- MODULE SnowflakeProofs ---------------------------
(***************************************************************************)
(* Proofs about Snowflake for any number of processes, any widths of the   *)
(* worker and sequence fields, and clocks that move in any way.            *)
(*                                                                         *)
(* That ids increase is not inductive: what keeps the next id above all    *)
(* earlier ones is the pair (lastTime, sequence), which a restart forgets, *)
(* and a sleep that outlasts the set-back.  Below bounds the ids issued so *)
(* far in each of the generator's states; SleepsEnough relates the sleep   *)
(* to the clock.                                                           *)
(***************************************************************************)
EXTENDS Snowflake, TLAPS

\* Every id of g is below this one.
Below(g, bound) == \A i \in 1 .. Len(issued[g]) : issued[g][i] < bound

BoundOf(g) ==
    IF gens[g].lastTime = -1 THEN Pack(clock[g], WorkerID[g], 0)
    ELSE IF calls[g] = Spinning THEN Pack(gens[g].lastTime + 1, WorkerID[g], 0)
    ELSE Pack(gens[g].lastTime, WorkerID[g], gens[g].sequence) + 1

SleepsEnough(g) ==
    calls[g].pc = "asleep" => clock[g] + calls[g].left >= gens[g].lastTime

\* A call waits only on a generator that has issued before.  The sequence that
\* is returned after the wait for a new millisecond is 0.
WaitsOK ==
    \A g \in Generators :
        /\ calls[g] # NoCall => gens[g].lastTime # -1
        /\ calls[g] = Spinning => gens[g].sequence = 0

Shape ==
    \A g \in Generators : \A i \in 1 .. Len(issued[g]) :
        \E time \in Nat, sequence \in 0 .. MaxSequence :
            issued[g][i] = Pack(time, WorkerID[g], sequence)

Sound == \A g \in Generators \ misled : Below(g, BoundOf(g)) /\ SleepsEnough(g)

IInv == TypeOK /\ WaitsOK /\ Shape /\ Sound /\ IncreasingIds

-----------------------------------------------------------------------------
\* The higher digit decides, in any base.
LEMMA Digits ==
    ASSUME NEW a \in Nat, NEW b \in Nat, a < b, NEW B \in Nat, NEW x \in 0 .. B,
           NEW y \in Nat
    PROVE  a * (B + 1) + x < b * (B + 1) + y
  <1>1. PICK c \in Nat : b = a + 1 + c
    <2>1. b - a - 1 \in Nat /\ b = a + 1 + (b - a - 1)
      OBVIOUS
    <2> QED BY <2>1
  <1>2. b * (B + 1) = a * (B + 1) + (B + 1) + c * (B + 1)
    BY <1>1
  <1>3. c * (B + 1) \in Nat /\ a * (B + 1) \in Nat /\ b * (B + 1) \in Nat
    OBVIOUS
  <1> QED BY <1>2, <1>3

LEMMA PackIsNat ==
    ASSUME NEW t \in Nat, NEW w \in 0 .. MaxWorker, NEW s \in 0 .. MaxSequence
    PROVE  Pack(t, w, s) \in Nat
  <1>1. t * (MaxWorker + 1) \in Nat
    BY GeneratorsOK
  <1>2. t * (MaxWorker + 1) + w \in Nat
    BY <1>1, GeneratorsOK
  <1> DEFINE high == t * (MaxWorker + 1) + w
  <1> HIDE DEF high
  <1>3. high * (MaxSequence + 1) \in Nat
    BY <1>2, GeneratorsOK DEF high
  <1> QED BY <1>3, GeneratorsOK DEF Pack, high

\* Ids are ordered by their time first.
LEMMA PackByTime ==
    ASSUME NEW t \in Nat, NEW u \in Nat, t < u,
           NEW w \in 0 .. MaxWorker, NEW v \in 0 .. MaxWorker,
           NEW r \in 0 .. MaxSequence, NEW s \in 0 .. MaxSequence
    PROVE  Pack(t, w, r) < Pack(u, v, s)
  <1> DEFINE a == t * (MaxWorker + 1) + w
             b == u * (MaxWorker + 1) + v
  <1>1. a < b
    BY Digits, GeneratorsOK
  <1>2. a \in Nat /\ b \in Nat
    <2>1. t * (MaxWorker + 1) \in Nat /\ u * (MaxWorker + 1) \in Nat
      BY GeneratorsOK
    <2> QED BY <2>1, GeneratorsOK
  <1> HIDE DEF a, b
  <1>3. a * (MaxSequence + 1) + r < b * (MaxSequence + 1) + s
    BY <1>1, <1>2, Digits, GeneratorsOK
  <1> QED BY <1>3 DEF Pack, a, b

\* Within a millisecond and a worker, ids are ordered by their sequence.
LEMMA PackBySequence ==
    ASSUME NEW t \in Nat, NEW w \in 0 .. MaxWorker,
           NEW r \in 0 .. MaxSequence, NEW s \in 0 .. MaxSequence, r < s
    PROVE  Pack(t, w, r) + 1 <= Pack(t, w, s)
  <1> DEFINE a == (t * (MaxWorker + 1) + w) * (MaxSequence + 1)
  <1>1. a \in Int
    BY PackIsNat, GeneratorsOK DEF Pack
  <1> QED BY <1>1, GeneratorsOK DEF Pack

\* The worker can be read off an id.
LEMMA PackHasWorker ==
    ASSUME NEW t \in Nat, NEW u \in Nat,
           NEW w \in 0 .. MaxWorker, NEW v \in 0 .. MaxWorker,
           NEW r \in 0 .. MaxSequence, NEW s \in 0 .. MaxSequence,
           Pack(t, w, r) = Pack(u, v, s)
    PROVE  w = v
  <1>1. Pack(t, w, r) \in Nat /\ Pack(u, v, s) \in Nat
    BY PackIsNat
  <1>2. t = u
    BY <1>1, PackByTime
  <1> DEFINE base == t * (MaxWorker + 1)
             a == base + w
             b == base + v
  <1>3. base \in Nat
    BY GeneratorsOK
  <1> HIDE DEF base
  <1>4. a \in Nat /\ b \in Nat
    BY <1>3, GeneratorsOK
  <1>5. a * (MaxSequence + 1) + r = b * (MaxSequence + 1) + s
    BY <1>2 DEF Pack, base
  <1> HIDE DEF a, b
  <1>6. ~(a < b) /\ ~(b < a)
    <2>1. a * (MaxSequence + 1) \in Nat /\ b * (MaxSequence + 1) \in Nat
      BY <1>4, GeneratorsOK
    <2> QED BY <1>4, <1>5, <2>1, Digits, GeneratorsOK
  <1>7. a = b
    BY <1>4, <1>6
  <1> QED BY <1>3, <1>7, GeneratorsOK DEF a, b

\* The mask lets the sequence count up to its greatest value and back to 0.
LEMMA NextSequenceIs ==
    ASSUME NEW s \in 0 .. MaxSequence
    PROVE  /\ NextSequence(s) \in 0 .. MaxSequence
           /\ NextSequence(s) # 0 => s < NextSequence(s)
  <1>1. CASE s = MaxSequence
    BY <1>1, GeneratorsOK DEF NextSequence
  <1>2. CASE s # MaxSequence
    <2>1. NextSequence(s) = s + 1
      BY <1>2, GeneratorsOK DEF NextSequence
    <2> QED BY <1>2, <2>1, GeneratorsOK
  <1> QED BY <1>1, <1>2

-----------------------------------------------------------------------------
LEMMA InitIInv == Init => IInv
  <1> SUFFICES ASSUME Init PROVE IInv
    OBVIOUS
  <1>1. TypeOK
    BY GeneratorsOK
       DEF Init, TypeOK, Generator, NewGenerator, CallState
  <1>2. \A g \in Generators : Len(issued[g]) = 0 /\ calls[g] = NoCall
    BY DEF Init
  <1>3. WaitsOK /\ Shape /\ IncreasingIds
    BY <1>2 DEF WaitsOK, Shape, IncreasingIds, NoCall, Spinning
  <1>4. \A g \in Generators : SleepsEnough(g)
    BY <1>2 DEF SleepsEnough, NoCall
  <1>5. ASSUME NEW g \in Generators, NEW bound PROVE Below(g, bound)
    BY <1>2 DEF Below
  <1>6. Sound
    BY <1>4, <1>5 DEF Sound
  <1> QED BY <1>1, <1>3, <1>6 DEF IInv

\* What a generator that did not move knows stays true.
LEMMA Frame ==
    ASSUME NEW g \in Generators,
           gens'[g] = gens[g], calls'[g] = calls[g], clock'[g] = clock[g],
           issued'[g] = issued[g]
    PROVE  /\ Below(g, BoundOf(g)) => Below(g, BoundOf(g))'
           /\ SleepsEnough(g) => SleepsEnough(g)'
  BY DEF Below, BoundOf, SleepsEnough, Pack

\* Returning an id above all the earlier ones keeps the invariant.
LEMMA ReturnKeepsIInv ==
    ASSUME IInv, NEW g \in Generators, NEW time \in Nat,
           NEW sequence \in 0 .. MaxSequence, Return(g, time, sequence),
           g \notin misled => Below(g, Pack(time, WorkerID[g], sequence))
    PROVE  IInv'
  <1> DEFINE id == Pack(time, WorkerID[g], sequence)
  <1>1. id \in Nat /\ WorkerID[g] \in 0 .. MaxWorker
    BY PackIsNat, GeneratorsOK
  <1>10. g \notin misled => Below(g, id)
    OBVIOUS
  <1>2. /\ gens'[g] = [lastTime |-> time, sequence |-> sequence]
        /\ calls'[g] = NoCall
        /\ issued'[g] = Append(issued[g], id)
        /\ issued[g] \in Seq(Nat)
        /\ \A h \in Generators \ {g} : /\ gens'[h] = gens[h]
                                       /\ calls'[h] = calls[h]
                                       /\ issued'[h] = issued[h]
        /\ clock' = clock /\ misled' = misled
    BY DEF Return, IInv, TypeOK
  <1> HIDE DEF id
  <1>3. /\ Len(issued'[g]) = Len(issued[g]) + 1
        /\ issued'[g][Len(issued[g]) + 1] = id
        /\ \A i \in 1 .. Len(issued[g]) : issued'[g][i] = issued[g][i]
        /\ \A i \in 1 .. Len(issued'[g]) :
                i \in 1 .. Len(issued[g]) \/ i = Len(issued[g]) + 1
        /\ Len(issued[g]) \in Nat
        /\ \A i \in 1 .. Len(issued[g]) : issued[g][i] \in Nat
    <2>1. Len(issued'[g]) = Len(issued[g]) + 1 /\ Len(issued[g]) \in Nat
      BY <1>1, <1>2
    <2>2. issued'[g][Len(issued[g]) + 1] = id
      BY <1>1, <1>2
    <2>3. \A i \in 1 .. Len(issued[g]) :
            issued'[g][i] = issued[g][i] /\ issued[g][i] \in Nat
      <3> DEFINE s == issued[g]
      <3>1. s \in Seq(Nat) /\ id \in Nat
        BY <1>1, <1>2
      <3>2. issued'[g] = Append(s, id)
        BY <1>2
      <3> HIDE DEF s
      <3>3. \A i \in 1 .. Len(s) : Append(s, id)[i] = s[i] /\ s[i] \in Nat
        BY <3>1
      <3> QED BY <3>2, <3>3 DEF s
    <2>4. \A i \in 1 .. Len(issued'[g]) :
            i \in 1 .. Len(issued[g]) \/ i = Len(issued[g]) + 1
      BY <2>1
    <2> QED BY <2>1, <2>2, <2>3, <2>4
  <1>4. TypeOK'
    <2>1. [lastTime |-> time, sequence |-> sequence] \in Generator
      BY DEF Generator
    <2>2. Append(issued[g], id) \in Seq(Nat)
      BY <1>1, <1>2
    <2> QED BY <2>1, <2>2 DEF Return, IInv, TypeOK, CallState, id
  <1>5. WaitsOK'
    BY <1>2 DEF IInv, WaitsOK, NoCall, Spinning
  <1>6. Shape'
    <2> DEFINE Shaped(h) ==
            \A i \in 1 .. Len(issued'[h]) :
                \E t \in Nat, s \in 0 .. MaxSequence :
                    issued'[h][i] = Pack(t, WorkerID[h], s)
    <2>1. Shaped(g)
      BY <1>3 DEF IInv, Shape, id
    <2>2. ASSUME NEW h \in Generators \ {g} PROVE Shaped(h)
      <3>1. issued'[h] = issued[h]
        BY <1>2
      <3> QED BY <3>1 DEF IInv, Shape
    <2>3. Shape' <=> \A h \in Generators : Shaped(h)
      BY DEF Shape, Pack
    <2> HIDE DEF Shaped
    <2> QED BY <2>1, <2>2, <2>3
  <1>7. ASSUME g \notin misled PROVE Below(g, BoundOf(g))' /\ SleepsEnough(g)'
    <2>1. BoundOf(g)' = id + 1
      BY <1>2 DEF BoundOf, NoCall, Spinning, id, Pack
    <2>2. Below(g, BoundOf(g))'
      <3>1. \A i \in 1 .. Len(issued[g]) : issued[g][i] < id
        <4>1. Below(g, id)
          BY <1>7, <1>10
        <4> QED BY <4>1 DEF Below
      <3>2. ASSUME NEW i \in 1 .. Len(issued'[g]) PROVE issued'[g][i] < id + 1
        <4>1. CASE i \in 1 .. Len(issued[g])
          <5>1. issued'[g][i] \in Nat /\ issued'[g][i] < id
            BY <1>3, <3>1, <4>1
          <5> QED BY <1>1, <5>1
        <4>2. CASE i = Len(issued[g]) + 1
          BY <1>1, <1>3, <4>2
        <4> QED BY <1>3, <4>1, <4>2
      <3> QED BY <2>1, <3>2 DEF Below
    <2> QED BY <1>2, <2>2 DEF SleepsEnough, NoCall
  <1>8. Sound'
    BY <1>2, <1>7, Frame DEF IInv, Sound
  <1>9. IncreasingIds'
    <2>1. ASSUME g \notin misled, NEW i \in 1 .. Len(issued'[g]),
                 NEW j \in 1 .. Len(issued'[g]), i < j
          PROVE  issued'[g][i] < issued'[g][j]
      <3>1. Below(g, id)
        BY <1>10, <2>1
      <3>2. i \in 1 .. Len(issued[g])
        BY <1>3, <2>1
      <3>3. CASE j \in 1 .. Len(issued[g])
        BY <1>3, <2>1, <3>2, <3>3 DEF IInv, IncreasingIds
      <3>4. CASE j = Len(issued[g]) + 1
        BY <1>3, <3>1, <3>2, <3>4 DEF Below
      <3> QED BY <1>3, <3>3, <3>4
    <2> QED BY <1>2, <2>1 DEF IInv, IncreasingIds
  <1> QED BY <1>4, <1>5, <1>6, <1>8, <1>9 DEF IInv

\* The body of NextID, with a reading that is not behind unless g was misled.
LEMMA TakeKeepsIInv ==
    ASSUME IInv, NEW g \in Generators, Take(g, clock[g]), calls[g] # Spinning,
           g \notin misled => clock[g] >= gens[g].lastTime
    PROVE  IInv'
  <1> DEFINE last == gens[g].lastTime
             seq == gens[g].sequence
             W == WorkerID[g]
  <1>1. /\ clock[g] \in Nat /\ last \in Nat \cup {-1}
        /\ seq \in 0 .. MaxSequence /\ W \in 0 .. MaxWorker
        /\ 0 \in 0 .. MaxSequence /\ MaxSequence \in Nat
    BY GeneratorsOK DEF IInv, TypeOK, Generator
  <1>2. \A i \in 1 .. Len(issued[g]) : issued[g][i] \in Nat
    BY DEF IInv, TypeOK
  <1>3. CASE clock[g] # last /\ Return(g, clock[g], 0)
    <2>1. ASSUME g \notin misled PROVE Below(g, Pack(clock[g], W, 0))
      <3>1. Below(g, BoundOf(g))
        BY <2>1 DEF IInv, Sound
      <3>2. CASE last = -1
        BY <3>1, <3>2 DEF BoundOf
      <3>3. CASE last # -1
        <4>1. last \in Nat /\ last < clock[g]
          BY <1>1, <1>3, <2>1, <3>3
        <4>2. CASE calls[g] = Spinning
          <5>1. last + 1 < clock[g] \/ last + 1 = clock[g]
            BY <1>1, <4>1
          <5>2. /\ Pack(last + 1, W, 0) \in Nat /\ Pack(clock[g], W, 0) \in Nat
                /\ Pack(last + 1, W, 0) <= Pack(clock[g], W, 0)
            <6>1. Pack(last + 1, W, 0) \in Nat /\ Pack(clock[g], W, 0) \in Nat
              BY <1>1, <4>1, PackIsNat
            <6>2. CASE last + 1 < clock[g]
              BY <1>1, <4>1, <6>1, <6>2, PackByTime
            <6> QED BY <5>1, <6>1, <6>2
          <5>3. BoundOf(g) = Pack(last + 1, W, 0)
            BY <3>3, <4>2 DEF BoundOf
          <5> QED BY <1>2, <3>1, <5>2, <5>3 DEF Below
        <4>3. CASE calls[g] # Spinning
          <5>1. /\ Pack(last, W, seq) \in Nat /\ Pack(clock[g], W, 0) \in Nat
                /\ Pack(last, W, seq) < Pack(clock[g], W, 0)
            BY <1>1, <4>1, PackIsNat, PackByTime
          <5>2. BoundOf(g) = Pack(last, W, seq) + 1
            BY <3>3, <4>3 DEF BoundOf
          <5> QED BY <1>2, <3>1, <5>1, <5>2 DEF Below
        <4> QED BY <4>2, <4>3
      <3> QED BY <3>2, <3>3
    <2> QED BY <1>1, <1>3, <2>1, ReturnKeepsIInv
  <1> DEFINE next == NextSequence(seq)
  <1>4. next \in 0 .. MaxSequence /\ (next # 0 => seq < next)
    BY <1>1, NextSequenceIs
  <1> HIDE DEF next
  <1>5. CASE clock[g] = last /\ next # 0 /\ Return(g, clock[g], next)
    <2>1. ASSUME g \notin misled PROVE Below(g, Pack(clock[g], W, next))
      <3>1. /\ Below(g, BoundOf(g))
            /\ BoundOf(g) = Pack(last, W, seq) + 1
        BY <1>1, <1>5, <2>1 DEF IInv, Sound, BoundOf
      <3>2. /\ Pack(last, W, seq) \in Nat /\ Pack(last, W, next) \in Nat
            /\ Pack(last, W, seq) + 1 <= Pack(last, W, next)
        BY <1>1, <1>4, <1>5, PackIsNat, PackBySequence
      <3> QED BY <1>2, <1>5, <3>1, <3>2 DEF Below
    <2> QED BY <1>1, <1>4, <1>5, <2>1, ReturnKeepsIInv
  <1>6. CASE /\ clock[g] = last /\ next = 0
             /\ gens' = [gens EXCEPT ![g].sequence = 0]
             /\ calls' = [calls EXCEPT ![g] = Spinning]
             /\ UNCHANGED <<clock, issued, misled>>
    <2>1. /\ gens'[g] = [gens[g] EXCEPT !.sequence = 0]
          /\ calls'[g] = Spinning
          /\ \A h \in Generators \ {g} : gens'[h] = gens[h] /\ calls'[h] = calls[h]
      BY <1>6 DEF IInv, TypeOK
    <2>2. gens'[g].lastTime = last /\ gens'[g].sequence = 0 /\ last \in Nat
      BY <1>1, <1>6, <2>1 DEF IInv, TypeOK, Generator
    <2>3. TypeOK'
      BY <1>1, <1>6 DEF IInv, TypeOK, Generator, CallState
    <2>4. WaitsOK'
      <3>1. gens'[g].lastTime # -1 /\ gens'[g].sequence = 0
        BY <2>2
      <3> QED BY <2>1, <3>1 DEF IInv, WaitsOK
    <2>5. Shape' /\ IncreasingIds'
      BY <1>6 DEF IInv, Shape, IncreasingIds, Pack
    <2>6. ASSUME g \notin misled PROVE Below(g, BoundOf(g))' /\ SleepsEnough(g)'
      <3>1. BoundOf(g)' = Pack(last + 1, W, 0)
        BY <1>1, <2>1, <2>2 DEF BoundOf, Pack
      <3>2. Below(g, BoundOf(g))
        BY <2>6 DEF IInv, Sound
      <3>3. /\ Pack(last, W, seq) \in Nat /\ Pack(last + 1, W, 0) \in Nat
            /\ Pack(last, W, seq) < Pack(last + 1, W, 0)
        <4>1. last \in Nat /\ last + 1 \in Nat /\ last < last + 1
          BY <2>2
        <4>2. Pack(last, W, seq) \in Nat /\ Pack(last + 1, W, 0) \in Nat
          BY <1>1, <4>1, PackIsNat
        <4> QED BY <1>1, <4>1, <4>2, PackByTime
      <3>4. BoundOf(g) <= Pack(last + 1, W, 0) /\ BoundOf(g) \in Nat
        BY <2>2, <3>3 DEF BoundOf
      <3>5. Below(g, BoundOf(g))'
        BY <1>2, <1>6, <3>1, <3>2, <3>3, <3>4 DEF Below
      <3> QED BY <2>1, <3>5 DEF SleepsEnough, Spinning
    <2>7. Sound'
      BY <1>6, <2>1, <2>6, Frame DEF IInv, Sound
    <2> QED BY <2>3, <2>4, <2>5, <2>7 DEF IInv
  <1> QED BY <1>3, <1>5, <1>6 DEF Take, next

LEMMA SleepKeepsIInv ==
    ASSUME IInv, NEW g \in Generators, NextIDSleeps(g) PROVE IInv'
  <1> DEFINE last == gens[g].lastTime
             call == [pc |-> "asleep", left |-> last - clock[g]]
  <1>1. /\ clock[g] \in Nat /\ last \in Nat \cup {-1} /\ clock[g] < last
        /\ calls[g] = NoCall
    BY DEF IInv, TypeOK, Generator, NextIDSleeps, ClockIsBehind
  <1>2. last \in Nat /\ last - clock[g] \in Nat
    BY <1>1
  <1>3. /\ calls' = [calls EXCEPT ![g] = call]
        /\ UNCHANGED <<gens, clock, issued, misled>>
    BY DEF NextIDSleeps
  <1>4. /\ calls'[g] = call
        /\ \A h \in Generators \ {g} : calls'[h] = calls[h]
    BY <1>3 DEF IInv, TypeOK
  <1>5. call \in CallState /\ call # Spinning
    BY <1>2 DEF CallState, Spinning
  <1>6. TypeOK'
    BY <1>3, <1>5 DEF IInv, TypeOK
  <1>7. WaitsOK'
    <2>1. last # -1
      BY <1>2
    <2> QED BY <1>3, <1>4, <1>5, <2>1 DEF IInv, WaitsOK
  <1>8. Shape' /\ IncreasingIds'
    BY <1>3 DEF IInv, Shape, IncreasingIds, Pack
  <1>9. ASSUME g \notin misled PROVE Below(g, BoundOf(g))' /\ SleepsEnough(g)'
    <2>1. Below(g, BoundOf(g))
      BY <1>9 DEF IInv, Sound
    <2>2. BoundOf(g)' = BoundOf(g)
      BY <1>1, <1>3, <1>4, <1>5 DEF BoundOf, Pack, NoCall, Spinning
    <2>3. Below(g, BoundOf(g))'
      BY <1>3, <2>1, <2>2 DEF Below
    <2>4. clock[g] + (last - clock[g]) >= last
      BY <1>1
    <2> QED BY <1>3, <1>4, <2>3, <2>4 DEF SleepsEnough
  <1>10. Sound'
    BY <1>3, <1>4, <1>9, Frame DEF IInv, Sound
  <1> QED BY <1>6, <1>7, <1>8, <1>10 DEF IInv

LEMMA WakeKeepsIInv ==
    ASSUME IInv, NEW g \in Generators, Wake(g) PROVE IInv'
  <1>1. calls[g].pc = "asleep" /\ calls[g].left = 0
    BY DEF Wake
  <1>2. calls[g] # Spinning
    BY <1>1 DEF Spinning
  <1>3. g \notin misled => clock[g] >= gens[g].lastTime
    <2>1. clock[g] \in Nat
      BY DEF IInv, TypeOK
    <2> QED BY <1>1, <2>1 DEF IInv, Sound, SleepsEnough
  <1> QED BY <1>2, <1>3, TakeKeepsIInv DEF Wake

LEMMA SpinEndsKeepsIInv ==
    ASSUME IInv, NEW g \in Generators, SpinEnds(g) PROVE IInv'
  <1> DEFINE last == gens[g].lastTime
             W == WorkerID[g]
  <1>1. /\ calls[g] = Spinning /\ calls[g] # NoCall /\ last < clock[g]
        /\ Return(g, clock[g], gens[g].sequence)
    BY DEF SpinEnds, SpinOver, Spinning, NoCall
  <1>2. /\ clock[g] \in Nat /\ last \in Nat /\ gens[g].sequence = 0
        /\ 0 \in 0 .. MaxSequence /\ W \in 0 .. MaxWorker
    <2>1. last \in Nat \cup {-1}
      BY DEF IInv, TypeOK, Generator
    <2> QED BY <1>1, <2>1, GeneratorsOK DEF IInv, TypeOK, WaitsOK
  <1>3. last + 1 \in Nat
    BY <1>2
  <1>4. ASSUME g \notin misled PROVE Below(g, Pack(clock[g], W, 0))
    <2>1. Below(g, Pack(last + 1, W, 0))
      BY <1>1, <1>2, <1>4 DEF IInv, Sound, BoundOf
    <2>2. Pack(last + 1, W, 0) <= Pack(clock[g], W, 0)
      <3>1. Pack(last + 1, W, 0) \in Nat /\ Pack(clock[g], W, 0) \in Nat
        BY <1>2, <1>3, PackIsNat
      <3>2. last + 1 < clock[g] \/ last + 1 = clock[g]
        BY <1>1, <1>2
      <3>3. CASE last + 1 < clock[g]
        BY <1>2, <1>3, <3>1, <3>3, PackByTime
      <3> QED BY <3>1, <3>2, <3>3
    <2>3. Pack(last + 1, W, 0) \in Nat /\ Pack(clock[g], W, 0) \in Nat
      BY <1>2, <1>3, PackIsNat
    <2>4. \A i \in 1 .. Len(issued[g]) : issued[g][i] \in Nat
      BY DEF IInv, TypeOK
    <2> QED BY <2>1, <2>2, <2>3, <2>4 DEF Below
  <1> QED BY <1>1, <1>2, <1>4, ReturnKeepsIInv

\* A tick shortens a sleep and changes no other call.
LEMMA SleptCall ==
    ASSUME NEW c \in CallState
    PROVE  /\ Slept(c) \in CallState
           /\ (Slept(c) = Spinning) = (c = Spinning)
           /\ Slept(c) # NoCall => c # NoCall
           /\ Slept(c).pc = "asleep" =>
                /\ c.pc = "asleep" /\ c.left \in Nat
                /\ Slept(c).left \in {c.left, c.left - 1}
  <1>1. CASE c \in {NoCall, Spinning}
    <2>1. Slept(c) = c /\ c.pc # "asleep"
      BY <1>1 DEF Slept, NoCall, Spinning
    <2> QED BY <2>1
  <1>2. CASE c \in [pc : {"asleep"}, left : Nat]
    <2>1. /\ Slept(c) \in [pc : {"asleep"}, left : Nat]
          /\ Slept(c).left \in {c.left, c.left - 1}
      BY <1>2 DEF Slept
    <2>2. \A d \in [pc : {"asleep"}, left : Nat] : d # NoCall /\ d # Spinning
      BY DEF NoCall, Spinning
    <2> QED BY <1>2, <2>1, <2>2 DEF CallState
  <1> QED BY <1>1, <1>2 DEF CallState

\* The steps of the world: they issue nothing and leave the struct as it is.
LEMMA ClockKeepsIInv ==
    ASSUME IInv, NEW g \in Generators,
           Tick(g) \/ \E time \in 0 .. MaxTime : SetBack(g, time)
    PROVE  IInv'
  <1>1. /\ gens' = gens /\ issued' = issued /\ misled \subseteq misled'
        /\ clock'[g] \in Nat /\ clock' = [clock EXCEPT ![g] = clock'[g]]
        /\ \A h \in Generators \ {g} : clock'[h] = clock[h] /\ calls'[h] = calls[h]
    BY DEF IInv, TypeOK, Tick, SetBack
  <1>2. /\ calls'[g] \in CallState
        /\ (calls'[g] = Spinning) = (calls[g] = Spinning)
        /\ calls'[g] # NoCall => calls[g] # NoCall
    <2>1. calls[g] \in CallState
      BY DEF IInv, TypeOK
    <2>2. calls'[g] \in {calls[g], Slept(calls[g])}
      BY DEF IInv, TypeOK, Tick, SetBack
    <2> QED BY <2>1, <2>2, SleptCall
  <1>3. TypeOK'
    <2>1. clock' \in [Generators -> Nat]
      BY <1>1 DEF IInv, TypeOK
    <2>2. calls' \in [Generators -> CallState]
      <3>1. calls' = [calls EXCEPT ![g] = Slept(calls[g])] \/ calls' = calls
        BY DEF Tick, SetBack
      <3> QED BY <1>2, <3>1 DEF IInv, TypeOK
    <2>3. misled' \subseteq Generators
      BY DEF IInv, TypeOK, Tick, SetBack
    <2> QED BY <1>1, <2>1, <2>2, <2>3 DEF IInv, TypeOK
  <1>4. WaitsOK'
    BY <1>1, <1>2 DEF IInv, WaitsOK
  <1>5. Shape' /\ IncreasingIds'
    BY <1>1 DEF IInv, Shape, IncreasingIds, Pack
  <1>6. ASSUME g \notin misled' PROVE Below(g, BoundOf(g))' /\ SleepsEnough(g)'
    <2>1. Below(g, BoundOf(g)) /\ SleepsEnough(g)
      BY <1>1, <1>6 DEF IInv, Sound
    <2>2. Below(g, BoundOf(g))'
      <3>1. CASE gens[g].lastTime # -1
        BY <1>1, <1>2, <2>1, <3>1 DEF Below, BoundOf, Pack
      <3>2. CASE gens[g].lastTime = -1
        <4>1. clock[g] < clock'[g] /\ clock[g] \in Nat
          BY <1>6, <3>2 DEF IInv, TypeOK, Tick, SetBack
        <4>2. WorkerID[g] \in 0 .. MaxWorker /\ 0 \in 0 .. MaxSequence
          BY GeneratorsOK
        <4>3. /\ Pack(clock[g], WorkerID[g], 0) \in Nat
              /\ Pack(clock'[g], WorkerID[g], 0) \in Nat
              /\ Pack(clock[g], WorkerID[g], 0) < Pack(clock'[g], WorkerID[g], 0)
          BY <1>1, <4>1, <4>2, PackIsNat, PackByTime
        <4>4. /\ BoundOf(g) = Pack(clock[g], WorkerID[g], 0)
              /\ BoundOf(g)' = Pack(clock'[g], WorkerID[g], 0)
          BY <1>1, <3>2 DEF BoundOf, Pack
        <4>5. \A i \in 1 .. Len(issued[g]) : issued[g][i] \in Nat
          BY DEF IInv, TypeOK
        <4> QED BY <1>1, <2>1, <4>3, <4>4, <4>5 DEF Below
      <3> QED BY <3>1, <3>2
    <2>3. SleepsEnough(g)'
      <3>1. CASE Tick(g)
        <4>1. clock'[g] = clock[g] + 1 /\ clock[g] \in Nat
          BY <3>1 DEF Tick, IInv, TypeOK
        <4>2. gens[g].lastTime \in Nat \cup {-1}
          BY DEF IInv, TypeOK, Generator
        <4>3. calls'[g].pc = "asleep" =>
                /\ calls[g].pc = "asleep" /\ calls[g].left \in Nat
                /\ calls'[g].left \in {calls[g].left, calls[g].left - 1}
          <5>1. calls'[g] = Slept(calls[g]) /\ calls[g] \in CallState
            BY <3>1 DEF Tick, IInv, TypeOK
          <5> QED BY <5>1, SleptCall
        <4> QED BY <1>1, <2>1, <4>1, <4>2, <4>3 DEF SleepsEnough
      <3>2. CASE \E time \in 0 .. MaxTime : SetBack(g, time)
        BY <1>6, <3>2 DEF SetBack, SleepsEnough, IInv, TypeOK
      <3> QED BY <3>1, <3>2
    <2> QED BY <2>2, <2>3
  <1>7. Sound'
    BY <1>1, <1>6, Frame DEF IInv, Sound
  <1> QED BY <1>3, <1>4, <1>5, <1>7 DEF IInv

LEMMA RestartKeepsIInv ==
    ASSUME IInv, NEW g \in Generators, Restart(g) PROVE IInv'
  <1>1. /\ gens'[g] = NewGenerator /\ calls'[g] = NoCall
        /\ issued' = issued /\ clock' = clock /\ misled \subseteq misled'
        /\ \A h \in Generators \ {g} : gens'[h] = gens[h] /\ calls'[h] = calls[h]
    BY DEF IInv, TypeOK, Restart
  <1>2. TypeOK'
    <2>1. NewGenerator \in Generator
      BY GeneratorsOK DEF Generator, NewGenerator
    <2> QED BY <2>1 DEF IInv, TypeOK, CallState, Restart
  <1>3. WaitsOK'
    BY <1>1 DEF IInv, WaitsOK, NoCall, Spinning
  <1>4. Shape' /\ IncreasingIds'
    BY <1>1 DEF IInv, Shape, IncreasingIds, Pack
  <1>5. ASSUME g \notin misled' PROVE Below(g, BoundOf(g))' /\ SleepsEnough(g)'
    <2> DEFINE last == gens[g].lastTime
               W == WorkerID[g]
    <2>1. Below(g, BoundOf(g))
      BY <1>1, <1>5 DEF IInv, Sound
    <2>2. /\ last \in Nat \cup {-1} /\ clock[g] \in Nat /\ W \in 0 .. MaxWorker
          /\ gens[g].sequence \in 0 .. MaxSequence /\ 0 \in 0 .. MaxSequence
          /\ \A i \in 1 .. Len(issued[g]) : issued[g][i] \in Nat
      BY GeneratorsOK DEF IInv, TypeOK, Generator
    <2>3. last < clock[g]
      BY <1>5, <2>2 DEF Restart
    <2>4. BoundOf(g)' = Pack(clock[g], W, 0)
      BY <1>1 DEF BoundOf, NewGenerator, Pack
    <2>5. Below(g, Pack(clock[g], W, 0))
      <3>1. CASE last = -1
        BY <2>1, <3>1 DEF BoundOf
      <3>2. CASE last # -1
        <4>1. last \in Nat /\ last + 1 \in Nat
          <5>1. last \in Nat
            BY <2>2, <3>2
          <5> QED BY <5>1
        <4>2. CASE calls[g] = Spinning
          <5>1. /\ Pack(last + 1, W, 0) \in Nat /\ Pack(clock[g], W, 0) \in Nat
            BY <2>2, <4>1, PackIsNat
          <5>2. last + 1 < clock[g] \/ last + 1 = clock[g]
            BY <2>2, <2>3, <4>1
          <5>3. Pack(last + 1, W, 0) <= Pack(clock[g], W, 0)
            <6>1. CASE last + 1 < clock[g]
              BY <2>2, <4>1, <5>1, <6>1, PackByTime
            <6> QED BY <5>1, <5>2, <6>1
          <5>4. BoundOf(g) = Pack(last + 1, W, 0)
            BY <3>2, <4>2 DEF BoundOf
          <5> QED BY <2>1, <2>2, <5>1, <5>3, <5>4 DEF Below
        <4>3. CASE calls[g] # Spinning
          <5>1. /\ Pack(last, W, gens[g].sequence) \in Nat
                /\ Pack(clock[g], W, 0) \in Nat
                /\ Pack(last, W, gens[g].sequence) < Pack(clock[g], W, 0)
            BY <2>2, <2>3, <4>1, PackIsNat, PackByTime
          <5>2. BoundOf(g) = Pack(last, W, gens[g].sequence) + 1
            BY <3>2, <4>3 DEF BoundOf
          <5> QED BY <2>1, <2>2, <5>1, <5>2 DEF Below
        <4> QED BY <4>2, <4>3
      <3> QED BY <3>1, <3>2
    <2>6. Below(g, BoundOf(g))'
      BY <1>1, <2>4, <2>5 DEF Below
    <2> QED BY <1>1, <2>6 DEF SleepsEnough, NoCall
  <1>6. Sound'
    BY <1>1, <1>5, Frame DEF IInv, Sound
  <1> QED BY <1>2, <1>3, <1>4, <1>6 DEF IInv

LEMMA NextIInv == IInv /\ [Next]_vars => IInv'
  <1> SUFFICES ASSUME IInv, [Next]_vars PROVE IInv'
    OBVIOUS
  <1>1. ASSUME NEW g \in Generators, NextID(g) PROVE IInv'
    <2>1. calls[g] # Spinning
      BY <1>1 DEF NextID, NoCall, Spinning
    <2>2. clock[g] >= gens[g].lastTime
      <3>1. clock[g] \in Nat /\ gens[g].lastTime \in Nat \cup {-1}
        BY DEF IInv, TypeOK, Generator
      <3> QED BY <1>1, <3>1 DEF NextID, ClockIsBehind
    <2> QED BY <1>1, <2>1, <2>2, TakeKeepsIInv DEF NextID
  <1>2. CASE UNCHANGED vars
    <2>1. TypeOK' /\ WaitsOK' /\ Shape' /\ IncreasingIds'
      BY <1>2 DEF vars, IInv, TypeOK, WaitsOK, Shape, IncreasingIds, Pack
    <2>2. Sound'
      BY <1>2, Frame DEF vars, IInv, Sound
    <2> QED BY <2>1, <2>2 DEF IInv
  <1> QED BY <1>1, <1>2, SleepKeepsIInv, WakeKeepsIInv, SpinEndsKeepsIInv,
             ClockKeepsIInv, RestartKeepsIInv DEF Next

\* The invariant holds in every reachable state of the generators.
THEOREM Invariance == Spec => []IInv
  BY InitIInv, NextIInv, PTL DEF Spec

\* Type correctness: above all, the sequence always fits its bits.
THEOREM TypeCorrect == Spec => []TypeOK
  BY Invariance, PTL DEF IInv

\* The ids of a process increase through full milliseconds, clocks set back
\* between calls, and restarts, unless its clock was set back unseen.
THEOREM IncreasingCorrect == Spec => []IncreasingIds
  BY Invariance, PTL DEF IInv

\* Processes with different worker ids never issue the same id, whatever their
\* clocks do.
THEOREM WorkersCorrect == Spec => []WorkersNeverCollide
  <1>1. IInv => WorkersNeverCollide
    <2>1. ASSUME IInv, NEW g \in Generators, NEW h \in Generators,
                 NEW i \in 1 .. Len(issued[g]), NEW j \in 1 .. Len(issued[h]),
                 issued[g][i] = issued[h][j]
          PROVE  g = h
      <3>1. PICK t \in Nat, r \in 0 .. MaxSequence :
              issued[g][i] = Pack(t, WorkerID[g], r)
        BY <2>1 DEF IInv, Shape
      <3>2. PICK u \in Nat, s \in 0 .. MaxSequence :
              issued[h][j] = Pack(u, WorkerID[h], s)
        BY <2>1 DEF IInv, Shape
      <3>3. WorkerID[g] = WorkerID[h]
        <4>1. WorkerID[g] \in 0 .. MaxWorker /\ WorkerID[h] \in 0 .. MaxWorker
          BY GeneratorsOK
        <4>2. Pack(t, WorkerID[g], r) = Pack(u, WorkerID[h], s)
          BY <2>1, <3>1, <3>2
        <4> QED BY <4>1, <4>2, PackHasWorker
      <3> QED BY <3>3, GeneratorsOK
    <2> QED BY <2>1 DEF WorkersNeverCollide
  <1> QED BY <1>1, Invariance, PTL
=============================================================================
