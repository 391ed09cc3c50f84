------------------------------ MODULE Snowflake ------------------------------
(***************************************************************************)
(* The snowflake generator (src/internal/platform/snowflake): NextID of    *)
(* one Generator per process, each with a worker id and a host clock of    *)
(* its own.                                                                *)
(*                                                                         *)
(* NextID holds the generator's mutex from start to end, so a generator    *)
(* serves one call at a time; what interleaves with a call is the clock,   *)
(* which it reads up to three times: at the start, after it slept because  *)
(* the clock was behind, and in the loop that waits for a new millisecond. *)
(* The sleep is measured on the monotonic clock: ticks end it, a clock set *)
(* back does not prolong it.                                               *)
(*                                                                         *)
(* Times count milliseconds from the epoch constant.                       *)
(***************************************************************************)
EXTENDS Integers, Sequences

CONSTANTS
    Generators,   \* one per process
    WorkerID,     \* the worker id each was made with
    MaxWorker,    \* greatest worker id, 2^10 - 1 in the code
    MaxSequence,  \* greatest sequence number, 2^12 - 1 in the code
    MaxTime,      \* bound on the clocks
    MaxIssued     \* bound on the ids one generator issues

ASSUME GeneratorsOK ==
    /\ MaxWorker \in Nat /\ MaxSequence \in Nat
    /\ MaxTime \in Nat /\ MaxIssued \in Nat
    /\ WorkerID \in [Generators -> 0 .. MaxWorker]   \* checked by NewGenerator
    /\ \A g, h \in Generators : WorkerID[g] = WorkerID[h] => g = h

VARIABLES
    gens,    \* the Generator structs
    calls,   \* how far the call that holds each mutex is
    clock,   \* the wall clock of each process
    issued,  \* history: the ids each process returned, in order
    misled   \* history: the processes whose clock was set back unseen

vars == <<gens, calls, clock, issued, misled>>

Generator == [lastTime : Nat \cup {-1}, sequence : 0 .. MaxSequence]

NewGenerator == [lastTime |-> -1, sequence |-> 0]

NoCall == [pc |-> "none"]

Spinning == [pc |-> "spinning"]

CallState == {NoCall, Spinning} \cup [pc : {"asleep"}, left : Nat]

Init ==
    /\ gens = [g \in Generators |-> NewGenerator]
    /\ calls = [g \in Generators |-> NoCall]
    /\ clock = [g \in Generators |-> 0]
    /\ issued = [g \in Generators |-> <<>>]
    /\ misled = {}

-----------------------------------------------------------------------------
\* Shifts and ors of fields that do not overlap.
Pack(time, worker, sequence) ==
    (time * (MaxWorker + 1) + worker) * (MaxSequence + 1) + sequence

\* (sequence + 1) & maxSequence, a mask of ones.
NextSequence_NoMask(sequence) == sequence + 1

NextSequence(sequence) == (sequence + 1) % (MaxSequence + 1)

Return(g, time, sequence) ==
    /\ gens' = [gens EXCEPT ![g] = [lastTime |-> time, sequence |-> sequence]]
    /\ calls' = [calls EXCEPT ![g] = NoCall]
    /\ issued' = [issued EXCEPT ![g] =
                    Append(@, Pack(time, WorkerID[g], sequence))]
    /\ UNCHANGED <<clock, misled>>

\* The body of NextID after its check of the clock: the sequence goes on within
\* a millisecond, starts again in any other, and spins when it is used up.
Take(g, now) ==
    LET gen == gens[g]
        next == NextSequence(gen.sequence)
    IN  \/ now # gen.lastTime /\ Return(g, now, 0)
        \/ now = gen.lastTime /\ next # 0 /\ Return(g, now, next)
        \/ /\ now = gen.lastTime /\ next = 0
           /\ gens' = [gens EXCEPT ![g].sequence = 0]
           /\ calls' = [calls EXCEPT ![g] = Spinning]
           /\ UNCHANGED <<clock, issued, misled>>

ClockIsBehind_Unchecked(g) == FALSE

ClockIsBehind(g) == clock[g] < gens[g].lastTime

NextID(g) ==
    /\ calls[g] = NoCall /\ Len(issued[g]) < MaxIssued
    /\ ~ClockIsBehind(g)
    /\ Take(g, clock[g])

\* The clock moved backwards: sleep for as long as it is behind.
NextIDSleeps(g) ==
    /\ calls[g] = NoCall /\ Len(issued[g]) < MaxIssued
    /\ ClockIsBehind(g)
    /\ calls' = [calls EXCEPT ![g] =
            [pc |-> "asleep", left |-> gens[g].lastTime - clock[g]]]
    /\ UNCHANGED <<gens, clock, issued, misled>>

\* The reading after the sleep is used whatever it says.
Wake(g) ==
    /\ calls[g].pc = "asleep" /\ calls[g].left = 0
    /\ Take(g, clock[g])

SpinOver_SameMillisecond(g) == clock[g] >= gens[g].lastTime

SpinOver(g) == clock[g] > gens[g].lastTime

SpinEnds(g) ==
    /\ calls[g] = Spinning
    /\ SpinOver(g)
    /\ Return(g, clock[g], gens[g].sequence)

-----------------------------------------------------------------------------
Slept(call) ==
    IF call.pc = "asleep" /\ call.left > 0
    THEN [call EXCEPT !.left = call.left - 1] ELSE call

Tick(g) ==
    /\ clock[g] < MaxTime
    /\ clock' = [clock EXCEPT ![g] = @ + 1]
    /\ calls' = [calls EXCEPT ![g] = Slept(calls[g])]
    /\ UNCHANGED <<gens, issued, misled>>

\* The clock is set back.  A generator that sleeps has already measured how far
\* it was behind, and one that has issued nothing since its process started
\* has nothing to compare with.
SetBack(g, time) ==
    /\ time < clock[g]
    /\ clock' = [clock EXCEPT ![g] = time]
    /\ misled' = misled \cup
        (IF calls[g].pc = "asleep" \/ gens[g].lastTime = -1 THEN {g} ELSE {})
    /\ UNCHANGED <<gens, calls, issued>>

\* The process is replaced by one with the same worker id and a new Generator,
\* perhaps before the clock has passed the old one's last id.
Restart(g) ==
    /\ gens' = [gens EXCEPT ![g] = NewGenerator]
    /\ calls' = [calls EXCEPT ![g] = NoCall]
    /\ misled' = misled \cup
        (IF clock[g] <= gens[g].lastTime THEN {g} ELSE {})
    /\ UNCHANGED <<clock, issued>>

Next ==
    \E g \in Generators :
        \/ NextID(g)
        \/ NextIDSleeps(g)
        \/ Wake(g)
        \/ SpinEnds(g)
        \/ Tick(g)
        \/ \E time \in 0 .. MaxTime : SetBack(g, time)
        \/ Restart(g)

Spec == Init /\ [][Next]_vars

-----------------------------------------------------------------------------
\* Every variable stays within its type: above all, the sequence fits its bits.
TypeOK ==
    /\ gens \in [Generators -> Generator]
    /\ calls \in [Generators -> CallState]
    /\ clock \in [Generators -> Nat]
    /\ issued \in [Generators -> Seq(Nat)]
    /\ misled \subseteq Generators

\* The ids of one generator strictly increase, through full milliseconds, clocks
\* set back between calls, and restarts, unless its clock was set back unseen.
IncreasingIds ==
    \A g \in Generators \ misled : \A i, j \in 1 .. Len(issued[g]) :
        i < j => issued[g][i] < issued[g][j]

\* No two processes ever issue the same id, whatever their clocks do: the
\* sequence never spills into the bits of the worker.
WorkersNeverCollide ==
    \A g, h \in Generators :
        \A i \in 1 .. Len(issued[g]), j \in 1 .. Len(issued[h]) :
            issued[g][i] = issued[h][j] => g = h
=============================================================================
