----------------------------- MODULE MCScenario -----------------------------
(* Values of the constants for the runs of Scenario. *)
EXTENDS Scenario

Never == 1000

Link(kind, loss, duplicate, reorder, jitter, rounding, packets) ==
    [kind |-> kind, loss |-> loss, duplicate |-> duplicate, reorder |-> reorder,
     jitter |-> jitter, rounding |-> rounding, bursts |-> {},
     stuck |-> [node |-> 0, at |-> Never, from |-> Never],
     nodes |-> [i \in 1 .. Len(packets) |-> [packets |-> packets[i], period |-> 12]]]

Burst(at, duration, late) ==
    [at |-> at, duration |-> duration, from |-> at, until |-> at + duration + late, loss |-> 2]
Stuck(n, at) == [node |-> n, at |-> at, from |-> at]

\* A period is four microseconds, each of three fractions.
SomeScenarios ==
    LET faulty == [Link("udp", 0, 1, 0, 0, 0, <<3, 5>>) EXCEPT
                     !.bursts = {Burst(12, 24, 0)}, !.stuck = Stuck(2, 13)]
    IN  {Link("udp", 1, 1, 1, 0, 0, <<4>>),         \* every knob but jitter
         Link("udp", 1, 0, 1, 0, 0, <<2, 3>>),
         Link("udp", 0, 0, 1, 0, 1, <<4>>),         \* rounding breaks ties
         Link("udp", 1, 1, 1, 3, 0, <<2, 2>>),      \* jitter, held back and doubled
         Link("serial", 0, 1, 1, 2, 0, <<3>>),      \* jitter of half a period
         Link("serial", 1, 0, 1, 3, 0, <<4>>),      \* and of more
         faulty, [faulty EXCEPT !.loss = 1],
         [Link("udp", 0, 0, 0, 0, 1, <<5>>) EXCEPT  \* faults begin and end as packets are sent
             !.bursts = {Burst(12, 12, 1), Burst(18, 6, -1)}, !.stuck = Stuck(1, 36)]}

\* For the run that refutes a comment.
HeldAndNot == {Link("udp", 0, 0, 1, 0, 0, <<2>>)}
=============================================================================
