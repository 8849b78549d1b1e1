---------------------------- MODULE MCClockSync ----------------------------
(* Values of the constants for the runs of ClockSync. *)
EXTENDS ClockSync

Run(program, nodes, jitter, blocks, heartbeat_every) ==
    [program |-> program, nodes |-> nodes, jitter |-> jitter, blocks |-> blocks,
     heartbeat_every |-> heartbeat_every]

\* Jitter so large that a packet may come after the next one is due, two nodes whose packets
\* come in turns, no jitter at all; a lossy link with and without heartbeats.
SomeSetups ==
    {Run("clocksync", 1, 2, 4, 0), Run("clocksync", 2, 2, 3, 0), Run("clocksync", 2, 0, 4, 0),
     Run("slice", 1, 0, 3, 0), Run("slice", 1, 0, 2, 1), Run("slice", 2, 0, 2, 0)}

\* A slice with heartbeats, for the run that refutes a comment.
Beacons == {Run("slice", 1, 0, 2, 1)}

\* One node's clock is fast, the other's slow.
Drifting == <<4, 2>>
=============================================================================
