---------------------------- MODULE MCPipeline ----------------------------
(* Values of the constants for the runs of Pipeline. *)
EXTENDS Pipeline

AllNodes == 1 .. NodeCount

Off == {FALSE}
Any == BOOLEAN

Knobs(loss, duplicate, reorder, corrupt, delay, jitter) ==
    [loss |-> loss, duplicate |-> duplicate, reorder |-> reorder, corrupt |-> corrupt,
     delay |-> delay, jitter |-> jitter]

\* A perfect link without and with latency, one that loses and reorders, one that corrupts, one
\* that corrupts and doubles, one that doubles and reorders, one with a jittered latency.
LinkConfigs == {Knobs(Off, Off, Off, Off, 0, 0), Knobs(Off, Off, Off, Off, 2, 0),
                Knobs(Any, Off, Any, Off, 0, 0), Knobs(Off, Off, Off, Any, 0, 0),
                Knobs(Off, {TRUE}, Off, Any, 0, 0), Knobs(Off, {TRUE}, Any, Off, 0, 0),
                Knobs(Any, Off, Off, Off, 0, 1)}
=============================================================================
