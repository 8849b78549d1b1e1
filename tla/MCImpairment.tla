---------------------------- MODULE MCImpairment ----------------------------
(* The configurations for the runs of Impairment. *)
EXTENDS Impairment

Off == {FALSE}
Any == BOOLEAN

Knobs(loss, duplicate, reorder, corrupt, delay, jitter) ==
    [loss |-> loss, duplicate |-> duplicate, reorder |-> reorder, corrupt |-> corrupt,
     delay |-> delay, jitter |-> jitter]

\* Every discrete knob without latency, a fixed latency, and jitter with and without a base.
LinkConfigs == {Knobs(Any, Any, Any, Any, 0, 0), Knobs(Any, Any, Off, Off, 1, 0),
                Knobs(Any, Off, Any, Off, 1, 0), Knobs(Any, Off, Any, Off, 0, 1),
                Knobs(Off, Any, Off, Off, 1, 1)}

JitteredReorder == {Knobs(Off, Off, Any, Off, 1, 1)}
=============================================================================
