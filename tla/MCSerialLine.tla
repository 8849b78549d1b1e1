---------------------------- MODULE MCSerialLine ----------------------------
(* Values of the constants for the runs of SerialLine. *)
EXTENDS SerialLine

\* A frame whose samples look like a sync word, and one without samples.
TwoPackets == <<
    [msg_type |-> SampleBlock, ident |-> 0, channel_count |-> 2, sample_count |-> 1,
     samples |-> <<4, 3>>],
    [msg_type |-> Heartbeat, ident |-> 1, channel_count |-> 0, sample_count |-> 0,
     samples |-> <<>>]>>

\* Plain noise, half a sync word, a sync word, and the starts of two false headers: the
\* rest of each is read from the frame behind it.
NoiseBursts == {<<0>>, <<4>>, <<4, 3>>, <<4, 3, 1, 1>>, <<4, 3, 1, 2>>}
=============================================================================
