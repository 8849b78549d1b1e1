----------------------------- MODULE MCCapture -----------------------------
(* Values of the constants for the run of Capture. *)
EXTENDS Capture

\* Two nodes: `ident` is the sequence number of node 1 or 2, interleaved.
NodeOfIdent(ident) == 1 + (ident % 2)
SeqNoOfIdent(ident) == ident \div 2

Block(ident, channels, samples) ==
    [msg_type |-> SampleBlock, ident |-> ident, channel_count |-> channels,
     sample_count |-> Len(samples) \div channels, samples |-> samples]
Beacon(ident) == [msg_type |-> Heartbeat, ident |-> ident, channel_count |-> 0,
                  sample_count |-> 0, samples |-> <<>>]

\* Node 1 sends a block in either round, node 2 a block and a heartbeat.
Script == << <<Block(0, 2, <<4, 3>>), Block(1, 1, <<1>>)>>,
             <<Block(2, 2, <<0, 1>>), Beacon(3)>>,
             <<>> >>
=============================================================================
