------------------------------ MODULE UdpLink ------------------------------
(***************************************************************************)
(* UdpTransport (daq_sim/transports/udp_transport.py) and the kernel       *)
(* behind its two sockets: a datagram is under way for a while, then waits *)
(* in the receive buffer, or is dropped without notice when that is full.  *)
(* Loopback keeps the order.                                               *)
(***************************************************************************)
EXTENDS Naturals, Sequences

CONSTANT Capacity           \* datagrams the receive buffer holds

ASSUME CapacityAssumption == Capacity \in Nat \ {0}

VARIABLES
    flight,                 \* datagrams under way
    rcvbuf,                 \* datagrams in the receive buffer
    overflowed              \* history: datagrams dropped

udpVars == <<flight, rcvbuf, overflowed>>

UdpInit == flight = <<>> /\ rcvbuf = <<>> /\ overflowed = 0

UdpSend(datagram) ==
    /\ flight' = Append(flight, datagram)
    /\ UNCHANGED <<rcvbuf, overflowed>>

\* The kernel, at any moment.
Arrive ==
    /\ flight # <<>>
    /\ flight' = Tail(flight)
    /\ IF Len(rcvbuf) < Capacity
       THEN rcvbuf' = Append(rcvbuf, Head(flight)) /\ UNCHANGED overflowed
       ELSE overflowed' = overflowed + 1 /\ UNCHANGED rcvbuf

\* recv: one datagram; BlockingIOError when there is none.
UdpRecv(datagram) ==
    /\ rcvbuf # <<>> /\ datagram = Head(rcvbuf)
    /\ rcvbuf' = Tail(rcvbuf)
    /\ UNCHANGED <<flight, overflowed>>

\* close, or the process is gone.
UdpClose == flight' = <<>> /\ rcvbuf' = <<>> /\ UNCHANGED overflowed
=============================================================================
