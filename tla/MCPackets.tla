----------------------------- MODULE MCPackets -----------------------------
(* A small instance of Packets for TLC.                                    *)
EXTENDS Packets, TLC

CONSTANTS a, b, m1, m2

\* Ports: 1 and 2 are the ones hit, 9 is a client's own.
Tcp(s, d, source, dest) ==
    [kind |-> "tcp", whole |-> TRUE, src |-> s, dst |-> d, sp |-> source, dp |-> dest,
     mac |-> ZeroMac]

Arp(s, mac) ==
    [kind |-> "arp", whole |-> TRUE, src |-> s, dst |-> b, sp |-> 9, dp |-> 9, mac |-> mac]

Plain(kind, whole) ==
    [kind |-> kind, whole |-> whole, src |-> b, dst |-> a, sp |-> 9, dp |-> 1, mac |-> ZeroMac]

MCFrames ==
    {Tcp(a, b, 9, 1), Tcp(a, b, 9, 2), Tcp(b, a, 1, 9),
     Arp(a, m1), Arp(a, m2), Arp(a, ZeroMac),
     Plain("udp", TRUE), Plain("icmp", FALSE), Plain("otherEther", TRUE)}

Ask(protocol, port, host, save) ==
    [protocol |-> protocol, port |-> port, host |-> host, save |-> save]

MCRequests ==
    {Ask(Unset, Unset, Unset, FALSE), Ask("tcp", 1, Unset, TRUE), Ask("all", Unset, a, FALSE)}

\* The two MACs are interchangeable.
Symmetry == Permutations({m1, m2})
=============================================================================
