---------------------------- MODULE MCPortScan ----------------------------
(* A small instance of PortScan for TLC: addresses of four bits, the last two of *)
(* which are the last octet.                                                     *)
EXTENDS PortScan

Cidr(base, prefix) == [kind |-> "cidr", base |-> base, prefix |-> prefix]
FromTo(first, last) == [kind |-> "range", first |-> first, last |-> last]
FromToOctet(first, last) == [kind |-> "octet", first |-> first, last |-> last]

\* A block with its network and broadcast addresses, one without, a single one; what
\* is too large or malformed; ranges in both notations, one of them backwards.
MCTargets ==
    {Cidr(6, 2), Cidr(7, 3), Cidr(0, 4), Cidr(0, 1), Cidr(0, 5),
     FromTo(3, 5), FromTo(2, 1), FromTo(1, 14), FromToOctet(5, 3), FromToOctet(6, 0),
     [kind |-> "single", first |-> 15], [kind |-> "junk"]}

Everything == FromTo(0, 2^Bits - 1)

\* parse_ip_range is right about every input but one: it returns exactly the addresses
\* the input stands for, refuses what stands for none or too many of them, and never
\* returns more than MAX_HOSTS, except for the range of all addresses, whose size
\* wraps to zero.
ASSUME ParseIsDenoted ==
    \A input \in {i \in UNION {{Cidr(b, p) : b \in Address, p \in 0..(Bits + 1)},
                               {FromTo(f, l) : f \in Address, l \in Address},
                               {FromToOctet(f, l) : f \in Address, l \in 0..(2^OctetBits - 1)}} :
                     i # Everything} :
        LET range == ParseRange(input)
        IN  /\ range.ok => /\ range.first..range.last = Denoted(input)
                           /\ Cardinality(Denoted(input)) \in 1..MaxHosts
            /\ ~range.ok => \/ Denoted(input) = {}
                            \/ Cardinality(Denoted(input)) > MaxHosts
                            \/ input.kind = "cidr" /\ Bits - input.prefix > MaxHostBits

ASSUME EverythingIsAccepted == ParseRange(Everything).ok
=============================================================================
