---------------------------- MODULE TargetRange ----------------------------
(***************************************************************************)
(* Portofino's parse_ip_range (Portofino/src/main.rs) from the point where *)
(* the parts of the input have been parsed: which addresses a CIDR block,  *)
(* a range or a single address stands for, in the arithmetic of unsigned   *)
(* integers of Bits bits, and what is refused.                             *)
(***************************************************************************)
EXTENDS Naturals

CONSTANTS Bits,         \* of an address: 32
          OctetBits,    \* of the last octet: 8
          MaxHostBits,  \* of the largest CIDR block: 16
          MaxHosts      \* MAX_HOSTS

ASSUME RangeAssumption ==
    /\ Bits \in Nat /\ OctetBits \in 0..Bits
    /\ MaxHostBits \in 0..Bits
    /\ MaxHosts \in Nat

\* What arithmetic says of the powers of two below, for the provers, which know no
\* exponentiation: TLC evaluates it on every instance.
ASSUME PowersOfTwo ==
    \A h \in 0..Bits : 2^h \in Nat /\ 2^h > h /\ 2^Bits % 2^h = 0

Address == 0..(2^Bits - 1)

\* What the user may write; "junk" stands for whatever does not parse.
Input ==
    [kind : {"cidr"}, base : Address, prefix : Nat]
    \cup [kind : {"range"}, first : Address, last : Address]
    \cup [kind : {"octet"}, first : Address, last : 0..(2^OctetBits - 1)]
    \cup [kind : {"single"}, first : Address]
    \cup [kind : {"junk"}]

Refused == [ok |-> FALSE]
Span(first, last) == [ok |-> TRUE, first |-> first, last |-> last]

\* base & mask and network | !mask, for a mask with its low hostBits bits clear.
Network(base, hostBits) == base - (base % 2^hostBits)
Broadcast(base, hostBits) == Network(base, hostBits) + 2^hostBits - 1

ParseCidr(base, prefix) ==
    LET hostBits == Bits - prefix
    IN  IF prefix > Bits \/ hostBits > MaxHostBits THEN Refused
        ELSE IF hostBits >= 2
        THEN Span(Network(base, hostBits) + 1, Broadcast(base, hostBits) - 1)
        ELSE Span(Network(base, hostBits), Broadcast(base, hostBits))

\* end - start + 1 is computed in Bits bits (a release build; a debug build panics
\* where this wraps).
ParseSpan(first, last) ==
    IF last < first \/ (last - first + 1) % 2^Bits > MaxHosts THEN Refused
    ELSE Span(first, last)

ParseRange(input) ==
    CASE input.kind = "cidr" -> ParseCidr(input.base, input.prefix)
      [] input.kind = "range" -> ParseSpan(input.first, input.last)
      [] input.kind = "octet" ->
             ParseSpan(input.first, Network(input.first, OctetBits) + input.last)
      [] input.kind = "single" -> Span(input.first, input.first)
      [] input.kind = "junk" -> Refused

-----------------------------------------------------------------------------
(* What an input means, for the properties.                                *)

\* The addresses that agree with base in all but the low hostBits bits.
Block(base, hostBits) == {a \in Address : a \div 2^hostBits = base \div 2^hostBits}

\* "Network and broadcast addresses are excluded from CIDR blocks of /30 or larger":
\* the ones with the smallest and the largest host part.
Denoted(input) ==
    CASE input.kind = "cidr" /\ input.prefix <= Bits ->
             LET hostBits == Bits - input.prefix
             IN  {a \in Block(input.base, hostBits) :
                     hostBits >= 2 => a % 2^hostBits \notin {0, 2^hostBits - 1}}
      [] input.kind = "range" -> input.first..input.last
      [] input.kind = "octet" ->
             {a \in Block(input.first, OctetBits) :
                 a >= input.first /\ a % 2^OctetBits <= input.last}
      [] input.kind = "single" -> {input.first}
      [] OTHER -> {}
=============================================================================
