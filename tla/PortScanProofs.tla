--------------------------- MODULE PortScanProofs ---------------------------
(***************************************************************************)
(* Proofs about PortScan, for every set of targets, number of ports and    *)
(* number of threads: TypeOK, AtMostOnce, ProgressIsHonest, ReportIsExact, *)
(* and that parse_ip_range is right about every input it accepts.          *)
(***************************************************************************)
EXTENDS PortScan, FiniteSetTheorems, TLAPS

-----------------------------------------------------------------------------
(* The addresses and the indices.                                          *)

\* The block of an address does not leave the address space.
LEMMA BlockIsInside ==
  ASSUME NEW base \in Address, NEW hostBits \in 0..Bits
  PROVE  /\ Network(base, hostBits) \in Address
         /\ Broadcast(base, hostBits) \in Address
         /\ Network(base, hostBits) <= base
         /\ Broadcast(base, hostBits) = Network(base, hostBits) + 2^hostBits - 1
         /\ 2^hostBits \in Nat /\ 2^hostBits > hostBits
<1> DEFINE size == 2^hostBits
           all == 2^Bits
<1>1. size \in Nat /\ size > hostBits /\ size > 0 /\ all \in Nat /\ all % size = 0
  BY PowersOfTwo, RangeAssumption
<1>2. base \in Nat /\ base < all
  BY <1>1 DEF Address
<1> DEFINE q == base \div size
           k == all \div size
<1> HIDE DEF size, all
<1>3. q \in Nat /\ k \in Nat /\ base = size * q + (base % size) /\ all = size * k
      /\ base % size \in 0..(size - 1)
  BY <1>1, <1>2
<1> HIDE DEF q, k
<1>4. q + 1 <= k
  <2>1. SUFFICES ASSUME k <= q PROVE FALSE
    BY <1>3
  <2>2. size * k <= size * q
    BY <1>1, <1>3, <2>1
  <2> QED
    BY <1>1, <1>2, <1>3, <2>2
<1>5. size * (q + 1) <= size * k
  BY <1>1, <1>3, <1>4
<1>6. size * (q + 1) = size * q + size
  BY <1>1, <1>3
<1>7. base - (base % size) = size * q /\ size * q \in Nat
  BY <1>1, <1>2, <1>3
<1>8. base - (base % size) + size - 1 < all
  BY <1>1, <1>2, <1>3, <1>5, <1>6, <1>7
<1> QED
  BY <1>1, <1>2, <1>3, <1>7, <1>8 DEF size, all, Network, Broadcast, Address

\* What parse_ip_range returns is a nonempty interval of addresses.
LEMMA RangeIsInside ==
  ASSUME NEW input \in Input, ParseRange(input).ok
  PROVE  /\ ParseRange(input).first \in Address
         /\ ParseRange(input).last \in Address
         /\ ParseRange(input).first <= ParseRange(input).last
<1>a. Address \subseteq Int
  BY PowersOfTwo, RangeAssumption DEF Address
<1>b. ASSUME NEW first \in Address, NEW last \in Address, ParseSpan(first, last).ok
      PROVE  /\ ParseSpan(first, last).first \in Address
             /\ ParseSpan(first, last).last \in Address
             /\ ParseSpan(first, last).first <= ParseSpan(first, last).last
  BY <1>a, <1>b DEF ParseSpan, Refused, Span
<1>1. CASE input \in [kind : {"cidr"}, base : Address, prefix : Nat]
  <2> DEFINE hostBits == Bits - input.prefix
  <2>1. ParseCidr(input.base, input.prefix).ok /\ ParseRange(input) = ParseCidr(input.base, input.prefix)
    BY <1>1 DEF ParseRange
  <2>2. hostBits \in 0..Bits
    BY <1>1, <2>1, RangeAssumption DEF ParseCidr, Refused
  <2> HIDE DEF hostBits
  <2>3. ParseCidr(input.base, input.prefix) =
          IF hostBits >= 2
          THEN Span(Network(input.base, hostBits) + 1, Broadcast(input.base, hostBits) - 1)
          ELSE Span(Network(input.base, hostBits), Broadcast(input.base, hostBits))
    BY <2>1 DEF ParseCidr, Refused, hostBits
  <2>4. input.base \in Address
    BY <1>1
  <2> DEFINE low == Network(input.base, hostBits)
             high == Broadcast(input.base, hostBits)
  <2>a. /\ low \in Address /\ high \in Address
        /\ high = low + 2^hostBits - 1
        /\ 2^hostBits \in Nat /\ 2^hostBits > hostBits
    BY <2>2, <2>4, BlockIsInside
  <2>b. hostBits \in Nat /\ low \in Nat /\ high \in Nat /\ high < 2^Bits /\ 2^Bits \in Nat
    BY <2>2, <2>a, PowersOfTwo, RangeAssumption DEF Address
  <2> HIDE DEF low, high
  <2>5. CASE hostBits >= 2
    <3>1. low + 1 <= high - 1
      BY <2>5, <2>a, <2>b
    <3>2. low + 1 \in Address /\ high - 1 \in Address
      BY <2>b, <3>1 DEF Address
    <3> QED
      BY <2>1, <2>3, <2>5, <3>1, <3>2 DEF Span, low, high
  <2>6. CASE ~(hostBits >= 2)
    <3>1. low <= high
      BY <2>a, <2>b
    <3> QED
      BY <2>1, <2>3, <2>6, <2>a, <3>1 DEF Span, low, high
  <2> QED
    BY <2>5, <2>6
<1>2. CASE input \in [kind : {"range"}, first : Address, last : Address]
  BY <1>2, <1>b DEF ParseRange
<1>3. CASE input \in [kind : {"octet"}, first : Address, last : 0..(2^OctetBits - 1)]
  <2>1. input.first \in Address /\ OctetBits \in 0..Bits
    BY <1>3, RangeAssumption
  <2>2. Network(input.first, OctetBits) + input.last \in Address
    BY <1>3, <2>1, BlockIsInside, PowersOfTwo, RangeAssumption DEF Address
  <2>3. ParseRange(input) =
          ParseSpan(input.first, Network(input.first, OctetBits) + input.last)
    BY <1>3 DEF ParseRange
  <2> QED
    BY <2>1, <2>2, <2>3, <1>b
<1>4. CASE input \in [kind : {"single"}, first : Address]
  BY <1>4, <1>a DEF ParseRange, Span
<1>5. CASE input \in [kind : {"junk"}]
  BY <1>5 DEF ParseRange, Refused
<1> QED
  BY <1>1, <1>2, <1>3, <1>4, <1>5 DEF Input

\* Dividing an index by the number of ports and back.
LEMMA Euclid ==
  ASSUME NEW i \in Nat
  PROVE  /\ i \div NPorts \in Nat
         /\ i % NPorts \in Ports
         /\ i = NPorts * (i \div NPorts) + (i % NPorts)
  BY PortScanAssumption DEF Ports

\* What there is to scan.
Scanned == (Scope.first..Scope.last) \X Ports

\* The numbers run computes from what scan_targets was given.
LEMMA ScopeFacts ==
  ASSUME target \in Targets, Scope.ok
  PROVE  /\ Scope.first \in Nat /\ Scope.last \in Nat
         /\ Scope.first..Scope.last \subseteq Address
         /\ NHosts \in Nat \ {0}
         /\ NPorts \in Nat \ {0}
         /\ Total \in Nat /\ Total = NHosts * NPorts
<1>1. /\ Scope.first \in Address /\ Scope.last \in Address /\ Scope.first <= Scope.last
  BY RangeIsInside, PortScanAssumption DEF Scope
<1>2. Scope.first \in Nat /\ Scope.last \in Nat /\ Scope.first..Scope.last \subseteq Address
  BY <1>1, PowersOfTwo, RangeAssumption DEF Address
<1>3. NHosts \in Nat \ {0}
  BY <1>1, <1>2 DEF NHosts
<1>4. NPorts \in Nat \ {0}
  BY PortScanAssumption
<1> QED
  BY <1>2, <1>3, <1>4 DEF Total

\* The pair an index stands for is one of the scope's, ...
LEMMA SocketIsScanned ==
  ASSUME target \in Targets, Scope.ok, NEW i \in Work
  PROVE  Socket(i) \in Scanned
<1>1. i \in Nat /\ i < NHosts * NPorts
  BY ScopeFacts DEF Work
<1> DEFINE q == i \div NPorts
<1>2. q \in Nat /\ i % NPorts \in Ports /\ i = NPorts * q + (i % NPorts)
  BY <1>1, Euclid
<1>3. i % NPorts \in Nat
  BY <1>2, PortScanAssumption DEF Ports
<1> HIDE DEF q
<1>4. q < NHosts
  <2>1. SUFFICES ASSUME NHosts <= q PROVE FALSE
    BY <1>2, ScopeFacts
  <2>2. NPorts * NHosts <= NPorts * q
    BY <1>2, <2>1, ScopeFacts
  <2> QED
    BY <1>1, <1>2, <1>3, <2>2, ScopeFacts
<1>5. Scope.first + q \in Scope.first..Scope.last
  BY <1>2, <1>4, ScopeFacts DEF NHosts
<1> QED
  BY <1>2, <1>5 DEF Socket, AddrOf, PortOf, Scanned, q

\* ... no two indices share one, ...
LEMMA SocketsDiffer ==
  ASSUME target \in Targets, Scope.ok, NEW i \in Work, NEW j \in Work, Socket(i) = Socket(j)
  PROVE  i = j
<1>1. i \in Nat /\ j \in Nat
  BY ScopeFacts DEF Work
<1>2. Scope.first + (i \div NPorts) = Scope.first + (j \div NPorts)
      /\ i % NPorts = j % NPorts
  BY DEF Socket, AddrOf, PortOf
<1> DEFINE q == i \div NPorts
           r == j \div NPorts
<1>3. /\ q \in Nat /\ i = NPorts * q + (i % NPorts)
      /\ r \in Nat /\ j = NPorts * r + (j % NPorts)
  BY <1>1, Euclid
<1>4. Scope.first \in Nat
  BY ScopeFacts
<1>5. Scope.first + q = Scope.first + r
  BY <1>2
<1> HIDE DEF q, r
<1>6. q = r
  BY <1>3, <1>4, <1>5
<1> QED
  BY <1>2, <1>3, <1>6

\* ... and every one of them has its index.
LEMMA SocketIsDrawn ==
  ASSUME target \in Targets, Scope.ok, NEW s \in Scanned
  PROVE  \E i \in Work : Socket(i) = s
<1>1. PICK a \in Scope.first..Scope.last, p \in Ports : s = <<a, p>>
  BY DEF Scanned
<1> DEFINE h == a - Scope.first
           i == NPorts * h + p
<1>2. h \in 0..(NHosts - 1) /\ p \in 0..(NPorts - 1) /\ h \in Nat /\ p \in Nat
  BY <1>1, ScopeFacts DEF NHosts, Ports
<1> HIDE DEF h
<1>3. i \in Nat
  BY <1>2, ScopeFacts
<1>4. i < Total
  <2>1. NPorts * h + NPorts = NPorts * (h + 1)
    BY <1>2, ScopeFacts
  <2>2. NPorts * (h + 1) <= NPorts * NHosts
    BY <1>2, ScopeFacts
  <2> QED
    BY <1>2, <2>1, <2>2, ScopeFacts
<1>5. i \div NPorts = h /\ i % NPorts = p
  BY <1>2, <1>3, ScopeFacts
<1>6. Scope.first + h = a
  BY <1>1, ScopeFacts DEF h
<1>7. i \in Work
  BY <1>3, <1>4, ScopeFacts DEF Work
<1> HIDE DEF i
<1> QED
  BY <1>1, <1>5, <1>6, <1>7 DEF Socket, AddrOf, PortOf

-----------------------------------------------------------------------------
(* The inductive invariant.                                                *)

\* Socket as a function, for the provers: its value does not change in a behaviour.
SocketAt == [i \in Work |-> Socket(i)]

Busy(w) == wpc[w] \in {"connect", "send", "count"}

\* The three states a socket goes through.
Fresh(s) == tries[s] = 0 /\ chan[s] = 0 /\ s \notin isOpen
Accepted(s) == tries[s] = 1 /\ chan[s] = 0 /\ s \in isOpen
Finished(s) == tries[s] = 1 /\ IF s \in isOpen THEN chan[s] = 1 ELSE chan[s] = 0

\* The indices that have been drawn and that no worker is busy with.
Counted == {i \in Work : i < nextIdx /\ \A w \in Workers : Busy(w) => idx[w] # i}

ScanTypes ==
    /\ target \in Targets
    /\ threads \in 0..MaxThreads
    /\ nextIdx \in Nat
    /\ scanned \in Nat
    /\ wpc \in [Workers -> {"unborn", "draw", "connect", "send", "count", "exit"}]
    /\ idx \in [Workers -> Nat]
    /\ tries \in [Sockets -> Nat]
    /\ isOpen \in SUBSET Sockets
    /\ chan \in [Sockets -> Nat]
    /\ ppc \in {"unborn", "watch", "exit"}
    /\ mpc \in {"parse", "refused", "spawn", "join", "joinProgress", "done"}
    /\ report \in SUBSET Sockets

\* Nothing is started for a target that was refused.
OnlyParsed ==
    \/ Scope.ok
    \/ /\ mpc \in {"parse", "refused"} /\ ppc = "unborn" /\ scanned = 0
       /\ \A w \in Workers : wpc[w] = "unborn"
       /\ \A s \in Sockets : Fresh(s)

\* A busy worker has an index of its own, already drawn.
Holding ==
    /\ \A w \in Workers : Busy(w) => idx[w] \in Work /\ idx[w] < nextIdx
    /\ \A v, w \in Workers : Busy(v) /\ Busy(w) /\ idx[v] = idx[w] => v = w

\* What has happened to the socket of a worker's index, of the other indices that were
\* drawn, and of everything else.
Stages ==
    /\ \A w \in Workers : /\ wpc[w] = "connect" => Fresh(SocketAt[idx[w]])
                          /\ wpc[w] = "send" => Accepted(SocketAt[idx[w]])
                          /\ wpc[w] = "count" => Finished(SocketAt[idx[w]])
    /\ \A i \in Counted : Finished(SocketAt[i])
    /\ \A i \in Work : i >= nextIdx => Fresh(SocketAt[i])
    /\ \A s \in Sockets \ Scanned : Fresh(s)

Tally == scanned = Cardinality(Counted)

AtEnd ==
    /\ ppc = "exit" => scanned >= Total
    /\ mpc = "done" => ppc = "exit" /\ report = isOpen

ScanInv ==
    /\ ScanTypes
    /\ OnlyParsed
    /\ Scope.ok => Holding /\ Stages /\ Tally /\ AtEnd

\* So in a behaviour SocketAt is a bijection between the indices and the scope.
LEMMA SocketAtFacts ==
  ASSUME target \in Targets, Scope.ok
  PROVE  /\ \A i \in Work : SocketAt[i] = Socket(i) /\ SocketAt[i] \in Scanned
         /\ \A i, j \in Work : SocketAt[i] = SocketAt[j] => i = j
         /\ \A s \in Scanned : \E i \in Work : SocketAt[i] = s
         /\ Scanned \subseteq Sockets
         /\ Work \subseteq Nat
         /\ \A i \in Work : i < Total
         /\ Total \in Nat
<1>1. \A i \in Work : SocketAt[i] = Socket(i) /\ SocketAt[i] \in Scanned
  BY SocketIsScanned DEF SocketAt
<1>2. \A i, j \in Work : SocketAt[i] = SocketAt[j] => i = j
  BY <1>1, SocketsDiffer
<1>3. \A s \in Scanned : \E i \in Work : SocketAt[i] = s
  BY <1>1, SocketIsDrawn
<1>4. Scanned \subseteq Sockets
  BY ScopeFacts DEF Scanned, Sockets
<1>5. Work \subseteq Nat /\ (\A i \in Work : i < Total) /\ Total \in Nat
  BY ScopeFacts DEF Work
<1> QED
  BY <1>1, <1>2, <1>3, <1>4, <1>5

\* The target, and with it all of this, stays what it was.
LEMMA Rigid ==
  ASSUME UNCHANGED target
  PROVE  /\ Scope' = Scope /\ Total' = Total /\ Work' = Work
         /\ Scanned' = Scanned /\ SocketAt' = SocketAt
<1>1. Scope' = Scope
  BY DEF Scope
<1>2. Total' = Total
  BY <1>1 DEF Total, NHosts
<1>3. Work' = Work
  BY <1>2 DEF Work
<1>4. SocketAt' = SocketAt
  BY <1>1, <1>3 DEF SocketAt, Socket, AddrOf, PortOf
<1>5. Scanned' = Scanned
  BY <1>1 DEF Scanned
<1> QED
  BY <1>1, <1>2, <1>3, <1>4, <1>5

\* What has been counted is finite, and everything once it is as much as there is.
LEMMA CountedIsFinite ==
  ASSUME target \in Targets, Scope.ok
  PROVE  /\ IsFiniteSet(Counted)
         /\ Cardinality(Counted) \in 0..Total
         /\ Cardinality(Counted) = Total => Counted = Work
<1>1. Total \in Nat
  BY SocketAtFacts
<1>2. IsFiniteSet(Work) /\ Cardinality(Work) = Total
  BY <1>1, FS_Interval DEF Work
<1>3. Counted \in SUBSET Work
  BY DEF Counted
<1>4. /\ IsFiniteSet(Counted)
      /\ Cardinality(Counted) <= Cardinality(Work)
      /\ Cardinality(Work) = Cardinality(Counted) => Work = Counted
  BY <1>2, <1>3, FS_Subset
<1>5. Cardinality(Counted) \in Nat
  BY <1>4, FS_CardinalityType
<1> QED
  BY <1>1, <1>2, <1>4, <1>5

-----------------------------------------------------------------------------
(* The steps.                                                              *)

\* Nothing is drawn, tried or sent at the start.
LEMMA ScanInit == Init => ScanInv
<1> SUFFICES ASSUME Init PROVE ScanInv
  OBVIOUS
<1>1. threads \in 0..MaxThreads
  BY PortScanAssumption DEF Init, Clamp
<1>2. ScanTypes
  BY <1>1 DEF Init, ScanTypes
<1>3. \A w \in Workers : wpc[w] = "unborn"
  BY DEF Init
<1>4. \A s \in Sockets : Fresh(s)
  BY DEF Init, Fresh
<1>5. OnlyParsed
  BY <1>3, <1>4 DEF Init, OnlyParsed
<1>6. ASSUME Scope.ok PROVE Holding /\ Stages /\ Tally /\ AtEnd
  <2>1. target \in Targets
    BY <1>2 DEF ScanTypes
  <2>2. Holding
    BY <1>3 DEF Holding, Busy
  <2>3. Counted = {}
    BY <1>6, <2>1, SocketAtFacts DEF Counted, Init
  <2>4. Stages
    BY <1>3, <1>4, <1>6, <2>1, <2>3, SocketAtFacts DEF Stages
  <2>5. Tally
    BY <2>3, FS_EmptySet DEF Tally, Init
  <2> QED
    BY <2>2, <2>4, <2>5 DEF AtEnd, Init
<1> QED
  BY <1>2, <1>5, <1>6 DEF ScanInv

\* A worker that is at work has been started for a parsed target, and its socket is
\* one of the scope's.
LEMMA WorkerFacts ==
  ASSUME ScanInv, NEW w \in Workers, wpc[w] # "unborn"
  PROVE  /\ target \in Targets /\ Scope.ok
         /\ Holding /\ Stages /\ Tally /\ AtEnd
         /\ Busy(w) => /\ idx[w] \in Work /\ idx[w] \in Nat
                       /\ SocketAt[idx[w]] = Socket(idx[w])
                       /\ Socket(idx[w]) \in Sockets
<1>1. target \in Targets /\ Scope.ok /\ Holding /\ Stages /\ Tally /\ AtEnd
  BY DEF ScanInv, ScanTypes, OnlyParsed
<1> QED
  BY <1>1, SocketAtFacts DEF Holding

\* The steps that touch neither the counters nor any socket.
Aside == /\ UNCHANGED <<target, nextIdx, scanned, idx, tries, isOpen, chan>>
         /\ \A w \in Workers : (Busy(w) \/ Busy(w)') => wpc'[w] = wpc[w]

\* run's own steps and print_progress's keep the invariant.
LEMMA AsideStep ==
  ASSUME ScanInv, Scope.ok, Aside
  PROVE  Holding' /\ Stages' /\ Tally'
<1>1. Holding /\ Stages /\ Tally
  BY DEF ScanInv
<1>2. /\ Total' = Total /\ Work' = Work /\ Scanned' = Scanned /\ SocketAt' = SocketAt
      /\ UNCHANGED <<nextIdx, scanned, idx, tries, isOpen, chan>>
  BY Rigid DEF Aside
<1>3. \A w \in Workers : (Busy(w) \/ Busy(w)') => wpc'[w] = wpc[w]
  BY DEF Aside
<1>4. Counted' = Counted
  BY <1>2, <1>3 DEF Counted, Busy
<1>5. Holding'
  BY <1>1, <1>2, <1>3 DEF Holding, Busy
<1>6. Stages'
  BY <1>1, <1>2, <1>3, <1>4 DEF Stages, Busy, Fresh, Accepted, Finished
<1>7. Tally'
  BY <1>1, <1>2, <1>4 DEF Tally
<1> QED
  BY <1>5, <1>6, <1>7

\* fetch_add gives the worker an index that nobody has had.
LEMMA DrawStep ==
  ASSUME ScanInv, NEW w \in Workers, Draw(w)
  PROVE  Holding' /\ Stages' /\ Tally'
<1>1. wpc[w] = "draw" /\ wpc' = [wpc EXCEPT ![w] = "connect"] /\ ~Busy(w)
  BY DEF Draw, Move, Busy
<1>2. /\ target \in Targets /\ Scope.ok /\ Holding /\ Stages /\ Tally
      /\ wpc \in [Workers -> {"unborn", "draw", "connect", "send", "count", "exit"}]
      /\ idx \in [Workers -> Nat] /\ nextIdx \in Nat
  BY <1>1, WorkerFacts DEF ScanInv, ScanTypes
<1>3. /\ nextIdx \in Work /\ nextIdx' = nextIdx + 1 /\ idx' = [idx EXCEPT ![w] = nextIdx]
      /\ UNCHANGED <<target, scanned, tries, isOpen, chan>>
  BY <1>2, SocketAtFacts DEF Draw, Work, userVars
<1>4. /\ Total' = Total /\ Work' = Work /\ Scanned' = Scanned /\ SocketAt' = SocketAt
      /\ Work \subseteq Nat
  BY <1>2, <1>3, Rigid, SocketAtFacts
<1>5. /\ wpc'[w] = "connect" /\ idx'[w] = nextIdx
      /\ \A v \in Workers \ {w} : wpc'[v] = wpc[v] /\ idx'[v] = idx[v]
  BY <1>1, <1>2, <1>3
<1>6. Holding'
  BY <1>2, <1>3, <1>4, <1>5 DEF Holding, Busy
<1>7. Counted' = Counted
  <2>1. ASSUME NEW i \in Work
        PROVE  /\ i < nextIdx' <=> i < nextIdx \/ i = nextIdx
               /\ (\A v \in Workers : Busy(v)' => idx'[v] # i)
                      <=> (\A v \in Workers : Busy(v) => idx[v] # i) /\ i # nextIdx
    BY <1>1, <1>2, <1>3, <1>4, <1>5 DEF Busy
  <2>2. \A i \in Work : i < nextIdx \/ i = nextIdx => (i # nextIdx <=> i < nextIdx)
    BY <1>2, <1>4
  <2> QED
    BY <1>4, <2>1, <2>2 DEF Counted
<1>8. Stages'
  BY <1>2, <1>3, <1>4, <1>5, <1>7 DEF Stages, Fresh, Accepted, Finished
<1>9. Tally'
  BY <1>2, <1>3, <1>7 DEF Tally
<1> QED
  BY <1>6, <1>8, <1>9

\* An index past the total is nobody's.
LEMMA DrawNoneStep ==
  ASSUME ScanInv, NEW w \in Workers, DrawNone(w)
  PROVE  Holding' /\ Stages' /\ Tally'
<1>1. wpc[w] = "draw" /\ wpc' = [wpc EXCEPT ![w] = "exit"]
  BY DEF DrawNone, Move
<1>2. /\ target \in Targets /\ Scope.ok /\ Holding /\ Stages /\ Tally
      /\ wpc \in [Workers -> {"unborn", "draw", "connect", "send", "count", "exit"}]
      /\ nextIdx \in Nat
  BY <1>1, WorkerFacts DEF ScanInv, ScanTypes
<1>3. /\ nextIdx >= Total /\ nextIdx' = nextIdx + 1
      /\ UNCHANGED <<target, scanned, idx, tries, isOpen, chan>>
  BY DEF DrawNone, userVars
<1>4. /\ Total' = Total /\ Work' = Work /\ Scanned' = Scanned /\ SocketAt' = SocketAt
      /\ Work \subseteq Nat /\ Total \in Nat /\ \A i \in Work : i < Total
  BY <1>2, <1>3, Rigid, SocketAtFacts
<1>5. wpc'[w] = "exit" /\ \A v \in Workers \ {w} : wpc'[v] = wpc[v]
  BY <1>1, <1>2
<1>6. Holding'
  <2>1. \A i \in Work : i < nextIdx => i < nextIdx'
    BY <1>2, <1>3, <1>4
  <2> QED
    BY <1>1, <1>2, <1>3, <1>4, <1>5, <2>1 DEF Holding, Busy
<1>7. Counted' = Counted
  <2>1. \A v \in Workers : Busy(v)' <=> Busy(v)
    BY <1>1, <1>5 DEF Busy
  <2>2. \A i \in Work : i < nextIdx' /\ i < nextIdx
    BY <1>2, <1>3, <1>4
  <2> QED
    BY <1>3, <1>4, <2>1, <2>2 DEF Counted
<1>8. Stages'
  BY <1>1, <1>2, <1>3, <1>4, <1>5, <1>7 DEF Stages, Fresh, Accepted, Finished
<1>9. Tally'
  BY <1>2, <1>3, <1>7 DEF Tally
<1> QED
  BY <1>6, <1>8, <1>9

\* A worker's step on the socket of its own index leaves every other socket alone.
LEMMA OtherSockets ==
  ASSUME ScanInv, NEW w \in Workers, Busy(w)
  PROVE  /\ \A i \in Work : i # idx[w] => SocketAt[i] # Socket(idx[w])
         /\ \A v \in Workers : Busy(v) /\ v # w => SocketAt[idx[v]] # Socket(idx[w])
         /\ \A i \in Counted : SocketAt[i] # Socket(idx[w])
         /\ \A i \in Work : i >= nextIdx => SocketAt[i] # Socket(idx[w])
         /\ \A s \in Sockets \ Scanned : s # Socket(idx[w])
<1>1. /\ target \in Targets /\ Scope.ok /\ Holding
      /\ idx[w] \in Work /\ SocketAt[idx[w]] = Socket(idx[w]) /\ nextIdx \in Nat
  BY WorkerFacts DEF Busy, ScanInv, ScanTypes
<1>2. /\ \A i \in Work : SocketAt[i] \in Scanned
      /\ \A i, j \in Work : SocketAt[i] = SocketAt[j] => i = j
      /\ Work \subseteq Nat
  BY <1>1, SocketAtFacts
<1>3. \A i \in Work : i # idx[w] => SocketAt[i] # Socket(idx[w])
  BY <1>1, <1>2
<1>4. \A v \in Workers : Busy(v) /\ v # w => idx[v] \in Work /\ idx[v] # idx[w]
  BY <1>1 DEF Holding
<1>5. \A i \in Counted : i \in Work /\ i # idx[w]
  BY DEF Counted
<1>6. \A i \in Work : i >= nextIdx => i # idx[w]
  BY <1>1, <1>2 DEF Holding
<1>7. \A s \in Sockets \ Scanned : s # Socket(idx[w])
  BY <1>1, <1>2
<1> QED
  BY <1>3, <1>4, <1>5, <1>6, <1>7

\* A connection attempt: the worker's socket is no longer fresh.
LEMMA ConnectStep ==
  ASSUME ScanInv, NEW w \in Workers, Connect(w)
  PROVE  Holding' /\ Stages' /\ Tally'
<1> DEFINE s0 == Socket(idx[w])
<1>1. PICK ok \in BOOLEAN :
        /\ Move(w, "connect", IF ok THEN "send" ELSE "count")
        /\ isOpen' = IF ok THEN isOpen \cup {s0} ELSE isOpen
  BY DEF Connect
<1>2. wpc[w] = "connect" /\ Busy(w)
      /\ wpc' = [wpc EXCEPT ![w] = IF ok THEN "send" ELSE "count"]
  BY <1>1 DEF Move, Busy
<1>3. /\ target \in Targets /\ Scope.ok /\ Holding /\ Stages /\ Tally
      /\ idx[w] \in Work /\ SocketAt[idx[w]] = s0 /\ s0 \in Sockets
      /\ wpc \in [Workers -> {"unborn", "draw", "connect", "send", "count", "exit"}]
      /\ tries \in [Sockets -> Nat]
  BY <1>2, WorkerFacts DEF ScanInv, ScanTypes
<1>4. /\ tries' = [tries EXCEPT ![s0] = @ + 1]
      /\ UNCHANGED <<target, nextIdx, scanned, idx, chan>>
  BY DEF Connect, userVars
<1>5. /\ Work' = Work /\ Scanned' = Scanned /\ SocketAt' = SocketAt
      /\ Scanned \subseteq Sockets /\ \A i \in Work : SocketAt[i] \in Scanned
  BY <1>3, <1>4, Rigid, SocketAtFacts
<1>6. /\ wpc'[w] \in {"send", "count"} /\ (wpc'[w] = "send" <=> ok)
      /\ \A v \in Workers \ {w} : wpc'[v] = wpc[v]
  BY <1>2, <1>3
<1>7. Holding'
  BY <1>2, <1>3, <1>4, <1>5, <1>6 DEF Holding, Busy
<1>8. Counted' = Counted
  BY <1>2, <1>4, <1>5, <1>6 DEF Counted, Busy
<1> HIDE DEF s0
<1>9. tries[s0] = 0 /\ chan[s0] = 0 /\ s0 \notin isOpen
  BY <1>2, <1>3 DEF Stages, Fresh
<1>10. tries'[s0] = 1 /\ chan'[s0] = 0 /\ (s0 \in isOpen' <=> ok)
  BY <1>1, <1>3, <1>4, <1>9
<1>11. \A s \in Sockets : s # s0 => /\ tries'[s] = tries[s] /\ chan'[s] = chan[s]
                                    /\ s \in isOpen' <=> s \in isOpen
  BY <1>1, <1>3, <1>4
<1>12. /\ \A v \in Workers : Busy(v) /\ v # w => SocketAt[idx[v]] \in Sockets \ {s0}
       /\ \A i \in Counted : SocketAt[i] \in Sockets \ {s0}
       /\ \A i \in Work : i >= nextIdx => SocketAt[i] \in Sockets \ {s0}
       /\ \A s \in Sockets \ Scanned : s # s0
  BY <1>2, <1>3, <1>5, OtherSockets DEF s0, Counted, Holding
<1>13. Stages'
  <2>1. ASSUME NEW v \in Workers
        PROVE  /\ wpc'[v] = "connect" => Fresh(SocketAt[idx[v]])'
               /\ wpc'[v] = "send" => Accepted(SocketAt[idx[v]])'
               /\ wpc'[v] = "count" => Finished(SocketAt[idx[v]])'
    <3>1. CASE v = w
      BY <1>3, <1>4, <1>5, <1>6, <1>10, <3>1 DEF Accepted, Finished
    <3>2. CASE v # w
      BY <1>3, <1>4, <1>5, <1>6, <1>11, <1>12, <3>2 DEF Stages, Busy, Fresh, Accepted, Finished
    <3> QED
      BY <3>1, <3>2
  <2>2. \A i \in Counted' : Finished(SocketAt[i])'
    BY <1>3, <1>5, <1>8, <1>11, <1>12 DEF Stages, Finished
  <2>3. \A i \in Work' : i >= nextIdx' => Fresh(SocketAt[i])'
    BY <1>3, <1>4, <1>5, <1>11, <1>12 DEF Stages, Fresh
  <2>4. \A s \in Sockets \ Scanned' : Fresh(s)'
    BY <1>3, <1>5, <1>11, <1>12 DEF Stages, Fresh
  <2> QED
    BY <2>1, <2>2, <2>3, <2>4 DEF Stages
<1>14. Tally'
  BY <1>3, <1>4, <1>8 DEF Tally
<1> QED
  BY <1>7, <1>13, <1>14

\* What was accepted is sent once.
LEMMA SendStep ==
  ASSUME ScanInv, NEW w \in Workers, Send(w)
  PROVE  Holding' /\ Stages' /\ Tally'
<1> DEFINE s0 == Socket(idx[w])
<1>2. wpc[w] = "send" /\ Busy(w) /\ wpc' = [wpc EXCEPT ![w] = "count"]
  BY DEF Send, Move, Busy
<1>3. /\ target \in Targets /\ Scope.ok /\ Holding /\ Stages /\ Tally
      /\ idx[w] \in Work /\ SocketAt[idx[w]] = s0 /\ s0 \in Sockets
      /\ wpc \in [Workers -> {"unborn", "draw", "connect", "send", "count", "exit"}]
      /\ chan \in [Sockets -> Nat]
  BY <1>2, WorkerFacts DEF ScanInv, ScanTypes
<1>4. /\ chan' = [chan EXCEPT ![s0] = @ + 1]
      /\ UNCHANGED <<target, nextIdx, scanned, idx, tries, isOpen>>
  BY DEF Send, userVars
<1>5. /\ Work' = Work /\ Scanned' = Scanned /\ SocketAt' = SocketAt
      /\ Scanned \subseteq Sockets /\ \A i \in Work : SocketAt[i] \in Scanned
  BY <1>3, <1>4, Rigid, SocketAtFacts
<1>6. wpc'[w] = "count" /\ \A v \in Workers \ {w} : wpc'[v] = wpc[v]
  BY <1>2, <1>3
<1>7. Holding'
  BY <1>2, <1>3, <1>4, <1>5, <1>6 DEF Holding, Busy
<1>8. Counted' = Counted
  BY <1>2, <1>4, <1>5, <1>6 DEF Counted, Busy
<1> HIDE DEF s0
<1>9. tries[s0] = 1 /\ chan[s0] = 0 /\ s0 \in isOpen
  BY <1>2, <1>3 DEF Stages, Accepted
<1>10. tries'[s0] = 1 /\ chan'[s0] = 1 /\ s0 \in isOpen'
  BY <1>3, <1>4, <1>9
<1>11. \A s \in Sockets : s # s0 => tries'[s] = tries[s] /\ chan'[s] = chan[s]
  BY <1>3, <1>4
<1>12. /\ \A v \in Workers : Busy(v) /\ v # w => SocketAt[idx[v]] \in Sockets \ {s0}
       /\ \A i \in Counted : SocketAt[i] \in Sockets \ {s0}
       /\ \A i \in Work : i >= nextIdx => SocketAt[i] \in Sockets \ {s0}
       /\ \A s \in Sockets \ Scanned : s # s0
  BY <1>2, <1>3, <1>5, OtherSockets DEF s0, Counted, Holding
<1>13. Stages'
  <2>1. ASSUME NEW v \in Workers
        PROVE  /\ wpc'[v] = "connect" => Fresh(SocketAt[idx[v]])'
               /\ wpc'[v] = "send" => Accepted(SocketAt[idx[v]])'
               /\ wpc'[v] = "count" => Finished(SocketAt[idx[v]])'
    <3>1. CASE v = w
      BY <1>3, <1>4, <1>5, <1>6, <1>10, <3>1 DEF Finished
    <3>2. CASE v # w
      BY <1>3, <1>4, <1>5, <1>6, <1>11, <1>12, <3>2 DEF Stages, Busy, Fresh, Accepted, Finished
    <3> QED
      BY <3>1, <3>2
  <2>2. \A i \in Counted' : Finished(SocketAt[i])'
    BY <1>3, <1>4, <1>5, <1>8, <1>11, <1>12 DEF Stages, Finished
  <2>3. \A i \in Work' : i >= nextIdx' => Fresh(SocketAt[i])'
    BY <1>3, <1>4, <1>5, <1>11, <1>12 DEF Stages, Fresh
  <2>4. \A s \in Sockets \ Scanned' : Fresh(s)'
    BY <1>3, <1>4, <1>5, <1>11, <1>12 DEF Stages, Fresh
  <2> QED
    BY <2>1, <2>2, <2>3, <2>4 DEF Stages
<1>14. Tally'
  BY <1>3, <1>4, <1>8 DEF Tally
<1> QED
  BY <1>7, <1>13, <1>14

\* A finished index is added to the tally.
LEMMA CountStep ==
  ASSUME ScanInv, NEW w \in Workers, Count(w)
  PROVE  Holding' /\ Stages' /\ Tally'
<1>1. wpc[w] = "count" /\ Busy(w) /\ wpc' = [wpc EXCEPT ![w] = "draw"]
  BY DEF Count, Move, Busy
<1>2. /\ target \in Targets /\ Scope.ok /\ Holding /\ Stages /\ Tally
      /\ idx[w] \in Work /\ scanned \in Nat
      /\ wpc \in [Workers -> {"unborn", "draw", "connect", "send", "count", "exit"}]
  BY <1>1, WorkerFacts DEF ScanInv, ScanTypes
<1>3. scanned' = scanned + 1 /\ UNCHANGED <<target, nextIdx, idx, tries, isOpen, chan>>
  BY DEF Count, userVars
<1>4. Work' = Work /\ Scanned' = Scanned /\ SocketAt' = SocketAt
  BY <1>2, <1>3, Rigid
<1>5. wpc'[w] = "draw" /\ \A v \in Workers \ {w} : wpc'[v] = wpc[v]
  BY <1>1, <1>2
<1>6. Holding'
  BY <1>1, <1>2, <1>3, <1>4, <1>5 DEF Holding, Busy
<1>7. idx[w] < nextIdx /\ \A v \in Workers : Busy(v) /\ v # w => idx[v] # idx[w]
  BY <1>1, <1>2 DEF Holding
<1>8. Counted' = Counted \cup {idx[w]} /\ idx[w] \notin Counted
  <2>1. \A v \in Workers : Busy(v)' <=> Busy(v) /\ v # w
    BY <1>1, <1>5 DEF Busy
  <2> QED
    BY <1>1, <1>2, <1>3, <1>4, <1>7, <2>1 DEF Counted
<1>9. Tally'
  BY <1>2, <1>3, <1>8, CountedIsFinite, FS_AddElement DEF Tally
<1>10. Stages'
  <2>1. Finished(SocketAt[idx[w]])
    BY <1>1, <1>2 DEF Stages
  <2> QED
    BY <1>2, <1>3, <1>4, <1>5, <1>8, <2>1 DEF Stages, Fresh, Accepted, Finished
<1> QED
  BY <1>6, <1>9, <1>10

\* Every step keeps the types.
LEMMA TypesStep == ScanInv /\ [Next]_vars => ScanTypes'
<1> SUFFICES ASSUME ScanInv, [Next]_vars PROVE ScanTypes'
  OBVIOUS
<1> USE DEF ScanTypes, userVars
<1>1. ScanTypes
  BY DEF ScanInv
<1>2. ASSUME NEW w \in Workers, Worker(w) PROVE ScanTypes'
  <2>1. CASE Draw(w)
    BY <1>1, <2>1 DEF Draw, Move
  <2>2. CASE DrawNone(w)
    BY <1>1, <2>2 DEF DrawNone, Move
  <2>3. CASE Connect(w)
    <3>1. wpc[w] # "unborn" /\ Busy(w)
      BY <2>3 DEF Connect, Move, Busy
    <3>2. Socket(idx[w]) \in Sockets
      BY <3>1, WorkerFacts
    <3>3. isOpen' \in SUBSET Sockets
      BY <1>1, <2>3, <3>2 DEF Connect
    <3>4. tries' \in [Sockets -> Nat]
      <4>1. tries' = [tries EXCEPT ![Socket(idx[w])] = tries[Socket(idx[w])] + 1]
        BY <2>3 DEF Connect
      <4> QED
        BY <1>1, <3>2, <4>1
    <3>5. wpc' \in [Workers -> {"unborn", "draw", "connect", "send", "count", "exit"}]
      BY <1>1, <2>3 DEF Connect, Move
    <3> QED
      BY <1>1, <2>3, <3>3, <3>4, <3>5 DEF Connect
  <2>4. CASE Send(w)
    <3>1. Socket(idx[w]) \in Sockets
      BY <2>4, WorkerFacts DEF Send, Move, Busy
    <3>2. chan' = [chan EXCEPT ![Socket(idx[w])] = chan[Socket(idx[w])] + 1]
      BY <2>4 DEF Send
    <3>3. chan' \in [Sockets -> Nat]
      BY <1>1, <3>1, <3>2
    <3>4. wpc' \in [Workers -> {"unborn", "draw", "connect", "send", "count", "exit"}]
      BY <1>1, <2>4 DEF Send, Move
    <3> QED
      BY <1>1, <2>4, <3>3, <3>4 DEF Send
  <2>5. CASE Count(w)
    BY <1>1, <2>5 DEF Count, Move
  <2> QED
    BY <1>2, <2>1, <2>2, <2>3, <2>4, <2>5 DEF Worker
<1>3. CASE Progress
  BY <1>1, <1>3 DEF Progress
<1>4. CASE Refuse
  BY <1>1, <1>4 DEF Refuse
<1>5. CASE StartProgress
  BY <1>1, <1>5 DEF StartProgress
<1>6. CASE AllSpawned
  BY <1>1, <1>6 DEF AllSpawned
<1>7. CASE JoinWorkers
  BY <1>1, <1>7 DEF JoinWorkers
<1>8. CASE Report
  <2>1. Scope.ok
    BY <1>8 DEF ScanInv, OnlyParsed, Report
  <2>2. report' \in SUBSET Sockets
    BY <1>1, <1>8, <2>1, ScopeFacts DEF Report, Sockets
  <2> QED
    BY <1>1, <1>8, <2>2 DEF Report
<1>9. ASSUME NEW w \in Workers, SpawnWorker(w) PROVE ScanTypes'
  BY <1>1, <1>9 DEF SpawnWorker, Move
<1>10. CASE UNCHANGED vars
  BY <1>1, <1>10 DEF vars
<1> QED
  BY <1>2, <1>3, <1>4, <1>5, <1>6, <1>7, <1>8, <1>9, <1>10 DEF Next, RunThread

\* Every step is a worker's or leaves the workers' business aside.
LEMMA StepKinds ==
  ASSUME ScanInv, [Next]_vars
  PROVE  \/ \E w \in Workers : Worker(w)
         \/ Aside
<1>1. wpc \in [Workers -> {"unborn", "draw", "connect", "send", "count", "exit"}]
  BY DEF ScanInv, ScanTypes
<1> USE DEF Aside, userVars
<1>2. CASE Progress
  BY <1>2 DEF Progress
<1>3. CASE Refuse \/ StartProgress \/ AllSpawned \/ JoinWorkers \/ Report
  BY <1>3 DEF Refuse, StartProgress, AllSpawned, JoinWorkers, Report
<1>4. ASSUME NEW w \in Workers, SpawnWorker(w) PROVE Aside
  BY <1>1, <1>4 DEF SpawnWorker, Move, Busy
<1>5. CASE UNCHANGED vars
  BY <1>5 DEF vars, Busy
<1> QED
  BY <1>2, <1>3, <1>4, <1>5 DEF Next, RunThread

\* Once as many indices are counted as there are, every socket of the scope is finished.
LEMMA AllFinished ==
  ASSUME ScanInv, Scope.ok, scanned >= Total
  PROVE  /\ \A s \in Scanned : Finished(s)
         /\ \A s \in Sockets \ Scanned : Fresh(s)
<1>1. target \in Targets /\ Stages /\ Tally
  BY DEF ScanInv, ScanTypes
<1>2. Counted = Work
  BY <1>1, CountedIsFinite, SocketAtFacts DEF Tally
<1> QED
  BY <1>1, <1>2, SocketAtFacts DEF Stages

\* What was reached at the end stays reached.
LEMMA AtEndStep == ScanInv /\ Scope.ok /\ [Next]_vars => AtEnd'
<1> SUFFICES ASSUME ScanInv, Scope.ok, [Next]_vars PROVE AtEnd'
  OBVIOUS
<1>1. /\ target \in Targets /\ AtEnd /\ scanned \in Nat
      /\ isOpen \in SUBSET Sockets /\ chan \in [Sockets -> Nat]
  BY DEF ScanInv, ScanTypes
<1>2. UNCHANGED target
  BY DEF Next, RunThread, Worker, Progress, Refuse, StartProgress, AllSpawned, JoinWorkers,
         Report, SpawnWorker, Draw, DrawNone, Connect, Send, Count, vars, userVars
<1>3. Total' = Total /\ Total \in Nat
  BY <1>1, <1>2, Rigid, SocketAtFacts
<1> USE DEF AtEnd, userVars
<1>4. ASSUME NEW w \in Workers, Worker(w) PROVE AtEnd'
  <2>1. /\ scanned' \in {scanned, scanned + 1}
        /\ UNCHANGED <<ppc, mpc, report>>
    BY <1>4 DEF Worker, Draw, DrawNone, Connect, Send, Count
  <2>2. ppc' = "exit" => scanned' >= Total'
    BY <1>1, <1>3, <2>1
  <2>3. ASSUME mpc = "done" PROVE isOpen' = isOpen
    <3>1. scanned >= Total
      BY <1>1, <2>3
    <3>2. ~Connect(w)
      <4>1. SUFFICES ASSUME Connect(w) PROVE FALSE
        OBVIOUS
      <4>2. wpc[w] = "connect" /\ Busy(w) /\ wpc[w] # "unborn"
        BY <4>1 DEF Connect, Move, Busy
      <4>3. idx[w] \in Work /\ Stages /\ SocketAt[idx[w]] \in Scanned
        BY <1>1, <4>2, WorkerFacts, SocketAtFacts
      <4>4. Fresh(SocketAt[idx[w]]) /\ Finished(SocketAt[idx[w]])
        BY <3>1, <4>2, <4>3, AllFinished DEF Stages
      <4> QED
        BY <4>4 DEF Fresh, Finished
    <3> QED
      BY <1>4, <3>2 DEF Worker, Draw, DrawNone, Send, Count
  <2> QED
    BY <1>1, <2>1, <2>2, <2>3
<1>5. CASE Progress
  BY <1>1, <1>3, <1>5 DEF Progress
<1>6. CASE Refuse \/ StartProgress \/ AllSpawned \/ JoinWorkers
  BY <1>1, <1>3, <1>6 DEF Refuse, StartProgress, AllSpawned, JoinWorkers
<1>7. CASE Report
  <2>1. /\ ppc = "exit" /\ UNCHANGED <<ppc, scanned, isOpen>>
        /\ report' = {s \in Scanned : chan[s] > 0}
    BY <1>7 DEF Report, Scanned
  <2>2. scanned >= Total
    BY <1>1, <2>1
  <2>3. Scanned \subseteq Sockets
    BY <1>1, SocketAtFacts
  <2>4. \A s \in Scanned : chan[s] > 0 <=> s \in isOpen
    BY <2>2, AllFinished DEF Finished
  <2>5. \A s \in Sockets \ Scanned : s \notin isOpen
    BY <2>2, AllFinished DEF Fresh
  <2>6. report' = isOpen'
    BY <1>1, <2>1, <2>3, <2>4, <2>5
  <2> QED
    BY <1>3, <2>1, <2>2, <2>6
<1>8. ASSUME NEW w \in Workers, SpawnWorker(w) PROVE AtEnd'
  BY <1>1, <1>3, <1>8 DEF SpawnWorker
<1>9. CASE UNCHANGED vars
  BY <1>1, <1>3, <1>9 DEF vars
<1> QED
  BY <1>4, <1>5, <1>6, <1>7, <1>8, <1>9 DEF Next, RunThread

\* Nothing is started for a refused target.
LEMMA OnlyParsedStep == ScanInv /\ [Next]_vars => OnlyParsed' /\ (Scope.ok' <=> Scope.ok)
<1> SUFFICES ASSUME ScanInv, [Next]_vars PROVE OnlyParsed' /\ (Scope.ok' <=> Scope.ok)
  OBVIOUS
<1>1. UNCHANGED target
  BY DEF Next, RunThread, Worker, Progress, Refuse, StartProgress, AllSpawned, JoinWorkers,
         Report, SpawnWorker, Draw, DrawNone, Connect, Send, Count, vars, userVars
<1>2. Scope' = Scope
  BY <1>1, Rigid
<1>3. CASE Scope.ok
  BY <1>2, <1>3 DEF OnlyParsed
<1>4. CASE ~Scope.ok
  <2>1. /\ mpc \in {"parse", "refused"} /\ ppc = "unborn" /\ scanned = 0
        /\ \A w \in Workers : wpc[w] = "unborn"
        /\ \A s \in Sockets : Fresh(s)
    BY <1>4 DEF ScanInv, OnlyParsed
  <2>2. ~\E w \in Workers : Worker(w) \/ SpawnWorker(w)
    BY <2>1 DEF Worker, Draw, DrawNone, Connect, Send, Count, Move, SpawnWorker
  <2>3. \/ mpc' = "refused" /\ UNCHANGED <<ppc, scanned, wpc, tries, isOpen, chan>>
        \/ UNCHANGED <<mpc, ppc, scanned, wpc, tries, isOpen, chan>>
    BY <1>4, <2>1, <2>2 DEF Next, RunThread, Progress, Refuse, StartProgress, AllSpawned,
                            JoinWorkers, Report, vars
  <2> QED
    BY <1>2, <1>4, <2>1, <2>3 DEF OnlyParsed, Fresh
<1> QED
  BY <1>3, <1>4

\* Together: the invariant is inductive, ...
LEMMA ScanStep == ScanInv /\ [Next]_vars => ScanInv'
<1> SUFFICES ASSUME ScanInv, [Next]_vars PROVE ScanInv'
  OBVIOUS
<1>1. ASSUME Scope.ok PROVE Holding' /\ Stages' /\ Tally'
  BY <1>1, StepKinds, AsideStep, DrawStep, DrawNoneStep, ConnectStep, SendStep, CountStep
     DEF Worker
<1>2. ScanTypes' /\ OnlyParsed' /\ (Scope.ok' <=> Scope.ok)
  BY TypesStep, OnlyParsedStep
<1>3. Scope.ok => AtEnd'
  BY AtEndStep
<1> QED
  BY <1>1, <1>2, <1>3 DEF ScanInv

\* ... and holds of every behaviour.
LEMMA ScanInvariant == Spec => []ScanInv
  BY ScanInit, ScanStep, PTL DEF Spec

-----------------------------------------------------------------------------
(* What it implies.                                                        *)

\* For every number of threads, hosts and ports: the types, among them that no more
\* is ever counted as scanned than there is to scan.
THEOREM TypeCorrect == Spec => []TypeOK
<1>1. ScanInv => TypeOK
  <2> SUFFICES ASSUME ScanInv PROVE TypeOK
    OBVIOUS
  <2>1. ASSUME NEW w \in Workers, wpc[w] # "unborn"
        PROVE  Scope.ok /\ scanned \in 0..Total
    <3>1. target \in Targets /\ Scope.ok /\ Tally
      BY <2>1, WorkerFacts
    <3> QED
      BY <3>1, CountedIsFinite DEF Tally
  <2>2. ScanTypes
    BY DEF ScanInv
  <2> QED
    BY <2>1, <2>2 DEF TypeOK, ScanTypes
<1> QED
  BY <1>1, ScanInvariant, PTL

\* However many workers draw, connect and send in whatever order, no address and port
\* is connected to or reported twice.
THEOREM NeverTwice == Spec => []AtMostOnce
<1>1. ScanInv => AtMostOnce
  <2> SUFFICES ASSUME ScanInv, NEW s \in Sockets PROVE tries[s] <= 1 /\ chan[s] <= 1
    BY DEF AtMostOnce
  <2>1. Fresh(s) \/ Accepted(s) \/ Finished(s)
    <3>1. CASE ~Scope.ok
      BY <3>1 DEF ScanInv, OnlyParsed
    <3>2. CASE Scope.ok /\ s \notin Scanned
      BY <3>2 DEF ScanInv, Stages
    <3>3. CASE Scope.ok /\ s \in Scanned
      <4>1. target \in Targets /\ Stages /\ nextIdx \in Nat
            /\ wpc \in [Workers -> {"unborn", "draw", "connect", "send", "count", "exit"}]
        BY <3>3 DEF ScanInv, ScanTypes
      <4>2. PICK i \in Work : SocketAt[i] = s
        BY <3>3, <4>1, SocketAtFacts
      <4>3. i \in Nat
        BY <3>3, <4>1, <4>2, SocketAtFacts
      <4>4. \/ i >= nextIdx
            \/ i \in Counted
            \/ \E w \in Workers : Busy(w) /\ idx[w] = i
        BY <4>1, <4>2, <4>3 DEF Counted
      <4> QED
        BY <4>1, <4>2, <4>4 DEF Stages, Busy
    <3> QED
      BY <3>1, <3>2, <3>3
  <2> QED
    BY <2>1 DEF Fresh, Accepted, Finished
<1> QED
  BY <1>1, ScanInvariant, PTL

-----------------------------------------------------------------------------
(* parse_ip_range is right: what it returns is what the input stands for.  *)

\* A number is its quotient and its remainder, and no other two.
LEMMA DivMod ==
  ASSUME NEW n \in Nat \ {0}, NEW a \in Nat
  PROVE  /\ a \div n \in Nat /\ a % n \in 0..(n - 1) /\ a = (n * (a \div n)) + (a % n)
  OBVIOUS

LEMMA DivModOnly ==
  ASSUME NEW n \in Nat \ {0}, NEW q \in Nat, NEW r \in 0..(n - 1), NEW a, a = (n * q) + r
  PROVE  a \div n = q /\ a % n = r
  OBVIOUS

LEMMA TimesMore ==
  ASSUME NEW n \in Nat, NEW x \in Nat, NEW y \in Nat, x < y
  PROVE  (n * x) + n <= n * y
<1>1. n * (x + 1) <= n * y
  OBVIOUS
<1>2. n * (x + 1) = (n * x) + n
  OBVIOUS
<1> QED
  BY <1>1, <1>2

\* The numbers below M that have the quotient of b begin at start.
QuotientFrom(n, M, b, start) ==
    /\ start = b - (b % n) /\ b % n \in 0..(n - 1)
    /\ \A a \in 0..(M - 1) : a \div n = b \div n <=> a \in start..(start + n - 1)
    /\ \A r \in 0..(n - 1) : start + r \in 0..(M - 1) /\ (start + r) % n = r

\* There are n of them, if n divides M.
LEMMA QuotientSpan ==
  ASSUME NEW n \in Nat \ {0}, NEW M \in Nat, M % n = 0, NEW b \in 0..(M - 1)
  PROVE  \E start \in Nat : QuotientFrom(n, M, b, start)
<1>1. PICK q, r : q = b \div n /\ r = b % n
  OBVIOUS
<1>2. b \in Nat /\ q \in Nat /\ r \in 0..(n - 1) /\ b = (n * q) + r
  <2>1. b \in Nat
    OBVIOUS
  <2> QED
    BY <1>1, <2>1, DivMod
<1>3. PICK start : start = n * q
  OBVIOUS
<1>4. start \in Nat /\ start = b - r
  BY <1>2, <1>3
<1>5. PICK k : k = M \div n
  OBVIOUS
<1>6. k \in Nat /\ M = n * k
  <2>1. k \in Nat /\ M = (n * k) + 0
    BY <1>5, DivMod
  <2> QED
    BY <2>1
<1>7. start + n <= M
  <2>1. q < k
    <3>1. CASE k <= q
      <4>1. n * k <= n * q
        BY <1>2, <1>6, <3>1
      <4> QED
        BY <1>2, <1>3, <1>4, <1>6, <4>1
    <3> QED
      BY <1>2, <1>6, <3>1
  <2> QED
    BY <1>2, <1>3, <1>6, <2>1, TimesMore
<1>8. ASSUME NEW a \in 0..(M - 1)
      PROVE  a \div n = q <=> a \in start..(start + n - 1)
  <2>1. ASSUME a \div n = q PROVE a \in start..(start + n - 1)
    <3>1. PICK t : t = a % n
      OBVIOUS
    <3>2. t \in 0..(n - 1) /\ a = start + t
      <4>1. a \in Nat
        OBVIOUS
      <4>2. t \in 0..(n - 1) /\ a = (n * (a \div n)) + t
        BY <3>1, <4>1, DivMod
      <4> QED
        BY <1>3, <2>1, <4>2
    <3> QED
      BY <1>4, <3>2
  <2>2. ASSUME a \in start..(start + n - 1) PROVE a \div n = q
    <3>1. PICK t \in 0..(n - 1) : a = start + t
      <4>1. a - start \in 0..(n - 1) /\ a = start + (a - start)
        BY <1>4, <2>2
      <4> QED
        BY <4>1
    <3> QED
      BY <1>2, <1>3, <3>1, DivModOnly
  <2> QED
    BY <2>1, <2>2
<1>9. ASSUME NEW t \in 0..(n - 1)
      PROVE  start + t \in 0..(M - 1) /\ (start + t) % n = t
  <2>1. start + t \in 0..(M - 1)
    BY <1>4, <1>7
  <2> QED
    BY <1>2, <1>3, <2>1, DivModOnly
<1> QED
  BY <1>1, <1>2, <1>4, <1>8, <1>9 DEF QuotientFrom

\* Network, and the addresses of its block.
LEMMA NetworkSpan ==
  ASSUME NEW h \in 0..Bits, NEW base \in Address
  PROVE  \E n \in Nat :
            /\ n = 2^h /\ n > h /\ Network(base, h) \in Nat
            /\ Broadcast(base, h) = Network(base, h) + n - 1
            /\ Network(base, h) <= base /\ base < Network(base, h) + n
            /\ \A a : a \in Block(base, h) <=> a \in Network(base, h)..(Network(base, h) + n - 1)
            /\ \A r \in 0..(n - 1) :
                  /\ Network(base, h) + r \in Address
                  /\ (Network(base, h) + r) % n = r
<1>1. PICK n : n = 2^h
  OBVIOUS
<1>2. PICK M : M = 2^Bits
  OBVIOUS
<1>3. n \in Nat \ {0} /\ n > h /\ M \in Nat /\ M % n = 0
  <2>1. Bits \in 0..Bits
    BY RangeAssumption
  <2>2. n \in Nat /\ n > h /\ M % n = 0 /\ M \in Nat
    BY <1>1, <1>2, <2>1, PowersOfTwo
  <2> QED
    BY <2>2, RangeAssumption
<1>4. base \in 0..(M - 1) /\ Address = 0..(M - 1)
  BY <1>2 DEF Address
<1>5. PICK start \in Nat :
          /\ start = base - (base % n) /\ base % n \in 0..(n - 1)
          /\ \A a \in 0..(M - 1) : a \div n = base \div n <=> a \in start..(start + n - 1)
          /\ \A r \in 0..(n - 1) : start + r \in 0..(M - 1) /\ (start + r) % n = r
  <2>1. \E start \in Nat : QuotientFrom(n, M, base, start)
    BY <1>3, <1>4, QuotientSpan
  <2> QED
    BY <2>1 DEF QuotientFrom
<1>6. Network(base, h) = start /\ Broadcast(base, h) = start + n - 1
  BY <1>1, <1>5 DEF Network, Broadcast
<1>7. ASSUME NEW a PROVE a \in Block(base, h) <=> a \in start..(start + n - 1)
  <2>1. a \in Block(base, h) <=> a \in 0..(M - 1) /\ a \div n = base \div n
    BY <1>1, <1>4 DEF Block
  <2>2. a \in start..(start + n - 1) => a \in 0..(M - 1)
    <3>1. ASSUME a \in start..(start + n - 1) PROVE a \in 0..(M - 1)
      <4>1. a - start \in 0..(n - 1) /\ start + (a - start) = a
        BY <1>3, <3>1
      <4> QED
        BY <1>5, <4>1
    <3> QED
      BY <3>1
  <2> QED
    BY <1>5, <2>1, <2>2
<1>8. start <= base /\ base < start + n
  <2>1. PICK r : r = base % n
    OBVIOUS
  <2>2. base \in Nat /\ r \in 0..(n - 1) /\ start = base - r
    BY <1>4, <1>5, <2>1
  <2> QED
    BY <1>3, <2>2
<1> QED
  BY <1>1, <1>3, <1>4, <1>5, <1>6, <1>7, <1>8

\* What an accepted input is parsed to.
IsRight(input) ==
    ParseRange(input).ok => ParseRange(input).first..ParseRange(input).last = Denoted(input)

LEMMA CidrIsRight ==
  ASSUME NEW input \in Input, input.kind = "cidr"
  PROVE  IsRight(input)
<1>1. input.base \in Address /\ input.prefix \in Nat
  BY DEF Input
<1>2. ParseRange(input) = ParseCidr(input.base, input.prefix)
  BY DEF ParseRange
<1>3. SUFFICES ASSUME ParseRange(input).ok
               PROVE  ParseRange(input).first..ParseRange(input).last = Denoted(input)
  BY DEF IsRight
<1>4. PICK h : h = Bits - input.prefix
  OBVIOUS
<1>5. input.prefix <= Bits /\ h \in 0..Bits
  <2>1. ~(input.prefix > Bits)
    BY <1>2, <1>3 DEF ParseCidr, Refused
  <2> QED
    BY <1>1, <1>4, <2>1, RangeAssumption
<1>6. PICK base \in Address : base = input.base
  BY <1>1
<1>7. PICK n \in Nat :
          /\ n = 2^h /\ n > h /\ Network(base, h) \in Nat
          /\ Broadcast(base, h) = Network(base, h) + n - 1
          /\ \A a : a \in Block(base, h) <=> a \in Network(base, h)..(Network(base, h) + n - 1)
          /\ \A r \in 0..(n - 1) : (Network(base, h) + r) % n = r
  BY <1>5, NetworkSpan
<1>8. PICK start \in Nat : start = Network(base, h)
  BY <1>7
<1>9. Denoted(input) = {a \in Block(base, h) : h >= 2 => a % n \notin {0, n - 1}}
  BY <1>4, <1>5, <1>6, <1>7 DEF Denoted
<1>10. ParseRange(input) = IF h >= 2 THEN Span(start + 1, start + n - 2) ELSE Span(start, start + n - 1)
  <2>1. ParseRange(input) = IF h >= 2 THEN Span(start + 1, start + n - 1 - 1)
                            ELSE Span(start, start + n - 1)
    BY <1>2, <1>3, <1>4, <1>6, <1>7, <1>8 DEF ParseCidr, Refused
  <2>2. start + n - 1 - 1 = start + n - 2
    OBVIOUS
  <2> QED
    BY <2>1, <2>2
<1>11. ASSUME NEW a
       PROVE  a \in Block(base, h) => start + (a % n) = a /\ a % n \in 0..(n - 1)
  <2>1. ASSUME a \in start..(start + n - 1) PROVE start + (a % n) = a /\ a % n \in 0..(n - 1)
    <3>1. PICK r \in 0..(n - 1) : a = start + r
      <4>1. a - start \in 0..(n - 1) /\ a = start + (a - start)
        BY <2>1
      <4> QED
        BY <4>1
    <3>2. a % n = r
      BY <1>7, <1>8, <3>1
    <3> QED
      BY <3>1, <3>2
  <2> QED
    BY <1>7, <1>8, <2>1
<1>12. CASE h >= 2
  <2>1. ParseRange(input).first = start + 1 /\ ParseRange(input).last = start + n - 2
    BY <1>10, <1>12 DEF Span
  <2>2. ASSUME NEW a PROVE a \in (start + 1)..(start + n - 2) <=> a \in Denoted(input)
    <3>1. ASSUME a \in Denoted(input) PROVE a \in (start + 1)..(start + n - 2)
      <4>1. PICK r : r = a % n
        OBVIOUS
      <4>2. r \in 0..(n - 1) /\ a = start + r /\ r # 0 /\ r # n - 1
        BY <1>9, <1>11, <1>12, <3>1, <4>1
      <4> QED
        BY <4>2
    <3>2. ASSUME a \in (start + 1)..(start + n - 2) PROVE a \in Denoted(input)
      <4>1. PICK r \in 0..(n - 1) : a = start + r /\ r # 0 /\ r # n - 1
        <5>1. a - start \in 0..(n - 1) /\ a = start + (a - start) /\ a - start # 0 /\ a - start # n - 1
          BY <3>2
        <5> QED
          BY <5>1
      <4>2. a \in start..(start + n - 1)
        BY <3>2
      <4>3. a \in Block(base, h) /\ a % n = r
        BY <1>7, <1>8, <4>1, <4>2
      <4> QED
        BY <1>9, <4>1, <4>3
    <3> QED
      BY <3>1, <3>2
  <2> QED
    BY <2>1, <2>2
<1>13. CASE ~(h >= 2)
  <2>1. ParseRange(input).first = start /\ ParseRange(input).last = start + n - 1
    BY <1>10, <1>13 DEF Span
  <2>2. \A a : a \in Denoted(input) <=> a \in start..(start + n - 1)
    BY <1>7, <1>8, <1>9, <1>13
  <2> QED
    BY <2>1, <2>2
<1> QED
  BY <1>12, <1>13

LEMMA OctetIsRight ==
  ASSUME NEW input \in Input, input.kind = "octet"
  PROVE  IsRight(input)
<1>1. input.first \in Address /\ input.last \in 0..(2^OctetBits - 1) /\ OctetBits \in 0..Bits
  BY RangeAssumption DEF Input
<1>2. PICK base \in Address : base = input.first
  BY <1>1
<1>3. PICK n \in Nat :
          /\ n = 2^OctetBits /\ Network(base, OctetBits) \in Nat
          /\ Network(base, OctetBits) <= base /\ base < Network(base, OctetBits) + n
          /\ \A a : a \in Block(base, OctetBits)
                      <=> a \in Network(base, OctetBits)..(Network(base, OctetBits) + n - 1)
          /\ \A r \in 0..(n - 1) : (Network(base, OctetBits) + r) % n = r
  BY <1>1, NetworkSpan
<1>4. PICK start \in Nat : start = Network(base, OctetBits)
  BY <1>3
<1>5. PICK last \in 0..(n - 1) : last = input.last
  BY <1>1, <1>3
<1>6. base \in Nat /\ start <= base
  <2>1. base \in Nat
    BY DEF Address
  <2> QED
    BY <1>3, <1>4, <2>1
<1>7. ParseRange(input) = ParseSpan(base, start + last)
  BY <1>2, <1>4, <1>5 DEF ParseRange
<1>8. Denoted(input) = {a \in Block(base, OctetBits) : a >= base /\ a % n <= last}
  BY <1>2, <1>3, <1>5 DEF Denoted
<1>9. ASSUME NEW a PROVE a \in base..(start + last) <=> a \in Denoted(input)
  <2>1. ASSUME a \in start..(start + n - 1) PROVE a = start + (a % n) /\ a % n \in 0..(n - 1)
    <3>1. PICK r \in 0..(n - 1) : a = start + r
      <4>1. a - start \in 0..(n - 1) /\ a = start + (a - start)
        BY <2>1
      <4> QED
        BY <4>1
    <3>2. a % n = r
      BY <1>3, <1>4, <3>1
    <3> QED
      BY <3>1, <3>2
  <2>2. ASSUME a \in Denoted(input) PROVE a \in base..(start + last)
    <3>1. PICK r : r = a % n
      OBVIOUS
    <3>2. a \in start..(start + n - 1) /\ a >= base /\ r <= last
      BY <1>3, <1>4, <1>8, <2>2, <3>1
    <3>3. a = start + r /\ r \in 0..(n - 1)
      BY <2>1, <3>1, <3>2
    <3> QED
      BY <1>6, <3>2, <3>3
  <2>3. ASSUME a \in base..(start + last) PROVE a \in Denoted(input)
    <3>1. PICK r : r = a % n
      OBVIOUS
    <3>2. a \in start..(start + n - 1) /\ a >= base
      BY <1>6, <2>3
    <3>3. a = start + r /\ r \in 0..(n - 1)
      BY <2>1, <3>1, <3>2
    <3>4. r <= last
      BY <2>3, <3>3
    <3> QED
      BY <1>3, <1>4, <1>8, <3>1, <3>2, <3>4
  <2> QED
    BY <2>2, <2>3
<1>10. ASSUME ParseRange(input).ok
       PROVE  ParseRange(input).first = base /\ ParseRange(input).last = start + last
  BY <1>7, <1>10 DEF ParseSpan, Refused, Span
<1> QED
  BY <1>9, <1>10 DEF IsRight

\* The other notations need no arithmetic.
LEMMA OthersAreRight ==
  ASSUME NEW input \in Input, input.kind \in {"range", "single", "junk"}
  PROVE  IsRight(input)
<1>1. CASE input.kind = "range"
  <2>1. ParseRange(input) = ParseSpan(input.first, input.last) /\ Denoted(input) = input.first..input.last
    BY <1>1 DEF ParseRange, Denoted
  <2> QED
    BY <2>1 DEF IsRight, ParseSpan, Refused, Span
<1>2. CASE input.kind = "single"
  <2>1. ParseRange(input) = Span(input.first, input.first) /\ Denoted(input) = {input.first}
    BY <1>2 DEF ParseRange, Denoted
  <2>2. input.first \in Address
    BY <1>2 DEF Input
  <2>3. input.first..input.first = {input.first}
    BY <2>2 DEF Address
  <2> QED
    BY <2>1, <2>3 DEF IsRight, Span
<1>3. CASE input.kind = "junk"
  BY <1>3 DEF IsRight, ParseRange, Refused
<1> QED
  BY <1>1, <1>2, <1>3

\* parse_ip_range returns exactly the addresses that an input it accepts stands for: blocks
\* without their network and broadcast addresses, ranges in both notations, single addresses.
THEOREM ParserIsRight ==
  ASSUME NEW input \in Input, ParseRange(input).ok
  PROVE  ParseRange(input).first..ParseRange(input).last = Denoted(input)
<1>1. input.kind \in {"cidr", "range", "octet", "single", "junk"}
  BY DEF Input
<1>2. IsRight(input)
  BY <1>1, CidrIsRight, OctetIsRight, OthersAreRight
<1> QED
  BY <1>2 DEF IsRight

-----------------------------------------------------------------------------
(* What the scan comes to.                                                 *)

\* When print_progress ends, every port of every address the target stands for has
\* been tried, nothing else has, and what is open is in the channel.
THEOREM ProgressStaysHonest == Spec => []ProgressIsHonest
<1>1. ScanInv => ProgressIsHonest
  <2> SUFFICES ASSUME ScanInv, ppc = "exit", NEW s \in Sockets
               PROVE  /\ tries[s] = 1 <=> s[1] \in Denoted(target)
                      /\ s \in isOpen => chan[s] = 1
    BY DEF ProgressIsHonest
  <2>1. target \in Targets /\ Scope.ok /\ scanned >= Total
    BY DEF ScanInv, ScanTypes, OnlyParsed, AtEnd
  <2>2. s \in Scanned <=> s[1] \in Denoted(target)
    BY <2>1, PortScanAssumption, ParserIsRight DEF Scanned, Sockets, Scope
  <2>3. IF s \in Scanned THEN Finished(s) ELSE Fresh(s)
    BY <2>1, AllFinished
  <2> QED
    BY <2>2, <2>3 DEF Finished, Fresh
<1> QED
  BY <1>1, ScanInvariant, PTL

\* And then the report names exactly the ports that accepted a connection.
THEOREM ReportStaysExact == Spec => []ReportIsExact
<1>1. ScanInv => ReportIsExact
  <2> SUFFICES ASSUME ScanInv, mpc = "done"
               PROVE  report = isOpen /\ isOpen \subseteq Denoted(target) \X Ports
    BY DEF ReportIsExact
  <2>1. /\ target \in Targets /\ Scope.ok /\ scanned >= Total /\ report = isOpen
        /\ isOpen \subseteq Sockets
    BY DEF ScanInv, ScanTypes, OnlyParsed, AtEnd
  <2>2. \A s \in Sockets \ Scanned : s \notin isOpen
    BY <2>1, AllFinished DEF Fresh
  <2>3. Scanned = Denoted(target) \X Ports
    BY <2>1, PortScanAssumption, ParserIsRight DEF Scanned, Scope
  <2> QED
    BY <2>1, <2>2, <2>3
<1> QED
  BY <1>1, ScanInvariant, PTL
=============================================================================
