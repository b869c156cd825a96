--------------------------- MODULE PacketsProofs ---------------------------
(***************************************************************************)
(* Proofs about Packets, for every set of frames, requests, hosts, ports   *)
(* and MACs, every window and threshold, and every size of the buffer and  *)
(* of a frame: the type invariant; that exactly what was asked for is      *)
(* printed; that no port scan of this host and no change of a MAC goes     *)
(* unreported in what is printed; and that what was printed is saved.      *)
(***************************************************************************)
EXTENDS Packets, FiniteSetTheorems, WellFoundedInduction, TLAPS

USE PacketsAssumption, PcapAssumption

Entries == [frame : Frames, at : 0..MaxTime, shown : BOOLEAN, alert : BOOLEAN]
HitRecords == [at : 0..MaxTime, port : Ports]

\* The part of the state the trackers and the log are typed by.
TrackTypes ==
    /\ now \in 0..MaxTime
    /\ recent \in [Hosts -> Seq(HitRecords)]
    /\ alerted \in [Hosts -> {Never} \cup 0..MaxTime]
    /\ known \in [Hosts -> Macs \cup {NoMac}]
    /\ log \in Seq(Entries)

FilterTypes ==
    /\ filter \in [protocol : Protocols, port : Ports \cup {Unset}, host : Hosts \cup {Unset},
                   pcap : BOOLEAN]
    /\ pc \in {"recv", "header", "frame", "flush", "gone"}

-----------------------------------------------------------------------------
(* The state's types.                                                      *)

\* A frame's fields are what the parser reads out of it.
LEMMA FrameTypes ==
  ASSUME NEW f \in Frames
  PROVE  /\ f.kind \in Kinds /\ f.whole \in BOOLEAN
         /\ f.src \in Hosts /\ f.dst \in Hosts
         /\ f.sp \in Ports /\ f.dp \in Ports /\ f.mac \in Macs
  BY DEF Kinds

\* A set of numbers that is not empty has a least one.
LEMMA LeastNat ==
  ASSUME NEW S \in SUBSET Nat, S # {}
  PROVE  \E m \in S : \A k \in S : m <= k
<1>1. PICK m \in S : \A k \in S : ~(<<k, m>> \in OpToRel(<, Nat))
  BY WFMin, NatLessThanWellFounded
<1>2. ASSUME NEW k \in S, k < m PROVE FALSE
  <2>1. <<k, m>> \in OpToRel(<, Nat)
    BY <1>2, Zenon DEF OpToRel
  <2> QED
    BY <1>1, <2>1
<1> QED
  BY <1>2

\* Popping from the front leaves a suffix that starts at the first hit of the window.
LEMMA FreshIsSuffix ==
  ASSUME NEW hits \in Seq(HitRecords), NEW at \in 0..MaxTime,
         hits # <<>>, hits[Len(hits)].at = at
  PROVE  \E first \in DOMAIN hits :
            /\ at - hits[first].at <= Window
            /\ \A j \in 1..(first - 1) : at - hits[j].at > Window
            /\ Fresh(hits, at) = SubSeq(hits, first, Len(hits))
<1> DEFINE kept == {i \in DOMAIN hits : at - hits[i].at <= Window}
           first == CHOOSE i \in kept : \A j \in kept : i <= j
<1>1. /\ DOMAIN hits = 1..Len(hits) /\ Len(hits) \in Nat /\ Len(hits) \in DOMAIN hits
      /\ \A i \in DOMAIN hits : hits[i] \in HitRecords
  OBVIOUS
<1>2. Len(hits) \in kept /\ kept \in SUBSET Nat
  BY <1>1
<1>3. first \in kept /\ \A j \in kept : first <= j
  <2> HIDE DEF kept
  <2>1. \E i \in kept : \A j \in kept : i <= j
    BY <1>2, LeastNat
  <2> QED
    BY <2>1, Zenon
<1>4. Fresh(hits, at) = SubSeq(hits, first, Len(hits))
  BY DEF Fresh
<1>5. \A j \in 1..(first - 1) : j \in DOMAIN hits /\ j \notin kept
  BY <1>1, <1>3
<1>6. \A j \in 1..(first - 1) : at - hits[j].at > Window
  <2> SUFFICES ASSUME NEW j \in 1..(first - 1) PROVE at - hits[j].at > Window
    OBVIOUS
  <2>1. hits[j].at \in Nat
    BY <1>1, <1>5 DEF HitRecords
  <2> QED
    BY <1>5, <2>1
<1> QED
  BY <1>3, <1>4, <1>6

\* So it leaves a deque, whose last element is the hit just pushed.
LEMMA FreshType ==
  ASSUME NEW hits \in Seq(HitRecords), NEW at \in 0..MaxTime,
         hits # <<>>, hits[Len(hits)].at = at
  PROVE  Fresh(hits, at) \in Seq(HitRecords)
<1>1. PICK first \in DOMAIN hits : Fresh(hits, at) = SubSeq(hits, first, Len(hits))
  BY FreshIsSuffix
<1> QED
  BY <1>1

\* A filter is what the dashboard's request says.
LEMMA FilterInit == Init => FilterTypes
  BY DEF Init, FilterTypes, FilterOf, Protocols

LEMMA FilterStep == FilterTypes /\ [Next]_vars => FilterTypes'
<1> SUFFICES ASSUME FilterTypes, [Next]_vars PROVE FilterTypes'
  OBVIOUS
<1> USE DEF FilterTypes
<1>1. CASE \E f \in Frames, at \in now..MaxTime : Receive(f, at)
  BY <1>1 DEF Receive
<1>2. CASE WriteHeader \/ WriteFrame \/ Flush
  BY <1>2 DEF WriteHeader, WriteFrame, Flush
<1>3. CASE InterfaceGone \/ Kill
  BY <1>3 DEF InterfaceGone, Kill
<1>4. CASE UNCHANGED vars
  BY <1>4 DEF vars
<1> QED
  BY <1>1, <1>2, <1>3, <1>4 DEF Next

\* The entry of a frame, and the hit of a printed TCP packet.
EntryOf(f, at, alert) == [frame |-> f, at |-> at, shown |-> Shown(f), alert |-> alert]
HitAt(f, at) == [at |-> at, port |-> f.dp]

\* Receiving a frame adds its entry to the log.
LEMMA ReceiveLogs ==
  ASSUME TrackTypes, NEW f \in Frames, NEW at \in now..MaxTime, Receive(f, at)
  PROVE  /\ at \in 0..MaxTime /\ now' = at
         /\ \E alert \in BOOLEAN :
               /\ log' = Append(log, EntryOf(f, at, alert))
               /\ EntryOf(f, at, alert) \in Entries
               /\ \/ f.kind = "tcp" /\ Shown(f) /\ CheckScan(f.src, f.dp, at, alert)
                  \/ f.kind = "arp" /\ Shown(f) /\ CheckArp(f.src, f.mac, alert)
                  \/ /\ f.kind \notin {"tcp", "arp"} \/ ~Shown(f)
                     /\ ~alert /\ UNCHANGED trackers
<1>1. now \in Nat /\ MaxTime \in Nat
  BY DEF TrackTypes
<1>2. at \in 0..MaxTime /\ now' = at
  BY <1>1 DEF Receive
<1>3. Shown(f) \in BOOLEAN
  BY DEF Shown, ShownIp, ShownArp
<1>4. PICK alert \in BOOLEAN :
         /\ \/ Shown(f) /\ Track(f, at, alert)
            \/ ~Shown(f) /\ ~alert /\ UNCHANGED trackers
         /\ log' = Append(log, EntryOf(f, at, alert))
  BY Zenon DEF Receive, EntryOf
<1>5. EntryOf(f, at, alert) \in Entries
  BY <1>2, <1>3 DEF EntryOf, Entries
<1> QED
  BY <1>2, <1>4, <1>5, Zenon DEF Track

\* Everything else the capture does leaves the log and the trackers alone.
LEMMA LogUntouched ==
  ASSUME [Next]_vars, ~ \E f \in Frames, at \in now..MaxTime : Receive(f, at)
  PROVE  UNCHANGED <<filter, now, recent, alerted, known, log>>
  BY DEF Next, WriteHeader, WriteFrame, Flush, InterfaceGone, Kill, vars, trackers

LEMMA TrackInit == Init => TrackTypes
  BY DEF Init, TrackTypes

LEMMA TrackStep == TrackTypes /\ [Next]_vars => TrackTypes'
<1> SUFFICES ASSUME TrackTypes, [Next]_vars PROVE TrackTypes'
  OBVIOUS
<1> USE DEF TrackTypes
<1>1. ASSUME NEW f \in Frames, NEW at \in now..MaxTime, Receive(f, at) PROVE TrackTypes'
  <2>1. PICK alert \in BOOLEAN :
           /\ log' = Append(log, EntryOf(f, at, alert))
           /\ EntryOf(f, at, alert) \in Entries
           /\ \/ f.kind = "tcp" /\ Shown(f) /\ CheckScan(f.src, f.dp, at, alert)
              \/ f.kind = "arp" /\ Shown(f) /\ CheckArp(f.src, f.mac, alert)
              \/ /\ f.kind \notin {"tcp", "arp"} \/ ~Shown(f)
                 /\ ~alert /\ UNCHANGED trackers
    BY <1>1, ReceiveLogs
  <2>2. at \in 0..MaxTime /\ now' = at
    BY <1>1, ReceiveLogs
  <2>3. log' \in Seq(Entries)
    BY <2>1
  <2>4. CASE f.kind = "tcp" /\ CheckScan(f.src, f.dp, at, alert)
    <3> DEFINE pushed == Append(recent[f.src], HitAt(f, at))
    <3>1. HitAt(f, at) \in HitRecords /\ f.src \in Hosts
      BY <2>2, FrameTypes DEF HitAt, HitRecords
    <3>a. recent[f.src] \in Seq(HitRecords)
      BY <3>1 DEF TrackTypes
    <3>b. /\ pushed \in Seq(HitRecords) /\ Len(pushed) = Len(recent[f.src]) + 1
          /\ pushed[Len(pushed)] = HitAt(f, at)
      BY <3>1, <3>a
    <3>c. HitAt(f, at).at = at
      BY DEF HitAt
    <3> HIDE DEF pushed
    <3>2. pushed \in Seq(HitRecords) /\ pushed # <<>> /\ pushed[Len(pushed)].at = at
      BY <3>a, <3>b, <3>c
    <3>3. Fresh(pushed, at) \in Seq(HitRecords)
      BY <2>2, <3>2, FreshType
    <3>4. /\ recent' = [recent EXCEPT ![f.src] = Fresh(pushed, at)]
          /\ alerted' = IF alert THEN [alerted EXCEPT ![f.src] = at] ELSE alerted
          /\ known' = known
      BY <2>4 DEF CheckScan, pushed, HitAt
    <3> QED
      BY <2>2, <2>3, <3>1, <3>3, <3>4
  <2>5. CASE f.kind = "arp" /\ CheckArp(f.src, f.mac, alert)
    BY <2>2, <2>3, <2>5, FrameTypes DEF CheckArp, Claim
  <2>6. CASE UNCHANGED trackers
    BY <2>2, <2>3, <2>6 DEF trackers
  <2> QED
    BY <2>1, <2>4, <2>5, <2>6
<1>2. CASE ~ \E f \in Frames, at \in now..MaxTime : Receive(f, at)
  BY <1>2, LogUntouched
<1> QED
  BY <1>1, <1>2

-----------------------------------------------------------------------------
(* What is printed.                                                        *)

\* Whichever branch of the parser a frame ends up in, it is printed when it is asked for.
LEMMA ShownIffAsked ==
  ASSUME FilterTypes, NEW f \in Frames
  PROVE  Shown(f) <=> Asked(f)
<1>1. f.kind \in Kinds /\ f.src \in Hosts /\ f.dst \in Hosts /\ f.sp \in Ports /\ f.dp \in Ports
  BY FrameTypes
<1>2. /\ filter.protocol \in {"all", "tcp", "udp", "icmp", "arp"}
      /\ filter.port \in Ports \cup {Unset} /\ filter.host \in Hosts \cup {Unset}
  BY DEF FilterTypes, Protocols
<1> USE DEF Shown, ShownIp, ShownArp, Passes, Asked
<1>3. CASE f.kind \in {"tcp", "udp"}
  BY <1>1, <1>2, <1>3
<1>4. CASE f.kind \in {"icmp", "arp"}
  BY <1>1, <1>2, <1>4
<1>5. CASE f.kind \in {"otherIp", "otherEther"}
  BY <1>1, <1>2, <1>5
<1> QED
  BY <1>1, <1>3, <1>4, <1>5 DEF Kinds

\* The log after one more entry.
LEMMA Appended ==
  ASSUME TrackTypes, NEW e \in Entries, log' = Append(log, e)
  PROVE  /\ Len(log) \in Nat /\ DOMAIN log = 1..Len(log)
         /\ Len(log') = Len(log) + 1 /\ DOMAIN log' = 1..(Len(log) + 1)
         /\ \A j \in 1..Len(log) : log[j] \in Entries /\ log'[j] = log[j]
         /\ log'[Len(log) + 1] = e
  BY DEF TrackTypes

LEMMA ShownStep ==
  ASSUME TrackTypes, FilterTypes, ShownIsAsked, [Next]_vars
  PROVE  ShownIsAsked'
<1>1. ASSUME NEW f \in Frames, NEW at \in now..MaxTime, Receive(f, at) PROVE ShownIsAsked'
  <2>1. PICK alert \in BOOLEAN :
           log' = Append(log, EntryOf(f, at, alert)) /\ EntryOf(f, at, alert) \in Entries
    BY <1>1, ReceiveLogs
  <2>2. EntryOf(f, at, alert).frame = f /\ (EntryOf(f, at, alert).shown <=> Asked(f))
    BY ShownIffAsked DEF EntryOf
  <2>3. filter' = filter
    BY <1>1 DEF Receive
  <2>4. ASSUME NEW k \in DOMAIN log' PROVE (log[k].shown <=> Asked(log[k].frame))'
    <3>1. CASE k = Len(log) + 1
      <4>1. log'[k].frame = f /\ (log'[k].shown <=> Asked(f))
        BY <2>1, <2>2, <3>1, Appended
      <4> QED
        BY <2>3, <4>1 DEF Asked
    <3>2. CASE k \in DOMAIN log
      <4>1. log'[k] = log[k] /\ k \in DOMAIN log
        BY <2>1, <3>2, Appended
      <4>2. log[k].shown <=> Asked(log[k].frame)
        BY <4>1 DEF ShownIsAsked
      <4> QED
        BY <2>3, <4>1, <4>2 DEF Asked
    <3>3. k = Len(log) + 1 \/ k \in DOMAIN log
      BY <2>1, Appended
    <3> QED
      BY <3>1, <3>2, <3>3
  <2> QED
    BY <2>4 DEF ShownIsAsked
<1>2. CASE ~ \E f \in Frames, at \in now..MaxTime : Receive(f, at)
  BY <1>2, LogUntouched DEF ShownIsAsked, Asked
<1> QED
  BY <1>1, <1>2

-----------------------------------------------------------------------------
(* ARP spoofing.                                                           *)

\* Entry j is a printed ARP claim of address ip.
ClaimOf(j, ip) ==
    /\ log[j].shown /\ log[j].frame.kind = "arp"
    /\ log[j].frame.mac # ZeroMac /\ log[j].frame.src = ip

\* The tracker knows, of each address, the MAC of the last claim in the log.
KnownIsLast ==
    \A ip \in Hosts :
        IF known[ip] = NoMac
        THEN \A j \in DOMAIN log : ~ClaimOf(j, ip)
        ELSE \E j \in DOMAIN log :
                /\ ClaimOf(j, ip) /\ log[j].frame.mac = known[ip]
                /\ \A i \in (j + 1)..Len(log) : ~ClaimOf(i, ip)

\* A packet that is no claim leaves what is known as it is.
LEMMA NoClaimKeepsKnown ==
  ASSUME TrackTypes, KnownIsLast, NEW e \in Entries, log' = Append(log, e),
         ~(e.shown /\ e.frame.kind = "arp" /\ e.frame.mac # ZeroMac), known' = known
  PROVE  KnownIsLast'
<1>0. PICK m \in Nat : m = Len(log) + 1
  BY Appended
<1>1. /\ Len(log) \in Nat /\ m = Len(log) + 1
      /\ DOMAIN log = 1..Len(log) /\ DOMAIN log' = 1..m /\ Len(log') = m
      /\ \A j \in 1..Len(log) : log'[j] = log[j]
      /\ log'[m] = e
  BY <1>0, Appended
<1>2. ASSUME NEW ip \in Hosts
      PROVE  /\ \A j \in 1..Len(log) : ClaimOf(j, ip)' <=> ClaimOf(j, ip)
             /\ ~ClaimOf(m, ip)'
  BY <1>1 DEF ClaimOf
<1>3. ASSUME NEW ip \in Hosts, known[ip] = NoMac, NEW j \in DOMAIN log'
      PROVE  ~ClaimOf(j, ip)'
  BY <1>1, <1>2, <1>3 DEF KnownIsLast
<1>4. ASSUME NEW ip \in Hosts, known[ip] # NoMac
      PROVE  \E j \in DOMAIN log' :
                /\ ClaimOf(j, ip)' /\ log'[j].frame.mac = known[ip]
                /\ \A i \in (j + 1)..Len(log') : ~ClaimOf(i, ip)'
  <2>1. PICK j \in DOMAIN log : /\ ClaimOf(j, ip) /\ log[j].frame.mac = known[ip]
                                /\ \A i \in (j + 1)..Len(log) : ~ClaimOf(i, ip)
    BY <1>4 DEF KnownIsLast
  <2>2. ASSUME NEW i \in (j + 1)..Len(log') PROVE ~ClaimOf(i, ip)'
    BY <1>1, <1>2, <2>1
  <2>3. j \in DOMAIN log' /\ ClaimOf(j, ip)' /\ log'[j].frame.mac = known[ip]
    BY <1>1, <1>2, <2>1
  <2> QED
    BY <2>2, <2>3
<1> QED
  BY <1>3, <1>4 DEF KnownIsLast

\* A claim becomes the last one of its address.
LEMMA ClaimIsKnown ==
  ASSUME TrackTypes, KnownIsLast, NEW e \in Entries, log' = Append(log, e),
         e.shown, e.frame.kind = "arp", e.frame.mac # ZeroMac,
         known' = [known EXCEPT ![e.frame.src] = e.frame.mac]
  PROVE  KnownIsLast'
<1>0. PICK m \in Nat : m = Len(log) + 1
  BY Appended
<1>1. /\ Len(log) \in Nat /\ m = Len(log) + 1
      /\ DOMAIN log = 1..Len(log) /\ DOMAIN log' = 1..m /\ Len(log') = m
      /\ \A j \in 1..Len(log) : log'[j] = log[j]
      /\ log'[m] = e
  BY <1>0, Appended
<1>2. e.frame.src \in Hosts /\ e.frame.mac \in Macs /\ e.frame.mac # NoMac
  BY FrameTypes DEF Entries
<1>3. ASSUME NEW ip \in Hosts
      PROVE  /\ \A j \in 1..Len(log) : ClaimOf(j, ip)' <=> ClaimOf(j, ip)
             /\ ClaimOf(m, ip)' <=> ip = e.frame.src
  BY <1>1 DEF ClaimOf
<1>4. ASSUME NEW ip \in Hosts, ip # e.frame.src, known[ip] = NoMac, NEW j \in DOMAIN log'
      PROVE  ~ClaimOf(j, ip)'
  BY <1>1, <1>3, <1>4 DEF KnownIsLast
<1>5. ASSUME NEW ip \in Hosts, ip # e.frame.src, known[ip] # NoMac
      PROVE  \E j \in DOMAIN log' :
                /\ ClaimOf(j, ip)' /\ log'[j].frame.mac = known[ip]
                /\ \A i \in (j + 1)..Len(log') : ~ClaimOf(i, ip)'
  <2>1. PICK j \in DOMAIN log : /\ ClaimOf(j, ip) /\ log[j].frame.mac = known[ip]
                                /\ \A i \in (j + 1)..Len(log) : ~ClaimOf(i, ip)
    BY <1>5 DEF KnownIsLast
  <2>2. ASSUME NEW i \in (j + 1)..Len(log') PROVE ~ClaimOf(i, ip)'
    BY <1>1, <1>3, <1>5, <2>1
  <2>3. j \in DOMAIN log' /\ ClaimOf(j, ip)' /\ log'[j].frame.mac = known[ip]
    BY <1>1, <1>3, <2>1
  <2> QED
    BY <2>2, <2>3
<1>6. \E j \in DOMAIN log' :
         /\ ClaimOf(j, e.frame.src)' /\ log'[j].frame.mac = e.frame.mac
         /\ \A i \in (j + 1)..Len(log') : ~ClaimOf(i, e.frame.src)'
  <2>1. m \in DOMAIN log' /\ ClaimOf(m, e.frame.src)' /\ log'[m].frame.mac = e.frame.mac
    BY <1>1, <1>2, <1>3
  <2>2. \A i \in (m + 1)..Len(log') : FALSE
    BY <1>1
  <2> QED
    BY <2>1, <2>2
<1>7. \A ip \in Hosts : known'[ip] = IF ip = e.frame.src THEN e.frame.mac ELSE known[ip]
  BY <1>2 DEF TrackTypes
<1>8. ASSUME NEW ip \in Hosts
      PROVE  IF known'[ip] = NoMac
             THEN \A j \in DOMAIN log' : ~ClaimOf(j, ip)'
             ELSE \E j \in DOMAIN log' :
                     /\ ClaimOf(j, ip)' /\ log'[j].frame.mac = known'[ip]
                     /\ \A i \in (j + 1)..Len(log') : ~ClaimOf(i, ip)'
  <2>1. CASE ip = e.frame.src
    BY <1>2, <1>6, <1>7, <2>1
  <2>2. CASE ip # e.frame.src
    BY <1>4, <1>5, <1>7, <2>2
  <2> QED
    BY <2>1, <2>2
<1> QED
  BY <1>8 DEF KnownIsLast

\* An entry that is no printed ARP packet, or that raises an alert when its address is
\* known by another MAC, keeps the reports exact.
LEMMA SpoofEntry ==
  ASSUME TrackTypes, KnownIsLast, SpoofIsReported, NEW e \in Entries, log' = Append(log, e),
         (e.shown /\ e.frame.kind = "arp") =>
            (e.alert <=> /\ e.frame.mac # ZeroMac
                         /\ known[e.frame.src] \notin {NoMac, e.frame.mac})
  PROVE  SpoofIsReported'
<1>0. PICK m \in Nat : m = Len(log) + 1
  BY Appended
<1>1. /\ Len(log) \in Nat /\ m = Len(log) + 1
      /\ DOMAIN log = 1..Len(log) /\ DOMAIN log' = 1..m /\ Len(log') = m
      /\ \A j \in 1..Len(log) : log'[j] = log[j]
      /\ log'[m] = e
  BY <1>0, Appended
<1>2. e.frame.src \in Hosts /\ e.frame.mac \in Macs /\ e.frame.mac # NoMac
  BY FrameTypes DEF Entries
<1>3. ASSUME NEW k \in 1..Len(log), log'[k].shown, log'[k].frame.kind = "arp"
      PROVE  log'[k].alert <=>
                /\ Claims(k, k)'
                /\ \E j \in 1..(k - 1) :
                      /\ Claims(j, k)' /\ log'[j].frame.mac # log'[k].frame.mac
                      /\ \A i \in (j + 1)..(k - 1) : ~Claims(i, k)'
  <2>1. \A j \in 1..k : j \in 1..Len(log)
    BY <1>1
  <2>2. \A j \in 1..k : log'[j] = log[j] /\ (Claims(j, k)' <=> Claims(j, k))
    BY <1>1, <2>1 DEF Claims
  <2>3. log[k].alert <=>
           /\ Claims(k, k)
           /\ \E j \in 1..(k - 1) :
                 /\ Claims(j, k) /\ log[j].frame.mac # log[k].frame.mac
                 /\ \A i \in (j + 1)..(k - 1) : ~Claims(i, k)
    BY <1>1, <1>3 DEF SpoofIsReported
  <2>4. k \in 1..k /\ \A j \in 1..(k - 1) : j \in 1..k /\ \A i \in (j + 1)..(k - 1) : i \in 1..k
    BY <1>1
  <2> QED
    BY <2>2, <2>3, <2>4
<1>4. ASSUME e.shown, e.frame.kind = "arp"
      PROVE  e.alert <=>
                /\ Claims(m, m)'
                /\ \E j \in 1..(m - 1) :
                      /\ Claims(j, m)' /\ log'[j].frame.mac # e.frame.mac
                      /\ \A i \in (j + 1)..(m - 1) : ~Claims(i, m)'
  <2>1. /\ Claims(m, m)' <=> e.frame.mac # ZeroMac
        /\ \A j \in 1..Len(log) : Claims(j, m)' <=> ClaimOf(j, e.frame.src)
    <3>1. Claims(m, m)' <=> e.frame.mac # ZeroMac
      BY <1>1, <1>4 DEF Claims
    <3>2. ASSUME NEW j \in 1..Len(log) PROVE Claims(j, m)' <=> ClaimOf(j, e.frame.src)
      <4>1. log'[j] = log[j] /\ log'[m].frame.src = e.frame.src
        BY <1>1
      <4> QED
        BY <4>1 DEF Claims, ClaimOf
    <3> QED
      BY <3>1, <3>2
  <2>2. (\E j \in 1..Len(log) :
            /\ ClaimOf(j, e.frame.src) /\ log[j].frame.mac # e.frame.mac
            /\ \A i \in (j + 1)..Len(log) : ~ClaimOf(i, e.frame.src))
        <=> known[e.frame.src] \notin {NoMac, e.frame.mac}
    <3>1. CASE known[e.frame.src] = NoMac
      BY <1>1, <1>2, <3>1 DEF KnownIsLast
    <3>2. CASE known[e.frame.src] # NoMac
      <4>1. PICK j \in 1..Len(log) :
               /\ ClaimOf(j, e.frame.src) /\ log[j].frame.mac = known[e.frame.src]
               /\ \A i \in (j + 1)..Len(log) : ~ClaimOf(i, e.frame.src)
        BY <1>1, <1>2, <3>2 DEF KnownIsLast
      <4>2. ASSUME NEW k \in 1..Len(log), ClaimOf(k, e.frame.src),
                   \A i \in (k + 1)..Len(log) : ~ClaimOf(i, e.frame.src)
            PROVE  k = j
        BY <1>1, <4>1, <4>2
      <4> QED
        BY <3>2, <4>1, <4>2
    <3> QED
      BY <3>1, <3>2
  <2>3. m - 1 = Len(log)
    BY <1>1
  <2>4. \A j \in 1..Len(log) : \A i \in (j + 1)..Len(log) : i \in 1..Len(log)
    BY <1>1
  <2> QED
    BY <1>1, <1>4, <2>1, <2>2, <2>3, <2>4
<1>5. \A k \in DOMAIN log' : k \in 1..Len(log) \/ k = m
  BY <1>1
<1> QED
  BY <1>1, <1>3, <1>4, <1>5 DEF SpoofIsReported

LEMMA SpoofStep ==
  ASSUME TrackTypes, KnownIsLast, SpoofIsReported, [Next]_vars
  PROVE  KnownIsLast' /\ SpoofIsReported'
<1>1. ASSUME NEW f \in Frames, NEW at \in now..MaxTime, Receive(f, at)
      PROVE  KnownIsLast' /\ SpoofIsReported'
  <2>1. PICK alert \in BOOLEAN :
           /\ log' = Append(log, EntryOf(f, at, alert))
           /\ EntryOf(f, at, alert) \in Entries
           /\ \/ f.kind = "tcp" /\ Shown(f) /\ CheckScan(f.src, f.dp, at, alert)
              \/ f.kind = "arp" /\ Shown(f) /\ CheckArp(f.src, f.mac, alert)
              \/ /\ f.kind \notin {"tcp", "arp"} \/ ~Shown(f)
                 /\ ~alert /\ UNCHANGED trackers
    BY <1>1, ReceiveLogs
  <2> DEFINE e == EntryOf(f, at, alert)
  <2>2. e.frame = f /\ (e.shown <=> Shown(f)) /\ (e.alert <=> alert)
    BY DEF EntryOf
  <2>3. e \in Entries /\ log' = Append(log, e)
    BY <2>1
  <2> HIDE DEF e
  <2>4. CASE f.kind = "arp" /\ Shown(f) /\ CheckArp(f.src, f.mac, alert)
    <3>1. alert <=> f.mac # ZeroMac /\ known[f.src] \notin {NoMac, f.mac}
      BY <2>4 DEF CheckArp
    <3>2. SpoofIsReported'
      BY <2>2, <2>3, <3>1, SpoofEntry
    <3>3. CASE f.mac = ZeroMac
      <4>1. known' = known
        BY <2>4, <3>3 DEF CheckArp, Claim
      <4> QED
        BY <2>2, <2>3, <3>2, <3>3, <4>1, NoClaimKeepsKnown
    <3>4. CASE f.mac # ZeroMac
      <4>1. known' = [known EXCEPT ![f.src] = f.mac]
        BY <2>4, <3>4 DEF CheckArp, Claim
      <4> QED
        BY <2>2, <2>3, <2>4, <3>2, <3>4, <4>1, ClaimIsKnown
    <3> QED
      BY <3>3, <3>4
  <2>5. CASE ~(f.kind = "arp" /\ Shown(f))
    <3>1. known' = known
      BY <2>1, <2>5 DEF CheckScan, trackers
    <3> QED
      BY <2>2, <2>3, <2>5, <3>1, NoClaimKeepsKnown, SpoofEntry
  <2> QED
    BY <2>1, <2>4, <2>5
<1>2. CASE ~ \E f \in Frames, at \in now..MaxTime : Receive(f, at)
  BY <1>2, LogUntouched DEF KnownIsLast, SpoofIsReported, Claims, ClaimOf
<1> QED
  BY <1>1, <1>2

-----------------------------------------------------------------------------
(* Port scans.                                                             *)

\* Entry j is a printed TCP packet of source s.
HitOf(j, s) == log[j].shown /\ log[j].frame.kind = "tcp" /\ log[j].frame.src = s

\* The clock does not go back.
Timed ==
    /\ \A i, j \in DOMAIN log : i <= j => log[i].at <= log[j].at
    /\ \A i \in DOMAIN log : log[i].at <= now

\* Only what is printed is reported.
AlertIsShown == \A j \in DOMAIN log : log[j].alert => log[j].shown

Ordered(hits) == \A i, j \in DOMAIN hits : i <= j => hits[i].at <= hits[j].at

\* The deque of a source is ordered, every hit in it is in the log, and every hit of the
\* log that is still within the window is in it.
DequeOf(s) ==
    /\ Ordered(recent[s])
    /\ \A i \in DOMAIN recent[s] :
          \E j \in DOMAIN log : /\ HitOf(j, s)
                                /\ log[j].at = recent[s][i].at
                                /\ log[j].frame.dp = recent[s][i].port
    /\ \A j \in DOMAIN log :
          (HitOf(j, s) /\ now - log[j].at <= Window) =>
              \E i \in DOMAIN recent[s] : /\ recent[s][i].at = log[j].at
                                          /\ recent[s][i].port = log[j].frame.dp

DequeIsWindow == \A s \in Hosts : DequeOf(s)

\* alerted has the time of each source's last report.
AlertedIsLast ==
    \A s \in Hosts :
        /\ \A j \in DOMAIN log :
              (log[j].alert /\ HitOf(j, s)) => alerted[s] # Never /\ log[j].at <= alerted[s]
        /\ alerted[s] # Never =>
              \E j \in DOMAIN log : log[j].alert /\ HitOf(j, s) /\ log[j].at = alerted[s]

\* The tracker with its deque and cooldown decides as the whole log of printed TCP packets
\* would, whatever host they were sent to and whichever side had opened the connection.
TrackerAgrees ==
    \A k \in DOMAIN log :
        (log[k].shown /\ log[k].frame.kind = "tcp") =>
            (log[k].alert <=>
                /\ Cardinality({log[j].frame.dp : j \in Hits(k)}) >= Threshold
                /\ ~ReportedSince(k))

ScanInv == Timed /\ AlertIsShown /\ DequeIsWindow /\ AlertedIsLast /\ TrackerAgrees

\* Of an ordered deque, exactly the hits of the window are left.
LEMMA FreshKeepsWindow ==
  ASSUME NEW hits \in Seq(HitRecords), NEW at \in 0..MaxTime,
         hits # <<>>, hits[Len(hits)].at = at, Ordered(hits)
  PROVE  /\ Ordered(Fresh(hits, at))
         /\ \A i \in DOMAIN Fresh(hits, at) :
               /\ at - Fresh(hits, at)[i].at <= Window
               /\ \E k \in DOMAIN hits : Fresh(hits, at)[i] = hits[k]
         /\ \A k \in DOMAIN hits : at - hits[k].at <= Window =>
               \E i \in DOMAIN Fresh(hits, at) : Fresh(hits, at)[i] = hits[k]
<1>1. PICK first \in DOMAIN hits :
            /\ at - hits[first].at <= Window
            /\ \A j \in 1..(first - 1) : at - hits[j].at > Window
            /\ Fresh(hits, at) = SubSeq(hits, first, Len(hits))
  BY FreshIsSuffix
<1>2. PICK q : q = Fresh(hits, at)
  OBVIOUS
<1>3. /\ Len(hits) \in Nat /\ DOMAIN hits = 1..Len(hits)
      /\ \A i \in DOMAIN hits : hits[i].at \in Nat
  <2>1. Len(hits) \in Nat /\ DOMAIN hits = 1..Len(hits)
    OBVIOUS
  <2>2. \A i \in DOMAIN hits : hits[i] \in HitRecords
    OBVIOUS
  <2> QED
    BY <2>1, <2>2 DEF HitRecords
<1>4. /\ DOMAIN q = 1..(Len(hits) - first + 1)
      /\ \A i \in DOMAIN q : q[i] = hits[first + i - 1] /\ first + i - 1 \in DOMAIN hits
                             /\ first <= first + i - 1
  BY <1>1, <1>2, <1>3
<1>5. Ordered(q)
  <2>1. ASSUME NEW i \in DOMAIN q, NEW j \in DOMAIN q, i <= j
        PROVE  hits[first + i - 1].at <= hits[first + j - 1].at
    <3>1. first + i - 1 \in DOMAIN hits /\ first + j - 1 \in DOMAIN hits
      BY <1>4
    <3>2. first + i - 1 <= first + j - 1
      BY <1>3, <1>4, <2>1
    <3> QED
      BY <3>1, <3>2 DEF Ordered
  <2> QED
    BY <1>4, <2>1 DEF Ordered
<1>6. \A i \in DOMAIN q : at - q[i].at <= Window /\ \E k \in DOMAIN hits : q[i] = hits[k]
  <2> SUFFICES ASSUME NEW i \in DOMAIN q
               PROVE  at - q[i].at <= Window /\ \E k \in DOMAIN hits : q[i] = hits[k]
    OBVIOUS
  <2>1. q[i] = hits[first + i - 1] /\ first + i - 1 \in DOMAIN hits /\ first <= first + i - 1
    BY <1>4
  <2>2. hits[first].at <= hits[first + i - 1].at
    BY <2>1 DEF Ordered
  <2> QED
    BY <1>1, <1>3, <2>1, <2>2
<1>7. ASSUME NEW k \in DOMAIN hits, at - hits[k].at <= Window
      PROVE  \E i \in DOMAIN q : q[i] = hits[k]
  <2>1. ~(at - hits[k].at > Window)
    BY <1>3, <1>7
  <2>2. first <= k
    BY <1>1, <1>3, <2>1
  <2>3. k - first + 1 \in DOMAIN q /\ first + (k - first + 1) - 1 = k
    BY <1>3, <1>4, <2>2
  <2> QED
    BY <1>4, <2>3
<1> QED
  BY <1>2, <1>5, <1>6, <1>7

\* The deque of a source that the entry is no hit of stays exact.
LEMMA OtherDeque ==
  ASSUME TrackTypes, NEW s \in Hosts, DequeOf(s), NEW e \in Entries, log' = Append(log, e),
         ~(e.shown /\ e.frame.kind = "tcp" /\ e.frame.src = s), recent'[s] = recent[s],
         now' \in now..MaxTime
  PROVE  DequeOf(s)'
<1>0. PICK m \in Nat : m = Len(log) + 1
  BY Appended
<1>1. /\ Len(log) \in Nat /\ m = Len(log) + 1
      /\ DOMAIN log = 1..Len(log) /\ DOMAIN log' = 1..m
      /\ \A j \in 1..Len(log) : log[j] \in Entries /\ log'[j] = log[j]
      /\ log'[m] = e
  BY <1>0, Appended
<1>2. /\ \A j \in 1..Len(log) : HitOf(j, s)' <=> HitOf(j, s)
      /\ ~HitOf(m, s)'
  BY <1>1 DEF HitOf
<1>3. Ordered(recent'[s])
  BY DEF DequeOf
<1>4. ASSUME NEW i \in DOMAIN recent'[s]
      PROVE  \E j \in DOMAIN log' : /\ HitOf(j, s)'
                                    /\ log'[j].at = recent'[s][i].at
                                    /\ log'[j].frame.dp = recent'[s][i].port
  <2>1. PICK j \in DOMAIN log : /\ HitOf(j, s)
                                /\ log[j].at = recent[s][i].at
                                /\ log[j].frame.dp = recent[s][i].port
    BY <1>4 DEF DequeOf
  <2> QED
    BY <1>1, <1>2, <2>1
<1>5. ASSUME NEW j \in DOMAIN log', HitOf(j, s)', now' - log'[j].at <= Window
      PROVE  \E i \in DOMAIN recent'[s] : /\ recent'[s][i].at = log'[j].at
                                          /\ recent'[s][i].port = log'[j].frame.dp
  <2>1. j \in 1..Len(log) /\ log'[j] = log[j] /\ HitOf(j, s)
    BY <1>1, <1>2, <1>5
  <2>2. log[j].at \in Nat /\ now \in Nat /\ now' \in Nat /\ now <= now'
    <3>1. log[j] \in Entries /\ \A x \in Entries : x.at \in Nat
      BY <1>1, <2>1 DEF Entries
    <3>2. now \in Nat /\ now' \in Nat /\ now <= now'
      BY DEF TrackTypes
    <3> QED
      BY <3>1, <3>2
  <2>3. now - log[j].at <= Window
    BY <1>5, <2>1, <2>2
  <2> QED
    BY <1>1, <2>1, <2>3 DEF DequeOf
<1> QED
  BY <1>3, <1>4, <1>5 DEF DequeOf, Ordered

\* The deque of the source of a hit: pushed, then popped; all of it is in the window.
LEMMA PushedDeque ==
  ASSUME TrackTypes, Timed, NEW e \in Entries, log' = Append(log, e),
         e.shown, e.frame.kind = "tcp", now' = e.at, now <= e.at,
         NEW s \in Hosts, s = e.frame.src, DequeOf(s),
         recent'[s] = Fresh(Append(recent[s], HitAt(e.frame, e.at)), e.at)
  PROVE  /\ DequeOf(s)'
         /\ \A i \in DOMAIN recent'[s] : e.at - recent'[s][i].at <= Window
<1>0. PICK m \in Nat : m = Len(log) + 1
  BY Appended
<1>1. /\ Len(log) \in Nat /\ m = Len(log) + 1
      /\ DOMAIN log = 1..Len(log) /\ DOMAIN log' = 1..m
      /\ \A j \in 1..Len(log) : log[j] \in Entries /\ log'[j] = log[j]
      /\ log'[m] = e
  BY <1>0, Appended
<1>2. /\ \A j \in 1..Len(log) : HitOf(j, s)' <=> HitOf(j, s)
      /\ HitOf(m, s)'
  BY <1>1 DEF HitOf
<1>3. PICK hit : hit = HitAt(e.frame, e.at)
  OBVIOUS
<1>4. hit \in HitRecords /\ hit.at = e.at /\ hit.port = e.frame.dp /\ e.at \in 0..MaxTime
  BY <1>3, FrameTypes DEF HitAt, HitRecords, Entries
<1>5. PICK old : old = recent[s]
  OBVIOUS
<1>6. /\ old \in Seq(HitRecords) /\ Len(old) \in Nat /\ DOMAIN old = 1..Len(old)
      /\ \A i \in DOMAIN old : old[i] \in HitRecords /\ old[i].at \in Nat
  <2>1. old \in Seq(HitRecords)
    BY <1>5 DEF TrackTypes
  <2>2. \A i \in DOMAIN old : old[i] \in HitRecords
    BY <2>1
  <2>3. \A hr \in HitRecords : hr.at \in Nat
    BY DEF HitRecords
  <2> QED
    BY <2>1, <2>2, <2>3
<1>7. PICK pushed : pushed = Append(old, hit)
  OBVIOUS
<1>8. /\ pushed \in Seq(HitRecords) /\ pushed # <<>> /\ Len(pushed) = Len(old) + 1
      /\ DOMAIN pushed = 1..(Len(old) + 1)
      /\ pushed[Len(old) + 1] = hit /\ \A i \in 1..Len(old) : pushed[i] = old[i]
  BY <1>4, <1>6, <1>7
<1>9. \A i \in DOMAIN old : old[i].at <= e.at
  <2> SUFFICES ASSUME NEW i \in DOMAIN old PROVE old[i].at <= e.at
    OBVIOUS
  <2>1. PICK j \in DOMAIN log : log[j].at = old[i].at
    BY <1>5 DEF DequeOf
  <2>2. log[j].at <= now
    BY DEF Timed
  <2>3. now \in Nat
    BY DEF TrackTypes
  <2> QED
    BY <1>4, <1>6, <2>1, <2>2, <2>3
<1>10. Ordered(pushed)
  <2>1. Ordered(old)
    BY <1>5 DEF DequeOf
  <2>2. ASSUME NEW i \in DOMAIN pushed, NEW j \in DOMAIN pushed, i <= j
        PROVE  pushed[i].at <= pushed[j].at
    <3>1. CASE j = Len(old) + 1 /\ i = Len(old) + 1
      BY <1>4, <1>8, <3>1
    <3>2. CASE j = Len(old) + 1 /\ i # Len(old) + 1
      BY <1>4, <1>6, <1>8, <1>9, <3>2
    <3>3. CASE j # Len(old) + 1
      <4>1. i \in DOMAIN old /\ j \in DOMAIN old
        BY <1>6, <1>8, <2>2, <3>3
      <4> QED
        BY <1>6, <1>8, <2>1, <2>2, <4>1 DEF Ordered
    <3> QED
      BY <3>1, <3>2, <3>3
  <2> QED
    BY <2>2 DEF Ordered
<1>11. PICK q : q = Fresh(pushed, e.at)
  OBVIOUS
<1>12. recent'[s] = q
  BY <1>3, <1>5, <1>7, <1>11
<1>13. pushed[Len(pushed)].at = e.at
  BY <1>4, <1>8
<1>14. /\ Ordered(q)
       /\ \A i \in DOMAIN q :
             e.at - q[i].at <= Window /\ \E k \in DOMAIN pushed : q[i] = pushed[k]
       /\ \A k \in DOMAIN pushed :
             e.at - pushed[k].at <= Window => \E i \in DOMAIN q : q[i] = pushed[k]
  <2>1. /\ Ordered(Fresh(pushed, e.at))
        /\ \A i \in DOMAIN Fresh(pushed, e.at) :
              /\ e.at - Fresh(pushed, e.at)[i].at <= Window
              /\ \E k \in DOMAIN pushed : Fresh(pushed, e.at)[i] = pushed[k]
        /\ \A k \in DOMAIN pushed : e.at - pushed[k].at <= Window =>
              \E i \in DOMAIN Fresh(pushed, e.at) : Fresh(pushed, e.at)[i] = pushed[k]
    BY <1>4, <1>8, <1>10, <1>13, FreshKeepsWindow, Zenon
  <2> QED
    BY <1>11, <2>1, Zenon
<1>15. ASSUME NEW i \in DOMAIN q
       PROVE  \E j \in DOMAIN log' :
                 HitOf(j, s)' /\ log'[j].at = q[i].at /\ log'[j].frame.dp = q[i].port
  <2>1. PICK k \in DOMAIN pushed : q[i] = pushed[k]
    BY <1>14
  <2>2. CASE k = Len(old) + 1
    <3>1. q[i] = hit /\ m \in DOMAIN log'
      BY <1>1, <1>8, <2>1, <2>2
    <3> QED
      BY <1>1, <1>2, <1>4, <3>1
  <2>3. CASE k # Len(old) + 1
    <3>1. k \in DOMAIN old /\ q[i] = old[k]
      BY <1>6, <1>8, <2>1, <2>3
    <3>2. PICK j \in DOMAIN log :
             HitOf(j, s) /\ log[j].at = old[k].at /\ log[j].frame.dp = old[k].port
      BY <1>5, <3>1 DEF DequeOf
    <3> QED
      BY <1>1, <1>2, <3>1, <3>2
  <2> QED
    BY <2>2, <2>3
<1>16. ASSUME NEW j \in DOMAIN log', HitOf(j, s)', e.at - log'[j].at <= Window
       PROVE  \E i \in DOMAIN q : q[i].at = log'[j].at /\ q[i].port = log'[j].frame.dp
  <2>1. CASE j = m
    <3>1. Len(old) + 1 \in DOMAIN pushed /\ pushed[Len(old) + 1] = hit
      BY <1>6, <1>8
    <3>2. e.at - hit.at <= Window
      BY <1>4
    <3>3. \E i \in DOMAIN q : q[i] = hit
      BY <1>14, <3>1, <3>2
    <3> QED
      BY <1>1, <1>4, <2>1, <3>3
  <2>2. CASE j # m
    <3>1. j \in 1..Len(log) /\ log'[j] = log[j] /\ HitOf(j, s)
      BY <1>1, <1>2, <1>16, <2>2
    <3>2. log[j].at \in Nat /\ now \in Nat
      BY <1>1, <3>1 DEF TrackTypes, Entries
    <3>3. now - log[j].at <= Window
      BY <1>4, <1>16, <3>1, <3>2
    <3>4. PICK k \in DOMAIN old : old[k].at = log[j].at /\ old[k].port = log[j].frame.dp
      BY <1>1, <1>5, <3>1, <3>3 DEF DequeOf
    <3>5. k \in DOMAIN pushed /\ pushed[k] = old[k]
      BY <1>6, <1>8
    <3>6. e.at - pushed[k].at <= Window
      BY <1>16, <3>1, <3>4, <3>5
    <3>7. \E i \in DOMAIN q : q[i] = pushed[k]
      BY <1>14, <3>5, <3>6
    <3> QED
      BY <3>1, <3>4, <3>5, <3>7
  <2> QED
    BY <2>1, <2>2
<1>17. Ordered(recent'[s])
  BY <1>12, <1>14
<1>18. DequeOf(s)'
  BY <1>12, <1>15, <1>16, <1>17 DEF DequeOf, Ordered
<1> QED
  BY <1>12, <1>14, <1>18

\* The deques after a printed TCP packet, and after any other frame.
LEMMA DequeStep ==
  ASSUME TrackTypes, Timed, DequeIsWindow, NEW e \in Entries, log' = Append(log, e),
         now' = e.at, now <= e.at,
         IF e.shown /\ e.frame.kind = "tcp"
         THEN recent' = [recent EXCEPT ![e.frame.src] =
                            Fresh(Append(recent[e.frame.src], HitAt(e.frame, e.at)), e.at)]
         ELSE recent' = recent
  PROVE  DequeIsWindow'
<1>1. e.frame.src \in Hosts /\ e.at \in Nat /\ now \in Nat /\ now' \in now..MaxTime
  BY FrameTypes DEF Entries, TrackTypes
<1>2. ASSUME NEW s \in Hosts PROVE DequeOf(s)'
  <2>1. CASE e.shown /\ e.frame.kind = "tcp" /\ s = e.frame.src
    <3>1. recent'[s] = Fresh(Append(recent[s], HitAt(e.frame, e.at)), e.at)
      BY <1>1, <2>1 DEF TrackTypes
    <3>2. DequeOf(s)
      BY DEF DequeIsWindow
    <3> QED
      BY <2>1, <3>1, <3>2, PushedDeque
  <2>2. CASE ~(e.shown /\ e.frame.kind = "tcp" /\ e.frame.src = s)
    <3>1. recent'[s] = recent[s]
      BY <1>1, <2>2 DEF TrackTypes
    <3>2. DequeOf(s)
      BY DEF DequeIsWindow
    <3> QED
      BY <1>1, <2>2, <3>1, <3>2, OtherDeque
  <2> QED
    BY <2>1, <2>2
<1> QED
  BY <1>2 DEF DequeIsWindow

LEMMA TimedStep ==
  ASSUME TrackTypes, Timed, AlertIsShown, NEW e \in Entries, log' = Append(log, e),
         now' = e.at, now <= e.at, e.alert => e.shown
  PROVE  Timed' /\ AlertIsShown'
<1>1. /\ Len(log) \in Nat /\ DOMAIN log = 1..Len(log) /\ DOMAIN log' = 1..(Len(log) + 1)
      /\ \A j \in 1..Len(log) : log[j] \in Entries /\ log'[j] = log[j]
      /\ log'[Len(log) + 1] = e
  BY Appended
<1>2. e.at \in Nat /\ now \in Nat /\ \A j \in 1..Len(log) : log[j].at \in Nat
  BY <1>1 DEF Entries, TrackTypes
<1>3. \A j \in 1..Len(log) : log[j].at <= e.at
  BY <1>1, <1>2 DEF Timed
<1>4. ASSUME NEW i \in DOMAIN log', NEW j \in DOMAIN log', i <= j
      PROVE  log'[i].at <= log'[j].at
  <2>1. CASE j = Len(log) + 1
    BY <1>1, <1>2, <1>3, <2>1
  <2>2. CASE j \in 1..Len(log)
    BY <1>1, <1>2, <1>4, <2>2 DEF Timed
  <2> QED
    BY <1>1, <2>1, <2>2
<1>5. ASSUME NEW j \in DOMAIN log' PROVE log'[j].at <= now' /\ (log'[j].alert => log'[j].shown)
  BY <1>1, <1>2, <1>3 DEF AlertIsShown
<1> QED
  BY <1>4, <1>5 DEF Timed, AlertIsShown

\* A report is remembered, and nothing else is.
LEMMA AlertedStep ==
  ASSUME TrackTypes, Timed, AlertedIsLast, NEW e \in Entries, log' = Append(log, e),
         now' = e.at, now <= e.at,
         IF e.shown /\ e.frame.kind = "tcp" /\ e.alert
         THEN alerted' = [alerted EXCEPT ![e.frame.src] = e.at]
         ELSE alerted' = alerted
  PROVE  AlertedIsLast'
<1>0. PICK m \in Nat : m = Len(log) + 1
  BY Appended
<1>1. /\ Len(log) \in Nat /\ m = Len(log) + 1
      /\ DOMAIN log = 1..Len(log) /\ DOMAIN log' = 1..m
      /\ \A j \in 1..Len(log) : log[j] \in Entries /\ log'[j] = log[j]
      /\ log'[m] = e
  BY <1>0, Appended
<1>2. /\ e.frame.src \in Hosts /\ e.at \in Nat /\ now \in Nat
      /\ \A j \in 1..Len(log) : log[j].at \in Nat
  BY <1>1, FrameTypes DEF Entries, TrackTypes
<1>3. \A j \in 1..Len(log) : log[j].at <= e.at
  BY <1>1, <1>2 DEF Timed
<1>4. ASSUME NEW s \in Hosts
      PROVE  /\ \A j \in DOMAIN log' :
                   (log'[j].alert /\ HitOf(j, s)') => alerted'[s] # Never /\ log'[j].at <= alerted'[s]
             /\ alerted'[s] # Never =>
                   \E j \in DOMAIN log' :
                      log'[j].alert /\ HitOf(j, s)' /\ log'[j].at = alerted'[s]
  <2>1. /\ \A j \in 1..Len(log) : HitOf(j, s)' <=> HitOf(j, s)
        /\ HitOf(m, s)' <=> e.shown /\ e.frame.kind = "tcp" /\ e.frame.src = s
    BY <1>1 DEF HitOf
  <2>2. CASE e.shown /\ e.frame.kind = "tcp" /\ e.alert /\ e.frame.src = s
    <3>1. alerted'[s] = e.at /\ e.at # Never
      BY <1>2, <2>2 DEF TrackTypes, Never
    <3>2. m \in DOMAIN log' /\ HitOf(m, s)' /\ log'[m].alert /\ log'[m].at = e.at
      BY <1>1, <2>1, <2>2
    <3>3. \A j \in DOMAIN log' : log'[j].at <= e.at
      BY <1>1, <1>2, <1>3
    <3> QED
      BY <3>1, <3>2, <3>3
  <2>3. CASE ~(e.shown /\ e.frame.kind = "tcp" /\ e.alert /\ e.frame.src = s)
    <3>1. alerted'[s] = alerted[s]
      BY <1>2, <2>3 DEF TrackTypes
    <3>2. ~(log'[m].alert /\ HitOf(m, s)')
      BY <1>1, <2>1, <2>3
    <3>3. ASSUME NEW j \in DOMAIN log', log'[j].alert, HitOf(j, s)'
          PROVE  alerted[s] # Never /\ log'[j].at <= alerted[s]
      <4>1. j \in DOMAIN log /\ log'[j] = log[j] /\ HitOf(j, s)
        BY <1>1, <2>1, <3>2, <3>3
      <4> QED
        BY <3>3, <4>1 DEF AlertedIsLast
    <3>4. ASSUME alerted[s] # Never
          PROVE  \E j \in DOMAIN log' :
                    log'[j].alert /\ HitOf(j, s)' /\ log'[j].at = alerted[s]
      <4>1. PICK j \in DOMAIN log : log[j].alert /\ HitOf(j, s) /\ log[j].at = alerted[s]
        BY <3>4 DEF AlertedIsLast
      <4>2. j \in DOMAIN log' /\ log'[j] = log[j] /\ HitOf(j, s)'
        BY <1>1, <2>1, <4>1
      <4> QED
        BY <4>1, <4>2
    <3> QED
      BY <3>1, <3>3, <3>4
  <2> QED
    BY <2>2, <2>3
<1> QED
  BY <1>4 DEF AlertedIsLast

\* What an older entry's report is judged by does not change.
LEMMA OldScans ==
  ASSUME TrackTypes, TrackerAgrees, NEW e \in Entries, log' = Append(log, e),
         NEW k \in 1..Len(log)
  PROVE  ((log[k].shown /\ log[k].frame.kind = "tcp") =>
            (log[k].alert <=>
                /\ Cardinality({log[j].frame.dp : j \in Hits(k)}) >= Threshold
                /\ ~ReportedSince(k)))'
<1>1. /\ Len(log) \in Nat /\ DOMAIN log = 1..Len(log)
      /\ \A j \in 1..Len(log) : log'[j] = log[j]
  BY Appended
<1>2. k \in 1..k /\ \A j \in 1..k : j \in 1..Len(log) /\ log'[j] = log[j]
  BY <1>1
<1>3. Hits(k)' = Hits(k) /\ Hits(k) \subseteq 1..k
  BY <1>2 DEF Hits
<1>4. {log[j].frame.dp : j \in Hits(k)}' = {log[j].frame.dp : j \in Hits(k)}
  BY <1>2, <1>3
<1>5. \A j \in 1..(k - 1) : j \in 1..k
  OBVIOUS
<1>6. ReportedSince(k)' <=> ReportedSince(k)
  BY <1>2, <1>5 DEF ReportedSince
<1>7. (log[k].shown /\ log[k].frame.kind = "tcp") =>
            (log[k].alert <=>
                /\ Cardinality({log[j].frame.dp : j \in Hits(k)}) >= Threshold
                /\ ~ReportedSince(k))
  BY <1>1 DEF TrackerAgrees
<1> QED
  BY <1>2, <1>4, <1>6, <1>7

\* The new entry's report: the deque's ports are those of the window, and the time in
\* alerted is that of the last report.
LEMMA NewScan ==
  ASSUME TrackTypes, Timed, AlertIsShown, DequeIsWindow, AlertedIsLast,
         NEW e \in Entries, log' = Append(log, e), now' = e.at, now <= e.at,
         e.shown, e.frame.kind = "tcp", NEW s \in Hosts, s = e.frame.src,
         recent'[s] = Fresh(Append(recent[s], HitAt(e.frame, e.at)), e.at),
         e.alert <=>
            /\ Cardinality({recent'[s][i].port : i \in DOMAIN recent'[s]}) >= Threshold
            /\ alerted[s] = Never \/ e.at - alerted[s] >= Window,
         NEW m, m = Len(log) + 1
  PROVE  (log[m].alert <=>
            /\ Cardinality({log[j].frame.dp : j \in Hits(m)}) >= Threshold
            /\ ~ReportedSince(m))'
<1>1. /\ Len(log) \in Nat /\ m \in Nat /\ m - 1 = Len(log) /\ m \in 1..m
      /\ DOMAIN log = 1..Len(log) /\ DOMAIN log' = 1..m
      /\ \A j \in 1..Len(log) : log[j] \in Entries /\ log'[j] = log[j]
      /\ log'[m] = e
  BY Appended
<1>2. PICK q : q = recent'[s]
  OBVIOUS
<1>3. DequeOf(s)' /\ \A i \in DOMAIN q : e.at - q[i].at <= Window
  <2>1. DequeOf(s)
    BY DEF DequeIsWindow
  <2>2. DequeOf(s)' /\ \A i \in DOMAIN recent'[s] : e.at - recent'[s][i].at <= Window
    BY <2>1, PushedDeque
  <2> QED
    BY <1>2, <2>2
<1>4. \A j \in DOMAIN log' : j \in Hits(m)' <=> HitOf(j, s)' /\ e.at - log'[j].at <= Window
  BY <1>1 DEF Hits, HitOf
<1>5. Hits(m)' \subseteq DOMAIN log'
  BY <1>1 DEF Hits
<1>6. {log[j].frame.dp : j \in Hits(m)}' = {q[i].port : i \in DOMAIN q}
  <2>1. ASSUME NEW j \in Hits(m)'
        PROVE  \E i \in DOMAIN q : q[i].port = log'[j].frame.dp
    <3>1. j \in DOMAIN log' /\ HitOf(j, s)' /\ now' - log'[j].at <= Window
      BY <1>4, <1>5
    <3> QED
      BY <1>2, <1>3, <3>1 DEF DequeOf
  <2>2. ASSUME NEW i \in DOMAIN q
        PROVE  \E j \in Hits(m)' : log'[j].frame.dp = q[i].port
    <3>1. PICK j \in DOMAIN log' :
             HitOf(j, s)' /\ log'[j].at = q[i].at /\ log'[j].frame.dp = q[i].port
      BY <1>2, <1>3 DEF DequeOf
    <3>2. j \in Hits(m)'
      BY <1>3, <1>4, <3>1
    <3> QED
      BY <3>1, <3>2
  <2>3. PICK hits : hits = Hits(m)'
    OBVIOUS
  <2>4. {log'[j].frame.dp : j \in hits} = {q[i].port : i \in DOMAIN q}
    <3>1. ASSUME NEW p \in {log'[j].frame.dp : j \in hits} PROVE p \in {q[i].port : i \in DOMAIN q}
      <4>1. PICK j \in hits : p = log'[j].frame.dp
        OBVIOUS
      <4>2. PICK i \in DOMAIN q : q[i].port = log'[j].frame.dp
        BY <2>1, <2>3
      <4> QED
        BY <4>1, <4>2
    <3>2. ASSUME NEW p \in {q[i].port : i \in DOMAIN q} PROVE p \in {log'[j].frame.dp : j \in hits}
      <4>1. PICK i \in DOMAIN q : p = q[i].port
        OBVIOUS
      <4>2. PICK j \in hits : q[i].port = log'[j].frame.dp
        BY <2>2, <2>3
      <4> QED
        BY <4>1, <4>2
    <3> QED
      BY <3>1, <3>2
  <2> QED
    BY <2>3, <2>4
<1>7. ReportedSince(m)' <=> ~(alerted[s] = Never \/ e.at - alerted[s] >= Window)
  <2>1. /\ e.at \in Nat /\ alerted[s] \in Int /\ Window \in Nat
        /\ \A j \in 1..Len(log) : log[j].at \in Nat
    BY <1>1 DEF TrackTypes, Entries, Never
  <2>2. ReportedSince(m)' <=>
           \E j \in 1..Len(log) : log[j].alert /\ HitOf(j, s) /\ e.at - log[j].at < Window
    <3>1. ReportedSince(m)' <=>
             \E j \in 1..(m - 1) : /\ log'[j].alert /\ log'[j].frame.kind = "tcp"
                                   /\ log'[j].frame.src = log'[m].frame.src
                                   /\ log'[m].at - log'[j].at < Window
      BY DEF ReportedSince
    <3>2. \A j \in 1..Len(log) : log[j].alert => log[j].shown
      BY <1>1 DEF AlertIsShown
    <3> QED
      BY <1>1, <3>1, <3>2 DEF HitOf
  <2>3. ASSUME NEW j \in 1..Len(log), log[j].alert, HitOf(j, s), e.at - log[j].at < Window
        PROVE  alerted[s] # Never /\ e.at - alerted[s] < Window
    <3>1. alerted[s] # Never /\ log[j].at <= alerted[s]
      BY <1>1, <2>3 DEF AlertedIsLast
    <3> QED
      BY <2>1, <2>3, <3>1
  <2>4. ASSUME alerted[s] # Never, e.at - alerted[s] < Window
        PROVE  \E j \in 1..Len(log) : log[j].alert /\ HitOf(j, s) /\ e.at - log[j].at < Window
    <3>1. PICK j \in DOMAIN log : log[j].alert /\ HitOf(j, s) /\ log[j].at = alerted[s]
      BY <2>4 DEF AlertedIsLast
    <3> QED
      BY <1>1, <2>4, <3>1
  <2>5. ~(alerted[s] = Never \/ e.at - alerted[s] >= Window)
           <=> alerted[s] # Never /\ e.at - alerted[s] < Window
    BY <2>1
  <2> QED
    BY <2>2, <2>3, <2>4, <2>5
<1>8. e.alert <=> /\ Cardinality({q[i].port : i \in DOMAIN q}) >= Threshold
                  /\ alerted[s] = Never \/ e.at - alerted[s] >= Window
  BY <1>2
<1> QED
  BY <1>1, <1>6, <1>7, <1>8

LEMMA ScanInit == Init => ScanInv
<1> SUFFICES ASSUME Init PROVE ScanInv
  OBVIOUS
<1>1. log = <<>> /\ DOMAIN log = {} /\ \A s \in Hosts : recent[s] = <<>> /\ alerted[s] = Never
  BY DEF Init
<1> QED
  BY <1>1 DEF ScanInv, Timed, AlertIsShown, DequeIsWindow, DequeOf, Ordered, AlertedIsLast,
              TrackerAgrees

LEMMA ScanStep ==
  ASSUME TrackTypes, ScanInv, [Next]_vars
  PROVE  ScanInv'
<1> USE DEF ScanInv
<1>1. ASSUME NEW f \in Frames, NEW at \in now..MaxTime, Receive(f, at) PROVE ScanInv'
  <2>1. PICK alert \in BOOLEAN :
           /\ log' = Append(log, EntryOf(f, at, alert))
           /\ EntryOf(f, at, alert) \in Entries
           /\ \/ f.kind = "tcp" /\ Shown(f) /\ CheckScan(f.src, f.dp, at, alert)
              \/ f.kind = "arp" /\ Shown(f) /\ CheckArp(f.src, f.mac, alert)
              \/ /\ f.kind \notin {"tcp", "arp"} \/ ~Shown(f)
                 /\ ~alert /\ UNCHANGED trackers
    BY <1>1, ReceiveLogs
  <2>2. PICK e \in Entries : e = EntryOf(f, at, alert)
    BY <2>1
  <2>3. e.frame = f /\ e.at = at /\ (e.shown <=> Shown(f)) /\ (e.alert <=> alert)
    BY <2>2 DEF EntryOf
  <2>4. log' = Append(log, e) /\ now' = e.at /\ now <= e.at /\ (e.alert => e.shown)
    <3>1. now' = at /\ now \in Nat /\ now <= at
      BY <1>1, ReceiveLogs DEF TrackTypes
    <3> QED
      BY <2>1, <2>2, <2>3, <3>1
  <2>5. Timed' /\ AlertIsShown'
    BY <2>4, TimedStep
  <2>6. f.src \in Hosts
    BY FrameTypes
  <2>7. PICK m : m = Len(log) + 1
    OBVIOUS
  <2>8. \A k \in DOMAIN log' : k \in 1..Len(log) \/ k = m
    BY <2>4, <2>7, Appended
  <2>9. ASSUME NEW k \in 1..Len(log)
        PROVE  ((log[k].shown /\ log[k].frame.kind = "tcp") =>
                 (log[k].alert <=>
                     /\ Cardinality({log[j].frame.dp : j \in Hits(k)}) >= Threshold
                     /\ ~ReportedSince(k)))'
    BY <2>4, OldScans
  <2>10. log'[m] = e
    BY <2>4, <2>7, Appended
  <2>11. CASE f.kind = "tcp" /\ Shown(f) /\ CheckScan(f.src, f.dp, at, alert)
    <3>1. PICK q : q = Fresh(Append(recent[f.src], HitAt(f, at)), at)
      OBVIOUS
    <3>2. /\ alert <=> /\ Cardinality({q[i].port : i \in DOMAIN q}) >= Threshold
                       /\ alerted[f.src] = Never \/ at - alerted[f.src] >= Window
          /\ recent' = [recent EXCEPT ![f.src] = q]
          /\ alerted' = IF alert THEN [alerted EXCEPT ![f.src] = at] ELSE alerted
      BY <2>11, <3>1 DEF CheckScan, HitAt
    <3>3. recent'[f.src] = q
      BY <2>6, <3>2 DEF TrackTypes
    <3>4. DequeIsWindow'
      BY <2>3, <2>4, <2>11, <3>1, <3>2, DequeStep
    <3>5. AlertedIsLast'
      BY <2>3, <2>4, <2>11, <3>2, AlertedStep
    <3>6. (log[m].alert <=>
              /\ Cardinality({log[j].frame.dp : j \in Hits(m)}) >= Threshold
              /\ ~ReportedSince(m))'
      <4>1. e.shown /\ e.frame.kind = "tcp" /\ e.frame = f /\ e.at = at
        BY <2>3, <2>11
      <4>2. recent'[f.src] = Fresh(Append(recent[f.src], HitAt(e.frame, e.at)), e.at)
        BY <3>1, <3>3, <4>1
      <4>3. e.alert <=>
               /\ Cardinality({recent'[f.src][i].port : i \in DOMAIN recent'[f.src]})
                     >= Threshold
               /\ alerted[f.src] = Never \/ e.at - alerted[f.src] >= Window
        <5>1. {recent'[f.src][i].port : i \in DOMAIN recent'[f.src]} = {q[i].port : i \in DOMAIN q}
          BY <3>3
        <5> QED
          BY <2>3, <3>2, <5>1
      <4>4. f.src = e.frame.src
        BY <4>1
      <4> QED
        BY <2>4, <2>6, <2>7, <4>1, <4>2, <4>3, <4>4, NewScan
    <3>7. TrackerAgrees'
      BY <2>8, <2>9, <3>6 DEF TrackerAgrees
    <3> QED
      BY <2>5, <3>4, <3>5, <3>7
  <2>12. CASE ~(f.kind = "tcp" /\ Shown(f))
    <3>1. recent' = recent /\ alerted' = alerted
      BY <2>1, <2>12 DEF CheckArp, trackers
    <3>2. DequeIsWindow'
      BY <2>3, <2>4, <2>12, <3>1, DequeStep
    <3>3. AlertedIsLast'
      BY <2>3, <2>4, <2>12, <3>1, AlertedStep
    <3>4. ~(log'[m].shown /\ log'[m].frame.kind = "tcp")
      BY <2>3, <2>10, <2>12
    <3>5. TrackerAgrees'
      BY <2>8, <2>9, <3>4 DEF TrackerAgrees
    <3> QED
      BY <2>5, <3>2, <3>3, <3>5
  <2> QED
    BY <2>1, <2>11, <2>12
<1>2. CASE ~ \E f \in Frames, at \in now..MaxTime : Receive(f, at)
  <2>1. UNCHANGED <<now, recent, alerted, log>>
    BY <1>2, LogUntouched
  <2>2. Timed' /\ AlertIsShown' /\ AlertedIsLast'
    BY <2>1 DEF Timed, AlertIsShown, AlertedIsLast, HitOf
  <2>3. DequeIsWindow'
    BY <2>1 DEF DequeIsWindow, DequeOf, Ordered, HitOf
  <2>4. TrackerAgrees'
    BY <2>1 DEF TrackerAgrees, Hits, ReportedSince
  <2> QED
    BY <2>2, <2>3, <2>4
<1> QED
  BY <1>1, <1>2

-----------------------------------------------------------------------------
(* The pcap file.                                                          *)

Units == [record : Nat, part : Nat]

FileTypes ==
    /\ accepted \in Seq(Units)
    /\ inFile \in 0..Len(accepted)
    /\ failed \in BOOLEAN /\ refused \in BOOLEAN

\* What a reader expects at each place of the file, whatever is still to come.
Size == 1 + FrameUnits
UnitAt(i) == IF i = 1 THEN Unit(0, 0) ELSE Unit(1 + (i - 2) \div Size, (i - 2) % Size)

\* How much the BufWriter has been given, at each stage of a record.
Given ==
    /\ pc \in {"recv", "flush"} => Len(accepted) = 1 + Records * Size
    /\ pc = "header" => Records > 0 /\ Len(accepted) = 1 + (Records - 1) * Size
    /\ pc = "frame" => Records > 0 /\ Len(accepted) = 2 + (Records - 1) * Size
    /\ pc = "gone" => Len(accepted) <= 1 + Records * Size

\* Until a write is refused, the BufWriter has been given what a reader expects; and
\* while no write has failed, all of it is in the file whenever a record is done.
SaveInv ==
    /\ refused => failed
    /\ (filter.pcap /\ ~refused) => Given /\ \A i \in DOMAIN accepted : accepted[i] = UnitAt(i)
    /\ (filter.pcap /\ pc = "recv" /\ ~failed /\ Records > 0) => inFile = Len(accepted)

\* A frame printed is a record more.
LEMMA RecordsCount ==
  ASSUME TrackTypes
  PROVE  /\ Records \in Nat
         /\ \A e \in Entries : log' = Append(log, e) =>
               Records' = IF e.shown THEN Records + 1 ELSE Records
         /\ UNCHANGED log => Records' = Records
<1> DEFINE S == {k \in DOMAIN log : log[k].shown}
<1>1. Len(log) \in Nat /\ DOMAIN log = 1..Len(log)
  BY DEF TrackTypes
<1>2. S \subseteq 1..Len(log) /\ IsFiniteSet(1..Len(log))
  BY <1>1, FS_Interval
<1>3. IsFiniteSet(S)
  BY <1>2, FS_Subset
<1>4. Cardinality(S) \in Nat
  BY <1>3, FS_CardinalityType
<1>5. ASSUME NEW e \in Entries, log' = Append(log, e)
      PROVE  Records' = IF e.shown THEN Records + 1 ELSE Records
  <2>1. PICK m \in Nat : m = Len(log) + 1
    BY <1>1
  <2>2. /\ DOMAIN log' = 1..m /\ m \notin 1..Len(log) /\ 1..m = (1..Len(log)) \cup {m}
        /\ \A j \in 1..Len(log) : log'[j] = log[j]
        /\ log'[m] = e
    BY <1>1, <1>5, <2>1, Appended
  <2>3. {k \in DOMAIN log' : log'[k].shown} = IF e.shown THEN S \cup {m} ELSE S
    BY <1>1, <2>2
  <2>4. m \notin S
    BY <1>2, <2>2
  <2>5. Cardinality(S \cup {m}) = Cardinality(S) + 1
    BY <1>3, <2>4, FS_AddElement
  <2> QED
    BY <2>3, <2>5 DEF Records
<1> QED
  BY <1>4, <1>5 DEF Records

LEMMA DivMod ==
  ASSUME NEW w \in Nat \ {0}, NEW q \in Nat, NEW r \in 0..(w - 1)
  PROVE  (q * w + r) \div w = q /\ (q * w + r) % w = r
  BY Z3T(30)

LEMMA SizeOfRecords ==
  ASSUME NEW n \in Nat
  PROVE  /\ Size \in Nat \ {0} /\ n * Size \in Nat
         /\ n > 0 => (n - 1) * Size \in Nat /\ n * Size = (n - 1) * Size + Size
<1>1. Size \in Nat \ {0}
  BY DEF Size
<1>2. ASSUME NEW w \in Nat, NEW k \in Nat
      PROVE  k * w \in Nat /\ (k + 1) * w = k * w + w
  BY Z3
<1>3. n > 0 => n - 1 \in Nat /\ (n - 1) + 1 = n
  OBVIOUS
<1> QED
  BY <1>1, <1>2, <1>3

\* Part i of record n is where it belongs.
LEMMA PlaceOfPart ==
  ASSUME NEW n \in Nat, n > 0, NEW i \in 0..FrameUnits
  PROVE  UnitAt(2 + (n - 1) * Size + i) = Unit(n, i)
<1>1. /\ Size \in Nat \ {0} /\ n - 1 \in Nat /\ (n - 1) * Size \in Nat
      /\ i \in 0..(Size - 1) /\ 1 + (n - 1) = n
  BY SizeOfRecords DEF Size
<1>2. ((n - 1) * Size + i) \div Size = n - 1 /\ ((n - 1) * Size + i) % Size = i
  BY <1>1, DivMod
<1>3. PICK p \in Nat : p = (n - 1) * Size + i
  BY <1>1
<1>4. 2 + (n - 1) * Size + i = 2 + p /\ (2 + p) - 2 = p /\ 2 + p # 1
  BY <1>1, <1>3
<1> QED
  BY <1>1, <1>2, <1>3, <1>4 DEF UnitAt

\* The image of n records, place by place.
LEMMA ImageAt ==
  ASSUME NEW n \in Nat
  PROVE  /\ Image(n) \in Seq(Units) /\ Len(Image(n)) = 1 + n * Size
         /\ \A i \in 1..(1 + n * Size) : Image(n)[i] = UnitAt(i)
<1> DEFINE rest == [i \in 1..(n * Size) |-> Unit(1 + (i - 1) \div Size, (i - 1) % Size)]
<1>1. Size \in Nat \ {0} /\ n * Size \in Nat
  BY SizeOfRecords
<1>2. \A i \in 1..(n * Size) : (i - 1) \div Size \in Nat /\ (i - 1) % Size \in Nat
  BY <1>1
<1>3. rest \in Seq(Units) /\ Len(rest) = n * Size
  <2>1. \A i \in 1..(n * Size) : Unit(1 + (i - 1) \div Size, (i - 1) % Size) \in Units
    BY <1>2 DEF Unit, Units
  <2> HIDE DEF Units, Unit, Size
  <2>2. rest \in [1..(n * Size) -> Units]
    BY <2>1
  <2> QED
    BY <1>1, <2>2
<1>4. <<Unit(0, 0)>> \in Seq(Units)
  BY DEF Unit, Units
<1>5. Image(n) = <<Unit(0, 0)>> \o rest
  BY DEF Image, Size
<1>6. \A i \in 1..(n * Size) : rest[i] = Unit(1 + (i - 1) \div Size, (i - 1) % Size)
  OBVIOUS
<1> HIDE DEF rest
<1>7. Image(n) \in Seq(Units) /\ Len(Image(n)) = 1 + n * Size
  BY <1>1, <1>3, <1>4, <1>5
<1>8. ASSUME NEW i \in 1..(1 + n * Size) PROVE Image(n)[i] = UnitAt(i)
  <2>1. CASE i = 1
    BY <1>1, <1>3, <1>4, <1>5, <2>1 DEF UnitAt
  <2>2. CASE i # 1
    <3>1. i - 1 \in 1..(n * Size) /\ (i - 1) - 1 = i - 2
      BY <1>1, <2>2
    <3>2. Image(n)[i] = rest[i - 1]
      BY <1>1, <1>3, <1>4, <1>5, <2>2, <3>1
    <3> QED
      BY <1>6, <2>2, <3>1, <3>2 DEF UnitAt
  <2> QED
    BY <2>1, <2>2
<1> QED
  BY <1>7, <1>8

\* What the writer does to the BufWriter is well-typed.
LEMMA FrameOfType ==
  ASSUME NEW n \in Nat
  PROVE  /\ FrameOf(n) \in Seq(Units) /\ Len(FrameOf(n)) = FrameUnits
         /\ \A i \in 1..FrameUnits : FrameOf(n)[i] = Unit(n, i)
         /\ <<Unit(n, 0)>> \in Seq(Units)
<1>1. \A i \in 1..FrameUnits : Unit(n, i) \in Units
  BY DEF Unit, Units
<1>2. Unit(n, 0) \in Units
  BY DEF Unit, Units
<1> HIDE DEF Units, Unit
<1>3. FrameOf(n) \in [1..FrameUnits -> Units]
  BY <1>1 DEF FrameOf
<1>4. FrameOf(n) \in Seq(Units) /\ Len(FrameOf(n)) = FrameUnits
  BY <1>3
<1> QED
  BY <1>2, <1>4 DEF FrameOf

LEMMA AcceptType ==
  ASSUME FileTypes, NEW units \in Seq(Units), Accept(units) \/ Refuse(units)
  PROVE  FileTypes'
<1>1. Len(accepted) \in Nat /\ Len(units) \in Nat /\ inFile \in 0..Len(accepted)
  BY DEF FileTypes
<1>2. CASE Accept(units)
  <2>1. accepted' \in Seq(Units) /\ Len(accepted') = Len(accepted) + Len(units)
    BY <1>2 DEF Accept, FileTypes
  <2>2. inFile' = inFile \/ inFile' = Len(accepted)
    BY <1>2 DEF Accept
  <2> QED
    BY <1>1, <1>2, <2>1, <2>2 DEF Accept, FileTypes
<1>3. CASE Refuse(units)
  BY <1>1, <1>3 DEF Refuse, FileTypes
<1> QED
  BY <1>2, <1>3

LEMMA FileInit == Init => FileTypes /\ SaveInv
<1> SUFFICES ASSUME Init PROVE FileTypes /\ SaveInv
  OBVIOUS
<1>1. /\ accepted = <<Unit(0, 0)>> /\ Len(accepted) = 1 /\ DOMAIN accepted = {1}
      /\ inFile = 0 /\ failed = FALSE /\ refused = FALSE /\ pc = "recv"
  BY DEF Init, InitFile
<1>2. Unit(0, 0) \in Units
  BY DEF Unit, Units
<1>3. Records = 0
  <2>1. {k \in DOMAIN log : log[k].shown} = {}
    BY DEF Init
  <2> QED
    BY <2>1, FS_EmptySet DEF Records
<1>4. 0 * Size = 0
  BY DEF Size
<1>5. \A i \in DOMAIN accepted : accepted[i] = UnitAt(i)
  BY <1>1 DEF UnitAt
<1>6. Given
  BY <1>1, <1>3, <1>4 DEF Given
<1>7. <<Unit(0, 0)>> \in Seq(Units)
  BY <1>2
<1>8. FileTypes
  <2>1. accepted \in Seq(Units)
    BY <1>1, <1>7, Zenon
  <2>2. inFile = 0 /\ Len(accepted) = 1 /\ 0 \in 0..1
    BY <1>1
  <2>3. failed \in BOOLEAN /\ refused \in BOOLEAN
    BY <1>1
  <2> QED
    BY <2>1, <2>2, <2>3, Zenon DEF FileTypes
<1> QED
  BY <1>1, <1>3, <1>5, <1>6, <1>8 DEF SaveInv

LEMMA FileStep ==
  ASSUME TrackTypes, FileTypes, [Next]_vars
  PROVE  FileTypes'
<1>0. Records \in Nat
  BY RecordsCount
<1>1. CASE \E f \in Frames, at \in now..MaxTime : Receive(f, at)
  BY <1>1 DEF Receive, fileVars, FileTypes
<1>2. CASE WriteHeader
  BY <1>0, <1>2, AcceptType, FrameOfType DEF WriteHeader
<1>3. CASE WriteFrame
  BY <1>0, <1>3, AcceptType, FrameOfType DEF WriteFrame
<1>4. CASE Flush
  <2>1. Len(accepted) \in Nat /\ inFile \in 0..Len(accepted)
    BY DEF FileTypes
  <2>2. CASE FlushSome
    <3>1. inFile' \in 0..Len(accepted)
      BY <2>1, <2>2 DEF FlushSome
    <3> QED
      BY <2>2, <3>1 DEF FlushSome, FileTypes
  <2>3. CASE FlushFails
    BY <2>3 DEF FlushFails, FileTypes
  <2> QED
    BY <1>4, <2>2, <2>3 DEF Flush
<1>5. CASE InterfaceGone \/ Kill
  BY <1>5 DEF InterfaceGone, Kill, fileVars, FileTypes
<1>6. CASE UNCHANGED vars
  BY <1>6 DEF vars, fileVars, FileTypes
<1> QED
  BY <1>1, <1>2, <1>3, <1>4, <1>5, <1>6 DEF Next

\* A step that gives the BufWriter nothing: only how much is expected may change.
LEMMA NothingGiven ==
  ASSUME TrackTypes, FileTypes, FilterTypes, SaveInv, UNCHANGED <<filter, accepted>>,
         refused' = refused, failed => failed',
         (filter.pcap /\ ~refused) => Given',
         (filter.pcap /\ pc' = "recv" /\ ~failed' /\ Records' > 0) => inFile' = Len(accepted')
  PROVE  SaveInv'
<1>1. ASSUME filter.pcap, ~refused, NEW i \in DOMAIN accepted' PROVE (accepted[i] = UnitAt(i))'
  BY <1>1 DEF SaveInv, UnitAt, Unit, Size
<1>2. refused' => failed'
  BY DEF SaveInv
<1> QED
  BY <1>1, <1>2 DEF SaveInv

\* A piece of a record put where it belongs.
LEMMA PieceGiven ==
  ASSUME FileTypes, NEW units \in Seq(Units), Accept(units),
         \A i \in DOMAIN accepted : accepted[i] = UnitAt(i),
         \A i \in 1..Len(units) : units[i] = UnitAt(Len(accepted) + i)
  PROVE  /\ Len(accepted') = Len(accepted) + Len(units)
         /\ \A i \in DOMAIN accepted' : (accepted[i] = UnitAt(i))'
<1>1. accepted' = accepted \o units /\ accepted \in Seq(Units)
  BY DEF Accept, FileTypes
<1>2. /\ Len(accepted) \in Nat /\ Len(units) \in Nat
      /\ DOMAIN accepted = 1..Len(accepted)
      /\ Len(accepted') = Len(accepted) + Len(units)
      /\ DOMAIN accepted' = 1..(Len(accepted) + Len(units))
      /\ \A i \in 1..Len(accepted) : accepted'[i] = accepted[i]
      /\ \A i \in 1..Len(units) : accepted'[Len(accepted) + i] = units[i]
  BY <1>1
<1>3. ASSUME NEW i \in DOMAIN accepted' PROVE accepted'[i] = UnitAt(i)
  <2>1. CASE i \in 1..Len(accepted)
    BY <1>2, <2>1
  <2>2. CASE i \notin 1..Len(accepted)
    <3>1. i - Len(accepted) \in 1..Len(units) /\ i = Len(accepted) + (i - Len(accepted))
      BY <1>2, <2>2
    <3>2. PICK d \in 1..Len(units) : i = Len(accepted) + d
      BY <3>1
    <3> QED
      BY <1>2, <3>2
  <2> QED
    BY <2>1, <2>2
<1> QED
  BY <1>2, <1>3

LEMMA SaveStep ==
  ASSUME TrackTypes, FileTypes, FilterTypes, SaveInv, [Next]_vars
  PROVE  SaveInv'
<1>0. /\ Records \in Nat /\ (UNCHANGED log => Records' = Records)
      /\ Size \in Nat \ {0} /\ Size = 1 + FrameUnits /\ Records * Size \in Nat
      /\ Records > 0 => (Records - 1) * Size \in Nat
                        /\ Records * Size = (Records - 1) * Size + Size
      /\ Size' = Size
  BY RecordsCount, SizeOfRecords DEF Size
<1>1. Len(accepted) \in Nat /\ inFile \in 0..Len(accepted)
  BY DEF FileTypes
<1>2. ASSUME NEW f \in Frames, NEW at \in now..MaxTime, Receive(f, at) PROVE SaveInv'
  <2>1. PICK alert \in BOOLEAN :
           log' = Append(log, EntryOf(f, at, alert)) /\ EntryOf(f, at, alert) \in Entries
    BY <1>2, ReceiveLogs
  <2>2. Records' = IF Shown(f) THEN Records + 1 ELSE Records
    BY <2>1, RecordsCount DEF EntryOf
  <2>3. /\ pc = "recv" /\ pc' = IF Shown(f) /\ filter.pcap THEN "header" ELSE "recv"
        /\ UNCHANGED <<filter, accepted, inFile, failed, refused>>
    BY <1>2 DEF Receive, fileVars
  <2>4. ASSUME filter.pcap, ~refused PROVE Given'
    <3>1. Len(accepted) = 1 + Records * Size
      BY <2>3, <2>4 DEF SaveInv, Given
    <3>2. CASE Shown(f)
      <4>1. Records' = Records + 1 /\ Records' - 1 = Records /\ pc' = "header"
        BY <1>0, <2>2, <2>3, <2>4, <3>2
      <4> QED
        BY <1>0, <2>3, <3>1, <4>1 DEF Given
    <3>3. CASE ~Shown(f)
      BY <1>0, <2>2, <2>3, <3>1, <3>3 DEF Given
    <3> QED
      BY <3>2, <3>3
  <2>5. (filter.pcap /\ pc' = "recv" /\ ~failed' /\ Records' > 0) => inFile' = Len(accepted')
    BY <2>2, <2>3 DEF SaveInv
  <2> QED
    BY <2>3, <2>4, <2>5, NothingGiven
<1>3. CASE WriteHeader
  <2>1. UNCHANGED <<filter, log>> /\ pc = "header" /\ Records' = Records /\ pc' # "gone"
    BY <1>0, <1>3 DEF WriteHeader
  <2>2. CASE Accept(<<Unit(Records, 0)>>) /\ pc' = "frame"
    <3>1. ASSUME filter.pcap, ~refused
          PROVE  Given' /\ \A i \in DOMAIN accepted' : (accepted[i] = UnitAt(i))'
      <4>1. /\ Records > 0 /\ Len(accepted) = 1 + (Records - 1) * Size
            /\ \A i \in DOMAIN accepted : accepted[i] = UnitAt(i)
        BY <2>1, <3>1 DEF SaveInv, Given
      <4>2. UnitAt(2 + (Records - 1) * Size + 0) = Unit(Records, 0)
        BY <1>0, <4>1, PlaceOfPart
      <4>3. Len(accepted) + 1 = 2 + (Records - 1) * Size + 0
        BY <1>0, <4>1
      <4>4. PICK units : units = <<Unit(Records, 0)>>
        OBVIOUS
      <4>5. units \in Seq(Units) /\ Len(units) = 1 /\ units[1] = Unit(Records, 0) /\ Accept(units)
        BY <1>0, <2>2, <4>4, FrameOfType
      <4>6. \A i \in 1..Len(units) : units[i] = UnitAt(Len(accepted) + i)
        BY <4>2, <4>3, <4>5
      <4>7. /\ Len(accepted') = Len(accepted) + 1
            /\ \A i \in DOMAIN accepted' : (accepted[i] = UnitAt(i))'
        BY <4>1, <4>5, <4>6, PieceGiven
      <4>8. Given'
        BY <1>0, <2>1, <2>2, <4>1, <4>7 DEF Given
      <4> QED
        BY <4>7, <4>8
    <3>2. refused' = refused /\ failed' = failed
      BY <2>2 DEF Accept
    <3> QED
      BY <2>1, <2>2, <3>1, <3>2 DEF SaveInv
  <2>3. CASE Refuse(<<Unit(Records, 0)>>)
    BY <2>3 DEF Refuse, SaveInv
  <2> QED
    BY <1>3, <2>2, <2>3 DEF WriteHeader
<1>4. CASE WriteFrame
  <2>1. UNCHANGED <<filter, log>> /\ pc = "frame" /\ Records' = Records /\ pc' # "gone"
    BY <1>0, <1>4 DEF WriteFrame
  <2>2. CASE Accept(FrameOf(Records)) /\ pc' = "flush"
    <3>1. ASSUME filter.pcap, ~refused
          PROVE  Given' /\ \A i \in DOMAIN accepted' : (accepted[i] = UnitAt(i))'
      <4>1. /\ Records > 0 /\ Len(accepted) = 2 + (Records - 1) * Size
            /\ \A i \in DOMAIN accepted : accepted[i] = UnitAt(i)
        BY <2>1, <3>1 DEF SaveInv, Given
      <4>2. PICK units : units = FrameOf(Records)
        OBVIOUS
      <4>3. /\ units \in Seq(Units) /\ Len(units) = FrameUnits /\ Accept(units)
            /\ \A i \in 1..FrameUnits : units[i] = Unit(Records, i)
        BY <1>0, <2>2, <4>2, FrameOfType
      <4>4. ASSUME NEW i \in 1..Len(units) PROVE units[i] = UnitAt(Len(accepted) + i)
        <5>1. i \in 0..FrameUnits /\ units[i] = Unit(Records, i)
          BY <4>3
        <5>2. UnitAt(2 + (Records - 1) * Size + i) = Unit(Records, i)
          BY <1>0, <4>1, <5>1, PlaceOfPart
        <5> QED
          BY <4>1, <5>1, <5>2
      <4>5. /\ Len(accepted') = Len(accepted) + FrameUnits
            /\ \A i \in DOMAIN accepted' : (accepted[i] = UnitAt(i))'
        BY <4>1, <4>3, <4>4, PieceGiven
      <4>6. Len(accepted') = 1 + Records * Size
        BY <1>0, <4>1, <4>5
      <4>7. Given'
        BY <1>0, <2>1, <2>2, <4>6 DEF Given
      <4> QED
        BY <4>5, <4>7
    <3>2. refused' = refused /\ failed' = failed
      BY <2>2 DEF Accept
    <3> QED
      BY <2>1, <2>2, <3>1, <3>2 DEF SaveInv
  <2>3. CASE Refuse(FrameOf(Records))
    BY <2>3 DEF Refuse, SaveInv
  <2> QED
    BY <1>4, <2>2, <2>3 DEF WriteFrame
<1>5. CASE Flush
  <2>1. UNCHANGED <<filter, log, accepted, refused>> /\ pc = "flush" /\ Records' = Records
    BY <1>0, <1>5 DEF Flush, FlushSome, FlushFails
  <2>2. pc' \in {"recv", "flush"} /\ (failed => failed')
    BY <1>5 DEF Flush, FlushSome, FlushFails
  <2>3. (pc' = "recv" /\ ~failed') => inFile' = Len(accepted')
    BY <1>5 DEF Flush, FlushSome, FlushFails
  <2>4. (filter.pcap /\ ~refused) => Given'
    BY <1>0, <2>1, <2>2 DEF SaveInv, Given
  <2> QED
    BY <2>1, <2>2, <2>3, <2>4, NothingGiven
<1>6. CASE InterfaceGone \/ Kill
  <2>1. UNCHANGED <<filter, log, accepted, failed, refused>> /\ pc # "gone" /\ pc' = "gone"
    BY <1>6 DEF InterfaceGone, Kill, fileVars
  <2>2. ASSUME filter.pcap, ~refused PROVE Given'
    <3>1. Given /\ pc \in {"recv", "header", "frame", "flush"}
      BY <2>1, <2>2 DEF SaveInv, FilterTypes
    <3>2. Len(accepted) <= 1 + Records * Size
      BY <1>0, <1>1, <3>1 DEF Given
    <3> QED
      BY <1>0, <2>1, <3>2 DEF Given
  <2> QED
    BY <2>1, <2>2, NothingGiven
<1>7. CASE UNCHANGED vars
  <2>1. UNCHANGED <<filter, pc, log, accepted, inFile, failed, refused>> /\ Records' = Records
    BY <1>0, <1>7 DEF vars, fileVars
  <2>2. (filter.pcap /\ ~refused) => Given'
    BY <1>0, <2>1 DEF SaveInv, Given
  <2>3. (filter.pcap /\ pc' = "recv" /\ ~failed' /\ Records' > 0) => inFile' = Len(accepted')
    BY <2>1 DEF SaveInv
  <2> QED
    BY <2>1, <2>2, <2>3, NothingGiven
<1> QED
  BY <1>2, <1>3, <1>4, <1>5, <1>6, <1>7 DEF Next

-----------------------------------------------------------------------------
(* The theorems.                                                           *)

\* Each part of the correctness rests on the types and on what its tracker, or the
\* writer, knows of the log.
Inv ==
    /\ FilterTypes /\ TrackTypes /\ FileTypes
    /\ ShownIsAsked
    /\ KnownIsLast /\ SpoofIsReported
    /\ ScanInv
    /\ SaveInv

LEMMA InvInit == Init => Inv
<1> SUFFICES ASSUME Init PROVE Inv
  OBVIOUS
<1>1. log = <<>> /\ DOMAIN log = {} /\ \A ip \in Hosts : known[ip] = NoMac
  BY DEF Init
<1>2. ShownIsAsked /\ KnownIsLast /\ SpoofIsReported
  BY <1>1 DEF ShownIsAsked, KnownIsLast, SpoofIsReported
<1> QED
  BY <1>2, FilterInit, TrackInit, FileInit, ScanInit DEF Inv

LEMMA InvStep == Inv /\ [Next]_vars => Inv'
  BY FilterStep, TrackStep, FileStep, ShownStep, SpoofStep, ScanStep, SaveStep DEF Inv

LEMMA Invariance == Spec => []Inv
  BY InvInit, InvStep, PTL DEF Spec

\* The state is what the fields of the program are declared to be.
THEOREM TypeCorrect == Spec => []TypeOK
<1>1. Inv => TypeOK
  BY DEF Inv, FilterTypes, TrackTypes, FileTypes, TypeOK, Entries, HitRecords
<1> QED
  BY <1>1, Invariance, PTL

\* A frame is printed exactly when its layers parse and every option agrees.
THEOREM PrintsWhatWasAsked == Spec => []ShownIsAsked
<1>1. Inv => ShownIsAsked
  BY DEF Inv
<1> QED
  BY <1>1, Invariance, PTL

\* A change of an address's MAC is reported exactly when the last claim was another's.
THEOREM SpoofsAreReported == Spec => []SpoofIsReported
<1>1. Inv => SpoofIsReported
  BY DEF Inv
<1> QED
  BY <1>1, Invariance, PTL

\* Whoever hits enough ports of this host within the window, in what was printed, is
\* reported or has been within it; and no report rests on fewer ports or follows another
\* within the window.
THEOREM ScansAreReported == Spec => []ScanIsReported
<1>1. Inv => ScanIsReported
  <2> SUFFICES ASSUME Inv, NEW k \in DOMAIN log, log[k].shown, log[k].frame.kind = "tcp"
               PROVE  /\ Cardinality(PortsHit(HitsHere(k))) >= Threshold
                            => log[k].alert \/ ReportedSince(k)
                      /\ log[k].alert
                            => Cardinality(PortsHit(Hits(k))) >= Threshold /\ ~ReportedSince(k)
    BY DEF ScanIsReported
  <2>1. log[k].alert <=> Cardinality(PortsHit(Hits(k))) >= Threshold /\ ~ReportedSince(k)
    BY DEF Inv, ScanInv, TrackerAgrees, PortsHit
  <2>2. IsFiniteSet(PortsHit(Hits(k)))
    <3>1. k \in Nat
      BY DEF Inv, TrackTypes
    <3>2. IsFiniteSet(1..k)
      BY <3>1, FS_Interval
    <3>3. Hits(k) \subseteq 1..k
      BY DEF Hits
    <3>4. IsFiniteSet(Hits(k))
      BY <3>2, <3>3, FS_Subset
    <3> DEFINE f == [j \in Hits(k) |-> log[j].frame.dp]
    <3>5. f \in Surjection(Hits(k), PortsHit(Hits(k)))
      BY DEF Surjection, PortsHit
    <3> QED
      BY <3>4, <3>5, FS_Surjection
  <2>3. PortsHit(HitsHere(k)) \subseteq PortsHit(Hits(k))
    BY DEF PortsHit, HitsHere
  <2>4. /\ Cardinality(PortsHit(HitsHere(k))) <= Cardinality(PortsHit(Hits(k)))
        /\ Cardinality(PortsHit(Hits(k))) \in Nat /\ Cardinality(PortsHit(HitsHere(k))) \in Nat
    BY <2>2, <2>3, FS_Subset, FS_CardinalityType
  <2> QED
    BY <2>1, <2>4
<1> QED
  BY <1>1, Invariance, PTL

\* What was printed is in the file, whole and in order, whenever the next frame is
\* awaited and no write has failed; and failed flushes alone only cut it off.
THEOREM CapturesAreSaved == Spec => []CaptureIsSaved
<1>1. Inv => CaptureIsSaved
  <2> SUFFICES ASSUME Inv, filter.pcap PROVE
          /\ (pc = "recv" /\ ~failed) =>
                /\ accepted = Image(Records)
                /\ Records > 0 => inFile = Len(accepted)
          /\ ~refused => accepted = SubSeq(Image(Records), 1, Len(accepted))
    BY DEF CaptureIsSaved
  <2>1. Records \in Nat /\ accepted \in Seq(Units) /\ Len(accepted) \in Nat
    BY RecordsCount DEF Inv, FileTypes
  <2>2. /\ Image(Records) \in Seq(Units) /\ Len(Image(Records)) = 1 + Records * Size
        /\ \A i \in 1..(1 + Records * Size) : Image(Records)[i] = UnitAt(i)
    BY <2>1, ImageAt
  <2>3. /\ Size \in Nat \ {0} /\ Size = 1 + FrameUnits /\ Records * Size \in Nat
        /\ Records > 0 => (Records - 1) * Size \in Nat
                          /\ Records * Size = (Records - 1) * Size + Size
    BY <2>1, SizeOfRecords DEF Size
  <2>4. ASSUME ~refused PROVE accepted = SubSeq(Image(Records), 1, Len(accepted))
    <3>1. /\ Given /\ pc \in {"recv", "header", "frame", "flush", "gone"}
          /\ \A i \in 1..Len(accepted) : accepted[i] = UnitAt(i)
      BY <2>1, <2>4 DEF Inv, SaveInv, FilterTypes
    <3>2. Len(accepted) <= 1 + Records * Size
      BY <2>1, <2>3, <3>1 DEF Given
    <3>3. \A i \in 1..Len(accepted) : accepted[i] = Image(Records)[i]
      BY <2>1, <2>2, <2>3, <3>1, <3>2
    <3> QED
      BY <2>1, <2>2, <2>3, <3>2, <3>3
  <2>5. ASSUME pc = "recv", ~failed
        PROVE  accepted = Image(Records) /\ (Records > 0 => inFile = Len(accepted))
    <3>1. /\ ~refused /\ Given
          /\ \A i \in 1..Len(accepted) : accepted[i] = UnitAt(i)
          /\ Records > 0 => inFile = Len(accepted)
      BY <2>1, <2>5 DEF Inv, SaveInv
    <3>2. Len(accepted) = 1 + Records * Size
      BY <2>5, <3>1 DEF Given
    <3>3. \A i \in 1..Len(accepted) : accepted[i] = Image(Records)[i]
      BY <2>2, <3>1, <3>2
    <3> QED
      BY <2>1, <2>2, <3>1, <3>2, <3>3
  <2> QED
    BY <2>4, <2>5
<1> QED
  BY <1>1, Invariance, PTL
=============================================================================
