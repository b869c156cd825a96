------------------------------ MODULE Packets ------------------------------
(***************************************************************************)
(* 4P's capture loop (PickAPeckOfPacketParsers/src/main.rs) with its two   *)
(* trackers (security.rs): every frame is parsed, held against the user's  *)
(* filter, fed to the trackers, printed, and written to the pcap file.     *)
(* The capture is stopped by a SIGKILL, or ends when the interface does.   *)
(***************************************************************************)
EXTENDS Integers, FiniteSets, PcapFile

CONSTANTS Frames,      \* the frames the interface may deliver
          Requests,    \* what a user may ask the dashboard for
          Hosts, Ports, Macs,
          ThisHost,    \* the address of the machine that captures
          ZeroMac,     \* 00:00:00:00:00:00
          Unset,       \* a parameter the user leaves open
          NoMac,       \* an address no ARP packet has claimed yet
          Window, Threshold,    \* PORT_SCAN_WINDOW, PORT_SCAN_THRESHOLD
          MaxFrames, MaxTime    \* bounds of the log and of the clock

Kinds == {"tcp", "udp", "icmp", "otherIp", "arp", "otherEther"}

Protocols == {"all", "tcp", "udp", "icmp", "arp"}

ASSUME PacketsAssumption ==
    /\ Frames \subseteq [kind : Kinds, whole : BOOLEAN, src : Hosts, dst : Hosts,
                         sp : Ports, dp : Ports, mac : Macs]
    /\ Requests \subseteq [protocol : Protocols \cup {Unset}, port : Ports \cup {Unset},
                           host : Hosts \cup {Unset}, save : BOOLEAN]
    /\ ThisHost \in Hosts
    /\ Unset \notin Ports \cup Hosts
    /\ NoMac \notin Macs
    /\ Window \in Nat /\ Threshold \in Nat
    /\ MaxFrames \in Nat /\ MaxTime \in Nat

VARIABLES
    filter,   \* the command line
    pc,       \* "recv", the stages of write_packet, or "gone"
    now,      \* the clock Instant::now reads
    recent,   \* PortScanTracker: the hits of each source
    alerted,  \* PortScanTracker: when each source was last reported, or Never
    known,    \* ArpSpoofTracker
    log       \* every frame received and what was done about it

trackers == <<recent, alerted, known>>
vars == <<filter, pc, now, trackers, log, fileVars>>

\* run_pppp's command line, and what capture makes of it: without the pcap file, if
\* that cannot be created.
FilterOf(request, created) ==
    [protocol |-> IF request.protocol = Unset THEN "all" ELSE request.protocol,
     port |-> request.port,
     host |-> request.host,
     pcap |-> request.save /\ created]

Never == -1 \* an Instant that is not there

Init ==
    /\ \E request \in Requests, created \in BOOLEAN : filter = FilterOf(request, created)
    /\ pc = "recv"
    /\ now = 0
    /\ recent = [s \in Hosts |-> <<>>]
    /\ alerted = [s \in Hosts |-> Never]
    /\ known = [s \in Hosts |-> NoMac]
    /\ log = <<>>
    /\ InitFile

\* The number of the record that is being written, or was last.
Records == Cardinality({k \in DOMAIN log : log[k].shown})

-----------------------------------------------------------------------------
(* Plausible bugs in the definitions below. *)

\* A packet without hosts passes a host filter.
PassesHostless(kind, ports, hosts) ==
    /\ filter.protocol \in {"all", kind}
    /\ filter.port = Unset \/ filter.port \in ports
    /\ filter.host = Unset \/ hosts = {} \/ filter.host \in hosts

\* A hit exactly one window old is dropped.
FreshBelowWindow(hits, at) == SelectSeq(hits, LAMBDA hit : at - hit.at < Window)

\* A hit is recorded with the time after its own.
FreshLate(hits, at) == Append(hits, [at |-> at + 1, port |-> hits[Len(hits)].port])

\* A claim of no address is remembered as well.
ClaimZero(ip, mac) == known' = [known EXCEPT ![ip] = mac]

\* write_packet returns before its flush.
WriteFrameUnflushed ==
    /\ pc = "frame"
    /\ Accept(FrameOf(Records)) \/ Refuse(FrameOf(Records))
    /\ pc' = "recv"
    /\ UNCHANGED <<filter, now, trackers, log>>

-----------------------------------------------------------------------------
(* Filter::matches, and what each branch of the parser holds against it.   *)

Passes(kind, ports, hosts) ==
    /\ filter.protocol \in {"all", kind}
    /\ filter.port = Unset \/ filter.port \in ports
    /\ filter.host = Unset \/ filter.host \in hosts

\* handle_ipv4 and handle_ipv6: whether the packet is printed.  A layer that is cut
\* short ends the parse; only the hosts are known of any other protocol.
ShownIp(f) ==
    \/ f.kind \in {"tcp", "udp"} /\ f.whole /\ Passes(f.kind, {f.sp, f.dp}, {f.src, f.dst})
    \/ f.kind = "icmp" /\ Passes("icmp", {}, {f.src, f.dst}) /\ f.whole
    \/ f.kind = "otherIp" /\ Passes("none", {}, {f.src, f.dst})

\* handle_arp.
ShownArp(f) == f.kind = "arp" /\ f.whole /\ Passes("arp", {}, {f.src})

\* parse_ethernet_frame.
Shown(f) ==
    \/ ShownIp(f) \/ ShownArp(f)
    \/ f.kind = "otherEther" /\ Passes("none", {}, {})

-----------------------------------------------------------------------------
(* The trackers.                                                           *)

\* What is left when the hits older than the window are popped off the front, up to
\* the first that is not; the hit just pushed never is.
Fresh(hits, at) ==
    LET kept == {i \in DOMAIN hits : at - hits[i].at <= Window}
        first == CHOOSE i \in kept : \A j \in kept : i <= j
    IN  SubSeq(hits, first, Len(hits))

\* PortScanTracker::check, with whether it raises an alert.
CheckScan(src, port, at, alert) ==
    LET hits == Fresh(Append(recent[src], [at |-> at, port |-> port]), at)
        distinct == {hits[i].port : i \in DOMAIN hits}
    IN  /\ alert = (/\ Cardinality(distinct) >= Threshold
                    /\ alerted[src] = Never \/ at - alerted[src] >= Window)
        /\ recent' = [recent EXCEPT ![src] = hits]
        /\ alerted' = IF alert THEN [alerted EXCEPT ![src] = at] ELSE alerted
        /\ UNCHANGED known

\* The insert of ArpSpoofTracker::check, which a zero MAC never reaches.
Claim(ip, mac) ==
    known' = IF mac = ZeroMac THEN known ELSE [known EXCEPT ![ip] = mac]

\* ArpSpoofTracker::check, with whether it raises an alert.
CheckArp(ip, mac, alert) ==
    /\ alert = (mac # ZeroMac /\ known[ip] \notin {NoMac, mac})
    /\ Claim(ip, mac)
    /\ UNCHANGED <<recent, alerted>>

-----------------------------------------------------------------------------
(* The capture loop.                                                       *)

Track(f, at, alert) ==
    \/ f.kind = "tcp" /\ CheckScan(f.src, f.dp, at, alert)
    \/ f.kind = "arp" /\ CheckArp(f.src, f.mac, alert)
    \/ f.kind \notin {"tcp", "arp"} /\ ~alert /\ UNCHANGED trackers

Receive(f, at) ==
    /\ pc = "recv"
    /\ Len(log) < MaxFrames
    /\ now' = at
    /\ \E alert \in BOOLEAN :
          /\ \/ Shown(f) /\ Track(f, at, alert)
             \/ ~Shown(f) /\ ~alert /\ UNCHANGED trackers
          /\ log' = Append(log, [frame |-> f, at |-> at, shown |-> Shown(f), alert |-> alert])
    /\ pc' = IF Shown(f) /\ filter.pcap THEN "header" ELSE "recv"
    /\ UNCHANGED <<filter, fileVars>>

\* An error of write_packet is printed and the loop goes on.
WriteHeader ==
    /\ pc = "header"
    /\ \/ Accept(<<Unit(Records, 0)>>) /\ pc' = "frame"
       \/ Refuse(<<Unit(Records, 0)>>) /\ pc' = "recv"
    /\ UNCHANGED <<filter, now, trackers, log>>

WriteFrame ==
    /\ pc = "frame"
    /\ \/ Accept(FrameOf(Records)) /\ pc' = "flush"
       \/ Refuse(FrameOf(Records)) /\ pc' = "recv"
    /\ UNCHANGED <<filter, now, trackers, log>>

Flush ==
    /\ pc = "flush"
    /\ \/ FlushSome /\ pc' = (IF inFile' = Len(accepted) THEN "recv" ELSE "flush")
       \/ FlushFails /\ pc' = "recv"
    /\ UNCHANGED <<filter, now, trackers, log>>

\* rx.next() fails: capture returns, and dropping the BufWriter tries a last flush.
InterfaceGone ==
    /\ pc = "recv"
    /\ pc' = "gone"
    /\ inFile' \in inFile..Len(accepted)
    /\ UNCHANGED <<filter, now, trackers, log, accepted, failed, refused>>

\* The dashboard's Stop, at any point: what is still in the buffer is lost.
Kill ==
    /\ pc # "gone"
    /\ pc' = "gone"
    /\ UNCHANGED <<filter, now, trackers, log, fileVars>>

Next ==
    \/ \E f \in Frames, at \in now..MaxTime : Receive(f, at)
    \/ WriteHeader \/ WriteFrame \/ Flush
    \/ InterfaceGone \/ Kill

Spec == Init /\ [][Next]_vars

-----------------------------------------------------------------------------
(* Correctness.                                                            *)

TypeOK ==
    /\ filter \in [protocol : Protocols, port : Ports \cup {Unset}, host : Hosts \cup {Unset},
                   pcap : BOOLEAN]
    /\ pc \in {"recv", "header", "frame", "flush", "gone"}
    /\ now \in 0..MaxTime
    /\ recent \in [Hosts -> Seq([at : 0..MaxTime, port : Ports])]
    /\ alerted \in [Hosts -> {Never} \cup 0..MaxTime]
    /\ known \in [Hosts -> Macs \cup {NoMac}]
    /\ log \in Seq([frame : Frames, at : 0..MaxTime, shown : BOOLEAN, alert : BOOLEAN])
    /\ inFile \in 0..Len(accepted)
    /\ failed \in BOOLEAN /\ refused \in BOOLEAN

\* What the options' help promises: "Only show this protocol", "Only show packets
\* involving this port (TCP/UDP source or destination)", "... this host (source
\* or destination IP)".  An ARP packet has no IP header; it is its sender's.
Asked(f) ==
    /\ f.whole \/ f.kind \in {"otherIp", "otherEther"}
    /\ filter.protocol # "all" => f.kind = filter.protocol
    /\ filter.port # Unset => f.kind \in {"tcp", "udp"} /\ filter.port \in {f.sp, f.dp}
    /\ filter.host # Unset => \/ f.kind # "otherEther" /\ filter.host = f.src
                              \/ f.kind \notin {"otherEther", "arp"} /\ filter.host = f.dst

\* A frame is printed exactly when its layers parse and every option agrees,
\* in whichever of the parser's branches it ends up.
ShownIsAsked == \A k \in DOMAIN log : log[k].shown <=> Asked(log[k].frame)

\* The printed TCP packets of entry k's source no more than a window before it.
Hits(k) ==
    {j \in 1..k : /\ log[j].shown /\ log[j].frame.kind = "tcp"
                  /\ log[j].frame.src = log[k].frame.src
                  /\ log[k].at - log[j].at <= Window}

ReportedSince(k) ==
    \E j \in 1..(k - 1) : /\ log[j].alert /\ log[j].frame.kind = "tcp"
                          /\ log[j].frame.src = log[k].frame.src
                          /\ log[k].at - log[j].at < Window

PortsHit(J) == {log[j].frame.dp : j \in J}

\* The two directions of a TCP connection.
Way(f) == <<f.kind, f.src, f.sp, f.dst, f.dp>>
WayBack(f) == <<f.kind, f.dst, f.dp, f.src, f.sp>>

\* Entry j belongs to a connection its source has opened, as far as the capture saw,
\* and is no reply to one its destination has.
Unasked(j) ==
    \A i \in 1..(j - 1) : WayBack(log[i].frame) = Way(log[j].frame)
        => \E h \in 1..(i - 1) : Way(log[h].frame) = Way(log[j].frame)

\* Those of the packets that hit this host.
HitsHere(k) == {j \in Hits(k) : log[j].frame.dst = ThisHost /\ Unasked(j)}

\* No scan of this host goes unreported, and nobody is reported for less than enough
\* ports: whoever has hit enough different ports of this host within the window, in the
\* whole history of what was printed, is reported with the last of those packets or has
\* been within the window; and a report rests on that many ports within the window,
\* of whatever hosts ("one source hitting many destination ports fast"), and on no
\* other report within it.  So the pruned deque forgets nothing that counts and keeps
\* nothing that does not, and the cooldown of one source silences no other.
ScanIsReported ==
    \A k \in DOMAIN log : (log[k].shown /\ log[k].frame.kind = "tcp") =>
        /\ Cardinality(PortsHit(HitsHere(k))) >= Threshold => log[k].alert \/ ReportedSince(k)
        /\ log[k].alert => Cardinality(PortsHit(Hits(k))) >= Threshold /\ ~ReportedSince(k)

\* The comment on PortScanTracker says that it flags "a source IP that hits a lot of
\* distinct destination ports on this host".  That does not hold of the connections this
\* host opens to others, nor of what a server answers to many ports of a client.
AlertMeansScan ==
    \A k \in DOMAIN log : (log[k].alert /\ log[k].frame.kind = "tcp") =>
        Cardinality(PortsHit(HitsHere(k))) >= Threshold

\* Entry j is a printed claim of entry k's address by some MAC.
Claims(j, k) ==
    /\ log[j].shown /\ log[j].frame.kind = "arp"
    /\ log[j].frame.mac # ZeroMac
    /\ log[j].frame.src = log[k].frame.src

\* An ARP packet raises an alert exactly when the last claim before it of the same
\* address came from another MAC, however many packets without a MAC ("0:0:0:0:0:0"
\* probes) or about other addresses came in between.
SpoofIsReported ==
    \A k \in DOMAIN log :
        (log[k].shown /\ log[k].frame.kind = "arp") =>
            (log[k].alert <=>
                /\ Claims(k, k)
                /\ \E j \in 1..(k - 1) :
                      /\ Claims(j, k) /\ log[j].frame.mac # log[k].frame.mac
                      /\ \A i \in (j + 1)..(k - 1) : ~Claims(i, k))

\* What was printed is saved ("unflushed buffered packets would otherwise be
\* lost"): whenever the next frame is awaited, so wherever a kill comes from
\* there, the file holds every record whole and in order, unless a write to it has
\* failed (before the first record it does not even hold its own header).  And failed
\* writes alone do not spoil it: until the full buffer refuses a piece of a record,
\* the file is cut off at worst, and the rest is still to come.
CaptureIsSaved ==
    filter.pcap =>
        /\ (pc = "recv" /\ ~failed) =>
              /\ accepted = Image(Records)
              /\ Records > 0 => inFile = Len(accepted)
        /\ ~refused => accepted = SubSeq(Image(Records), 1, Len(accepted))
=============================================================================
