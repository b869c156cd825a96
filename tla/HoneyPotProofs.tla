--------------------------- MODULE HoneyPotProofs ---------------------------
(***************************************************************************)
(* Proofs about HoneyPot, for every number of connections, sources and     *)
(* ports and every window, threshold and cooldown: TypeOK,                 *)
(* AlertsAreSpaced, AlertIsEarned, NoScannerMissed, and AlertMeansScan as  *)
(* long as checks come in order.                                           *)
(***************************************************************************)
EXTENDS HoneyPot, FiniteSetTheorems, TLAPS

\* The types, and that a source's deque is finite, so that its ports can be counted.
HoneyTypes == TypeOK /\ \A s \in Sources : IsFiniteSet(hits[s])

\* The hits a check leaves in its source's deque.
Kept(c) == {h \in hits[peer[c]] \cup {[at |-> now[c], port |-> port[c]]} :
               Elapsed(now[c], h.at) <= Window}

\* How many ports there are among them is a number.
LEMMA KeptIsFinite ==
  ASSUME HoneyTypes, NEW c \in Conns
  PROVE  /\ Kept(c) \in SUBSET [at : Times, port : Ports]
         /\ IsFiniteSet(Kept(c))
         /\ PortsOf(Kept(c)) \in SUBSET Ports /\ IsFiniteSet(PortsOf(Kept(c)))
         /\ Cardinality(PortsOf(Kept(c))) \in Nat
<1> DEFINE old == hits[peer[c]]
           hit == [at |-> now[c], port |-> port[c]]
<1>1. /\ old \in SUBSET [at : Times, port : Ports] /\ IsFiniteSet(old)
      /\ hit \in [at : Times, port : Ports]
  BY DEF HoneyTypes, TypeOK
<1>2. IsFiniteSet(old \cup {hit})
  BY <1>1, FS_AddElement
<1>3. Kept(c) \in SUBSET (old \cup {hit})
  BY DEF Kept
<1>4. Kept(c) \in SUBSET [at : Times, port : Ports] /\ IsFiniteSet(Kept(c))
  BY <1>1, <1>2, <1>3, FS_Subset
<1>5. PortsOf(Kept(c)) \in SUBSET Ports
  BY <1>4 DEF PortsOf
<1> DEFINE f == [h \in Kept(c) |-> h.port]
<1>6. f \in [Kept(c) -> Ports] /\ PortsOf(Kept(c)) = {f[h] : h \in Kept(c)}
  BY <1>4 DEF PortsOf
<1>7. IsFiniteSet(PortsOf(Kept(c)))
  <2>1. f \in Surjection(Kept(c), PortsOf(Kept(c)))
    BY <1>6 DEF Surjection, PortsOf
  <2> QED
    BY <1>4, <2>1, FS_Surjection
<1> QED
  BY <1>4, <1>5, <1>7, FS_CardinalityType

\* Connection d has put its hit on port p into the tracker.
TouchedBy(d, s, p) ==
    Recorded(d) /\ peer[d] = s /\ port[d] = p /\ listener[p] = "listening"

HitsAreReal ==
    \A s \in Sources : \A h \in hits[s] : \E d \in Conns : TouchedBy(d, s, h.port) /\ now[d] = h.at

\* Enough ports, none touched longer than the window before instant t, and none after
\* it while checks come in order.
Earned(ports, s, t) ==
    /\ Cardinality(ports) >= Threshold
    /\ \A p \in ports : \E d \in Conns :
          TouchedBy(d, s, p) /\ now[d] >= t - Window /\ (inOrder => now[d] <= t)

PendingIsEarned ==
    \A c \in Conns : pc[c] = "alert" => Earned(distinct[c], peer[c], now[c])

AlertsAreEarned == \A a \in alerts : Earned(a.ports, a.source, a.at)

\* A connection has come in over a port that listens.
CameIn == \A c \in Conns : pc[c] # "none" => listener[port[c]] = "listening"

\* What is remembered of a source is its last alert, unless every check may alert.
LastIsLast ==
    Cooldown > 0 => \A a \in alerts : a.at <= lastAlert[a.source]

HoneyInv ==
    /\ HoneyTypes
    /\ HitsAreReal /\ PendingIsEarned /\ AlertsAreEarned /\ CameIn
    /\ LastIsLast /\ AlertsAreSpaced

\* Nobody has connected.
LEMMA HoneyInit == Init => HoneyInv
<1> SUFFICES ASSUME Init PROVE HoneyInv
  OBVIOUS
<1>1. HoneyTypes
  BY HoneyPotAssumption, FS_EmptySet DEF Init, HoneyTypes, TypeOK, Times
<1>2. HitsAreReal /\ PendingIsEarned /\ AlertsAreEarned /\ CameIn
  BY DEF Init, HitsAreReal, PendingIsEarned, AlertsAreEarned, CameIn
<1>3. LastIsLast /\ AlertsAreSpaced
  BY DEF Init, LastIsLast, AlertsAreSpaced
<1> QED
  BY <1>1, <1>2, <1>3 DEF HoneyInv

\* Every step keeps the types.
LEMMA HoneyTypesStep == HoneyTypes /\ [Next]_vars => HoneyTypes'
<1> SUFFICES ASSUME HoneyTypes, [Next]_vars PROVE HoneyTypes'
  OBVIOUS
<1> USE DEF HoneyTypes, TypeOK, shared
<1>1. CASE Tick
  BY <1>1, HoneyPotAssumption DEF Tick, Times
<1>2. ASSUME NEW p \in Ports, Bind(p) PROVE HoneyTypes'
  BY <1>2 DEF Bind
<1>3. ASSUME NEW c \in Conns, Accept(c) PROVE HoneyTypes'
  BY <1>3 DEF Accept, Move
<1>4. ASSUME NEW c \in Conns, NoPeer(c) PROVE HoneyTypes'
  BY <1>4 DEF NoPeer, Move
<1>5. ASSUME NEW c \in Conns, Stamp(c) PROVE HoneyTypes'
  BY <1>5 DEF Stamp, Move
<1>6. ASSUME NEW c \in Conns, Record(c) PROVE HoneyTypes'
  <2>1. /\ hits' = [hits EXCEPT ![peer[c]] = Kept(c)]
        /\ distinct' = [distinct EXCEPT ![c] = PortsOf(Kept(c))]
        /\ inOrder' \in BOOLEAN
        /\ UNCHANGED <<clock, listener, peer, port, now, lastAlert, alerts>>
    BY <1>6 DEF Record, Kept
  <2>2. pc' \in [Conns -> {"none", "stamp", "record", "alert", "closed"}]
    BY <1>6 DEF Record, Move
  <2>3. hits' \in [Sources -> SUBSET [at : Times, port : Ports]]
        /\ \A s \in Sources : IsFiniteSet(hits'[s])
    BY <2>1, KeptIsFinite
  <2>4. distinct' \in [Conns -> SUBSET Ports]
    BY <2>1, KeptIsFinite
  <2> QED
    BY <2>1, <2>2, <2>3, <2>4
<1>7. ASSUME NEW c \in Conns, Alert(c) PROVE HoneyTypes'
  <2>1. [source |-> peer[c], at |-> now[c], ports |-> distinct[c]]
          \in [source : Sources, at : Times, ports : SUBSET Ports]
    BY <1>7
  <2> QED
    BY <1>7, <2>1 DEF Alert, Move
<1>8. ASSUME NEW c \in Conns, Suppress(c) PROVE HoneyTypes'
  BY <1>8 DEF Suppress, Move
<1>9. CASE UNCHANGED vars
  BY <1>9 DEF vars
<1> QED
  BY <1>1, <1>2, <1>3, <1>4, <1>5, <1>6, <1>7, <1>8, <1>9 DEF Next, Check

\* A hit that is in the tracker once was real for good.
LEMMA TouchIsForever ==
  ASSUME HoneyTypes, [Next]_vars, NEW d \in Conns, NEW s, NEW p \in Ports, TouchedBy(d, s, p)
  PROVE  TouchedBy(d, s, p)' /\ now'[d] = now[d]
<1> USE DEF TouchedBy, Recorded, HoneyTypes, TypeOK, shared
<1>1. CASE Tick
  BY <1>1 DEF Tick
<1>2. ASSUME NEW q \in Ports, Bind(q) PROVE TouchedBy(d, s, p)' /\ now'[d] = now[d]
  BY <1>2 DEF Bind
<1>3. ASSUME NEW c \in Conns, Accept(c) PROVE TouchedBy(d, s, p)' /\ now'[d] = now[d]
  BY <1>3 DEF Accept, Move
<1>4. ASSUME NEW c \in Conns, Check(c) PROVE TouchedBy(d, s, p)' /\ now'[d] = now[d]
  <2>1. CASE NoPeer(c) \/ Stamp(c) \/ Suppress(c)
    BY <2>1 DEF NoPeer, Stamp, Suppress, Move
  <2>2. CASE Record(c)
    BY <2>2 DEF Record, Move
  <2>3. CASE Alert(c)
    BY <2>3 DEF Alert, Move
  <2> QED
    BY <1>4, <2>1, <2>2, <2>3 DEF Check
<1>5. CASE UNCHANGED vars
  BY <1>5 DEF vars
<1> QED
  BY <1>1, <1>2, <1>3, <1>4, <1>5 DEF Next

\* Order once lost is lost for good.
LEMMA OrderIsNotRestored == [Next]_vars /\ inOrder' => inOrder
  BY DEF Next, Tick, Bind, Accept, Check, NoPeer, Stamp, Record, Alert, Suppress, shared, vars

\* So what was earned stays earned.
LEMMA EarnedIsForever ==
  ASSUME HoneyTypes, [Next]_vars, NEW ports \in SUBSET Ports, NEW s, NEW t, Earned(ports, s, t)
  PROVE  Earned(ports, s, t)'
  BY TouchIsForever, OrderIsNotRestored DEF Earned

\* A step other than the recording of a hit and the raising of an alert.
LEMMA QuietStep ==
  ASSUME HoneyInv, [Next]_vars, UNCHANGED <<hits, distinct, lastAlert, alerts>>,
         \A c \in Conns : pc'[c] = "alert" => UNCHANGED <<pc[c], peer[c], now[c]>>,
         CameIn'
  PROVE  HoneyInv'
<1>1. HoneyTypes /\ HoneyTypes'
  BY HoneyTypesStep DEF HoneyInv
<1>2. HitsAreReal'
  BY <1>1, TouchIsForever DEF HoneyInv, HitsAreReal, HoneyTypes, TypeOK
<1>3. PendingIsEarned'
  <2> SUFFICES ASSUME NEW c \in Conns, pc'[c] = "alert"
               PROVE  Earned(distinct[c], peer[c], now[c])'
    BY DEF PendingIsEarned
  <2>1. /\ Earned(distinct[c], peer[c], now[c]) /\ distinct[c] \in SUBSET Ports
        /\ distinct'[c] = distinct[c] /\ peer'[c] = peer[c] /\ now'[c] = now[c]
    BY <1>1 DEF HoneyInv, PendingIsEarned, HoneyTypes, TypeOK
  <2>2. PICK ports \in SUBSET Ports : ports = distinct[c]
    BY <2>1
  <2>3. PICK s, t : s = peer[c] /\ t = now[c]
    OBVIOUS
  <2>4. Earned(ports, s, t)'
    BY <1>1, <2>1, <2>2, <2>3, EarnedIsForever
  <2> QED
    BY <2>1, <2>2, <2>3, <2>4 DEF Earned
<1>4. AlertsAreEarned'
  BY <1>1, EarnedIsForever DEF HoneyInv, AlertsAreEarned, HoneyTypes, TypeOK
<1>5. LastIsLast' /\ AlertsAreSpaced'
  BY DEF HoneyInv, LastIsLast, AlertsAreSpaced
<1> QED
  BY <1>1, <1>2, <1>3, <1>4, <1>5 DEF HoneyInv

\* push, prune and count.
LEMMA RecordStep ==
  ASSUME HoneyInv, NEW c \in Conns, Record(c)
  PROVE  HoneyInv'
<1>1. /\ HoneyTypes /\ HoneyTypes' /\ [Next]_vars
      /\ HitsAreReal /\ PendingIsEarned /\ AlertsAreEarned /\ CameIn
  BY HoneyTypesStep DEF HoneyInv, Next, Check
<1>2. /\ pc[c] = "record"
      /\ pc' = [pc EXCEPT ![c] = IF Cardinality(PortsOf(Kept(c))) < Threshold THEN "closed"
                                 ELSE "alert"]
      /\ hits' = [hits EXCEPT ![peer[c]] = Kept(c)]
      /\ distinct' = [distinct EXCEPT ![c] = PortsOf(Kept(c))]
      /\ UNCHANGED <<clock, listener, peer, port, now, lastAlert, alerts>>
  BY DEF Record, Move, Kept
<1>3. /\ pc \in [Conns -> {"none", "stamp", "record", "alert", "closed"}]
      /\ hits \in [Sources -> SUBSET [at : Times, port : Ports]]
      /\ distinct \in [Conns -> SUBSET Ports]
      /\ peer[c] \in Sources /\ port[c] \in Ports /\ now[c] \in Nat
  BY <1>1 DEF HoneyTypes, TypeOK, Times
<1> DEFINE hit == [at |-> now[c], port |-> port[c]]
<1>4. hit \in Kept(c)
  BY <1>3, HoneyPotAssumption DEF Kept, Elapsed
<1>5. TouchedBy(c, peer[c], port[c])'
  <2>1. port[c] \in PortsOf(Kept(c))
    BY <1>4 DEF PortsOf
  <2>2. listener[port[c]] = "listening"
    BY <1>1, <1>2 DEF CameIn
  <2>3. pc'[c] \in {"alert", "closed"} /\ distinct'[c] # {}
    BY <1>2, <1>3, <2>1
  <2> QED
    BY <1>2, <2>2, <2>3 DEF TouchedBy, Recorded
\* Every hit that is kept belongs to somebody, is no older than the window and, in
\* order, no younger than this check.
<1>6. \A h \in Kept(c) : /\ \E d \in Conns : TouchedBy(d, peer[c], h.port)' /\ now'[d] = h.at
                         /\ h.at \in Nat /\ h.at >= now[c] - Window
                         /\ inOrder' => h.at <= now[c]
  <2> SUFFICES ASSUME NEW h \in Kept(c)
               PROVE  /\ \E d \in Conns : TouchedBy(d, peer[c], h.port)' /\ now'[d] = h.at
                      /\ h.at \in Nat /\ h.at >= now[c] - Window
                      /\ inOrder' => h.at <= now[c]
    OBVIOUS
  <2>1. h \in [at : Times, port : Ports] /\ Elapsed(now[c], h.at) <= Window
        /\ (h \in hits[peer[c]] \/ h = hit)
    BY <1>1, KeptIsFinite DEF Kept
  <2>2. h.at \in Nat /\ h.at >= now[c] - Window
    BY <1>3, <2>1, HoneyPotAssumption DEF Elapsed, Times
  <2>3. CASE h = hit
    BY <1>2, <1>3, <1>5, <2>2, <2>3
  <2>4. CASE h \in hits[peer[c]]
    <3>1. PICK d \in Conns : TouchedBy(d, peer[c], h.port) /\ now[d] = h.at
      BY <1>1, <1>3, <2>4 DEF HitsAreReal
    <3>2. inOrder' => h.at <= now[c]
      BY <2>4 DEF Record
    <3> QED
      BY <1>1, <1>2, <2>1, <2>2, <3>1, <3>2, TouchIsForever
  <2> QED
    BY <2>1, <2>3, <2>4
<1>7. HitsAreReal'
  <2> SUFFICES ASSUME NEW s \in Sources, NEW h \in hits'[s]
               PROVE  \E d \in Conns : TouchedBy(d, s, h.port)' /\ now'[d] = h.at
    BY DEF HitsAreReal
  <2>1. CASE s = peer[c]
    BY <1>2, <1>3, <1>6, <2>1
  <2>2. CASE s # peer[c]
    <3>1. h \in hits[s] /\ h.port \in Ports
      BY <1>2, <1>3, <2>2
    <3>2. PICK d \in Conns : TouchedBy(d, s, h.port) /\ now[d] = h.at
      BY <1>1, <3>1 DEF HitsAreReal
    <3> QED
      BY <1>1, <3>1, <3>2, TouchIsForever
  <2> QED
    BY <2>1, <2>2
<1>8. PendingIsEarned'
  <2> SUFFICES ASSUME NEW d \in Conns, pc'[d] = "alert"
               PROVE  Earned(distinct[d], peer[d], now[d])'
    BY DEF PendingIsEarned
  <2>1. CASE d = c
    <3>1. Cardinality(PortsOf(Kept(c))) >= Threshold
      BY <1>1, <1>2, <1>3, <2>1, KeptIsFinite, HoneyPotAssumption
    <3>2. \A p \in PortsOf(Kept(c)) : \E e \in Conns :
             /\ TouchedBy(e, peer[c], p)' /\ now'[e] >= now[c] - Window
             /\ inOrder' => now'[e] <= now[c]
      BY <1>6 DEF PortsOf
    <3>3. distinct'[d] = PortsOf(Kept(c)) /\ peer'[d] = peer[c] /\ now'[d] = now[c]
      BY <1>2, <1>3, <2>1
    <3>4. \A p \in PortsOf(Kept(c)) : \E e \in Conns :
             Recorded(e)' /\ peer'[e] = peer[c] /\ port'[e] = p /\ listener'[p] = "listening"
             /\ now'[e] >= now[c] - Window /\ (inOrder' => now'[e] <= now[c])
      BY <1>2, <3>2 DEF TouchedBy
    <3> QED
      BY <2>1, <3>1, <3>3, <3>4 DEF Earned, TouchedBy
  <2>2. CASE d # c
    <3>1. /\ Earned(distinct[d], peer[d], now[d]) /\ distinct[d] \in SUBSET Ports
          /\ distinct'[d] = distinct[d] /\ peer'[d] = peer[d] /\ now'[d] = now[d]
      BY <1>1, <1>2, <1>3, <2>2 DEF PendingIsEarned
    <3>2. PICK ports \in SUBSET Ports : ports = distinct[d]
      BY <3>1
    <3>3. PICK s, t : s = peer[d] /\ t = now[d]
      OBVIOUS
    <3>4. Earned(ports, s, t)'
      BY <1>1, <3>1, <3>2, <3>3, EarnedIsForever
    <3> QED
      BY <3>1, <3>2, <3>3, <3>4 DEF Earned
  <2> QED
    BY <2>1, <2>2
<1>9. AlertsAreEarned'
  BY <1>1, <1>2, EarnedIsForever DEF AlertsAreEarned, HoneyTypes, TypeOK
<1>10. CameIn'
  BY <1>1, <1>2, <1>3 DEF CameIn
<1>11. LastIsLast' /\ AlertsAreSpaced'
  BY <1>2 DEF HoneyInv, LastIsLast, AlertsAreSpaced
<1> QED
  BY <1>1, <1>7, <1>8, <1>9, <1>10, <1>11 DEF HoneyInv

\* The alert, under the second lock.
LEMMA AlertStep ==
  ASSUME HoneyInv, NEW c \in Conns, Alert(c)
  PROVE  HoneyInv'
<1> DEFINE new == [source |-> peer[c], at |-> now[c], ports |-> distinct[c]]
<1>1. /\ HoneyTypes /\ HoneyTypes' /\ [Next]_vars
      /\ HitsAreReal /\ PendingIsEarned /\ AlertsAreEarned /\ CameIn /\ LastIsLast
      /\ AlertsAreSpaced
  BY HoneyTypesStep DEF HoneyInv, Next, Check
<1>2. /\ pc[c] = "alert" /\ pc' = [pc EXCEPT ![c] = "closed"]
      /\ lastAlert' = [lastAlert EXCEPT ![peer[c]] = now[c]]
      /\ alerts' = alerts \cup {new}
      /\ ~CoolingDown(c)
      /\ UNCHANGED <<clock, listener, peer, port, now, distinct, hits, inOrder>>
  BY DEF Alert, Move
<1>3. /\ pc \in [Conns -> {"none", "stamp", "record", "alert", "closed"}]
      /\ lastAlert \in [Sources -> Times \cup {Never}]
      /\ alerts \in SUBSET [source : Sources, at : Times, ports : SUBSET Ports]
      /\ distinct[c] \in SUBSET Ports
      /\ peer[c] \in Sources /\ now[c] \in Nat
      /\ Times \subseteq Nat /\ Cooldown \in Nat
  BY <1>1, HoneyPotAssumption DEF HoneyTypes, TypeOK, Times
<1>4. HitsAreReal'
  BY <1>1, <1>2, TouchIsForever DEF HitsAreReal, HoneyTypes, TypeOK
<1>5. PendingIsEarned'
  <2> SUFFICES ASSUME NEW d \in Conns, pc'[d] = "alert"
               PROVE  Earned(distinct[d], peer[d], now[d])'
    BY DEF PendingIsEarned
  <2>1. /\ Earned(distinct[d], peer[d], now[d]) /\ distinct[d] \in SUBSET Ports
        /\ distinct'[d] = distinct[d] /\ peer'[d] = peer[d] /\ now'[d] = now[d]
    BY <1>1, <1>2, <1>3 DEF PendingIsEarned, HoneyTypes, TypeOK
  <2>2. PICK ports \in SUBSET Ports : ports = distinct[d]
    BY <2>1
  <2>3. PICK s, t : s = peer[d] /\ t = now[d]
    OBVIOUS
  <2>4. Earned(ports, s, t)'
    BY <1>1, <2>1, <2>2, <2>3, EarnedIsForever
  <2> QED
    BY <2>1, <2>2, <2>3, <2>4 DEF Earned
<1>6. AlertsAreEarned'
  <2> SUFFICES ASSUME NEW a \in alerts' PROVE Earned(a.ports, a.source, a.at)'
    BY DEF AlertsAreEarned
  <2>1. a.ports \in SUBSET Ports /\ Earned(a.ports, a.source, a.at)
    BY <1>1, <1>2, <1>3 DEF AlertsAreEarned, PendingIsEarned
  <2> QED
    BY <1>1, <2>1, EarnedIsForever
<1>7. CameIn'
  BY <1>1, <1>2, <1>3 DEF CameIn
<1>a. \A a \in alerts : a.at \in Nat /\ a.source \in Sources
  BY <1>3
<1>c. Times \subseteq Nat
  BY <1>3
<1>b. new.at = now[c] /\ new.source = peer[c]
  OBVIOUS
\* The alert is a cooldown later than every one before about the same source.
<1>8. ASSUME Cooldown > 0, NEW a \in alerts, a.source = peer[c]
      PROVE  now[c] >= a.at + Cooldown
  <2>1. a.at <= lastAlert[peer[c]] /\ a.at \in Nat /\ lastAlert[peer[c]] \in Times \cup {Never}
    <3>1. a.at <= lastAlert[a.source]
      BY <1>1, <1>8 DEF LastIsLast
    <3> QED
      BY <1>3, <1>8, <1>a, <3>1
  <2>2. lastAlert[peer[c]] # Never /\ lastAlert[peer[c]] \in Nat
    <3>1. CASE lastAlert[peer[c]] = Never
      BY <2>1, <3>1 DEF Never
    <3>2. CASE lastAlert[peer[c]] \in Times
      <4>1. lastAlert[peer[c]] \in Nat
        BY <1>c, <3>2
      <4> QED
        BY <4>1 DEF Never
    <3> QED
      BY <2>1, <3>1, <3>2
  <2>3. Elapsed(now[c], lastAlert[peer[c]]) >= Cooldown
    BY <1>2, <1>3, <2>2 DEF CoolingDown, Elapsed
  <2> QED
    BY <1>3, <1>8, <2>1, <2>2, <2>3 DEF Elapsed
<1>9. LastIsLast'
  <2> SUFFICES ASSUME Cooldown > 0, NEW a \in alerts' PROVE a.at <= lastAlert'[a.source]
    BY DEF LastIsLast
  <2>a. lastAlert'[peer[c]] = now[c]
    BY <1>2, <1>3
  <2>1. CASE a = new
    BY <1>3, <1>b, <2>a, <2>1
  <2>2. CASE a \in alerts /\ a.source = peer[c]
    BY <1>3, <1>8, <1>a, <2>a, <2>2
  <2>3. CASE a \in alerts /\ a.source # peer[c]
    BY <1>1, <1>2, <1>3, <2>3 DEF LastIsLast
  <2> QED
    BY <1>2, <2>1, <2>2, <2>3
<1>10. AlertsAreSpaced'
  <2> SUFFICES ASSUME NEW a \in alerts', NEW b \in alerts', a.source = b.source, a # b
               PROVE  a.at >= b.at + Cooldown \/ b.at >= a.at + Cooldown
    BY DEF AlertsAreSpaced
  <2>1. a.at \in Nat /\ b.at \in Nat
    BY <1>2, <1>3, <1>a, <1>b
  <2>2. CASE Cooldown = 0
    BY <2>1, <2>2
  <2>3. CASE Cooldown > 0
    <3>1. CASE a \in alerts /\ b \in alerts
      BY <1>1, <3>1 DEF AlertsAreSpaced
    <3>2. CASE a = new /\ b \in alerts
      BY <1>8, <1>b, <2>3, <3>2
    <3>3. CASE b = new /\ a \in alerts
      BY <1>8, <1>b, <2>3, <3>3
    <3> QED
      BY <1>2, <3>1, <3>2, <3>3
  <2> QED
    BY <1>3, <2>2, <2>3
<1> QED
  BY <1>1, <1>4, <1>5, <1>6, <1>7, <1>9, <1>10 DEF HoneyInv

\* Together: the invariant is inductive.
LEMMA HoneyStep == HoneyInv /\ [Next]_vars => HoneyInv'
<1> SUFFICES ASSUME HoneyInv, [Next]_vars PROVE HoneyInv'
  OBVIOUS
<1>0. HoneyTypes /\ CameIn
  BY DEF HoneyInv
<1> USE DEF shared
<1>1. CASE Tick
  BY <1>0, <1>1, QuietStep DEF Tick, CameIn
<1>2. ASSUME NEW p \in Ports, Bind(p) PROVE HoneyInv'
  <2>1. CameIn'
    BY <1>0, <1>2 DEF Bind, CameIn, HoneyTypes, TypeOK
  <2> QED
    BY <1>2, <2>1, QuietStep DEF Bind
<1>3. ASSUME NEW c \in Conns, Accept(c) PROVE HoneyInv'
  <2>1. CameIn'
    BY <1>0, <1>3 DEF Accept, Move, CameIn, HoneyTypes, TypeOK
  <2>2. \A d \in Conns : pc'[d] = "alert" => UNCHANGED <<pc[d], peer[d], now[d]>>
    BY <1>0, <1>3 DEF Accept, Move, HoneyTypes, TypeOK
  <2>3. UNCHANGED <<hits, distinct, lastAlert, alerts>>
    BY <1>3 DEF Accept
  <2> QED
    BY <2>1, <2>2, <2>3, QuietStep
<1>4. ASSUME NEW c \in Conns, NoPeer(c) \/ Stamp(c) \/ Suppress(c) PROVE HoneyInv'
  <2>1. CameIn'
    BY <1>0, <1>4 DEF NoPeer, Stamp, Suppress, Move, CameIn, HoneyTypes, TypeOK
  <2>2. \A d \in Conns : pc'[d] = "alert" => UNCHANGED <<pc[d], peer[d], now[d]>>
    BY <1>0, <1>4 DEF NoPeer, Stamp, Suppress, Move, HoneyTypes, TypeOK
  <2>3. UNCHANGED <<hits, distinct, lastAlert, alerts>>
    BY <1>4 DEF NoPeer, Stamp, Suppress
  <2> QED
    BY <2>1, <2>2, <2>3, QuietStep
<1>5. CASE UNCHANGED vars
  BY <1>0, <1>5, QuietStep DEF vars, CameIn
<1> QED
  BY <1>1, <1>2, <1>3, <1>4, <1>5, RecordStep, AlertStep DEF Next, Check

\* The invariant holds of every behaviour.
LEMMA HoneyInvariant == Spec => []HoneyInv
  BY HoneyInit, HoneyStep, PTL DEF Spec

-----------------------------------------------------------------------------

\* Every variable of the honeypot keeps its type.
THEOREM TypeCorrect == Spec => []TypeOK
<1>1. HoneyInv => TypeOK
  BY DEF HoneyInv, HoneyTypes
<1> QED
  BY <1>1, HoneyInvariant, PTL

\* However the checks of a source overlap between their clock and their two locks, its
\* alerts are a cooldown apart.
THEOREM AlertsStaySpaced == Spec => []AlertsAreSpaced
<1>1. HoneyInv => AlertsAreSpaced
  BY DEF HoneyInv
<1> QED
  BY <1>1, HoneyInvariant, PTL

\* Every alert is about enough ports that its source really touched, none longer than the
\* window before the alert's instant and, while checks come in order, none after it.
THEOREM AlertsStayEarned == Spec => []AlertIsEarned
<1>1. HoneyInv => AlertIsEarned
  BY DEF HoneyInv, AlertsAreEarned, Earned, TouchedBy, AlertIsEarned
<1> QED
  BY <1>1, HoneyInvariant, PTL

\* So while checks reach the lock in the order of their instants, an alert means what it
\* says: its source touched enough decoy ports within one window.  The order is needed
\* (the run honey_late).
THEOREM AlertsMeanScansInOrder == Spec => [](inOrder => AlertMeansScan)
<1>1. HoneyInv /\ inOrder => AlertMeansScan
  <2> SUFFICES ASSUME HoneyInv, inOrder, NEW a \in alerts
               PROVE  \E C \in SUBSET {c \in Conns : Recorded(c) /\ peer[c] = a.source} :
                         /\ Cardinality({port[c] : c \in C}) >= Threshold
                         /\ \A c, d \in C : now[c] <= now[d] + Window
    BY DEF AlertMeansScan
  <2>1. /\ a.at \in Nat /\ Window \in Nat /\ \A c \in Conns : now[c] \in Nat
        /\ Earned(a.ports, a.source, a.at)
    BY HoneyPotAssumption DEF HoneyInv, AlertsAreEarned, HoneyTypes, TypeOK, Times
  <2> DEFINE C == {c \in Conns : /\ TouchedBy(c, a.source, port[c]) /\ port[c] \in a.ports
                                 /\ now[c] >= a.at - Window /\ now[c] <= a.at}
  <2>2. {port[c] : c \in C} = a.ports
    BY <2>1 DEF Earned, TouchedBy
  <2>3. \A c, d \in C : now[c] <= now[d] + Window
    BY <2>1
  <2>4. C \in SUBSET {c \in Conns : Recorded(c) /\ peer[c] = a.source}
    BY DEF TouchedBy
  <2>5. Cardinality({port[c] : c \in C}) >= Threshold
    BY <2>1, <2>2 DEF Earned
  <2> HIDE DEF C
  <2> QED
    BY <2>3, <2>4, <2>5
<1> QED
  BY <1>1, HoneyInvariant, PTL

-----------------------------------------------------------------------------
(* No scanner is missed.                                                   *)

HitOf(c) == [at |-> now[c], port |-> port[c]]

\* Only a check that has recorded its hit has counted ports, and those are finitely many.
CountsLater ==
    \A c \in Conns : /\ IsFiniteSet(distinct[c])
                     /\ pc[c] \in {"none", "stamp", "record"} => distinct[c] = {}

\* A recorded hit is still in its source's deque, unless there is one in it so much later
\* that the window has closed.
HitsRemain ==
    \A c \in Conns : Recorded(c) =>
        \/ HitOf(c) \in hits[peer[c]]
        \/ \E h \in hits[peer[c]] : h.at > now[c] + Window

\* Check d has seen what the checks C had recorded, as far as the window reaches back.
SeesAll(d, C) ==
    \A c \in C : /\ now[c] <= now[d]
                 /\ now[d] <= now[c] + Window => port[c] \in distinct[d]

\* Of the recorded checks of a source, one (the last) has seen all.
LastSeesAll ==
    inOrder =>
        \A s \in Sources : \A C \in SUBSET {c \in Conns : Recorded(c) /\ peer[c] = s} :
            C # {} => \E d \in C : SeesAll(d, C)

\* What is remembered of a source is an alert that was raised.
LastIsReal ==
    \A s \in Sources : lastAlert[s] # Never =>
        \E a \in alerts : a.source = s /\ a.at = lastAlert[s]

\* A check that has counted enough ports ends with an alert less than a cooldown ago.
ClosedIsCovered ==
    \A c \in Conns : (pc[c] = "closed" /\ Cardinality(distinct[c]) >= Threshold) =>
        \E a \in alerts : a.source = peer[c] /\ now[c] < a.at + Cooldown

Thorough ==
    /\ HoneyTypes /\ CountsLater
    /\ HitsRemain /\ LastSeesAll /\ LastIsReal /\ ClosedIsCovered

\* Nobody has connected.
LEMMA ThoroughInit == Init => Thorough
<1> SUFFICES ASSUME Init PROVE Thorough
  OBVIOUS
<1>1. HoneyTypes
  BY HoneyInit DEF HoneyInv
<1> QED
  BY <1>1, FS_EmptySet DEF Init, Thorough, CountsLater, HitsRemain, LastSeesAll, LastIsReal,
     ClosedIsCovered, Recorded

\* A step that records nothing and raises no alert, and closes no check that has counted.
LEMMA QuietIsThorough ==
  ASSUME Thorough, HoneyTypes',
         UNCHANGED <<hits, distinct, lastAlert, alerts, inOrder>>,
         \A c \in Conns : /\ Recorded(c)' => Recorded(c)
                          /\ Recorded(c) => UNCHANGED <<peer[c], port[c], now[c]>>
                          /\ pc'[c] \in {"none", "stamp", "record"}
                                => pc[c] \in {"none", "stamp", "record"}
                          /\ (pc'[c] = "closed" /\ distinct[c] # {}) => pc[c] = "closed"
  PROVE  Thorough'
<1>0. HoneyTypes /\ CountsLater /\ HitsRemain /\ LastSeesAll /\ LastIsReal /\ ClosedIsCovered
  BY DEF Thorough
<1>1. CountsLater'
  BY <1>0 DEF CountsLater
<1>2. HitsRemain'
  BY <1>0 DEF HitsRemain, HitOf
<1>3. LastSeesAll'
  <2> SUFFICES ASSUME inOrder, NEW s \in Sources,
                      NEW C \in SUBSET {c \in Conns : Recorded(c)' /\ peer'[c] = s}, C # {}
               PROVE  \E d \in C : SeesAll(d, C)'
    BY DEF LastSeesAll
  <2>1. C \in SUBSET {c \in Conns : Recorded(c) /\ peer[c] = s}
    OBVIOUS
  <2>2. PICK d \in C : SeesAll(d, C)
    BY <1>0, <2>1 DEF LastSeesAll
  <2>3. SeesAll(d, C)'
    BY <2>1, <2>2 DEF SeesAll
  <2> QED
    BY <2>3
<1>4. LastIsReal'
  BY <1>0 DEF LastIsReal
<1>5. ClosedIsCovered'
  <2> SUFFICES ASSUME NEW c \in Conns, pc'[c] = "closed", Cardinality(distinct[c]) >= Threshold
               PROVE  \E a \in alerts : a.source = peer'[c] /\ now'[c] < a.at + Cooldown
    BY DEF ClosedIsCovered
  <2>1. distinct[c] # {}
    BY FS_EmptySet, HoneyPotAssumption
  <2>2. pc[c] = "closed" /\ Recorded(c)
    BY <2>1 DEF Recorded
  <2> QED
    BY <1>0, <2>2 DEF ClosedIsCovered
<1> QED
  BY <1>0, <1>1, <1>2, <1>3, <1>4, <1>5 DEF Thorough

\* A check that records its hit: what the others recorded in order is in its count.
LEMMA RecordIsThorough ==
  ASSUME Thorough, HoneyTypes', NEW c \in Conns, Record(c)
  PROVE  Thorough'
<1>0. HoneyTypes /\ CountsLater /\ HitsRemain /\ LastSeesAll /\ LastIsReal /\ ClosedIsCovered
  BY DEF Thorough
<1>1. /\ pc[c] = "record"
      /\ pc' = [pc EXCEPT ![c] = IF Cardinality(PortsOf(Kept(c))) < Threshold THEN "closed"
                                 ELSE "alert"]
      /\ hits' = [hits EXCEPT ![peer[c]] = Kept(c)]
      /\ distinct' = [distinct EXCEPT ![c] = PortsOf(Kept(c))]
      /\ inOrder' = (inOrder /\ \A h \in hits[peer[c]] : h.at <= now[c])
      /\ UNCHANGED <<clock, listener, peer, port, now, lastAlert, alerts>>
  BY DEF Record, Move, Kept
<1>2. /\ pc \in [Conns -> {"none", "stamp", "record", "alert", "closed"}]
      /\ hits \in [Sources -> SUBSET [at : Times, port : Ports]]
      /\ distinct \in [Conns -> SUBSET Ports]
      /\ \A d \in Conns : peer[d] \in Sources /\ port[d] \in Ports /\ now[d] \in Nat
      /\ \A s \in Sources : \A h \in hits[s] : h.at \in Nat
      /\ Window \in Nat
  BY <1>0, HoneyPotAssumption DEF HoneyTypes, TypeOK, Times
<1>3. /\ IsFiniteSet(PortsOf(Kept(c))) /\ Cardinality(PortsOf(Kept(c))) \in Nat
  BY <1>0, KeptIsFinite
<1>4. HitOf(c) \in Kept(c)
  BY <1>2 DEF Kept, Elapsed, HitOf
<1>5. \A d \in Conns : /\ Recorded(d)' <=> Recorded(d) \/ d = c
                       /\ ~Recorded(c)
  <2>1. PortsOf(Kept(c)) # {}
    BY <1>4 DEF PortsOf
  <2> QED
    BY <1>1, <1>2, <2>1 DEF Recorded
<1>6. CountsLater'
  BY <1>0, <1>1, <1>2, <1>3 DEF CountsLater
<1>7. HitsRemain'
  <2> SUFFICES ASSUME NEW d \in Conns, Recorded(d)'
               PROVE  \/ HitOf(d) \in hits'[peer[d]]
                      \/ \E h \in hits'[peer[d]] : h.at > now[d] + Window
    BY <1>1 DEF HitsRemain, HitOf
  <2>1. CASE d = c
    BY <1>1, <1>2, <1>4, <2>1
  <2>2. CASE d # c /\ peer[d] # peer[c]
    BY <1>0, <1>1, <1>2, <1>5, <2>2 DEF HitsRemain
  <2>3. CASE d # c /\ peer[d] = peer[c]
    <3>1. PICK h \in hits[peer[c]] : h = HitOf(d) \/ h.at > now[d] + Window
      BY <1>0, <1>5, <2>3 DEF HitsRemain
    <3>2. CASE Elapsed(now[c], h.at) <= Window
      BY <1>1, <1>2, <2>3, <3>1, <3>2 DEF Kept
    <3>3. CASE ~(Elapsed(now[c], h.at) <= Window)
      <4>1. h.at \in Nat /\ h.at >= now[d]
        BY <1>2, <3>1 DEF HitOf
      <4>2. HitOf(c).at > now[d] + Window
        BY <1>2, <3>3, <4>1 DEF HitOf, Elapsed
      <4> QED
        BY <1>1, <1>2, <1>4, <2>3, <4>2
    <3> QED
      BY <3>2, <3>3
  <2> QED
    BY <2>1, <2>2, <2>3
<1>8. LastSeesAll'
  <2> SUFFICES ASSUME inOrder', NEW s \in Sources,
                      NEW C \in SUBSET {d \in Conns : Recorded(d)' /\ peer'[d] = s}, C # {}
               PROVE  \E d \in C : SeesAll(d, C)'
    BY DEF LastSeesAll
  <2>1. CASE c \notin C
    <3>1. C \in SUBSET {d \in Conns : Recorded(d) /\ peer[d] = s}
      BY <1>1, <1>5, <2>1
    <3>2. PICK d \in C : SeesAll(d, C)
      BY <1>0, <1>1, <3>1 DEF LastSeesAll
    <3> QED
      BY <1>1, <1>2, <2>1, <3>2 DEF SeesAll
  <2>2. CASE c \in C
    <3>1. ASSUME NEW d \in C
          PROVE  /\ now[d] <= now[c]
                 /\ now[c] <= now[d] + Window => port[d] \in PortsOf(Kept(c))
      <4>1. CASE d = c
        BY <1>2, <1>4, <4>1 DEF PortsOf, HitOf
      <4>2. CASE d # c
        <5>1. d \in Conns /\ Recorded(d) /\ peer[d] = peer[c]
          BY <1>1, <1>5, <2>2, <4>2
        <5>2. PICK h \in hits[peer[c]] : h = HitOf(d) \/ h.at > now[d] + Window
          BY <1>0, <5>1 DEF HitsRemain
        <5>3. h.at <= now[c] /\ h.at \in Nat
          BY <1>1, <1>2, <5>2
        <5>4. now[d] <= now[c]
          BY <1>2, <5>1, <5>2, <5>3 DEF HitOf
        <5>5. ASSUME now[c] <= now[d] + Window PROVE port[d] \in PortsOf(Kept(c))
          <6>1. h = HitOf(d)
            BY <1>2, <5>1, <5>2, <5>3, <5>5
          <6>2. h \in Kept(c)
            BY <1>2, <5>1, <5>2, <5>5, <6>1 DEF Kept, Elapsed, HitOf
          <6> QED
            BY <6>1, <6>2 DEF PortsOf, HitOf
        <5> QED
          BY <5>4, <5>5
      <4> QED
        BY <4>1, <4>2
    <3>2. distinct'[c] = PortsOf(Kept(c))
      BY <1>1, <1>2
    <3> QED
      BY <1>1, <2>2, <3>1, <3>2 DEF SeesAll
  <2> QED
    BY <2>1, <2>2
<1>9. LastIsReal'
  BY <1>0, <1>1 DEF LastIsReal
<1>10. ClosedIsCovered'
  <2> SUFFICES ASSUME NEW d \in Conns, pc'[d] = "closed", Cardinality(distinct'[d]) >= Threshold
               PROVE  \E a \in alerts : a.source = peer[d] /\ now[d] < a.at + Cooldown
    BY <1>1 DEF ClosedIsCovered
  <2>1. d # c
    BY <1>1, <1>2, <1>3, HoneyPotAssumption
  <2> QED
    BY <1>0, <1>1, <1>2, <2>1 DEF ClosedIsCovered
<1> QED
  BY <1>6, <1>7, <1>8, <1>9, <1>10 DEF Thorough

\* A check that has counted ends: with an alert, or because there was one.
LEMMA EndIsThorough ==
  ASSUME Thorough, HoneyTypes', NEW c \in Conns, Alert(c) \/ Suppress(c)
  PROVE  Thorough'
<1>0. HoneyTypes /\ CountsLater /\ HitsRemain /\ LastSeesAll /\ LastIsReal /\ ClosedIsCovered
  BY DEF Thorough
<1>1. /\ pc[c] = "alert" /\ pc' = [pc EXCEPT ![c] = "closed"]
      /\ alerts \subseteq alerts'
      /\ UNCHANGED <<clock, listener, peer, port, now, distinct, hits, inOrder>>
  BY DEF Alert, Suppress, Move, shared
<1>2. /\ pc \in [Conns -> {"none", "stamp", "record", "alert", "closed"}]
      /\ \A d \in Conns : peer[d] \in Sources /\ now[d] \in Nat
      /\ \A s \in Sources : lastAlert[s] # Never => lastAlert[s] \in Nat
      /\ DOMAIN lastAlert = Sources
      /\ Cooldown \in Nat \ {0}
  BY <1>0, HoneyPotAssumption DEF HoneyTypes, TypeOK, Times
<1>3. \A d \in Conns : Recorded(d)' <=> Recorded(d)
  BY <1>1, <1>2 DEF Recorded
<1>4. CountsLater' /\ HitsRemain'
  BY <1>0, <1>1, <1>2, <1>3 DEF CountsLater, HitsRemain, HitOf
<1>5. LastSeesAll'
  BY <1>0, <1>1, <1>3 DEF LastSeesAll, SeesAll
\* The alert that covers this check.
<1>6. \E a \in alerts' : a.source = peer[c] /\ now[c] < a.at + Cooldown
  <2>1. CASE Alert(c)
    <3> DEFINE new == [source |-> peer[c], at |-> now[c], ports |-> distinct[c]]
    <3>1. new \in alerts'
      BY <2>1 DEF Alert
    <3>2. new.source = peer[c] /\ new.at = now[c]
      OBVIOUS
    <3> QED
      BY <1>2, <3>1, <3>2
  <2>2. CASE Suppress(c)
    <3>1. lastAlert[peer[c]] # Never /\ Elapsed(now[c], lastAlert[peer[c]]) < Cooldown
      BY <2>2 DEF Suppress, CoolingDown
    <3>2. PICK a \in alerts : a.source = peer[c] /\ a.at = lastAlert[peer[c]]
      BY <1>0, <1>2, <3>1 DEF LastIsReal
    <3>3. now[c] < a.at + Cooldown
      BY <1>2, <3>1, <3>2 DEF Elapsed
    <3> QED
      BY <1>1, <3>2, <3>3
  <2> QED
    BY <2>1, <2>2
<1>7. LastIsReal'
  <2>1. CASE Alert(c)
    <3> DEFINE new == [source |-> peer[c], at |-> now[c], ports |-> distinct[c]]
    <3>1. new \in alerts' /\ lastAlert' = [lastAlert EXCEPT ![peer[c]] = now[c]]
      BY <2>1 DEF Alert
    <3>2. new.source = peer[c] /\ new.at = now[c]
      OBVIOUS
    <3> HIDE DEF new
    <3> QED
      BY <1>0, <1>1, <1>2, <3>1, <3>2 DEF LastIsReal
  <2>2. CASE Suppress(c)
    BY <1>0, <2>2 DEF Suppress, shared, LastIsReal
  <2> QED
    BY <2>1, <2>2
<1>8. ClosedIsCovered'
  BY <1>0, <1>1, <1>2, <1>6 DEF ClosedIsCovered
<1> QED
  BY <1>4, <1>5, <1>7, <1>8 DEF Thorough

\* Together.
LEMMA ThoroughStep == Thorough /\ [Next]_vars => Thorough'
<1> SUFFICES ASSUME Thorough, [Next]_vars PROVE Thorough'
  OBVIOUS
<1>0. HoneyTypes /\ HoneyTypes' /\ CountsLater
  BY HoneyTypesStep DEF Thorough
<1> USE DEF shared
<1>1. CASE Tick
  BY <1>0, <1>1, QuietIsThorough DEF Tick, Recorded
<1>2. ASSUME NEW p \in Ports, Bind(p) PROVE Thorough'
  BY <1>0, <1>2, QuietIsThorough DEF Bind, Recorded
<1>3. ASSUME NEW c \in Conns, Accept(c) \/ NoPeer(c) \/ Stamp(c) PROVE Thorough'
  <2>1. UNCHANGED <<hits, distinct, lastAlert, alerts, inOrder>>
    BY <1>3 DEF Accept, NoPeer, Stamp
  <2>2. pc[c] \in {"none", "stamp"} /\ distinct[c] = {}
    BY <1>0, <1>3 DEF Accept, NoPeer, Stamp, Move, CountsLater
  <2>3. \A d \in Conns \ {c} : UNCHANGED <<pc[d], peer[d], port[d], now[d]>>
    BY <1>0, <1>3 DEF Accept, NoPeer, Stamp, Move, HoneyTypes, TypeOK
  <2> QED
    BY <1>0, <2>1, <2>2, <2>3, QuietIsThorough DEF Recorded
<1>4. CASE UNCHANGED vars
  BY <1>0, <1>4, QuietIsThorough DEF vars, Recorded
<1> QED
  BY <1>0, <1>1, <1>2, <1>3, <1>4, RecordIsThorough, EndIsThorough DEF Next, Check

\* No scanner is missed, as long as the checks reach the lock in the order of their
\* instants: the last check of those that make up a scan has seen the others' hits,
\* whatever was pruned in between, and so it raises an alert or follows one.
THEOREM ScannersAreCaught == Spec => []NoScannerMissed
<1>1. Thorough => NoScannerMissed
  <2> SUFFICES ASSUME Thorough, inOrder,
                      NEW C \in SUBSET {c \in Conns : Recorded(c) /\ pc[c] # "alert"},
                      NEW s \in Sources,
                      \A c \in C : peer[c] = s,
                      Cardinality({port[c] : c \in C}) >= Threshold,
                      \A c, d \in C : now[c] <= now[d] + Window
               PROVE  \E a \in alerts : a.source = s /\ \A c \in C : now[c] < a.at + Cooldown
    BY DEF NoScannerMissed
  <2>1. C # {}
    <3>1. CASE C = {}
      <4>1. {port[c] : c \in C} = {}
        BY <3>1
      <4> QED
        BY <4>1, FS_EmptySet, HoneyPotAssumption
    <3> QED
      BY <3>1
  <2>2. PICK d \in C : SeesAll(d, C)
    BY <2>1 DEF Thorough, LastSeesAll
  <2>3. {port[c] : c \in C} \in SUBSET distinct[d]
    BY <2>2 DEF SeesAll
  <2>4. Cardinality(distinct[d]) >= Threshold
    <3>1. IsFiniteSet(distinct[d])
      BY DEF Thorough, CountsLater
    <3>2. /\ Cardinality({port[c] : c \in C}) <= Cardinality(distinct[d])
          /\ Cardinality(distinct[d]) \in Nat /\ Cardinality({port[c] : c \in C}) \in Nat
      BY <2>3, <3>1, FS_Subset, FS_CardinalityType
    <3> QED
      BY <3>2, HoneyPotAssumption
  <2>5. pc[d] = "closed"
    BY DEF Recorded
  <2>6. PICK a \in alerts : a.source = s /\ now[d] < a.at + Cooldown
    BY <2>4, <2>5 DEF Thorough, ClosedIsCovered
  <2>7. a.at \in Nat /\ Cooldown \in Nat /\ \A c \in Conns : now[c] \in Nat
    BY HoneyPotAssumption DEF Thorough, HoneyTypes, TypeOK, Times
  <2> QED
    BY <2>2, <2>6, <2>7 DEF SeesAll
<1> QED
  BY <1>1, ThoroughInit, ThoroughStep, PTL DEF Spec
=============================================================================
