-------------------------- MODULE BruteForceProofs --------------------------
(***************************************************************************)
(* Proofs about BruteForce, for every set of sources, window, thresholds,  *)
(* cooldown, and for logs of any length with times in any order: the type  *)
(* invariant; that alerts are earned and a cooldown apart; and, as long as *)
(* the times do not go back, that no burst is missed and that a success    *)
(* leaves what counts of the failures alone.                               *)
(***************************************************************************)
EXTENDS BruteForce, FiniteSetTheorems, WellFoundedInduction, TLAPS

-----------------------------------------------------------------------------
(* What Prune keeps.  Its facts are about sequences of every length, so    *)
(* they are proved by looking at a shortest counterexample.                *)

\* A set of numbers that is not empty has a least one.
LEMMA LeastNat ==
  ASSUME NEW S \in SUBSET Nat, S # {}
  PROVE  \E m \in S : \A k \in S : m <= k
<1>1. PICK m \in S : \A k \in S : ~(<<k, m>> \in OpToRel(<, Nat))
  BY WFMin, NatLessThanWellFounded
<1>2. ASSUME NEW k \in S, k < m PROVE FALSE
  <2>1. <<k, m>> \in OpToRel(<, Nat)
    BY <1>2, Zenon DEF OpToRel
  <2> QED
    BY <1>1, <2>1
<1> QED
  BY <1>2

\* One step of retain: what is kept of the first i elements, from what is kept of the
\* first i - 1.
KeepOne(q, at, i, kept) == IF InWindow(q[i], at) THEN Append(kept, q[i]) ELSE kept

\* F does the first n steps.
Keeps(q, at, n, F) ==
    F = [i \in 0..n |-> IF i = 0 THEN <<>> ELSE KeepOne(q, at, i, F[i - 1])]

LEMMA KeepsExists ==
  ASSUME NEW q, NEW at, NEW n \in Nat
  PROVE  \E F : Keeps(q, at, n, F)
<1> DEFINE S == {k \in Nat : ~ \E F : Keeps(q, at, k, F)}
<1>1. ASSUME S # {} PROVE FALSE
  <2>1. PICK m \in S : \A k \in S : m <= k
    <3> HIDE DEF S
    <3>1. S \in SUBSET Nat
      BY DEF S
    <3> QED
      BY <1>1, <3>1, LeastNat
  <2>2. m # 0
    <3>1. PICK F : F = [i \in 0..0 |-> <<>>]
      OBVIOUS
    <3>2. Keeps(q, at, 0, F)
      BY <3>1 DEF Keeps
    <3> QED
      BY <3>2
  <2>3. m \in Nat /\ m - 1 \in Nat /\ m - 1 \notin S
    BY <2>1, <2>2
  <2>4. PICK F : Keeps(q, at, m - 1, F)
    BY <2>3
  <2>5. PICK G : G = [i \in 0..m |-> IF i = m THEN KeepOne(q, at, m, F[m - 1]) ELSE F[i]]
    OBVIOUS
  <2>6. ASSUME NEW i \in 0..m
        PROVE  G[i] = IF i = 0 THEN <<>> ELSE KeepOne(q, at, i, G[i - 1])
    <3>1. CASE i = m
      BY <2>2, <2>3, <2>5, <3>1
    <3>2. CASE i # m
      <4>1. i \in 0..(m - 1) /\ G[i] = F[i] /\ (i # 0 => i - 1 \in 0..m /\ i - 1 # m)
        BY <2>3, <2>5, <3>2
      <4>2. F[i] = IF i = 0 THEN <<>> ELSE KeepOne(q, at, i, F[i - 1])
        BY <2>4, <4>1 DEF Keeps
      <4>3. i # 0 => G[i - 1] = F[i - 1]
        BY <2>5, <4>1
      <4> QED
        BY <4>1, <4>2, <4>3
    <3> QED
      BY <3>1, <3>2
  <2>7. Keeps(q, at, m, G)
    BY <2>5, <2>6 DEF Keeps
  <2> QED
    BY <2>1, <2>7
<1> QED
  BY <1>1

LEMMA PruneIsKeeps ==
  ASSUME NEW q, NEW at, Len(q) \in Nat
  PROVE  \E F : Keeps(q, at, Len(q), F) /\ Prune(q, at) = F[Len(q)]
<1>1. \E F : F = [i \in 0..Len(q) |->
                    IF i = 0 THEN <<>>
                    ELSE IF InWindow(q[i], at) THEN Append(F[i - 1], q[i])
                    ELSE F[i - 1]]
  <2>1. PICK F : Keeps(q, at, Len(q), F)
    BY KeepsExists
  <2> QED
    BY <2>1 DEF Keeps, KeepOne
<1>2. \E F : /\ F = [i \in 0..Len(q) |->
                       IF i = 0 THEN <<>>
                       ELSE IF InWindow(q[i], at) THEN Append(F[i - 1], q[i])
                       ELSE F[i - 1]]
             /\ Prune(q, at) = F[Len(q)]
  BY <1>1 DEF Prune
<1> QED
  BY <1>2 DEF Keeps, KeepOne

\* The steps on the elements two sequences have in common are the same.
LEMMA KeepsAgree ==
  ASSUME NEW q, NEW r, NEW at, NEW n \in Nat, NEW m \in Nat, n <= m,
         \A i \in 1..n : q[i] = r[i],
         NEW F, Keeps(q, at, n, F), NEW G, Keeps(r, at, m, G)
  PROVE  F[n] = G[n]
<1> DEFINE S == {k \in 0..n : F[k] # G[k]}
<1>1. ASSUME S # {} PROVE FALSE
  <2>1. PICK k \in S : \A j \in S : k <= j
    <3> HIDE DEF S
    <3>1. S \in SUBSET Nat
      BY DEF S
    <3> QED
      BY <1>1, <3>1, LeastNat
  <2>2. k \in 0..n /\ k \in 0..m
    BY <2>1
  <2>3. /\ F[k] = IF k = 0 THEN <<>> ELSE KeepOne(q, at, k, F[k - 1])
        /\ G[k] = IF k = 0 THEN <<>> ELSE KeepOne(r, at, k, G[k - 1])
    BY <2>2 DEF Keeps
  <2>4. CASE k = 0
    BY <2>1, <2>3, <2>4
  <2>5. CASE k # 0
    <3>1. k - 1 \in 0..n /\ k \in 1..n /\ k - 1 \notin S
      BY <2>1, <2>2, <2>5
    <3>2. F[k - 1] = G[k - 1] /\ q[k] = r[k]
      BY <3>1
    <3> QED
      BY <2>1, <2>3, <2>5, <3>2 DEF KeepOne
  <2> QED
    BY <2>4, <2>5
<1>2. n \in 0..n
  OBVIOUS
<1> QED
  BY <1>1, <1>2

\* What is kept of a sequence with one more element.
LEMMA PruneEmpty == \A at : Prune(<<>>, at) = <<>>
<1> SUFFICES ASSUME NEW at PROVE Prune(<<>>, at) = <<>>
  OBVIOUS
<1>1. Len(<<>>) = 0
  OBVIOUS
<1>2. PICK F : Keeps(<<>>, at, 0, F) /\ Prune(<<>>, at) = F[0]
  BY <1>1, PruneIsKeeps
<1> QED
  BY <1>2 DEF Keeps

LEMMA PruneAppend ==
  ASSUME NEW T, NEW q \in Seq(T), NEW x \in T, NEW at
  PROVE  Prune(Append(q, x), at) =
            IF InWindow(x, at) THEN Append(Prune(q, at), x) ELSE Prune(q, at)
<1>1. PICK r : r = Append(q, x)
  OBVIOUS
<1>2. /\ Len(q) \in Nat /\ Len(r) = Len(q) + 1 /\ r[Len(q) + 1] = x
      /\ \A i \in 1..Len(q) : q[i] = r[i]
  BY <1>1
<1>3. PICK F : Keeps(q, at, Len(q), F) /\ Prune(q, at) = F[Len(q)]
  BY <1>2, PruneIsKeeps
<1>4. PICK G : Keeps(r, at, Len(q) + 1, G) /\ Prune(r, at) = G[Len(q) + 1]
  BY <1>2, PruneIsKeeps
<1>5. F[Len(q)] = G[Len(q)]
  BY <1>2, <1>3, <1>4, KeepsAgree
<1>6. G[Len(q) + 1] = KeepOne(r, at, Len(q) + 1, G[Len(q)])
  BY <1>2, <1>4 DEF Keeps
<1> QED
  BY <1>1, <1>2, <1>3, <1>4, <1>5, <1>6 DEF KeepOne

\* A sequence that is not empty is a shorter one with an element appended.
LEMMA LastAppended ==
  ASSUME NEW T, NEW q \in Seq(T), Len(q) # 0
  PROVE  \E r \in Seq(T), x \in T : q = Append(r, x) /\ Len(r) = Len(q) - 1
<1>1. Len(q) \in Nat /\ Len(q) - 1 \in Nat
  OBVIOUS
<1>a. PICK n \in Nat : n = Len(q) - 1
  BY <1>1
<1>2. n = Len(q) - 1 /\ n <= Len(q) /\ Len(q) = n + 1
  BY <1>1, <1>a
<1>3. PICK r \in Seq(T) : Len(r) = Len(q) - 1 /\ \A i \in 1..(Len(q) - 1) : r[i] = q[i]
  <2>1. PICK r : r = SubSeq(q, 1, n)
    OBVIOUS
  <2>2. \A i \in 1..n : q[i] \in T
    BY <1>2
  <2>3. r \in Seq(T) /\ Len(r) = n
    BY <1>2, <2>1, <2>2
  <2>4. \A i \in 1..n : r[i] = q[i]
    BY <1>2, <2>1
  <2> QED
    BY <1>2, <2>3, <2>4
<1>4. q[Len(q)] \in T
  BY <1>1
<1>5. q = Append(r, q[Len(q)])
  <2>1. PICK x \in T : x = q[Len(q)]
    BY <1>4
  <2>2. PICK a : a = Append(r, x)
    OBVIOUS
  <2>3. /\ a \in Seq(T) /\ Len(a) = Len(q) /\ a[Len(q)] = x
        /\ \A i \in 1..(Len(q) - 1) : a[i] = q[i]
    BY <1>1, <1>3, <2>2
  <2>4. \A i \in 1..Len(q) : a[i] = q[i]
    BY <1>1, <2>1, <2>3
  <2>5. a = q
    BY <1>1, <2>3, <2>4
  <2> QED
    BY <2>1, <2>2, <2>5
<1> QED
  BY <1>3, <1>4, <1>5

\* p tells where each element of k, what is kept of q, comes from: every element within
\* the window comes along, once.
Selects(p, k, q, at) ==
    /\ p \in [1..Len(k) -> 1..Len(q)]
    /\ \A i, j \in 1..Len(k) : p[i] = p[j] => i = j
    /\ \A i \in 1..Len(k) : k[i] = q[p[i]] /\ InWindow(q[p[i]], at)
    /\ \A j \in 1..Len(q) : InWindow(q[j], at) => \E i \in 1..Len(k) : p[i] = j

PruneSelects(T, q, at) ==
    Prune(q, at) \in Seq(T) /\ \E p : Selects(p, Prune(q, at), q, at)

\* One element more keeps it so.
LEMMA SelectsMore ==
  ASSUME NEW T, NEW r \in Seq(T), NEW x \in T, NEW at, PruneSelects(T, r, at)
  PROVE  PruneSelects(T, Append(r, x), at)
<1>1. PICK k, p : k \in Seq(T) /\ k = Prune(r, at) /\ Selects(p, k, r, at)
  BY DEF PruneSelects
<1>2. PICK q : q = Append(r, x)
  OBVIOUS
<1>3. /\ q \in Seq(T) /\ Len(r) \in Nat /\ Len(k) \in Nat /\ Len(q) = Len(r) + 1 /\ q[Len(r) + 1] = x
      /\ \A i \in 1..Len(r) : q[i] = r[i]
      /\ 1..Len(q) = (1..Len(r)) \cup {Len(r) + 1}
  BY <1>2
<1>4. Prune(q, at) = IF InWindow(x, at) THEN Append(k, x) ELSE k
  BY <1>1, <1>2, PruneAppend
<1>5. CASE InWindow(x, at)
  <2>1. PICK l : l = Append(k, x)
    OBVIOUS
  <2>2. /\ l \in Seq(T) /\ Len(l) = Len(k) + 1 /\ l[Len(k) + 1] = x /\ \A i \in 1..Len(k) : l[i] = k[i]
        /\ 1..Len(l) = (1..Len(k)) \cup {Len(k) + 1} /\ Len(k) + 1 \notin 1..Len(k)
    BY <1>1, <1>3, <2>1
  <2>3. PICK g : g = [i \in 1..Len(l) |-> IF i = Len(k) + 1 THEN Len(r) + 1 ELSE p[i]]
    OBVIOUS
  <2>4. /\ g[Len(k) + 1] = Len(r) + 1
        /\ \A i \in 1..Len(k) : g[i] = p[i] /\ p[i] \in 1..Len(r) /\ p[i] # Len(r) + 1
    <3>1. \A i \in 1..Len(k) : p[i] \in 1..Len(r)
      BY <1>1 DEF Selects
    <3> QED
      BY <1>3, <2>2, <2>3, <3>1
  <2>5. g \in [1..Len(l) -> 1..Len(q)]
    BY <1>3, <2>2, <2>3, <2>4
  <2>6. \A i, j \in 1..Len(l) : g[i] = g[j] => i = j
    BY <1>1, <2>2, <2>4 DEF Selects
  <2>7. \A i \in 1..Len(l) : l[i] = q[g[i]] /\ InWindow(q[g[i]], at)
    <3>1. \A i \in 1..Len(k) : k[i] = r[p[i]] /\ InWindow(r[p[i]], at)
      BY <1>1 DEF Selects
    <3>2. ASSUME NEW i \in 1..Len(k) PROVE l[i] = q[g[i]] /\ InWindow(q[g[i]], at)
      <4>1. q[g[i]] = r[p[i]] /\ l[i] = k[i]
        BY <1>3, <2>2, <2>4
      <4> QED
        BY <3>1, <4>1
    <3>3. l[Len(k) + 1] = q[g[Len(k) + 1]] /\ InWindow(q[g[Len(k) + 1]], at)
      BY <1>3, <1>5, <2>2, <2>4
    <3> QED
      BY <2>2, <3>2, <3>3
  <2>8. ASSUME NEW j \in 1..Len(q), InWindow(q[j], at) PROVE \E i \in 1..Len(l) : g[i] = j
    <3>1. CASE j = Len(r) + 1
      BY <2>2, <2>4, <3>1
    <3>2. CASE j \in 1..Len(r)
      <4>1. InWindow(r[j], at)
        BY <1>3, <2>8, <3>2
      <4>2. PICK i \in 1..Len(k) : p[i] = j
        BY <1>1, <3>2, <4>1 DEF Selects
      <4> QED
        BY <2>2, <2>4, <4>2
    <3> QED
      BY <1>3, <3>1, <3>2
  <2>9. Selects(g, l, q, at)
    BY <2>5, <2>6, <2>7, <2>8 DEF Selects
  <2> QED
    BY <1>2, <1>4, <1>5, <2>1, <2>2, <2>9 DEF PruneSelects
<1>6. CASE ~InWindow(x, at)
  <2>1. p \in [1..Len(k) -> 1..Len(q)] /\ \A i \in 1..Len(k) : p[i] \in 1..Len(r)
    BY <1>1, <1>3 DEF Selects
  <2>2. \A i \in 1..Len(k) : k[i] = q[p[i]] /\ InWindow(q[p[i]], at)
    <3>1. \A i \in 1..Len(k) : k[i] = r[p[i]] /\ InWindow(r[p[i]], at)
      BY <1>1 DEF Selects
    <3> QED
      BY <1>3, <2>1, <3>1
  <2>3. ASSUME NEW j \in 1..Len(q), InWindow(q[j], at) PROVE \E i \in 1..Len(k) : p[i] = j
    <3>1. j \in 1..Len(r) /\ q[j] = r[j]
      BY <1>3, <1>6, <2>3
    <3> QED
      BY <1>1, <2>3, <3>1 DEF Selects
  <2>4. Selects(p, k, q, at)
    BY <1>1, <2>1, <2>2, <2>3 DEF Selects
  <2> QED
    BY <1>1, <1>2, <1>4, <1>6, <2>4 DEF PruneSelects
<1> QED
  BY <1>5, <1>6

\* Prune keeps, of a sequence of any length, what is within the window and nothing else.
LEMMA PruneFacts ==
  ASSUME NEW T, NEW q \in Seq(T), NEW at
  PROVE  PruneSelects(T, q, at)
<1> DEFINE S == {n \in Nat : \E r \in Seq(T) : Len(r) = n /\ ~PruneSelects(T, r, at)}
<1>1. ASSUME S # {} PROVE FALSE
  <2>1. PICK n \in S : \A k \in S : n <= k
    <3> HIDE DEF S
    <3>1. S \in SUBSET Nat
      BY DEF S
    <3> QED
      BY <1>1, <3>1, LeastNat
  <2>2. PICK r \in Seq(T) : Len(r) = n /\ ~PruneSelects(T, r, at)
    BY <2>1
  <2>3. CASE n = 0
    <3>1. r = <<>> /\ Prune(r, at) = <<>> /\ Len(<<>>) = 0
      BY <2>2, <2>3, PruneEmpty
    <3>2. PICK p : p = [i \in 1..0 |-> 0]
      OBVIOUS
    <3>3. Selects(p, <<>>, <<>>, at)
      BY <3>1, <3>2 DEF Selects
    <3> QED
      BY <2>2, <3>1, <3>3 DEF PruneSelects
  <2>4. CASE n # 0
    <3>1. PICK h \in Seq(T), x \in T : r = Append(h, x) /\ Len(h) = Len(r) - 1
      BY <2>2, <2>4, LastAppended
    <3>2. Len(h) \in Nat /\ Len(h) < n /\ n \in Nat
      BY <2>1, <2>2, <3>1
    <3>3. Len(h) \notin S
      BY <2>1, <3>2
    <3>4. PruneSelects(T, h, at)
      BY <3>2, <3>3
    <3> QED
      BY <2>2, <3>1, <3>4, SelectsMore
  <2> QED
    BY <2>3, <2>4
<1>2. Len(q) \in Nat
  OBVIOUS
<1> QED
  BY <1>1, <1>2

\* Pruning at an earlier time first changes nothing, if nothing is later than that.
LEMMA PruneTwice ==
  ASSUME NEW q \in Seq(Times), NEW e \in Times, NEW at \in Times, e <= at,
         \A i \in 1..Len(q) : q[i] <= e
  PROVE  Prune(Prune(q, e), at) = Prune(q, at)
<1> DEFINE S == {n \in Nat : \E r \in Seq(Times) : /\ Len(r) = n
                                                   /\ \A i \in 1..Len(r) : r[i] <= e
                                                   /\ Prune(Prune(r, e), at) # Prune(r, at)}
<1>1. ASSUME S # {} PROVE FALSE
  <2>1. PICK n \in S : \A k \in S : n <= k
    <3> HIDE DEF S
    <3>1. S \in SUBSET Nat
      BY DEF S
    <3> QED
      BY <1>1, <3>1, LeastNat
  <2>2. PICK r \in Seq(Times) : /\ Len(r) = n
                                /\ \A i \in 1..Len(r) : r[i] <= e
                                /\ Prune(Prune(r, e), at) # Prune(r, at)
    BY <2>1
  <2>3. CASE n = 0
    <3>1. r = <<>>
      BY <2>2, <2>3
    <3> QED
      BY <2>2, <3>1, PruneEmpty
  <2>4. CASE n # 0
    <3>1. PICK h \in Seq(Times), x \in Times : r = Append(h, x) /\ Len(h) = Len(r) - 1
      BY <2>2, <2>4, LastAppended
    <3>2. /\ Len(h) \in Nat /\ Len(h) < n /\ n \in Nat /\ r[Len(h) + 1] = x
          /\ \A i \in 1..Len(h) : h[i] = r[i]
      BY <2>1, <2>2, <3>1
    <3>3. x <= e /\ \A i \in 1..Len(h) : h[i] <= e
      BY <2>2, <3>2
    <3>4. Len(h) \notin S
      BY <2>1, <3>2
    <3>5. Prune(Prune(h, e), at) = Prune(h, at)
      BY <3>2, <3>3, <3>4
    <3>6. Prune(h, e) \in Seq(Times)
      BY PruneFacts DEF PruneSelects
    <3>7. InWindow(x, at) => InWindow(x, e)
      BY <3>3, BruteForceAssumption DEF InWindow, Times
    <3>8. Prune(r, at) = IF InWindow(x, at) THEN Append(Prune(h, at), x) ELSE Prune(h, at)
      BY <3>1, PruneAppend
    <3>9. Prune(r, e) = IF InWindow(x, e) THEN Append(Prune(h, e), x) ELSE Prune(h, e)
      BY <3>1, PruneAppend
    <3>10. Prune(Append(Prune(h, e), x), at) =
             IF InWindow(x, at) THEN Append(Prune(Prune(h, e), at), x) ELSE Prune(Prune(h, e), at)
      BY <3>1, <3>6, PruneAppend
    <3> QED
      BY <2>2, <3>5, <3>7, <3>8, <3>9, <3>10
  <2> QED
    BY <2>3, <2>4
<1>2. Len(q) \in Nat
  OBVIOUS
<1> QED
  BY <1>1, <1>2

-----------------------------------------------------------------------------
(* One login after the other.                                              *)

Entries == [kind : {"failed", "accepted"}, source : Sources, at : Times, alert : BOOLEAN]

\* The cooldown that entry e is subject to.
LastOf(e) == IF e.kind = "failed" THEN lastFailureAlert[e.source]
             ELSE lastSuccessAlert[e.source]

\* Entries of the same kind and source share their cooldown.
SameKindAs(e, f) == e.kind = f.kind /\ e.source = f.source

\* The deque an entry is judged by, and how long it has to be.
DequeAfter(e) == IF e.kind = "failed" THEN Pushed(e.source, e.at)
                 ELSE Prune(failures[e.source], e.at)
LimitOf(e) == IF e.kind = "failed" THEN FailureThreshold ELSE SuccessMin

\* One login: its entry raises an alert when its deque is long enough and its cooldown is
\* over, and is then remembered as the last of its kind and source; nothing else is
\* forgotten, and no other source's deque is touched.
OneEntry(e) ==
    /\ log' = Append(log, e)
    /\ failures' = [failures EXCEPT ![e.source] = DequeAfter(e)]
    /\ lastFailureAlert' \in [Sources -> Times \cup {Never}]
    /\ lastSuccessAlert' \in [Sources -> Times \cup {Never}]
    /\ e.alert <=> Len(DequeAfter(e)) >= LimitOf(e) /\ CooldownOk(LastOf(e), e.at)
    /\ \A f \in Entries :
          LastOf(f)' = IF SameKindAs(e, f) /\ e.alert THEN e.at ELSE LastOf(f)

\* check_failure and check_success are both of that kind.
LEMMA NextIsEntry ==
  ASSUME TypeOK, Next
  PROVE  \E e \in Entries : OneEntry(e)
<1> USE DEF TypeOK
<1>1. ASSUME NEW s \in Sources, NEW at \in Times, Failed(s, at)
      PROVE  \E e \in Entries : OneEntry(e)
  <2> DEFINE alert == Len(Pushed(s, at)) >= FailureThreshold
                        /\ CooldownOk(lastFailureAlert[s], at)
             e == [kind |-> "failed", source |-> s, at |-> at, alert |-> alert]
  <2>1. /\ log' = Append(log, e)
        /\ failures' = [failures EXCEPT ![s] = Pushed(s, at)]
        /\ lastFailureAlert' = [lastFailureAlert EXCEPT ![s] = IF alert THEN at ELSE @]
        /\ lastSuccessAlert' = lastSuccessAlert
    BY <1>1 DEF Failed
  <2>2. e \in Entries /\ e.kind = "failed" /\ e.source = s /\ e.at = at
        /\ (e.alert <=> alert) /\ alert \in BOOLEAN
    BY DEF Entries
  <2>3. e.alert <=> Len(DequeAfter(e)) >= LimitOf(e) /\ CooldownOk(LastOf(e), e.at)
    BY <2>2 DEF LastOf, DequeAfter, LimitOf
  <2>4. failures' = [failures EXCEPT ![e.source] = DequeAfter(e)]
    BY <2>1, <2>2 DEF DequeAfter
  <2> HIDE DEF alert, e
  <2>5. \A f \in Entries :
            LastOf(f)' = IF SameKindAs(e, f) /\ e.alert THEN e.at ELSE LastOf(f)
    BY <2>1, <2>2 DEF LastOf, SameKindAs, Entries
  <2>6. OneEntry(e)
    BY <2>1, <2>2, <2>3, <2>4, <2>5 DEF OneEntry
  <2> QED
    BY <2>2, <2>6
<1>2. ASSUME NEW s \in Sources, NEW at \in Times, Accepted(s, at)
      PROVE  \E e \in Entries : OneEntry(e)
  <2> DEFINE alert == Len(Prune(failures[s], at)) >= SuccessMin
                        /\ CooldownOk(lastSuccessAlert[s], at)
             e == [kind |-> "accepted", source |-> s, at |-> at, alert |-> alert]
  <2>1. /\ log' = Append(log, e)
        /\ failures' = [failures EXCEPT ![s] = Prune(failures[s], at)]
        /\ lastSuccessAlert' = [lastSuccessAlert EXCEPT ![s] = IF alert THEN at ELSE @]
        /\ lastFailureAlert' = lastFailureAlert
    BY <1>2 DEF Accepted
  <2>2. e \in Entries /\ e.kind = "accepted" /\ e.source = s /\ e.at = at
        /\ (e.alert <=> alert) /\ alert \in BOOLEAN
    BY DEF Entries
  <2>3. e.alert <=> Len(DequeAfter(e)) >= LimitOf(e) /\ CooldownOk(LastOf(e), e.at)
    BY <2>2 DEF LastOf, DequeAfter, LimitOf
  <2>4. failures' = [failures EXCEPT ![e.source] = DequeAfter(e)]
    BY <2>1, <2>2 DEF DequeAfter
  <2> HIDE DEF alert, e
  <2>5. \A f \in Entries :
            LastOf(f)' = IF SameKindAs(e, f) /\ e.alert THEN e.at ELSE LastOf(f)
    BY <2>1, <2>2 DEF LastOf, SameKindAs, Entries
  <2>6. OneEntry(e)
    BY <2>1, <2>2, <2>3, <2>4, <2>5 DEF OneEntry
  <2> QED
    BY <2>2, <2>6
<1> QED
  BY <1>1, <1>2 DEF Next

\* A deque after an entry is a deque.
LEMMA DequeType ==
  ASSUME TypeOK, NEW e \in Entries
  PROVE  DequeAfter(e) \in Seq(Times)
<1>1. e.source \in Sources /\ e.at \in Times /\ failures[e.source] \in Seq(Times)
  BY DEF TypeOK, Entries
<1>2. Append(failures[e.source], e.at) \in Seq(Times)
  BY <1>1
<1>3. Prune(Append(failures[e.source], e.at), e.at) \in Seq(Times)
  BY <1>2, PruneFacts DEF PruneSelects
<1>4. Prune(failures[e.source], e.at) \in Seq(Times)
  BY <1>1, PruneFacts DEF PruneSelects
<1> QED
  BY <1>3, <1>4 DEF DequeAfter, Pushed

LEMMA TypeInit == Init => TypeOK
  BY DEF Init, TypeOK

LEMMA TypeStep ==
  ASSUME TypeOK, NEW e \in Entries, OneEntry(e)
  PROVE  TypeOK'
<1>1. failures' \in [Sources -> Seq(Times)]
  BY DequeType DEF OneEntry, TypeOK
<1>2. log' \in Seq(Entries)
  BY DEF OneEntry, TypeOK, Entries
<1> QED
  BY <1>1, <1>2 DEF OneEntry, TypeOK, Entries

-----------------------------------------------------------------------------
(* Alerts are spaced.                                                      *)

\* AlertsAreSpaced needs to know that the tracker remembers no alert older than one it
\* has raised, whatever the order of the times.
SpacingInv ==
    /\ lastFailureAlert \in [Sources -> Times \cup {Never}]
    /\ lastSuccessAlert \in [Sources -> Times \cup {Never}]
    /\ log \in Seq(Entries)
    /\ \A k \in DOMAIN log : log[k].alert => log[k].at <= LastOf(log[k])
    /\ AlertsAreSpaced

\* Nothing has been seen.
LEMMA SpacingInit == Init => SpacingInv
  BY DEF Init, SpacingInv, AlertsAreSpaced

\* Such a login keeps the invariant.
LEMMA EntryStep ==
  ASSUME SpacingInv, NEW e \in Entries, OneEntry(e)
  PROVE  SpacingInv'
<1> DEFINE m == Len(log) + 1
<1>1. /\ log \in Seq(Entries) /\ Len(log) \in Nat /\ DOMAIN log = 1..Len(log)
      /\ \A k \in DOMAIN log : log[k] \in Entries
  BY DEF SpacingInv
<1>2. /\ log' \in Seq(Entries) /\ DOMAIN log' = 1..m
      /\ log'[m] = e /\ \A k \in 1..Len(log) : log'[k] = log[k]
  BY <1>1 DEF OneEntry
<1>3. /\ \A f \in Entries : f.at \in Int
      /\ \A f \in Entries : LastOf(f) \in Int
      /\ Cooldown \in Nat
      /\ \A f \in Entries : f.at # Never /\ f.at >= 0
  BY BruteForceAssumption DEF SpacingInv, Entries, Times, Never, LastOf
<1>4. \A k \in 1..Len(log) : log[k].alert => log[k].at <= LastOf(log[k])
  BY <1>1 DEF SpacingInv
<1>5. \A f \in Entries : LastOf(f)' = IF SameKindAs(e, f) /\ e.alert THEN e.at ELSE LastOf(f)
  BY DEF OneEntry
<1>6. \A f \in Entries : SameKindAs(e, f) => LastOf(f) = LastOf(e)
  BY DEF SameKindAs, LastOf
<1>7. ASSUME e.alert, LastOf(e) # Never
      PROVE  e.at >= LastOf(e) + Cooldown
  BY <1>3, <1>7 DEF OneEntry, CooldownOk
<1>8. ASSUME NEW k \in 1..Len(log), log[k].alert, SameKindAs(e, log[k]), e.alert
      PROVE  e.at >= log[k].at + Cooldown
  <2>1. log[k] \in Entries /\ log[k].at <= LastOf(log[k]) /\ LastOf(log[k]) = LastOf(e)
    BY <1>1, <1>4, <1>6, <1>8
  <2>2. LastOf(e) # Never
    BY <1>3, <2>1 DEF Never
  <2> QED
    BY <1>3, <1>7, <1>8, <2>1, <2>2
<1>9. \A k \in 1..m : log'[k].alert => log'[k].at <= LastOf(log[k])'
  <2> SUFFICES ASSUME NEW k \in 1..m, log'[k].alert
               PROVE  log'[k].at <= LastOf(log[k])'
    OBVIOUS
  <2>a. \A f \in Entries : log'[k] = f => LastOf(log[k])' = LastOf(f)'
    BY DEF LastOf
  <2>1. CASE k = m
    <3>1. log'[k] = e /\ e.alert /\ LastOf(e)' = e.at
      BY <1>2, <1>5, <2>1 DEF SameKindAs
    <3> QED
      BY <1>3, <2>a, <3>1
  <2>2. CASE k \in 1..Len(log)
    <3>1. log'[k] = log[k] /\ log[k] \in Entries /\ log[k].alert /\ log[k].at <= LastOf(log[k])
      BY <1>1, <1>2, <1>4, <2>2
    <3>2. log[k].at <= IF SameKindAs(e, log[k]) /\ e.alert THEN e.at ELSE LastOf(log[k])
      <4>1. CASE SameKindAs(e, log[k]) /\ e.alert
        BY <1>3, <1>8, <2>2, <3>1, <4>1
      <4> QED
        BY <3>1, <4>1
    <3>3. PICK f \in Entries : f = log[k]
      BY <3>1
    <3>4. /\ LastOf(f)' = IF SameKindAs(e, f) /\ e.alert THEN e.at ELSE LastOf(f)
          /\ LastOf(log[k])' = LastOf(f)'
      BY <1>5, <2>a, <3>1, <3>3
    <3> QED
      BY <3>1, <3>2, <3>3, <3>4
  <2> QED
    BY <1>1, <2>1, <2>2
<1>10. AlertsAreSpaced'
  <2> SUFFICES ASSUME NEW j \in 1..m, NEW k \in 1..m, j < k,
                      log'[j].kind = log'[k].kind, log'[j].source = log'[k].source,
                      log'[j].alert, log'[k].alert
               PROVE  log'[k].at >= log'[j].at + Cooldown
    BY <1>2 DEF AlertsAreSpaced, SameKind
  <2>1. j \in 1..Len(log) /\ log'[j] = log[j]
    BY <1>1, <1>2
  <2>2. CASE k = m
    BY <1>2, <1>8, <2>1, <2>2 DEF SameKindAs
  <2>3. CASE k \in 1..Len(log)
    <3>1. log'[k] = log[k]
      BY <1>2, <2>3
    <3> QED
      BY <1>1, <2>1, <2>3, <3>1 DEF SpacingInv, AlertsAreSpaced, SameKind
  <2> QED
    BY <1>1, <2>2, <2>3
<1> QED
  BY <1>2, <1>9, <1>10 DEF SpacingInv, OneEntry

-----------------------------------------------------------------------------
(* The deques and the log.                                                 *)

FailureOf(j, s) == log[j].kind = "failed" /\ log[j].source = s

\* g tells which failure in the log each element of source s's deque is: a different one
\* each, and, if the times never went back, all that are within the window of the last
\* entry.
MatchedBy(g, s) ==
    /\ g \in [1..Len(failures[s]) -> 1..Len(log)]
    /\ \A i, j \in 1..Len(failures[s]) : g[i] = g[j] => i = j
    /\ \A i \in 1..Len(failures[s]) : FailureOf(g[i], s) /\ log[g[i]].at = failures[s][i]
    /\ OrderedUpTo(Len(log)) =>
          \A j \in 1..Len(log) :
             (FailureOf(j, s) /\ InWindow(log[j].at, log[Len(log)].at)) =>
                 \E i \in 1..Len(failures[s]) : g[i] = j

DequesMatch == \A s \in Sources : \E g : MatchedBy(g, s)

\* The log after one more entry, and what an ordered log says of the ones before.
LEMMA Appended ==
  ASSUME TypeOK, NEW e \in Entries, log' = Append(log, e)
  PROVE  /\ Len(log) \in Nat /\ DOMAIN log = 1..Len(log)
         /\ Len(log') = Len(log) + 1 /\ DOMAIN log' = 1..(Len(log) + 1)
         /\ \A j \in 1..Len(log) : log[j] \in Entries /\ log'[j] = log[j]
         /\ log'[Len(log) + 1] = e
<1>1. log \in Seq(Entries)
  BY DEF TypeOK, Entries
<1> QED
  BY <1>1

LEMMA OrderedBefore ==
  ASSUME TypeOK, NEW e \in Entries, log' = Append(log, e), OrderedUpTo(Len(log))'
  PROVE  /\ OrderedUpTo(Len(log))
         /\ \A j \in 1..Len(log) :
               /\ log[j].at <= e.at
               /\ InWindow(log[j].at, e.at) => InWindow(log[j].at, log[Len(log)].at)
<1>1. /\ Len(log) \in Nat /\ Len(log') = Len(log) + 1 /\ log'[Len(log) + 1] = e
      /\ \A j \in 1..Len(log) : log[j] \in Entries /\ log'[j] = log[j]
  BY Appended
<1>2. \A i, j \in 1..(Len(log) + 1) : i <= j => log'[i].at <= log'[j].at
  BY <1>1 DEF OrderedUpTo
<1>3. OrderedUpTo(Len(log))
  BY <1>1, <1>2 DEF OrderedUpTo
<1>4. ASSUME NEW j \in 1..Len(log)
      PROVE  /\ log[j].at <= e.at
             /\ InWindow(log[j].at, e.at) => InWindow(log[j].at, log[Len(log)].at)
  <2>1. Len(log) \in 1..Len(log) /\ Len(log) \in 1..(Len(log) + 1) /\ j \in 1..(Len(log) + 1)
    BY <1>1
  <2>2. log[j].at <= e.at /\ log[Len(log)].at <= e.at /\ log[j].at <= log[Len(log)].at
    BY <1>1, <1>2, <2>1
  <2>3. log[j].at \in Nat /\ log[Len(log)].at \in Nat /\ e.at \in Nat
    <3>1. \A f \in Entries : f.at \in Nat
      BY DEF Entries, Times
    <3> QED
      BY <1>1, <2>1, <3>1
  <2> QED
    BY <2>2, <2>3, BruteForceAssumption DEF InWindow
<1> QED
  BY <1>3, <1>4

\* The deque of a source that the entry is not of.
LEMMA OtherMatch ==
  ASSUME TypeOK, NEW e \in Entries, log' = Append(log, e),
         NEW s \in Sources, s # e.source, failures'[s] = failures[s],
         NEW g, MatchedBy(g, s)
  PROVE  MatchedBy(g, s)'
<1>0. PICK m \in Nat : m = Len(log) + 1
  BY Appended
<1>1. /\ Len(log) \in Nat /\ m = Len(log) + 1 /\ Len(log') = m /\ log'[m] = e
      /\ \A j \in 1..Len(log) : log[j] \in Entries /\ log'[j] = log[j]
  BY <1>0, Appended
<1>2. /\ \A j \in 1..Len(log) : FailureOf(j, s)' <=> FailureOf(j, s)
      /\ ~FailureOf(m, s)'
  BY <1>1 DEF FailureOf
<1>3. g \in [1..Len(failures'[s]) -> 1..Len(log')] /\ \A i \in 1..Len(failures[s]) : g[i] \in 1..Len(log)
  BY <1>1 DEF MatchedBy
<1>4. \A i \in 1..Len(failures'[s]) : FailureOf(g[i], s)' /\ log'[g[i]].at = failures'[s][i]
  BY <1>1, <1>2, <1>3 DEF MatchedBy
<1>5. ASSUME OrderedUpTo(Len(log))', NEW j \in 1..Len(log'),
             FailureOf(j, s)', InWindow(log'[j].at, log'[Len(log')].at)
      PROVE  \E i \in 1..Len(failures'[s]) : g[i] = j
  <2>1. j \in 1..Len(log) /\ FailureOf(j, s) /\ InWindow(log[j].at, e.at)
    BY <1>1, <1>2, <1>5
  <2>2. OrderedUpTo(Len(log)) /\ InWindow(log[j].at, log[Len(log)].at)
    BY <1>5, <2>1, OrderedBefore
  <2> QED
    BY <2>1, <2>2 DEF MatchedBy
<1>6. \A i, j \in 1..Len(failures'[s]) : g[i] = g[j] => i = j
  BY DEF MatchedBy
<1> QED
  BY <1>3, <1>4, <1>5, <1>6 DEF MatchedBy, InWindow

\* The deque before it is pruned: the old one, and the entry if it is a failure.  Nothing
\* that is within the entry's window is missing.
Unpruned(e) == IF e.kind = "failed" THEN Append(failures[e.source], e.at)
               ELSE failures[e.source]

UnprunedMatch(h, b, e, s) ==
    /\ h \in [1..Len(b) -> 1..Len(log')]
    /\ \A i, j \in 1..Len(b) : h[i] = h[j] => i = j
    /\ \A i \in 1..Len(b) : FailureOf(h[i], s)' /\ log'[h[i]].at = b[i]
    /\ OrderedUpTo(Len(log))' =>
          \A j \in 1..Len(log') :
             (FailureOf(j, s)' /\ InWindow(log'[j].at, e.at)) =>
                 \E i \in 1..Len(b) : h[i] = j

LEMMA PushedMatch ==
  ASSUME TypeOK, NEW e \in Entries, log' = Append(log, e), NEW s \in Sources, s = e.source,
         NEW g, MatchedBy(g, s), NEW b, b = Unpruned(e)
  PROVE  /\ b \in Seq(Times)
         /\ \E h : UnprunedMatch(h, b, e, s)
<1>0. PICK m \in Nat : m = Len(log) + 1
  BY Appended
<1>1. /\ Len(log) \in Nat /\ m = Len(log) + 1 /\ Len(log') = m /\ log'[m] = e
      /\ 1..m = (1..Len(log)) \cup {m} /\ m \notin 1..Len(log)
      /\ \A j \in 1..Len(log) : log[j] \in Entries /\ log'[j] = log[j]
  BY <1>0, Appended
<1>2. /\ \A j \in 1..Len(log) : FailureOf(j, s)' <=> FailureOf(j, s)
      /\ FailureOf(m, s)' <=> e.kind = "failed"
  BY <1>1 DEF FailureOf
<1>3. PICK q : q = failures[s]
  OBVIOUS
<1>4. q \in Seq(Times) /\ Len(q) \in Nat /\ e.at \in Times
  BY <1>3 DEF TypeOK, Entries
<1>5. /\ g \in [1..Len(q) -> 1..Len(log)]
      /\ \A i, j \in 1..Len(q) : g[i] = g[j] => i = j
      /\ \A i \in 1..Len(q) : FailureOf(g[i], s) /\ log[g[i]].at = q[i]
  BY <1>3 DEF MatchedBy
<1>6. ASSUME OrderedUpTo(Len(log))', NEW j \in 1..Len(log),
             FailureOf(j, s), InWindow(log[j].at, e.at)
      PROVE  \E i \in 1..Len(q) : g[i] = j
  <2>1. OrderedUpTo(Len(log)) /\ InWindow(log[j].at, log[Len(log)].at)
    BY <1>6, OrderedBefore
  <2> QED
    BY <1>3, <1>6, <2>1 DEF MatchedBy
<1>7. CASE e.kind = "failed"
  <2>1. /\ b \in Seq(Times) /\ Len(b) = Len(q) + 1 /\ b[Len(q) + 1] = e.at
        /\ \A i \in 1..Len(q) : b[i] = q[i]
        /\ 1..Len(b) = (1..Len(q)) \cup {Len(q) + 1} /\ Len(q) + 1 \notin 1..Len(q)
    <3>1. b = Append(q, e.at)
      BY <1>3, <1>7 DEF Unpruned
    <3> QED
      BY <1>4, <3>1
  <2>2. PICK h : h = [i \in 1..Len(b) |-> IF i = Len(q) + 1 THEN m ELSE g[i]]
    OBVIOUS
  <2>3. /\ h[Len(q) + 1] = m
        /\ \A i \in 1..Len(q) : h[i] = g[i] /\ g[i] \in 1..Len(log) /\ g[i] # m
    <3>1. \A i \in 1..Len(q) : g[i] \in 1..Len(log)
      BY <1>5
    <3> QED
      BY <1>1, <2>1, <2>2, <3>1
  <2>4. h \in [1..Len(b) -> 1..Len(log')]
    BY <1>1, <2>1, <2>2, <2>3
  <2>5. \A i, j \in 1..Len(b) : h[i] = h[j] => i = j
    BY <1>5, <2>1, <2>3
  <2>6. \A i \in 1..Len(b) : FailureOf(h[i], s)' /\ log'[h[i]].at = b[i]
    BY <1>1, <1>2, <1>5, <1>7, <2>1, <2>3
  <2>7. ASSUME OrderedUpTo(Len(log))', NEW j \in 1..Len(log'),
               FailureOf(j, s)', InWindow(log'[j].at, e.at)
        PROVE  \E i \in 1..Len(b) : h[i] = j
    <3>1. CASE j = m
      BY <2>1, <2>3, <3>1
    <3>2. CASE j \in 1..Len(log)
      <4>1. PICK i \in 1..Len(q) : g[i] = j
        BY <1>1, <1>2, <1>6, <2>7, <3>2
      <4> QED
        BY <2>1, <2>3, <4>1
    <3> QED
      BY <1>1, <3>1, <3>2
  <2>8. UnprunedMatch(h, b, e, s)
    BY <2>4, <2>5, <2>6, <2>7, Zenon DEF UnprunedMatch
  <2> QED
    BY <2>1, <2>8
<1>8. CASE e.kind # "failed"
  <2>1. b = q /\ b \in Seq(Times) /\ Len(b) = Len(q)
    BY <1>3, <1>4, <1>8 DEF Unpruned
  <2>2. g \in [1..Len(b) -> 1..Len(log')] /\ \A i \in 1..Len(b) : g[i] \in 1..Len(log)
    BY <1>1, <1>5, <2>1
  <2>3. \A i \in 1..Len(b) : FailureOf(g[i], s)' /\ log'[g[i]].at = b[i]
    BY <1>1, <1>2, <1>5, <2>1, <2>2
  <2>4. ASSUME OrderedUpTo(Len(log))', NEW j \in 1..Len(log'),
               FailureOf(j, s)', InWindow(log'[j].at, e.at)
        PROVE  \E i \in 1..Len(b) : g[i] = j
    <3>1. j \in 1..Len(log)
      BY <1>1, <1>2, <1>8, <2>4
    <3> QED
      BY <1>1, <1>2, <1>6, <2>1, <2>4, <3>1
  <2>5. \A i, j \in 1..Len(b) : g[i] = g[j] => i = j
    BY <1>5, <2>1, Zenon
  <2>6. UnprunedMatch(g, b, e, s)
    BY <2>2, <2>3, <2>4, <2>5, Zenon DEF UnprunedMatch
  <2> QED
    BY <2>1, <2>6
<1> QED
  BY <1>7, <1>8

\* The deque of the entry's own source, pruned: it is matched, and all of it is within
\* the entry's window.
LEMMA OwnMatch ==
  ASSUME TypeOK, NEW e \in Entries, OneEntry(e), NEW s \in Sources, s = e.source,
         \E g : MatchedBy(g, s)
  PROVE  /\ \E g : MatchedBy(g, s)'
         /\ \A i \in 1..Len(failures'[s]) : InWindow(failures'[s][i], e.at)
<1>1. PICK b : b = Unpruned(e)
  OBVIOUS
<1>2. log' = Append(log, e) /\ Len(log') \in Nat /\ log'[Len(log')] = e
  BY Appended DEF OneEntry
<1>a. PICK f : MatchedBy(f, s)
  OBVIOUS
<1>3. b \in Seq(Times)
  BY <1>1, <1>2, <1>a, PushedMatch
<1>b. PICK h : UnprunedMatch(h, b, e, s)
  BY <1>1, <1>2, <1>a, PushedMatch
<1>4. /\ h \in [1..Len(b) -> 1..Len(log')]
      /\ \A i, j \in 1..Len(b) : h[i] = h[j] => i = j
      /\ \A i \in 1..Len(b) : FailureOf(h[i], s)' /\ log'[h[i]].at = b[i]
      /\ OrderedUpTo(Len(log))' =>
            \A j \in 1..Len(log') :
               (FailureOf(j, s)' /\ InWindow(log'[j].at, e.at)) =>
                   \E i \in 1..Len(b) : h[i] = j
  BY <1>b DEF UnprunedMatch
<1>5. PICK k : k = Prune(b, e.at)
  OBVIOUS
<1>6. failures'[s] = k
  BY <1>1, <1>5 DEF OneEntry, DequeAfter, Unpruned, Pushed, TypeOK
<1>7. PICK p : Selects(p, k, b, e.at)
  BY <1>3, <1>5, PruneFacts DEF PruneSelects
<1>8. /\ p \in [1..Len(k) -> 1..Len(b)]
      /\ \A i, j \in 1..Len(k) : p[i] = p[j] => i = j
      /\ \A i \in 1..Len(k) : p[i] \in 1..Len(b) /\ k[i] = b[p[i]] /\ InWindow(b[p[i]], e.at)
      /\ \A j \in 1..Len(b) : InWindow(b[j], e.at) => \E i \in 1..Len(k) : p[i] = j
  BY <1>7 DEF Selects
<1>9. PICK g : g = [i \in 1..Len(k) |-> h[p[i]]]
  OBVIOUS
<1>c. /\ \A i \in 1..Len(b) : h[i] \in 1..Len(log')
      /\ \A i, j \in 1..Len(b) : h[i] = h[j] => i = j
  BY <1>b DEF UnprunedMatch
<1>10. g \in [1..Len(k) -> 1..Len(log')] /\ \A i \in 1..Len(k) : g[i] = h[p[i]]
  <2>1. \A i \in 1..Len(k) : p[i] \in 1..Len(b)
    BY <1>8
  <2> QED
    BY <1>9, <1>c, <2>1
<1>11. \A i, j \in 1..Len(k) : g[i] = g[j] => i = j
  <2> SUFFICES ASSUME NEW i \in 1..Len(k), NEW j \in 1..Len(k), g[i] = g[j] PROVE i = j
    OBVIOUS
  <2>1. p[i] \in 1..Len(b) /\ p[j] \in 1..Len(b) /\ h[p[i]] = h[p[j]]
    BY <1>8, <1>10
  <2>2. p[i] = p[j]
    BY <1>c, <2>1, Zenon
  <2> QED
    BY <1>8, <2>2, Zenon
<1>12. \A i \in 1..Len(k) : FailureOf(g[i], s)' /\ log'[g[i]].at = k[i]
  <2> SUFFICES ASSUME NEW i \in 1..Len(k) PROVE FailureOf(g[i], s)' /\ log'[g[i]].at = k[i]
    OBVIOUS
  <2>1. PICK j \in 1..Len(b) : j = p[i] /\ k[i] = b[j] /\ g[i] = h[j]
    BY <1>8, <1>10
  <2>2. FailureOf(h[j], s)' /\ log'[h[j]].at = b[j]
    BY <1>4
  <2> QED
    BY <2>1, <2>2
<1>13. ASSUME OrderedUpTo(Len(log))', NEW j \in 1..Len(log'),
              FailureOf(j, s)', InWindow(log'[j].at, log'[Len(log')].at)
       PROVE  \E i \in 1..Len(k) : g[i] = j
  <2>1. PICK x \in 1..Len(b) : h[x] = j
    BY <1>2, <1>4, <1>13
  <2>2. InWindow(b[x], e.at)
    BY <1>2, <1>4, <1>13, <2>1
  <2>3. PICK i \in 1..Len(k) : p[i] = x
    BY <1>8, <2>2
  <2> QED
    BY <1>10, <2>1, <2>3
<1>14. \A i \in 1..Len(k) : InWindow(k[i], e.at)
  BY <1>8
<1>15. MatchedBy(g, s)'
  BY <1>6, <1>10, <1>11, <1>12, <1>13 DEF MatchedBy, InWindow
<1> QED
  BY <1>6, <1>14, <1>15

\* The failures that the last entry should know of, counted by its source's deque: never
\* more than there are, and all of them if the times never went back.
LEMMA Counted ==
  ASSUME TypeOK, NEW e \in Entries, OneEntry(e), NEW s \in Sources, s = e.source,
         \E g : MatchedBy(g, s), NEW m \in Nat, m = Len(log) + 1
  PROVE  /\ Len(failures'[s]) \in Nat /\ Cardinality(FailuresBefore(m)') \in Nat
         /\ Len(failures'[s]) <= Cardinality(FailuresBefore(m)')
         /\ OrderedUpTo(m)' => Len(failures'[s]) = Cardinality(FailuresBefore(m)')
<1>1. /\ Len(log') = m /\ log'[m] = e
      /\ \A j \in 1..m : log'[j] \in Entries
  <2>1. /\ Len(log) \in Nat /\ 1..m = (1..Len(log)) \cup {m}
        /\ Len(log') = m /\ log'[m] = e
        /\ \A j \in 1..Len(log) : log[j] \in Entries /\ log'[j] = log[j]
    BY Appended DEF OneEntry
  <2> QED
    BY <2>1
<1>2. PICK g : MatchedBy(g, s)'
  BY OwnMatch
<1>3. \A i \in 1..Len(failures'[s]) : InWindow(failures'[s][i], e.at)
  BY OwnMatch
<1>4. PICK k : k = failures'[s]
  OBVIOUS
<1>5. k \in Seq(Times) /\ Len(k) \in Nat
  BY <1>4, DequeType DEF OneEntry, TypeOK
<1>6. PICK F : F = FailuresBefore(m)'
  OBVIOUS
<1>7. F = {j \in 1..m : FailureOf(j, s)' /\ InWindow(log'[j].at, e.at)}
  BY <1>1, <1>6 DEF FailuresBefore, FailureOf
<1>8. IsFiniteSet(F) /\ Cardinality(F) \in Nat
  <2>1. IsFiniteSet(1..m) /\ F \in SUBSET (1..m)
    BY <1>7, FS_Interval
  <2> QED
    BY <2>1, FS_Subset, FS_CardinalityType
<1>9. /\ g \in [1..Len(k) -> 1..m]
      /\ \A i, j \in 1..Len(k) : g[i] = g[j] => i = j
      /\ \A i \in 1..Len(k) : FailureOf(g[i], s)' /\ log'[g[i]].at = k[i]
  BY <1>1, <1>2, <1>4 DEF MatchedBy
<1>10. g \in Injection(1..Len(k), F)
  <2>1. \A i \in 1..Len(k) : g[i] \in F
    BY <1>3, <1>4, <1>7, <1>9
  <2>2. g \in [1..Len(k) -> F]
    BY <1>9, <2>1
  <2> QED
    BY <1>9, <2>2 DEF Injection, IsInjective
<1>11. Cardinality(1..Len(k)) = Len(k)
  <2>1. PICK n \in Nat : n = Len(k)
    BY <1>5
  <2>2. Cardinality(1..n) = n
    BY FS_Interval
  <2> QED
    BY <2>1, <2>2
<1>12. Len(k) <= Cardinality(F)
  BY <1>8, <1>10, <1>11, FS_Injection
<1>13. ASSUME OrderedUpTo(m)' PROVE Len(k) = Cardinality(F)
  <2>1. OrderedUpTo(Len(log))'
    BY <1>1, <1>13 DEF OrderedUpTo
  <2>2. \A j \in 1..m : (FailureOf(j, s)' /\ InWindow(log'[j].at, e.at)) =>
                           \E i \in 1..Len(k) : g[i] = j
    BY <1>1, <1>2, <1>4, <2>1 DEF MatchedBy, InWindow
  <2>3. \A j \in F : \E i \in 1..Len(k) : g[i] = j
    BY <1>7, <2>2
  <2>4. g \in Surjection(1..Len(k), F)
    BY <1>10, <2>3 DEF Injection, Surjection
  <2> QED
    BY <1>8, <1>10, <1>11, <2>4, FS_Injection
<1> QED
  BY <1>4, <1>5, <1>6, <1>8, <1>12, <1>13

\* Each source's deque still matches after the entry.
LEMMA MatchStep ==
  ASSUME TypeOK, DequesMatch, NEW e \in Entries, OneEntry(e)
  PROVE  DequesMatch'
<1> SUFFICES ASSUME NEW s \in Sources PROVE \E g : MatchedBy(g, s)'
  BY DEF DequesMatch
<1>1. PICK g : MatchedBy(g, s)
  BY DEF DequesMatch
<1>2. CASE s = e.source
  BY <1>1, <1>2, OwnMatch
<1>3. CASE s # e.source
  <2>1. failures'[s] = failures[s] /\ log' = Append(log, e)
    BY <1>3 DEF OneEntry, TypeOK
  <2> QED
    BY <1>1, <1>3, <2>1, OtherMatch
<1> QED
  BY <1>2, <1>3

-----------------------------------------------------------------------------
(* The alerts and the log.                                                 *)

\* An alert that the tracker remembers is in the log: it was raised, by an entry of that
\* kind and source, and at that time.
LastIsReal ==
    \A f \in Entries : LastOf(f) # Never =>
        \E j \in 1..Len(log) : SameKindAs(log[j], f) /\ log[j].alert /\ log[j].at = LastOf(f)

LEMMA RealStep ==
  ASSUME TypeOK, LastIsReal, NEW e \in Entries, OneEntry(e)
  PROVE  LastIsReal'
<1>1. PICK m \in Nat : m = Len(log) + 1
  BY Appended DEF OneEntry
<1>2. /\ m \in 1..m /\ Len(log') = m /\ log'[m] = e
      /\ \A j \in 1..Len(log) : j \in 1..m /\ log'[j] = log[j]
  BY <1>1, Appended DEF OneEntry
<1> SUFFICES ASSUME NEW f \in Entries, LastOf(f)' # Never
             PROVE  \E j \in 1..m : SameKindAs(log[j], f)' /\ log'[j].alert /\ log'[j].at = LastOf(f)'
  BY <1>2 DEF LastIsReal
<1>3. LastOf(f)' = IF SameKindAs(e, f) /\ e.alert THEN e.at ELSE LastOf(f)
  BY DEF OneEntry
<1>4. CASE SameKindAs(e, f) /\ e.alert
  BY <1>2, <1>3, <1>4 DEF SameKindAs
<1>5. CASE ~(SameKindAs(e, f) /\ e.alert)
  <2>1. PICK j \in 1..Len(log) : SameKindAs(log[j], f) /\ log[j].alert /\ log[j].at = LastOf(f)
    BY <1>3, <1>5 DEF LastIsReal
  <2> QED
    BY <1>2, <1>3, <1>5, <2>1 DEF SameKindAs
<1> QED
  BY <1>4, <1>5

\* What the log says of an entry does not change when another is appended.
LEMMA Remembered ==
  ASSUME TypeOK, NEW e \in Entries, OneEntry(e), NEW k \in 1..Len(log)
  PROVE  /\ log'[k] = log[k] /\ FailuresBefore(k)' = FailuresBefore(k) /\ Limit(k)' = Limit(k)
         /\ OrderedUpTo(k)' <=> OrderedUpTo(k)
<1>1. Len(log) \in Nat /\ \A j \in 1..Len(log) : log'[j] = log[j]
  BY Appended DEF OneEntry
<1>2. \A j \in 1..k : log'[j] = log[j]
  BY <1>1
<1>3. log'[k] = log[k]
  BY <1>1
<1> QED
  BY <1>2, <1>3 DEF FailuresBefore, Limit, OrderedUpTo, InWindow

\* The new entry's alert is earned.
LEMMA EarnedStep ==
  ASSUME TypeOK, DequesMatch, AlertIsEarned, NEW e \in Entries, OneEntry(e)
  PROVE  AlertIsEarned'
<1>1. PICK m \in Nat : m = Len(log) + 1
  BY Appended DEF OneEntry
<1>2. /\ Len(log) \in Nat /\ DOMAIN log = 1..Len(log) /\ DOMAIN log' = (1..Len(log)) \cup {m} /\ log'[m] = e
  BY <1>1, Appended DEF OneEntry
<1> SUFFICES ASSUME NEW k \in (1..Len(log)) \cup {m}, log'[k].alert
             PROVE  Cardinality(FailuresBefore(k)') >= Limit(k)'
  BY <1>2 DEF AlertIsEarned
<1>3. CASE k \in 1..Len(log)
  <2>1. log'[k] = log[k] /\ FailuresBefore(k)' = FailuresBefore(k) /\ Limit(k)' = Limit(k)
    BY <1>3, Remembered
  <2> QED
    BY <1>2, <1>3, <2>1 DEF AlertIsEarned
<1>4. CASE k = m
  <2>1. PICK s \in Sources : s = e.source
    BY DEF Entries
  <2>2. \E g : MatchedBy(g, s)
    BY DEF DequesMatch
  <2>3. /\ Len(failures'[s]) \in Nat /\ Cardinality(FailuresBefore(m)') \in Nat
        /\ Len(failures'[s]) <= Cardinality(FailuresBefore(m)')
    BY <1>1, <2>1, <2>2, Counted
  <2>4. failures'[s] = DequeAfter(e)
    BY <2>1 DEF OneEntry, TypeOK
  <2>5. Len(DequeAfter(e)) >= LimitOf(e) /\ Limit(m)' = LimitOf(e) /\ LimitOf(e) \in Nat
    BY <1>2, <1>4, BruteForceAssumption DEF OneEntry, Limit, LimitOf
  <2> QED
    BY <1>4, <2>3, <2>4, <2>5
<1> QED
  BY <1>3, <1>4

\* The new entry raises an alert if it has to.
LEMMA SeenStep ==
  ASSUME TypeOK, DequesMatch, LastIsReal, NoBurstMissed, NEW e \in Entries, OneEntry(e)
  PROVE  NoBurstMissed'
<1>1. PICK m \in Nat : m = Len(log) + 1
  BY Appended DEF OneEntry
<1>2. /\ Len(log) \in Nat /\ DOMAIN log = 1..Len(log) /\ DOMAIN log' = (1..Len(log)) \cup {m}
      /\ log'[m] = e /\ m \in 1..m
      /\ \A j \in 1..Len(log) : j \in 1..m /\ log[j] \in Entries /\ log'[j] = log[j]
  BY <1>1, Appended DEF OneEntry
<1> SUFFICES ASSUME NEW k \in (1..Len(log)) \cup {m}, OrderedUpTo(k)',
                    Cardinality(FailuresBefore(k)') >= Limit(k)'
             PROVE  \E j \in 1..k : /\ SameKind(j, k)' /\ log'[j].alert
                                    /\ log'[k].at < log'[j].at + Cooldown
  BY <1>2 DEF NoBurstMissed
<1>3. CASE k \in 1..Len(log)
  <2>1. /\ FailuresBefore(k)' = FailuresBefore(k) /\ Limit(k)' = Limit(k)
        /\ OrderedUpTo(k)' <=> OrderedUpTo(k)
    BY <1>3, Remembered
  <2>2. PICK j \in 1..k : SameKind(j, k) /\ log[j].alert /\ log[k].at < log[j].at + Cooldown
    BY <1>2, <1>3, <2>1 DEF NoBurstMissed
  <2>3. j \in 1..Len(log)
    BY <1>2, <1>3
  <2> QED
    BY <1>2, <1>3, <2>2, <2>3 DEF SameKind
<1>4. CASE k = m
  <2>1. PICK s \in Sources : s = e.source
    BY DEF Entries
  <2>2. \E g : MatchedBy(g, s)
    BY DEF DequesMatch
  <2>3. Len(failures'[s]) = Cardinality(FailuresBefore(m)')
    BY <1>1, <1>4, <2>1, <2>2, Counted
  <2>4. failures'[s] = DequeAfter(e) /\ Limit(m)' = LimitOf(e)
    BY <1>2, <2>1 DEF OneEntry, TypeOK, Limit, LimitOf
  <2>5. e.alert <=> CooldownOk(LastOf(e), e.at)
    BY <1>4, <2>3, <2>4 DEF OneEntry
  <2>6. e.at \in Nat /\ Cooldown \in Nat \ {0}
    BY BruteForceAssumption DEF Entries, Times
  <2>7. CASE e.alert
    <3>1. e.at < e.at + Cooldown
      BY <2>6
    <3> QED
      BY <1>2, <1>4, <2>7, <3>1 DEF SameKind
  <2>8. CASE ~e.alert
    <3>1. LastOf(e) # Never /\ ~(e.at >= LastOf(e) /\ e.at - LastOf(e) >= Cooldown)
      BY <2>5, <2>8 DEF CooldownOk
    <3>2. PICK j \in 1..Len(log) : SameKindAs(log[j], e) /\ log[j].alert /\ log[j].at = LastOf(e)
      BY <3>1 DEF LastIsReal
    <3>3. log[j].at \in Nat
      <4>1. \A f \in Entries : f.at \in Nat
        BY DEF Entries, Times
      <4> QED
        BY <1>2, <4>1
    <3>4. e.at < log[j].at + Cooldown
      BY <2>6, <3>1, <3>2, <3>3
    <3> QED
      BY <1>2, <1>4, <3>2, <3>4 DEF SameKind, SameKindAs
  <2> QED
    BY <2>7, <2>8
<1> QED
  BY <1>3, <1>4

-----------------------------------------------------------------------------
(* The inductive invariant.                                                *)

\* What the alerts rest on: deques that match the log, and remembered alerts that are in it.
Inv ==
    /\ TypeOK
    /\ DequesMatch /\ LastIsReal
    /\ SpacingInv /\ AlertIsEarned /\ NoBurstMissed

\* No login yet: every deque is empty.
LEMMA InvInit == Init => Inv
<1> SUFFICES ASSUME Init PROVE Inv
  OBVIOUS
<1>1. TypeOK /\ SpacingInv /\ Len(log) = 0 /\ DOMAIN log = {}
  BY TypeInit, SpacingInit DEF Init
<1>2. ASSUME NEW s \in Sources PROVE \E g : MatchedBy(g, s)
  <2>1. failures[s] = <<>> /\ Len(failures[s]) = 0
    BY <1>2 DEF Init
  <2>2. PICK g : g = [i \in 1..0 |-> 0]
    OBVIOUS
  <2>3. MatchedBy(g, s)
    BY <1>1, <2>1, <2>2 DEF MatchedBy
  <2> QED
    BY <2>3
<1>3. LastIsReal
  BY DEF Init, LastIsReal, LastOf, Entries
<1> QED
  BY <1>1, <1>2, <1>3 DEF Inv, DequesMatch, AlertIsEarned, NoBurstMissed

LEMMA InvStep == Inv /\ [Next]_vars => Inv'
<1> SUFFICES ASSUME Inv, [Next]_vars PROVE Inv'
  OBVIOUS
<1>1. CASE Next
  <2>1. PICK e \in Entries : OneEntry(e)
    BY <1>1, NextIsEntry DEF Inv
  <2> QED
    BY <2>1, TypeStep, MatchStep, RealStep, EntryStep, EarnedStep, SeenStep DEF Inv
<1>2. CASE UNCHANGED vars
  <2>1. TypeOK' /\ SpacingInv'
    BY <1>2 DEF vars, Inv, TypeOK, SpacingInv, LastOf, AlertsAreSpaced, SameKind
  <2>2. DequesMatch'
    BY <1>2 DEF vars, Inv, DequesMatch, MatchedBy, FailureOf, OrderedUpTo
  <2>3. LastIsReal'
    BY <1>2 DEF vars, Inv, LastIsReal, LastOf
  <2>4. AlertIsEarned' /\ NoBurstMissed'
    BY <1>2 DEF vars, Inv, AlertIsEarned, NoBurstMissed, FailuresBefore, Limit, OrderedUpTo, SameKind
  <2> QED
    BY <2>1, <2>2, <2>3, <2>4 DEF Inv
<1> QED
  BY <1>1, <1>2 DEF vars

LEMMA Invariance == Spec => []Inv
  BY InvInit, InvStep, PTL DEF Spec

-----------------------------------------------------------------------------
(* What the tracker promises.                                              *)

\* The deques hold times, and the tracker remembers an alert's time or none.
THEOREM TypeCorrect == Spec => []TypeOK
<1>1. Inv => TypeOK
  BY DEF Inv
<1> QED
  BY <1>1, Invariance, PTL

\* Every alert rests on enough failures of its source within the window, whatever the
\* order of the times.
THEOREM AlertsAreEarned == Spec => []AlertIsEarned
<1>1. Inv => AlertIsEarned
  BY DEF Inv
<1> QED
  BY <1>1, Invariance, PTL

\* Whatever the order in which the journal gives its entries, two alerts of one kind
\* about one source are a cooldown apart in event time.
THEOREM AlertsStaySpaced == Spec => []AlertsAreSpaced
<1>1. Inv => AlertsAreSpaced
  BY DEF Inv, SpacingInv
<1> QED
  BY <1>1, Invariance, PTL

\* While the times do not go back, pruning loses no failure that counts, and no burst
\* goes without an alert less than a cooldown old.
THEOREM BurstsAreSeen == Spec => []NoBurstMissed
<1>1. Inv => NoBurstMissed
  BY DEF Inv
<1> QED
  BY <1>1, Invariance, PTL

\* While the times do not go back, what check_success prunes would not have counted for
\* any later entry.
THEOREM SuccessesArePassive == Spec => SuccessIsPassive
<1>1. Inv /\ [Next]_vars => [PassiveSuccess]_vars
  <2> SUFFICES ASSUME Inv, Next PROVE PassiveSuccess
    OBVIOUS
  <2>1. PICK e \in Entries : OneEntry(e)
    BY NextIsEntry DEF Inv
  <2>2. /\ TypeOK /\ log' = Append(log, e) /\ log'[Len(log')] = e
        /\ failures' = [failures EXCEPT ![e.source] = DequeAfter(e)]
    BY <2>1, Appended DEF Inv, OneEntry
  <2> SUFFICES ASSUME e.kind = "accepted", OrderedUpTo(Len(log))',
                      NEW s \in Sources, NEW at \in e.at..MaxTime
               PROVE  Prune(failures'[s], at) = Prune(failures[s], at)
    BY <2>2 DEF PassiveSuccess
  <2>3. CASE s # e.source
    BY <2>2, <2>3 DEF TypeOK
  <2>4. CASE s = e.source
    <3>1. PICK q \in Seq(Times) : q = failures[s]
      BY <2>2 DEF TypeOK
    <3>2. failures'[s] = Prune(q, e.at)
      BY <2>2, <2>4, <3>1 DEF TypeOK, DequeAfter
    <3>3. e.at \in Times /\ at \in Times /\ e.at <= at
      <4>1. e.at \in 0..MaxTime
        BY DEF Entries, Times
      <4> QED
        BY <4>1, BruteForceAssumption DEF Times
    <3>4. \A i \in 1..Len(q) : q[i] <= e.at
      <4>1. PICK g : MatchedBy(g, s)
        BY DEF Inv, DequesMatch
      <4>2. \A i \in 1..Len(q) : g[i] \in 1..Len(log) /\ log[g[i]].at = q[i]
        BY <3>1, <4>1 DEF MatchedBy
      <4>3. \A j \in 1..Len(log) : log[j].at <= e.at
        BY <2>2, OrderedBefore
      <4> QED
        BY <4>2, <4>3
    <3> QED
      BY <3>1, <3>2, <3>3, <3>4, PruneTwice
  <2> QED
    BY <2>3, <2>4
<1> QED
  BY <1>1, Invariance, PTL DEF Spec, SuccessIsPassive
=============================================================================
