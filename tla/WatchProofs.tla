---------------------------- MODULE WatchProofs ----------------------------
(***************************************************************************)
(* Proofs about Watch, for every set of targets, heartbeat, pipe capacity  *)
(* and backlog: the types, the popup flag, the loudness of a breach, that  *)
(* the page catches up with the tool, and that the way of its lines        *)
(* implements LineFifo.                                                    *)
(***************************************************************************)
EXTENDS Watch, FiniteSetTheorems, WellFoundedInduction, TLAPS

-----------------------------------------------------------------------------
(* The popup thread and its flag.                                          *)

PopupInv ==
    /\ boxes \in Nat /\ closing \in Nat /\ flag \in BOOLEAN /\ popups \in BOOLEAN
    /\ PopupFlagIsTrue

\* What the steps that do not concern the popup leave alone, or what a process that
\* starts or ends makes of it.
PopupUntouched == UNCHANGED popupVars
PopupReset == /\ popups' \in BOOLEAN
              /\ flag' = FALSE /\ boxes' = 0 /\ closing' = 0

\* No run has begun.
LEMMA PopupInit == Init => PopupInv
<1> SUFFICES ASSUME Init PROVE PopupInv
  OBVIOUS
<1>1. flag = FALSE /\ popups = FALSE /\ boxes = 0 /\ closing = 0
  BY DEF Init, InitCanary
<1>2. boxes \in Nat /\ closing \in Nat /\ boxes + closing <= 1 /\ boxes + closing # 1
  BY <1>1
<1> QED
  BY <1>1, <1>2, Zenon DEF PopupInv, PopupFlagIsTrue

\* Only the swap, the dismissal and the lowering of the flag change what the flag is about.
LEMMA PopupSteps ==
  ASSUME PopupInv, [Next]_vars
  PROVE  \/ PopupUntouched
         \/ PopupReset
         \/ Raise
         \/ DismissBox
         \/ LowerFlag
<1> USE DEF PopupInv, PopupUntouched, PopupReset, popupVars, ResetCanary
<1>1. CASE Tool
  <2>1. CASE Greet \/ Nag \/ Sleep
    BY <2>1 DEF Greet, Nag, Sleep
  <2>2. ASSUME NEW answers \in SUBSET Targets,
               Breach(answers) \/ StillExposed(answers) \/ Regain(answers)
                   \/ Beat(answers) \/ Quiet(answers)
        PROVE  PopupUntouched
    BY <2>2 DEF Breach, StillExposed, Regain, Beat, Quiet
  <2> QED
    BY <1>1, <2>1, <2>2 DEF Tool, Loop
<1>2. CASE Popup
  BY <1>2 DEF Popup
<1>3. CASE Task
  BY <1>3 DEF Task, Launch, BuildFails, Eof, Done, canaryVars
<1>4. CASE Read \/ Browser \/ User \/ (Broken /\ UNCHANGED <<run, canaryVars>>)
  BY <1>4 DEF Read, Browser, User, canaryVars
<1>5. CASE Start
  BY <1>5 DEF Start
<1>6. CASE Stop \/ Die
  BY <1>6 DEF Stop, Die, canaryVars
<1>7. CASE UNCHANGED vars
  BY <1>7 DEF vars, canaryVars
<1> QED
  BY <1>1, <1>2, <1>3, <1>4, <1>5, <1>6, <1>7 DEF Next

\* Each of them keeps the flag true.
LEMMA PopupStep == PopupInv /\ [Next]_vars => PopupInv'
<1> SUFFICES ASSUME PopupInv, [Next]_vars PROVE PopupInv'
  OBVIOUS
<1> USE DEF PopupInv, PopupFlagIsTrue
<1>1. CASE PopupUntouched
  BY <1>1 DEF PopupUntouched, popupVars
<1>2. CASE PopupReset
  <2>1. flag' = FALSE /\ popups' \in BOOLEAN /\ boxes' = 0 /\ closing' = 0
    BY <1>2 DEF PopupReset
  <2>2. /\ boxes' \in Nat /\ closing' \in Nat
        /\ boxes' + closing' <= 1 /\ boxes' + closing' # 1
    BY <2>1
  <2> QED
    BY <2>1, <2>2, Zenon
<1>3. CASE Raise
  BY <1>3 DEF Raise
<1>4. CASE DismissBox
  BY <1>4 DEF DismissBox
<1>5. CASE LowerFlag
  <2>1. flag' = FALSE /\ popups' = popups /\ boxes' = boxes /\ closing' = closing - 1
    BY <1>5 DEF LowerFlag
  <2>2. /\ boxes' \in Nat /\ closing' \in Nat
        /\ boxes' + closing' <= 1 /\ boxes' + closing' # 1
    BY <1>5, <2>1 DEF LowerFlag
  <2> QED
    BY <2>1, <2>2, Zenon
<1> QED
  BY <1>1, <1>2, <1>3, <1>4, <1>5, PopupSteps

\* However the connection flaps, there is at most one popup thread, and popup_open
\* says whether there is one.
THEOREM PopupFlagStaysTrue == Spec => []PopupFlagIsTrue
<1>1. PopupInv => PopupFlagIsTrue
  BY DEF PopupInv
<1> QED
  BY <1>1, PopupInit, PopupStep, PTL DEF Spec

-----------------------------------------------------------------------------
(* The page.                                                               *)

\* BreachIsLoud is not inductive: an alert while `exposed` is set opens no modal, so it
\* takes that, as long as lines can come, `exposed` is only set while the pill says so.
PageInv ==
    /\ open \in BOOLEAN /\ mirror \in BOOLEAN /\ modal \in BOOLEAN /\ acked \in BOOLEAN
    /\ BreachIsLoud
    /\ open /\ mirror => pill = "exposed"

\* The page is loaded idle.
LEMMA PageInit == Init => PageInv
  BY DEF Init, InitPage, PageInv, BreachIsLoud

\* What the stream delivers, lines out of order or not.
LEMMA DeliverStep == PageInv /\ Deliver => PageInv'
<1> SUFFICES ASSUME PageInv, Deliver PROVE PageInv'
  OBVIOUS
<1> USE DEF PageInv, BreachIsLoud
<1>1. CASE Ended
  BY <1>1 DEF Ended
<1>2. CASE OnExposed /\ UNCHANGED open
  BY <1>2 DEF OnExposed, Deliver
<1>3. CASE OnSafe /\ UNCHANGED open
  BY <1>3 DEF OnSafe
<1>4. CASE UNCHANGED viewVars /\ UNCHANGED open
  BY <1>4 DEF viewVars
<1> QED
  BY <1>1, <1>2, <1>3, <1>4 DEF Deliver, HandleLine

\* What the user, the browser and the run do.
LEMMA PageStep == PageInv /\ [Next]_vars => PageInv'
<1> SUFFICES ASSUME PageInv, [Next]_vars PROVE PageInv'
  OBVIOUS
<1> USE DEF PageInv, BreachIsLoud
<1>1. CASE UNCHANGED pageVars
  BY <1>1 DEF pageVars, viewVars
<1>2. CASE Browser
  BY <1>2, DeliverStep DEF Browser
<1>3. CASE User
  <2>1. CASE Clear
    BY <2>1 DEF Clear, ResetView
  <2>2. CASE Dismiss
    BY <2>2 DEF Dismiss
  <2> QED
    BY <1>3, <2>1, <2>2 DEF User
<1>4. CASE Start
  BY <1>4 DEF Start, Submit, ResetView
<1>5. CASE Broken
  BY <1>5 DEF Broken, Ended
<1>6. CASE Tool \/ Popup \/ Task \/ Read \/ Stop \/ Die \/ UNCHANGED vars
  BY <1>1, <1>6 DEF Tool, Popup, Task, Launch, BuildFails, Eof, Done, Read, Stop, Die, vars
<1> QED
  BY <1>1, <1>2, <1>3, <1>4, <1>5, <1>6 DEF Next

\* Whatever lines come and whatever the user clicks, a page that says EXPOSED shows
\* its modal unless the user has dismissed it for this breach.
THEOREM BreachStaysLoud == Spec => []BreachIsLoud
<1>1. PageInv => BreachIsLoud
  BY DEF PageInv
<1> QED
  BY <1>1, PageInit, PageStep, PTL DEF Spec

-----------------------------------------------------------------------------
(* What words make of the pill.  The facts are about sequences of every    *)
(* length, so they are proved by looking at a shortest counterexample.     *)

\* A set of numbers that is not empty has a least one.
LEMMA LeastNat ==
  ASSUME NEW S \in SUBSET Nat, S # {}
  PROVE  \E m \in S : \A k \in S : m <= k
<1>1. PICK m \in S : \A k \in S : ~(<<k, m>> \in OpToRel(<, Nat))
  BY WFMin, NatLessThanWellFounded
<1>2. ASSUME NEW k \in S, k < m PROVE FALSE
  <2>1. <<k, m>> \in OpToRel(<, Nat)
    BY <1>2, Zenon DEF OpToRel
  <2> QED
    BY <1>1, <2>1
<1> QED
  BY <1>2

StatusWords == {"alert", "safe"}

\* F says what the pill is after each of the first n words.
Folds(before, w, n, F) ==
    F = [i \in 0..n |-> IF i = 0 THEN before ELSE Says(F[i - 1], w[i])]

LEMMA FoldExists ==
  ASSUME NEW before, NEW w, NEW n \in Nat
  PROVE  \E F : Folds(before, w, n, F)
<1> DEFINE S == {k \in Nat : ~ \E F : Folds(before, w, k, F)}
<1>1. ASSUME S # {} PROVE FALSE
  <2>1. PICK m \in S : \A k \in S : m <= k
    <3> HIDE DEF S
    <3>1. S \in SUBSET Nat
      BY DEF S
    <3> QED
      BY <1>1, <3>1, LeastNat
  <2>2. m # 0
    <3>1. PICK F : F = [i \in 0..0 |-> before]
      OBVIOUS
    <3>2. Folds(before, w, 0, F)
      BY <3>1 DEF Folds
    <3> QED
      BY <3>2
  <2>3. m \in Nat /\ m - 1 \in Nat /\ m - 1 \notin S
    BY <2>1, <2>2
  <2>4. PICK F : Folds(before, w, m - 1, F)
    BY <2>3
  <2>5. PICK G : G = [i \in 0..m |-> IF i = m THEN Says(F[m - 1], w[m]) ELSE F[i]]
    OBVIOUS
  <2>6. ASSUME NEW i \in 0..m
        PROVE  G[i] = IF i = 0 THEN before ELSE Says(G[i - 1], w[i])
    <3>1. CASE i = m
      BY <2>2, <2>3, <2>5, <3>1
    <3>2. CASE i # m
      <4>1. i \in 0..(m - 1) /\ G[i] = F[i] /\ (i # 0 => i - 1 \in 0..m /\ i - 1 # m)
        BY <2>3, <2>5, <3>2
      <4>2. F[i] = IF i = 0 THEN before ELSE Says(F[i - 1], w[i])
        BY <2>4, <4>1 DEF Folds
      <4>3. i # 0 => G[i - 1] = F[i - 1]
        BY <2>5, <4>1
      <4> QED
        BY <4>1, <4>2, <4>3
    <3> QED
      BY <3>1, <3>2
  <2>7. Folds(before, w, m, G)
    BY <2>5, <2>6 DEF Folds
  <2> QED
    BY <2>1, <2>7
<1> QED
  BY <1>1

LEMMA SaysIsFold ==
  ASSUME NEW before, NEW w, Len(w) \in Nat
  PROVE  \E F : Folds(before, w, Len(w), F) /\ SaysAfter(before, w) = F[Len(w)]
<1>1. \E F : F = [i \in 0..Len(w) |-> IF i = 0 THEN before ELSE Says(F[i - 1], w[i])]
  <2>1. PICK F : Folds(before, w, Len(w), F)
    BY FoldExists
  <2> QED
    BY <2>1 DEF Folds
<1>2. \E F : /\ F = [i \in 0..Len(w) |-> IF i = 0 THEN before ELSE Says(F[i - 1], w[i])]
             /\ SaysAfter(before, w) = F[Len(w)]
  BY <1>1 DEF SaysAfter
<1> QED
  BY <1>2 DEF Folds

\* G says what the pill is after each word of v: going on from the middle of v with the
\* words that follow there.
Continues(w, v, k, b, G) ==
    /\ Len(w) \in Nat /\ Len(v) \in Nat /\ k \in Nat /\ k + Len(w) <= Len(v)
    /\ \A i \in 1..Len(w) : w[i] = v[k + i]
    /\ Folds(b, v, Len(v), G)

LEMMA SaysFrom ==
  ASSUME NEW w, NEW v, NEW k, NEW b, NEW G, Continues(w, v, k, b, G)
  PROVE  SaysAfter(G[k], w) = G[k + Len(w)]
<1>1. /\ Len(w) \in Nat /\ Len(v) \in Nat /\ k \in Nat /\ k + Len(w) <= Len(v)
      /\ \A i \in 1..Len(w) : w[i] = v[k + i]
      /\ \A i \in 0..Len(v) : G[i] = IF i = 0 THEN b ELSE Says(G[i - 1], v[i])
  BY DEF Continues, Folds
<1>2. PICK F : Folds(G[k], w, Len(w), F) /\ SaysAfter(G[k], w) = F[Len(w)]
  BY <1>1, SaysIsFold
<1> DEFINE S == {i \in 0..Len(w) : F[i] # G[k + i]}
<1>3. ASSUME S # {} PROVE FALSE
  <2>1. PICK i \in S : \A j \in S : i <= j
    <3> HIDE DEF S
    <3>1. S \in SUBSET Nat
      BY <1>1 DEF S
    <3> QED
      BY <1>3, <3>1, LeastNat
  <2>2. i \in 0..Len(w) /\ k + i \in 0..Len(v) /\ i \in Nat
    BY <1>1, <2>1
  <2>3. /\ F[i] = IF i = 0 THEN G[k] ELSE Says(F[i - 1], w[i])
        /\ k + i # 0 => G[k + i] = Says(G[k + i - 1], v[k + i])
    <3>1. F[i] = IF i = 0 THEN G[k] ELSE Says(F[i - 1], w[i])
      BY <1>2, <2>2 DEF Folds
    <3>2. k + i # 0 => G[k + i] = Says(G[k + i - 1], v[k + i])
      BY <1>1, <2>2
    <3> QED
      BY <3>1, <3>2
  <2>4. i # 0
    <3>1. i = 0 => k + i = k
      BY <1>1
    <3> QED
      BY <2>1, <2>3, <3>1
  <2>5. i - 1 \in 0..Len(w) /\ i \in 1..Len(w) /\ i - 1 \notin S /\ k + i # 0 /\ k + i - 1 = k + (i - 1)
    BY <1>1, <2>1, <2>2, <2>4
  <2>6. F[i - 1] = G[k + i - 1] /\ w[i] = v[k + i]
    BY <1>1, <2>5
  <2> QED
    BY <2>1, <2>3, <2>4, <2>5, <2>6
<1>4. Len(w) \in 0..Len(w)
  BY <1>1
<1> QED
  BY <1>2, <1>3, <1>4

LEMMA SaysEmpty == \A before : SaysAfter(before, <<>>) = before
<1> SUFFICES ASSUME NEW before PROVE SaysAfter(before, <<>>) = before
  OBVIOUS
<1>1. Len(<<>>) = 0
  OBVIOUS
<1>2. PICK F : Folds(before, <<>>, 0, F) /\ SaysAfter(before, <<>>) = F[0]
  BY <1>1, SaysIsFold
<1> QED
  BY <1>2 DEF Folds

LEMMA SaysConcat ==
  ASSUME NEW T, NEW w \in Seq(T), NEW v \in Seq(T), NEW before
  PROVE  SaysAfter(before, w \o v) = SaysAfter(SaysAfter(before, w), v)
<1>1. PICK u : u = w \o v
  OBVIOUS
<1>2. /\ Len(w) \in Nat /\ Len(v) \in Nat /\ Len(u) \in Nat /\ Len(u) = Len(w) + Len(v)
      /\ \A i \in 1..Len(w) : w[i] = u[i]
      /\ \A i \in 1..Len(v) : v[i] = u[Len(w) + i]
  BY <1>1
<1>3. PICK G : Folds(before, u, Len(u), G) /\ SaysAfter(before, u) = G[Len(u)]
  BY <1>2, SaysIsFold
<1>4. SaysAfter(before, w) = G[Len(w)]
  <2>1. Continues(w, u, 0, before, G) /\ G[0] = before
    BY <1>2, <1>3 DEF Continues, Folds
  <2>2. SaysAfter(G[0], w) = G[0 + Len(w)]
    BY <2>1, SaysFrom
  <2> QED
    BY <1>2, <2>1, <2>2
<1>5. SaysAfter(G[Len(w)], v) = G[Len(w) + Len(v)]
  <2>1. Continues(v, u, Len(w), before, G)
    BY <1>2, <1>3 DEF Continues
  <2> QED
    BY <2>1, SaysFrom
<1> QED
  BY <1>1, <1>2, <1>3, <1>4, <1>5

\* One word more at the end, or one less at the beginning.
LEMMA SaysAppend ==
  ASSUME NEW T, NEW w \in Seq(T), NEW x \in T, NEW before
  PROVE  SaysAfter(before, Append(w, x)) = Says(SaysAfter(before, w), x)
<1>1. PICK u : u = Append(w, x)
  OBVIOUS
<1>2. /\ Len(w) \in Nat /\ Len(u) \in Nat /\ Len(u) = Len(w) + 1 /\ u[Len(w) + 1] = x
      /\ \A i \in 1..Len(w) : w[i] = u[i]
  BY <1>1
<1>3. PICK G : Folds(before, u, Len(u), G) /\ SaysAfter(before, u) = G[Len(u)]
  BY <1>2, SaysIsFold
<1>4. G[0] = before /\ G[Len(w) + 1] = Says(G[Len(w)], x)
  BY <1>2, <1>3 DEF Folds
<1>5. SaysAfter(before, w) = G[Len(w)]
  <2>1. Continues(w, u, 0, before, G)
    BY <1>2, <1>3 DEF Continues
  <2>2. SaysAfter(G[0], w) = G[0 + Len(w)]
    BY <2>1, SaysFrom
  <2> QED
    BY <1>2, <1>4, <2>2
<1> QED
  BY <1>1, <1>2, <1>3, <1>4, <1>5

LEMMA SaysTail ==
  ASSUME NEW T, NEW w \in Seq(T), Len(w) # 0, NEW before
  PROVE  SaysAfter(before, w) = SaysAfter(Says(before, w[1]), Tail(w))
<1>1. PICK u : u = Tail(w)
  OBVIOUS
<1>2. /\ Len(w) \in Nat /\ Len(u) \in Nat /\ Len(w) = 1 + Len(u)
      /\ \A i \in 1..Len(u) : u[i] = w[1 + i]
  BY <1>1
<1>3. PICK G : Folds(before, w, Len(w), G) /\ SaysAfter(before, w) = G[Len(w)]
  BY <1>2, SaysIsFold
<1>4. G[1] = Says(before, w[1])
  <2>1. 0 \in 0..Len(w) /\ 1 \in 0..Len(w) /\ 1 - 1 = 0 /\ 1 # 0
    BY <1>2
  <2> QED
    BY <1>3, <2>1 DEF Folds
<1>5. SaysAfter(G[1], u) = G[1 + Len(u)]
  <2>1. Continues(u, w, 1, before, G)
    BY <1>2, <1>3 DEF Continues
  <2> QED
    BY <2>1, SaysFrom
<1> QED
  BY <1>1, <1>2, <1>3, <1>4, <1>5

\* Of words that have no status but the first, only the first matters.
LEMMA SaysFirst ==
  ASSUME NEW T, NEW w \in Seq(T), Len(w) # 0, NEW before,
         \A j \in 2..Len(w) : w[j] \notin StatusWords
  PROVE  SaysAfter(before, w) = Says(before, w[1])
<1>1. Len(w) \in Nat
  OBVIOUS
<1>2. PICK F : Folds(before, w, Len(w), F) /\ SaysAfter(before, w) = F[Len(w)]
  BY <1>1, SaysIsFold
<1>3. \A i \in 0..Len(w) : F[i] = IF i = 0 THEN before ELSE Says(F[i - 1], w[i])
  BY <1>2 DEF Folds
<1>4. F[1] = Says(before, w[1])
  <2>1. 0 \in 0..Len(w) /\ 1 \in 0..Len(w) /\ 1 - 1 = 0 /\ 1 # 0
    BY <1>1
  <2> QED
    BY <1>3, <2>1
<1> DEFINE S == {i \in 1..Len(w) : F[i] # F[1]}
<1>5. ASSUME S # {} PROVE FALSE
  <2>1. PICK i \in S : \A j \in S : i <= j
    <3> HIDE DEF S
    <3>1. S \in SUBSET Nat
      BY DEF S
    <3> QED
      BY <1>5, <3>1, LeastNat
  <2>2. i \in 2..Len(w) /\ i \in 0..Len(w) /\ i # 0 /\ i - 1 \in 1..Len(w) /\ i - 1 \notin S
    BY <1>1, <2>1
  <2>3. F[i - 1] = F[1] /\ F[i] = Says(F[i - 1], w[i]) /\ w[i] \notin StatusWords
    BY <1>3, <2>2
  <2> QED
    BY <2>1, <2>3 DEF Says, StatusWords
<1>6. Len(w) \in 1..Len(w)
  BY <1>1
<1> QED
  BY <1>2, <1>4, <1>5, <1>6

\* Two pills that are told the same: they agree, unless there was no status.
LEMMA SaysEither ==
  ASSUME NEW w, Len(w) \in Nat, NEW p, NEW q
  PROVE  \/ SaysAfter(p, w) = SaysAfter(q, w)
         \/ SaysAfter(p, w) = p /\ SaysAfter(q, w) = q
<1>1. PICK F : Folds(p, w, Len(w), F) /\ SaysAfter(p, w) = F[Len(w)]
  BY SaysIsFold
<1>2. PICK G : Folds(q, w, Len(w), G) /\ SaysAfter(q, w) = G[Len(w)]
  BY SaysIsFold
<1>3. \A i \in 0..Len(w) : /\ F[i] = IF i = 0 THEN p ELSE Says(F[i - 1], w[i])
                           /\ G[i] = IF i = 0 THEN q ELSE Says(G[i - 1], w[i])
  BY <1>1, <1>2 DEF Folds
<1> DEFINE S == {i \in 0..Len(w) : ~(F[i] = G[i] \/ (F[i] = p /\ G[i] = q))}
<1>4. ASSUME S # {} PROVE FALSE
  <2>1. PICK i \in S : \A j \in S : i <= j
    <3> HIDE DEF S
    <3>1. S \in SUBSET Nat
      BY DEF S
    <3> QED
      BY <1>4, <3>1, LeastNat
  <2>2. i \in 0..Len(w) /\ i # 0 /\ i - 1 \in 0..Len(w) /\ i - 1 \notin S
    <3>1. i \in 0..Len(w) /\ i # 0
      BY <1>3, <2>1
    <3> QED
      BY <2>1, <3>1
  <2>3. /\ F[i - 1] = G[i - 1] \/ (F[i - 1] = p /\ G[i - 1] = q)
        /\ F[i] = Says(F[i - 1], w[i]) /\ G[i] = Says(G[i - 1], w[i])
    BY <1>3, <2>2
  <2> QED
    BY <2>1, <2>3 DEF Says
<1>5. Len(w) \in 0..Len(w)
  OBVIOUS
<1> QED
  BY <1>1, <1>2, <1>4, <1>5

-----------------------------------------------------------------------------
(* stream_chunks' loop.                                                    *)

Chars == Words \cup {Break}

\* S says what the loop has made of the first n tokens of the pipe.
Splits(n, S) ==
    S = [i \in 0..n |-> IF i = 0 THEN [line |-> current, done |-> <<>>]
                        ELSE Feed(S[i - 1], pipe[i])]

LEMMA SplitExists ==
  ASSUME NEW n \in Nat
  PROVE  \E S : Splits(n, S)
<1> DEFINE N == {k \in Nat : ~ \E S : Splits(k, S)}
<1>1. ASSUME N # {} PROVE FALSE
  <2>1. PICK m \in N : \A k \in N : m <= k
    <3> HIDE DEF N
    <3>1. N \in SUBSET Nat
      BY DEF N
    <3> QED
      BY <1>1, <3>1, LeastNat
  <2>2. m # 0
    <3>1. PICK S : S = [i \in 0..0 |-> [line |-> current, done |-> <<>>]]
      OBVIOUS
    <3>2. Splits(0, S)
      BY <3>1 DEF Splits
    <3> QED
      BY <3>2
  <2>3. m \in Nat /\ m - 1 \in Nat /\ m - 1 \notin N
    BY <2>1, <2>2
  <2>4. PICK S : Splits(m - 1, S)
    BY <2>3
  <2>5. PICK R : R = [i \in 0..m |-> IF i = m THEN Feed(S[m - 1], pipe[m]) ELSE S[i]]
    OBVIOUS
  <2>6. ASSUME NEW i \in 0..m
        PROVE  R[i] = IF i = 0 THEN [line |-> current, done |-> <<>>] ELSE Feed(R[i - 1], pipe[i])
    <3>1. CASE i = m
      BY <2>2, <2>3, <2>5, <3>1
    <3>2. CASE i # m
      <4>1. i \in 0..(m - 1) /\ R[i] = S[i] /\ (i # 0 => i - 1 \in 0..m /\ i - 1 # m)
        BY <2>3, <2>5, <3>2
      <4>2. S[i] = IF i = 0 THEN [line |-> current, done |-> <<>>] ELSE Feed(S[i - 1], pipe[i])
        BY <2>4, <4>1 DEF Splits
      <4>3. i # 0 => R[i - 1] = S[i - 1]
        BY <2>5, <4>1
      <4> QED
        BY <4>1, <4>2, <4>3
    <3> QED
      BY <3>1, <3>2
  <2>7. Splits(m, R)
    BY <2>5, <2>6 DEF Splits
  <2> QED
    BY <2>1, <2>7
<1> QED
  BY <1>1

LEMMA ReadSplits ==
  ASSUME NEW n \in Nat, ReadChunk(n)
  PROVE  \E S : /\ Splits(n, S)
                /\ pipe' = SubSeq(pipe, n + 1, Len(pipe))
                /\ current' = S[n].line
                /\ lane' = Sent(S[n].done)
<1>1. \E S : S = [i \in 0..n |-> IF i = 0 THEN [line |-> current, done |-> <<>>]
                                 ELSE Feed(S[i - 1], pipe[i])]
  <2>1. PICK S : Splits(n, S)
    BY SplitExists
  <2> QED
    BY <2>1 DEF Splits
<1>2. \E S : /\ S = [i \in 0..n |-> IF i = 0 THEN [line |-> current, done |-> <<>>]
                                    ELSE Feed(S[i - 1], pipe[i])]
             /\ pipe' = SubSeq(pipe, n + 1, Len(pipe))
             /\ current' = S[n].line
             /\ lane' = Sent(S[n].done)
  BY <1>1 DEF ReadChunk
<1> QED
  BY <1>2 DEF Splits

\* What the loop keeps, and what one token makes of it.
States == [line : Seq(Words), done : Seq(Seq(Words))]

LEMMA FeedToken ==
  ASSUME NEW state \in States, NEW token \in Chars
  PROVE  /\ Feed(state, token) \in States
         /\ token # Break =>
               /\ Feed(state, token).line = Append(state.line, token)
               /\ Feed(state, token).done = state.done
         /\ token = Break => Feed(state, token).line = <<>>
         /\ token = Break /\ state.line = <<>> => Feed(state, token).done = state.done
         /\ token = Break /\ state.line # <<>> =>
               Feed(state, token).done = Append(state.done, state.line)
<1>1. state.line \in Seq(Words) /\ state.done \in Seq(Seq(Words))
  BY DEF States
<1>2. CASE token # Break
  <2>1. token \in Words
    BY <1>2 DEF Chars
  <2>2. Feed(state, token) = [line |-> Append(state.line, token), done |-> state.done]
    BY <1>2 DEF Feed, States
  <2> QED
    BY <1>1, <1>2, <2>1, <2>2 DEF States
<1>3. CASE token = Break /\ state.line = <<>>
  BY <1>3 DEF Feed
<1>4. CASE token = Break /\ state.line # <<>>
  <2>1. Feed(state, token) = [line |-> <<>>, done |-> Append(state.done, state.line)]
    BY <1>4 DEF Feed
  <2> QED
    BY <1>1, <1>4, <2>1 DEF States
<1> QED
  BY <1>2, <1>3, <1>4

\* The lines that may be on their way, and what the page looks at of each.
LaneLines == Seq(Words) \cup {StoppedLine, DoneLine}
Heads(lines) == [k \in 1..Len(lines) |-> Head(lines[k])]
HeadWords == {Head(line) : line \in LaneLines}

LEMMA HeadsOf ==
  ASSUME NEW lines \in Seq(LaneLines)
  PROVE  Heads(lines) \in Seq(HeadWords) /\ Len(Heads(lines)) = Len(lines)
  BY DEF Heads, HeadWords

LEMMA HeadsAppend ==
  ASSUME NEW lines \in Seq(LaneLines), NEW line \in LaneLines
  PROVE  Heads(Append(lines, line)) = Append(Heads(lines), Head(line))
  BY HeadsOf DEF Heads

LEMMA HeadsTail ==
  ASSUME NEW lines \in Seq(LaneLines), Len(lines) # 0
  PROVE  Heads(Tail(lines)) = Tail(Heads(lines)) /\ Heads(lines)[1] = Head(lines[1])
  BY HeadsOf DEF Heads

\* A status word begins its line: that of a line on its way counts when it is handled.
StatusFirst ==
    /\ \A j \in 2..Len(current) : current[j] \notin StatusWords
    /\ \A j \in 1..Len(pipe) : pipe[j] \in StatusWords =>
          IF j = 1 THEN current = <<>> ELSE pipe[j - 1] = Break

\* The types of what is on its way.
MailTypes ==
    /\ pipe \in Seq(Chars) /\ current \in Seq(Words) /\ lane \in Seq(LaneLines)

\* With the first i tokens split, the pill will have said what it says after them.
SplitSoFar(S, P, i) ==
    /\ S[i] \in States
    /\ \A j \in 2..Len(S[i].line) : S[i].line[j] \notin StatusWords
    /\ i > 0 /\ pipe[i] = Break => S[i].line = <<>>
    /\ i = 0 => S[i].line = current
    /\ SaysAfter(SaysAfter(pill, Heads(lane \o S[i].done)), S[i].line) = P[i]

LEMMA SplitMore ==
  ASSUME MailTypes, StatusFirst, NEW n \in 1..Len(pipe), NEW S, Splits(n, S),
         NEW P, Folds(SaysAfter(SaysAfter(pill, Heads(lane)), current), pipe, Len(pipe), P),
         NEW i \in 1..n, SplitSoFar(S, P, i - 1)
  PROVE  SplitSoFar(S, P, i)
<1>1. /\ i \in 1..Len(pipe) /\ i \in 0..n /\ i # 0 /\ i - 1 \in Nat /\ i \in 0..Len(pipe)
      /\ Len(pipe) \in Nat
  BY DEF MailTypes
<1>2. S[i] = Feed(S[i - 1], pipe[i]) /\ P[i] = Says(P[i - 1], pipe[i])
  BY <1>1 DEF Splits, Folds
<1>3. PICK st \in States : st = S[i - 1]
  BY DEF SplitSoFar
<1>4. PICK token \in Chars : token = pipe[i]
  BY <1>1 DEF MailTypes
<1>5. PICK new \in States : new = Feed(st, token)
  BY FeedToken
<1>6. S[i] = new /\ P[i] = Says(P[i - 1], token)
  BY <1>2, <1>3, <1>4, <1>5
<1>7. /\ token # Break => new.line = Append(st.line, token) /\ new.done = st.done
      /\ token = Break => new.line = <<>>
      /\ token = Break /\ st.line = <<>> => new.done = st.done
      /\ token = Break /\ st.line # <<>> => new.done = Append(st.done, st.line)
  BY <1>5, FeedToken
<1>8. /\ st.line \in Seq(Words) /\ st.done \in Seq(Seq(Words))
      /\ Break \notin StatusWords
  BY DEF States, Break, StatusWords
<1>9. /\ \A j \in 2..Len(st.line) : st.line[j] \notin StatusWords
      /\ i - 1 > 0 /\ pipe[i - 1] = Break => st.line = <<>>
      /\ i - 1 = 0 => st.line = current
      /\ SaysAfter(SaysAfter(pill, Heads(lane \o st.done)), st.line) = P[i - 1]
  BY <1>3 DEF SplitSoFar
<1>10. PICK q : q = SaysAfter(pill, Heads(lane \o st.done))
  OBVIOUS
<1>11. CASE token # Break
  <2>1. token \in Words
    BY <1>11 DEF Chars
  <2>2. token \in StatusWords => st.line = <<>>
    BY <1>1, <1>4, <1>9 DEF StatusFirst
  <2>3. \A j \in 2..Len(new.line) : new.line[j] \notin StatusWords
    <3>1. /\ Len(st.line) \in Nat /\ Len(new.line) = Len(st.line) + 1 /\ new.line[Len(st.line) + 1] = token
          /\ \A j \in 1..Len(st.line) : new.line[j] = st.line[j]
      <4>1. PICK l, r : l \in Seq(Words) /\ l = st.line /\ r = Append(l, token)
        BY <1>8
      <4>2. /\ Len(l) \in Nat /\ Len(r) = Len(l) + 1 /\ r[Len(l) + 1] = token
            /\ \A j \in 1..Len(l) : r[j] = l[j]
        BY <2>1, <4>1
      <4> QED
        BY <1>7, <1>11, <4>1, <4>2
    <3>2. token \in StatusWords => Len(st.line) = 0
      BY <2>2
    <3> QED
      BY <1>9, <3>1, <3>2
  <2>4. SaysAfter(q, new.line) = Says(SaysAfter(q, st.line), token)
    BY <1>7, <1>8, <1>11, <2>1, SaysAppend
  <2>5. q = SaysAfter(pill, Heads(lane \o new.done))
    BY <1>7, <1>10, <1>11
  <2> QED
    BY <1>1, <1>4, <1>6, <1>9, <1>10, <1>11, <2>3, <2>4, <2>5 DEF SplitSoFar
<1>12. CASE token = Break
  <2>1. new.line = <<>> /\ Len(<<>>) = 0 /\ P[i] = P[i - 1]
    BY <1>6, <1>7, <1>8, <1>12 DEF Says, StatusWords
  <2>2. SaysAfter(pill, Heads(lane \o new.done)) = P[i]
    <3>1. CASE st.line = <<>>
      <4>1. SaysAfter(q, st.line) = q
        BY <3>1, SaysEmpty
      <4> QED
        BY <1>7, <1>9, <1>10, <1>12, <2>1, <3>1, <4>1
    <3>2. CASE st.line # <<>>
      <4>1. PICK l \in Seq(LaneLines) : l = lane \o st.done
        <5>1. PICK l : l = lane \o st.done
          OBVIOUS
        <5>2. st.done \in Seq(LaneLines)
          BY <1>8 DEF LaneLines
        <5>3. l \in Seq(LaneLines)
          BY <5>1, <5>2 DEF MailTypes
        <5> QED
          BY <5>1, <5>3
      <4>2. lane \o new.done = Append(l, st.line) /\ st.line \in LaneLines
        <5>1. st.done \in Seq(LaneLines) /\ st.line \in LaneLines /\ lane \in Seq(LaneLines)
          BY <1>8 DEF LaneLines, MailTypes
        <5>2. lane \o Append(st.done, st.line) = Append(lane \o st.done, st.line)
          BY <5>1
        <5> QED
          BY <1>7, <1>12, <3>2, <4>1, <5>1, <5>2
      <4>3. Heads(lane \o new.done) = Append(Heads(l), Head(st.line))
        BY <4>2, HeadsAppend
      <4>4. SaysAfter(pill, Append(Heads(l), Head(st.line))) = Says(SaysAfter(pill, Heads(l)), Head(st.line))
        <5>1. Heads(l) \in Seq(HeadWords) /\ Head(st.line) \in HeadWords
          BY <4>2, HeadsOf DEF HeadWords
        <5> QED
          BY <5>1, SaysAppend
      <4>5. SaysAfter(q, st.line) = Says(q, Head(st.line))
        <5>1. Len(st.line) # 0 /\ Head(st.line) = st.line[1]
          BY <1>8, <3>2
        <5> QED
          BY <1>8, <1>9, <5>1, SaysFirst
      <4> QED
        BY <1>9, <1>10, <2>1, <4>1, <4>3, <4>4, <4>5
    <3> QED
      BY <3>1, <3>2
  <2>3. SaysAfter(P[i], new.line) = P[i]
    BY <2>1, SaysEmpty
  <2> QED
    BY <1>1, <1>6, <2>1, <2>2, <2>3 DEF SplitSoFar
<1> QED
  BY <1>11, <1>12

LEMMA SplitAll ==
  ASSUME MailTypes, StatusFirst, NEW n \in 1..Len(pipe), NEW S, Splits(n, S),
         NEW P, Folds(SaysAfter(SaysAfter(pill, Heads(lane)), current), pipe, Len(pipe), P)
  PROVE  SplitSoFar(S, P, n)
<1>1. n \in Nat /\ Len(pipe) \in Nat
  BY DEF MailTypes
<1>2. SplitSoFar(S, P, 0)
  <2>1. S[0] = [line |-> current, done |-> <<>>] /\ P[0] = SaysAfter(SaysAfter(pill, Heads(lane)), current)
    BY <1>1 DEF Splits, Folds
  <2>2. S[0].line = current /\ S[0].done = <<>> /\ S[0] \in States
    BY <2>1 DEF States, MailTypes
  <2>3. lane \o S[0].done = lane
    BY <2>2 DEF MailTypes
  <2> QED
    BY <2>1, <2>2, <2>3 DEF SplitSoFar, StatusFirst
<1> DEFINE N == {i \in 0..n : ~SplitSoFar(S, P, i)}
<1>3. ASSUME N # {} PROVE FALSE
  <2>1. PICK i \in N : \A j \in N : i <= j
    <3> HIDE DEF N
    <3>1. N \in SUBSET Nat
      BY DEF N
    <3> QED
      BY <1>3, <3>1, LeastNat
  <2>2. i \in 1..n /\ i - 1 \in 0..n /\ i - 1 \notin N
    BY <1>1, <1>2, <2>1
  <2>3. SplitSoFar(S, P, i - 1)
    BY <2>2
  <2>4. SplitSoFar(S, P, i)
    BY <2>2, <2>3, SplitMore
  <2> QED
    BY <2>1, <2>4
<1>4. n \in 0..n
  BY <1>1
<1> QED
  BY <1>3, <1>4

-----------------------------------------------------------------------------
(* What happens to what is on its way.                                     *)

\* Whatever comes next begins a line.
AtBreak == IF pipe = <<>> THEN current = <<>> ELSE pipe[Len(pipe)] = Break

\* PillToBe by the names used here.
LEMMA PillIs == PillToBe = SaysAfter(SaysAfter(SaysAfter(pill, Heads(lane)), current), pipe)
  BY DEF PillToBe, Heads

\* The tool writes words of which at most the first is a status, and that one begins a line.
LEMMA PrintStep ==
  ASSUME MailTypes, StatusFirst, NEW w \in Seq(Chars), Len(w) # 0, Println(w), pill' = pill,
         \A j \in 2..Len(w) : w[j] \notin StatusWords, w[1] \in StatusWords => AtBreak
  PROVE  /\ MailTypes' /\ Len(pipe') <= PipeCap /\ StatusFirst'
         /\ PillToBe' = Says(PillToBe, w[1])
         /\ w[Len(w)] = Break => AtBreak'
<1>1. PICK p \in Seq(Chars) : p = pipe
  BY DEF MailTypes
<1>2. PICK u : u = p \o w
  OBVIOUS
<1>3. /\ u \in Seq(Chars) /\ Len(p) \in Nat /\ Len(w) \in Nat /\ Len(u) = Len(p) + Len(w)
      /\ \A i \in 1..Len(p) : u[i] = p[i]
      /\ \A i \in 1..Len(w) : u[Len(p) + i] = w[i]
  BY <1>1, <1>2
<1>4. pipe' = u /\ current' = current /\ lane' = lane /\ Len(p) + Len(w) <= PipeCap
  BY <1>1, <1>2 DEF Println
<1>5. Len(pipe') <= PipeCap
  BY <1>3, <1>4, LinesAssumption
<1>6. ASSUME NEW j \in 1..Len(u), u[j] \in StatusWords
      PROVE  IF j = 1 THEN current = <<>> ELSE u[j - 1] = Break
  <2>1. CASE j \in 1..Len(p)
    <3>1. p[j] \in StatusWords /\ (j # 1 => j - 1 \in 1..Len(p))
      BY <1>3, <1>6, <2>1
    <3> QED
      BY <1>1, <1>3, <2>1, <3>1 DEF StatusFirst
  <2>2. CASE j \notin 1..Len(p)
    <3>1. PICK i \in 1..Len(w) : j = Len(p) + i
      <4>1. j - Len(p) \in 1..Len(w) /\ j = Len(p) + (j - Len(p))
        BY <1>3, <2>2
      <4> QED
        BY <4>1
    <3>2. w[i] \in StatusWords
      BY <1>3, <1>6, <3>1
    <3>3. i = 1
      BY <1>3, <3>2
    <3>4. j = Len(p) + 1 /\ AtBreak
      BY <3>1, <3>2, <3>3
    <3>5. CASE Len(p) = 0
      <4>1. p = <<>> /\ j = 1
        BY <1>3, <3>4, <3>5
      <4> QED
        BY <1>1, <3>4, <4>1 DEF AtBreak
    <3>6. CASE Len(p) # 0
      <4>1. p # <<>> /\ j # 1 /\ j - 1 = Len(p) /\ Len(p) \in 1..Len(p)
        BY <1>3, <3>4, <3>6
      <4>2. p[Len(p)] = Break
        BY <1>1, <3>4, <4>1 DEF AtBreak
      <4> QED
        BY <1>3, <4>1, <4>2
    <3> QED
      BY <3>5, <3>6
  <2> QED
    BY <2>1, <2>2
<1>7. StatusFirst'
  BY <1>4, <1>6 DEF StatusFirst
<1>8. PillToBe' = Says(PillToBe, w[1])
  <2>1. PICK q : q = SaysAfter(SaysAfter(pill, Heads(lane)), current)
    OBVIOUS
  <2>2. PillToBe' = SaysAfter(q, u)
    BY <1>4, <2>1 DEF PillToBe, Heads
  <2>3. SaysAfter(q, u) = SaysAfter(SaysAfter(q, p), w)
    BY <1>2, SaysConcat
  <2>4. SaysAfter(SaysAfter(q, p), w) = Says(SaysAfter(q, p), w[1])
    BY SaysFirst
  <2> QED
    BY <1>1, <2>1, <2>2, <2>3, <2>4, PillIs
<1>9. ASSUME w[Len(w)] = Break PROVE AtBreak'
  <2>1. Len(w) \in 1..Len(w) /\ u[Len(u)] = w[Len(w)] /\ u # <<>>
    BY <1>3
  <2> QED
    BY <1>4, <1>9, <2>1 DEF AtBreak
<1> QED
  BY <1>3, <1>4, <1>5, <1>7, <1>8, <1>9 DEF MailTypes

\* What the tool writes.
LEMMA Joined ==
  ASSUME NEW T, NEW a \in Seq(T), NEW b \in Seq(T)
  PROVE  /\ a \o b \in Seq(T) /\ Len(a) \in Nat /\ Len(b) \in Nat /\ Len(a \o b) = Len(a) + Len(b)
         /\ \A i \in 1..Len(a) : (a \o b)[i] = a[i]
         /\ \A i \in 1..Len(b) : (a \o b)[Len(a) + i] = b[i]
  OBVIOUS

LEMMA LineTokens ==
  ASSUME NEW a \in Words, NEW b \in Words, NEW w, w = <<a, b>> \o <<Break>>
  PROVE  w \in Seq(Chars) /\ Len(w) = 3 /\ w[1] = a /\ w[2] = b /\ w[3] = Break
<1>1. PICK u, v : u = <<a, b>> /\ v = <<Break>>
  OBVIOUS
<1>2. /\ u \in Seq(Chars) /\ Len(u) = 2 /\ u[1] = a /\ u[2] = b
      /\ v \in Seq(Chars) /\ Len(v) = 1 /\ v[1] = Break
  BY <1>1 DEF Chars
<1> QED
  BY <1>1, <1>2

LEMMA BannerTokens ==
  ASSUME NEW w, w = Banner
  PROVE  /\ w \in Seq(Chars) /\ Len(w) = 5
         /\ w[1] = Break /\ w[2] = "text" /\ w[3] = "more" /\ w[4] = Break /\ w[5] = Break
<1>1. PICK u, x, v : u = <<Break>> /\ x = TextLine /\ v = <<Break, Break>>
  OBVIOUS
<1>2. u \in Seq(Chars) /\ x \in Seq(Chars) /\ v \in Seq(Chars)
  BY <1>1 DEF Chars, Words, TextLine
<1>3. /\ Len(u) = 1 /\ u[1] = Break
      /\ Len(x) = 2 /\ x[1] = "text" /\ x[2] = "more"
      /\ Len(v) = 2 /\ v[1] = Break /\ v[2] = Break
  BY <1>1 DEF TextLine
<1>4. PICK y : y = u \o x
  OBVIOUS
<1>5. /\ y \in Seq(Chars) /\ Len(y) = Len(u) + Len(x)
      /\ \A i \in 1..Len(u) : y[i] = u[i]
      /\ \A i \in 1..Len(x) : y[Len(u) + i] = x[i]
  BY <1>2, <1>4, Joined
<1>6. /\ w \in Seq(Chars) /\ Len(w) = Len(y) + Len(v)
      /\ \A i \in 1..Len(y) : w[i] = y[i]
      /\ \A i \in 1..Len(v) : w[Len(y) + i] = v[i]
  <2>1. w = y \o v
    BY <1>1, <1>4 DEF Banner
  <2>2. y \in Seq(Chars) /\ v \in Seq(Chars)
    BY <1>2, <1>5
  <2> QED
    BY <2>1, <2>2, Joined
<1>7. Len(y) = 3 /\ y[1] = Break /\ y[2] = "text" /\ y[3] = "more"
  BY <1>3, <1>5
<1>8. Len(w) = 5 /\ w[4] = Break /\ w[5] = Break
  BY <1>3, <1>6, <1>7
<1>9. w[1] = Break /\ w[2] = "text" /\ w[3] = "more"
  BY <1>6, <1>7
<1> QED
  BY <1>6, <1>8, <1>9

LEMMA PieceTokens ==
  /\ \E v \in Seq(Chars) : v = <<Head(TextLine)>> /\ Len(v) = 1 /\ v[1] = "text"
  /\ \E w \in Seq(Chars) : /\ w = Tail(TextLine) \o <<Break>>
                           /\ Len(w) = 2 /\ w[1] = "more" /\ w[2] = Break
<1>1. PICK v : v = <<"text">>
  OBVIOUS
<1>2. v \in Seq(Chars) /\ v = <<Head(TextLine)>> /\ Len(v) = 1 /\ v[1] = "text"
  BY <1>1 DEF TextLine, Chars, Words
<1>3. PICK x : x = <<"more">>
  OBVIOUS
<1>4. PICK y : y = <<Break>>
  OBVIOUS
<1>5. x \in Seq(Chars) /\ y \in Seq(Chars)
  BY <1>3, <1>4 DEF Chars, Words
<1>6. Tail(TextLine) = x
  BY <1>3 DEF TextLine
<1>7. PICK w : w = x \o y
  OBVIOUS
<1>8. /\ w \in Seq(Chars) /\ Len(w) = Len(x) + Len(y)
      /\ \A i \in 1..Len(x) : w[i] = x[i]
      /\ \A i \in 1..Len(y) : w[Len(x) + i] = y[i]
  BY <1>5, <1>7, Joined
<1>9. Len(x) = 1 /\ x[1] = "more" /\ Len(y) = 1 /\ y[1] = Break
  BY <1>3, <1>4
<1>10. Len(w) = 2 /\ w[1] = "more" /\ w[2] = Break
  BY <1>8, <1>9
<1>11. w = Tail(TextLine) \o <<Break>>
  BY <1>4, <1>6, <1>7
<1> QED
  BY <1>2, <1>8, <1>10, <1>11

\* stream_chunks reads on: what the pill will say, as long as the page listens, is the same.
LEMMA ReadStep ==
  ASSUME MailTypes, Len(pipe) <= PipeCap, StatusFirst, NEW n \in 1..Len(pipe), ReadChunk(n),
         pill' = pill
  PROVE  /\ MailTypes' /\ Len(pipe') <= PipeCap /\ StatusFirst'
         /\ open => PillToBe' = PillToBe
         /\ AtBreak => AtBreak'
<1>1. n \in Nat /\ Len(pipe) \in Nat /\ n <= Len(pipe)
  BY DEF MailTypes
<1>2. PICK S : /\ Splits(n, S)
               /\ pipe' = SubSeq(pipe, n + 1, Len(pipe))
               /\ current' = S[n].line
               /\ lane' = Sent(S[n].done)
  BY <1>1, ReadSplits
<1>3. PICK q : q = SaysAfter(SaysAfter(pill, Heads(lane)), current)
  OBVIOUS
<1>4. PICK P : Folds(q, pipe, Len(pipe), P) /\ SaysAfter(q, pipe) = P[Len(pipe)]
  BY <1>1, SaysIsFold
<1>5. SplitSoFar(S, P, n)
  BY <1>2, <1>3, <1>4, SplitAll
<1>6. S[n].line \in Seq(Words) /\ S[n].done \in Seq(Seq(Words))
  BY <1>5 DEF SplitSoFar, States
<1>7. PICK p \in Seq(Chars) : p = pipe
  BY DEF MailTypes
<1>8. PICK r : r = SubSeq(p, n + 1, Len(p))
  OBVIOUS
<1>9. /\ r \in Seq(Chars) /\ Len(r) = Len(p) - n /\ Len(r) \in Nat
      /\ \A i \in 1..Len(r) : r[i] = p[n + i]
      /\ pipe' = r
  <2>1. \A i \in (n + 1)..Len(p) : p[i] \in Chars
    BY <1>1, <1>7
  <2> QED
    BY <1>1, <1>2, <1>7, <1>8, <2>1
<1>10. lane' \in Seq(LaneLines)
  <2>1. S[n].done \in Seq(LaneLines) /\ lane \in Seq(LaneLines)
    BY <1>6 DEF LaneLines, MailTypes
  <2> QED
    BY <1>2, <2>1 DEF Sent
<1>11. StatusFirst'
  <2>1. \A j \in 2..Len(current') : current'[j] \notin StatusWords
    BY <1>2, <1>5 DEF SplitSoFar
  <2>2. ASSUME NEW j \in 1..Len(r), r[j] \in StatusWords
        PROVE  IF j = 1 THEN current' = <<>> ELSE r[j - 1] = Break
    <3>1. p[n + j] \in StatusWords /\ n + j \in 1..Len(p) /\ n + j # 1
      BY <1>1, <1>7, <1>9, <2>2
    <3>2. p[n + j - 1] = Break
      BY <1>7, <3>1 DEF StatusFirst
    <3>3. CASE j = 1
      <4>1. p[n] = Break
        BY <1>1, <3>2, <3>3
      <4> QED
        BY <1>1, <1>2, <1>5, <1>7, <3>3, <4>1 DEF SplitSoFar
    <3>4. CASE j # 1
      <4>1. j - 1 \in 1..Len(r) /\ n + (j - 1) = n + j - 1
        BY <1>1, <1>9, <3>4
      <4> QED
        BY <1>9, <3>2, <3>4, <4>1
    <3> QED
      BY <3>3, <3>4
  <2> QED
    BY <1>9, <2>1, <2>2 DEF StatusFirst
<1>12. ASSUME open PROVE PillToBe' = PillToBe
  <2>1. lane' = lane \o S[n].done
    BY <1>2, <1>12 DEF Sent
  <2>2. SaysAfter(SaysAfter(pill, Heads(lane')), current') = P[n]
    BY <1>2, <1>5, <2>1 DEF SplitSoFar
  <2>3. PillToBe' = SaysAfter(P[n], r)
    BY <1>9, <2>2 DEF PillToBe, Heads
  <2>4. SaysAfter(P[n], r) = P[n + Len(r)]
    <3>1. Continues(r, p, n, q, P)
      BY <1>1, <1>4, <1>7, <1>9 DEF Continues
    <3> QED
      BY <3>1, SaysFrom
  <2>5. n + Len(r) = Len(pipe)
    BY <1>1, <1>7, <1>9
  <2> QED
    BY <1>3, <1>4, <2>3, <2>4, <2>5, PillIs
<1>13. ASSUME AtBreak PROVE AtBreak'
  <2>1. p # <<>> /\ p[Len(p)] = Break
    BY <1>1, <1>7, <1>13 DEF AtBreak
  <2>2. CASE n = Len(p)
    <3>1. r = <<>> /\ S[n].line = <<>>
      BY <1>1, <1>5, <1>7, <1>9, <2>1, <2>2 DEF SplitSoFar
    <3> QED
      BY <1>2, <1>9, <3>1 DEF AtBreak
  <2>3. CASE n # Len(p)
    <3>1. r # <<>> /\ Len(r) \in 1..Len(r) /\ n + Len(r) = Len(p)
      BY <1>1, <1>7, <1>9, <2>3
    <3>2. r[Len(r)] = Break
      BY <1>9, <2>1, <3>1
    <3> QED
      BY <1>9, <3>1, <3>2 DEF AtBreak
  <2> QED
    BY <2>2, <2>3
<1>14. Len(pipe') <= PipeCap
  BY <1>1, <1>7, <1>9, LinesAssumption
<1> QED
  BY <1>2, <1>6, <1>9, <1>10, <1>11, <1>12, <1>13, <1>14 DEF MailTypes

\* The page handles the next line: what the pill will say is the same.
LEMMA DeliverKeepsPill ==
  ASSUME MailTypes, Deliver, open'
  PROVE  PillToBe' = PillToBe
<1>1. /\ lane # <<>> /\ lane' = Tail(lane) /\ pipe' = pipe /\ current' = current
      /\ HandleLine(Head(lane))
  BY DEF Deliver, Ended
<1>2. PICK l \in Seq(LaneLines) : l = lane
  BY DEF MailTypes
<1>3. Len(l) # 0 /\ Head(l) = l[1] /\ Tail(l) \in Seq(LaneLines)
  BY <1>1, <1>2
<1>4. pill' = Says(pill, Head(l[1]))
  BY <1>1, <1>2, <1>3 DEF HandleLine, OnExposed, OnSafe, viewVars, Says
<1>5. Heads(Tail(l)) = Tail(Heads(l)) /\ Heads(l)[1] = Head(l[1])
  BY <1>3, HeadsTail
<1>6. SaysAfter(pill, Heads(l)) = SaysAfter(Says(pill, Heads(l)[1]), Tail(Heads(l)))
  <2>1. Heads(l) \in Seq(HeadWords) /\ Len(Heads(l)) # 0
    BY <1>3, HeadsOf
  <2> QED
    BY <2>1, SaysTail
<1>7. SaysAfter(pill', Heads(lane')) = SaysAfter(pill, Heads(lane))
  BY <1>1, <1>2, <1>4, <1>5, <1>6
<1>8. PillToBe' = SaysAfter(SaysAfter(SaysAfter(pill', Heads(lane')), current), pipe)
  BY <1>1 DEF PillToBe, Heads
<1> QED
  BY <1>7, <1>8, PillIs

\* The user clears the page: its pill is idle until the next status arrives.
LEMMA ClearStep ==
  ASSUME MailTypes, Clear
  PROVE  PillToBe' \in {PillToBe, "idle"}
<1>1. pill' = "idle" /\ pipe' = pipe /\ current' = current /\ lane' = lane
  BY DEF Clear, ResetView, lineVars
<1>2. PICK h : h = Heads(lane)
  OBVIOUS
<1>3. Len(h) \in Nat /\ Len(current) \in Nat /\ Len(pipe) \in Nat
  BY <1>2, HeadsOf DEF MailTypes
<1>4. /\ PillToBe' = SaysAfter(SaysAfter(SaysAfter("idle", h), current), pipe)
      /\ PillToBe = SaysAfter(SaysAfter(SaysAfter(pill, h), current), pipe)
  BY <1>1, <1>2, PillIs DEF PillToBe, Heads
<1>5. SaysAfter("idle", h) \in {SaysAfter(pill, h), "idle"}
  BY <1>3, SaysEither
<1>6. SaysAfter(SaysAfter("idle", h), current) \in {SaysAfter(SaysAfter(pill, h), current), "idle"}
  <2>1. PICK a, b : a = SaysAfter("idle", h) /\ b = SaysAfter(pill, h)
    OBVIOUS
  <2>2. SaysAfter(a, current) = SaysAfter(b, current) \/ SaysAfter(a, current) = a
    BY <1>3, SaysEither
  <2> QED
    BY <1>5, <2>1, <2>2
<1>7. PICK a, b : /\ a = SaysAfter(SaysAfter("idle", h), current)
                  /\ b = SaysAfter(SaysAfter(pill, h), current)
  OBVIOUS
<1>8. SaysAfter(a, pipe) = SaysAfter(b, pipe) \/ SaysAfter(a, pipe) = a
  BY <1>3, SaysEither
<1> QED
  BY <1>4, <1>6, <1>7, <1>8

-----------------------------------------------------------------------------
(* The inductive invariant of what is on its way.                          *)

\* Where the tool is in its loop, and what that says of its state and of its lines.
PhaseInv ==
    /\ run # "up" => cpc = "off"
    /\ cpc \in {"popup", "nag"} => exposed
    /\ cpc \in {"off", "greet", "greeting"} => ~exposed
    /\ run = "build" => lane = <<>>
    /\ run = "build" \/ cpc = "greet" => pipe = <<>> /\ current = <<>>
    /\ run = "up" /\ cpc # "greeting" => AtBreak

\* The page's pill will say what the tool's state is, except between the banner of a breach
\* and its first line, or that it does not know.
PillInv ==
    /\ open /\ run = "build" => pill \in {"idle", "starting"}
    /\ open /\ run = "up" /\ cpc \notin {"popup", "nag"} => PillToBe \in {Status, "idle", "starting"}

MailInv ==
    /\ MailTypes /\ Len(pipe) <= PipeCap
    /\ StatusFirst /\ PhaseInv /\ PillInv

\* The types of the rest.
SmallTypes ==
    /\ run \in {"none", "build", "up", "drain", "drained", "over"}
    /\ cpc \in {"off", "greet", "greeting", "sweep", "popup", "nag", "sleep"}
    /\ exposed \in BOOLEAN /\ sinceBeat \in 0..Heartbeat
    /\ open \in BOOLEAN /\ mirror \in BOOLEAN /\ modal \in BOOLEAN /\ acked \in BOOLEAN
    /\ pill \in {"idle", "starting", "safe", "exposed"}

Inv == SmallTypes /\ PopupInv /\ MailInv

LEMMA InvInit == Init => Inv
<1> SUFFICES ASSUME Init PROVE Inv
  OBVIOUS
<1>0. Heartbeat \in 0..Heartbeat
  BY CanaryAssumption
<1>1. SmallTypes
  BY <1>0 DEF Init, InitCanary, InitPage, SmallTypes
<1>2. MailTypes /\ Len(pipe) <= PipeCap
  BY LinesAssumption DEF Init, InitLines, MailTypes
<1>3. StatusFirst /\ PhaseInv /\ PillInv
  BY DEF Init, InitCanary, InitLines, InitPage, StatusFirst, PhaseInv, PillInv
<1> QED
  BY <1>1, <1>2, <1>3, PopupInit DEF Inv, MailInv

\* Each step keeps the small types.
LEMMA SmallStep == SmallTypes /\ [Next]_vars => SmallTypes'
<1> SUFFICES ASSUME SmallTypes, [Next]_vars PROVE SmallTypes'
  OBVIOUS
<1>0. Heartbeat \in Nat /\ Heartbeat \in 0..Heartbeat /\ 0 \in 0..Heartbeat
  BY CanaryAssumption
<1> USE DEF SmallTypes
<1>1. CASE Tool
  <2>1. CASE Greet \/ Raise \/ Nag \/ Sleep
    BY <1>0, <1>1, <2>1 DEF Tool, Greet, Raise, Nag, Sleep, Goto, pageVars, viewVars
  <2>2. ASSUME NEW answers \in SUBSET Targets,
               Breach(answers) \/ StillExposed(answers) \/ Regain(answers)
                   \/ Beat(answers) \/ Quiet(answers)
        PROVE  SmallTypes'
    <3>1. cpc' \in {"popup", "nag", "sleep"} /\ sinceBeat' \in {0, sinceBeat}
      BY <2>2 DEF Breach, StillExposed, Regain, Beat, Quiet, Goto
    <3>2. exposed' \in BOOLEAN
      BY <2>2 DEF Breach, StillExposed, Regain, Beat, Quiet
    <3> QED
      BY <1>0, <1>1, <3>1, <3>2 DEF Tool, pageVars, viewVars
  <2> QED
    BY <1>1, <2>1, <2>2 DEF Tool, Loop
<1>2. CASE Popup
  BY <1>2 DEF Popup, DismissBox, LowerFlag, pageVars, viewVars
<1>3. CASE Task
  <2>1. /\ run' \in {"up", "over", "drain", "drained"} /\ UNCHANGED pageVars
        /\ \/ cpc' = "greet" /\ exposed' = FALSE /\ sinceBeat' = Heartbeat
           \/ UNCHANGED canaryVars
    BY <1>3 DEF Task, Launch, BuildFails, Eof, Done, ResetCanary
  <2> QED
    BY <1>0, <2>1 DEF canaryVars, pageVars, viewVars
<1>4. CASE Read
  BY <1>4 DEF Read, canaryVars, pageVars, viewVars
<1>5. CASE Browser
  <2>1. run' = run /\ UNCHANGED canaryVars /\ Deliver
    BY <1>5 DEF Browser
  <2>2. CASE Ended
    BY <2>1, <2>2 DEF Ended, canaryVars
  <2>3. CASE OnExposed /\ UNCHANGED open
    BY <2>1, <2>3 DEF OnExposed, canaryVars
  <2>4. CASE OnSafe /\ UNCHANGED open
    BY <2>1, <2>4 DEF OnSafe, canaryVars
  <2>5. CASE UNCHANGED viewVars /\ UNCHANGED open
    BY <2>1, <2>5 DEF viewVars, canaryVars
  <2> QED
    BY <2>1, <2>2, <2>3, <2>4, <2>5 DEF Deliver, HandleLine
<1>6. CASE User
  BY <1>6 DEF User, Clear, Dismiss, ResetView, canaryVars
<1>7. CASE Start
  <2>1. cpc' = "off" /\ exposed' = FALSE /\ sinceBeat' = Heartbeat /\ run' = "build"
    BY <1>7 DEF Start, ResetCanary
  <2>2. /\ pill' = "starting" /\ open' = TRUE
        /\ mirror' = FALSE /\ modal' = FALSE /\ acked' = FALSE
    BY <1>7 DEF Start, Submit, ResetView
  <2> QED
    BY <1>0, <2>1, <2>2
<1>8. CASE Stop \/ Die
  <2>1. /\ run' \in {"over", "drain"} /\ UNCHANGED pageVars
        /\ \/ cpc' = "off" /\ exposed' = FALSE /\ sinceBeat' = Heartbeat
           \/ UNCHANGED canaryVars
    BY <1>8 DEF Stop, Die, ResetCanary
  <2> QED
    BY <1>0, <2>1 DEF canaryVars, pageVars, viewVars
<1>9. CASE Broken /\ UNCHANGED <<run, canaryVars>>
  BY <1>9 DEF Broken, Ended, canaryVars
<1>10. CASE UNCHANGED vars
  BY <1>10 DEF vars, canaryVars, pageVars, viewVars
<1> QED
  BY <1>1, <1>2, <1>3, <1>4, <1>5, <1>6, <1>7, <1>8, <1>9, <1>10 DEF Next

\* What does not touch the lines or the pill.
LEMMA MailUntouched ==
  ASSUME MailTypes, Len(pipe) <= PipeCap, StatusFirst,
         pipe' = pipe, current' = current, lane' = lane, pill' = pill
  PROVE  /\ MailTypes' /\ Len(pipe') <= PipeCap /\ StatusFirst'
         /\ PillToBe' = PillToBe /\ (AtBreak => AtBreak')
  BY DEF MailTypes, StatusFirst, PillToBe, Heads, AtBreak

\* The tool's own steps.
LEMMA ToolMail ==
  ASSUME SmallTypes, MailInv, Tool
  PROVE  MailInv'
<1>1. /\ run' = run /\ pill' = pill /\ open' = open
      /\ MailTypes /\ Len(pipe) <= PipeCap /\ StatusFirst /\ PhaseInv /\ PillInv
  BY DEF Tool, pageVars, viewVars, MailInv
<1>2. ASSUME cpc # "off" PROVE run = "up"
  BY <1>1, <1>2 DEF PhaseInv
<1>3. /\ "text" \in Words /\ "more" \in Words /\ "alert" \in Words /\ "safe" \in Words
      /\ "text" \notin StatusWords /\ "more" \notin StatusWords /\ Break \notin StatusWords
      /\ \A p : Says(p, "text") = p /\ Says(p, "more") = p /\ Says(p, Break) = p
      /\ \A p : Says(p, "alert") = "exposed" /\ Says(p, "safe") = "safe"
  BY DEF Words, StatusWords, Break, Says
<1>4. ASSUME NEW b \in Words, b \notin StatusWords, NEW a \in Words, NEW w, w = <<a, b>> \o <<Break>>,
             Println(w), a \in StatusWords => AtBreak
      PROVE  /\ MailTypes' /\ Len(pipe') <= PipeCap /\ StatusFirst'
             /\ PillToBe' = Says(PillToBe, a) /\ AtBreak'
  <2>1. w \in Seq(Chars) /\ Len(w) = 3 /\ w[1] = a /\ w[2] = b /\ w[3] = Break
    BY <1>4, LineTokens
  <2>2. \A j \in 2..Len(w) : w[j] \notin StatusWords
    BY <1>3, <1>4, <2>1
  <2>3. Len(w) # 0 /\ w[Len(w)] = Break
    BY <2>1
  <2> QED
    BY <1>1, <1>4, <2>1, <2>2, <2>3, PrintStep
<1>5. CASE Greet
  <2>1. exposed' = exposed /\ ~exposed /\ run = "up"
    BY <1>1, <1>2, <1>5 DEF Greet, PhaseInv
  <2>2. PillToBe \in {Status, "idle", "starting"} \/ ~open
    BY <1>1, <1>5, <2>1 DEF PillInv, Greet
  <2>3. CASE cpc = "greet" /\ Println(TextLine \o <<Break>>) /\ cpc' = "sweep"
    <3>1. PICK w : w = TextLine \o <<Break>>
      OBVIOUS
    <3>2. /\ MailTypes' /\ Len(pipe') <= PipeCap /\ StatusFirst'
          /\ PillToBe' = PillToBe /\ AtBreak'
      BY <1>3, <1>4, <2>3, <3>1 DEF TextLine
    <3> QED
      BY <1>1, <2>1, <2>2, <2>3, <3>2 DEF MailInv, PhaseInv, PillInv, Status
  <2>4. CASE cpc = "greet" /\ Println(<<Head(TextLine)>>) /\ cpc' = "greeting"
    <3>1. PICK v \in Seq(Chars) : v = <<Head(TextLine)>> /\ Len(v) = 1 /\ v[1] = "text"
      BY PieceTokens
    <3>2. Println(v)
      BY <2>4, <3>1
    <3>3. Len(v) # 0 /\ v[1] \notin StatusWords
      BY <1>3, <3>1
    <3>4. \A j \in 2..Len(v) : v[j] \notin StatusWords
      BY <3>1
    <3>5. MailTypes' /\ Len(pipe') <= PipeCap /\ StatusFirst' /\ PillToBe' = Says(PillToBe, v[1])
      BY <1>1, <3>2, <3>3, <3>4, PrintStep
    <3>6. PillToBe' = PillToBe
      BY <1>3, <3>1, <3>5
    <3> QED
      BY <1>1, <2>1, <2>2, <2>4, <3>5, <3>6 DEF MailInv, PhaseInv, PillInv, Status
  <2>5. CASE cpc = "greeting" /\ Println(Tail(TextLine) \o <<Break>>) /\ cpc' = "sweep"
    <3>1. PICK w \in Seq(Chars) : /\ w = Tail(TextLine) \o <<Break>>
                                  /\ Len(w) = 2 /\ w[1] = "more" /\ w[2] = Break
      BY PieceTokens
    <3>2. Println(w)
      BY <2>5, <3>1
    <3>3. Len(w) # 0 /\ w[1] \notin StatusWords /\ w[Len(w)] = Break
      BY <1>3, <3>1
    <3>4. \A j \in 2..Len(w) : w[j] \notin StatusWords
      <4>1. SUFFICES ASSUME NEW j \in 2..Len(w) PROVE w[j] \notin StatusWords
        OBVIOUS
      <4>2. Len(w) = 2
        BY <3>1
      <4>3. j = 2
        BY <4>2
      <4> QED
        BY <1>3, <3>1, <4>3
    <3>5. /\ MailTypes' /\ Len(pipe') <= PipeCap /\ StatusFirst'
          /\ PillToBe' = Says(PillToBe, w[1]) /\ AtBreak'
      BY <1>1, <3>2, <3>3, <3>4, PrintStep
    <3>6. PillToBe' = PillToBe
      BY <1>3, <3>1, <3>5
    <3> QED
      BY <1>1, <2>1, <2>2, <2>5, <3>5, <3>6 DEF MailInv, PhaseInv, PillInv, Status
  <2> QED
    BY <1>5, <2>3, <2>4, <2>5 DEF Greet
<1>6. CASE Raise \/ Sleep
  <2>1. /\ run = "up" /\ UNCHANGED lineVars /\ exposed' = exposed
        /\ \/ cpc = "popup" /\ cpc' = "nag"
           \/ cpc = "sleep" /\ cpc' = "sweep"
    BY <1>2, <1>6 DEF Raise, Sleep, Goto
  <2>2. /\ MailTypes' /\ Len(pipe') <= PipeCap /\ StatusFirst'
        /\ PillToBe' = PillToBe /\ (AtBreak => AtBreak')
    BY <1>1, <2>1, MailUntouched DEF lineVars
  <2> QED
    BY <1>1, <2>1, <2>2 DEF MailInv, PhaseInv, PillInv, Status
<1>7. CASE Nag
  <2>1. /\ run = "up" /\ cpc = "nag" /\ cpc' = "sleep" /\ exposed' = exposed /\ exposed /\ AtBreak
    BY <1>1, <1>2, <1>7 DEF Nag, Goto, PhaseInv
  <2>2. PICK w : w = AlertLine \o <<Break>>
    OBVIOUS
  <2>3. /\ MailTypes' /\ Len(pipe') <= PipeCap /\ StatusFirst'
        /\ PillToBe' = "exposed" /\ AtBreak'
    BY <1>3, <1>4, <1>7, <2>1, <2>2 DEF AlertLine, Nag
  <2> QED
    BY <1>1, <2>1, <2>3 DEF MailInv, PhaseInv, PillInv, Status
<1>8. ASSUME NEW answers \in SUBSET Targets, Breach(answers)
      PROVE  MailInv'
  <2>1. run = "up" /\ cpc = "sweep" /\ cpc' = "popup" /\ exposed' /\ AtBreak
    BY <1>1, <1>2, <1>8 DEF Breach, Goto, PhaseInv
  <2>2. PICK w : w = Banner
    OBVIOUS
  <2>3. /\ w \in Seq(Chars) /\ Len(w) = 5
        /\ w[1] = Break /\ w[2] = "text" /\ w[3] = "more" /\ w[4] = Break /\ w[5] = Break
    BY <2>2, BannerTokens
  <2>4. Len(w) # 0 /\ w[Len(w)] = Break /\ \A j \in 2..Len(w) : w[j] \notin StatusWords
    BY <1>3, <2>3
  <2>5. Println(w)
    BY <1>8, <2>2 DEF Breach
  <2>6. MailTypes' /\ Len(pipe') <= PipeCap /\ StatusFirst' /\ AtBreak'
    BY <1>1, <2>1, <2>3, <2>4, <2>5, PrintStep
  <2> QED
    BY <1>1, <2>1, <2>6 DEF MailInv, PhaseInv, PillInv
<1>9. ASSUME NEW answers \in SUBSET Targets, StillExposed(answers) \/ Quiet(answers)
      PROVE  MailInv'
  <2>1. /\ run = "up" /\ UNCHANGED lineVars /\ exposed' = exposed /\ cpc = "sweep"
        /\ \/ exposed /\ cpc' = "nag"
           \/ ~exposed /\ cpc' = "sleep"
    BY <1>2, <1>9 DEF StillExposed, Quiet, Goto
  <2>2. /\ MailTypes' /\ Len(pipe') <= PipeCap /\ StatusFirst'
        /\ PillToBe' = PillToBe /\ (AtBreak => AtBreak')
    BY <1>1, <2>1, MailUntouched DEF lineVars
  <2> QED
    BY <1>1, <2>1, <2>2 DEF MailInv, PhaseInv, PillInv, Status
<1>10. ASSUME NEW answers \in SUBSET Targets, Regain(answers) \/ Beat(answers)
       PROVE  MailInv'
  <2>1. run = "up" /\ cpc = "sweep" /\ cpc' = "sleep" /\ ~exposed' /\ AtBreak
    BY <1>1, <1>2, <1>10 DEF Regain, Beat, Goto, PhaseInv
  <2>2. PICK w : w = SafeLine \o <<Break>>
    OBVIOUS
  <2>3. /\ MailTypes' /\ Len(pipe') <= PipeCap /\ StatusFirst'
        /\ PillToBe' = "safe" /\ AtBreak'
    BY <1>3, <1>4, <1>10, <2>1, <2>2 DEF SafeLine, Regain, Beat
  <2> QED
    BY <1>1, <2>1, <2>3 DEF MailInv, PhaseInv, PillInv, Status
<1> QED
  BY <1>5, <1>6, <1>7, <1>8, <1>9, <1>10 DEF Tool, Loop

\* The tasks of the dashboard, the browser, the user and whoever kills processes.
LEMMA OtherMail ==
  ASSUME SmallTypes, MailInv, [Next]_vars, ~Tool
  PROVE  MailInv'
<1>1. MailTypes /\ Len(pipe) <= PipeCap /\ StatusFirst /\ PhaseInv /\ PillInv
  BY DEF MailInv
<1>2. CASE Popup \/ (User /\ Dismiss) \/ UNCHANGED vars
  <2>1. /\ pipe' = pipe /\ current' = current /\ lane' = lane /\ pill' = pill /\ open' = open
        /\ run' = run /\ cpc' = cpc /\ exposed' = exposed
    BY <1>2 DEF Popup, DismissBox, LowerFlag, User, Dismiss, vars, canaryVars, lineVars, pageVars, viewVars
  <2>2. /\ MailTypes' /\ Len(pipe') <= PipeCap /\ StatusFirst'
        /\ PillToBe' = PillToBe /\ (AtBreak => AtBreak')
    BY <1>1, <2>1, MailUntouched
  <2> QED
    BY <1>1, <2>1, <2>2 DEF MailInv, PhaseInv, PillInv, Status
<1>3. CASE User /\ Clear
  <2>1. /\ pipe' = pipe /\ current' = current /\ lane' = lane /\ pill' = "idle" /\ open' = open
        /\ run' = run /\ cpc' = cpc /\ exposed' = exposed
    BY <1>3 DEF User, Clear, ResetView, canaryVars, lineVars
  <2>2. PillToBe' \in {PillToBe, "idle"}
    BY <1>1, <1>3, ClearStep
  <2> QED
    BY <1>1, <2>1, <2>2 DEF MailInv, MailTypes, StatusFirst, PhaseInv, PillInv, Status, AtBreak
<1>4. CASE Launch
  <2>1. /\ run = "build" /\ pipe' = pipe /\ current' = current /\ lane' = lane /\ pill' = pill /\ open' = open
        /\ pipe = <<>> /\ current = <<>> /\ lane = <<>>
        /\ \/ run' = "up" /\ cpc' = "greet" /\ ~exposed'
           \/ run' = "drain" /\ cpc' = cpc /\ exposed' = exposed
    BY <1>1, <1>4 DEF Launch, ResetCanary, canaryVars, lineVars, pageVars, viewVars, PhaseInv
  <2>2. /\ MailTypes' /\ Len(pipe') <= PipeCap /\ StatusFirst'
        /\ PillToBe' = PillToBe /\ (AtBreak => AtBreak')
    BY <1>1, <2>1, MailUntouched
  <2>3. AtBreak
    BY <2>1 DEF AtBreak
  <2>4. PillToBe = pill
    <3>1. Heads(<<>>) = <<>>
      BY DEF Heads
    <3> QED
      BY <2>1, <3>1, SaysEmpty, PillIs
  <2> QED
    BY <1>1, <2>1, <2>2, <2>3, <2>4 DEF MailInv, PhaseInv, PillInv
<1>5. ASSUME NEW lines \in Seq(LaneLines), lane' = Sent(lines), pipe' = pipe, current' = current
      PROVE  MailTypes' /\ Len(pipe') <= PipeCap /\ StatusFirst'
  BY <1>1, <1>5 DEF Sent, MailTypes, StatusFirst
<1>6. /\ <<TextLine, DoneLine>> \in Seq(LaneLines) /\ <<StoppedLine, DoneLine>> \in Seq(LaneLines)
      /\ <<StoppedLine>> \in Seq(LaneLines) /\ <<DoneLine>> \in Seq(LaneLines)
  <2>1. TextLine \in LaneLines /\ DoneLine \in LaneLines /\ StoppedLine \in LaneLines
    BY DEF LaneLines, TextLine, Words
  <2> QED
    BY <2>1
<1>7. CASE BuildFails \/ Done
  <2>1. /\ pipe' = pipe /\ current' = current /\ run' = "over" /\ cpc' = cpc /\ exposed' = exposed
        /\ lane' \in {Sent(<<TextLine, DoneLine>>), Sent(<<DoneLine>>)} /\ run # "up"
    BY <1>7 DEF BuildFails, Done, canaryVars
  <2>2. MailTypes' /\ Len(pipe') <= PipeCap /\ StatusFirst'
    BY <1>5, <1>6, <2>1
  <2>3. cpc = "off"
    BY <1>1, <1>7 DEF BuildFails, Done, PhaseInv
  <2> QED
    BY <1>1, <2>1, <2>2, <2>3 DEF MailInv, PhaseInv, PillInv
<1>8. CASE Eof
  <2>1. /\ pipe' = pipe /\ pipe = <<>> /\ current' = <<>> /\ run' = "drained" /\ cpc' = cpc /\ exposed' = exposed
        /\ lane' = lane \/ lane' = Sent(<<current>>)
    BY <1>8 DEF Eof, ReadEof, canaryVars
  <2>2. cpc = "off"
    BY <1>1, <1>8 DEF Eof, PhaseInv
  <2>3. lane' \in Seq(LaneLines)
    <3>1. current \in LaneLines /\ lane \in Seq(LaneLines)
      BY <1>1 DEF MailTypes, LaneLines
    <3> QED
      BY <2>1, <3>1 DEF Sent
  <2>4. MailTypes' /\ Len(pipe') <= PipeCap /\ StatusFirst'
    BY <1>1, <2>1, <2>3 DEF MailTypes, StatusFirst
  <2> QED
    BY <1>1, <2>1, <2>2, <2>4 DEF MailInv, PhaseInv, PillInv
<1>9. CASE Read
  <2>1. PICK n \in 1..Len(pipe) : ReadChunk(n)
    BY <1>9 DEF Read
  <2>2. pill' = pill /\ open' = open /\ run' = run /\ cpc' = cpc /\ exposed' = exposed
    BY <1>9 DEF Read, canaryVars, pageVars, viewVars
  <2>3. /\ MailTypes' /\ Len(pipe') <= PipeCap /\ StatusFirst'
        /\ open => PillToBe' = PillToBe
        /\ AtBreak => AtBreak'
    BY <1>1, <2>1, <2>2, ReadStep
  <2>4. pipe # <<>>
    BY <1>1, <2>1 DEF MailTypes
  <2> QED
    BY <1>1, <2>2, <2>3, <2>4 DEF MailInv, PhaseInv, PillInv, Status
<1>10. CASE Browser
  <2>1. /\ Deliver /\ run' = run /\ cpc' = cpc /\ exposed' = exposed
        /\ pipe' = pipe /\ current' = current /\ lane' = Tail(lane) /\ lane # <<>> /\ open
    BY <1>10 DEF Browser, Deliver, canaryVars
  <2>2. MailTypes' /\ Len(pipe') <= PipeCap /\ StatusFirst'
    BY <1>1, <2>1 DEF MailTypes, StatusFirst
  <2>3. open' => PillToBe' = PillToBe
    BY <1>1, <2>1, DeliverKeepsPill
  <2> QED
    BY <1>1, <2>1, <2>2, <2>3 DEF MailInv, PhaseInv, PillInv, Status, AtBreak
<1>11. CASE Start
  <2>1. /\ run' = "build" /\ pill' = "starting" /\ cpc' = "off" /\ ~exposed'
        /\ pipe' = <<>> /\ current' = <<>> /\ lane' = <<>>
    BY <1>11 DEF Start, Submit, ResetView, ResetLines, ResetCanary
  <2>2. MailTypes' /\ Len(pipe') <= PipeCap /\ StatusFirst'
    BY <2>1, LinesAssumption DEF MailTypes, StatusFirst
  <2> QED
    BY <2>1, <2>2 DEF MailInv, PhaseInv, PillInv
<1>12. CASE Stop
  <2>1. /\ pipe' = pipe /\ current' = current /\ run' \in {"over", "drain"}
        /\ lane' = Sent(<<StoppedLine, DoneLine>>) \/ lane' = Sent(<<StoppedLine>>)
        /\ cpc' = "off" /\ ~exposed'
    BY <1>1, <1>12 DEF Stop, ResetCanary, canaryVars, PhaseInv
  <2>2. MailTypes' /\ Len(pipe') <= PipeCap /\ StatusFirst'
    BY <1>5, <1>6, <2>1
  <2> QED
    BY <2>1, <2>2 DEF MailInv, PhaseInv, PillInv
<1>13. CASE Die
  <2>1. /\ pipe' = pipe /\ current' = current /\ lane' = lane /\ pill' = pill
        /\ run' = "drain" /\ cpc' = "off" /\ ~exposed'
    BY <1>13 DEF Die, ResetCanary, lineVars, pageVars, viewVars
  <2>2. MailTypes' /\ Len(pipe') <= PipeCap /\ StatusFirst'
    BY <1>1, <2>1, MailUntouched
  <2> QED
    BY <2>1, <2>2 DEF MailInv, PhaseInv, PillInv
<1>14. CASE Broken /\ UNCHANGED <<run, canaryVars>>
  <2>1. /\ ~open' /\ lane' = <<>> /\ pipe' = pipe /\ current' = current
        /\ run' = run /\ cpc' = cpc /\ exposed' = exposed
    BY <1>14 DEF Broken, Ended, canaryVars
  <2>2. MailTypes' /\ Len(pipe') <= PipeCap /\ StatusFirst'
    BY <1>1, <2>1 DEF MailTypes, StatusFirst
  <2> QED
    BY <1>1, <2>1, <2>2 DEF MailInv, PhaseInv, PillInv, AtBreak
<1> QED
  BY <1>2, <1>3, <1>4, <1>7, <1>8, <1>9, <1>10, <1>11, <1>12, <1>13, <1>14 DEF Next, Task, User

LEMMA InvStep == Inv /\ [Next]_vars => Inv'
  BY SmallStep, PopupStep, ToolMail, OtherMail DEF Inv

LEMMA Invariance == Spec => []Inv
  BY InvInit, InvStep, PTL DEF Spec

\* Every variable keeps its type; what the tool has written fits into the pipe.
THEOREM TypeCorrect == Spec => []TypeOK
<1>1. Inv => TypeOK
  BY DEF Inv, SmallTypes, PopupInv, MailInv, MailTypes, Chars, LaneLines, TypeOK
<1> QED
  BY <1>1, Invariance, PTL

\* However the chunks are cut and whatever the user clicks, the page's pill is never wrong
\* for longer than its mail takes.
THEOREM PillAlwaysCatchesUp == Spec => []PillCatchesUp
<1>1. Inv => PillCatchesUp
  BY DEF Inv, MailInv, PillInv, PillCatchesUp
<1> QED
  BY <1>1, Invariance, PTL

-----------------------------------------------------------------------------
(* What the lines of a sequence are, one character after the other.        *)

\* Where the last break before a position is.
LEMMA GreatestNat ==
  ASSUME NEW S \in SUBSET Nat, S # {}, NEW n \in Nat, \A k \in S : k <= n
  PROVE  \E m \in S : \A k \in S : k <= m
<1> DEFINE D == {d \in Nat : n - d \in S}
<1>1. D # {} /\ D \in SUBSET Nat
  <2>1. PICK k \in S : TRUE
    OBVIOUS
  <2>2. n - k \in Nat /\ n - (n - k) = k
    BY <2>1
  <2> QED
    BY <2>1, <2>2
<1>2. PICK d \in D : \A e \in D : d <= e
  <2> HIDE DEF D
  <2> QED
    BY <1>1, LeastNat
<1>3. ASSUME NEW k \in S PROVE k <= n - d
  <2>1. n - k \in Nat /\ n - (n - k) = k
    OBVIOUS
  <2>2. n - k \in D
    BY <2>1
  <2> QED
    BY <1>2, <2>1, <2>2
<1> QED
  BY <1>2, <1>3

\* m is that place.
LastBreak(s, j, m) ==
    /\ m \in 0..(j - 1)
    /\ m = 0 \/ s[m] = Break
    /\ \A i \in (m + 1)..(j - 1) : s[i] # Break

LEMMA BreakBeforeIs ==
  ASSUME NEW s, NEW j \in Nat \ {0}, NEW m, LastBreak(s, j, m)
  PROVE  Split!BreakBefore(s, j) = m
<1> DEFINE S == {0} \cup {i \in 1..(j - 1) : s[i] = Break}
<1>1. m \in S /\ S \in SUBSET Nat
  BY DEF LastBreak
<1>2. ASSUME NEW y \in S PROVE m >= y
  BY DEF LastBreak
<1>3. Split!BreakBefore(s, j) = CHOOSE x \in S : \A y \in S : x >= y
  BY DEF Split!BreakBefore, Split!Max
<1> HIDE DEF S
<1>4. ASSUME NEW x \in S, \A y \in S : x >= y PROVE x = m
  <2>1. x >= m /\ m >= x /\ x \in Nat /\ m \in Nat
    BY <1>1, <1>2, <1>4
  <2> QED
    BY <2>1
<1> QED
  BY <1>1, <1>2, <1>3, <1>4

LEMMA BreakBeforeWorks ==
  ASSUME NEW s, NEW j \in Nat \ {0}
  PROVE  LastBreak(s, j, Split!BreakBefore(s, j))
<1> DEFINE S == {0} \cup {i \in 1..(j - 1) : s[i] = Break}
<1>1. S \in SUBSET Nat /\ S # {} /\ \A k \in S : k <= j
  OBVIOUS
<1>2. PICK m \in S : \A k \in S : k <= m
  <2> HIDE DEF S
  <2> QED
    BY <1>1, GreatestNat
<1>3. LastBreak(s, j, m)
  <2>1. m \in 0..(j - 1)
    BY <1>2
  <2>2. m = 0 \/ s[m] = Break
    BY <1>2
  <2>3. ASSUME NEW i \in (m + 1)..(j - 1) PROVE s[i] # Break
    <3>1. i \in 1..(j - 1) /\ ~(i <= m)
      BY <2>1
    <3> QED
      BY <1>2, <3>1
  <2> QED
    BY <2>1, <2>2, <2>3 DEF LastBreak
<1> QED
  BY <1>3, BreakBeforeIs

\* It depends on what is in front of the position only.
LEMMA BreakBeforeAgrees ==
  ASSUME NEW s, NEW t, NEW j \in Nat \ {0}, \A i \in 1..(j - 1) : t[i] = s[i]
  PROVE  Split!BreakBefore(t, j) = Split!BreakBefore(s, j)
<1>1. PICK m : m = Split!BreakBefore(s, j) /\ LastBreak(s, j, m)
  BY BreakBeforeWorks
<1>2. LastBreak(t, j, m)
  <2>1. m \in 0..(j - 1) /\ (m # 0 => m \in 1..(j - 1))
    BY <1>1 DEF LastBreak
  <2>2. m = 0 \/ t[m] = Break
    BY <1>1, <2>1 DEF LastBreak
  <2>3. ASSUME NEW i \in (m + 1)..(j - 1) PROVE t[i] # Break
    <3>1. i \in 1..(j - 1)
      BY <2>1
    <3> QED
      BY <1>1, <3>1 DEF LastBreak
  <2> QED
    BY <2>1, <2>2, <2>3 DEF LastBreak
<1> QED
  BY <1>1, <1>2, BreakBeforeIs

\* Pieces of sequences, and when sequences are the same.
LEMMA Piece ==
  ASSUME NEW T, NEW s \in Seq(T), NEW a \in Nat \ {0}, NEW b \in 0..Len(s), a <= b + 1
  PROVE  /\ SubSeq(s, a, b) \in Seq(T) /\ Len(SubSeq(s, a, b)) = b - a + 1
         /\ \A i \in 1..(b - a + 1) : SubSeq(s, a, b)[i] = s[a + i - 1]
<1>1. \A i \in a..b : s[i] \in T
  OBVIOUS
<1> QED
  BY <1>1

LEMMA SameSeq ==
  ASSUME NEW T, NEW s \in Seq(T), NEW t \in Seq(T), Len(s) = Len(t),
         \A i \in 1..Len(s) : s[i] = t[i]
  PROVE  s = t
  OBVIOUS

LEMMA SamePiece ==
  ASSUME NEW T, NEW s \in Seq(T), NEW t \in Seq(T), NEW a \in Nat \ {0},
         NEW b \in 0..Len(s), b \in 0..Len(t), a <= b + 1, \A i \in 1..b : t[i] = s[i]
  PROVE  SubSeq(t, a, b) = SubSeq(s, a, b)
<1>1. PICK u : u = SubSeq(s, a, b)
  OBVIOUS
<1>2. PICK v : v = SubSeq(t, a, b)
  OBVIOUS
<1>3. PICK k : k = b - a + 1
  OBVIOUS
<1>4. u \in Seq(T) /\ Len(u) = k /\ \A i \in 1..k : u[i] = s[a + i - 1]
  BY <1>1, <1>3, Piece
<1>5. v \in Seq(T) /\ Len(v) = k /\ \A i \in 1..k : v[i] = t[a + i - 1]
  BY <1>2, <1>3, Piece
<1>6. ASSUME NEW i \in 1..k PROVE u[i] = v[i]
  <2>1. a + i - 1 \in 1..b
    BY <1>3
  <2> QED
    BY <1>4, <1>5, <2>1
<1>7. u = v
  BY <1>4, <1>5, <1>6, SameSeq
<1> QED
  BY <1>1, <1>2, <1>7

LEMMA Longer ==
  ASSUME NEW T, NEW s \in Seq(T), NEW c \in T, NEW t, t = Append(s, c)
  PROVE  /\ t \in Seq(T) /\ Len(s) \in Nat /\ Len(t) = Len(s) + 1 /\ t[Len(s) + 1] = c
         /\ \A i \in 1..Len(s) : t[i] = s[i]
  OBVIOUS

\* What is behind the last break.
LEMMA RestFacts ==
  ASSUME NEW s \in Seq(Chars)
  PROVE  \E m \in 0..Len(s) :
            /\ LastBreak(s, Len(s) + 1, m)
            /\ Split!RestOf(s) = SubSeq(s, m + 1, Len(s))
            /\ Split!RestOf(s) \in Seq(Chars) /\ Len(Split!RestOf(s)) = Len(s) - m
            /\ \A i \in 1..(Len(s) - m) : Split!RestOf(s)[i] = s[m + i]
<1>1. Len(s) \in Nat /\ Len(s) + 1 \in Nat \ {0} /\ Len(s) + 1 - 1 = Len(s)
  OBVIOUS
<1>2. PICK m : m = Split!BreakBefore(s, Len(s) + 1) /\ LastBreak(s, Len(s) + 1, m)
  BY <1>1, BreakBeforeWorks
<1>3. m \in 0..Len(s) /\ m + 1 \in Nat \ {0} /\ Len(s) \in 0..Len(s) /\ m + 1 <= Len(s) + 1
  BY <1>1, <1>2 DEF LastBreak
<1>4. Split!RestOf(s) = SubSeq(s, m + 1, Len(s))
  BY <1>2 DEF Split!RestOf
<1>5. PICK r : r = SubSeq(s, m + 1, Len(s))
  OBVIOUS
<1>6. /\ r \in Seq(Chars) /\ Len(r) = Len(s) - (m + 1) + 1
      /\ \A i \in 1..(Len(s) - (m + 1) + 1) : r[i] = s[m + 1 + i - 1]
  BY <1>3, <1>5, Piece
<1>7. Len(s) - (m + 1) + 1 = Len(s) - m /\ \A i \in Nat : m + 1 + i - 1 = m + i
  BY <1>1, <1>3
<1>8. Len(r) = Len(s) - m /\ \A i \in 1..(Len(s) - m) : r[i] = s[m + i]
  BY <1>6, <1>7
<1> QED
  BY <1>2, <1>3, <1>4, <1>5, <1>6, <1>8

LEMMA RestEmpty ==
  ASSUME NEW s \in Seq(Chars)
  PROVE  Split!RestOf(s) = <<>> <=> (s = <<>> \/ s[Len(s)] = Break)
<1>1. PICK m \in 0..Len(s) : /\ LastBreak(s, Len(s) + 1, m)
                             /\ Split!RestOf(s) \in Seq(Chars) /\ Len(Split!RestOf(s)) = Len(s) - m
  BY RestFacts
<1>2. Len(s) \in Nat /\ Len(s) + 1 - 1 = Len(s) /\ (s = <<>> <=> Len(s) = 0)
  OBVIOUS
<1>3. Split!RestOf(s) = <<>> <=> m = Len(s)
  BY <1>1, <1>2
<1>4. m # Len(s) => s[Len(s)] # Break
  BY <1>1, <1>2 DEF LastBreak
<1>5. m = Len(s) => (m = 0 \/ s[Len(s)] = Break)
  BY <1>1 DEF LastBreak
<1>6. (s = <<>> => m = Len(s)) /\ (m = 0 /\ m = Len(s) => s = <<>>)
  BY <1>1, <1>2
<1> QED
  BY <1>3, <1>4, <1>5, <1>6

LEMMA RestAppend ==
  ASSUME NEW s \in Seq(Chars), NEW c \in Chars
  PROVE  /\ c = Break => Split!RestOf(Append(s, c)) = <<>>
         /\ c # Break => Split!RestOf(Append(s, c)) = Append(Split!RestOf(s), c)
<1>1. PICK t : t = Append(s, c)
  OBVIOUS
<1>2. /\ t \in Seq(Chars) /\ Len(s) \in Nat /\ Len(t) = Len(s) + 1 /\ t[Len(s) + 1] = c
      /\ \A i \in 1..Len(s) : t[i] = s[i]
  BY <1>1, Longer
<1>3. CASE c = Break
  <2>1. t[Len(t)] = Break
    BY <1>2, <1>3
  <2> QED
    BY <1>1, <1>2, <1>3, <2>1, RestEmpty
<1>4. CASE c # Break
  <2>1. PICK m \in 0..Len(s) :
            /\ LastBreak(s, Len(s) + 1, m)
            /\ Split!RestOf(s) \in Seq(Chars) /\ Len(Split!RestOf(s)) = Len(s) - m
            /\ \A i \in 1..(Len(s) - m) : Split!RestOf(s)[i] = s[m + i]
    BY RestFacts
  <2>2. PICK k \in 0..Len(t) :
            /\ LastBreak(t, Len(t) + 1, k)
            /\ Split!RestOf(t) \in Seq(Chars) /\ Len(Split!RestOf(t)) = Len(t) - k
            /\ \A i \in 1..(Len(t) - k) : Split!RestOf(t)[i] = t[k + i]
            /\ Split!RestOf(t) = SubSeq(t, k + 1, Len(t))
    BY <1>2, RestFacts
  <2>3. k = m
    <3>1. /\ Len(s) + 1 - 1 = Len(s) /\ Len(t) + 1 - 1 = Len(s) + 1
          /\ m \in Nat /\ k \in Nat
      BY <1>2, <2>1, <2>2
    <3>2. k # Len(s) + 1
      BY <1>2, <1>4, <2>2, <3>1 DEF LastBreak
    <3>3. k \in 0..Len(s)
      BY <1>2, <2>2, <3>1, <3>2
    <3>4. ~(k < m)
      <4>1. k < m => m \in (k + 1)..(Len(t) + 1 - 1) /\ m # 0 /\ m \in 1..Len(s)
        BY <1>2, <2>1, <3>1, <3>3
      <4>2. k < m => t[m] = Break
        BY <1>2, <2>1, <4>1 DEF LastBreak
      <4> QED
        BY <2>2, <4>1, <4>2 DEF LastBreak
    <3>5. ~(m < k)
      <4>1. m < k => k \in (m + 1)..(Len(s) + 1 - 1) /\ k # 0 /\ k \in 1..Len(s)
        BY <1>2, <2>1, <3>1, <3>3
      <4>2. m < k => s[k] = Break
        BY <1>2, <2>2, <4>1 DEF LastBreak
      <4> QED
        BY <2>1, <4>1, <4>2 DEF LastBreak
    <3> QED
      BY <3>1, <3>4, <3>5
  <2>4. PICK r, q : r = Split!RestOf(s) /\ q = Append(r, c)
    OBVIOUS
  <2>5. /\ q \in Seq(Chars) /\ Len(r) \in Nat /\ Len(q) = Len(r) + 1 /\ q[Len(r) + 1] = c
        /\ \A i \in 1..Len(r) : q[i] = r[i]
    BY <2>1, <2>4, Longer
  <2>6. PICK p : p = Split!RestOf(t)
    OBVIOUS
  <2>7. p \in Seq(Chars) /\ Len(p) = Len(q) /\ Len(q) \in Nat /\ Len(r) = Len(s) - m
    BY <1>2, <2>1, <2>2, <2>3, <2>4, <2>5, <2>6
  <2>8. ASSUME NEW i \in 1..Len(p) PROVE p[i] = q[i]
    <3>1. p[i] = t[m + i]
      BY <1>2, <2>1, <2>2, <2>3, <2>6, <2>7
    <3>2. CASE i = Len(r) + 1
      <4>1. m + i = Len(s) + 1
        BY <1>2, <2>1, <2>7, <3>2
      <4> QED
        BY <1>2, <2>5, <3>1, <3>2, <4>1
    <3>3. CASE i # Len(r) + 1
      <4>1. i \in 1..Len(r) /\ m + i \in 1..Len(s)
        BY <1>2, <2>1, <2>5, <2>7, <3>3
      <4>2. r[i] = s[m + i]
        BY <2>1, <2>4, <2>7, <4>1
      <4> QED
        BY <1>2, <2>5, <3>1, <4>1, <4>2
    <3> QED
      BY <3>2, <3>3
  <2>9. p = q
    BY <2>5, <2>7, <2>8, SameSeq
  <2> QED
    BY <1>1, <1>4, <2>4, <2>6, <2>9
<1> QED
  BY <1>3, <1>4

\* The ends of lines, numbered.
Rank(E, j) == Cardinality({i \in E : i < j})
NthEnd(E, k) == CHOOSE j \in E : Rank(E, j) = k - 1

LEMMA LinesAre ==
  ASSUME NEW s
  PROVE  Split!LinesOf(s) =
            [k \in 1..Cardinality(Split!Ends(s)) |->
                SubSeq(s, Split!BreakBefore(s, NthEnd(Split!Ends(s), k)) + 1, NthEnd(Split!Ends(s), k))]
  BY DEF Split!LinesOf, NthEnd, Rank, Split!Cardinality, Cardinality

LEMMA EndsAreFinite ==
  ASSUME NEW s \in Seq(Chars)
  PROVE  /\ IsFiniteSet(Split!Ends(s)) /\ Split!Ends(s) \in SUBSET Nat
         /\ \A j \in Split!Ends(s) : j \in 1..Len(s)
<1>1. Split!Ends(s) \in SUBSET (1..(Len(s) - 1)) /\ Len(s) \in Nat
  BY DEF Split!Ends
<1>2. 1 \in Int /\ Len(s) - 1 \in Int
  BY <1>1
<1>3. IsFiniteSet(1..(Len(s) - 1))
  BY <1>2, FS_Interval
<1>4. IsFiniteSet(Split!Ends(s))
  BY <1>1, <1>3, FS_Subset
<1> QED
  BY <1>1, <1>4

LEMMA RankGrows ==
  ASSUME NEW E \in SUBSET Nat, IsFiniteSet(E), NEW i \in E, NEW j \in E, i < j
  PROVE  Rank(E, i) < Rank(E, j)
<1> DEFINE A == {k \in E : k < i}
<1> DEFINE B == {k \in E : k < j}
<1>1. A \in SUBSET E /\ B \in SUBSET E /\ i \in B /\ i \notin A
  OBVIOUS
<1>2. A \in SUBSET B
  <2>1. \A k \in E : k < i => k < j
    OBVIOUS
  <2> QED
    BY <2>1
<1>3. Rank(E, i) = Cardinality(A) /\ Rank(E, j) = Cardinality(B)
  BY DEF Rank
<1> HIDE DEF A, B
<1>4. IsFiniteSet(B) /\ IsFiniteSet(A)
  BY <1>1, FS_Subset
<1>5. Cardinality(A) <= Cardinality(B) /\ (Cardinality(A) = Cardinality(B) => A = B)
  BY <1>2, <1>4, FS_Subset
<1>6. Cardinality(A) \in Nat /\ Cardinality(B) \in Nat
  BY <1>4, FS_CardinalityType
<1> QED
  BY <1>1, <1>3, <1>5, <1>6

LEMMA RankType ==
  ASSUME NEW E \in SUBSET Nat, IsFiniteSet(E), NEW j \in E
  PROVE  Rank(E, j) \in Nat /\ Rank(E, j) < Cardinality(E)
<1> DEFINE B == {k \in E : k < j}
<1>1. B \in SUBSET E /\ j \notin B
  OBVIOUS
<1>2. Rank(E, j) = Cardinality(B)
  BY DEF Rank
<1> HIDE DEF B
<1>3. IsFiniteSet(B) /\ Cardinality(B) <= Cardinality(E) /\ (Cardinality(B) = Cardinality(E) => B = E)
  BY <1>1, FS_Subset
<1>4. Cardinality(B) \in Nat /\ Cardinality(E) \in Nat
  BY <1>3, FS_CardinalityType
<1> QED
  BY <1>1, <1>2, <1>3, <1>4

LEMMA NthChosen ==
  ASSUME NEW E, NEW k, \E i \in E : Rank(E, i) = k - 1
  PROVE  NthEnd(E, k) \in E /\ Rank(E, NthEnd(E, k)) = k - 1
  BY DEF NthEnd

LEMMA NthIs ==
  ASSUME NEW E \in SUBSET Nat, IsFiniteSet(E), NEW j \in E
  PROVE  NthEnd(E, Rank(E, j) + 1) = j
<1>1. PICK k : k = Rank(E, j) + 1 /\ Rank(E, j) = k - 1
  BY RankType
<1>2. ASSUME NEW i \in E, Rank(E, i) = k - 1 PROVE i = j
  <2>1. Rank(E, i) = Rank(E, j) /\ Rank(E, j) \in Nat
    BY <1>1, <1>2, RankType
  <2>2. ~(i < j) /\ ~(j < i)
    BY <2>1, RankGrows
  <2>3. i \in Nat /\ j \in Nat
    OBVIOUS
  <2> QED
    BY <2>2, <2>3
<1>3. NthEnd(E, k) \in E /\ Rank(E, NthEnd(E, k)) = k - 1
  BY <1>1, NthChosen
<1> QED
  BY <1>1, <1>2, <1>3

\* As the ranks are different and less than the number of ends, every number is one.
LEMMA NthWorks ==
  ASSUME NEW E \in SUBSET Nat, IsFiniteSet(E), NEW k \in 1..Cardinality(E)
  PROVE  NthEnd(E, k) \in E /\ Rank(E, NthEnd(E, k)) = k - 1
<1>1. PICK n \in Nat : n = Cardinality(E)
  BY FS_CardinalityType
<1>2. PICK T : T = 0..(n - 1)
  OBVIOUS
<1>3. PICK f : f = [j \in E |-> Rank(E, j)]
  OBVIOUS
<1>4. f \in [E -> T]
  <2>1. \A j \in E : Rank(E, j) \in T
    BY <1>1, <1>2, RankType
  <2> QED
    BY <1>3, <2>1
<1>5. f \in Injection(E, T)
  <2>1. ASSUME NEW i \in E, NEW j \in E, f[i] = f[j] PROVE i = j
    <3>1. Rank(E, i) = Rank(E, j) /\ Rank(E, i) \in Nat
      BY <1>3, <2>1, RankType
    <3>2. ~(i < j) /\ ~(j < i)
      BY <3>1, RankGrows
    <3>3. i \in Nat /\ j \in Nat
      OBVIOUS
    <3> QED
      BY <3>2, <3>3
  <2> QED
    BY <1>4, <2>1 DEF Injection, IsInjective
<1>6. IsFiniteSet(T) /\ Cardinality(T) = n
  <2>1. 0 \in Int /\ n - 1 \in Int
    BY <1>1
  <2>2. IsFiniteSet(0..(n - 1)) /\ Cardinality(0..(n - 1)) = IF 0 > n - 1 THEN 0 ELSE n - 1 - 0 + 1
    BY <2>1, FS_Interval
  <2> QED
    BY <1>1, <1>2, <2>2
<1>7. f \in Surjection(E, T)
  BY <1>1, <1>5, <1>6, FS_Injection
<1>8. k - 1 \in T
  BY <1>1, <1>2
<1>9. PICK j \in E : f[j] = k - 1
  BY <1>7, <1>8 DEF Surjection
<1>10. Rank(E, j) = k - 1 /\ Rank(E, j) + 1 = k
  BY <1>3, <1>9
<1>11. NthEnd(E, k) = j
  BY <1>10, NthIs
<1> QED
  BY <1>10, <1>11

\* The line that ends at place j.
LineAt(s, j) == SubSeq(s, Split!BreakBefore(s, j) + 1, j)

LEMMA LineAtType ==
  ASSUME NEW s \in Seq(Chars), NEW j \in 1..Len(s)
  PROVE  LineAt(s, j) \in Seq(Chars)
<1>1. PICK m : m = Split!BreakBefore(s, j) /\ LastBreak(s, j, m)
  BY BreakBeforeWorks
<1>2. m + 1 \in Nat \ {0} /\ j \in 0..Len(s) /\ m + 1 <= j + 1
  BY <1>1 DEF LastBreak
<1>3. SubSeq(s, m + 1, j) \in Seq(Chars)
  BY <1>2, Piece
<1> QED
  BY <1>1, <1>3 DEF LineAt

LEMMA LinesFacts ==
  ASSUME NEW s \in Seq(Chars), NEW E, E = Split!Ends(s), NEW L, L = Split!LinesOf(s)
  PROVE  /\ L \in Seq(Seq(Chars)) /\ Len(L) = Cardinality(E) /\ Cardinality(E) \in Nat
         /\ \A k \in 1..Cardinality(E) : NthEnd(E, k) \in E /\ L[k] = LineAt(s, NthEnd(E, k))
<1>1. IsFiniteSet(E) /\ E \in SUBSET Nat /\ \A j \in E : j \in 1..Len(s)
  BY EndsAreFinite
<1>2. PICK n \in Nat : n = Cardinality(E)
  BY <1>1, FS_CardinalityType
<1>3. L = [k \in 1..n |-> LineAt(s, NthEnd(E, k))]
  BY <1>2, LinesAre DEF LineAt
<1>4. \A k \in 1..n : NthEnd(E, k) \in E
  BY <1>1, <1>2, NthWorks
<1>5. \A k \in 1..n : LineAt(s, NthEnd(E, k)) \in Seq(Chars)
  BY <1>1, <1>4, LineAtType
<1>6. L \in Seq(Seq(Chars)) /\ Len(L) = n
  BY <1>3, <1>5
<1> QED
  BY <1>2, <1>3, <1>4, <1>6

\* What a character more does to the ends.
LEMMA EndsAppend ==
  ASSUME NEW s \in Seq(Chars), NEW c \in Chars
  PROVE  Split!Ends(Append(s, c)) =
            IF c = Break /\ Split!RestOf(s) # <<>> THEN Split!Ends(s) \cup {Len(s)} ELSE Split!Ends(s)
<1>1. PICK t : t = Append(s, c)
  OBVIOUS
<1>2. /\ t \in Seq(Chars) /\ Len(s) \in Nat /\ Len(t) = Len(s) + 1 /\ t[Len(s) + 1] = c
      /\ \A i \in 1..Len(s) : t[i] = s[i]
  BY <1>1, Longer
<1>3. Split!Ends(t) = {j \in 1..Len(s) : t[j] # Break /\ t[j + 1] = Break}
  BY <1>2 DEF Split!Ends
<1>4. Split!Ends(s) = {j \in 1..(Len(s) - 1) : s[j] # Break /\ s[j + 1] = Break}
  BY DEF Split!Ends
<1>5. Split!RestOf(s) # <<>> <=> (Len(s) # 0 /\ s[Len(s)] # Break)
  BY <1>2, RestEmpty
<1>6. ASSUME NEW j \in 1..(Len(s) - 1)
      PROVE  j \in Split!Ends(t) <=> j \in Split!Ends(s)
  <2>1. j \in 1..Len(s) /\ j + 1 \in 1..Len(s)
    BY <1>2
  <2>2. t[j] = s[j] /\ t[j + 1] = s[j + 1]
    BY <1>2, <2>1
  <2> QED
    BY <1>3, <1>4, <2>1, <2>2
<1>7. Len(s) \in Split!Ends(t) <=> (c = Break /\ Split!RestOf(s) # <<>>)
  <2>1. CASE Len(s) = 0
    BY <1>3, <1>5, <2>1
  <2>2. CASE Len(s) # 0
    <3>1. Len(s) \in 1..Len(s)
      BY <1>2, <2>2
    <3>2. t[Len(s)] = s[Len(s)]
      BY <1>2, <3>1
    <3> QED
      BY <1>2, <1>3, <1>5, <2>2, <3>1, <3>2
  <2> QED
    BY <2>1, <2>2
<1>8. Split!Ends(t) \in SUBSET (1..Len(s)) /\ Split!Ends(s) \in SUBSET (1..(Len(s) - 1))
  BY <1>3, <1>4
<1>9. \A j \in 1..Len(s) : j = Len(s) \/ j \in 1..(Len(s) - 1)
  BY <1>2
<1>10. \A j : j \in 1..(Len(s) - 1) => j # Len(s)
  BY <1>2
<1>11. CASE c = Break /\ Split!RestOf(s) # <<>>
  BY <1>1, <1>6, <1>7, <1>8, <1>9, <1>11
<1>12. CASE ~(c = Break /\ Split!RestOf(s) # <<>>)
  <2>1. Len(s) \notin Split!Ends(t)
    BY <1>7, <1>12
  <2>2. Split!Ends(t) \in SUBSET (1..(Len(s) - 1))
    BY <1>8, <1>9, <2>1
  <2>3. Split!Ends(t) = Split!Ends(s)
    BY <1>6, <1>8, <2>2
  <2> QED
    BY <1>1, <1>12, <2>3
<1> QED
  BY <1>11, <1>12

\* What it does to the lines: the body of stream_chunks' loop.
LEMMA LinesAppend ==
  ASSUME NEW s \in Seq(Chars), NEW c \in Chars
  PROVE  Split!LinesOf(Append(s, c)) =
            IF c = Break /\ Split!RestOf(s) # <<>> THEN Append(Split!LinesOf(s), Split!RestOf(s))
            ELSE Split!LinesOf(s)
<1>1. PICK t : t = Append(s, c)
  OBVIOUS
<1>2. /\ t \in Seq(Chars) /\ Len(s) \in Nat /\ Len(t) = Len(s) + 1
      /\ \A i \in 1..Len(s) : t[i] = s[i]
  BY <1>1, Longer
<1>3. PICK E : E = Split!Ends(s)
  OBVIOUS
<1>4. PICK F : F = Split!Ends(t)
  OBVIOUS
<1>5. PICK L : L = Split!LinesOf(s)
  OBVIOUS
<1>6. PICK M : M = Split!LinesOf(t)
  OBVIOUS
<1>7. /\ IsFiniteSet(E) /\ E \in SUBSET Nat /\ \A j \in E : j \in 1..Len(s)
      /\ IsFiniteSet(F) /\ F \in SUBSET Nat /\ \A j \in F : j \in 1..Len(t)
  BY <1>2, <1>3, <1>4, EndsAreFinite
<1>8. /\ L \in Seq(Seq(Chars)) /\ Len(L) = Cardinality(E) /\ Cardinality(E) \in Nat
      /\ \A k \in 1..Cardinality(E) : NthEnd(E, k) \in E /\ L[k] = LineAt(s, NthEnd(E, k))
  BY <1>3, <1>5, LinesFacts
<1>9. /\ M \in Seq(Seq(Chars)) /\ Len(M) = Cardinality(F) /\ Cardinality(F) \in Nat
      /\ \A k \in 1..Cardinality(F) : NthEnd(F, k) \in F /\ M[k] = LineAt(t, NthEnd(F, k))
  BY <1>2, <1>4, <1>6, LinesFacts
<1>10. ASSUME NEW j \in 1..Len(s) PROVE LineAt(t, j) = LineAt(s, j)
  <2>1. \A i \in 1..(j - 1) : t[i] = s[i]
    BY <1>2
  <2>2. PICK m : m = Split!BreakBefore(s, j) /\ LastBreak(s, j, m)
    BY BreakBeforeWorks
  <2>3. Split!BreakBefore(t, j) = m
    BY <2>1, <2>2, BreakBeforeAgrees
  <2>4. PICK k : k = m + 1
    OBVIOUS
  <2>5. k \in Nat \ {0} /\ k <= j + 1 /\ j \in 0..Len(s) /\ j \in 0..Len(t)
    BY <1>2, <2>2, <2>4 DEF LastBreak
  <2>6. \A i \in 1..j : t[i] = s[i]
    BY <1>2
  <2>7. SubSeq(t, k, j) = SubSeq(s, k, j)
    BY <1>2, <2>5, <2>6, SamePiece, Zenon
  <2> QED
    BY <2>2, <2>3, <2>4, <2>7 DEF LineAt
<1>11. CASE c = Break /\ Split!RestOf(s) # <<>>
  <2>1. F = E \cup {Len(s)}
    BY <1>1, <1>3, <1>4, <1>11, EndsAppend
  <2>2. E \in SUBSET (1..(Len(s) - 1))
    BY <1>3 DEF Split!Ends
  <2>3. Len(s) \notin E /\ \A j \in E : j < Len(s)
    BY <1>2, <2>2
  <2>4. PICK n \in Nat : n = Cardinality(E)
    BY <1>8
  <2>5. Cardinality(F) = n + 1
    BY <1>7, <2>1, <2>3, <2>4, FS_AddElement
  <2>6. ASSUME NEW k \in 1..n PROVE M[k] = L[k]
    <3>1. PICK j \in E : j = NthEnd(E, k) /\ Rank(E, j) = k - 1 /\ L[k] = LineAt(s, j)
      BY <1>7, <1>8, <2>4, NthWorks
    <3>2. {i \in F : i < j} = {i \in E : i < j}
      <4>1. ~(Len(s) < j)
        BY <1>2, <1>7, <2>3
      <4> QED
        BY <2>1, <4>1
    <3>3. Rank(F, j) = k - 1
      BY <3>1, <3>2 DEF Rank
    <3>4. NthEnd(F, k) = j
      <4>1. j \in F /\ Rank(F, j) + 1 = k
        BY <2>1, <3>3
      <4> QED
        BY <1>7, <4>1, NthIs
    <3>5. M[k] = LineAt(t, j)
      BY <1>9, <2>5, <3>4
    <3> QED
      BY <1>7, <1>10, <3>1, <3>5
  <2>7. M[n + 1] = Split!RestOf(s)
    <3>1. {i \in F : i < Len(s)} = E
      BY <1>2, <2>1, <2>3
    <3>2. Rank(F, Len(s)) = n /\ Len(s) \in F
      BY <2>1, <2>4, <3>1 DEF Rank
    <3>3. NthEnd(F, n + 1) = Len(s)
      BY <1>7, <3>2, NthIs
    <3>4. M[n + 1] = LineAt(t, Len(s)) /\ Len(s) \in 1..Len(s)
      <4>1. n + 1 \in 1..Cardinality(F)
        BY <2>5
      <4>2. Len(s) \in 1..Len(s)
        BY <1>2, <1>11, RestEmpty
      <4> QED
        BY <1>9, <3>3, <4>1, <4>2
    <3>5. M[n + 1] = LineAt(s, Len(s))
      BY <1>10, <3>4
    <3>6. PICK m : /\ m = Split!BreakBefore(s, Len(s) + 1) /\ LastBreak(s, Len(s) + 1, m)
                   /\ Split!RestOf(s) = SubSeq(s, m + 1, Len(s))
      <4>1. Len(s) + 1 \in Nat \ {0}
        BY <1>2
      <4>2. LastBreak(s, Len(s) + 1, Split!BreakBefore(s, Len(s) + 1))
        BY <4>1, BreakBeforeWorks
      <4>3. Split!RestOf(s) = SubSeq(s, Split!BreakBefore(s, Len(s) + 1) + 1, Len(s))
        BY DEF Split!RestOf
      <4> QED
        BY <4>2, <4>3, Zenon
    <3>7. LastBreak(s, Len(s), m)
      <4>1. s[Len(s)] # Break
        BY <1>11, RestEmpty
      <4>2. m \in 0..Len(s) /\ m # Len(s) /\ Len(s) + 1 - 1 = Len(s)
        BY <1>2, <3>4, <3>6, <4>1 DEF LastBreak
      <4> QED
        BY <1>2, <3>6, <4>2 DEF LastBreak
    <3>8. Split!BreakBefore(s, Len(s)) = m
      BY <3>4, <3>7, BreakBeforeIs
    <3> QED
      BY <3>5, <3>6, <3>8 DEF LineAt
  <2>8. PICK N : N = Append(L, Split!RestOf(s))
    OBVIOUS
  <2>9. /\ N \in Seq(Seq(Chars)) /\ Len(N) = n + 1 /\ N[n + 1] = Split!RestOf(s)
        /\ \A i \in 1..n : N[i] = L[i]
    <3>1. Split!RestOf(s) \in Seq(Chars)
      BY RestFacts
    <3> QED
      BY <1>8, <2>4, <2>8, <3>1, Longer
  <2>10. M = N
    <3>1. Len(M) = n + 1 /\ \A i \in 1..(n + 1) : i = n + 1 \/ i \in 1..n
      BY <1>9, <2>5
    <3>2. \A i \in 1..Len(M) : M[i] = N[i]
      BY <2>6, <2>7, <2>9, <3>1
    <3> QED
      BY <1>9, <2>9, <3>1, <3>2, SameSeq
  <2> QED
    BY <1>1, <1>5, <1>6, <1>11, <2>8, <2>10
<1>12. CASE ~(c = Break /\ Split!RestOf(s) # <<>>)
  <2>1. F = E
    BY <1>1, <1>3, <1>4, <1>12, EndsAppend
  <2>2. \A k \in 1..Len(M) : M[k] = L[k]
    BY <1>7, <1>8, <1>9, <1>10, <2>1
  <2>3. M = L
    BY <1>8, <1>9, <2>1, <2>2, SameSeq
  <2> QED
    BY <1>1, <1>5, <1>6, <1>12, <2>3
<1> QED
  BY <1>11, <1>12

LEMMA NoBreaks ==
  ASSUME NEW r \in Seq(Chars), \A i \in 1..Len(r) : r[i] # Break
  PROVE  Split!LinesOf(r) = <<>> /\ Split!RestOf(r) = r
<1>1. Split!LinesOf(r) = <<>>
  <2>1. Split!Ends(r) = {}
    <3>1. \A j \in 1..(Len(r) - 1) : j + 1 \in 1..Len(r)
      OBVIOUS
    <3> QED
      BY <3>1 DEF Split!Ends
  <2>2. Cardinality(Split!Ends(r)) = 0
    BY <2>1, FS_EmptySet
  <2>3. PICK L : L = Split!LinesOf(r)
    OBVIOUS
  <2>4. L \in Seq(Seq(Chars)) /\ Len(L) = 0
    BY <2>2, <2>3, LinesFacts
  <2> QED
    BY <2>3, <2>4
<1>2. Split!RestOf(r) = r
  <2>1. PICK m \in 0..Len(r) :
            /\ LastBreak(r, Len(r) + 1, m)
            /\ Split!RestOf(r) \in Seq(Chars) /\ Len(Split!RestOf(r)) = Len(r) - m
            /\ \A i \in 1..(Len(r) - m) : Split!RestOf(r)[i] = r[m + i]
    BY RestFacts
  <2>2. m = 0
    BY <2>1 DEF LastBreak
  <2>3. Len(Split!RestOf(r)) = Len(r) /\ \A i \in 1..Len(r) : Split!RestOf(r)[i] = r[i]
    BY <2>1, <2>2
  <2> QED
    BY <2>1, <2>3, SameSeq
<1> QED
  BY <1>1, <1>2

LEMMA RestHasNone ==
  ASSUME NEW s \in Seq(Chars), NEW r, r = Split!RestOf(s)
  PROVE  r \in Seq(Chars) /\ \A i \in 1..Len(r) : r[i] # Break
<1>1. PICK m \in 0..Len(s) :
          /\ LastBreak(s, Len(s) + 1, m)
          /\ r \in Seq(Chars) /\ Len(r) = Len(s) - m
          /\ \A i \in 1..(Len(s) - m) : r[i] = s[m + i]
  BY RestFacts
<1>2. ASSUME NEW i \in 1..Len(r) PROVE r[i] # Break
  <2>1. PICK p : p = m + i
    OBVIOUS
  <2>2. p \in (m + 1)..(Len(s) + 1 - 1) /\ r[i] = s[p]
    BY <1>1, <2>1
  <2> QED
    BY <1>1, <2>2 DEF LastBreak
<1> QED
  BY <1>1, <1>2

\* The lines of two sequences one after the other: those of the first, and then those of
\* what is left of the first and the second.
Composes(u, r, v) ==
    /\ Split!LinesOf(u \o v) = Split!LinesOf(u) \o Split!LinesOf(r \o v)
    /\ Split!RestOf(u \o v) = Split!RestOf(r \o v)

LEMMA LinesType ==
  ASSUME NEW s \in Seq(Chars)
  PROVE  Split!LinesOf(s) \in Seq(Seq(Chars)) /\ Split!RestOf(s) \in Seq(Chars)
  BY LinesFacts, RestFacts

AppendsBehind(a, b, c) == a \o Append(b, c) = Append(a \o b, c)

LEMMA AppendBehind ==
  ASSUME NEW T, NEW a \in Seq(T), NEW b \in Seq(T), NEW c \in T
  PROVE  AppendsBehind(a, b, c)
  BY DEF AppendsBehind

LEMMA ComposesMore ==
  ASSUME NEW u \in Seq(Chars), NEW r \in Seq(Chars), NEW v \in Seq(Chars), NEW c \in Chars,
         Composes(u, r, v)
  PROVE  Composes(u, r, Append(v, c))
<1>1. PICK a : a = u \o v
  OBVIOUS
<1>2. PICK b : b = r \o v
  OBVIOUS
<1>3. /\ a \in Seq(Chars) /\ b \in Seq(Chars)
      /\ u \o Append(v, c) = Append(a, c) /\ r \o Append(v, c) = Append(b, c)
  <2>1. a \in Seq(Chars) /\ b \in Seq(Chars)
    BY <1>1, <1>2, Joined
  <2>2. AppendsBehind(u, v, c) /\ AppendsBehind(r, v, c)
    BY AppendBehind
  <2> QED
    BY <1>1, <1>2, <2>1, <2>2 DEF AppendsBehind
<1>4. Split!LinesOf(a) = Split!LinesOf(u) \o Split!LinesOf(b) /\ Split!RestOf(a) = Split!RestOf(b)
  BY <1>1, <1>2 DEF Composes
<1>5. /\ Split!LinesOf(u) \in Seq(Seq(Chars)) /\ Split!LinesOf(b) \in Seq(Seq(Chars))
      /\ Split!RestOf(b) \in Seq(Chars)
  BY <1>3, LinesType
<1>6. Split!RestOf(Append(a, c)) = Split!RestOf(Append(b, c))
  <2>1. CASE c = Break
    BY <1>3, <2>1, RestAppend
  <2>2. CASE c # Break
    BY <1>3, <1>4, <2>2, RestAppend
  <2> QED
    BY <2>1, <2>2
<1>7. Split!LinesOf(Append(a, c)) = Split!LinesOf(u) \o Split!LinesOf(Append(b, c))
  <2>1. CASE c = Break /\ Split!RestOf(b) # <<>>
    <3>1. /\ Split!LinesOf(Append(a, c)) = Append(Split!LinesOf(a), Split!RestOf(b))
          /\ Split!LinesOf(Append(b, c)) = Append(Split!LinesOf(b), Split!RestOf(b))
      BY <1>3, <1>4, <2>1, LinesAppend
    <3>2. Split!LinesOf(u) \o Append(Split!LinesOf(b), Split!RestOf(b))
            = Append(Split!LinesOf(u) \o Split!LinesOf(b), Split!RestOf(b))
      <4>1. AppendsBehind(Split!LinesOf(u), Split!LinesOf(b), Split!RestOf(b))
        BY <1>5, AppendBehind
      <4> QED
        BY <4>1 DEF AppendsBehind
    <3> QED
      BY <1>4, <3>1, <3>2
  <2>2. CASE ~(c = Break /\ Split!RestOf(b) # <<>>)
    <3>1. /\ Split!LinesOf(Append(a, c)) = Split!LinesOf(a)
          /\ Split!LinesOf(Append(b, c)) = Split!LinesOf(b)
      BY <1>3, <1>4, <2>2, LinesAppend
    <3> QED
      BY <1>4, <3>1
  <2> QED
    BY <2>1, <2>2
<1> QED
  BY <1>3, <1>6, <1>7 DEF Composes

LEMMA Prefix ==
  ASSUME NEW T, NEW w \in Seq(T), NEW i \in 1..Len(w)
  PROVE  /\ SubSeq(w, 1, i - 1) \in Seq(T) /\ w[i] \in T
         /\ SubSeq(w, 1, i) = Append(SubSeq(w, 1, i - 1), w[i])
<1>1. PICK a : a = SubSeq(w, 1, i - 1)
  OBVIOUS
<1>2. PICK b : b = SubSeq(w, 1, i)
  OBVIOUS
<1>3. /\ i - 1 \in 0..Len(w) /\ i \in 0..Len(w) /\ 1 \in Nat \ {0} /\ 1 <= i - 1 + 1 /\ 1 <= i + 1
      /\ w[i] \in T
  OBVIOUS
<1>4. a \in Seq(T) /\ Len(a) = i - 1 - 1 + 1 /\ \A k \in 1..(i - 1 - 1 + 1) : a[k] = w[1 + k - 1]
  BY <1>1, <1>3, Piece
<1>5. b \in Seq(T) /\ Len(b) = i - 1 + 1 /\ \A k \in 1..(i - 1 + 1) : b[k] = w[1 + k - 1]
  BY <1>2, <1>3, Piece
<1>6. Len(a) = i - 1 /\ \A k \in 1..(i - 1) : a[k] = w[k]
  BY <1>4
<1>7. Len(b) = i /\ \A k \in 1..i : b[k] = w[k]
  BY <1>5
<1>8. PICK d : d = Append(a, w[i])
  OBVIOUS
<1>9. d \in Seq(T) /\ Len(d) = i /\ d[i] = w[i] /\ \A k \in 1..(i - 1) : d[k] = w[k]
  <2>1. d \in Seq(T) /\ Len(d) = Len(a) + 1 /\ d[Len(a) + 1] = w[i] /\ \A k \in 1..Len(a) : d[k] = a[k]
    BY <1>3, <1>4, <1>8, Longer
  <2> QED
    BY <1>6, <2>1
<1>10. \A k \in 1..Len(b) : b[k] = d[k]
  <2>1. \A k \in 1..i : k = i \/ k \in 1..(i - 1)
    OBVIOUS
  <2> QED
    BY <1>7, <1>9, <2>1
<1>11. b = d
  BY <1>5, <1>7, <1>9, <1>10, SameSeq
<1> QED
  BY <1>1, <1>2, <1>3, <1>4, <1>8, <1>11

LEMMA WholePrefix ==
  ASSUME NEW T, NEW w \in Seq(T)
  PROVE  SubSeq(w, 1, 0) = <<>> /\ SubSeq(w, 1, Len(w)) = w
  OBVIOUS

LEMMA LinesCompose ==
  ASSUME NEW u \in Seq(Chars), NEW r, r = Split!RestOf(u), NEW w \in Seq(Chars)
  PROVE  Composes(u, r, w)
<1>1. r \in Seq(Chars) /\ \A i \in 1..Len(r) : r[i] # Break
  BY RestHasNone
<1>2. Composes(u, r, <<>>)
  <2>1. Split!LinesOf(r) = <<>> /\ Split!RestOf(r) = r
    BY <1>1, NoBreaks
  <2>2. Split!LinesOf(u) \in Seq(Seq(Chars))
    BY LinesType
  <2>3. u \o <<>> = u /\ r \o <<>> = r
    BY <1>1
  <2>4. Split!LinesOf(u) \o <<>> = Split!LinesOf(u)
    BY <2>2
  <2> QED
    BY <2>1, <2>3, <2>4 DEF Composes
<1> DEFINE S == {i \in 0..Len(w) : ~Composes(u, r, SubSeq(w, 1, i))}
<1>3. ASSUME S # {} PROVE FALSE
  <2>1. PICK i \in S : \A j \in S : i <= j
    <3> HIDE DEF S
    <3>1. S \in SUBSET Nat
      BY DEF S
    <3> QED
      BY <1>3, <3>1, LeastNat
  <2>2. i \in 0..Len(w) /\ ~Composes(u, r, SubSeq(w, 1, i))
    BY <2>1
  <2>3. i # 0
    BY <1>2, <2>2, WholePrefix
  <2>4. i \in 1..Len(w) /\ i - 1 \in 0..Len(w) /\ i - 1 \notin S
    BY <2>1, <2>2, <2>3
  <2>5. Composes(u, r, SubSeq(w, 1, i - 1))
    BY <2>4
  <2>6. /\ SubSeq(w, 1, i - 1) \in Seq(Chars) /\ w[i] \in Chars
        /\ SubSeq(w, 1, i) = Append(SubSeq(w, 1, i - 1), w[i])
    BY <2>4, Prefix
  <2>7. Composes(u, r, SubSeq(w, 1, i))
    BY <1>1, <2>5, <2>6, ComposesMore
  <2> QED
    BY <2>2, <2>7
<1>4. Len(w) \in 0..Len(w)
  OBVIOUS
<1>5. Composes(u, r, SubSeq(w, 1, Len(w)))
  BY <1>3, <1>4
<1> QED
  BY <1>5, WholePrefix

-----------------------------------------------------------------------------
(* Of the lines sent, the tool's.                                          *)

Own == {StoppedLine, DoneLine}

TellOne(told, line) == IF line \in Own THEN told ELSE Append(told, line)

\* F says which of the first lines are the tool's.
Tells(lines, n, F) ==
    F = [i \in 0..n |-> IF i = 0 THEN <<>> ELSE TellOne(F[i - 1], lines[i])]

LEMMA TellsExists ==
  ASSUME NEW lines, NEW n \in Nat
  PROVE  \E F : Tells(lines, n, F)
<1> DEFINE S == {k \in Nat : ~ \E F : Tells(lines, k, F)}
<1>1. ASSUME S # {} PROVE FALSE
  <2>1. PICK m \in S : \A k \in S : m <= k
    <3> HIDE DEF S
    <3>1. S \in SUBSET Nat
      BY DEF S
    <3> QED
      BY <1>1, <3>1, LeastNat
  <2>2. m # 0
    <3>1. PICK F : F = [i \in 0..0 |-> <<>>]
      OBVIOUS
    <3>2. Tells(lines, 0, F)
      BY <3>1 DEF Tells
    <3> QED
      BY <3>2
  <2>3. m \in Nat /\ m - 1 \in Nat /\ m - 1 \notin S
    BY <2>1, <2>2
  <2>4. PICK F : Tells(lines, m - 1, F)
    BY <2>3
  <2>5. PICK G : G = [i \in 0..m |-> IF i = m THEN TellOne(F[m - 1], lines[m]) ELSE F[i]]
    OBVIOUS
  <2>6. ASSUME NEW i \in 0..m
        PROVE  G[i] = IF i = 0 THEN <<>> ELSE TellOne(G[i - 1], lines[i])
    <3>1. CASE i = m
      BY <2>2, <2>3, <2>5, <3>1
    <3>2. CASE i # m
      <4>1. i \in 0..(m - 1) /\ G[i] = F[i] /\ (i # 0 => i - 1 \in 0..m /\ i - 1 # m)
        BY <2>3, <2>5, <3>2
      <4>2. F[i] = IF i = 0 THEN <<>> ELSE TellOne(F[i - 1], lines[i])
        BY <2>4, <4>1 DEF Tells
      <4>3. i # 0 => G[i - 1] = F[i - 1]
        BY <2>5, <4>1
      <4> QED
        BY <4>1, <4>2, <4>3
    <3> QED
      BY <3>1, <3>2
  <2>7. Tells(lines, m, G)
    BY <2>5, <2>6 DEF Tells
  <2> QED
    BY <2>1, <2>7
<1> QED
  BY <1>1

LEMMA ToolLinesTells ==
  ASSUME NEW lines, Len(lines) \in Nat
  PROVE  \E F : Tells(lines, Len(lines), F) /\ ToolLines(lines) = F[Len(lines)]
<1>1. \E F : F = [i \in 0..Len(lines) |->
                     IF i = 0 THEN <<>>
                     ELSE IF lines[i] \in {StoppedLine, DoneLine} THEN F[i - 1]
                     ELSE Append(F[i - 1], lines[i])]
  <2>1. PICK F : Tells(lines, Len(lines), F)
    BY TellsExists
  <2> QED
    BY <2>1 DEF Tells, TellOne, Own
<1>2. \E F : /\ F = [i \in 0..Len(lines) |->
                        IF i = 0 THEN <<>>
                        ELSE IF lines[i] \in {StoppedLine, DoneLine} THEN F[i - 1]
                        ELSE Append(F[i - 1], lines[i])]
             /\ ToolLines(lines) = F[Len(lines)]
  BY <1>1 DEF ToolLines
<1> QED
  BY <1>2 DEF Tells, TellOne, Own

LEMMA ToolLinesEmpty == ToolLines(<<>>) = <<>>
<1>1. Len(<<>>) = 0
  OBVIOUS
<1>2. PICK F : Tells(<<>>, 0, F) /\ ToolLines(<<>>) = F[0]
  BY <1>1, ToolLinesTells
<1> QED
  BY <1>2 DEF Tells

LEMMA ToolLinesAppend ==
  ASSUME NEW l \in Seq(LaneLines), NEW x \in LaneLines
  PROVE  ToolLines(Append(l, x)) = TellOne(ToolLines(l), x)
<1>1. PICK u : u = Append(l, x)
  OBVIOUS
<1>2. /\ Len(l) \in Nat /\ Len(u) = Len(l) + 1 /\ Len(u) \in Nat /\ u[Len(l) + 1] = x
      /\ \A i \in 1..Len(l) : u[i] = l[i]
  BY <1>1, Longer
<1>3. PICK F : Tells(l, Len(l), F) /\ ToolLines(l) = F[Len(l)]
  BY <1>2, ToolLinesTells
<1>4. PICK G : Tells(u, Len(u), G) /\ ToolLines(u) = G[Len(u)]
  BY <1>2, ToolLinesTells
<1>5. \A i \in 0..Len(l) : F[i] = IF i = 0 THEN <<>> ELSE TellOne(F[i - 1], l[i])
  BY <1>3 DEF Tells
<1>6. \A i \in 0..Len(u) : G[i] = IF i = 0 THEN <<>> ELSE TellOne(G[i - 1], u[i])
  BY <1>4 DEF Tells
<1> DEFINE S == {i \in 0..Len(l) : F[i] # G[i]}
<1>7. ASSUME S # {} PROVE FALSE
  <2>1. PICK i \in S : \A j \in S : i <= j
    <3> HIDE DEF S
    <3>1. S \in SUBSET Nat
      BY <1>2 DEF S
    <3> QED
      BY <1>7, <3>1, LeastNat
  <2>2. i \in 0..Len(l) /\ i \in 0..Len(u)
    BY <1>2, <2>1
  <2>3. i # 0
    BY <1>5, <1>6, <2>1, <2>2
  <2>4. i - 1 \in 0..Len(l) /\ i \in 1..Len(l) /\ i - 1 \notin S
    BY <1>2, <2>1, <2>2, <2>3
  <2>5. F[i] = TellOne(F[i - 1], l[i]) /\ G[i] = TellOne(G[i - 1], u[i])
    BY <1>5, <1>6, <2>2, <2>3
  <2> QED
    BY <1>2, <2>1, <2>4, <2>5
<1>8. F[Len(l)] = G[Len(l)]
  BY <1>2, <1>7
<1>9. G[Len(u)] = TellOne(G[Len(l)], x)
  <2>1. Len(u) \in 0..Len(u) /\ Len(u) # 0 /\ Len(u) - 1 = Len(l)
    BY <1>2
  <2> QED
    BY <1>2, <1>6, <2>1
<1> QED
  BY <1>1, <1>3, <1>4, <1>8, <1>9

LEMMA EmptySeq == \A T : <<>> \in Seq(T)
  OBVIOUS

LEMMA SeqAlso ==
  ASSUME NEW S, NEW T, NEW s \in Seq(S), \A i \in 1..Len(s) : s[i] \in T
  PROVE  s \in Seq(T)
  OBVIOUS

LEMMA OwnAreNot ==
  /\ \A line \in Own : line \notin Seq(Words)
  /\ \A line \in LaneLines : line \notin Own => line \in Seq(Words)
<1>1. StoppedLine \notin Seq(Words)
  <2>1. Len(StoppedLine) = 1 /\ StoppedLine[1] \notin Words
    BY DEF StoppedLine, Words
  <2> QED
    BY <2>1
<1>2. DoneLine \notin Seq(Words)
  <2>1. Len(DoneLine) = 1 /\ DoneLine[1] \notin Words
    BY DEF DoneLine, Words
  <2> QED
    BY <2>1
<1> QED
  BY <1>1, <1>2 DEF Own, LaneLines

\* They are lines of words, those of two sequences are those of the one and of the other, and
\* all of a sequence that has none of run_tool's.
ToolsOf(a, b) ==
    /\ ToolLines(b) \in Seq(Seq(Words))
    /\ ToolLines(a \o b) = ToolLines(a) \o ToolLines(b)
    /\ b \in Seq(Seq(Words)) => ToolLines(b) = b

LEMMA ToolsOfMore ==
  ASSUME NEW a \in Seq(LaneLines), NEW b \in Seq(LaneLines), NEW x \in LaneLines,
         ToolLines(a) \in Seq(Seq(Words)), ToolsOf(a, b)
  PROVE  ToolsOf(a, Append(b, x))
<1>1. PICK d : d = a \o b
  OBVIOUS
<1>2. d \in Seq(LaneLines) /\ a \o Append(b, x) = Append(d, x)
  <2>1. d \in Seq(LaneLines)
    BY <1>1, Joined
  <2>2. AppendsBehind(a, b, x)
    BY AppendBehind
  <2> QED
    BY <1>1, <2>1, <2>2 DEF AppendsBehind
<1>3. PICK p : p = ToolLines(a)
  OBVIOUS
<1>4. PICK q : q = ToolLines(b)
  OBVIOUS
<1>5. p \in Seq(Seq(Words)) /\ q \in Seq(Seq(Words)) /\ ToolLines(d) = p \o q
  BY <1>1, <1>3, <1>4 DEF ToolsOf
<1>6. /\ ToolLines(a \o Append(b, x)) = TellOne(p \o q, x)
      /\ ToolLines(Append(b, x)) = TellOne(q, x)
  BY <1>2, <1>4, <1>5, ToolLinesAppend
<1>7. Append(b, x) \in Seq(Seq(Words)) => b \in Seq(Seq(Words)) /\ x \in Seq(Words)
  <2>1. PICK u : u = Append(b, x)
    OBVIOUS
  <2>2. /\ u \in Seq(LaneLines) /\ Len(b) \in Nat /\ Len(u) = Len(b) + 1 /\ u[Len(b) + 1] = x
        /\ \A i \in 1..Len(b) : u[i] = b[i]
    BY <2>1, Longer
  <2>3. ASSUME u \in Seq(Seq(Words)) PROVE b \in Seq(Seq(Words)) /\ x \in Seq(Words)
    <3>1. \A i \in 1..Len(u) : u[i] \in Seq(Words)
      BY <2>3
    <3>2. x \in Seq(Words)
      BY <2>2, <3>1
    <3>3. \A i \in 1..Len(b) : b[i] \in Seq(Words)
      BY <2>2, <3>1
    <3>4. b \in Seq(Seq(Words))
      BY <3>3, SeqAlso
    <3> QED
      BY <3>2, <3>4
  <2> QED
    BY <2>1, <2>3
<1>8. CASE x \in Own
  BY <1>3, <1>4, <1>5, <1>6, <1>7, <1>8, OwnAreNot DEF ToolsOf, TellOne
<1>9. CASE x \notin Own
  <2>1. x \in Seq(Words)
    BY <1>9, OwnAreNot
  <2>2. Append(q, x) \in Seq(Seq(Words)) /\ p \o Append(q, x) = Append(p \o q, x)
    <3>1. p \in Seq(Seq(Words)) /\ q \in Seq(Seq(Words))
      BY <1>5
    <3>2. Append(q, x) \in Seq(Seq(Words))
      BY <2>1, <3>1
    <3>3. AppendsBehind(p, q, x)
      BY <2>1, <3>1, AppendBehind
    <3> QED
      BY <3>2, <3>3 DEF AppendsBehind
  <2>3. b \in Seq(Seq(Words)) => q = b
    BY <1>4 DEF ToolsOf
  <2> QED
    BY <1>3, <1>6, <1>7, <1>9, <2>2, <2>3 DEF ToolsOf, TellOne
<1> QED
  BY <1>8, <1>9

LEMMA ToolsOfAll ==
  ASSUME NEW a \in Seq(LaneLines), ToolLines(a) \in Seq(Seq(Words)), NEW b \in Seq(LaneLines)
  PROVE  ToolsOf(a, b)
<1>1. ToolsOf(a, <<>>)
  <2>1. a \o <<>> = a /\ ToolLines(a) \o <<>> = ToolLines(a)
    OBVIOUS
  <2>2. ToolLines(<<>>) \in Seq(Seq(Words))
    BY ToolLinesEmpty, EmptySeq
  <2> QED
    BY <2>1, <2>2, ToolLinesEmpty DEF ToolsOf
<1> DEFINE S == {i \in 0..Len(b) : ~ToolsOf(a, SubSeq(b, 1, i))}
<1>2. ASSUME S # {} PROVE FALSE
  <2>1. PICK i \in S : \A j \in S : i <= j
    <3> HIDE DEF S
    <3>1. S \in SUBSET Nat
      BY DEF S
    <3> QED
      BY <1>2, <3>1, LeastNat
  <2>2. i \in 0..Len(b) /\ ~ToolsOf(a, SubSeq(b, 1, i))
    BY <2>1
  <2>3. i # 0
    BY <1>1, <2>2, WholePrefix
  <2>4. i \in 1..Len(b) /\ i - 1 \in 0..Len(b) /\ i - 1 \notin S
    BY <2>1, <2>2, <2>3
  <2>5. ToolsOf(a, SubSeq(b, 1, i - 1))
    BY <2>4
  <2>6. /\ SubSeq(b, 1, i - 1) \in Seq(LaneLines) /\ b[i] \in LaneLines
        /\ SubSeq(b, 1, i) = Append(SubSeq(b, 1, i - 1), b[i])
    BY <2>4, Prefix
  <2>7. ToolsOf(a, SubSeq(b, 1, i))
    BY <2>5, <2>6, ToolsOfMore
  <2> QED
    BY <2>2, <2>7
<1>3. Len(b) \in 0..Len(b)
  OBVIOUS
<1>4. ToolsOf(a, SubSeq(b, 1, Len(b)))
  BY <1>2, <1>3
<1> QED
  BY <1>4, WholePrefix

LEMMA ToolLinesFacts ==
  ASSUME NEW a \in Seq(LaneLines), NEW b \in Seq(LaneLines)
  PROVE  ToolLines(a) \in Seq(Seq(Words)) /\ ToolsOf(a, b)
<1>1. ToolsOf(<<>>, a)
  <2>1. <<>> \in Seq(LaneLines) /\ ToolLines(<<>>) \in Seq(Seq(Words))
    BY ToolLinesEmpty, EmptySeq
  <2> QED
    BY <2>1, ToolsOfAll
<1>2. ToolLines(a) \in Seq(Seq(Words))
  BY <1>1 DEF ToolsOf
<1> QED
  BY <1>2, ToolsOfAll

-----------------------------------------------------------------------------
(* What streams the tool's lines implements LineFifo.                      *)

Queue == IF open THEN ToolLines(lane) \o Split!LinesOf(current \o pipe) ELSE <<>>
Rest == IF open THEN Split!RestOf(current \o pipe) ELSE <<>>

Writes == {Banner, AlertLine \o <<Break>>, SafeLine \o <<Break>>, TextLine \o <<Break>>,
           <<Head(TextLine)>>, Tail(TextLine) \o <<Break>>}

\* The steps of LineFifo, by the names used here.
LEMMA FifoLines ==
  \A s : Fifo!LinesOf(s) = Split!LinesOf(s) /\ Fifo!RestOf(s) = Split!RestOf(s)
  BY DEF Fifo!LinesOf, Fifo!RestOf, Fifo!Ends, Fifo!BreakBefore, Fifo!Max, Fifo!Cardinality,
         Split!LinesOf, Split!RestOf, Split!Ends, Split!BreakBefore, Split!Max, Split!Cardinality

LEMMA FifoWrites ==
  ASSUME NEW w \in Writes, Queue' = Queue \o Split!LinesOf(Rest \o w), Rest' = Split!RestOf(Rest \o w)
  PROVE  Fifo!Next
<1>1. Fifo!Write(w)
  BY FifoLines DEF Fifo!Write, Queue, Rest
<1> QED
  BY <1>1 DEF Fifo!Next, Writes

LEMMA FifoTakes ==
  ASSUME Queue # <<>>, Queue' = Tail(Queue), Rest' = Rest
  PROVE  Fifo!Next
  BY DEF Fifo!Next, Fifo!Take, Queue, Rest

LEMMA FifoCloses ==
  ASSUME Rest # <<>>, Queue' = Append(Queue, Rest), Rest' = <<>>
  PROVE  Fifo!Next
  BY DEF Fifo!Next, Fifo!Close, Queue, Rest

LEMMA FifoDrops ==
  ASSUME Queue' = <<>>, Rest' = <<>>
  PROVE  Fifo!Next
  BY DEF Fifo!Next, Fifo!Drop, Queue, Rest

LEMMA FifoStutters ==
  ASSUME Queue' = Queue, Rest' = Rest
  PROVE  UNCHANGED Fifo!vars
  BY DEF Fifo!vars, Queue, Rest

\* With the first i tokens split, the loop has the lines of them.
SplitIs(S, i) ==
    /\ S[i] \in States
    /\ S[i].line = Split!RestOf(current \o SubSeq(pipe, 1, i))
    /\ S[i].done = Split!LinesOf(current \o SubSeq(pipe, 1, i))

LEMMA WordsAreChars ==
  ASSUME NEW w \in Seq(Words)
  PROVE  w \in Seq(Chars) /\ \A i \in 1..Len(w) : w[i] # Break
<1>1. \A x \in Words : x \in Chars /\ x # Break
  BY DEF Chars, Words, Break
<1> QED
  BY <1>1

LEMMA SplitIsMore ==
  ASSUME MailTypes, NEW n \in 1..Len(pipe), NEW S, Splits(n, S), NEW i \in 1..n, SplitIs(S, i - 1)
  PROVE  SplitIs(S, i)
<1>1. i \in 1..Len(pipe) /\ i \in 0..n /\ i # 0
  BY DEF MailTypes
<1>2. PICK v : v = SubSeq(pipe, 1, i - 1)
  OBVIOUS
<1>3. PICK token : token = pipe[i]
  OBVIOUS
<1>4. v \in Seq(Chars) /\ token \in Chars /\ SubSeq(pipe, 1, i) = Append(v, token)
  <2>1. pipe \in Seq(Chars)
    BY DEF MailTypes
  <2> QED
    BY <1>1, <1>2, <1>3, <2>1, Prefix
<1>5. PICK a : a = current \o v
  OBVIOUS
<1>6. a \in Seq(Chars) /\ current \o SubSeq(pipe, 1, i) = Append(a, token)
  <2>1. current \in Seq(Chars)
    BY WordsAreChars DEF MailTypes
  <2>2. v \in Seq(Chars) /\ token \in Chars
    BY <1>4
  <2>3. a \in Seq(Chars) /\ current \o Append(v, token) = Append(a, token)
    <3>1. a \in Seq(Chars)
      BY <1>5, <2>1, <2>2, Joined
    <3>2. AppendsBehind(current, v, token)
      BY <2>1, <2>2, AppendBehind
    <3> QED
      BY <1>5, <3>1, <3>2 DEF AppendsBehind
  <2> QED
    BY <1>4, <2>3
<1>7. PICK st \in States : st = S[i - 1]
  BY DEF SplitIs
<1>8. st.line = Split!RestOf(a) /\ st.done = Split!LinesOf(a)
  BY <1>2, <1>5, <1>7 DEF SplitIs
<1>9. S[i] = Feed(st, token)
  BY <1>1, <1>3, <1>7 DEF Splits
<1>10. PICK new \in States : new = S[i] /\ new = Feed(st, token)
  BY <1>4, <1>9, FeedToken
<1>11. new.line = Split!RestOf(Append(a, token))
  <2>1. CASE token = Break
    <3>1. new.line = <<>>
      BY <1>4, <1>10, <2>1, FeedToken
    <3>2. Split!RestOf(Append(a, token)) = <<>>
      BY <1>4, <1>6, <2>1, RestAppend
    <3> QED
      BY <3>1, <3>2
  <2>2. CASE token # Break
    <3>1. new.line = Append(st.line, token)
      BY <1>4, <1>10, <2>2, FeedToken
    <3>2. Split!RestOf(Append(a, token)) = Append(Split!RestOf(a), token)
      BY <1>4, <1>6, <2>2, RestAppend
    <3> QED
      BY <1>8, <3>1, <3>2
  <2> QED
    BY <2>1, <2>2
<1>12. new.done = Split!LinesOf(Append(a, token))
  <2>1. CASE token = Break /\ st.line # <<>>
    <3>1. new.done = Append(st.done, st.line)
      BY <1>4, <1>10, <2>1, FeedToken
    <3>2. Split!LinesOf(Append(a, token)) = Append(Split!LinesOf(a), Split!RestOf(a))
      BY <1>4, <1>6, <1>8, <2>1, LinesAppend
    <3> QED
      BY <1>8, <3>1, <3>2
  <2>2. CASE ~(token = Break /\ st.line # <<>>)
    <3>1. new.done = st.done
      BY <1>4, <1>10, <2>2, FeedToken
    <3>2. Split!LinesOf(Append(a, token)) = Split!LinesOf(a)
      BY <1>4, <1>6, <1>8, <2>2, LinesAppend
    <3> QED
      BY <1>8, <3>1, <3>2
  <2> QED
    BY <2>1, <2>2
<1> QED
  BY <1>6, <1>10, <1>11, <1>12 DEF SplitIs

LEMMA SplitIsAll ==
  ASSUME MailTypes, NEW n \in 1..Len(pipe), NEW S, Splits(n, S)
  PROVE  SplitIs(S, n)
<1>1. n \in Nat /\ pipe \in Seq(Chars) /\ current \in Seq(Words)
  BY DEF MailTypes
<1>2. SplitIs(S, 0)
  <2>1. S[0] = [line |-> current, done |-> <<>>]
    BY <1>1 DEF Splits
  <2>2. S[0].line = current /\ S[0].done = <<>> /\ S[0] \in States
    BY <1>1, <2>1, EmptySeq DEF States
  <2>3. Split!LinesOf(current) = <<>> /\ Split!RestOf(current) = current
    BY <1>1, WordsAreChars, NoBreaks
  <2>4. current \o SubSeq(pipe, 1, 0) = current
    <3>1. current \o <<>> = current
      BY <1>1
    <3>2. SubSeq(pipe, 1, 0) = <<>>
      BY <1>1, WholePrefix
    <3> QED
      BY <3>1, <3>2
  <2> QED
    BY <2>2, <2>3, <2>4 DEF SplitIs
<1> DEFINE N == {i \in 0..n : ~SplitIs(S, i)}
<1>3. ASSUME N # {} PROVE FALSE
  <2>1. PICK i \in N : \A j \in N : i <= j
    <3> HIDE DEF N
    <3>1. N \in SUBSET Nat
      BY DEF N
    <3> QED
      BY <1>3, <3>1, LeastNat
  <2>2. i \in 1..n /\ i - 1 \in 0..n /\ i - 1 \notin N
    BY <1>1, <1>2, <2>1
  <2>3. SplitIs(S, i - 1)
    BY <2>2
  <2>4. SplitIs(S, i)
    BY <2>2, <2>3, SplitIsMore
  <2> QED
    BY <2>1, <2>4
<1>4. n \in 0..n
  BY <1>1
<1> QED
  BY <1>3, <1>4

LEMMA CutAnywhere ==
  ASSUME NEW T, NEW p \in Seq(T), NEW n \in 1..Len(p)
  PROVE  /\ SubSeq(p, 1, n) \in Seq(T) /\ SubSeq(p, n + 1, Len(p)) \in Seq(T)
         /\ SubSeq(p, 1, n) \o SubSeq(p, n + 1, Len(p)) = p
<1>1. PICK a : a = SubSeq(p, 1, n)
  OBVIOUS
<1>2. PICK b : b = SubSeq(p, n + 1, Len(p))
  OBVIOUS
<1>3. a \in Seq(T) /\ Len(a) = n /\ \A i \in 1..n : a[i] = p[i]
  <2>1. n \in 0..Len(p) /\ 1 \in Nat \ {0} /\ 1 <= n + 1
    OBVIOUS
  <2>2. a \in Seq(T) /\ Len(a) = n - 1 + 1 /\ \A i \in 1..(n - 1 + 1) : a[i] = p[1 + i - 1]
    BY <1>1, <2>1, Piece
  <2> QED
    BY <2>2
<1>4. b \in Seq(T) /\ Len(b) = Len(p) - n /\ \A i \in 1..(Len(p) - n) : b[i] = p[n + i]
  <2>1. Len(p) \in 0..Len(p) /\ n + 1 \in Nat \ {0} /\ n + 1 <= Len(p) + 1
    OBVIOUS
  <2>2. /\ b \in Seq(T) /\ Len(b) = Len(p) - (n + 1) + 1
        /\ \A i \in 1..(Len(p) - (n + 1) + 1) : b[i] = p[n + 1 + i - 1]
    BY <1>2, <2>1, Piece
  <2>3. Len(p) - (n + 1) + 1 = Len(p) - n /\ \A i \in Nat : n + 1 + i - 1 = n + i
    OBVIOUS
  <2> QED
    BY <2>2, <2>3
<1>5. PICK c : c = a \o b
  OBVIOUS
<1>6. /\ c \in Seq(T) /\ Len(c) = Len(a) + Len(b)
      /\ \A i \in 1..Len(a) : c[i] = a[i]
      /\ \A i \in 1..Len(b) : c[Len(a) + i] = b[i]
  <2>1. a \in Seq(T) /\ b \in Seq(T)
    BY <1>3, <1>4
  <2> QED
    BY <1>5, <2>1, Joined
<1>7. Len(c) = Len(p)
  BY <1>3, <1>4, <1>6
<1>8. ASSUME NEW i \in 1..Len(c) PROVE c[i] = p[i]
  <2>1. CASE i \in 1..n
    BY <1>3, <1>6, <2>1
  <2>2. CASE i \notin 1..n
    <3>1. PICK j \in 1..(Len(p) - n) : i = n + j
      <4>1. i - n \in 1..(Len(p) - n) /\ i = n + (i - n)
        BY <1>7, <2>2
      <4> QED
        BY <4>1
    <3> QED
      BY <1>3, <1>4, <1>6, <3>1
  <2> QED
    BY <2>1, <2>2
<1>9. c = p
  BY <1>6, <1>7, <1>8, SameSeq
<1> QED
  BY <1>1, <1>2, <1>3, <1>4, <1>5, <1>9

Associates(a, b, c) == (a \o b) \o c = a \o (b \o c)

LEMMA Associative ==
  ASSUME NEW T, NEW a \in Seq(T), NEW b \in Seq(T), NEW c \in Seq(T)
  PROVE  Associates(a, b, c)
  BY DEF Associates

LEMMA LinesAreChars ==
  ASSUME NEW s \in Seq(Seq(Words))
  PROVE  s \in Seq(Seq(Chars))
<1>1. ASSUME NEW i \in 1..Len(s) PROVE s[i] \in Seq(Chars)
  <2>1. s[i] \in Seq(Words)
    OBVIOUS
  <2> QED
    BY <2>1, WordsAreChars
<1> QED
  BY <1>1, SeqAlso

\* Whatever is read, the lines sent, under way and still in the pipe are the same.
LEMMA ReadKeepsLines ==
  ASSUME MailTypes, NEW n \in 1..Len(pipe), ReadChunk(n), open, open'
  PROVE  Queue' = Queue /\ Rest' = Rest
<1>1. n \in Nat /\ pipe \in Seq(Chars) /\ current \in Seq(Chars) /\ lane \in Seq(LaneLines)
  BY WordsAreChars DEF MailTypes
<1>2. PICK S : /\ Splits(n, S)
               /\ pipe' = SubSeq(pipe, n + 1, Len(pipe))
               /\ current' = S[n].line
               /\ lane' = Sent(S[n].done)
  BY <1>1, ReadSplits
<1>3. SplitIs(S, n)
  BY <1>2, SplitIsAll
<1>4. PICK v : v = SubSeq(pipe, 1, n)
  OBVIOUS
<1>5. v \in Seq(Chars) /\ pipe' \in Seq(Chars) /\ v \o pipe' = pipe
  BY <1>1, <1>2, <1>4, CutAnywhere
<1>6. PICK u : u = current \o v
  OBVIOUS
<1>7. u \in Seq(Chars) /\ current \o pipe = u \o pipe'
  <2>1. current \in Seq(Chars) /\ v \in Seq(Chars) /\ pipe' \in Seq(Chars) /\ u \in Seq(Chars)
    BY <1>1, <1>5, <1>6, Joined
  <2>2. (current \o v) \o pipe' = current \o (v \o pipe')
    <3>1. Associates(current, v, pipe')
      BY <2>1, Associative
    <3> QED
      BY <3>1 DEF Associates
  <2> QED
    BY <1>5, <1>6, <2>1, <2>2
<1>8. /\ S[n].line = Split!RestOf(u) /\ S[n].done = Split!LinesOf(u)
      /\ S[n].done \in Seq(Seq(Words)) /\ S[n].line \in Seq(Words)
  BY <1>3, <1>4, <1>6 DEF SplitIs, States
<1>9. /\ Split!LinesOf(current \o pipe) = S[n].done \o Split!LinesOf(current' \o pipe')
      /\ Split!RestOf(current \o pipe) = Split!RestOf(current' \o pipe')
  <2>1. Composes(u, S[n].line, pipe')
    BY <1>5, <1>7, <1>8, LinesCompose
  <2>2. /\ Split!LinesOf(u \o pipe') = Split!LinesOf(u) \o Split!LinesOf(S[n].line \o pipe')
        /\ Split!RestOf(u \o pipe') = Split!RestOf(S[n].line \o pipe')
    BY <2>1 DEF Composes
  <2> QED
    BY <1>2, <1>7, <1>8, <2>2
<1>10. ToolLines(lane') = ToolLines(lane) \o S[n].done
  <2>1. S[n].done \in Seq(LaneLines)
    <3>1. \A i \in 1..Len(S[n].done) : S[n].done[i] \in LaneLines
      BY <1>8 DEF LaneLines
    <3> QED
      BY <1>8, <3>1, SeqAlso
  <2>2. lane' = lane \o S[n].done
    BY <1>2 DEF Sent
  <2>3. ToolsOf(lane, S[n].done)
    BY <1>1, <2>1, ToolLinesFacts
  <2> QED
    BY <1>8, <2>2, <2>3 DEF ToolsOf
<1>11. (ToolLines(lane) \o S[n].done) \o Split!LinesOf(current' \o pipe')
         = ToolLines(lane) \o (S[n].done \o Split!LinesOf(current' \o pipe'))
  <2>1. PICK a : a = ToolLines(lane)
    OBVIOUS
  <2>2. PICK b : b = S[n].done
    OBVIOUS
  <2>3. PICK c : c = Split!LinesOf(current' \o pipe')
    OBVIOUS
  <2>4. a \in Seq(Seq(Chars)) /\ b \in Seq(Seq(Chars))
    <3>1. a \in Seq(Seq(Words)) /\ b \in Seq(Seq(Words))
      BY <1>1, <1>8, <2>1, <2>2, ToolLinesFacts
    <3> QED
      BY <3>1, LinesAreChars
  <2>5. c \in Seq(Seq(Chars))
    <3>1. current' \in Seq(Chars) /\ pipe' \in Seq(Chars)
      BY <1>2, <1>5, <1>8, WordsAreChars
    <3>2. current' \o pipe' \in Seq(Chars)
      BY <3>1, Joined
    <3> QED
      BY <2>3, <3>2, LinesType
  <2>6. (a \o b) \o c = a \o (b \o c)
    <3>1. Associates(a, b, c)
      BY <2>4, <2>5, Associative
    <3> QED
      BY <3>1 DEF Associates
  <2> QED
    BY <2>1, <2>2, <2>3, <2>6
<1> QED
  BY <1>9, <1>10, <1>11 DEF Queue, Rest

\* What leaves the stream and its lines alone, and what sends lines of run_tool's.
LEMMA FifoSame ==
  ASSUME open' = open, pipe' = pipe, current' = current, lane' = lane
  PROVE  UNCHANGED Fifo!vars
<1>1. Queue' = Queue /\ Rest' = Rest
  BY DEF Queue, Rest
<1> QED
  BY <1>1, FifoStutters

LEMMA FifoSends ==
  ASSUME MailTypes, NEW lines \in Seq(LaneLines), ToolLines(lines) = <<>>, lane' = Sent(lines),
         open' = open, pipe' = pipe, current' = current
  PROVE  UNCHANGED Fifo!vars
<1>1. CASE open
  <2>1. lane \in Seq(LaneLines)
    BY DEF MailTypes
  <2>2. ToolLines(lane \o lines) = ToolLines(lane)
    <3>1. ToolsOf(lane, lines) /\ ToolLines(lane) \in Seq(Seq(Words))
      BY <2>1, ToolLinesFacts
    <3>2. ToolLines(lane) \o <<>> = ToolLines(lane)
      BY <3>1
    <3> QED
      BY <3>1, <3>2 DEF ToolsOf
  <2>3. ToolLines(lane') = ToolLines(lane)
    BY <1>1, <2>2 DEF Sent
  <2>4. Queue' = Queue /\ Rest' = Rest
    BY <2>3 DEF Queue, Rest
  <2> QED
    BY <2>4, FifoStutters
<1>2. CASE ~open
  <2>1. Queue' = Queue /\ Rest' = Rest
    BY <1>2 DEF Queue, Rest
  <2> QED
    BY <2>1, FifoStutters
<1> QED
  BY <1>1, <1>2

LEMMA OneLine ==
  ASSUME NEW line \in LaneLines
  PROVE  /\ <<line>> \in Seq(LaneLines) /\ <<line>> = Append(<<>>, line)
         /\ line \in Own => ToolLines(<<line>>) = <<>>
         /\ line \notin Own => ToolLines(<<line>>) = <<line>>
<1>1. <<>> \in Seq(LaneLines)
  BY EmptySeq
<1>2. <<line>> \in Seq(LaneLines) /\ <<line>> = Append(<<>>, line)
  OBVIOUS
<1>3. ToolLines(Append(<<>>, line)) = TellOne(<<>>, line)
  BY <1>1, ToolLinesAppend, ToolLinesEmpty
<1> QED
  BY <1>2, <1>3 DEF TellOne

LEMMA TwoLines ==
  ASSUME NEW line \in LaneLines
  PROVE  /\ <<line, DoneLine>> \in Seq(LaneLines)
         /\ ToolLines(<<line, DoneLine>>) = ToolLines(<<line>>)
<1>1. <<line>> \in Seq(LaneLines) /\ DoneLine \in LaneLines /\ DoneLine \in Own
  BY OneLine DEF LaneLines, Own
<1>2. <<line, DoneLine>> \in Seq(LaneLines) /\ <<line, DoneLine>> = Append(<<line>>, DoneLine)
  BY <1>1
<1>3. ToolLines(Append(<<line>>, DoneLine)) = TellOne(ToolLines(<<line>>), DoneLine)
  BY <1>1, ToolLinesAppend
<1> QED
  BY <1>1, <1>2, <1>3 DEF TellOne

\* Nothing is on its way.
LEMMA NoLines ==
  /\ Split!LinesOf(<<>> \o <<>>) = <<>> /\ Split!RestOf(<<>> \o <<>>) = <<>>
  /\ ToolLines(<<>>) \o Split!LinesOf(<<>> \o <<>>) = <<>>
<1>1. PICK e : e = <<>>
  OBVIOUS
<1>2. e \in Seq(Chars) /\ e \o e = e /\ \A i \in 1..Len(e) : e[i] # Break
  BY <1>1
<1>3. Split!LinesOf(e) = <<>> /\ Split!RestOf(e) = e
  BY <1>2, NoBreaks
<1> QED
  BY <1>1, <1>2, <1>3, ToolLinesEmpty

\* What the tool writes.
LEMMA FifoPrints ==
  ASSUME MailTypes, NEW w \in Writes, w \in Seq(Chars), Println(w), open' = open
  PROVE  Fifo!Next \/ UNCHANGED Fifo!vars
<1>1. pipe' = pipe \o w /\ current' = current /\ lane' = lane
  BY DEF Println
<1>2. CASE ~open
  <2>1. Queue' = Queue /\ Rest' = Rest
    BY <1>2 DEF Queue, Rest
  <2> QED
    BY <2>1, FifoStutters
<1>3. CASE open
  <2>1. current \in Seq(Chars) /\ pipe \in Seq(Chars) /\ lane \in Seq(LaneLines)
    BY WordsAreChars DEF MailTypes
  <2>2. PICK u : u = current \o pipe
    OBVIOUS
  <2>3. u \in Seq(Chars)
    BY <2>1, <2>2, Joined
  <2>4. current' \o pipe' = u \o w
    <3>1. (current \o pipe) \o w = current \o (pipe \o w)
      <4>1. Associates(current, pipe, w)
        BY <2>1, Associative
      <4> QED
        BY <4>1 DEF Associates
    <3> QED
      BY <1>1, <2>2, <3>1
  <2>5. PICK r : r = Split!RestOf(u)
    OBVIOUS
  <2>6. r \in Seq(Chars) /\ Split!LinesOf(u) \in Seq(Seq(Chars))
    BY <2>3, <2>5, LinesType
  <2>7. /\ Split!LinesOf(u \o w) = Split!LinesOf(u) \o Split!LinesOf(r \o w)
        /\ Split!RestOf(u \o w) = Split!RestOf(r \o w)
    <3>1. Composes(u, r, w)
      BY <2>3, <2>5, LinesCompose
    <3> QED
      BY <3>1 DEF Composes
  <2>8. r \o w \in Seq(Chars)
    BY <2>6, Joined
  <2>9. Split!LinesOf(r \o w) \in Seq(Seq(Chars))
    BY <2>8, LinesType
  <2>10. ToolLines(lane) \in Seq(Seq(Chars))
    BY <2>1, ToolLinesFacts, LinesAreChars
  <2>11. (ToolLines(lane) \o Split!LinesOf(u)) \o Split!LinesOf(r \o w)
           = ToolLines(lane) \o (Split!LinesOf(u) \o Split!LinesOf(r \o w))
    <3>1. Associates(ToolLines(lane), Split!LinesOf(u), Split!LinesOf(r \o w))
      BY <2>6, <2>9, <2>10, Associative
    <3> QED
      BY <3>1 DEF Associates
  <2>12. Queue = ToolLines(lane) \o Split!LinesOf(u) /\ Rest = r
    BY <1>3, <2>2, <2>5 DEF Queue, Rest
  <2>13. Queue' = ToolLines(lane) \o Split!LinesOf(u \o w) /\ Rest' = Split!RestOf(u \o w)
    BY <1>1, <1>3, <2>4 DEF Queue, Rest
  <2>14. Queue' = Queue \o Split!LinesOf(Rest \o w) /\ Rest' = Split!RestOf(Rest \o w)
    BY <2>7, <2>11, <2>12, <2>13
  <2> QED
    BY <2>14, FifoWrites
<1> QED
  BY <1>2, <1>3

\* All the tool writes is one of Writes.
LEMMA WritesAreChars ==
  ASSUME NEW w \in Writes
  PROVE  w \in Seq(Chars)
<1>1. "alert" \in Words /\ "safe" \in Words /\ "text" \in Words /\ "more" \in Words
  BY DEF Words
<1>2. CASE w = Banner
  BY <1>2, BannerTokens
<1>3. CASE w \in {AlertLine \o <<Break>>, SafeLine \o <<Break>>, TextLine \o <<Break>>}
  BY <1>1, <1>3, LineTokens DEF AlertLine, SafeLine, TextLine
<1>4. CASE w \in {<<Head(TextLine)>>, Tail(TextLine) \o <<Break>>}
  BY <1>4, PieceTokens
<1> QED
  BY <1>2, <1>3, <1>4 DEF Writes

LEMMA FifoTool ==
  ASSUME MailTypes, Tool
  PROVE  Fifo!Next \/ UNCHANGED Fifo!vars
<1>1. open' = open
  BY DEF Tool, pageVars
<1>2. ASSUME NEW w \in Writes, Println(w)
      PROVE  Fifo!Next \/ UNCHANGED Fifo!vars
  BY <1>1, <1>2, WritesAreChars, FifoPrints
<1>3. CASE Greet
  <2>1. \E w \in Writes : Println(w)
    BY <1>3 DEF Greet, Writes
  <2> QED
    BY <1>2, <2>1
<1>4. CASE Nag
  <2>1. \E w \in Writes : Println(w)
    BY <1>4 DEF Nag, Writes
  <2> QED
    BY <1>2, <2>1
<1>5. CASE Raise \/ Sleep
  <2>1. pipe' = pipe /\ current' = current /\ lane' = lane
    BY <1>5 DEF Raise, Sleep, lineVars
  <2> QED
    BY <1>1, <2>1, FifoSame
<1>6. ASSUME NEW answers \in SUBSET Targets,
             Breach(answers) \/ Regain(answers) \/ Beat(answers)
      PROVE  Fifo!Next \/ UNCHANGED Fifo!vars
  <2>1. \E w \in Writes : Println(w)
    BY <1>6 DEF Breach, Regain, Beat, Writes
  <2> QED
    BY <1>2, <2>1
<1>7. ASSUME NEW answers \in SUBSET Targets, StillExposed(answers) \/ Quiet(answers)
      PROVE  Fifo!Next \/ UNCHANGED Fifo!vars
  <2>1. pipe' = pipe /\ current' = current /\ lane' = lane
    BY <1>7 DEF StillExposed, Quiet, lineVars
  <2> QED
    BY <1>1, <2>1, FifoSame
<1> QED
  BY <1>3, <1>4, <1>5, <1>6, <1>7 DEF Tool, Loop

\* The page handles a line: one of the tool's is the first of the queue.
LEMMA FifoDelivers ==
  ASSUME MailTypes, Deliver
  PROVE  Fifo!Next \/ UNCHANGED Fifo!vars
<1>1. /\ open /\ lane # <<>> /\ lane' = Tail(lane) /\ pipe' = pipe /\ current' = current
      /\ ~open' \/ open' = open
  BY DEF Deliver, Ended
<1>2. CASE ~open'
  <2>1. Queue' = <<>> /\ Rest' = <<>>
    BY <1>2 DEF Queue, Rest
  <2> QED
    BY <2>1, FifoDrops
<1>3. CASE open' = open
  <2>1. lane \in Seq(LaneLines) /\ current \in Seq(Chars) /\ pipe \in Seq(Chars)
    BY WordsAreChars DEF MailTypes
  <2>2. PICK l, t : l = Head(lane) /\ t = Tail(lane)
    OBVIOUS
  <2>3. l \in LaneLines /\ t \in Seq(LaneLines) /\ lane = <<l>> \o t
    BY <1>1, <2>1, <2>2
  <2>4. <<l>> \in Seq(LaneLines)
    BY <2>3, OneLine
  <2>5. ToolLines(lane) = ToolLines(<<l>>) \o ToolLines(t) /\ ToolLines(t) \in Seq(Seq(Words))
    BY <2>3, <2>4, ToolLinesFacts DEF ToolsOf
  <2>6. PICK q : q = ToolLines(t)
    OBVIOUS
  <2>7. PICK x : x = Split!LinesOf(current \o pipe)
    OBVIOUS
  <2>8. q \in Seq(Seq(Chars)) /\ x \in Seq(Seq(Chars))
    <3>1. current \o pipe \in Seq(Chars)
      BY <2>1, Joined
    <3> QED
      BY <2>5, <2>6, <2>7, <3>1, LinesType, LinesAreChars
  <2>9. Queue = (ToolLines(<<l>>) \o q) \o x /\ Queue' = q \o x /\ Rest' = Rest
    <3>1. Queue = ToolLines(lane) \o x /\ Rest' = Rest
      BY <1>1, <1>3, <2>7 DEF Queue, Rest
    <3>2. Queue' = ToolLines(t) \o x
      BY <1>1, <1>3, <2>2, <2>7 DEF Queue
    <3> QED
      BY <2>5, <2>6, <3>1, <3>2
  <2>10. CASE l \in Own
    <3>1. ToolLines(<<l>>) \o q = q
      <4>1. ToolLines(<<l>>) = <<>>
        BY <2>3, <2>10, OneLine
      <4>2. <<>> \o q = q
        BY <2>8
      <4> QED
        BY <4>1, <4>2
    <3>2. Queue' = Queue
      BY <2>9, <3>1
    <3> QED
      BY <2>9, <3>2, FifoStutters
  <2>11. CASE l \notin Own
    <3>1. ToolLines(<<l>>) = <<l>>
      BY <2>3, <2>11, OneLine
    <3>2. PICK y : y = q \o x
      OBVIOUS
    <3>3. y \in Seq(Seq(Chars)) /\ l \in Seq(Chars)
      BY <2>3, <2>8, <2>11, <3>2, Joined, OwnAreNot, WordsAreChars
    <3>4. <<l>> \in Seq(Seq(Chars))
      BY <3>3
    <3>5. (<<l>> \o q) \o x = <<l>> \o (q \o x)
      <4>1. Associates(<<l>>, q, x)
        BY <2>8, <3>4, Associative
      <4> QED
        BY <4>1 DEF Associates
    <3>6. <<l>> \o y # <<>> /\ Tail(<<l>> \o y) = y
      BY <3>3
    <3>7. Queue = <<l>> \o y /\ Queue' = y
      BY <2>9, <3>1, <3>2, <3>5
    <3>8. Queue # <<>> /\ Queue' = Tail(Queue)
      BY <3>6, <3>7
    <3> QED
      BY <2>9, <3>8, FifoTakes
  <2> QED
    BY <2>10, <2>11
<1> QED
  BY <1>1, <1>2, <1>3

\* The pipe ends: the beginning of a line that the tool left is a line.
LEMMA FifoEof ==
  ASSUME MailTypes, ReadEof, open' = open
  PROVE  Fifo!Next \/ UNCHANGED Fifo!vars
<1>1. pipe = <<>> /\ pipe' = <<>> /\ current' = <<>>
  BY DEF ReadEof
<1>2. CASE current = <<>>
  <2>1. current' = current /\ pipe' = pipe /\ lane' = lane
    BY <1>1, <1>2 DEF ReadEof
  <2> QED
    BY <2>1, FifoSame
<1>3. CASE current # <<>> /\ open
  <2>1. current \in Seq(Chars) /\ current \in Seq(Words) /\ lane \in Seq(LaneLines)
    BY WordsAreChars DEF MailTypes
  <2>2. current \o pipe = current
    <3>1. current \o <<>> = current
      BY <2>1
    <3> QED
      BY <1>1, <3>1
  <2>3. Split!LinesOf(current) = <<>> /\ Split!RestOf(current) = current
    BY <2>1, WordsAreChars, NoBreaks
  <2>4. PICK q : q = ToolLines(lane)
    OBVIOUS
  <2>5. q \in Seq(Seq(Words))
    BY <2>1, <2>4, ToolLinesFacts
  <2>6. Queue = q /\ Rest = current
    <3>1. q \o <<>> = q
      BY <2>5
    <3> QED
      BY <1>3, <2>2, <2>3, <2>4, <3>1 DEF Queue, Rest
  <2>7. lane' = lane \o <<current>>
    BY <1>3 DEF ReadEof, Sent
  <2>8. current \in LaneLines /\ current \notin Own
    BY <2>1, OwnAreNot DEF LaneLines
  <2>9. ToolLines(lane') = Append(q, current)
    <3>1. lane \o <<current>> = Append(lane, current)
      BY <2>1, <2>8
    <3>2. ToolLines(Append(lane, current)) = TellOne(q, current)
      BY <2>1, <2>4, <2>8, ToolLinesAppend
    <3> QED
      BY <2>7, <2>8, <3>1, <3>2 DEF TellOne
  <2>10. Queue' = Append(q, current) /\ Rest' = <<>>
    <3>1. PICK v : v = Append(q, current)
      OBVIOUS
    <3>2. v \in Seq(Seq(Words)) /\ v \o <<>> = v
      BY <2>1, <2>5, <3>1
    <3>3. Queue' = v \o Split!LinesOf(<<>> \o <<>>) /\ Rest' = Split!RestOf(<<>> \o <<>>)
      BY <1>1, <1>3, <2>9, <3>1 DEF Queue, Rest
    <3> QED
      BY <3>1, <3>2, <3>3, NoLines
  <2>11. Rest # <<>> /\ Queue' = Append(Queue, Rest) /\ Rest' = <<>>
    BY <1>3, <2>6, <2>10
  <2> QED
    BY <2>11, FifoCloses
<1>4. CASE ~open
  <2>1. Queue' = Queue /\ Rest' = Rest
    BY <1>4 DEF Queue, Rest
  <2> QED
    BY <2>1, FifoStutters
<1> QED
  BY <1>2, <1>3, <1>4

\* A build that fails: its line is written into an empty queue.
LEMMA FifoBuildFails ==
  ASSUME MailTypes, PhaseInv, BuildFails
  PROVE  Fifo!Next \/ UNCHANGED Fifo!vars
<1>1. /\ pipe = <<>> /\ current = <<>> /\ lane = <<>> /\ open' = open
      /\ pipe' = <<>> /\ current' = <<>> /\ lane' = Sent(<<TextLine, DoneLine>>)
  BY DEF BuildFails, PhaseInv, pageVars
<1>2. CASE ~open
  <2>1. Queue' = Queue /\ Rest' = Rest
    BY <1>1, <1>2 DEF Queue, Rest
  <2> QED
    BY <2>1, FifoStutters
<1>3. CASE open
  <2>1. PICK a : a = TextLine
    OBVIOUS
  <2>2. a \in Seq(Words) /\ a # <<>>
    BY <2>1 DEF TextLine, Words
  <2>3. a \in Seq(Chars) /\ \A i \in 1..Len(a) : a[i] # Break
    BY <2>2, WordsAreChars
  <2>4. a \in LaneLines /\ a \notin Own
    BY <2>2, OwnAreNot DEF LaneLines
  <2>5. ToolLines(lane') = <<a>>
    <3>1. lane' = <<a, DoneLine>>
      <4>1. <<a, DoneLine>> \in Seq(LaneLines)
        BY <2>4, TwoLines
      <4>2. <<>> \o <<a, DoneLine>> = <<a, DoneLine>>
        BY <4>1
      <4> QED
        BY <1>1, <1>3, <2>1, <4>2 DEF Sent
    <3>2. ToolLines(<<a, DoneLine>>) = ToolLines(<<a>>) /\ ToolLines(<<a>>) = <<a>>
      BY <2>4, OneLine, TwoLines
    <3> QED
      BY <3>1, <3>2
  <2>6. PICK w : w = a \o <<Break>>
    OBVIOUS
  <2>7. Break \in Chars /\ <<>> \in Seq(Chars)
    BY DEF Chars
  <2>8. w = Append(a, Break) /\ w \in Seq(Chars)
    BY <2>3, <2>6, <2>7
  <2>9. Split!LinesOf(a) = <<>> /\ Split!RestOf(a) = a
    BY <2>3, NoBreaks
  <2>10. Split!LinesOf(w) = <<a>> /\ Split!RestOf(w) = <<>>
    <3>1. Split!LinesOf(Append(a, Break)) = Append(Split!LinesOf(a), Split!RestOf(a))
      BY <2>2, <2>3, <2>7, <2>9, LinesAppend
    <3>2. Split!RestOf(Append(a, Break)) = <<>>
      BY <2>3, <2>7, RestAppend
    <3>3. Append(<<>>, a) = <<a>>
      BY <2>4, OneLine
    <3> QED
      BY <2>8, <2>9, <3>1, <3>2, <3>3
  <2>11. Queue = <<>> /\ Rest = <<>>
    BY <1>1, <1>3, NoLines DEF Queue, Rest
  <2>12. Queue' = <<a>> /\ Rest' = <<>>
    <3>1. Queue' = <<a>> \o Split!LinesOf(<<>> \o <<>>) /\ Rest' = Split!RestOf(<<>> \o <<>>)
      BY <1>1, <1>3, <2>5 DEF Queue, Rest
    <3>2. <<a>> \o <<>> = <<a>>
      OBVIOUS
    <3> QED
      BY <3>1, <3>2, NoLines
  <2>13. <<>> \o w = w /\ <<>> \o <<a>> = <<a>>
    BY <2>8
  <2>14. w \in Writes
    BY <2>1, <2>6 DEF Writes
  <2>15. Queue' = Queue \o Split!LinesOf(Rest \o w) /\ Rest' = Split!RestOf(Rest \o w)
    BY <2>10, <2>11, <2>12, <2>13
  <2> QED
    BY <2>14, <2>15, FifoWrites
<1> QED
  BY <1>2, <1>3

\* Every step of Watch is a step of LineFifo, or none.
LEMMA FifoStep == Inv /\ [Next]_vars => [Fifo!Next]_Fifo!vars
<1> SUFFICES ASSUME Inv, [Next]_vars PROVE Fifo!Next \/ UNCHANGED Fifo!vars
  OBVIOUS
<1>1. MailTypes /\ PhaseInv /\ open \in BOOLEAN
  BY DEF Inv, MailInv, SmallTypes
<1>2. CASE Tool
  BY <1>1, <1>2, FifoTool
<1>3. CASE Popup \/ User \/ Launch \/ Die \/ UNCHANGED vars
  <2>1. open' = open /\ pipe' = pipe /\ current' = current /\ lane' = lane
    BY <1>3 DEF Popup, DismissBox, LowerFlag, User, Clear, Dismiss, Launch, Die, vars,
                pageVars, lineVars
  <2> QED
    BY <2>1, FifoSame
<1>4. CASE BuildFails
  BY <1>1, <1>4, FifoBuildFails
<1>5. CASE Eof
  <2>1. ReadEof /\ open' = open
    BY <1>5 DEF Eof, pageVars
  <2> QED
    BY <1>1, <2>1, FifoEof
<1>6. ASSUME NEW lines \in Seq(LaneLines), ToolLines(lines) = <<>>, lane' = Sent(lines),
             open' = open, pipe' = pipe, current' = current
      PROVE  UNCHANGED Fifo!vars
  BY <1>1, <1>6, FifoSends
<1>7. /\ StoppedLine \in LaneLines /\ DoneLine \in LaneLines
      /\ StoppedLine \in Own /\ DoneLine \in Own
  BY DEF LaneLines, Own
<1>8. CASE Done
  <2>1. open' = open /\ pipe' = pipe /\ current' = current /\ lane' = Sent(<<DoneLine>>)
    BY <1>8 DEF Done, pageVars
  <2> QED
    BY <1>6, <1>7, <2>1, OneLine
<1>9. CASE Stop
  <2>1. /\ open' = open /\ pipe' = pipe /\ current' = current
        /\ lane' = Sent(<<StoppedLine, DoneLine>>) \/ lane' = Sent(<<StoppedLine>>)
    BY <1>9 DEF Stop, pageVars
  <2> QED
    BY <1>6, <1>7, <2>1, OneLine, TwoLines
<1>10. CASE Read
  <2>1. PICK n \in 1..Len(pipe) : ReadChunk(n)
    BY <1>10 DEF Read
  <2>2. open' = open
    BY <1>10 DEF Read, pageVars
  <2>3. Queue' = Queue /\ Rest' = Rest
    <3>1. CASE open
      BY <1>1, <2>1, <2>2, <3>1, ReadKeepsLines
    <3>2. CASE ~open
      BY <2>2, <3>2 DEF Queue, Rest
    <3> QED
      BY <3>1, <3>2
  <2> QED
    BY <2>3, FifoStutters
<1>11. CASE Browser
  <2>1. Deliver
    BY <1>11 DEF Browser
  <2> QED
    BY <1>1, <2>1, FifoDelivers
<1>12. CASE Start
  <2>1. pipe' = <<>> /\ current' = <<>> /\ lane' = <<>> /\ open' = TRUE
    BY <1>12 DEF Start, Submit, ResetLines
  <2>2. Queue' = <<>> /\ Rest' = <<>>
    BY <2>1, NoLines DEF Queue, Rest
  <2> QED
    BY <2>2, FifoDrops
<1>13. CASE Broken
  <2>1. open' = FALSE
    BY <1>13 DEF Broken, Ended
  <2>2. Queue' = <<>> /\ Rest' = <<>>
    BY <2>1 DEF Queue, Rest
  <2> QED
    BY <2>2, FifoDrops
<1> QED
  BY <1>2, <1>3, <1>4, <1>5, <1>8, <1>9, <1>10, <1>11, <1>12, <1>13 DEF Next, Task

LEMMA FifoInit == Init => Fifo!Init
<1> SUFFICES ASSUME Init PROVE Fifo!Init
  OBVIOUS
<1>1. open = FALSE
  BY DEF Init, InitPage
<1> QED
  BY <1>1 DEF Fifo!Init

\* Whatever chunks the pipe is read in and whenever the tool is killed, its lines come to the
\* page as LineFifo promises: each whole, once and in order.
THEOREM LinesAreFifo == Spec => ImplementsFifo
  BY Invariance, FifoInit, FifoStep, PTL DEF Spec, ImplementsFifo, Fifo!Spec
=============================================================================
