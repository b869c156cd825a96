---------------------------- MODULE VaultProofs ----------------------------
(***************************************************************************)
(* Proofs about Vault, for every number of runs, names and items: TypeOK,  *)
(* and, when the runs do not overlap, SavedSurvives, SavedOpens and        *)
(* KeyIsForever.                                                           *)
(***************************************************************************)
EXTENDS Vault, FiniteSetTheorems, TLAPS

AtItem == {"name", "create", "write"}

\* A run at an item has one, and it is one of those it was given.
ItemIsGiven == \A p \in Procs : pc[p] \in AtItem => item[p] \in Items /\ left[p] >= 1

\* A run in its loop has a key.
KeyInHand == \A p \in Procs : pc[p] \in AtItem \cup {"next"} => key[p] \in Procs

\* unique_path has found every smaller number taken.
NumbersTried ==
    \A p \in Procs : pc[p] = "name" =>
        \A i \in 0..MaxN : i < n[p] => disk[[Target(p) EXCEPT !.nr = i]] # Absent

\* The paths at which there is something, and the turns of runs that have got as far as
\* creating a file.
InUse == {q \in Paths : disk[q] # Absent}
Turns == Procs \X (1..MaxItems)
Used(p, t) == /\ pc[p] # "idle"
              /\ \/ t > left[p]
                 \/ t = left[p] /\ pc[p] \in {"write", "killed"}
UsedTurns == {u \in Turns : Used(u[1], u[2])}

\* Every file was made in a turn of its own.
FewFiles == Injection(InUse, UsedTurns) # {}

\* A run that is about to write has made its file.
FileIsMade == \A p \in Procs : pc[p] = "write" => disk[Target(p)] # Absent

VaultTypes ==
    TypeOK /\ ItemIsGiven /\ KeyInHand /\ NumbersTried /\ FewFiles /\ FileIsMade

-----------------------------------------------------------------------------
(* There is always a number left for a name.                               *)

\* The bound on the numbers is a number.
LEMMA MaxNIsNat == MaxN \in Nat /\ IsFiniteSet(Turns) /\ Cardinality(Turns) = MaxN
<1>1. Cardinality(Procs) \in Nat
  BY VaultAssumption, FS_CardinalityType
<1>2. IsFiniteSet(1..MaxItems) /\ Cardinality(1..MaxItems) = MaxItems
  <2>1. MaxItems \in Nat
    BY VaultAssumption
  <2>2. /\ IsFiniteSet(1..MaxItems)
        /\ Cardinality(1..MaxItems) = IF 1 > MaxItems THEN 0 ELSE MaxItems - 1 + 1
    BY <2>1, FS_Interval
  <2> QED
    BY <2>1, <2>2
<1>3. IsFiniteSet(Turns) /\ Cardinality(Turns) = Cardinality(Procs) * MaxItems
  BY <1>2, VaultAssumption, FS_Product DEF Turns
<1> QED
  BY <1>1, <1>3, VaultAssumption DEF MaxN

\* The path a run is about to try, and the smaller ones it has tried.
LEMMA TargetIsPath ==
  ASSUME TypeOK, NEW p \in Procs, item[p] \in Items
  PROVE  /\ Target(p) \in Paths
         /\ \A i \in 0..MaxN : /\ [Target(p) EXCEPT !.nr = i] \in Paths
                               /\ [Target(p) EXCEPT !.nr = i].nr = i
         /\ [Target(p) EXCEPT !.nr = n[p]] = Target(p)
  BY DEF TypeOK, Target, Paths, Items, Dirs

\* A name of which unique_path has tried a number in vain has a greater one left: there
\* are more numbers than turns to use one in.
LEMMA NumberIsLeft ==
  ASSUME VaultTypes, NEW p \in Procs, NameTaken(p)
  PROVE  n[p] < MaxN
<1> SUFFICES ASSUME ~(n[p] < MaxN) PROVE FALSE
  OBVIOUS
<1>1. TypeOK /\ item[p] \in Items /\ pc[p] = "name" /\ disk[Target(p)] # Absent
  BY DEF VaultTypes, ItemIsGiven, AtItem, NameTaken
<1>2. n[p] = MaxN
  BY <1>1, MaxNIsNat DEF TypeOK
<1> DEFINE at(i) == [Target(p) EXCEPT !.nr = i]
           g == [i \in 0..MaxN |-> at(i)]
<1>3. \A i \in 0..MaxN : at(i) \in InUse
  <2> SUFFICES ASSUME NEW i \in 0..MaxN PROVE at(i) \in InUse
    OBVIOUS
  <2>1. at(i) \in Paths /\ at(n[p]) = Target(p)
    BY <1>1, TargetIsPath
  <2>2. CASE i = n[p]
    BY <1>1, <2>1, <2>2 DEF InUse
  <2>3. CASE i < n[p]
    BY <1>1, <2>1, <2>3 DEF VaultTypes, NumbersTried, InUse
  <2> QED
    BY <1>2, <2>2, <2>3, MaxNIsNat
<1>4. \A i, j \in 0..MaxN : at(i) = at(j) => i = j
  <2>1. \A i \in 0..MaxN : at(i).nr = i
    BY <1>1, TargetIsPath
  <2> HIDE DEF at
  <2> QED
    BY <2>1
<1>5. PICK f : f \in Injection(InUse, UsedTurns)
  BY DEF VaultTypes, FewFiles
<1> HIDE DEF at
<1> DEFINE h == [i \in 0..MaxN |-> f[at(i)]]
<1>6. h \in Injection(0..MaxN, Turns)
  <2>1. f \in [InUse -> UsedTurns] /\ \A q, r \in InUse : f[q] = f[r] => q = r
    BY <1>5 DEF Injection, IsInjective
  <2>2. \A i \in 0..MaxN : f[at(i)] \in Turns
    BY <1>3, <2>1 DEF UsedTurns
  <2>3. \A i, j \in 0..MaxN : f[at(i)] = f[at(j)] => i = j
    BY <1>3, <1>4, <2>1
  <2> QED
    BY <2>2, <2>3 DEF Injection, IsInjective
<1>7. Cardinality(0..MaxN) <= MaxN
  BY <1>6, MaxNIsNat, FS_Injection
<1> QED
  BY <1>7, MaxNIsNat, FS_Interval

\* Turns only ever get used, and a new file takes one that was not.
LEMMA FilesStayFew ==
  ASSUME FewFiles,
         \/ InUse' = InUse /\ UsedTurns \subseteq UsedTurns'
         \/ \E q, u : /\ InUse' = InUse \cup {q}
                      /\ u \notin UsedTurns /\ UsedTurns' = UsedTurns \cup {u}
  PROVE  FewFiles'
<1>1. PICK f : f \in Injection(InUse, UsedTurns)
  BY DEF FewFiles
<1>2. f \in [InUse -> UsedTurns] /\ \A q, r \in InUse : f[q] = f[r] => q = r
  BY <1>1 DEF Injection, IsInjective
<1>3. CASE InUse' = InUse /\ UsedTurns \subseteq UsedTurns'
  <2>1. f \in [InUse' -> UsedTurns']
    BY <1>2, <1>3
  <2>2. \A q, r \in InUse' : f[q] = f[r] => q = r
    BY <1>2, <1>3
  <2> QED
    BY <2>1, <2>2 DEF FewFiles, Injection, IsInjective
<1>4. ASSUME NEW q, NEW u, InUse' = InUse \cup {q}, u \notin UsedTurns,
             UsedTurns' = UsedTurns \cup {u}
      PROVE  FewFiles'
  <2> DEFINE g == [r \in InUse' |-> IF r \in InUse THEN f[r] ELSE u]
  <2>1. g \in [InUse' -> UsedTurns']
    BY <1>2, <1>4
  <2>2. \A r, s \in InUse' : g[r] = g[s] => r = s
    BY <1>2, <1>4
  <2> HIDE DEF g
  <2> QED
    BY <2>1, <2>2 DEF FewFiles, Injection, IsInjective
<1> QED
  BY <1>3, <1>4

-----------------------------------------------------------------------------
(* The types.                                                              *)

\* Nothing has run.
LEMMA VaultInit == Init => VaultTypes
<1> SUFFICES ASSUME Init PROVE VaultTypes
  OBVIOUS
<1>1. TypeOK
  BY MaxNIsNat, VaultAssumption DEF Init, TypeOK, Contents, Over
<1>2. ItemIsGiven /\ KeyInHand /\ NumbersTried /\ FileIsMade
  BY DEF Init, ItemIsGiven, KeyInHand, NumbersTried, FileIsMade, AtItem
<1>3. InUse = {}
  BY DEF Init, InUse
<1>4. [q \in {} |-> q] \in Injection(InUse, UsedTurns)
  BY <1>3 DEF Injection, IsInjective
<1>5. FewFiles
  BY <1>4 DEF FewFiles
<1> QED
  BY <1>1, <1>2, <1>5 DEF VaultTypes

\* A step of run p leaves the other runs alone.
LEMMA OthersKeep ==
  ASSUME TypeOK, NEW p \in Procs, Start(p) \/ Run(p) \/ Kill(p), NEW q \in Procs, q # p
  PROVE  /\ pc'[q] = pc[q] /\ cmd'[q] = cmd[q] /\ key'[q] = key[q]
         /\ left'[q] = left[q] /\ item'[q] = item[q] /\ n'[q] = n[q]
<1>1. CASE Start(p) \/ Kill(p)
  BY <1>1 DEF Start, Kill, TypeOK
<1>2. CASE CheckKey(p) \/ ReadKey(p) \/ MakeKey(p) \/ WriteKey(p) \/ KeyFails(p)
  BY <1>2 DEF CheckKey, ReadKey, MakeKey, WriteKey, KeyFails, Goto, TypeOK
<1>3. CASE SkipItem(p) \/ TakeItem(p) \/ OpenBlob(p) \/ NameTaken(p) \/ NameFree(p)
  BY <1>3 DEF SkipItem, TakeItem, OpenBlob, NameTaken, NameFree, Goto, TypeOK
<1>4. CASE Create(p) \/ Write(p) \/ WriteFails(p) \/ Exit(p)
  BY <1>4 DEF Create, Write, WriteFails, Exit, Goto, TypeOK
<1> QED
  BY <1>1, <1>2, <1>3, <1>4 DEF Run

\* What a step does to the turns that have been used: nothing unless a file is made.
LEMMA TurnsOnlyGrow ==
  ASSUME VaultTypes, NEW p \in Procs, Start(p) \/ Run(p) \/ Kill(p)
  PROVE  UsedTurns \subseteq UsedTurns'
<1>0. /\ DOMAIN pc = Procs /\ DOMAIN left = Procs
      /\ \A q \in Procs : left[q] \in Int
      /\ TypeOK
  BY VaultAssumption DEF VaultTypes, TypeOK
<1>1. \A t \in 1..MaxItems : Used(p, t) => Used(p, t)'
  <2> SUFFICES ASSUME NEW t \in 1..MaxItems, Used(p, t) PROVE Used(p, t)'
    OBVIOUS
  <2>1. CASE Start(p) \/ Kill(p)
    BY <1>0, <2>1 DEF Start, Kill, Used, Over
  <2>2. CASE CheckKey(p) \/ ReadKey(p) \/ MakeKey(p) \/ WriteKey(p) \/ KeyFails(p)
    BY <1>0, <2>2 DEF CheckKey, ReadKey, MakeKey, WriteKey, KeyFails, Goto, Used
  <2>3. CASE SkipItem(p) \/ TakeItem(p) \/ OpenBlob(p) \/ NameTaken(p) \/ NameFree(p)
    BY <1>0, <2>3 DEF SkipItem, TakeItem, OpenBlob, NameTaken, NameFree, Goto, Used
  <2>4. CASE Create(p) \/ Write(p) \/ WriteFails(p) \/ Exit(p)
    BY <1>0, <2>4 DEF Create, Write, WriteFails, Exit, Goto, Used
  <2> QED
    BY <2>1, <2>2, <2>3, <2>4 DEF Run
<1>2. \A q \in Procs, t \in 1..MaxItems : Used(q, t) => Used(q, t)'
  BY <1>0, <1>1, OthersKeep DEF Used
<1> QED
  BY <1>2 DEF UsedTurns, Turns

\* A run that makes a file uses its turn.
LEMMA CreateUsesTurn ==
  ASSUME VaultTypes, NEW p \in Procs, Create(p)
  PROVE  /\ InUse' = InUse \cup {Target(p)}
         /\ <<p, left[p]>> \notin UsedTurns
         /\ UsedTurns' = UsedTurns \cup {<<p, left[p]>>}
<1>1. /\ TypeOK /\ pc[p] = "create" /\ left' = left /\ pc' = [pc EXCEPT ![p] = "write"]
      /\ disk' = [disk EXCEPT ![Target(p)] = Torn]
  BY DEF VaultTypes, Create, Goto
<1>2. item[p] \in Items /\ left[p] \in 1..MaxItems
  BY <1>1, VaultAssumption DEF VaultTypes, ItemIsGiven, AtItem, TypeOK
<1>3. Target(p) \in Paths
  BY <1>1, <1>2, TargetIsPath
<1>4. InUse' = InUse \cup {Target(p)}
  BY <1>1, <1>3, VaultAssumption DEF InUse, TypeOK
<1>5. /\ DOMAIN pc = Procs /\ DOMAIN left = Procs
      /\ \A q \in Procs : left[q] \in Int
  BY <1>1, VaultAssumption DEF TypeOK
<1>6. \A q \in Procs, t \in 1..MaxItems :
         Used(q, t)' <=> Used(q, t) \/ (q = p /\ t = left[p])
  BY <1>1, <1>2, <1>5 DEF Used
<1>7. ~Used(p, left[p])
  BY <1>1, <1>2, <1>5 DEF Used
<1>8. <<p, left[p]>> \in Turns /\ <<p, left[p]>> \notin UsedTurns
  BY <1>2, <1>7 DEF UsedTurns, Turns
<1>9. UsedTurns' = UsedTurns \cup {<<p, left[p]>>}
  BY <1>6, <1>8 DEF UsedTurns, Turns
<1> QED
  BY <1>4, <1>8, <1>9

\* A file that is written is a file of Contents.
LEMMA WriteFacts ==
  ASSUME VaultTypes, NEW p \in Procs, pc[p] \in AtItem
  PROVE  /\ Target(p) \in Paths /\ item[p] \in Items /\ left[p] \in 1..MaxItems
         /\ key[p] \in Procs
         /\ \A k \in Procs \cup {NoKey} :
               File(k, item[p]) \in Contents /\ File(k, item[p]) \notin {Absent, Torn}
<1>1. TypeOK /\ item[p] \in Items /\ left[p] \in 1..MaxItems /\ key[p] \in Procs
  BY VaultAssumption DEF VaultTypes, TypeOK, ItemIsGiven, KeyInHand, AtItem
<1>2. Target(p) \in Paths
  BY <1>1, TargetIsPath
<1>3. ASSUME NEW k \in Procs \cup {NoKey}
      PROVE  File(k, item[p]) \in Contents /\ File(k, item[p]) \notin {Absent, Torn}
  BY <1>1, VaultAssumption DEF File, Contents, Items
<1> QED
  BY <1>1, <1>2, <1>3

\* What a write puts where, and reports.
LEMMA WriteWrites ==
  ASSUME VaultTypes, NEW p \in Procs, Write(p)
  PROVE  \E f \in Contents \ {Absent, Torn} :
            /\ disk' = [disk EXCEPT ![Target(p)] = f]
            /\ saved' = saved \cup {[path |-> Target(p), file |-> f]}
            /\ f.key = IF cmd[p] = "save" THEN key[p] ELSE NoKey
<1> DEFINE k == IF cmd[p] = "save" THEN key[p] ELSE NoKey
           f == File(k, item[p])
<1>1. pc[p] \in AtItem
  BY DEF Write, Goto, AtItem
<1>2. k \in Procs \cup {NoKey}
  BY <1>1, WriteFacts
<1>3. f \in Contents \ {Absent, Torn}
  BY <1>1, <1>2, WriteFacts
<1>4. /\ disk' = [disk EXCEPT ![Target(p)] = f]
      /\ saved' = saved \cup {[path |-> Target(p), file |-> f]}
  BY DEF Write
<1>5. f.key = k
  BY DEF File
<1> QED
  BY <1>3, <1>4, <1>5

\* A file that is there stays there, whatever is done to it.
LEMMA FilesStay ==
  ASSUME VaultTypes, NEW p \in Procs, Start(p) \/ Run(p) \/ Kill(p)
  PROVE  \A q \in Paths : disk[q] # Absent => disk'[q] # Absent
<1>0. DOMAIN disk = Paths
  BY DEF VaultTypes, TypeOK
<1>1. CASE Create(p)
  BY <1>0, <1>1, VaultAssumption DEF Create
<1>2. CASE Write(p)
  <2>1. PICK f \in Contents \ {Absent} : disk' = [disk EXCEPT ![Target(p)] = f]
    BY <1>2, WriteWrites
  <2> QED
    BY <1>0, <2>1
<1>3. CASE ~Create(p) /\ ~Write(p)
  BY <1>3 DEF Start, Run, Kill, CheckKey, ReadKey, MakeKey, WriteKey, KeyFails, SkipItem,
              TakeItem, OpenBlob, NameTaken, NameFree, WriteFails, Exit
<1> QED
  BY <1>1, <1>2, <1>3

\* Every step keeps the number of files below that of the turns.
LEMMA FewFilesStep ==
  ASSUME VaultTypes, NEW p \in Procs, Start(p) \/ Run(p) \/ Kill(p)
  PROVE  FewFiles'
<1>0. FewFiles /\ TypeOK /\ DOMAIN disk = Paths
  BY DEF VaultTypes, TypeOK
<1>1. CASE Create(p)
  BY <1>0, <1>1, CreateUsesTurn, FilesStayFew
<1>2. CASE Write(p)
  <2>1. pc[p] = "write" /\ disk[Target(p)] # Absent
    BY <1>2 DEF Write, Goto, VaultTypes, FileIsMade
  <2>2. PICK f \in Contents \ {Absent} : disk' = [disk EXCEPT ![Target(p)] = f]
    BY <1>2, WriteWrites
  <2>3. InUse' = InUse
    BY <1>0, <2>1, <2>2 DEF InUse
  <2> QED
    BY <1>0, <2>3, TurnsOnlyGrow, FilesStayFew
<1>3. CASE ~Create(p) /\ ~Write(p)
  <2>1. disk' = disk
    BY <1>3 DEF Start, Run, Kill, CheckKey, ReadKey, MakeKey, WriteKey, KeyFails, SkipItem,
                TakeItem, OpenBlob, NameTaken, NameFree, WriteFails, Exit
  <2>2. InUse' = InUse
    BY <2>1 DEF InUse
  <2> QED
    BY <1>0, <2>2, TurnsOnlyGrow, FilesStayFew
<1> QED
  BY <1>1, <1>2, <1>3

\* Every step keeps the types.
LEMMA VaultTypesStep == VaultTypes /\ [Next]_vars => VaultTypes'
<1> SUFFICES ASSUME VaultTypes, [Next]_vars PROVE VaultTypes'
  OBVIOUS
<1>0. TypeOK /\ ItemIsGiven /\ KeyInHand /\ NumbersTried /\ FewFiles /\ FileIsMade
  BY DEF VaultTypes
<1>1. CASE UNCHANGED vars
  BY <1>0, <1>1 DEF vars, VaultTypes, TypeOK, ItemIsGiven, KeyInHand, NumbersTried, FewFiles,
                    FileIsMade, Target, InUse, UsedTurns, Used
<1>2. ASSUME NEW p \in Procs, Start(p) \/ Run(p) \/ Kill(p) PROVE VaultTypes'
  <2>1. TypeOK'
    <3> USE DEF TypeOK
    <3>1. CASE Start(p)
      BY <1>0, <3>1, VaultAssumption DEF Start, Over
    <3>2. CASE Kill(p)
      BY <1>0, <3>2 DEF Kill, Over
    <3>3. CASE CheckKey(p) \/ ReadKey(p) \/ MakeKey(p) \/ WriteKey(p) \/ KeyFails(p)
      BY <1>0, <3>3 DEF CheckKey, ReadKey, MakeKey, WriteKey, KeyFails, Goto, Over
    <3>4. CASE SkipItem(p) \/ NameFree(p) \/ Exit(p)
      BY <1>0, <3>4, VaultAssumption DEF SkipItem, NameFree, Exit, Goto, Over
    <3>5. CASE TakeItem(p)
      BY <1>0, <3>5, MaxNIsNat, VaultAssumption DEF TakeItem, Goto, Over, Items
    <3>6. CASE OpenBlob(p)
      <4>1. \A q \in Paths : disk[q] \notin {Absent, Torn} => disk[q].item \in Items
        BY <1>0 DEF Contents
      <4> QED
        BY <1>0, <3>6, <4>1, MaxNIsNat DEF OpenBlob, Goto, Over
    <3>7. CASE NameTaken(p)
      <4>1. n[p] + 1 \in 0..MaxN
        BY <1>0, <3>7, NumberIsLeft, MaxNIsNat
      <4> QED
        BY <1>0, <3>7, <4>1 DEF NameTaken
    <3>8. CASE Create(p)
      <4>1. \A q \in Paths : disk'[q] \in Contents
        BY <1>0, <3>8 DEF Create, Contents
      <4> QED
        BY <1>0, <3>8, <4>1 DEF Create, Goto, Over
    <3>9. CASE Write(p)
      <4>1. PICK f \in Contents :
               /\ disk' = [disk EXCEPT ![Target(p)] = f]
               /\ saved' = saved \cup {[path |-> Target(p), file |-> f]}
        BY <3>9, WriteWrites
      <4>2. Target(p) \in Paths /\ left[p] \in 1..MaxItems
        BY <3>9, WriteFacts DEF Write, Goto, AtItem
      <4>3. /\ DOMAIN disk' = Paths /\ \A q \in Paths : disk'[q] \in Contents
            /\ saved' \in SUBSET [path : Paths, file : Contents]
        BY <1>0, <4>1, <4>2
      <4>4. /\ pc' = [pc EXCEPT ![p] = "next"] /\ left' = [left EXCEPT ![p] = @ - 1]
            /\ UNCHANGED <<keyFile, cmd, key, item, n>>
        BY <3>9 DEF Write, Goto
      <4>5. left[p] - 1 \in 0..MaxItems
        BY <4>2, VaultAssumption
      <4> QED
        BY <1>0, <4>3, <4>4, <4>5 DEF Over
    <3>10. CASE WriteFails(p)
      <4>1. left[p] - 1 \in 0..MaxItems
        BY <3>10, WriteFacts, VaultAssumption DEF WriteFails, Goto, AtItem
      <4> QED
        BY <1>0, <3>10, <4>1 DEF WriteFails, Goto, Over
    <3> QED
      BY <1>2, <3>1, <3>2, <3>3, <3>4, <3>5, <3>6, <3>7, <3>8, <3>9, <3>10 DEF Run
  <2>2. FewFiles'
    BY <1>2, FewFilesStep
  <2>3. ItemIsGiven' /\ KeyInHand'
    <3>1. \A q \in Procs \ {p} : /\ pc'[q] \in AtItem => item'[q] \in Items /\ left'[q] >= 1
                                 /\ pc'[q] \in AtItem \cup {"next"} => key'[q] \in Procs
      BY <1>0, <1>2, OthersKeep DEF ItemIsGiven, KeyInHand
    <3>2. /\ pc'[p] \in AtItem => item'[p] \in Items /\ left'[p] >= 1
          /\ pc'[p] \in AtItem \cup {"next"} => key'[p] \in Procs
      <4> USE DEF TypeOK, ItemIsGiven, KeyInHand, AtItem
      <4>1. CASE Start(p) \/ Kill(p)
        BY <1>0, <4>1 DEF Start, Kill
      <4>2. CASE CheckKey(p) \/ ReadKey(p) \/ MakeKey(p) \/ WriteKey(p) \/ KeyFails(p)
        BY <1>0, <4>2, VaultAssumption DEF CheckKey, ReadKey, MakeKey, WriteKey, KeyFails, Goto
      <4>3. CASE SkipItem(p) \/ NameTaken(p) \/ NameFree(p) \/ Create(p) \/ WriteFails(p) \/ Exit(p)
        BY <1>0, <4>3 DEF SkipItem, NameTaken, NameFree, Create, WriteFails, Exit, Goto
      <4>4. CASE TakeItem(p)
        BY <1>0, <4>4, VaultAssumption DEF TakeItem, Goto, Items
      <4>5. CASE OpenBlob(p)
        <5>1. \A q \in Paths : disk[q] \notin {Absent, Torn} => disk[q].item \in Items
          BY <1>0 DEF Contents
        <5> QED
          BY <1>0, <4>5, <5>1, VaultAssumption DEF OpenBlob, Goto
      <4>6. CASE Write(p)
        BY <1>0, <4>6 DEF Write, Goto
      <4> QED
        BY <1>2, <4>1, <4>2, <4>3, <4>4, <4>5, <4>6 DEF Run
    <3> QED
      BY <3>1, <3>2 DEF ItemIsGiven, KeyInHand
  <2>4. NumbersTried' /\ FileIsMade'
    <3> DEFINE Tried(q) == \A i \in 0..MaxN : i < n[q] => disk[[Target(q) EXCEPT !.nr = i]] # Absent
    <3>1. ASSUME NEW q \in Procs, item[q] \in Items, disk[Target(q)] # Absent
          PROVE  disk'[Target(q)] # Absent
      BY <1>0, <1>2, <3>1, TargetIsPath, FilesStay
    <3>2. ASSUME NEW q \in Procs, item[q] \in Items, Tried(q)
          PROVE  \A i \in 0..MaxN : i < n[q] => disk'[[Target(q) EXCEPT !.nr = i]] # Absent
      BY <1>0, <1>2, <3>2, TargetIsPath, FilesStay
    <3>3. ASSUME NEW q \in Procs, pc'[q] = "name" PROVE Tried(q)'
      <4>1. CASE pc[q] = "name" /\ UNCHANGED <<cmd[q], item[q], n[q]>>
        <5>1. Target(q)' = Target(q)
          BY <4>1 DEF Target
        <5>2. item[q] \in Items /\ Tried(q)
          BY <1>0, <4>1 DEF ItemIsGiven, NumbersTried, AtItem
        <5> QED
          BY <3>2, <4>1, <5>1, <5>2
      <4>2. CASE q = p /\ NameTaken(p)
        <5>1. /\ pc[p] = "name" /\ disk[Target(p)] # Absent /\ disk' = disk
              /\ cmd' = cmd /\ item' = item /\ n' = [n EXCEPT ![p] = @ + 1]
          BY <4>2 DEF NameTaken
        <5>2. item[p] \in Items /\ Tried(p)
          BY <1>0, <5>1 DEF ItemIsGiven, NumbersTried, AtItem
        <5>3. n[p] \in 0..MaxN /\ n'[p] = n[p] + 1
          BY <1>0, <5>1 DEF TypeOK
        <5>4. ASSUME NEW i \in 0..MaxN
              PROVE  [Target(p)' EXCEPT !.nr = i] = [Target(p) EXCEPT !.nr = i]
          BY <5>1 DEF Target
        <5>5. [Target(p) EXCEPT !.nr = n[p]] = Target(p)
          BY <1>0, <5>2, TargetIsPath
        <5>6. ASSUME NEW i \in 0..MaxN, i < n'[p]
              PROVE  disk'[[Target(p)' EXCEPT !.nr = i]] # Absent
          <6>1. i < n[p] \/ i = n[p]
            BY <5>3, <5>6, MaxNIsNat
          <6>2. disk[[Target(p) EXCEPT !.nr = i]] # Absent
            BY <5>1, <5>2, <5>5, <6>1
          <6> QED
            BY <5>1, <5>4, <6>2
        <5> QED
          BY <4>2, <5>6
      <4>3. CASE q = p /\ (TakeItem(p) \/ OpenBlob(p))
        <5>1. n'[p] = 0
          BY <1>0, <4>3 DEF TakeItem, OpenBlob, TypeOK
        <5> QED
          BY <4>3, <5>1
      <4>4. CASE q = p /\ ~NameTaken(p) /\ ~TakeItem(p) /\ ~OpenBlob(p)
        BY <1>0, <1>2, <3>3, <4>4
           DEF Start, Run, Kill, CheckKey, ReadKey, MakeKey, WriteKey, KeyFails, SkipItem,
               NameFree, Create, Write, WriteFails, Exit, Goto, TypeOK
      <4> QED
        BY <1>0, <1>2, <3>3, <4>1, <4>2, <4>3, <4>4, OthersKeep
    <3>4. ASSUME NEW q \in Procs, pc'[q] = "write" PROVE disk'[Target(q)'] # Absent
      <4>1. CASE pc[q] = "write" /\ UNCHANGED <<cmd[q], item[q], n[q]>>
        <5>1. Target(q)' = Target(q)
          BY <4>1 DEF Target
        <5>2. item[q] \in Items /\ disk[Target(q)] # Absent
          BY <1>0, <4>1 DEF ItemIsGiven, FileIsMade, AtItem
        <5> QED
          BY <3>1, <5>1, <5>2
      <4>2. CASE q = p /\ Create(p)
        <5>1. Target(p) \in Paths
          BY <4>2, WriteFacts DEF Create, Goto, AtItem
        <5>2. Target(p)' = Target(p)
          BY <4>2 DEF Create, Target
        <5> QED
          BY <1>0, <4>2, <5>1, <5>2, VaultAssumption DEF Create, TypeOK
      <4>3. CASE q = p /\ ~Create(p)
        BY <1>0, <1>2, <3>4, <4>3
           DEF Start, Run, Kill, CheckKey, ReadKey, MakeKey, WriteKey, KeyFails, SkipItem,
               TakeItem, OpenBlob, NameTaken, NameFree, Write, WriteFails, Exit, Goto, TypeOK
      <4> QED
        BY <1>0, <1>2, <3>4, <4>1, <4>2, <4>3, OthersKeep
    <3> QED
      BY <3>3, <3>4 DEF NumbersTried, FileIsMade
  <2> QED
    BY <2>1, <2>2, <2>3, <2>4 DEF VaultTypes
<1> QED
  BY <1>1, <1>2 DEF Next

\* The types hold in every behaviour, whether runs overlap or not.
LEMMA VaultTypesHold == Spec => []VaultTypes
  BY VaultInit, VaultTypesStep, PTL DEF Spec

-----------------------------------------------------------------------------
(* Runs that come one after the other.                                     *)

Rest == Over \cup {"idle"}

OneAtATime == \A p, q \in Procs : p # q => pc[p] \in Rest \/ pc[q] \in Rest

\* What the run under way has read or written of the key file is still there.
KeyIsCurrent ==
    \A p \in Procs : /\ pc[p] \in AtItem \cup {"next"} => key[p] = keyFile
                     /\ pc[p] = "makeKey" => keyFile = Absent
                     /\ pc[p] = "writeKey" => keyFile = Torn

\* And so is what it has found out about, or done to, the path it goes to.
PathIsCurrent ==
    \A p \in Procs : /\ pc[p] = "create" => disk[Target(p)] = Absent
                     /\ pc[p] = "write" => disk[Target(p)] = Torn

\* What is reported as saved was a whole file, in the vault one with a key.
SavedIsWhole ==
    \A s \in saved : /\ s.file \notin {Absent, Torn}
                     /\ s.path.dir = "vault" => s.file.key \in Procs

SoloInv ==
    /\ OneAtATime /\ KeyIsCurrent /\ PathIsCurrent /\ SavedIsWhole
    /\ SavedSurvives /\ SavedOpens

\* Nothing has run.
LEMMA SoloInit == Init => SoloInv
  BY DEF Init, SoloInv, OneAtATime, Rest, KeyIsCurrent, PathIsCurrent, SavedIsWhole,
         SavedSurvives, SavedOpens, AtItem

\* A run that takes a step is the only one under way afterwards.
LEMMA StepIsAlone ==
  ASSUME ~Overlap, VaultTypes, OneAtATime, NEW p \in Procs, Start(p) \/ Run(p) \/ Kill(p)
  PROVE  /\ \A q \in Procs \ {p} : pc'[q] \in Rest
         /\ OneAtATime'
<1>0. TypeOK
  BY DEF VaultTypes
<1>1. \A q \in Procs \ {p} : pc[q] \in Rest
  <2>1. CASE Start(p)
    BY <2>1 DEF Start, Rest
  <2>2. CASE Run(p) \/ Kill(p)
    <3>1. pc[p] \notin Rest
      BY <2>2 DEF Run, Kill, CheckKey, ReadKey, MakeKey, WriteKey, KeyFails, SkipItem, TakeItem,
                  OpenBlob, NameTaken, NameFree, Create, Write, WriteFails, Exit, Goto, Rest, Over
    <3> QED
      BY <3>1 DEF OneAtATime
  <2> QED
    BY <2>1, <2>2
<1>2. \A q \in Procs \ {p} : pc'[q] \in Rest
  BY <1>0, <1>1, OthersKeep
<1> QED
  BY <1>2 DEF OneAtATime

\* The key file and the run's knowledge of it.
LEMMA KeyStep ==
  ASSUME ~Overlap, VaultTypes, SoloInv, NEW p \in Procs, Start(p) \/ Run(p) \/ Kill(p)
  PROVE  /\ keyFile \in Procs => keyFile' = keyFile
         /\ KeyIsCurrent'
<1>0. TypeOK /\ KeyIsCurrent /\ KeyInHand
  BY DEF VaultTypes, SoloInv
<1>1. \A q \in Procs \ {p} : pc'[q] \in Rest
  BY StepIsAlone DEF SoloInv
<1>2. /\ keyFile \in Procs => keyFile' = keyFile
      /\ pc'[p] \in AtItem \cup {"next"} => key'[p] = keyFile'
      /\ pc'[p] = "makeKey" => keyFile' = Absent
      /\ pc'[p] = "writeKey" => keyFile' = Torn
  <2> USE DEF TypeOK, KeyIsCurrent, AtItem
  <2>1. CASE Start(p) \/ Kill(p)
    BY <1>0, <2>1 DEF Start, Kill
  <2>2. CASE CheckKey(p) \/ ReadKey(p) \/ MakeKey(p) \/ WriteKey(p) \/ KeyFails(p)
    BY <1>0, <2>2, VaultAssumption DEF CheckKey, ReadKey, MakeKey, WriteKey, KeyFails, Goto
  <2>3. CASE SkipItem(p) \/ NameTaken(p) \/ NameFree(p) \/ TakeItem(p) \/ OpenBlob(p)
    BY <1>0, <2>3 DEF SkipItem, NameTaken, NameFree, TakeItem, OpenBlob, Goto
  <2>4. CASE Create(p) \/ Write(p) \/ WriteFails(p) \/ Exit(p)
    BY <1>0, <2>4 DEF Create, Write, WriteFails, Exit, Goto
  <2> QED
    BY <2>1, <2>2, <2>3, <2>4 DEF Run
<1> QED
  BY <1>1, <1>2 DEF KeyIsCurrent, AtItem, Rest, Over

\* The path the run goes to.
LEMMA PathStep ==
  ASSUME ~Overlap, VaultTypes, SoloInv, NEW p \in Procs, Start(p) \/ Run(p) \/ Kill(p)
  PROVE  PathIsCurrent'
<1>0. TypeOK /\ PathIsCurrent
  BY DEF VaultTypes, SoloInv
<1>1. \A q \in Procs \ {p} : pc'[q] \in Rest
  BY StepIsAlone DEF SoloInv
<1>2. /\ pc'[p] = "create" => disk'[Target(p)'] = Absent
      /\ pc'[p] = "write" => disk'[Target(p)'] = Torn
  <2>1. CASE Create(p)
    <3>1. Target(p) \in Paths /\ Target(p)' = Target(p)
      BY <2>1, WriteFacts DEF Create, Goto, AtItem, Target
    <3> QED
      BY <1>0, <2>1, <3>1 DEF Create, Goto, TypeOK
  <2>2. CASE NameFree(p)
    <3>1. Target(p)' = Target(p)
      BY <2>2 DEF NameFree, Target
    <3> QED
      BY <1>0, <2>2, <3>1 DEF NameFree, Goto, TypeOK
  <2>3. CASE ~Create(p) /\ ~NameFree(p)
    <3>1. pc'[p] \notin {"create", "write"}
      BY <1>0, <2>3
         DEF Start, Run, Kill, CheckKey, ReadKey, MakeKey, WriteKey, KeyFails, SkipItem,
             TakeItem, OpenBlob, NameTaken, Write, WriteFails, Exit, Goto, TypeOK
    <3> QED
      BY <3>1
  <2> QED
    BY <2>1, <2>2, <2>3
<1> QED
  BY <1>1, <1>2 DEF PathIsCurrent, Rest, Over

\* What has been reported, and what a write adds to it.
LEMMA SavedStep ==
  ASSUME ~Overlap, VaultTypes, SoloInv, NEW p \in Procs, Start(p) \/ Run(p) \/ Kill(p)
  PROVE  SavedIsWhole' /\ SavedSurvives' /\ SavedOpens'
<1>0. /\ TypeOK /\ PathIsCurrent /\ KeyIsCurrent /\ SavedIsWhole /\ SavedSurvives /\ SavedOpens
  BY DEF VaultTypes, SoloInv
<1>1. \A s \in saved : s.path \in Paths
  BY <1>0 DEF TypeOK
<1>2. CASE Write(p)
  <2>1. PICK f \in Contents \ {Absent, Torn} :
           /\ disk' = [disk EXCEPT ![Target(p)] = f]
           /\ saved' = saved \cup {[path |-> Target(p), file |-> f]}
           /\ f.key = IF cmd[p] = "save" THEN key[p] ELSE NoKey
    BY <1>2, WriteWrites
  <2>2. /\ pc[p] = "write" /\ keyFile' = keyFile
        /\ disk[Target(p)] = Torn /\ key[p] = keyFile /\ key[p] \in Procs
        /\ Target(p) \in Paths
    BY <1>0, <1>2, WriteFacts DEF Write, Goto, AtItem, PathIsCurrent, KeyIsCurrent
  <2>3. Target(p).dir = "vault" => f.key = key[p]
    BY <2>1 DEF Target
  <2>4. \A s \in saved : s.path # Target(p)
    BY <1>0, <2>2 DEF SavedIsWhole, SavedSurvives
  <2>5. DOMAIN disk = Paths
    BY <1>0 DEF TypeOK
  <2> DEFINE new == [path |-> Target(p), file |-> f]
  <2>6. /\ new.path = Target(p) /\ new.file = f
        /\ \A s \in saved' : s \in saved \/ s = new
    BY <2>1
  <2> HIDE DEF new
  <2>7. SavedIsWhole'
    BY <1>0, <2>1, <2>2, <2>3, <2>6 DEF SavedIsWhole
  <2>8. SavedSurvives'
    BY <1>0, <1>1, <2>1, <2>2, <2>4, <2>5, <2>6 DEF SavedSurvives
  <2>9. SavedOpens'
    BY <1>0, <2>2, <2>3, <2>6 DEF SavedOpens
  <2> QED
    BY <2>7, <2>8, <2>9
<1>3. CASE Create(p)
  <2>1. /\ disk[Target(p)] = Absent /\ saved' = saved /\ keyFile' = keyFile
        /\ disk' = [disk EXCEPT ![Target(p)] = Torn]
    BY <1>0, <1>3 DEF Create, Goto, PathIsCurrent
  <2>2. \A s \in saved : s.path # Target(p)
    BY <1>0, <2>1 DEF SavedIsWhole, SavedSurvives
  <2> QED
    BY <1>0, <1>1, <2>1, <2>2 DEF SavedIsWhole, SavedSurvives, SavedOpens, TypeOK
<1>4. CASE ~Write(p) /\ ~Create(p)
  <2>1. disk' = disk /\ saved' = saved
    BY <1>4 DEF Start, Run, Kill, CheckKey, ReadKey, MakeKey, WriteKey, KeyFails, SkipItem,
                TakeItem, OpenBlob, NameTaken, NameFree, WriteFails, Exit
  <2>2. \A s \in saved : s.path.dir = "vault" => s.file.key = keyFile'
    BY <1>0, KeyStep DEF SavedOpens, SavedIsWhole
  <2> QED
    BY <1>0, <2>1, <2>2 DEF SavedIsWhole, SavedSurvives, SavedOpens
<1> QED
  BY <1>2, <1>3, <1>4

\* Every step keeps the invariant.
LEMMA SoloStep ==
  ASSUME ~Overlap
  PROVE  VaultTypes /\ SoloInv /\ [Next]_vars => SoloInv'
<1> SUFFICES ASSUME VaultTypes, SoloInv, [Next]_vars PROVE SoloInv'
  OBVIOUS
<1>1. CASE UNCHANGED vars
  BY <1>1 DEF vars, SoloInv, OneAtATime, KeyIsCurrent, PathIsCurrent, Target, SavedIsWhole,
              SavedSurvives, SavedOpens
<1>2. ASSUME NEW p \in Procs, Start(p) \/ Run(p) \/ Kill(p) PROVE SoloInv'
  BY <1>2, StepIsAlone, KeyStep, PathStep, SavedStep DEF SoloInv
<1> QED
  BY <1>1, <1>2 DEF Next

\* Of runs that do not overlap the invariant holds in every behaviour.
LEMMA SoloHolds ==
  ASSUME ~Overlap
  PROVE  Spec => []SoloInv
<1>1. VaultTypes /\ SoloInv /\ [Next]_vars => SoloInv'
  BY SoloStep
<1> QED
  BY <1>1, SoloInit, VaultTypesHold, PTL DEF Spec

-----------------------------------------------------------------------------

\* Every variable of the vault keeps its type, even if runs overlap; above all,
\* unique_path never runs out of the numbers 0..MaxN.
THEOREM TypeCorrect == Spec => []TypeOK
<1>1. VaultTypes => TypeOK
  BY DEF VaultTypes
<1> QED
  BY <1>1, VaultTypesHold, PTL

\* What non-overlapping runs have reported as saved or opened stays as it is where it is,
\* whatever is killed or fails later on.
THEOREM SavedAlwaysSurvives ==
  ASSUME ~Overlap
  PROVE  Spec => []SavedSurvives
<1>1. SoloInv => SavedSurvives
  BY DEF SoloInv
<1> QED
  BY <1>1, SoloHolds, PTL

\* It can always be opened with the key in the key file.
THEOREM SavedAlwaysOpens ==
  ASSUME ~Overlap
  PROVE  Spec => []SavedOpens
<1>1. SoloInv => SavedOpens
  BY DEF SoloInv
<1> QED
  BY <1>1, SoloHolds, PTL

\* And that key is never replaced.
THEOREM KeyStaysForever ==
  ASSUME ~Overlap
  PROVE  Spec => KeyIsForever
<1>1. VaultTypes /\ SoloInv /\ [Next]_vars => [(keyFile \in Procs) => (keyFile' = keyFile)]_vars
  BY KeyStep DEF Next, vars
<1> QED
  BY <1>1, SoloHolds, VaultTypesHold, PTL DEF Spec, KeyIsForever
=============================================================================
