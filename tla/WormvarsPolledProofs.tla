------------------------ MODULE WormvarsPolledProofs ------------------------
(***************************************************************************)
(* What is proved of wormvars holds in the main loop that WormvarsPolled   *)
(* describes; the loops of findRelocSector, whatever FLASH and the index   *)
(* hold, find the sector that Wormvars says; and a relocation that keeps   *)
(* up with the writes of the application always finds room.                *)
(***************************************************************************)
EXTENDS WormvarsSafetyProofs, WormvarsPace, WellFoundedInduction

-----------------------------------------------------------------------------
(* Every step of the main loop is one of wormvars.                         *)
LEMMA PolledIsWormvars == PolledSpec => Spec
<1>1. PolledInit => Init
  BY DEF PolledInit
<1>2. [PolledNext]_polledVars => [Next]_vars
  BY DEF PolledNext, SteadyNext, Fail, Continue, PacedWrite, EarlyWrite, Write, Poll,
         PollBusy, Turn, Next, polledVars
<1> QED BY <1>1, <1>2, PTL DEF PolledSpec, Spec

(* Torn copies are power failures.                                         *)
LEMMA PacedIsPolled == PacedSpec => PolledSpec
<1>1. PacedInit => PolledInit
  BY DEF PacedInit
<1>2. [PacedNext]_pacedVars => [PolledNext]_polledVars
  BY DEF PacedNext, pacedVars
<1> QED BY <1>1, <1>2, PTL DEF PacedSpec, PolledSpec

-----------------------------------------------------------------------------
(* Induction, over numbers that belong to a set. *)
LEMMA Least ==
  ASSUME NEW T, T \subseteq Nat, T # {}
  PROVE  \E n \in T : \A m \in T : ~(m < n)
<1> DEFINE R == {ss \in Nat \X Nat : ss[1] < ss[2]}
<1>1. IsWellFoundedOn(R, Nat)
  BY NatLessThanWellFounded DEF OpToRel
<1> HIDE DEF R
<1>2. PICK n \in T : \A m \in T : ~(<<m, n>> \in R)
  BY <1>1, WFMin
<1>3. ASSUME NEW m \in T PROVE ~(m < n)
  BY <1>2 DEF R
<1> QED BY <1>2, <1>3

LEMMA Induction ==
  ASSUME NEW N \in Nat, NEW P, 0 \in P, \A k \in 0 .. N - 1 : k \in P => k + 1 \in P
  PROVE  0 .. N \subseteq P
<1> SUFFICES ASSUME NEW x \in 0 .. N, x \notin P PROVE FALSE
  OBVIOUS
<1> DEFINE T == (0 .. N) \ P
<1>0. T \subseteq Nat /\ T # {}
  OBVIOUS
<1>1. PICK n \in T : \A m \in T : ~(m < n)
  <2> HIDE DEF T
  <2> QED BY <1>0, Least
<1>2. n # 0 /\ n - 1 \in 0 .. N - 1 /\ n - 1 \in 0 .. N /\ n - 1 < n /\ (n - 1) + 1 = n
  BY <1>1
<1>3. n - 1 \in P
  BY <1>1, <1>2
<1>4. (n - 1) + 1 \in P
  BY <1>2, <1>3
<1> QED BY <1>1, <1>2, <1>4

(* There is a function that keeps the values of a loop after each turn. *)
IsLoop(f, n, base, step) ==
  f = [k \in 0 .. n |-> IF k = 0 THEN base ELSE step[k - 1][f[k - 1]]]

LEMMA Recursion ==
  ASSUME NEW S, NEW base \in S, NEW N \in Nat,
         NEW step \in [0 .. N - 1 -> [S -> S]]
  PROVE  \E f \in [0 .. N -> S] : IsLoop(f, N, base, step)
<1> DEFINE Is(f, n) ==
             /\ f \in [0 .. n -> S]
             /\ IsLoop(f, n, base, step)
           P == {n \in 0 .. N : \E f \in [0 .. n -> S] : Is(f, n)}
<1>1. 0 \in P
  <2> DEFINE f == [k \in 0 .. 0 |-> base]
  <2>1. f \in [0 .. 0 -> S] /\ \A k \in 0 .. 0 : k = 0
    OBVIOUS
  <2>2. f = [k \in 0 .. 0 |-> IF k = 0 THEN base ELSE step[k - 1][f[k - 1]]]
    BY <2>1
  <2>3. Is(f, 0)
    BY <2>1, <2>2 DEF IsLoop
  <2> HIDE DEF Is, f
  <2>4. 0 \in 0 .. N
    OBVIOUS
  <2>5. f \in [0 .. 0 -> S]
    BY <2>1 DEF f
  <2> QED BY <2>3, <2>4, <2>5
<1>2. ASSUME NEW n \in 0 .. N - 1, n \in P PROVE n + 1 \in P
  <2>1. PICK f \in [0 .. n -> S] : Is(f, n)
    BY <1>2
  <2> DEFINE g == [k \in 0 .. n + 1 |-> IF k = n + 1 THEN step[n][f[n]] ELSE f[k]]
  <2>2. n \in Nat /\ n \in 0 .. n /\ \A k \in 0 .. n + 1 : k # n + 1 => k \in 0 .. n
    OBVIOUS
  <2>3. step[n][f[n]] \in S
    BY <2>2
  <2>4. g \in [0 .. n + 1 -> S]
    BY <2>2, <2>3
  <2>5. ASSUME NEW k \in 0 .. n + 1
        PROVE  g[k] = IF k = 0 THEN base ELSE step[k - 1][g[k - 1]]
    <3>1. CASE k = n + 1
      <4>1. k # 0 /\ k - 1 = n /\ n \in 0 .. n + 1 /\ n # n + 1
        BY <3>1, <2>2
      <4>2. g[n] = f[n]
        BY <4>1
      <4> QED BY <3>1, <4>1, <4>2
    <3>2. CASE k # n + 1
      <4>1. k \in 0 .. n /\ g[k] = f[k]
        BY <2>2, <3>2
      <4>2. k # 0 => k - 1 \in 0 .. n + 1 /\ k - 1 # n + 1 /\ k - 1 \in 0 .. n
        BY <4>1
      <4>3. f[k] = IF k = 0 THEN base ELSE step[k - 1][f[k - 1]]
        BY <2>1, <4>1 DEF IsLoop
      <4> QED BY <4>1, <4>2, <4>3
    <3> QED BY <3>1, <3>2
  <2>6. Is(g, n + 1)
    <3> HIDE DEF g
    <3> QED BY <2>4, <2>5 DEF IsLoop
  <2>7. n + 1 \in 0 .. N
    OBVIOUS
  <2> HIDE DEF Is, g
  <2> QED BY <2>4, <2>6, <2>7
<1> HIDE DEF Is
<1>3. N \in P
  <2> HIDE DEF P
  <2>1. 0 .. N \subseteq P
    BY <1>1, <1>2, Induction
  <2> QED BY <2>1
<1> QED BY <1>3 DEF Is
-----------------------------------------------------------------------------
(* The locals of findRelocSector after each turn of its loops. *)
LocalsType == [blankSectors : Nat, full : [Sectors -> 0 .. 1],
               fd_count : [Sectors -> Nat], fd_min : Nat, reloc : Sectors]

LEMMA SectorFacts ==
  ASSUME TypeOK
  PROVE  /\ FS_NUM_SECTORS \in Nat \ {0} /\ FDS_PER_SECTOR \in Nat /\ FDS_PER_SECTOR > 0
         /\ 0 \in Sectors /\ currSector \in Sectors /\ currAddress \in [Sectors -> Nat]
         /\ fd_index \in Nat
         /\ \A i \in 0 .. fd_index - 1 : fd[i].sector \in Sectors
BY Geometry DEF TypeOK, Sectors, FdIndexes, FileDescriptor

LEMMA LocalsFit == TypeOK => Locals \in LocalsType
BY SectorFacts DEF Locals, LocalsType

LEMMA LookAtFits ==
  ASSUME TypeOK, NEW l \in LocalsType, NEW s \in Sectors
  PROVE  LookAt(l, s) \in LocalsType
BY DEF LookAt, LocalsType

LEMMA HistogramFits ==
  ASSUME TypeOK, NEW l \in LocalsType, NEW i \in 0 .. fd_index - 1
  PROVE  Histogram(l, i) \in LocalsType
<1>1. fd[i].sector \in Sectors
  BY SectorFacts
<1> QED BY <1>1 DEF Histogram, LocalsType

LEMMA WinnerFits ==
  ASSUME TypeOK, NEW l \in LocalsType, NEW k \in Sectors
  PROVE  Winner(l, k) \in LocalsType
<1> DEFINE s == (currSector + k) % FS_NUM_SECTORS
<1>1. s \in Sectors
  BY SectorFacts DEF Sectors
<1> HIDE DEF s
<1>2. l.fd_count[s] \in Nat
  BY <1>1 DEF LocalsType
<1> QED BY <1>1, <1>2 DEF Winner, LocalsType, s

LEMMA LookedIs ==
  ASSUME TypeOK
  PROVE  /\ Looked[0] = Locals
         /\ \A k \in 0 .. FS_NUM_SECTORS - 1 : Looked[k + 1] = LookAt(Looked[k], k)
         /\ \A k \in 0 .. FS_NUM_SECTORS : Looked[k] \in LocalsType
<1> DEFINE N == FS_NUM_SECTORS
           step == [s \in 0 .. N - 1 |-> [l \in LocalsType |-> LookAt(l, s)]]
<1>1. N \in Nat /\ Sectors = 0 .. N - 1
  BY Geometry DEF Sectors
<1>2. step \in [0 .. N - 1 -> [LocalsType -> LocalsType]]
  BY <1>1, LookAtFits
<1>3. Locals \in LocalsType
  BY LocalsFit
<1>4. PICK f \in [0 .. N -> LocalsType] : IsLoop(f, N, Locals, step)
  <2> HIDE DEF step, N
  <2> QED BY <1>1, <1>2, <1>3, Recursion
<1>5. \A k \in 0 .. N : k # 0 => k - 1 \in 0 .. N - 1 /\ k - 1 \in 0 .. N
  BY <1>1
<1>6. f = [k \in 0 .. N |-> IF k = 0 THEN Locals ELSE LookAt(f[k - 1], k - 1)]
  <2>1. \A k \in 0 .. N : k # 0 => step[k - 1][f[k - 1]] = LookAt(f[k - 1], k - 1)
    BY <1>5
  <2> HIDE DEF step
  <2> QED BY <1>4, <2>1 DEF IsLoop
<1>7. Looked = [k \in 0 .. N |-> IF k = 0 THEN Locals ELSE LookAt(Looked[k - 1], k - 1)]
  BY <1>6 DEF Looked
<1>8. /\ Looked[0] = Locals
      /\ \A k \in 0 .. N - 1 : Looked[k + 1] = LookAt(Looked[k], k)
  <2>1. 0 \in 0 .. N
    BY <1>1
  <2>2. \A k \in 0 .. N - 1 : k + 1 \in 0 .. N /\ k + 1 # 0 /\ (k + 1) - 1 = k
    BY <1>1
  <2> QED BY <1>7, <2>1, <2>2
<1> DEFINE P == {k \in 0 .. N : Looked[k] \in LocalsType}
<1>9. 0 \in P
  BY <1>1, <1>3, <1>8
<1>10. ASSUME NEW k \in 0 .. N - 1, k \in P PROVE k + 1 \in P
  <2>1. Looked[k + 1] \in LocalsType /\ k + 1 \in 0 .. N
    BY <1>1, <1>8, <1>10, LookAtFits
  <2> QED BY <2>1
<1>11. 0 .. N \subseteq P
  <2> HIDE DEF P, N
  <2> QED BY <1>1, <1>9, <1>10, Induction
<1> QED BY <1>8, <1>11

LEMMA CountedIs ==
  ASSUME TypeOK
  PROVE  /\ Counted[0] = Looked[FS_NUM_SECTORS]
         /\ \A k \in 0 .. fd_index - 1 : Counted[k + 1] = Histogram(Counted[k], k)
         /\ \A k \in 0 .. fd_index : Counted[k] \in LocalsType
<1> DEFINE N == fd_index
           step == [s \in 0 .. N - 1 |-> [l \in LocalsType |-> Histogram(l, s)]]
<1>1. N \in Nat
  BY SectorFacts
<1>2. step \in [0 .. N - 1 -> [LocalsType -> LocalsType]]
  BY <1>1, HistogramFits
<1>3. Looked[FS_NUM_SECTORS] \in LocalsType
  BY LookedIs, Geometry
<1>4. PICK f \in [0 .. N -> LocalsType] : IsLoop(f, N, Looked[FS_NUM_SECTORS], step)
  <2> HIDE DEF step, N
  <2> QED BY <1>1, <1>2, <1>3, Recursion
<1>5. \A k \in 0 .. N : k # 0 => k - 1 \in 0 .. N - 1 /\ k - 1 \in 0 .. N
  BY <1>1
<1>6. f = [k \in 0 .. N |-> IF k = 0 THEN Looked[FS_NUM_SECTORS] ELSE Histogram(f[k - 1], k - 1)]
  <2>1. \A k \in 0 .. N : k # 0 => step[k - 1][f[k - 1]] = Histogram(f[k - 1], k - 1)
    BY <1>5
  <2> HIDE DEF step
  <2> QED BY <1>4, <2>1 DEF IsLoop
<1>7. Counted = [k \in 0 .. N |-> IF k = 0 THEN Looked[FS_NUM_SECTORS] ELSE Histogram(Counted[k - 1], k - 1)]
  BY <1>6 DEF Counted
<1>8. /\ Counted[0] = Looked[FS_NUM_SECTORS]
      /\ \A k \in 0 .. N - 1 : Counted[k + 1] = Histogram(Counted[k], k)
  <2>1. 0 \in 0 .. N
    BY <1>1
  <2>2. \A k \in 0 .. N - 1 : k + 1 \in 0 .. N /\ k + 1 # 0 /\ (k + 1) - 1 = k
    BY <1>1
  <2> QED BY <1>7, <2>1, <2>2
<1> DEFINE P == {k \in 0 .. N : Counted[k] \in LocalsType}
<1>9. 0 \in P
  BY <1>1, <1>3, <1>8
<1>10. ASSUME NEW k \in 0 .. N - 1, k \in P PROVE k + 1 \in P
  <2>1. Counted[k + 1] \in LocalsType /\ k + 1 \in 0 .. N
    BY <1>1, <1>8, <1>10, HistogramFits
  <2> QED BY <2>1
<1>11. 0 .. N \subseteq P
  <2> HIDE DEF P, N
  <2> QED BY <1>1, <1>9, <1>10, Induction
<1> QED BY <1>8, <1>11

LEMMA ChosenIs ==
  ASSUME TypeOK
  PROVE  /\ Chosen[0] = Counted[fd_index]
         /\ \A k \in 0 .. FS_NUM_SECTORS - 1 : Chosen[k + 1] = Winner(Chosen[k], k)
         /\ \A k \in 0 .. FS_NUM_SECTORS : Chosen[k] \in LocalsType
<1> DEFINE N == FS_NUM_SECTORS
           step == [s \in 0 .. N - 1 |-> [l \in LocalsType |-> Winner(l, s)]]
<1>1. N \in Nat /\ Sectors = 0 .. N - 1
  BY Geometry DEF Sectors
<1>2. step \in [0 .. N - 1 -> [LocalsType -> LocalsType]]
  BY <1>1, WinnerFits
<1>3. Counted[fd_index] \in LocalsType
  BY CountedIs, SectorFacts
<1>4. PICK f \in [0 .. N -> LocalsType] : IsLoop(f, N, Counted[fd_index], step)
  <2> HIDE DEF step, N
  <2> QED BY <1>1, <1>2, <1>3, Recursion
<1>5. \A k \in 0 .. N : k # 0 => k - 1 \in 0 .. N - 1 /\ k - 1 \in 0 .. N
  BY <1>1
<1>6. f = [k \in 0 .. N |-> IF k = 0 THEN Counted[fd_index] ELSE Winner(f[k - 1], k - 1)]
  <2>1. \A k \in 0 .. N : k # 0 => step[k - 1][f[k - 1]] = Winner(f[k - 1], k - 1)
    BY <1>5
  <2> HIDE DEF step
  <2> QED BY <1>4, <2>1 DEF IsLoop
<1>7. Chosen = [k \in 0 .. N |-> IF k = 0 THEN Counted[fd_index] ELSE Winner(Chosen[k - 1], k - 1)]
  BY <1>6 DEF Chosen
<1>8. /\ Chosen[0] = Counted[fd_index]
      /\ \A k \in 0 .. N - 1 : Chosen[k + 1] = Winner(Chosen[k], k)
  <2>1. 0 \in 0 .. N
    BY <1>1
  <2>2. \A k \in 0 .. N - 1 : k + 1 \in 0 .. N /\ k + 1 # 0 /\ (k + 1) - 1 = k
    BY <1>1
  <2> QED BY <1>7, <2>1, <2>2
<1> DEFINE P == {k \in 0 .. N : Chosen[k] \in LocalsType}
<1>9. 0 \in P
  BY <1>1, <1>3, <1>8
<1>10. ASSUME NEW k \in 0 .. N - 1, k \in P PROVE k + 1 \in P
  <2>1. Chosen[k + 1] \in LocalsType /\ k + 1 \in 0 .. N
    BY <1>1, <1>8, <1>10, WinnerFits
  <2> QED BY <2>1
<1>11. 0 .. N \subseteq P
  <2> HIDE DEF P, N
  <2> QED BY <1>1, <1>9, <1>10, Induction
<1> QED BY <1>8, <1>11

-----------------------------------------------------------------------------
(* The first loop: the blank sectors are counted until there are enough,   *)
(* and the full ones marked.                                               *)
Seen(k) == {s \in Sectors \ {currSector} : SECTOR_IS_BLANK(s) /\ s < k}

LookInv(k) ==
  LET l == Looked[k]
  IN  /\ l.fd_count = [s \in Sectors |-> 0]
      /\ l.fd_min = FDS_PER_SECTOR /\ l.reloc = 0
      /\ IF Enough(l) THEN Cardinality(Seen(k)) >= FS_MIN_BLANKSECTORS
         ELSE /\ l.blankSectors = Cardinality(Seen(k))
              /\ Cardinality(Seen(k)) < FS_MIN_BLANKSECTORS
              /\ \A s \in Sectors :
                   l.full[s] = IF s < k /\ s # currSector /\ SECTOR_IS_FULL(s)
                               THEN 1 ELSE 0

LEMMA SeenCounts ==
  ASSUME TypeOK, NEW k \in 0 .. FS_NUM_SECTORS
  PROVE  IsFiniteSet(Seen(k)) /\ Cardinality(Seen(k)) \in Nat
<1>1. IsFiniteSet(Sectors)
  BY FS_Interval, Geometry DEF Sectors
<1>2. Seen(k) \subseteq Sectors
  BY DEF Seen
<1> QED BY <1>1, <1>2, FS_Subset, FS_CardinalityType

LEMMA NextSeen ==
  ASSUME TypeOK, NEW k \in Sectors
  PROVE  /\ Seen(k + 1) = IF k # currSector /\ SECTOR_IS_BLANK(k)
                          THEN Seen(k) \cup {k} ELSE Seen(k)
         /\ Cardinality(Seen(k + 1)) = IF k # currSector /\ SECTOR_IS_BLANK(k)
                                       THEN Cardinality(Seen(k)) + 1
                                       ELSE Cardinality(Seen(k))
<1>1. Seen(k + 1) = IF k # currSector /\ SECTOR_IS_BLANK(k)
                    THEN Seen(k) \cup {k} ELSE Seen(k)
  <2>1. \A s \in Sectors : s < k + 1 <=> s < k \/ s = k
    BY Geometry DEF Sectors
  <2> QED BY <2>1 DEF Seen
<1>2. k \notin Seen(k) /\ IsFiniteSet(Seen(k))
  <2>1. k \in 0 .. FS_NUM_SECTORS /\ ~(k < k)
    BY Geometry DEF Sectors
  <2> QED BY <2>1, SeenCounts DEF Seen
<1>3. Cardinality(Seen(k) \cup {k}) = Cardinality(Seen(k)) + 1
  BY <1>2, FS_AddElement
<1> QED BY <1>1, <1>3

LEMMA LookInvInit == TypeOK => LookInv(0)
<1> SUFFICES ASSUME TypeOK PROVE LookInv(0)
  OBVIOUS
<1>1. Seen(0) = {}
  BY Geometry DEF Seen, Sectors
<1>2. Cardinality(Seen(0)) = 0
  BY <1>1, FS_EmptySet
<1>3. \A s \in Sectors : ~(s < 0)
  BY Geometry DEF Sectors
<1>4. Looked[0] = Locals
  BY LookedIs
<1>5. ~Enough(Locals) /\ 0 < FS_MIN_BLANKSECTORS
  BY Geometry DEF Enough, Locals
<1> QED BY <1>2, <1>3, <1>4, <1>5 DEF LookInv, Locals

LEMMA LookInvStep ==
  ASSUME TypeOK, NEW k \in 0 .. FS_NUM_SECTORS - 1, LookInv(k)
  PROVE  LookInv(k + 1)
<1> DEFINE l == Looked[k]
           m == Looked[k + 1]
           C == Cardinality(Seen(k))
           D == Cardinality(Seen(k + 1))
<1>1. /\ k \in Sectors /\ k \in 0 .. FS_NUM_SECTORS
      /\ k + 1 \in 0 .. FS_NUM_SECTORS /\ FS_MIN_BLANKSECTORS \in Nat
  BY Geometry DEF Sectors
<1>2. m = LookAt(l, k) /\ l \in LocalsType
  BY <1>1, LookedIs
<1>3. C \in Nat /\ D \in Nat
      /\ D = IF k # currSector /\ SECTOR_IS_BLANK(k) THEN C + 1 ELSE C
  BY <1>1, SeenCounts, NextSeen
<1>4. /\ l.fd_count = [s \in Sectors |-> 0] /\ l.fd_min = FDS_PER_SECTOR /\ l.reloc = 0
      /\ Enough(l) => C >= FS_MIN_BLANKSECTORS
      /\ ~Enough(l) => /\ l.blankSectors = C /\ C < FS_MIN_BLANKSECTORS
                       /\ \A s \in Sectors :
                            l.full[s] = IF s < k /\ s # currSector /\ SECTOR_IS_FULL(s)
                                        THEN 1 ELSE 0
  BY DEF LookInv
<1> HIDE DEF l, m, C, D
<1>5. /\ m.fd_count = [s \in Sectors |-> 0] /\ m.fd_min = FDS_PER_SECTOR /\ m.reloc = 0
      /\ m.blankSectors = IF ~Enough(l) /\ k # currSector /\ SECTOR_IS_BLANK(k)
                          THEN l.blankSectors + 1 ELSE l.blankSectors
      /\ m.full = IF ~Enough(l) /\ k # currSector /\ ~SECTOR_IS_BLANK(k)
                     /\ SECTOR_IS_FULL(k)
                  THEN [l.full EXCEPT ![k] = 1] ELSE l.full
  BY <1>2, <1>4 DEF LookAt, LocalsType
<1>6. CASE Enough(l)
  <2>1. Enough(m) /\ D >= FS_MIN_BLANKSECTORS
    BY <1>1, <1>3, <1>4, <1>5, <1>6 DEF Enough
  <2> QED BY <1>5, <2>1 DEF LookInv, m, D
<1>7. CASE ~Enough(l)
  <2>1. /\ m.blankSectors = D
        /\ IF Enough(m) THEN D >= FS_MIN_BLANKSECTORS ELSE D < FS_MIN_BLANKSECTORS
    BY <1>1, <1>3, <1>4, <1>5, <1>7 DEF Enough
  <2>2. ASSUME NEW s \in Sectors
        PROVE  m.full[s] = IF s < k + 1 /\ s # currSector /\ SECTOR_IS_FULL(s)
                           THEN 1 ELSE 0
    <3>1. s < k + 1 <=> s < k \/ s = k
      BY <1>1 DEF Sectors
    <3>2. SECTOR_IS_BLANK(k) => ~SECTOR_IS_FULL(k)
      BY <1>1, SectorFacts DEF SECTOR_IS_BLANK, SECTOR_IS_FULL
    <3>3. l.full \in [Sectors -> 0 .. 1] /\ ~(k < k)
      BY <1>1, <1>2 DEF LocalsType, Sectors
    <3>4. CASE s = k
      BY <1>1, <1>4, <1>5, <1>7, <3>1, <3>2, <3>3, <3>4
    <3>5. CASE s # k
      BY <1>1, <1>4, <1>5, <1>7, <3>1, <3>3, <3>5
    <3> QED BY <3>4, <3>5
  <2> QED BY <1>5, <2>1, <2>2 DEF LookInv, m, D
<1> QED BY <1>6, <1>7

LEMMA LookInvHolds == TypeOK => LookInv(FS_NUM_SECTORS)
<1> SUFFICES ASSUME TypeOK PROVE LookInv(FS_NUM_SECTORS)
  OBVIOUS
<1> DEFINE N == FS_NUM_SECTORS
           P == {k \in 0 .. N : LookInv(k)}
<1>1. N \in Nat /\ 0 \in 0 .. N /\ N \in 0 .. N /\ \A k \in 0 .. N - 1 : k + 1 \in 0 .. N
  BY Geometry
<1>2. 0 \in P
  BY <1>1, LookInvInit
<1>3. ASSUME NEW k \in 0 .. N - 1, k \in P PROVE k + 1 \in P
  BY <1>1, <1>3, LookInvStep
<1>4. 0 .. N \subseteq P
  <2> HIDE DEF P, N
  <2> QED BY <1>1, <1>2, <1>3, Induction
<1> QED BY <1>1, <1>4

(* What is known after the first loop. *)
LEMMA LookedFinds ==
  ASSUME TypeOK
  PROVE  LET l == Looked[FS_NUM_SECTORS]
         IN  /\ NeedsReloc <=> ~Enough(l)
             /\ l.fd_count = [s \in Sectors |-> 0]
             /\ l.fd_min = FDS_PER_SECTOR /\ l.reloc = 0
             /\ ~Enough(l) => \A s \in Sectors :
                                l.full[s] = IF s # currSector /\ SECTOR_IS_FULL(s)
                                            THEN 1 ELSE 0
<1>1. \A s \in Sectors : s < FS_NUM_SECTORS
  BY Geometry DEF Sectors
<1>2. Seen(FS_NUM_SECTORS) = {s \in Sectors \ {currSector} : SECTOR_IS_BLANK(s)}
  BY <1>1 DEF Seen
<1>3. /\ Cardinality(Seen(FS_NUM_SECTORS)) \in Nat /\ FS_MIN_BLANKSECTORS \in Nat
  <2>1. FS_NUM_SECTORS \in 0 .. FS_NUM_SECTORS
    BY Geometry
  <2> QED BY <2>1, SeenCounts, Geometry
<1>4. NeedsReloc <=> Cardinality(Seen(FS_NUM_SECTORS)) < FS_MIN_BLANKSECTORS
  BY <1>2 DEF NeedsReloc
<1> QED BY <1>1, <1>3, <1>4, LookInvHolds DEF LookInv

-----------------------------------------------------------------------------
(* The second loop: the entries of every full sector are counted.          *)
EntriesAt(s, k) == {i \in 0 .. k - 1 : fd[i].sector = s}

CountInv(k) ==
  LET l == Looked[FS_NUM_SECTORS]
      m == Counted[k]
  IN  /\ m.full = l.full /\ m.fd_min = l.fd_min /\ m.reloc = l.reloc
      /\ \A s \in Sectors :
           m.fd_count[s] = IF l.full[s] = 1 THEN Cardinality(EntriesAt(s, k)) ELSE 0

LEMMA NextEntries ==
  ASSUME TypeOK, NEW k \in 0 .. fd_index - 1, NEW s
  PROVE  /\ Cardinality(EntriesAt(s, k)) \in Nat
         /\ Cardinality(EntriesAt(s, k + 1)) =
              IF fd[k].sector = s THEN Cardinality(EntriesAt(s, k)) + 1
                                  ELSE Cardinality(EntriesAt(s, k))
<1>1. k \in Nat
  BY SectorFacts
<1>2. IsFiniteSet(0 .. k - 1)
  BY <1>1, FS_Interval
<1>3. IsFiniteSet(EntriesAt(s, k)) /\ k \notin EntriesAt(s, k)
  <2>1. EntriesAt(s, k) \subseteq 0 .. k - 1 /\ ~(k <= k - 1)
    BY <1>1 DEF EntriesAt
  <2>2. IsFiniteSet(EntriesAt(s, k))
    BY <1>2, <2>1, FS_Subset
  <2> QED BY <2>1, <2>2
<1>4. EntriesAt(s, k + 1) = IF fd[k].sector = s THEN EntriesAt(s, k) \cup {k} ELSE EntriesAt(s, k)
  <2>1. 0 .. (k + 1) - 1 = (0 .. k - 1) \cup {k}
    BY <1>1
  <2> QED BY <2>1 DEF EntriesAt
<1> QED BY <1>3, <1>4, FS_AddElement, FS_CardinalityType

LEMMA CountInvInit == TypeOK => CountInv(0)
<1> SUFFICES ASSUME TypeOK PROVE CountInv(0)
  OBVIOUS
<1>1. \A s \in Sectors : EntriesAt(s, 0) = {}
  BY DEF EntriesAt
<1>2. \A s \in Sectors : Cardinality(EntriesAt(s, 0)) = 0
  BY <1>1, FS_EmptySet
<1>3. \A s \in Sectors : Looked[FS_NUM_SECTORS].fd_count[s] = 0
  BY LookedFinds
<1> QED BY <1>2, <1>3, CountedIs DEF CountInv

LEMMA CountInvStep ==
  ASSUME TypeOK, NEW k \in 0 .. fd_index - 1, CountInv(k)
  PROVE  CountInv(k + 1)
<1> DEFINE l == Looked[FS_NUM_SECTORS]
           m == Counted[k]
           n == Counted[k + 1]
           t == fd[k].sector
<1>1. n = Histogram(m, k) /\ m \in LocalsType /\ t \in Sectors
  <2>1. k \in 0 .. fd_index
    BY SectorFacts
  <2> QED BY <2>1, CountedIs, SectorFacts
<1>2. /\ m.full = l.full /\ m.fd_min = l.fd_min /\ m.reloc = l.reloc
      /\ \A s \in Sectors :
           m.fd_count[s] = IF l.full[s] = 1 THEN Cardinality(EntriesAt(s, k)) ELSE 0
  BY DEF CountInv
<1>3. \A s \in Sectors :
        /\ Cardinality(EntriesAt(s, k)) \in Nat
        /\ Cardinality(EntriesAt(s, k + 1)) =
             IF t = s THEN Cardinality(EntriesAt(s, k)) + 1 ELSE Cardinality(EntriesAt(s, k))
  BY NextEntries
<1>4. /\ n.full = m.full /\ n.fd_min = m.fd_min /\ n.reloc = m.reloc
      /\ n.fd_count = IF m.full[t] = 1 THEN [m.fd_count EXCEPT ![t] = @ + 1]
                                       ELSE m.fd_count
      /\ m.fd_count \in [Sectors -> Nat]
  <2> HIDE DEF m, n
  <2> QED BY <1>1 DEF Histogram, LocalsType
<1> HIDE DEF l, m, n, t
<1>5. ASSUME NEW s \in Sectors
      PROVE  n.fd_count[s] = IF l.full[s] = 1 THEN Cardinality(EntriesAt(s, k + 1)) ELSE 0
  BY <1>1, <1>2, <1>3, <1>4
<1> QED BY <1>2, <1>4, <1>5 DEF CountInv, l, n

LEMMA CountInvHolds == TypeOK => CountInv(fd_index)
<1> SUFFICES ASSUME TypeOK PROVE CountInv(fd_index)
  OBVIOUS
<1> DEFINE N == fd_index
           P == {k \in 0 .. N : CountInv(k)}
<1>1. N \in Nat /\ 0 \in 0 .. N /\ N \in 0 .. N /\ \A k \in 0 .. N - 1 : k + 1 \in 0 .. N
  BY SectorFacts
<1>2. 0 \in P
  BY <1>1, CountInvInit
<1>3. ASSUME NEW k \in 0 .. N - 1, k \in P PROVE k + 1 \in P
  BY <1>1, <1>3, CountInvStep
<1>4. 0 .. N \subseteq P
  <2> HIDE DEF P, N
  <2> QED BY <1>1, <1>2, <1>3, Induction
<1> QED BY <1>1, <1>4

(* What is known after the second loop, if there are too few blank sectors. *)
LEMMA CountedFinds ==
  ASSUME TypeOK, ~Enough(Looked[FS_NUM_SECTORS])
  PROVE  LET l == Counted[fd_index]
         IN  /\ l.fd_min = FDS_PER_SECTOR /\ l.reloc = 0
             /\ \A s \in Sectors :
                  /\ l.full[s] = 1 <=> s # currSector /\ SECTOR_IS_FULL(s)
                  /\ l.full[s] = 1 => l.fd_count[s] = FdCount(s)
<1>1. \A s \in Sectors : FdCount(s) = Cardinality(EntriesAt(s, fd_index))
  BY DEF FdCount, EntriesAt
<1> QED BY <1>1, CountInvHolds, LookedFinds DEF CountInv

-----------------------------------------------------------------------------
(* The third loop: it goes once around the sectors, from the active one.   *)
LEMMA Around ==
  ASSUME NEW n \in Nat \ {0}, NEW a \in 0 .. 2 * n - 1
  PROVE  a % n = IF a < n THEN a ELSE a - n
<1>1. /\ a % n \in 0 .. n - 1 /\ a \div n \in Int
      /\ a = n * (a \div n) + (a % n)
  OBVIOUS
<1> DEFINE q == a \div n
           r == a % n
<1> HIDE DEF q, r
<1>2. q \in Int /\ r \in 0 .. n - 1 /\ a = n * q + r
  BY <1>1 DEF q, r
<1>3. CASE q < 0
  <2>1. q <= -1
    BY <1>2, <1>3
  <2>2. n * q <= n * (-1)
    BY <1>2, <2>1
  <2> QED BY <1>2, <2>2
<1>4. CASE q = 0
  BY <1>2, <1>4 DEF r
<1>5. CASE q = 1
  BY <1>2, <1>5 DEF r
<1>6. CASE q > 1
  <2>1. q >= 2
    BY <1>2, <1>6
  <2>2. n * q >= n * 2
    BY <1>2, <2>1
  <2> QED BY <1>2, <2>2
<1> QED BY <1>2, <1>3, <1>4, <1>5, <1>6

LEMMA Distances ==
  ASSUME TypeOK
  PROVE  /\ \A s \in Sectors : Distance(s) \in Sectors
         /\ \A k \in Sectors : (currSector + k) % FS_NUM_SECTORS \in Sectors
         /\ \A k \in Sectors : Distance((currSector + k) % FS_NUM_SECTORS) = k
         /\ \A s \in Sectors : s = (currSector + Distance(s)) % FS_NUM_SECTORS
<1> DEFINE n == FS_NUM_SECTORS
           c == currSector
           Sum(k) == IF c + k < n THEN c + k ELSE c + k - n
           Dif(s) == IF s < c THEN s + n - c ELSE s - c
<1>1. n \in Nat \ {0} /\ Sectors = 0 .. n - 1 /\ c \in 0 .. n - 1
  BY SectorFacts DEF Sectors
<1>2. ASSUME NEW k \in Sectors PROVE (c + k) % n = Sum(k)
  <2> DEFINE a == c + k
  <2>1. a \in 0 .. 2 * n - 1
    BY <1>1
  <2>2. a % n = IF a < n THEN a ELSE a - n
    <3> HIDE DEF a, n
    <3> QED BY <1>1, <2>1, Around
  <2>3. a = c + k
    OBVIOUS
  <2> HIDE DEF a, n, c
  <2>4. Sum(k) = IF a < n THEN a ELSE a - n
    BY <1>1, <2>3
  <2> QED BY <2>2, <2>3, <2>4
<1>3. ASSUME NEW s \in Sectors PROVE Distance(s) = Dif(s)
  <2>1. /\ s + n - c \in 0 .. 2 * n - 1
        /\ s + n - c < n <=> s < c
        /\ (s + n - c) - n = s - c
    BY <1>1
  <2>2. (s + n - c) % n = Dif(s)
    <3> DEFINE a == s + n - c
    <3>1. a \in 0 .. 2 * n - 1
      BY <2>1
    <3>2. a % n = IF a < n THEN a ELSE a - n
      <4> HIDE DEF a, n
      <4> QED BY <1>1, <3>1, Around
    <3> QED BY <2>1, <3>2
  <2> QED BY <2>2 DEF Distance
<1>4. /\ \A s \in Sectors : Dif(s) \in Sectors
      /\ \A k \in Sectors : Sum(k) \in Sectors
      /\ \A k \in Sectors : Dif(Sum(k)) = k
      /\ \A s \in Sectors : s = Sum(Dif(s))
  BY <1>1
<1> HIDE DEF Sum, Dif, n, c
<1>5. /\ \A s \in Sectors : Distance(s) \in Sectors
      /\ \A k \in Sectors : (c + k) % n \in Sectors
      /\ \A k \in Sectors : Distance((c + k) % n) = k
      /\ \A s \in Sectors : s = (c + Distance(s)) % n
  BY <1>2, <1>3, <1>4
<1> QED BY <1>5 DEF n, c

(* Sector s beats sector t: fewer entries, or as many and met first. *)
Beats(s, t) ==
  \/ FdCount(s) < FdCount(t)
  \/ FdCount(s) = FdCount(t) /\ Distance(s) < Distance(t)

(* After k turns the loop holds the best of the candidates it has met. *)
ChooseInv(k) ==
  LET l == Chosen[k]
      m == Counted[fd_index]
      met == {s \in Candidates : Distance(s) < k}
  IN  /\ l.full = m.full /\ l.fd_count = m.fd_count
      /\ \/ met = {} /\ l.fd_min = FDS_PER_SECTOR /\ l.reloc = 0
         \/ /\ l.reloc \in met /\ l.fd_min = FdCount(l.reloc)
            /\ \A t \in met \ {l.reloc} : Beats(l.reloc, t)

LEMMA FdCountsAreNumbers == TypeOK => \A s \in Sectors : FdCount(s) \in Nat
<1> SUFFICES ASSUME TypeOK, NEW s \in Sectors PROVE FdCount(s) \in Nat
  OBVIOUS
<1>1. IsFiniteSet(0 .. fd_index - 1)
  BY SectorFacts, FS_Interval
<1>2. {i \in 0 .. fd_index - 1 : fd[i].sector = s} \subseteq 0 .. fd_index - 1
  OBVIOUS
<1> QED BY <1>1, <1>2, FS_Subset, FS_CardinalityType DEF FdCount

LEMMA ChooseInvInit == TypeOK /\ ~Enough(Looked[FS_NUM_SECTORS]) => ChooseInv(0)
<1> SUFFICES ASSUME TypeOK, ~Enough(Looked[FS_NUM_SECTORS]) PROVE ChooseInv(0)
  OBVIOUS
<1>1. \A s \in Candidates : ~(Distance(s) < 0)
  <2>1. \A s \in Candidates : s \in Sectors
    BY DEF Candidates
  <2> QED BY <2>1, Distances, Geometry DEF Sectors
<1> QED BY <1>1, ChosenIs, CountedFinds DEF ChooseInv

LEMMA ChooseInvStep ==
  ASSUME TypeOK, ~Enough(Looked[FS_NUM_SECTORS]), NEW k \in Sectors, ChooseInv(k)
  PROVE  ChooseInv(k + 1)
<1> DEFINE l == Chosen[k]
           n == Chosen[k + 1]
           m == Counted[fd_index]
           met == {s \in Candidates : Distance(s) < k}
           next == {s \in Candidates : Distance(s) < k + 1}
           s == (currSector + k) % FS_NUM_SECTORS
<1>1. /\ n = Winner(l, k) /\ l \in LocalsType
      /\ k \in Nat /\ s \in Sectors /\ Distance(s) = k
  <2>1. k \in 0 .. FS_NUM_SECTORS - 1 /\ k \in 0 .. FS_NUM_SECTORS /\ k \in Nat
    BY Geometry DEF Sectors
  <2> QED BY <2>1, ChosenIs, Distances
<1>2. /\ l.full = m.full /\ l.fd_count = m.fd_count
      /\ \/ met = {} /\ l.fd_min = FDS_PER_SECTOR /\ l.reloc = 0
         \/ /\ l.reloc \in met /\ l.fd_min = FdCount(l.reloc)
            /\ \A t \in met \ {l.reloc} : Beats(l.reloc, t)
  BY DEF ChooseInv
<1>3. /\ m.full[s] = 1 <=> s # currSector /\ SECTOR_IS_FULL(s)
      /\ m.full[s] = 1 => m.fd_count[s] = FdCount(s)
  BY <1>1, CountedFinds
<1>4. \A t \in Candidates : t \in Sectors /\ FdCount(t) < FDS_PER_SECTOR
  BY DEF Candidates
<1>5. \A t \in Sectors : FdCount(t) \in Nat /\ Distance(t) \in Nat
  BY FdCountsAreNumbers, Distances, Geometry DEF Sectors
<1>6. next = IF s \in Candidates THEN met \cup {s} ELSE met
  <2>1. ASSUME NEW t \in Sectors PROVE Distance(t) < k + 1 <=> Distance(t) < k \/ t = s
    <3>1. Distance(t) = k => t = s
      BY Distances
    <3> QED BY <1>1, <1>5, <3>1
  <2> HIDE DEF s
  <2> QED BY <1>4, <2>1
<1>7. s \notin met
  BY <1>1
<1>8. s \in Candidates <=> m.full[s] = 1 /\ FdCount(s) < FDS_PER_SECTOR
  BY <1>1, <1>3 DEF Candidates
<1>9. /\ n.full = l.full /\ n.fd_count = l.fd_count
      /\ IF m.full[s] = 1 /\ FdCount(s) < l.fd_min
         THEN n.fd_min = FdCount(s) /\ n.reloc = s
         ELSE n.fd_min = l.fd_min /\ n.reloc = l.reloc
  <2> HIDE DEF l, m, n
  <2> QED BY <1>1, <1>2, <1>3 DEF Winner, LocalsType
<1>10. \A t \in met : t \in Candidates /\ Distance(t) < k
  OBVIOUS
<1> HIDE DEF l, m, n, met, next, s
<1>11. \/ next = {} /\ n.fd_min = FDS_PER_SECTOR /\ n.reloc = 0
       \/ /\ n.reloc \in next /\ n.fd_min = FdCount(n.reloc)
          /\ \A t \in next \ {n.reloc} : Beats(n.reloc, t)
  <2>1. CASE met = {} /\ l.fd_min = FDS_PER_SECTOR /\ l.reloc = 0
    <3>1. CASE s \in Candidates
      <4>1. next = {s}
        BY <1>6, <2>1, <3>1
      <4> QED BY <1>8, <1>9, <2>1, <3>1, <4>1
    <3>2. CASE s \notin Candidates
      BY <1>6, <1>8, <1>9, <2>1, <3>2
    <3> QED BY <3>1, <3>2
  <2>2. CASE /\ l.reloc \in met /\ l.fd_min = FdCount(l.reloc)
             /\ \A t \in met \ {l.reloc} : Beats(l.reloc, t)
    <3>1. /\ l.reloc \in Sectors /\ FdCount(l.reloc) < FDS_PER_SECTOR
          /\ Distance(l.reloc) < k /\ l.reloc # s
          /\ FdCount(l.reloc) \in Nat /\ Distance(l.reloc) \in Nat
          /\ FdCount(s) \in Nat /\ k \in Nat /\ Distance(s) = k /\ FDS_PER_SECTOR \in Nat
      BY <1>1, <1>4, <1>5, <1>7, <1>10, <2>2, Geometry
    <3>2. CASE s \in Candidates /\ FdCount(s) < l.fd_min
      <4>1. n.reloc = s /\ n.fd_min = FdCount(s) /\ next = met \cup {s}
        BY <1>6, <1>8, <1>9, <3>2
      <4>2. ASSUME NEW t \in met PROVE Beats(s, t)
        <5>1. t = l.reloc \/ Beats(l.reloc, t)
          BY <2>2
        <5>2. FdCount(t) \in Nat
          BY <1>4, <1>5, <1>10
        <5>3. FdCount(s) < FdCount(l.reloc)
          BY <2>2, <3>2
        <5> QED BY <3>1, <5>1, <5>2, <5>3 DEF Beats
      <4> QED BY <4>1, <4>2
    <3>3. CASE s \in Candidates /\ ~(FdCount(s) < l.fd_min)
      <4>1. n.reloc = l.reloc /\ n.fd_min = l.fd_min /\ next = met \cup {s}
        BY <1>6, <1>9, <3>3
      <4>2. Beats(l.reloc, s)
        BY <2>2, <3>1, <3>3 DEF Beats
      <4> QED BY <2>2, <4>1, <4>2
    <3>4. CASE s \notin Candidates
      <4>1. ~(m.full[s] = 1 /\ FdCount(s) < l.fd_min)
        BY <1>8, <2>2, <3>1, <3>4
      <4>2. n.reloc = l.reloc /\ n.fd_min = l.fd_min /\ next = met
        BY <1>6, <1>9, <3>4, <4>1
      <4> QED BY <2>2, <4>2
    <3> QED BY <3>2, <3>3, <3>4
  <2> QED BY <1>2, <2>1, <2>2
<1> QED BY <1>2, <1>9, <1>11 DEF ChooseInv, l, m, n, next

LEMMA ChooseInvHolds ==
  TypeOK /\ ~Enough(Looked[FS_NUM_SECTORS]) => ChooseInv(FS_NUM_SECTORS)
<1> SUFFICES ASSUME TypeOK, ~Enough(Looked[FS_NUM_SECTORS])
             PROVE  ChooseInv(FS_NUM_SECTORS)
  OBVIOUS
<1> DEFINE N == FS_NUM_SECTORS
           P == {k \in 0 .. N : ChooseInv(k)}
<1>1. /\ N \in Nat /\ 0 \in 0 .. N /\ N \in 0 .. N /\ Sectors = 0 .. N - 1
      /\ \A k \in 0 .. N - 1 : k + 1 \in 0 .. N
  BY Geometry DEF Sectors
<1>2. 0 \in P
  BY <1>1, ChooseInvInit
<1>3. ASSUME NEW k \in 0 .. N - 1, k \in P PROVE k + 1 \in P
  BY <1>1, <1>3, ChooseInvStep
<1>4. 0 .. N \subseteq P
  <2> HIDE DEF P, N
  <2> QED BY <1>1, <1>2, <1>3, Induction
<1> QED BY <1>1, <1>4

(* What the third loop leaves is what Wormvars says, and nothing else is. *)
LEMMA ChosenIsVictim ==
  ASSUME TypeOK, ~Enough(Looked[FS_NUM_SECTORS]), NEW s \in Sectors
  PROVE  findRelocSector(s) <=> s = Chosen[FS_NUM_SECTORS].reloc
<1> DEFINE l == Chosen[FS_NUM_SECTORS]
<1>1. \A t \in Candidates : t \in Sectors /\ Distance(t) < FS_NUM_SECTORS
  <2>1. \A t \in Candidates : t \in Sectors
    BY DEF Candidates
  <2> QED BY <2>1, Distances, Geometry DEF Sectors
<1>2. {t \in Candidates : Distance(t) < FS_NUM_SECTORS} = Candidates
  BY <1>1
<1>3. \/ Candidates = {} /\ l.reloc = 0
      \/ /\ l.reloc \in Candidates
         /\ \A t \in Candidates \ {l.reloc} : Beats(l.reloc, t)
  BY <1>2, ChooseInvHolds DEF ChooseInv
<1>4. findRelocSector(s) <=> \/ Candidates = {} /\ s = 0
                             \/ /\ s \in Candidates
                                /\ \A t \in Candidates \ {s} : Beats(s, t)
  BY DEF findRelocSector, Beats
<1>5. ASSUME NEW t \in Candidates, NEW u \in Candidates, Beats(t, u) PROVE ~Beats(u, t)
  <2>1. /\ FdCount(t) \in Nat /\ FdCount(u) \in Nat
        /\ Distance(t) \in Nat /\ Distance(u) \in Nat
    BY <1>1, FdCountsAreNumbers, Distances, Geometry DEF Sectors
  <2> QED BY <1>5, <2>1 DEF Beats
<1> HIDE DEF l
<1>6. findRelocSector(s) <=> s = l.reloc
  BY <1>3, <1>4, <1>5
<1> QED BY <1>6 DEF l

(* In any reachable state the three loops of findRelocSector return -1 if  *)
(* enough sectors are blank, and otherwise the one sector that Wormvars    *)
(* says (lines 496 to 549).                                                *)
THEOREM LoopsFindVictim == Spec => []FindsVictim
<1>1. TypeOK => FindsVictim
  <2> SUFFICES ASSUME TypeOK
               PROVE  IF NeedsReloc
                      THEN \A s \in Sectors : findRelocSector(s) <=> s = reloc_sector
                      ELSE reloc_sector = -1
    BY DEF FindsVictim
  <2>1. NeedsReloc <=> ~Enough(Looked[FS_NUM_SECTORS])
    BY LookedFinds
  <2> QED BY <2>1, ChosenIsVictim DEF reloc_sector
<1> QED BY <1>1, TypeCorrect, PTL
-----------------------------------------------------------------------------
(* Division, of numbers that are not constants. *)
LEMMA Quotient ==
  ASSUME NEW q \in Nat \ {0}, NEW a \in Nat
  PROVE  /\ a \div q \in Nat
         /\ \E r \in 0 .. q - 1 : a = q * (a \div q) + r
<1>1. a \div q \in Int /\ a % q \in 0 .. q - 1 /\ a = q * (a \div q) + (a % q)
  OBVIOUS
<1> DEFINE d == a \div q
           r == a % q
<1>2. d \in Int /\ r \in 0 .. q - 1 /\ a = q * d + r
  BY <1>1
<1> HIDE DEF d, r
<1>3. d >= 0
  <2> SUFFICES ASSUME d <= -1 PROVE FALSE
    BY <1>2
  <2>1. q * d <= q * (-1)
    BY <1>2
  <2> QED BY <1>2, <2>1
<1>4. d \in Nat /\ \E s \in 0 .. q - 1 : a = q * d + s
  BY <1>2, <1>3
<1> QED BY <1>4 DEF d

(* Division keeps the order, and counts every q.                           *)
LEMMA Quotients ==
  ASSUME NEW q \in Nat \ {0}, NEW a \in Nat, NEW b \in Nat
  PROVE  /\ a <= b => a \div q <= b \div q
         /\ a + q <= b => a \div q + 1 <= b \div q
<1> DEFINE d == a \div q
           e == b \div q
<1>1. /\ d \in Nat /\ e \in Nat
      /\ \E r \in 0 .. q - 1 : a = q * d + r
      /\ \E r \in 0 .. q - 1 : b = q * e + r
  BY Quotient
<1> HIDE DEF d, e
<1>2. PICK r \in 0 .. q - 1, s \in 0 .. q - 1 : a = q * d + r /\ b = q * e + s
  BY <1>1
<1>3. ASSUME a <= b PROVE d <= e
  <2> SUFFICES ASSUME d >= e + 1 PROVE FALSE
    BY <1>1
  <2>1. q * d >= q * (e + 1)
    BY <1>1, <2>1
  <2>2. q * (e + 1) = q * e + q
    BY <1>1
  <2>3. q * d \in Int /\ q * e \in Int
    BY <1>1
  <2> HIDE DEF d, e
  <2> QED BY <1>2, <1>3, <2>1, <2>2, <2>3
<1>4. ASSUME a + q <= b PROVE d + 1 <= e
  <2> SUFFICES ASSUME d >= e PROVE FALSE
    BY <1>1
  <2>1. q * d >= q * e
    BY <1>1
  <2>2. q * d \in Int /\ q * e \in Int
    BY <1>1
  <2> QED BY <1>2, <1>4, <2>1, <2>2
<1> QED BY <1>3, <1>4 DEF d, e

(* What the turns of fs_thread allow the application to write.             *)
LEMMA WritesInFacts ==
  ASSUME KeepsUp
  PROVE  /\ \A a \in Nat : WritesIn(a) \in Nat
         /\ \A a, b \in Nat : a <= b => WritesIn(a) <= WritesIn(b)
         /\ \A a, b \in Nat : a + (PollsPerWrite - 2) <= b => WritesIn(a) + 1 <= WritesIn(b)
<1> DEFINE q == PollsPerWrite - 2
<1>1. q \in Nat \ {0}
  BY PaceIsFinite DEF KeepsUp
<1> HIDE DEF q
<1>2. /\ \A a \in Nat : a \div q \in Nat
      /\ \A a, b \in Nat : a <= b => a \div q <= b \div q
      /\ \A a, b \in Nat : a + q <= b => a \div q + 1 <= b \div q
  BY <1>1, Quotient, Quotients
<1> QED BY <1>2 DEF WritesIn, q

(* The full sectors share the entries: q of them, at least, and no more    *)
(* than FD_MAX entries.                                                    *)
LEMMA MostLiveFacts ==
  LET q == FS_NUM_SECTORS - FS_MIN_BLANKSECTORS
  IN  /\ q \in Nat \ {0} /\ MostLive \in Nat
      /\ FD_MAX < q * (MostLive + 1)
<1> DEFINE q == FS_NUM_SECTORS - FS_MIN_BLANKSECTORS
           m == q - 1
<1>1. q \in Int /\ m \in Int /\ m = q - 1 /\ FD_MAX <= m * FDS_PER_SECTOR
  BY Geometry, ReserveKept
<1> HIDE DEF q, m
<1>2. m > 0
  <2> SUFFICES ASSUME m <= 0 PROVE FALSE
    BY <1>1
  <2>1. m * FDS_PER_SECTOR <= 0
    BY <1>1, Geometry
  <2>2. m * FDS_PER_SECTOR \in Int
    BY <1>1, Geometry
  <2> QED BY <1>1, <2>1, <2>2, Geometry
<1>3. q \in Nat \ {0} /\ FD_MAX \in Nat
  BY <1>1, <1>2, Geometry
<1> DEFINE d == FD_MAX \div q
<1>4. d \in Nat /\ \E r \in 0 .. q - 1 : FD_MAX = q * d + r
  BY <1>3, Quotient
<1> HIDE DEF d
<1>5. PICK r \in 0 .. q - 1 : FD_MAX = q * d + r
  BY <1>4
<1>6. q * (d + 1) = q * d + q /\ q * d \in Int
  BY <1>3, <1>4
<1>7. FD_MAX < q * (d + 1)
  BY <1>3, <1>5, <1>6
<1> QED BY <1>3, <1>4, <1>7 DEF d, q, MostLive

-----------------------------------------------------------------------------
(* When relocation is due, one of the full sectors has few entries.        *)
EntriesIn(s) == {i \in Entries : fd[i].sector = s}

(* The entries in a sector are counted by FdCount.                         *)
LEMMA EntriesInFacts ==
  ASSUME TypeOK, NEW s
  PROVE  /\ IsFiniteSet(EntriesIn(s)) /\ FdCount(s) = Cardinality(EntriesIn(s))
         /\ FdCount(s) \in Nat
<1>1. IsFiniteSet(Entries)
  BY EntryFacts, FS_Interval DEF Entries
<1>2. IsFiniteSet(EntriesIn(s)) /\ Cardinality(EntriesIn(s)) \in Nat
  BY <1>1, FS_Subset, FS_CardinalityType DEF EntriesIn
<1> QED BY <1>2 DEF FdCount, EntriesIn, Entries

(* When few sectors are blank many are full, as only one is partly filled. *)
LEMMA ManyFull ==
  ASSUME TypeOK, AddressInv, NeedsReloc
  PROVE  LET full == {s \in Sectors \ {currSector} : SECTOR_IS_FULL(s)}
         IN  /\ IsFiniteSet(full) /\ Cardinality(full) \in Nat
             /\ Cardinality(full) >= FS_NUM_SECTORS - FS_MIN_BLANKSECTORS
<1> DEFINE others == Sectors \ {currSector}
           blank == {s \in others : SECTOR_IS_BLANK(s)}
           full == {s \in others : SECTOR_IS_FULL(s)}
<1>1. currSector \in Sectors /\ \A s \in Sectors : currAddress[s] \in Nat
  BY DEF TypeOK
<1>2. IsFiniteSet(others) /\ Cardinality(others) = FS_NUM_SECTORS - 1
  <2>1. IsFiniteSet(Sectors) /\ Cardinality(Sectors) = FS_NUM_SECTORS
    BY FS_Interval, Geometry DEF Sectors
  <2> QED BY <1>1, <2>1, FS_RemoveElement
<1>3. IsFiniteSet(blank) /\ IsFiniteSet(full)
  BY <1>2, FS_Subset
<1>4. blank \cup full = others /\ blank \cap full = {}
  BY <1>1, Geometry DEF AddressInv, SECTOR_IS_BLANK, SECTOR_IS_FULL
<1> HIDE DEF others, blank, full
<1>5. Cardinality(blank) < FS_MIN_BLANKSECTORS
  BY DEF NeedsReloc, blank, others
<1>6. Cardinality(others) =
        Cardinality(blank) + Cardinality(full) - Cardinality(blank \cap full)
  BY <1>3, <1>4, FS_Union
<1>7. Cardinality(blank \cap full) = 0
  BY <1>4, FS_EmptySet
<1>8. Cardinality(blank) \in Nat /\ Cardinality(full) \in Nat
  BY <1>3, FS_CardinalityType
<1>9. Cardinality(full) >= FS_NUM_SECTORS - FS_MIN_BLANKSECTORS
  BY <1>2, <1>5, <1>6, <1>7, <1>8, Geometry
<1> QED BY <1>3, <1>8, <1>9 DEF full, others

(* An entry is in one sector, so not all full ones have many.              *)
LEMMA SomeFullHasFew ==
  ASSUME TypeOK, AddressInv, NeedsReloc
  PROVE  \E v \in Sectors \ {currSector} : SECTOR_IS_FULL(v) /\ FdCount(v) <= MostLive
<1> DEFINE full == {s \in Sectors \ {currSector} : SECTOR_IS_FULL(s)}
           q == FS_NUM_SECTORS - FS_MIN_BLANKSECTORS
           ranks == 1 .. MostLive + 1
           List(s) == CHOOSE g : g \in Bijection(1 .. FdCount(s), EntriesIn(s))
           f == [p \in full \X ranks |-> List(p[1])[p[2]]]
<1>1. IsFiniteSet(full) /\ Cardinality(full) \in Nat /\ Cardinality(full) >= q
  BY ManyFull
<1>2. q \in Nat \ {0} /\ MostLive \in Nat /\ FD_MAX < q * (MostLive + 1)
  BY MostLiveFacts
<1> SUFFICES ASSUME \A s \in full : ~(FdCount(s) <= MostLive)
             PROVE  FALSE
  OBVIOUS
<1>3. \A s : List(s) \in Bijection(1 .. FdCount(s), EntriesIn(s))
  <2> TAKE s
  <2>1. ExistsBijection(1 .. FdCount(s), EntriesIn(s))
    BY EntriesInFacts, FS_CardinalityType
  <2> QED BY <2>1 DEF ExistsBijection
<1> HIDE DEF full, List
<1>4. \A s \in full, j \in ranks : j \in 1 .. FdCount(s)
  BY <1>2, EntriesInFacts
<1>5. ASSUME NEW s \in full, NEW j \in ranks
      PROVE  List(s)[j] \in Entries /\ fd[List(s)[j]].sector = s
  <2>1. List(s)[j] \in EntriesIn(s)
    BY <1>3, <1>4 DEF Bijection, Injection, Surjection
  <2> QED BY <2>1 DEF EntriesIn
<1>6. ASSUME NEW s \in full, NEW j \in ranks, NEW k \in ranks, List(s)[j] = List(s)[k]
      PROVE  j = k
  BY <1>3, <1>4, <1>6 DEF Bijection, Injection, IsInjective
<1>7. f \in Injection(full \X ranks, Entries)
  <2>1. f \in [full \X ranks -> Entries]
    BY <1>5
  <2>2. ASSUME NEW x \in full \X ranks, NEW y \in full \X ranks, f[x] = f[y]
        PROVE  x = y
    <3>1. /\ x[1] \in full /\ x[2] \in ranks /\ y[1] \in full /\ y[2] \in ranks
          /\ x = <<x[1], x[2]>> /\ y = <<y[1], y[2]>>
      OBVIOUS
    <3>2. List(x[1])[x[2]] = List(y[1])[y[2]]
      BY <2>2
    <3>3. x[1] = y[1]
      BY <1>5, <3>1, <3>2
    <3>4. x[2] = y[2]
      BY <1>6, <3>1, <3>2, <3>3
    <3> QED BY <3>1, <3>3, <3>4
  <2> HIDE DEF f, ranks
  <2> QED BY <2>1, <2>2 DEF Injection, IsInjective
<1>8. IsFiniteSet(Entries) /\ Cardinality(Entries) = fd_index
  BY FS_Interval, EntryFacts DEF Entries
<1>9. Cardinality(full \X ranks) = Cardinality(full) * (MostLive + 1)
  <2>1. IsFiniteSet(ranks) /\ Cardinality(ranks) = MostLive + 1
    BY <1>2, FS_Interval
  <2> QED BY <1>1, <2>1, FS_Product
<1> HIDE DEF f
<1>10. Cardinality(full \X ranks) <= fd_index
  <2> HIDE DEF ranks
  <2> QED BY <1>7, <1>8, FS_Injection
<1> DEFINE n == Cardinality(full)
           m == MostLive + 1
<1>11. n * m >= q * m /\ n * m \in Int /\ q * m \in Int
  <2>1. n \in Nat /\ m \in Nat /\ q \in Nat /\ n >= q
    BY <1>1, <1>2
  <2> HIDE DEF n, m, q
  <2>2. n * m = q * m + (n - q) * m /\ (n - q) * m >= 0
    BY <2>1
  <2>3. n * m \in Int /\ q * m \in Int /\ (n - q) * m \in Int
    BY <2>1
  <2> QED BY <2>2, <2>3
<1>12. n * m <= FD_MAX
  BY <1>9, <1>10, <1>11, EntryFacts, Geometry
<1>13. q * m > FD_MAX /\ FD_MAX \in Int
  BY <1>2, Geometry
<1> HIDE DEF n, m, q
<1> QED BY <1>11, <1>12, <1>13

-----------------------------------------------------------------------------
(* What FLASH holds of a sector, and what the index counts of it.          *)
LEMMA LiveIsFinite ==
  ASSUME EnoughEntries, NEW v
  PROVE  IsFiniteSet(Live(v)) /\ Cardinality(Live(v)) \in Nat
BY FS_Subset, FS_CardinalityType DEF EnoughEntries, Live

(* The entries in a sector are of as many variables that live there.       *)
LEMMA CountIsLive ==
  ASSUME EnoughEntries, TypeOK, KnownInv, RunInv, ~Written, NEW v \in Sectors
  PROVE  FdCount(v) <= Cardinality(Live(v))
<1> DEFINE f == [i \in EntriesIn(v) |-> fd[i].header.id]
<1>1. ASSUME NEW i \in EntriesIn(v)
      PROVE  fd[i].header.id \in Live(v) /\ i \in Entries
  <2> DEFINE id == fd[i].header.id
             a == fd[i].address
  <2>1. i \in Entries /\ fd[i].sector = v
    BY DEF EntriesIn
  <2>2. ~Retired(i) /\ id \in Ids
    BY <2>1 DEF Retired, Written, Running, KnownInv, IdsAreKnown
  <2>3. a \in FsAddr /\ a[1] = v /\ IsValid(a) /\ HeaderOf(flash[a]) = fd[i].header
    BY <2>1, <2>2 DEF RunInv, EntriesInv
  <2>4. a \in Copies(id)
    BY <2>3 DEF Copies, HeaderOf
  <2>5. ASSUME NEW b \in Copies(id) PROVE b = a
    <3>1. b \in FsAddr /\ IsValid(b) /\ flash[b].id = id
      BY DEF Copies
    <3>2. PICK j \in Entries : fd[j].address = b
      BY <3>1 DEF RunInv, EntriesInv
    <3>3. ~Retired(j)
      BY DEF Retired, Written, Running
    <3>4. fd[j].header.id = id
      <4>1. HeaderOf(flash[b]) = fd[j].header
        BY <3>1, <3>2, <3>3 DEF RunInv, EntriesInv
      <4> QED BY <3>1, <4>1 DEF HeaderOf
    <3>5. j = i
      BY <2>1, <3>4 DEF KnownInv, EntriesDiffer
    <3> QED BY <3>2, <3>5
  <2>6. flash[a].newer \in Int
    BY <2>3, FsAddrFacts DEF TypeOK, Cell, Flags, FS_BLOCK_CURRENT, FS_BLOCK_NEWER
  <2> HIDE DEF id, a
  <2>7. a \in Newest(id)
    BY <2>4, <2>5, <2>6 DEF Newest
  <2>8. id \in Live(v)
    BY <2>2, <2>3, <2>7 DEF Live
  <2> QED BY <2>1, <2>8 DEF id
<1>2. f \in Injection(EntriesIn(v), Live(v))
  <2>1. f \in [EntriesIn(v) -> Live(v)]
    BY <1>1
  <2>2. \A i, j \in EntriesIn(v) : f[i] = f[j] => i = j
    BY <1>1 DEF KnownInv, EntriesDiffer
  <2> HIDE DEF f
  <2> QED BY <2>1, <2>2 DEF Injection, IsInjective
<1> HIDE DEF f
<1> QED BY <1>2, LiveIsFinite, EntriesInFacts, FS_Injection

(* Before the index takes over a new block, that block counts and not the  *)
(* one of the entry.                                                       *)
LEMMA LiveIsIndexed ==
  ASSUME TypeOK, KnownInv, RunInv, NEW v \in Sectors, v # currSector, NEW id \in Live(v)
  PROVE  ~Replaced(id) /\ \E i \in EntriesIn(v) : fd[i].header.id = id
<1>1. PICK a \in Newest(id) : a[1] = v
  BY DEF Live
<1>2. /\ a \in FsAddr /\ IsValid(a) /\ flash[a].id = id
      /\ \A b \in Copies(id) : flash[b].newer <= flash[a].newer
  BY DEF Newest, Copies
<1>3. Written => ~SECTOR_IS_FULL(currSector)
  BY DEF Written, Running, RunInv, CallsInv
<1>4. ~(Written /\ a = Target)
  BY <1>1, <1>3, TargetFacts
<1>5. PICK i \in Entries : fd[i].address = a
  BY <1>2, <1>4 DEF RunInv, EntriesInv
<1>6. /\ ~Retired(i) /\ HeaderOf(flash[a]) = fd[i].header /\ fd[i].sector = v
      /\ fd[i].header.id = id /\ fd[i].header.newer = flash[a].newer
  <2>1. ~Retired(i) /\ HeaderOf(flash[a]) = fd[i].header /\ fd[i].sector = v
    BY <1>1, <1>2, <1>5 DEF RunInv, EntriesInv
  <2> QED BY <1>2, <2>1 DEF HeaderOf
<1>7. ASSUME Replaced(id) PROVE FALSE
  <2>1. /\ Written /\ IsValid(Target) /\ flash[Target].newer = FS_BLOCK_NEWER
        /\ flash[Target].id = id /\ Target \in FsAddr
    BY <1>3, <1>7, TargetFacts DEF Replaced, RunInv, CallsInv
  <2>2. Target \in Copies(id)
    BY <2>1 DEF Copies
  <2>3. Running({"program", "invalidate"})
    BY <1>6, <1>7 DEF Replaced, Retired, Written, Running
  <2>4. flash[a].newer = FS_BLOCK_CURRENT
    BY <1>6, <1>7, <2>3 DEF Replaced, RunInv, CallsInv
  <2> QED BY <1>2, <2>1, <2>2, <2>4 DEF FS_BLOCK_CURRENT, FS_BLOCK_NEWER
<1> QED BY <1>6, <1>7 DEF EntriesIn

(* A sector other than the active one has no more variables than entries.  *)
LEMMA LiveIsCounted ==
  ASSUME TypeOK, KnownInv, RunInv, NEW v \in Sectors, v # currSector
  PROVE  /\ Cardinality(Live(v)) <= FdCount(v)
         /\ \A i \in EntriesIn(v) : Replaced(fd[i].header.id) =>
              Cardinality(Live(v)) <= FdCount(v) - 1
<1> DEFINE f == [id \in Live(v) |-> CHOOSE i \in EntriesIn(v) : fd[i].header.id = id]
<1>1. \A id \in Live(v) : f[id] \in EntriesIn(v) /\ fd[f[id]].header.id = id
  BY LiveIsIndexed
<1>2. f \in [Live(v) -> EntriesIn(v)] /\ \A x, y \in Live(v) : f[x] = f[y] => x = y
  BY <1>1
<1> HIDE DEF f
<1>3. f \in Injection(Live(v), EntriesIn(v))
  BY <1>2 DEF Injection, IsInjective
<1>4. Cardinality(Live(v)) <= FdCount(v)
  BY <1>3, EntriesInFacts, FS_Injection
<1>5. ASSUME NEW i \in EntriesIn(v), Replaced(fd[i].header.id)
      PROVE  Cardinality(Live(v)) <= FdCount(v) - 1
  <2> DEFINE rest == EntriesIn(v) \ {i}
  <2>1. IsFiniteSet(rest) /\ Cardinality(rest) = FdCount(v) - 1
    BY EntriesInFacts, FS_RemoveElement
  <2>2. \A id \in Live(v) : f[id] # i
    BY <1>1, <1>5, LiveIsIndexed
  <2>3. f \in Injection(Live(v), rest)
    BY <1>2, <2>2 DEF Injection, IsInjective
  <2> HIDE DEF rest
  <2> QED BY <2>1, <2>3, FS_Injection
<1> QED BY <1>4, <1>5

-----------------------------------------------------------------------------
(* What follows from the invariant in each state, whatever the pace.       *)
Numbers == /\ \A v \in Sectors : FdCount(v) \in Nat /\ Left(v) \in Nat
           /\ Stage \in 0 .. 3 /\ Again \in 0 .. 1 /\ Pending \in 0 .. 1

FewInOne ==
  mode = "run" /\ ~SpareSector => \E v \in Candidates : FdCount(v) <= MostLive

WakesWithRoom ==
  mode = "run" /\ calls = <<>> /\ lc = "begin" /\ polls = 0 /\ torn \in 0 .. MaxTorn
  /\ RoomToBoot =>
    RoomToRelocate

StateFacts == IInv /\ Numbers /\ FewInOne /\ WakesWithRoom

(* The counts are numbers.                                                 *)
LEMMA NumbersHold == TypeOK => Numbers
<1> SUFFICES ASSUME TypeOK PROVE Numbers
  OBVIOUS
<1>1. \A v \in Sectors : FdCount(v) \in Nat
  BY EntriesInFacts
<1>2. \A c : One(c) \in 0 .. 1
  BY DEF One
<1>3. \A v \in Sectors : Left(v) \in Nat
  BY <1>1, <1>2 DEF Left
<1> QED BY <1>1, <1>2, <1>3 DEF Numbers, Stage, Again, Pending

(* The sector that is due for relocation has few entries.                  *)
LEMMA FewWhenDue ==
  ASSUME KeepsUp, TypeOK, AddressInv, NeedsReloc
  PROVE  \E v \in Candidates : FdCount(v) <= MostLive
<1>1. PICK v \in Sectors \ {currSector} : SECTOR_IS_FULL(v) /\ FdCount(v) <= MostLive
  BY SomeFullHasFew
<1>2. FdCount(v) < FDS_PER_SECTOR
  <2>1. WritesIn(2 * MostLive + PollsPerWrite) \in Nat
    BY WritesInFacts, MostLiveFacts, PaceIsFinite
  <2> QED BY <1>1, <2>1, EntriesInFacts, MostLiveFacts, Geometry, TornIsFinite DEF KeepsUp
<1> QED BY <1>1, <1>2 DEF Candidates

(* As long as none is due there is a blank sector.                         *)
LEMMA NotDue ==
  ~NeedsReloc => SpareSector
<1> SUFFICES ASSUME ~SpareSector PROVE NeedsReloc
  OBVIOUS
<1>1. {s \in Sectors \ {currSector} : SECTOR_IS_BLANK(s)} = {}
  BY DEF SpareSector
<1> QED BY <1>1, FS_EmptySet, Geometry DEF NeedsReloc

(* Without a blank sector there is a candidate with few entries.           *)
LEMMA FewFound ==
  ASSUME KeepsUp, IInv, mode = "run", ~SpareSector
  PROVE  \E v \in Candidates : FdCount(v) <= MostLive
BY FewWhenDue, NotDue DEF IInv, WhileRunning, RunInv

(* A blank sector, or a candidate with few entries, is room enough. *)
LEMMA WholeSectorSuffices ==
  ASSUME KeepsUp, NEW n \in Nat, NEW l \in Nat, NEW b \in 0 .. PollsPerWrite,
         NEW extra \in 0 .. 1, NEW a \in 0 .. MaxTorn, n <= MostLive, l <= MostLive
  PROVE  n + WritesIn(2 * l + b) + extra + a + 1 <= FDS_PER_SECTOR
<1> DEFINE x == 2 * l + b
           y == 2 * MostLive + PollsPerWrite
<1>1. x \in Nat /\ y \in Nat /\ x <= y /\ MostLive \in Nat
  BY MostLiveFacts, PaceIsFinite
<1>2. MostLive + WritesIn(y) + 2 + MaxTorn <= FDS_PER_SECTOR
  BY DEF KeepsUp
<1> HIDE DEF x, y
<1>3. WritesIn(x) <= WritesIn(y) /\ WritesIn(x) \in Nat /\ WritesIn(y) \in Nat
  BY <1>1, WritesInFacts
<1>4. n + WritesIn(x) + extra + a + 1 <= FDS_PER_SECTOR
  BY <1>1, <1>2, <1>3, Geometry, TornIsFinite
<1> QED BY <1>4 DEF x

(* The write addresses are what FLASH says, when no block is being written. *)
LEMMA BlankFromAddress ==
  ASSUME TypeOK, AddressInv, ~Written, NEW s \in Sectors, NEW k \in Slots
  PROVE  flash[<<s, k>>] = Blank <=> k >= currAddress[s]
<1>1. <<s, k>> \in FsAddr /\ <<s, k>>[1] = s /\ <<s, k>>[2] = k
  BY FsAddrFacts
<1> QED BY <1>1 DEF AddressInv

(* Fewer entries and writes, and a lower write address, need less room.    *)
LEMMA LessFits ==
  ASSUME NEW f \in Nat, NEW n \in Nat, NEW w \in Nat, NEW x \in Nat, NEW a \in Nat,
         NEW c \in Nat, NEW k \in Nat, NEW size \in Nat,
         f <= n, w <= x, c <= k, k + n + x + 1 + a <= size
  PROVE  f + w + 0 + a + 1 <= size - c /\ f < size
OBVIOUS

(* The room that fs_init finds in FLASH is what fs_thread starts from.     *)
LEMMA WakesWithRoomHolds ==
  ASSUME EnoughEntries, KeepsUp, IInv, mode = "run", calls = <<>>, lc = "begin",
         polls = 0, torn \in 0 .. MaxTorn, RoomToBoot, ~SpareSector
  PROVE  \E v \in Victims : Need(v) <= Room
<1>1. TypeOK /\ KnownInv /\ RunInv /\ AddressInv /\ ~Written
  BY DEF IInv, WhileRunning, RunInv, Written, Running
<1>2. /\ currSector \in Sectors /\ \A s \in Sectors : currAddress[s] \in Nat
      /\ 0 \in Slots /\ LastSlot \in Slots /\ FDS_PER_SECTOR \in Nat
      /\ LastSlot = FDS_PER_SECTOR - 1
      /\ \A k \in Slots : k \in Nat /\ k <= LastSlot
  BY <1>1, Geometry DEF TypeOK, Slots, LastSlot
<1>3. /\ Victims = Candidates /\ Allowed \in 0 .. MaxTorn
      /\ \A v \in Sectors : FdCount(v) \in Nat
      /\ \A v \in Sectors :
           Need(v) = FdCount(v) + WritesIn(2 * FdCount(v) + 0) + 0 + Allowed + 1
  <2>1. \A v \in Sectors : FdCount(v) \in Nat
    BY <1>1, EntriesInFacts
  <2>2. ~Waiting /\ ~Copying
    BY <1>1, CallLength DEF Waiting, Copying, TypeOK
  <2>3. /\ Victims = Candidates /\ Again = 0 /\ Pending = 0 /\ Behind = 0
        /\ \A v \in Sectors : Left(v) = FdCount(v)
    BY <2>1, <2>2 DEF Victims, Again, Pending, Behind, Stage, Left, One
  <2>4. \A v \in Sectors : WritesIn(2 * FdCount(v) + 0) \in Nat
    BY <2>1, WritesInFacts
  <2>5. Allowed \in 0 .. MaxTorn
    BY TornIsFinite DEF Allowed
  <2> QED BY <2>1, <2>3, <2>4, <2>5 DEF Need
<1>4. ASSUME NEW s \in Sectors, flash[<<s, LastSlot>>] = Blank
      PROVE  s = currSector
  <2>1. currAddress[s] <= LastSlot
    BY <1>1, <1>2, <1>4, BlankFromAddress
  <2>2. SECTOR_IS_BLANK(s) \/ s = currSector
    BY <1>1, <1>2, <2>1 DEF AddressInv, SECTOR_IS_BLANK
  <2> QED BY <2>2 DEF SpareSector
<1>5. ASSUME NEW s \in Sectors, IsBlankFrom(s, 0)
      PROVE  \E v \in Victims : Need(v) <= Room
  <2>1. flash[<<s, LastSlot>>] = Blank /\ flash[<<s, 0>>] = Blank
    BY <1>2, <1>5 DEF IsBlankFrom
  <2>2. s = currSector /\ currAddress[s] = 0
    BY <1>1, <1>2, <1>4, <2>1, BlankFromAddress
  <2>3. PICK v \in Candidates : FdCount(v) <= MostLive
    BY FewFound
  <2>4. v \in Sectors /\ FdCount(v) \in Nat /\ 0 \in 0 .. PollsPerWrite /\ 0 \in 0 .. 1
    BY <1>3, <2>3, PaceIsFinite DEF Candidates
  <2>5. FdCount(v) + WritesIn(2 * FdCount(v) + 0) + 0 + Allowed + 1 <= FDS_PER_SECTOR
    BY <1>3, <2>3, <2>4, WholeSectorSuffices
  <2>6. Room = FDS_PER_SECTOR
    BY <1>2, <2>2 DEF Room
  <2> QED BY <1>3, <2>3, <2>4, <2>5, <2>6
<1>6. ASSUME NEW s \in Sectors, NEW v \in Sectors, NEW k \in Slots, RoomInFlash(s, k, v)
      PROVE  \E x \in Victims : Need(x) <= Room
  <2> DEFINE n == Cardinality(Live(v))
  <2>1. /\ IsBlankFrom(s, k) /\ flash[<<v, LastSlot>>] # Blank
        /\ k + n + WritesIn(2 * n) + 1 + Allowed <= FDS_PER_SECTOR
    BY <1>6 DEF RoomInFlash
  <2>2. flash[<<s, k>>] = Blank /\ flash[<<s, LastSlot>>] = Blank
    BY <1>2, <2>1 DEF IsBlankFrom
  <2>3. s = currSector /\ currAddress[s] <= k /\ v # s
    BY <1>1, <1>2, <1>4, <2>1, <2>2, BlankFromAddress
  <2>4. SECTOR_IS_FULL(v)
    <3>1. currAddress[v] > LastSlot
      BY <1>1, <1>2, <2>1, BlankFromAddress
    <3> QED BY <1>2, <3>1 DEF SECTOR_IS_FULL
  <2>5. FdCount(v) <= n /\ n \in Nat /\ FdCount(v) \in Nat
    BY <1>1, <1>3, CountIsLive, LiveIsFinite
  <2> HIDE DEF n
  <2>6. /\ WritesIn(2 * FdCount(v) + 0) <= WritesIn(2 * n)
        /\ WritesIn(2 * FdCount(v) + 0) \in Nat /\ WritesIn(2 * n) \in Nat
    BY <2>5, WritesInFacts
  <2>7. Need(v) <= Room /\ FdCount(v) < FDS_PER_SECTOR
    <3>1. /\ Need(v) = FdCount(v) + WritesIn(2 * FdCount(v) + 0) + 0 + Allowed + 1
          /\ Allowed \in Nat /\ k \in Nat
      BY <1>2, <1>3, TornIsFinite
    <3>2. Room = FDS_PER_SECTOR - currAddress[currSector] /\ currAddress[currSector] <= k
          /\ currAddress[currSector] \in Nat
      BY <1>2, <2>3 DEF Room
    <3>3. /\ FdCount(v) + WritesIn(2 * FdCount(v) + 0) + 0 + Allowed + 1
                 <= FDS_PER_SECTOR - currAddress[currSector]
          /\ FdCount(v) < FDS_PER_SECTOR
      <4>1. FDS_PER_SECTOR \in Nat
        BY <1>2
      <4> QED BY <2>1, <2>5, <2>6, <3>1, <3>2, <4>1, LessFits
    <3> QED BY <3>1, <3>2, <3>3
  <2> QED BY <1>3, <2>3, <2>4, <2>7 DEF Candidates
<1> QED BY <1>5, <1>6 DEF RoomToBoot

(* All of this holds in every state.                                       *)
LEMMA StateFactsHold ==
  ASSUME EnoughEntries, TearsShow, KeepsUp
  PROVE  Spec => []StateFacts
<1>1. IInv => Numbers
  BY NumbersHold DEF IInv
<1>2. IInv => FewInOne
  BY FewFound DEF FewInOne
<1>3. IInv => WakesWithRoom
  BY WakesWithRoomHolds DEF WakesWithRoom, RoomToRelocate
<1>4. IInv => StateFacts
  BY <1>1, <1>2, <1>3 DEF StateFacts
<1> QED BY <1>4, InvariantHolds, PTL

-----------------------------------------------------------------------------
(* Power fails: there is as much room for fs_init and for what follows.    *)
LEMMA LiveKept ==
  ASSUME \A id : Copies(id)' = Copies(id) /\ \A a \in Copies(id) : flash'[a] = flash[a],
         NEW v
  PROVE  Live(v)' = Live(v)
<1>1. \A id : Newest(id)' = Newest(id)
  BY DEF Newest
<1> QED BY <1>1 DEF Live

(* What is relocated is a full sector and not the active one.              *)
LEMMA VictimFacts ==
  ASSUME TypeOK, RunInv, lc # "retry", NEW v \in Victims
  PROVE  /\ v \in Sectors /\ v # currSector /\ SECTOR_IS_FULL(v)
         /\ lc \notin {"begin", "select"} => v = reloc.sector
<1>1. CASE lc \in {"begin", "select"}
  BY <1>1 DEF Victims, Candidates
<1>2. CASE lc \notin {"begin", "select"}
  <2>1. lc \in Relocating \cup {"await_erase"} /\ reloc.sector \in Sectors
    BY <1>2 DEF TypeOK, Continuations, Relocating, RelocRecord
  <2> QED BY <1>2, <2>1 DEF Victims, RunInv, RelocInv
<1> QED BY <1>1, <1>2

(* A block is written for the application unless fs_thread copies it.      *)
LEMMA OnlyCopying ==
  ASSUME TypeOK, NestingInv, calls # <<>>, Pending = 0, ~Waiting
  PROVE  /\ 1 \in 1 .. Len(calls) /\ Top = calls[1]
         /\ Top.caller = "fs_thread" /\ Copying
<1>1. /\ 1 \in 1 .. Len(calls) /\ Len(calls) \in {1, 2}
      /\ Len(calls) = 1 => Top = calls[1]
      /\ Len(calls) = 2 => calls[1].at = "fs_thread"
  BY CallsAre
<1>2. calls[1] \in Call
  BY <1>1, CallLength DEF TypeOK
<1>3. calls[1].caller = "fs_thread"
  BY <1>2 DEF Pending, One, Call
<1> QED BY <1>1, <1>3 DEF Waiting, Copying

(* The entry in hand has not moved: it is in the sector. *)
LEMMA StaysIn ==
  ASSUME TypeOK, RunInv, lc \in Relocating, Stays
  PROVE  /\ reloc.fd_index \in EntriesIn(reloc.sector) /\ ~Moved
         /\ fd[reloc.fd_index].header.id = reloc.id
<1>1. /\ reloc.fd_index \in Entries /\ reloc.address[1] = reloc.sector
      /\ fd[reloc.fd_index].header.id = reloc.id
  BY DEF RunInv, RelocInv
<1>2. fd[reloc.fd_index].sector = reloc.sector
  BY <1>1 DEF RunInv, EntriesInv, Stays
<1> QED BY <1>1, <1>2 DEF EntriesIn, Moved

(* The room while the program runs is there in FLASH when power fails.     *)
LEMMA LossRoom ==
  ASSUME EnoughEntries, TearsShow, KeepsUp, IInv, Numbers, PaceInv, mode = "run",
         Fail, torn' = IF TornCopy THEN torn + 1 ELSE torn, torn' \in 0 .. MaxTorn
  PROVE  RoomToBoot'
<1>1. TypeOK /\ NestingInv /\ KnownInv /\ RunInv /\ AddressInv
  BY DEF IInv, WhileRunning, RunInv
<1>2. /\ currSector \in Sectors /\ currAddress[currSector] \in Nat
      /\ 0 \in Slots /\ LastSlot \in Slots /\ FDS_PER_SECTOR \in Nat
      /\ LastSlot = FDS_PER_SECTOR - 1 /\ FDS_PER_SECTOR > 0
      /\ \A k \in Nat : k < FDS_PER_SECTOR <=> k \in Slots
      /\ \A k \in Slots : k \in Nat /\ k <= LastSlot
  BY <1>1, Geometry DEF TypeOK, Slots, LastSlot
<1>3. /\ Written => ~SECTOR_IS_FULL(currSector)
      /\ flash' # flash => PowerLossInProgram /\ ~SECTOR_IS_FULL(currSector)
      /\ \A id : Copies(id)' = Copies(id) /\ \A a \in Copies(id) : flash'[a] = flash[a]
      /\ \A a \in FsAddr : flash'[a] # flash[a] => flash' # flash /\ a = Target
  <2>1. Written => ~SECTOR_IS_FULL(currSector)
    BY <1>1 DEF Written, Running, RunInv, CallsInv
  <2>2. CASE PowerLoss
    <3>1. flash' = flash
      BY <2>2 DEF PowerLoss
    <3>2. \A id : Copies(id)' = Copies(id)
      BY <3>1 DEF Copies, IsValid
    <3> QED BY <2>1, <3>1, <3>2
  <2>3. CASE PowerLossInProgram
    BY <2>1, <2>3, TornTouches, FsAddrFacts
  <2> QED BY <2>2, <2>3 DEF Fail
<1>4. \A v : Live(v)' = Live(v)
  BY <1>3, LiveKept
<1>5. ~SECTOR_IS_FULL(currSector) => /\ Target[1] = currSector
                                     /\ Target[2] = currAddress[currSector]
  BY <1>1, TargetFacts
<1>6. ASSUME NEW s \in Sectors \ {currSector}, NEW k \in Slots
      PROVE  flash'[<<s, k>>] = Blank <=> k >= currAddress[s]
  <2>1. <<s, k>> \in FsAddr /\ <<s, k>>[1] = s /\ <<s, k>>[2] = k
    BY FsAddrFacts
  <2>2. ~(Written /\ <<s, k>> = Target) /\ flash'[<<s, k>>] = flash[<<s, k>>]
    BY <1>3, <1>5, <2>1
  <2> QED BY <1>1, <2>1, <2>2 DEF AddressInv
<1>7. CASE SpareSector
  <2>1. PICK s \in Sectors \ {currSector} : currAddress[s] = 0
    BY <1>7 DEF SpareSector, SECTOR_IS_BLANK
  <2>2. \A k \in 0 .. LastSlot : k \in Slots /\ k >= 0
    BY <1>2 DEF Slots
  <2>3. IsBlankFrom(s, 0)'
    BY <1>6, <2>1, <2>2 DEF IsBlankFrom
  <2> QED BY <2>1, <2>3 DEF RoomToBoot
<1>8. CASE ~SpareSector
  <2>1. PICK v \in Victims : Need(v) <= Room
    BY <1>8 DEF PaceInv, RoomToRelocate
  <2>2. /\ v \in Sectors /\ v # currSector /\ SECTOR_IS_FULL(v)
        /\ lc \notin {"begin", "select"} => v = reloc.sector
    BY <1>1, VictimFacts DEF PaceInv
  <2>3. flash'[<<v, LastSlot>>] # Blank
    <3>1. ~(LastSlot >= currAddress[v])
      BY <1>1, <1>2, <2>2 DEF SECTOR_IS_FULL, TypeOK
    <3> QED BY <1>2, <1>6, <2>2, <3>1
  <2> DEFINE n == Cardinality(Live(v))
             used == IF Written \/ flash' # flash THEN 1 ELSE 0
             c == currAddress[currSector]
  <2>4. n <= FdCount(v) /\ n \in Nat /\ FdCount(v) \in Nat
    BY <1>1, <2>2, LiveIsCounted, LiveIsFinite DEF Numbers
  <2>13. Allowed \in Int /\ Allowed' = IF TornCopy THEN Allowed - 1 ELSE Allowed
    BY TornIsFinite DEF Allowed, PaceInv
  <2>5. n + used + Allowed' <= FdCount(v) + Again + Pending + Allowed
    <3>1. CASE used = 0 \/ Again = 1 \/ Pending = 1 \/ TornCopy
      BY <2>4, <2>13, <3>1 DEF Numbers
    <3>2. CASE used = 1 /\ Again = 0 /\ Pending = 0 /\ ~TornCopy
      <4>1. calls # <<>> /\ ~Waiting /\ ~(Copying /\ lc = "next")
        BY <1>3, <3>2 DEF Written, Running, PowerLossInProgram, Executing, Again, One
      <4>2. Top = calls[1] /\ Top.caller = "fs_thread" /\ Copying /\ 1 \in 1 .. Len(calls)
        BY <1>1, <3>2, <4>1, OnlyCopying
      <4>3. Written
        BY <1>3, <1>8, <3>2, <4>2 DEF TornCopy
      <4>4. lc = "copied"
        <5>1. lc \in Rewriting
          BY <1>1, <4>2 DEF KnownInv, IdsAreKnown
        <5> QED BY <4>1, <4>2, <5>1 DEF PaceInv, Rewriting
      <4>5. Stays /\ Top.id = reloc.id
        BY <1>1, <4>2, <4>4 DEF PaceInv, RunInv, RewriteInv
      <4>6. /\ reloc.fd_index \in EntriesIn(v)
            /\ Replaced(fd[reloc.fd_index].header.id)
        BY <1>1, <2>2, <4>3, <4>4, <4>5, StaysIn DEF Relocating, Replaced
      <4>7. n <= FdCount(v) - 1
        BY <1>1, <2>2, <4>6, LiveIsCounted
      <4> QED BY <2>4, <2>13, <3>2, <4>7
    <3> QED BY <3>1, <3>2 DEF Numbers
  <2>6. c \in Nat /\ used \in 0 .. 1
    BY <1>2
  <2>7. PICK s \in Sectors, k \in Nat : s = currSector /\ k = c + used
    BY <1>2, <2>6
  <2>8. k + n + WritesIn(2 * n) + 1 + Allowed' <= FDS_PER_SECTOR
    <3> DEFINE w == WritesIn(2 * Left(v) + Behind)
    <3>1. /\ Left(v) \in Nat /\ FdCount(v) <= Left(v) /\ Behind \in Nat
          /\ Again \in 0 .. 1 /\ Pending \in 0 .. 1
      BY <2>2, PaceIsFinite DEF Numbers, Left, One, Behind, PaceInv
    <3>2. 2 * n <= 2 * Left(v) + Behind
      BY <2>4, <3>1
    <3>3. WritesIn(2 * n) <= w /\ WritesIn(2 * n) \in Nat /\ w \in Nat
      BY <2>4, <3>1, <3>2, WritesInFacts
    <3>4. /\ Need(v) = FdCount(v) + w + Again + Pending + Allowed + 1
          /\ Room = FDS_PER_SECTOR - c
      BY DEF Need, Room
    <3> HIDE DEF w, n, c, used
    <3>5. Allowed' \in Int
      BY <2>13
    <3> QED BY <1>2, <2>1, <2>4, <2>5, <2>6, <2>7, <2>13, <3>1, <3>3, <3>4, <3>5
  <2>9. k \in Slots
    <3>1. WritesIn(2 * n) \in Nat
      BY <2>4, WritesInFacts
    <3>2. Allowed' \in Nat
      BY TornIsFinite DEF Allowed
    <3> HIDE DEF n
    <3> QED BY <1>2, <2>4, <2>7, <2>8, <3>1, <3>2
  <2>10. ASSUME NEW j \in k .. LastSlot
         PROVE  flash'[<<s, j>>] = Blank
    <3>1. j \in Slots /\ j >= c + used
      BY <1>2, <2>7, <2>9
    <3>2. <<s, j>> \in FsAddr /\ <<s, j>>[1] = s /\ <<s, j>>[2] = j
      BY <3>1, FsAddrFacts
    <3>3. Written \/ flash' # flash => <<s, j>> # Target
      BY <1>2, <1>3, <1>5, <3>1, <3>2
    <3>4. flash'[<<s, j>>] = flash[<<s, j>>] /\ ~(Written /\ <<s, j>> = Target)
      BY <1>3, <3>2, <3>3
    <3>5. j >= currAddress[s]
      BY <1>2, <2>6, <2>7, <3>1
    <3> QED BY <1>1, <3>2, <3>4, <3>5 DEF AddressInv
  <2>11. Cardinality(Live(v))' = n
    BY <1>4
  <2>12. RoomInFlash(s, k, v)'
    <3> HIDE DEF n
    <3> QED BY <2>3, <2>8, <2>10, <2>11 DEF RoomInFlash, IsBlankFrom, WritesIn
  <2> QED BY <2>2, <2>9, <2>12 DEF RoomToBoot
<1> QED BY <1>7, <1>8

-----------------------------------------------------------------------------
(* fs_init takes no room: it invalidates blocks that do not count.         *)
LEMMA OlderDoesNotCount ==
  ASSUME TypeOK, TypeOK', NEW l \in FsAddr, NEW w \in FsAddr, IsOlder(l, w),
         Invalidates(l), NEW v
  PROVE  Live(v)' \subseteq Live(v)
<1>1. /\ ~IsValid(l)'
      /\ \A a \in FsAddr : a # l => (IsValid(a)' <=> IsValid(a)) /\ flash'[a] = flash[a]
  BY InvalidatedCell, FsAddrFacts
<1>2. \A id : Copies(id)' = Copies(id) \ {l} /\ \A a \in Copies(id)' : flash'[a] = flash[a]
  BY <1>1 DEF Copies
<1>3. \A a \in FsAddr : flash[a].newer \in {0, 1}
  BY FsAddrFacts DEF TypeOK, Cell, Flags, FS_BLOCK_CURRENT, FS_BLOCK_NEWER
<1>4. flash[l].newer <= flash[w].newer
  BY <1>3 DEF IsOlder, FS_BLOCK_CURRENT, FS_BLOCK_NEWER
<1>5. ASSUME NEW id, NEW a \in Newest(id)'
      PROVE  a \in Newest(id)
  <2>1. /\ a \in Copies(id) /\ a # l /\ a \in FsAddr
        /\ \A b \in Copies(id) \ {l} : flash[b].newer <= flash[a].newer
    BY <1>2 DEF Newest, Copies
  <2>2. l \in Copies(id) => flash[l].newer <= flash[a].newer
    <3> SUFFICES ASSUME l \in Copies(id) PROVE flash[l].newer <= flash[a].newer
      OBVIOUS
    <3>1. w \in Copies(id) \ {l}
      BY DEF IsOlder, Copies
    <3>2. flash[w].newer <= flash[a].newer
      BY <2>1, <3>1
    <3> QED BY <1>3, <1>4, <2>1, <3>2
  <2> QED BY <2>1, <2>2 DEF Newest
<1> QED BY <1>5 DEF Live

(* Each step of fs_init leaves the room as it is.                          *)
LEMMA BootRoom ==
  ASSUME EnoughEntries, TearsShow, KeepsUp, IInv, TypeOK', Boot, RoomToBoot,
         torn \in 0 .. MaxTorn, UNCHANGED torn
  PROVE  RoomToBoot'
<1>1. CASE UNCHANGED flash
  <2>1. \A id : Copies(id)' = Copies(id)
    BY <1>1 DEF Copies, IsValid
  <2>2. \A v : Live(v)' = Live(v)
    BY <1>1, <2>1, LiveKept
  <2> QED BY <1>1, <2>2 DEF RoomToBoot, RoomInFlash, IsBlankFrom, Allowed
<1>2. ASSUME NEW i \in FdIndexes, BootDuplicate(i)
      PROVE  RoomToBoot'
  <2>1. PICK l \in FsAddr, w \in FsAddr : IsOlder(l, w) /\ Invalidates(l)
    BY <1>2, DuplicateLoses
  <2>2. /\ flash[l] # Blank /\ flash'[l] # Blank
        /\ \A a \in Addr : a # l => flash'[a] = flash[a]
    BY <2>1, CellFacts, InvalidatedCell, FsAddrFacts DEF IInv, IsOlder
  <2>3. \A s \in Sectors, k \in Slots : flash'[<<s, k>>] = Blank <=> flash[<<s, k>>] = Blank
    BY <2>2, FsAddrFacts
  <2>4. \A k \in Slots : \A j \in k .. LastSlot : j \in Slots
    BY Geometry DEF Slots, LastSlot
  <2>5. 0 \in Slots /\ LastSlot \in Slots
    BY Geometry DEF Slots, LastSlot
  <2>6. \A s \in Sectors, k \in Slots : IsBlankFrom(s, k)' <=> IsBlankFrom(s, k)
    BY <2>3, <2>4 DEF IsBlankFrom
  <2>7. CASE \E s \in Sectors : IsBlankFrom(s, 0)
    BY <2>5, <2>6, <2>7 DEF RoomToBoot
  <2>8. ASSUME NEW s \in Sectors, NEW v \in Sectors, NEW k \in Slots, RoomInFlash(s, k, v)
        PROVE  RoomInFlash(s, k, v)'
    <3> DEFINE n == Cardinality(Live(v))
               m == Cardinality(Live(v)')
    <3>1. m <= n /\ m \in Nat /\ n \in Nat
      <4>1. Live(v)' \subseteq Live(v)
        BY <2>1, OlderDoesNotCount DEF IInv
      <4>2. IsFiniteSet(Live(v))
        BY LiveIsFinite
      <4> QED BY <4>1, <4>2, FS_Subset, FS_CardinalityType
    <3>2. IsBlankFrom(s, k) /\ flash[<<v, LastSlot>>] # Blank
          /\ k + n + WritesIn(2 * n) + 1 + Allowed <= FDS_PER_SECTOR
      BY <2>8 DEF RoomInFlash
    <3>3. IsBlankFrom(s, k)' /\ flash'[<<v, LastSlot>>] # Blank
      BY <2>3, <2>5, <2>6, <3>2
    <3>4. k \in Nat /\ FDS_PER_SECTOR \in Nat /\ Allowed \in Nat /\ Allowed' = Allowed
      BY Geometry, TornIsFinite DEF Slots, Allowed
    <3> HIDE DEF m, n
    <3>5. k + m + WritesIn(2 * m) + 1 + Allowed <= FDS_PER_SECTOR
      <4>1. /\ WritesIn(2 * m) <= WritesIn(2 * n)
            /\ WritesIn(2 * m) \in Nat /\ WritesIn(2 * n) \in Nat
        BY <3>1, WritesInFacts
      <4> QED BY <3>1, <3>2, <3>4, <4>1
    <3> QED BY <3>3, <3>4, <3>5 DEF RoomInFlash, WritesIn, m
  <2> QED BY <2>7, <2>8 DEF RoomToBoot
<1>3. UNCHANGED flash \/ \E i \in FdIndexes : BootDuplicate(i)
  BY DEF Boot, BootBlank, BootSkip, BootIndex, BootNoFd, BootDone
<1> QED BY <1>1, <1>2, <1>3

-----------------------------------------------------------------------------
(* The callers of the activations, from one step to the next. *)
LEMMA GoToCallers ==
  ASSUME TypeOK, NEW from, NEW to \in CallPoints, Executing(from), GoTo(to),
         from # "fs_thread"
  PROVE  /\ Copying' <=> Copying
         /\ Pending' = Pending
         /\ to # "fs_thread" => (Waiting' <=> Waiting)
<1>1. /\ Len(calls') = Len(calls) /\ calls' # <<>> /\ calls # <<>>
      /\ \A c \in 1 .. Len(calls) : calls'[c].caller = calls[c].caller
      /\ \A c \in 1 .. Len(calls) - 1 : calls'[c] = calls[c]
      /\ Top' = [Top EXCEPT !.at = to] /\ Top \in Call
  BY GoToCalls, TopFacts DEF SameCalls, Executing
<1>2. /\ Len(calls) \in Nat \ {0} /\ 1 \in 1 .. Len(calls)
      /\ \A c \in 1 .. Len(calls) : c = Len(calls) \/ c \in 1 .. Len(calls) - 1
  BY <1>1, CallLength DEF TypeOK
<1>3. Top'.at = to /\ Top.at = from /\ Top = calls[Len(calls)] /\ Top' = calls'[Len(calls)]
  BY <1>1 DEF Top, Executing, Call
<1>4. Copying' <=> Copying
  BY <1>1 DEF Copying
<1>5. Pending' = Pending
  BY <1>1, <1>2 DEF Pending, One
<1>6. ASSUME to # "fs_thread" PROVE Waiting' <=> Waiting
  BY <1>1, <1>2, <1>3, <1>6 DEF Waiting
<1> QED BY <1>4, <1>5, <1>6

(* Who is still under way when an fs_write has returned ...                *)
LEMMA ReturnCallers ==
  ASSUME TypeOK, NestingInv, NEW from, NEW res \in {0, -1, -2}, Executing(from),
         Return(res), from # "fs_thread"
  PROVE  /\ ~Waiting'
         /\ Top.caller = "user" => /\ ~Copying /\ ~Copying'
                                   /\ Pending = 1 /\ Pending' = 0
         /\ Top.caller # "user" => /\ Copying /\ (Copying' => Waiting)
                                   /\ Pending' = Pending
<1>1. /\ calls' \in Seq(Call) /\ Len(calls') = Len(calls) - 1
      /\ SameCalls(calls, calls', Len(calls'))
      /\ calls' # <<>> => Len(calls) = 2 /\ Len(calls') = 1 /\ Top'.at = "mark"
      /\ Top.caller # "user" => Top.caller = "fs_thread"
  BY ReturnCalls
<1>2. /\ 1 \in 1 .. Len(calls) /\ Len(calls) \in {1, 2}
      /\ Len(calls) = 1 => Top = calls[1]
      /\ Len(calls) = 2 => Top.caller = "fs_thread" /\ calls[1].at = "fs_thread"
      /\ Top = calls[Len(calls)] /\ calls # <<>>
  BY CallsAre DEF Executing, Top
<1>3. CASE Len(calls) = 1
  <2>1. Len(calls') = 0 /\ calls' = <<>>
    BY <1>1, <1>3, CallLength
  <2>2. ~Waiting' /\ ~Copying' /\ Pending' = 0
    BY <2>1 DEF Waiting, Copying, Pending, One
  <2>3. \A c \in 1 .. Len(calls) : c = 1
    BY <1>3
  <2> QED BY <1>1, <1>2, <1>3, <2>2, <2>3 DEF Copying, Pending, One
<1>4. CASE Len(calls) = 2
  <2>0. Len(calls') = 1 /\ calls' # <<>>
    BY <1>1, <1>4, CallLength
  <2>1. Len(calls') = 1 /\ calls' # <<>> /\ Top' = calls'[1] /\ Top'.at = "mark"
    BY <1>1, <2>0 DEF Top
  <2>2. \A c \in 1 .. Len(calls') : c = 1
    BY <2>1
  <2>3. calls'[1].caller = calls[1].caller
    BY <1>1, <2>1 DEF SameCalls
  <2>4. Pending' = Pending
    BY <1>2, <2>1, <2>3 DEF Pending, One
  <2> QED BY <1>1, <1>2, <2>1, <2>2, <2>3, <2>4 DEF Waiting, Copying
<1> QED BY <1>2, <1>3, <1>4

(* ... when fs_thread runs ...                                             *)
LEMMA OneAlone ==
  ASSUME TypeOK, NestingInv, ThreadRuns
  PROVE  /\ calls \in Seq(Call) /\ Len(calls) \in {0, 1}
         /\ Copying => Waiting
<1>1. CASE calls = <<>>
  BY <1>1, CallLength DEF TypeOK, Copying
<1>2. CASE calls # <<>>
  <2>1. /\ 1 \in 1 .. Len(calls) /\ Len(calls) \in {1, 2}
        /\ Top.at = "fs_thread"
    BY <1>2, CallsAre DEF ThreadRuns
  <2>2. Len(calls) # 2
    BY <2>1 DEF Top, NestingInv
  <2>3. \A c \in 1 .. Len(calls) : c = 1 /\ calls[c] = Top
    BY <2>1, <2>2 DEF Top
  <2> QED BY <2>1, <2>2, <2>3 DEF TypeOK, Copying, Waiting
<1> QED BY <1>1, <1>2

(* ... when fs_thread has yielded ...                                      *)
LEMMA YieldCallers ==
  ASSUME TypeOK, NestingInv, ThreadRuns, NEW l \in Continuations, YieldAt(l)
  PROVE  /\ lc' = l /\ ~Waiting' /\ (Copying' <=> Copying) /\ (Copying => Waiting)
         /\ Pending' = Pending
<1>1. /\ calls' \in Seq(Call) /\ Len(calls') = Len(calls)
      /\ SameCalls(calls, calls', Len(calls))
      /\ lc' = l /\ (calls' # <<>> => Top'.at = "mark")
  BY YieldCalls
<1>2. calls \in Seq(Call) /\ Len(calls) \in {0, 1} /\ (Copying => Waiting)
  BY OneAlone
<1>3. \A c \in 1 .. Len(calls) : c = 1 /\ c = Len(calls') /\ calls' # <<>>
  BY <1>1, <1>2, CallLength
<1>4. ~Waiting'
  BY <1>1, <1>3 DEF Waiting, Top
<1>5. Copying' <=> Copying
  BY <1>1 DEF Copying, SameCalls
<1>6. Pending' = Pending
  <2>1. calls' = <<>> <=> calls = <<>>
    BY <1>1, <1>2, CallLength
  <2>2. calls # <<>> => 1 \in 1 .. Len(calls)
    BY <1>2, CallLength
  <2> QED BY <1>1, <2>1, <2>2 DEF Pending, One, SameCalls
<1> QED BY <1>1, <1>2, <1>4, <1>5, <1>6

(* ... and when fs_thread calls fs_write.                                  *)
LEMMA PushCallers ==
  ASSUME TypeOK, NestingInv, ThreadRuns, CallFsWrite
  PROVE  Copying' /\ (Waiting' <=> Waiting) /\ Pending' = Pending
<1>1. /\ calls' \in Seq(Call) /\ Len(calls') = Len(calls) + 1 /\ calls' # <<>>
      /\ \A c \in 1 .. Len(calls) : calls'[c] = calls[c]
      /\ Top' = [caller |-> "fs_thread", at |-> "updateSector",
                 id |-> reloc.id, data |-> Erased]
  BY PushCalls
<1>2. calls \in Seq(Call) /\ Len(calls) \in {0, 1}
  BY OneAlone
<1>3. /\ \A c \in 1 .. Len(calls') : c = Len(calls') \/ c \in 1 .. Len(calls)
      /\ Len(calls') \in 1 .. Len(calls') /\ \A c \in 1 .. Len(calls) : c \in 1 .. Len(calls')
      /\ calls'[Len(calls')].at = "updateSector"
      /\ calls'[Len(calls')].caller = "fs_thread"
  BY <1>1, <1>2 DEF Top
<1>4. Copying'
  BY <1>3 DEF Copying
<1>5. Waiting' <=> Waiting
  BY <1>1, <1>3 DEF Waiting
<1>6. Pending' = Pending
  <2>1. CASE calls = <<>>
    <3>1. Len(calls') = 1
      BY <1>1, <2>1, CallLength
    <3>2. calls'[1].caller # "user"
      BY <1>3, <3>1
    <3> QED BY <2>1, <3>2 DEF Pending, One
  <2>2. CASE calls # <<>>
    <3>1. 1 \in 1 .. Len(calls)
      BY <1>2, <2>2, CallLength
    <3> QED BY <1>1, <2>2, <3>1 DEF Pending, One
  <2> QED BY <2>1, <2>2
<1> QED BY <1>4, <1>5, <1>6

-----------------------------------------------------------------------------
(* A step after fs_init: what it may rest on, and how the need for room    *)
(* follows from one state to the next.                                     *)
Goes == /\ EnoughEntries /\ KeepsUp /\ StateFacts /\ StateFacts' /\ PaceInv
        /\ mode = "run" /\ mode' = "run"
        /\ torn' = IF SpareSector' THEN 0 ELSE torn

(* What a step after fs_init rests on.                                     *)
LEMMA GoesFacts ==
  ASSUME Goes
  PROVE  /\ TypeOK /\ NestingInv /\ KnownInv /\ RunInv /\ AddressInv /\ Numbers
         /\ TypeOK' /\ NestingInv' /\ KnownInv' /\ RunInv' /\ AddressInv' /\ Numbers'
         /\ Room \in Int /\ Room' \in Int /\ Behind \in 0 .. PollsPerWrite
         /\ polls \in 0 .. PollsPerWrite /\ RoomToRelocate
         /\ torn' \in 0 .. MaxTorn /\ Allowed \in 0 .. MaxTorn /\ Allowed' \in 0 .. MaxTorn
         /\ ~SpareSector' => Allowed' = Allowed
<1>1. /\ TypeOK /\ NestingInv /\ KnownInv /\ RunInv /\ AddressInv /\ Numbers
      /\ TypeOK' /\ NestingInv' /\ KnownInv' /\ RunInv' /\ AddressInv' /\ Numbers'
  BY DEF Goes, StateFacts, IInv, WhileRunning, RunInv
<1>2. Room \in Int /\ Room' \in Int
  <2>1. FDS_PER_SECTOR \in Int
    BY Geometry
  <2>2. currAddress[currSector] \in Nat /\ currAddress'[currSector'] \in Nat
    BY <1>1 DEF TypeOK
  <2> QED BY <2>1, <2>2 DEF Room
<1>3. polls \in 0 .. PollsPerWrite /\ RoomToRelocate
  BY DEF Goes, PaceInv
<1>4. Behind \in 0 .. PollsPerWrite
  BY <1>1, <1>3, PaceIsFinite DEF Behind, Numbers
<1>5. torn' \in 0 .. MaxTorn /\ Allowed \in 0 .. MaxTorn /\ Allowed' \in 0 .. MaxTorn
  BY TornIsFinite DEF Goes, PaceInv, Allowed
<1>6. ~SpareSector' => Allowed' = Allowed
  BY DEF Goes, Allowed
<1> QED BY <1>1, <1>2, <1>3, <1>4, <1>5, <1>6

(* The turns that count for nothing are fewer than those between writes.   *)
LEMMA BehindNext ==
  ASSUME Goes, polls' \in 0 .. PollsPerWrite
  PROVE  Behind' \in 0 .. PollsPerWrite
<1>1. Stage' \in 0 .. 3
  BY GoesFacts DEF Numbers
<1>2. PICK p \in 0 .. PollsPerWrite, q \in 0 .. 3 : p = polls' /\ q = Stage'
  BY <1>1
<1>3. Behind' = IF p + q > 3 THEN p + q - 3 ELSE 0
  BY <1>2 DEF Behind
<1>4. CASE p + q > 3
  <2>1. Behind' = p + q - 3
    BY <1>3, <1>4
  <2>2. p + q - 3 \in 0 .. PollsPerWrite
    BY <1>4, PaceIsFinite
  <2> QED BY <2>1, <2>2
<1>5. CASE ~(p + q > 3)
  <2>1. Behind' = 0
    BY <1>3, <1>5
  <2> QED BY <2>1, PaceIsFinite
<1> QED BY <1>4, <1>5

(* A cell is paid for by an entry or a write less, or by two turns.        *)
LEMMA NeedShrinks ==
  ASSUME Goes, polls' \in 0 .. PollsPerWrite,
         NEW v \in Sectors, NEW w \in Sectors, NEW d \in 0 .. 1,
         Need(v) <= Room, Room' = Room - d, ~SpareSector',
         2 * Left(w)' + Behind' <= 2 * Left(v) + Behind,
         FdCount(w)' + Again' + Pending' + d <= FdCount(v) + Again + Pending
  PROVE  Need(w)' <= Room'
<1> DEFINE x == 2 * Left(v) + Behind
           y == 2 * Left(w)' + Behind'
<1>1. /\ FdCount(v) \in Nat /\ Left(v) \in Nat /\ FdCount(w)' \in Nat /\ Left(w)' \in Nat
      /\ Again \in 0 .. 1 /\ Pending \in 0 .. 1 /\ Again' \in 0 .. 1 /\ Pending' \in 0 .. 1
      /\ Room \in Int /\ Room' \in Int /\ Allowed \in Int /\ Allowed' = Allowed
  BY GoesFacts DEF Numbers
<1>2. x \in Nat /\ y \in Nat /\ y <= x
  BY <1>1, GoesFacts, BehindNext
<1>3. WritesIn(y) <= WritesIn(x) /\ WritesIn(x) \in Nat /\ WritesIn(y) \in Nat
  BY <1>2, WritesInFacts DEF Goes
<1>4. /\ Need(v) = FdCount(v) + WritesIn(x) + Again + Pending + Allowed + 1
      /\ Need(w)' = FdCount(w)' + WritesIn(y) + Again' + Pending' + Allowed' + 1
  BY DEF Need, WritesIn
<1> HIDE DEF x, y
<1> QED BY <1>1, <1>3, <1>4

(* No step of fs_write but ChangeSector and Settle has a part in this.     *)
LEMMA SamePlaces ==
  ASSUME TypeOK, UNCHANGED fd_index,
         \A i \in Entries : fd'[i].sector = fd[i].sector, NEW v
  PROVE  FdCount(v)' = FdCount(v)
BY DEF FdCount, Entries

(* A step that moves no entry and no address changes nothing here.         *)
LEMMA QuietPace ==
  ASSUME Goes, UNCHANGED <<lc, reloc, currSector, currAddress, fd_index, polls>>,
         \A i \in Entries : /\ fd'[i].sector = fd[i].sector
                            /\ fd'[i].address = fd[i].address,
         Copying' <=> Copying, Waiting' <=> Waiting, Pending' = Pending
  PROVE  PaceInv'
<1>1. \A v : FdCount(v)' = FdCount(v)
  BY SamePlaces, GoesFacts
<1>2. lc \in Relocating => (Stays' <=> Stays) /\ (Moved' <=> Moved)
  BY GoesFacts DEF RunInv, RelocInv, Stays, Moved
<1>3. \A v : Left(v)' = Left(v)
  BY <1>1, <1>2 DEF Left, One, Relocating
<1>4. Stage' = Stage /\ Behind' = Behind /\ Again' = Again /\ Room' = Room
  BY DEF Stage, Behind, Again, One, Room
<1>5. ~SpareSector' => \A v : Need(v)' = Need(v)
  BY <1>1, <1>3, <1>4, GoesFacts DEF Need, WritesIn
<1>6. Victims' = Victims /\ (SpareSector' <=> SpareSector)
  BY <1>1 DEF Victims, Candidates, SpareSector, SECTOR_IS_FULL, SECTOR_IS_BLANK
<1>7. RoomToRelocate'
  <2>1. RoomToRelocate
    BY GoesFacts
  <2> QED BY <1>4, <1>5, <1>6, <2>1 DEF RoomToRelocate
<1>8. lc # "retry" /\ polls \in 0 .. PollsPerWrite /\ mode' = "run"
  BY DEF Goes, PaceInv
<1>11. torn' \in 0 .. MaxTorn
  BY GoesFacts
<1>9. lc' \notin {"begin", "select"} => Left(reloc.sector)' <= MostLive
  BY <1>3 DEF Goes, PaceInv, MostLive
<1>10. lc' = "copied" /\ Copying' => Stays'
  BY <1>2 DEF Goes, PaceInv, Relocating
<1> QED BY <1>7, <1>8, <1>9, <1>10, <1>11 DEF PaceInv

(* Such are the steps that mark, program and invalidate a block.           *)
LEMMA QuietWrite ==
  ASSUME Goes, UNCHANGED polls,
         \/ StaySector \/ ProgramBlock
         \/ \E i \in 0 .. FD_MAX : MarkCurrent(i) \/ InvalidateOld(i)
  PROVE  PaceInv'
<1>1. PICK from \in {"updateSector", "mark", "program", "invalidate"},
           to \in {"mark", "program", "invalidate", "settle"} :
        Executing(from) /\ GoTo(to)
  BY DEF StaySector, ProgramBlock, MarkCurrent, InvalidateOld
<1>2. (Copying' <=> Copying) /\ (Waiting' <=> Waiting) /\ Pending' = Pending
  BY <1>1, GoToCallers, GoesFacts DEF CallPoints
<1>3. UNCHANGED <<lc, reloc, currSector, currAddress, fd_index, polls>>
  BY DEF StaySector, ProgramBlock, MarkCurrent, InvalidateOld, indexVars, currVars
<1>4. ASSUME NEW j \in Entries
      PROVE  fd'[j].sector = fd[j].sector /\ fd'[j].address = fd[j].address
  <2>1. j \in FdIndexes /\ fd \in [FdIndexes -> FileDescriptor]
    BY EntryFacts, GoesFacts DEF TypeOK
  <2>2. CASE UNCHANGED fd
    BY <2>2
  <2>3. CASE \E i \in 0 .. FD_MAX : i < fd_index /\
               \E h : fd' = [fd EXCEPT ![i].header = h]
    <3>1. PICK i : \E h : fd' = [fd EXCEPT ![i].header = h]
      BY <2>3
    <3> QED BY <2>1, <3>1 DEF FileDescriptor
  <2> QED BY <2>2, <2>3 DEF StaySector, ProgramBlock, MarkCurrent, InvalidateOld, indexVars
<1> QED BY <1>2, <1>3, <1>4, QuietPace

(* While there is room to relocate no fs_write is refused for want of it.  *)
LEMMA RoomIsOpen ==
  ASSUME KeepsUp, TypeOK, RunInv, Numbers, PaceInv, mode = "run"
  PROVE  \E s \in Sectors : ~SECTOR_IS_FULL(s)
<1>1. CASE SpareSector
  BY <1>1, Geometry DEF SpareSector, SECTOR_IS_BLANK, SECTOR_IS_FULL
<1>2. CASE \E v \in Victims : Need(v) <= Room
  <2>1. PICK v \in Victims : Need(v) <= Room
    BY <1>2
  <2>2. v \in Sectors /\ lc # "retry"
    BY VictimFacts DEF PaceInv
  <2> DEFINE w == WritesIn(2 * Left(v) + Behind)
  <2>3. 2 * Left(v) + Behind \in Nat
    <3>1. polls \in Nat /\ Stage \in 0 .. 3 /\ Left(v) \in Nat
      BY <2>2, PaceIsFinite DEF Numbers, PaceInv
    <3>2. Behind \in Nat
      BY <3>1 DEF Behind
    <3> QED BY <3>1, <3>2
  <2>4. w \in Nat
    BY <2>3, WritesInFacts
  <2>5. Need(v) = FdCount(v) + w + Again + Pending + Allowed + 1 /\ Allowed \in Nat
    BY TornIsFinite DEF Need, Allowed, PaceInv
  <2> HIDE DEF w
  <2>6. Need(v) >= 1 /\ Need(v) \in Nat
    BY <2>2, <2>4, <2>5 DEF Numbers
  <2>7. currSector \in Sectors /\ currAddress[currSector] \in Nat
    BY DEF TypeOK
  <2>8. currAddress[currSector] < FDS_PER_SECTOR
    BY <2>1, <2>6, <2>7, Geometry DEF Room
  <2> QED BY <2>7, <2>8, Geometry DEF SECTOR_IS_FULL
<1> QED BY <1>1, <1>2 DEF PaceInv, RoomToRelocate

(* A sector that is taken into use blank has room for any victim. *)
LEMMA WholeSector ==
  ASSUME Goes, polls' \in 0 .. PollsPerWrite, NEW v \in Sectors, v \in Victims',
         FdCount(v)' <= MostLive, Left(v)' <= MostLive, Again' + Pending' <= 1,
         Room' = FDS_PER_SECTOR
  PROVE  RoomToRelocate'
<1>1. /\ FdCount(v)' \in Nat /\ Left(v)' \in Nat
      /\ Again' \in 0 .. 1 /\ Pending' \in 0 .. 1
  BY GoesFacts DEF Numbers
<1>2. PICK n \in Nat, l \in Nat, b \in 0 .. PollsPerWrite, x \in 0 .. 1 :
        n = FdCount(v)' /\ l = Left(v)' /\ b = Behind' /\ x = Again' + Pending'
  <2>1. Behind' \in 0 .. PollsPerWrite
    BY BehindNext
  <2>2. PICK a \in 0 .. 1, p \in 0 .. 1 : a = Again' /\ p = Pending'
    BY <1>1
  <2>3. a + p = Again' + Pending'
    BY <2>2
  <2>4. a + p \in 0 .. 1
    BY <2>3
  <2> QED BY <1>1, <2>1, <2>3, <2>4
<1>3. n + WritesIn(2 * l + b) + x + Allowed' + 1 <= FDS_PER_SECTOR
  BY <1>2, WholeSectorSuffices, GoesFacts DEF Goes
<1>4. WritesIn(2 * l + b) \in Nat
  BY <1>2, WritesInFacts, PaceIsFinite DEF Goes
<1>5. Need(v)' = n + WritesIn(2 * l + b) + Again' + Pending' + Allowed' + 1
  BY <1>2 DEF Need, WritesIn
<1>6. Need(v)' <= Room'
  <2>1. PICK a \in 0 .. MaxTorn : a = Allowed'
    BY GoesFacts
  <2> QED BY <1>1, <1>2, <1>3, <1>4, <1>5, <2>1, TornIsFinite
<1> QED BY <1>6 DEF RoomToRelocate

(* updateSector takes a blank sector, the last one with room for a victim. *)
LEMMA ChangePace ==
  ASSUME Goes, ChangeSector, UNCHANGED polls
  PROVE  PaceInv'
<1>1. /\ TypeOK /\ NestingInv /\ KnownInv /\ RunInv /\ AddressInv /\ Numbers
      /\ Executing("updateSector") /\ SECTOR_IS_FULL(currSector)
      /\ UNCHANGED <<lc, reloc, fd, fd_index, currAddress, polls>>
      /\ calls # <<>>
  BY GoesFacts DEF ChangeSector, indexVars, Executing
<1>2. (Copying' <=> Copying) /\ Pending' = Pending
  BY <1>1, GoToCallers DEF ChangeSector, CallPoints
<1>3. PICK s \in Sectors : currSector' = s /\ ~SECTOR_IS_FULL(s)
  BY DEF ChangeSector, NextOpenSector
<1>4. currAddress[s] = 0 /\ Room' = FDS_PER_SECTOR
  <2>1. currAddress[s] = 0
    BY <1>1, <1>3, Geometry DEF AddressInv, SECTOR_IS_FULL
  <2> QED BY <1>1, <1>3, <2>1, Geometry DEF Room
<1>5. Again' + Pending' <= 1
  <2>1. 1 \in 1 .. Len(calls) /\ Len(calls) \in {1, 2}
    BY <1>1, CallsAre
  <2>2. Len(calls) # 2
    BY <1>1 DEF NestingInv
  <2>3. \A c \in 1 .. Len(calls) : c = 1
    BY <2>1, <2>2
  <2>4. CASE Pending = 1
    <3>1. calls[1].caller = "user"
      BY <2>4 DEF Pending, One
    <3>2. ~Copying /\ ~Copying'
      BY <1>2, <2>3, <3>1 DEF Copying
    <3>3. Again' = 0
      BY <3>2 DEF Again, One, Waiting, Copying
    <3>4. Pending' = 1
      BY <1>2, <2>4
    <3> QED BY <3>3, <3>4
  <2>5. CASE Pending = 0
    <3>1. Again' \in 0 .. 1
      BY GoesFacts DEF Numbers
    <3>2. Pending' = 0
      BY <1>2, <2>5
    <3>3. \A a \in 0 .. 1 : a + 0 <= 1
      OBVIOUS
    <3> QED BY <3>1, <3>2, <3>3
  <2> QED BY <1>1, <2>4, <2>5 DEF Numbers
<1>6. \A v : FdCount(v)' = FdCount(v) /\ Left(v)' = Left(v)
  <2>1. \A v : FdCount(v)' = FdCount(v)
    BY <1>1, SamePlaces
  <2> QED BY <1>1, <2>1 DEF Left, Moved, One
<1>7. polls' \in 0 .. PollsPerWrite
  BY <1>1, GoesFacts
<1>8. RoomToRelocate'
  <2>1. CASE SpareSector'
    BY <2>1 DEF RoomToRelocate
  <2>2. CASE ~SpareSector' /\ lc \in {"begin", "select"}
    <3>1. PICK v \in Candidates' : FdCount(v)' <= MostLive
      BY <2>2 DEF Goes, StateFacts, FewInOne, MostLive
    <3>2. v \in Sectors /\ v \in Victims'
      BY <1>1, <2>2, <3>1 DEF Candidates, Victims
    <3>3. Left(v)' = FdCount(v)'
      <4>1. FdCount(v)' \in Nat
        BY <3>2, GoesFacts DEF Numbers
      <4> QED BY <1>1, <2>2, <4>1 DEF Left, One
    <3> QED BY <1>4, <1>5, <1>7, <3>1, <3>2, <3>3, WholeSector
  <2>3. CASE lc \notin {"begin", "select"}
    <3>1. PICK v : v = reloc.sector
      OBVIOUS
    <3>2. v \in Sectors /\ v \in Victims'
      BY <1>1, <2>3, <3>1 DEF TypeOK, RelocRecord, Victims
    <3>3. Left(v) <= MostLive /\ FdCount(v) <= Left(v) /\ Left(v) \in Nat
      BY <1>1, <2>3, <3>1, <3>2 DEF Goes, PaceInv, Left, One, Numbers
    <3>4. FdCount(v)' <= MostLive /\ Left(v)' <= MostLive
      BY <1>1, <1>6, <3>2, <3>3, MostLiveFacts DEF Numbers
    <3> QED BY <1>4, <1>5, <1>7, <3>2, <3>4, WholeSector
  <2> QED BY <2>1, <2>2, <2>3
<1>9. lc' \notin {"begin", "select"} => Left(reloc.sector)' <= MostLive
  BY <1>1, <1>6 DEF Goes, PaceInv, MostLive
<1>10. lc' = "copied" /\ Copying' => Stays'
  BY <1>1, <1>2 DEF Goes, PaceInv, Stays
<1> QED BY <1>1, <1>7, <1>8, <1>9, <1>10, GoesFacts DEF PaceInv, Goes

-----------------------------------------------------------------------------
(* Settle uses a cell, and moves an entry into the active sector.          *)
LEMMA SettleCounts ==
  ASSUME TypeOK, NEW i \in 0 .. FD_MAX, Settle(i), NEW v \in Sectors, v # currSector
  PROVE  /\ FdCount(v)' \in Nat /\ FdCount(v)' <= FdCount(v)
         /\ i \in EntriesIn(v) => FdCount(v)' = FdCount(v) - 1
         /\ \A j \in Entries \ {i} : fd'[j] = fd[j]
         /\ i \in Entries => fd'[i].sector = currSector
<1>1. /\ i \in FdIndexes /\ i \in 0 .. fd_index
      /\ fd' = [fd EXCEPT ![i] = [address |-> Target, sector |-> currSector,
                  header |-> [size |-> FS_SIZE32, newer |-> FS_BLOCK_CURRENT, id |-> Top.id]]]
      /\ fd_index' = IF i = fd_index THEN fd_index + 1 ELSE fd_index
      /\ fd \in [FdIndexes -> FileDescriptor] /\ fd_index \in Nat /\ fd_index <= FD_MAX
  BY EntryFacts, Geometry DEF Settle, Search, FdIndexes, TypeOK
<1>2. fd'[i].sector = currSector /\ \A j \in FdIndexes \ {i} : fd'[j] = fd[j]
  BY <1>1
<1>3. \A j \in Entries : j \in FdIndexes
  BY EntryFacts
<1>4. 0 .. fd_index' - 1 = Entries \cup {i}
  BY <1>1 DEF Entries
<1>5. {j \in 0 .. fd_index' - 1 : fd'[j].sector = v} = EntriesIn(v) \ {i}
  BY <1>2, <1>3, <1>4 DEF EntriesIn
<1>6. FdCount(v)' = Cardinality(EntriesIn(v) \ {i})
  BY <1>5 DEF FdCount
<1>7. IsFiniteSet(EntriesIn(v)) /\ FdCount(v) = Cardinality(EntriesIn(v)) /\ FdCount(v) \in Nat
  BY EntriesInFacts
<1>8. i \in EntriesIn(v) => Cardinality(EntriesIn(v) \ {i}) = FdCount(v) - 1
  BY <1>7, FS_RemoveElement
<1>9. i \notin EntriesIn(v) => Cardinality(EntriesIn(v) \ {i}) = FdCount(v)
  <2>1. i \notin EntriesIn(v) => EntriesIn(v) \ {i} = EntriesIn(v)
    OBVIOUS
  <2> QED BY <1>7, <2>1
<1>10. Cardinality(EntriesIn(v) \ {i}) \in Nat
  BY <1>7, FS_Subset, FS_CardinalityType
<1>11. FdCount(v)' \in Nat /\ FdCount(v)' <= FdCount(v)
  BY <1>6, <1>7, <1>8, <1>9, <1>10
<1> QED BY <1>2, <1>3, <1>6, <1>8, <1>11

(* The active sector has one cell less, the others are as they were.       *)
LEMMA SettleRoom ==
  ASSUME TypeOK, RunInv, NEW i \in 0 .. FD_MAX, Settle(i)
  PROVE  /\ Room' = Room - 1 /\ UNCHANGED <<currSector, reloc>>
         /\ Executing("settle") /\ Return(0) /\ Search(i, Top.id)
         /\ \A s \in Sectors \ {currSector} : currAddress'[s] = currAddress[s]
         /\ SpareSector' <=> SpareSector
         /\ Candidates \subseteq Candidates'
<1>1. /\ currAddress' = [currAddress EXCEPT ![currSector] = @ + 1]
      /\ UNCHANGED <<currSector, reloc>>
      /\ Executing("settle") /\ Return(0) /\ Search(i, Top.id)
      /\ currAddress \in [Sectors -> Nat] /\ currSector \in Sectors
  BY DEF Settle, TypeOK
<1>2. /\ currAddress'[currSector] = currAddress[currSector] + 1
      /\ \A s \in Sectors \ {currSector} : currAddress'[s] = currAddress[s]
  BY <1>1
<1>3. Room' = Room - 1
  BY <1>1, <1>2, Geometry DEF Room
<1>4. SpareSector' <=> SpareSector
  BY <1>1, <1>2 DEF SpareSector, SECTOR_IS_BLANK
<1>5. \A v \in Candidates : v \in Candidates'
  <2> TAKE v \in Candidates
  <2>1. v \in Sectors /\ v # currSector /\ SECTOR_IS_FULL(v) /\ FdCount(v) < FDS_PER_SECTOR
    BY DEF Candidates
  <2>2. FdCount(v)' \in Nat /\ FdCount(v)' <= FdCount(v) /\ FdCount(v) \in Nat
    BY <2>1, SettleCounts, EntriesInFacts
  <2>3. FdCount(v)' < FDS_PER_SECTOR
    BY <2>1, <2>2, Geometry
  <2>4. SECTOR_IS_FULL(v)'
    BY <1>2, <2>1 DEF SECTOR_IS_FULL
  <2> QED BY <1>1, <2>1, <2>3, <2>4 DEF Candidates
<1> QED BY <1>1, <1>2, <1>3, <1>4, <1>5

(* From the room of the victim to that of the one it is now. *)
LEMMA RoomKept ==
  ASSUME Goes, polls' \in 0 .. PollsPerWrite, NEW d \in 0 .. 1, Room' = Room - d,
         SpareSector => SpareSector',
         ~SpareSector' => \A v \in Victims : \E w \in Victims' :
           /\ w \in Sectors
           /\ 2 * Left(w)' + Behind' <= 2 * Left(v) + Behind
           /\ FdCount(w)' + Again' + Pending' + d <= FdCount(v) + Again + Pending
  PROVE  RoomToRelocate'
<1>1. CASE SpareSector'
  BY <1>1 DEF RoomToRelocate
<1>2. CASE ~SpareSector'
  <2>1. PICK v \in Victims : Need(v) <= Room
    BY <1>2, GoesFacts DEF RoomToRelocate
  <2>2. v \in Sectors
    BY <2>1, GoesFacts, VictimFacts DEF Goes, PaceInv
  <2>3. PICK w \in Victims' :
          /\ w \in Sectors
          /\ 2 * Left(w)' + Behind' <= 2 * Left(v) + Behind
          /\ FdCount(w)' + Again' + Pending' + d <= FdCount(v) + Again + Pending
    BY <1>2, <2>1
  <2>4. Need(w)' <= Room'
    BY <1>2, <2>1, <2>2, <2>3, NeedShrinks
  <2> QED BY <2>3, <2>4 DEF RoomToRelocate
<1> QED BY <1>1, <1>2

(* A write of the application adds nothing to what fs_thread has to do.    *)
LEMMA SettleLeft ==
  ASSUME Goes, NEW i \in 0 .. FD_MAX, Settle(i), Top.caller = "user",
         NEW v \in Sectors, v # currSector,
         lc \notin {"begin", "select"} => v = reloc.sector
  PROVE  lc' = lc /\ Left(v)' <= Left(v)
<1>1. TypeOK /\ RunInv /\ NestingInv
  BY GoesFacts
<1>2. Executing("settle") /\ Return(0) /\ UNCHANGED reloc
  BY <1>1, SettleRoom
<1>3. lc' = lc
  BY <1>1, <1>2, ReturnCalls
<1>4. /\ FdCount(v)' \in Nat /\ FdCount(v)' <= FdCount(v) /\ FdCount(v) \in Nat
      /\ i \in EntriesIn(v) => FdCount(v)' = FdCount(v) - 1
      /\ \A j \in Entries \ {i} : fd'[j] = fd[j]
  BY <1>1, SettleCounts, EntriesInFacts
<1> SUFFICES Left(v)' <= Left(v)
  BY <1>3
<1>5. CASE lc \notin {"await_read", "copied"}
  <2>1. Left(v)' = FdCount(v)' + 0 /\ Left(v) = FdCount(v) + 0
    BY <1>3, <1>5 DEF Left, One
  <2> QED BY <1>4, <2>1
<1>6. CASE lc \in {"await_read", "copied"}
  <2>1. reloc.fd_index \in Entries /\ v = reloc.sector
    BY <1>1, <1>6 DEF RunInv, RelocInv, Relocating
  <2>2. CASE Moved \/ ~Moved'
    <3>1. /\ Left(v)' = FdCount(v)' \/ Left(v)' = FdCount(v)' + 1
          /\ Left(v) = FdCount(v) \/ Left(v) = FdCount(v) + 1
          /\ Left(v)' = FdCount(v)' + 1 => Left(v) = FdCount(v) + 1
      <4>1. Moved => Left(v) = FdCount(v) + 1
        BY <1>6 DEF Left, One
      <4>2. ~Moved => Left(v) = FdCount(v) + 0
        BY DEF Left, One
      <4>3. ~Moved' => Left(v)' = FdCount(v)' + 0
        BY DEF Left, One
      <4>4. Moved' => Left(v)' = FdCount(v)' + 1
        BY <1>3, <1>6 DEF Left, One
      <4> QED BY <1>4, <2>2, <4>1, <4>2, <4>3, <4>4
    <3> QED BY <1>4, <3>1
  <2>3. CASE ~Moved /\ Moved'
    <3>1. reloc.fd_index = i
      BY <1>2, <1>4, <2>1, <2>3 DEF Moved
    <3>2. i \in EntriesIn(v)
      BY <2>1, <2>3, <3>1 DEF Moved, EntriesIn
    <3>3. Left(v)' = FdCount(v)' + 1 /\ Left(v) = FdCount(v) + 0
      BY <1>3, <1>6, <2>3 DEF Left, One
    <3> QED BY <1>4, <3>2, <3>3
  <2> QED BY <2>2, <2>3
<1> QED BY <1>5, <1>6

(* The write that the application waits for gets its cell.                 *)
LEMMA SettleUser ==
  ASSUME Goes, NEW i \in 0 .. FD_MAX, Settle(i), UNCHANGED polls, Top.caller = "user"
  PROVE  PaceInv'
<1>1. TypeOK /\ RunInv /\ NestingInv /\ polls' \in 0 .. PollsPerWrite /\ lc # "retry"
  BY GoesFacts DEF Goes, PaceInv
<1>2. /\ Executing("settle") /\ Return(0) /\ UNCHANGED <<reloc, currSector>>
      /\ Room' = Room - 1 /\ (SpareSector' <=> SpareSector)
      /\ Candidates \subseteq Candidates'
  BY <1>1, SettleRoom
<1>3. /\ ~Waiting' /\ ~Copying /\ ~Copying' /\ Pending = 1 /\ Pending' = 0
  BY <1>1, <1>2, ReturnCallers
<1>4. lc' = lc
  BY <1>1, <1>2, ReturnCalls
<1>5. Again' = 0 /\ Again \in 0 .. 1 /\ Behind' = Behind /\ Behind \in Nat
  <2>1. Again' = 0
    BY <1>3 DEF Again, One
  <2>2. Stage' = Stage
    BY <1>3, <1>4 DEF Stage
  <2>3. Behind' = Behind
    BY <2>2 DEF Behind
  <2> QED BY <2>1, <2>3, GoesFacts DEF Numbers
<1>6. ASSUME NEW v \in Sectors, v # currSector,
             lc \notin {"begin", "select"} => v = reloc.sector
      PROVE  /\ Left(v)' <= Left(v) /\ FdCount(v)' <= FdCount(v)
             /\ FdCount(v) \in Nat /\ FdCount(v)' \in Nat
             /\ Left(v) \in Nat /\ Left(v)' \in Nat
  BY <1>1, <1>6, SettleLeft, SettleCounts, GoesFacts DEF Numbers
<1>7. ASSUME NEW v \in Victims
      PROVE  /\ v \in Victims' /\ v \in Sectors
             /\ 2 * Left(v)' + Behind' <= 2 * Left(v) + Behind
             /\ FdCount(v)' + Again' + Pending' + 1 <= FdCount(v) + Again + Pending
  <2>1. /\ v \in Sectors /\ v # currSector
        /\ lc \notin {"begin", "select"} => v = reloc.sector
    BY <1>1, VictimFacts
  <2>2. v \in Victims'
    BY <1>2, <1>4 DEF Victims
  <2> QED BY <1>3, <1>5, <1>6, <2>1, <2>2
<1>8. RoomToRelocate'
  <2>1. 1 \in 0 .. 1
    OBVIOUS
  <2> QED BY <1>1, <1>2, <1>7, <2>1, RoomKept
<1>9. lc' \notin {"begin", "select"} => Left(reloc.sector)' <= MostLive
  <2> SUFFICES ASSUME lc \notin {"begin", "select"} PROVE Left(reloc.sector)' <= MostLive
    BY <1>4
  <2>1. PICK v \in Victims : v = reloc.sector
    BY DEF Victims
  <2>2. v \in Sectors /\ v # currSector
    BY <1>1, VictimFacts
  <2>3. Left(v)' <= Left(v) /\ Left(v) \in Nat /\ Left(v)' \in Nat
    BY <1>6, <2>1, <2>2
  <2>4. Left(v) <= MostLive
    BY <2>1 DEF Goes, PaceInv
  <2>5. Left(v)' <= MostLive
    BY <2>3, <2>4, MostLiveFacts
  <2> QED BY <1>2, <2>1, <2>5
<1> QED BY <1>1, <1>3, <1>4, <1>8, <1>9, GoesFacts DEF PaceInv, Goes, MostLive

(* A step falls behind by the turns that it takes or gives back.           *)
LEMMA BehindStep ==
  ASSUME Goes, polls' \in 0 .. PollsPerWrite, NEW d \in Nat,
         polls' + Stage' <= polls + Stage + d
  PROVE  /\ Behind' <= Behind + d /\ Behind \in Nat /\ Behind' \in Nat
<1>1. /\ polls \in Nat /\ polls' \in Nat /\ Stage \in Nat /\ Stage' \in Nat
      /\ Behind \in Nat /\ Behind' \in Nat
  BY GoesFacts, BehindNext, PaceIsFinite DEF Numbers
<1>0. PICK m \in Nat, n \in Nat, p \in Nat, q \in Nat :
        m = polls /\ n = Stage /\ p = polls' /\ q = Stage'
  BY <1>1
<1>2. PICK x \in Nat, y \in Nat : x = m + n /\ y = p + q
  OBVIOUS
<1>3. y <= x + d
  BY <1>0, <1>2
<1>4. /\ Behind = IF x > 3 THEN x - 3 ELSE 0
      /\ Behind' = IF y > 3 THEN y - 3 ELSE 0
  <2>1. Behind = IF m + n > 3 THEN m + n - 3 ELSE 0
    BY <1>0 DEF Behind
  <2>2. Behind' = IF p + q > 3 THEN p + q - 3 ELSE 0
    BY <1>0 DEF Behind
  <2> QED BY <1>2, <2>1, <2>2
<1>5. Behind' <= Behind + d
  <2>1. CASE y > 3 /\ x > 3
    <3>1. y - 3 <= x - 3 + d
      BY <1>3
    <3> QED BY <1>4, <2>1, <3>1
  <2>2. CASE y > 3 /\ ~(x > 3)
    <3>1. y - 3 <= 0 + d
      BY <1>3, <2>2
    <3> QED BY <1>4, <2>2, <3>1
  <2>3. CASE ~(y > 3)
    <3>1. 0 <= Behind + d
      BY <1>1
    <3> QED BY <1>4, <2>3, <3>1
  <2> QED BY <2>1, <2>2, <2>3
<1> QED BY <1>1, <1>5

(* The entry that fs_thread copies leaves the sector that is relocated.    *)
LEMMA SettleThread ==
  ASSUME Goes, NEW i \in 0 .. FD_MAX, Settle(i), UNCHANGED polls, Top.caller # "user"
  PROVE  PaceInv'
<1>1. /\ TypeOK /\ RunInv /\ NestingInv /\ KnownInv
      /\ polls' \in 0 .. PollsPerWrite /\ polls \in 0 .. PollsPerWrite /\ lc # "retry"
  BY GoesFacts DEF Goes, PaceInv
<1>2. /\ Executing("settle") /\ Return(0) /\ UNCHANGED <<reloc, currSector>>
      /\ Search(i, Top.id) /\ Room' = Room - 1 /\ (SpareSector' <=> SpareSector)
  BY <1>1, SettleRoom
<1>3. /\ Copying /\ (Copying' => Waiting) /\ ~Waiting' /\ Pending' = Pending
  BY <1>1, <1>2, ReturnCallers
<1>4. lc' = "next" /\ Top.caller = "fs_thread"
  <2>1. ~(0 < 0) /\ 0 \in {0, -1, -2}
    OBVIOUS
  <2> QED BY <1>1, <1>2, <2>1, ReturnCalls
<1>5. lc \in {"copied", "next"} /\ lc \in Relocating
  BY <1>1, <1>2, TopKnown DEF Rewriting, Relocating
<1>0. PICK v : v = reloc.sector /\ v = reloc'.sector
  BY <1>2
<1>6. /\ v \in Sectors /\ v # currSector /\ Victims = {v} /\ Victims' = {v}
  <2>1. Victims = {v} /\ v \in Victims
    BY <1>0, <1>5 DEF Victims
  <2>2. Victims' = {v}
    BY <1>0, <1>4 DEF Victims
  <2> QED BY <1>1, <2>1, <2>2, VictimFacts
<1>7. /\ FdCount(v)' \in Nat /\ FdCount(v)' <= FdCount(v) /\ FdCount(v) \in Nat
      /\ i \in EntriesIn(v) => FdCount(v)' = FdCount(v) - 1
      /\ Again \in 0 .. 1 /\ Again' \in 0 .. 1 /\ Pending \in 0 .. 1
  BY <1>1, <1>6, SettleCounts, EntriesInFacts, GoesFacts DEF Numbers
<1>8. Stage' = 2 /\ Left(v)' = FdCount(v)'
  BY <1>4, <1>7 DEF Stage, Left, One
<1>9. ASSUME lc = "copied"
      PROVE  /\ 2 * Left(v)' + Behind' <= 2 * Left(v) + Behind
             /\ FdCount(v)' + Again' + Pending' + 1 <= FdCount(v) + Again + Pending
             /\ Left(v)' <= Left(v)
  <2>1. Stays
    BY <1>3, <1>9 DEF Goes, PaceInv
  <2>2. /\ reloc.fd_index \in EntriesIn(v) /\ ~Moved
        /\ fd[reloc.fd_index].header.id = reloc.id
    BY <1>0, <1>1, <1>5, <2>1, StaysIn
  <2>3. Top.id = reloc.id
    <3>1. Len(calls) \in 1 .. Len(calls)
      BY <1>1, <1>2, CallLength DEF TypeOK, Executing
    <3> QED BY <1>1, <1>4, <3>1 DEF Top, RunInv, RewriteInv
  <2>4. i = reloc.fd_index
    <3>1. reloc.fd_index \in Entries /\ reloc.fd_index \in Nat /\ fd_index \in Nat
      BY <1>1, <2>2, EntryFacts DEF EntriesIn, Entries
    <3>2. \A j \in 0 .. i - 1 : fd[j].header.id # reloc.id
      BY <1>2, <2>3 DEF Search
    <3>3. i <= reloc.fd_index
      BY <2>2, <3>1, <3>2
    <3>4. i \in Entries /\ fd[i].header.id = reloc.id
      BY <1>2, <2>3, <3>1, <3>3 DEF Search, Entries
    <3> QED BY <1>1, <2>2, <3>1, <3>4 DEF KnownInv, EntriesDiffer
  <2>5. FdCount(v)' = FdCount(v) - 1
    BY <1>7, <2>2, <2>4
  <2>6. Left(v) = FdCount(v)
    BY <1>7, <2>2 DEF Left, One
  <2>7. Behind' <= Behind + 2 /\ Behind \in Nat /\ Behind' \in Nat
    <3>1. Stage = 0
      BY <1>3, <1>9 DEF Stage
    <3>2. polls \in Nat
      BY <1>1
    <3>3. polls' + Stage' <= polls + Stage + 2
      BY <1>8, <3>1, <3>2
    <3> QED BY <1>1, <3>3, BehindStep
  <2>8. Again' <= Again
    <3>1. Again' = 1 => Waiting
      BY <1>3 DEF Again, One
    <3>2. Waiting => Again = 1
      BY DEF Again, One
    <3> QED BY <1>7, <3>1, <3>2
  <2>9. /\ 2 * Left(v)' + Behind' <= 2 * Left(v) + Behind
        /\ FdCount(v)' + Again' + Pending' + 1 <= FdCount(v) + Again + Pending
        /\ Left(v)' <= Left(v)
    BY <1>3, <1>7, <1>8, <2>5, <2>6, <2>7, <2>8
  <2> QED BY <2>9
<1>10. ASSUME lc = "next"
      PROVE  /\ 2 * Left(v)' + Behind' <= 2 * Left(v) + Behind
             /\ FdCount(v)' + Again' + Pending' + 1 <= FdCount(v) + Again + Pending
             /\ Left(v)' <= Left(v)
  <2>1. Moved
    BY <1>1, <1>10 DEF RunInv, RelocInv
  <2>2. ~Waiting
    <3> SUFFICES ASSUME NEW c \in 1 .. Len(calls), calls[c].caller = "fs_thread",
                        calls[c].at = "fs_thread"
                 PROVE  FALSE
      BY DEF Waiting
    <3>1. Stays
      BY <1>1 DEF RunInv, RewriteInv
    <3> QED BY <1>1, <1>5, <2>1, <3>1, StaysIn
  <2>3. Again = 1 /\ Again' = 0
    BY <1>3, <1>10, <2>2 DEF Again, One
  <2>4. Left(v) = FdCount(v)
    BY <1>7, <1>10 DEF Left, One
  <2>5. Behind' = Behind /\ Behind \in Nat
    <3>1. Stage = 2
      BY <1>10 DEF Stage
    <3>2. Behind' = Behind
      BY <1>8, <3>1 DEF Behind
    <3> QED BY <3>2, GoesFacts, PaceIsFinite
  <2>6. /\ 2 * Left(v)' + Behind' <= 2 * Left(v) + Behind
        /\ FdCount(v)' + Again' + Pending' + 1 <= FdCount(v) + Again + Pending
        /\ Left(v)' <= Left(v)
    BY <1>3, <1>7, <1>8, <2>3, <2>4, <2>5
  <2> QED BY <2>6
<1>11. /\ 2 * Left(v)' + Behind' <= 2 * Left(v) + Behind
       /\ FdCount(v)' + Again' + Pending' + 1 <= FdCount(v) + Again + Pending
       /\ Left(v)' <= Left(v)
  BY <1>5, <1>9, <1>10
<1>12. RoomToRelocate'
  <2>1. 1 \in 0 .. 1
    OBVIOUS
  <2>2. \A x \in Victims : \E w \in Victims' :
           /\ w \in Sectors
           /\ 2 * Left(w)' + Behind' <= 2 * Left(x) + Behind
           /\ FdCount(w)' + Again' + Pending' + 1 <= FdCount(x) + Again + Pending
    BY <1>6, <1>11
  <2> QED BY <1>1, <1>2, <2>1, <2>2, RoomKept
<1>13. Left(v)' <= MostLive
  <2>1. Left(v) <= MostLive /\ Left(v) \in Nat /\ Left(v)' \in Nat
    BY <1>0, <1>5, <1>6, GoesFacts DEF Goes, PaceInv, Numbers
  <2> QED BY <1>11, <2>1, MostLiveFacts
<1> QED BY <1>0, <1>1, <1>2, <1>4, <1>12, <1>13, GoesFacts DEF PaceInv, Goes, MostLive

-----------------------------------------------------------------------------
(* A turn of fs_thread, and whether it counts. *)
Counts == /\ polls' \in 0 .. PollsPerWrite
          /\ \/ polls' = polls
             \/ /\ polls' = polls + 1 /\ calls = <<>>
                /\ lc' \notin {"await_read", "await_erase"}

(* A turn that ends in a wait for FLASH or that fs_write calls is no poll. *)
LEMMA CountsFacts ==
  ASSUME Goes, Counts
  PROVE  /\ polls \in Nat /\ polls' \in Nat /\ polls' <= polls + 1
         /\ (calls # <<>> \/ lc' \in {"await_read", "await_erase"}) => polls' = polls
<1>1. polls \in Nat /\ polls' \in Nat
  BY GoesFacts, PaceIsFinite DEF Counts
<1>2. CASE polls' = polls
  BY <1>1, <1>2
<1>3. CASE polls' = polls + 1 /\ calls = <<>> /\ lc' \notin {"await_read", "await_erase"}
  BY <1>1, <1>3
<1> QED BY <1>2, <1>3 DEF Counts

(* Outside fs_write no entry moves.                                        *)
LEMMA ThreadPlaces ==
  ASSUME TypeOK, UNCHANGED <<indexVars, currSector>>
  PROVE  /\ \A v : FdCount(v)' = FdCount(v)
         /\ UNCHANGED currAddress => /\ Room' = Room /\ (SpareSector' <=> SpareSector)
                                     /\ Candidates' = Candidates
<1>1. fd' = fd /\ fd_index' = fd_index /\ currSector' = currSector
  BY DEF indexVars
<1>2. \A v : FdCount(v)' = FdCount(v)
  BY <1>1, SamePlaces
<1> QED BY <1>1, <1>2 DEF Room, SpareSector, Candidates, SECTOR_IS_FULL, SECTOR_IS_BLANK

(* Only from where a block is copied does fs_thread call fs_write.         *)
LEMMA Alone ==
  ASSUME Goes, ThreadRuns, lc # "copied"
  PROVE  ~Copying /\ ~Waiting /\ Again = 0
<1>1. lc \notin {"copied", "retry"}
  BY DEF Goes, PaceInv
<1>2. ~Copying
  BY <1>1, GoesFacts, NoRewriter DEF Copying
<1> QED BY <1>2 DEF Waiting, Copying, Again, One

(* fs_thread wakes.                                                        *)
LEMMA BeginPace ==
  ASSUME Goes, ThreadBegin, Counts
  PROVE  PaceInv'
<1>1. /\ ThreadRuns /\ lc = "begin" /\ YieldAt("select") /\ TypeOK /\ NestingInv
      /\ UNCHANGED <<indexVars, currSector, currAddress, reloc>>
  BY GoesFacts DEF ThreadBegin, ThreadAt, currVars
<1>2. /\ lc' = "select" /\ ~Waiting' /\ ~Copying' /\ ~Copying /\ Pending' = Pending
      /\ Again = 0 /\ Again' = 0
  <2>1. "select" \in Continuations
    BY DEF Continuations
  <2>2. lc' = "select" /\ ~Waiting' /\ (Copying' <=> Copying) /\ Pending' = Pending
    BY <1>1, <2>1, YieldCallers
  <2>3. ~Copying /\ Again = 0
    BY <1>1, Alone
  <2> QED BY <2>2, <2>3 DEF Again, One
<1>3. /\ \A v : FdCount(v)' = FdCount(v)
      /\ Room' = Room /\ (SpareSector' <=> SpareSector) /\ Candidates' = Candidates
  BY <1>1, ThreadPlaces
<1>4. polls' \in 0 .. PollsPerWrite
  BY DEF Counts
<1>5. Behind' <= Behind + 0 /\ Behind \in Nat /\ Behind' \in Nat
  <2>1. Stage = 3 /\ Stage' = 2
    BY <1>1, <1>2 DEF Stage
  <2>2. polls' + 2 <= polls + 3 + 0
    BY CountsFacts
  <2>3. polls' + Stage' <= polls + Stage + 0
    BY <2>1, <2>2
  <2> QED BY <1>4, <2>3, BehindStep
<1>6. ASSUME NEW v \in Victims
      PROVE  /\ v \in Victims' /\ v \in Sectors
             /\ 2 * Left(v)' + Behind' <= 2 * Left(v) + Behind
             /\ FdCount(v)' + Again' + Pending' + 0 <= FdCount(v) + Again + Pending
  <2>1. v \in Candidates /\ v \in Sectors /\ v \in Victims'
    BY <1>1, <1>2, <1>3 DEF Victims, Candidates
  <2>2. FdCount(v)' = FdCount(v) /\ FdCount(v) \in Nat /\ Pending \in 0 .. 1
    BY <1>3, <2>1, GoesFacts DEF Numbers
  <2>3. Left(v) = FdCount(v) /\ Left(v)' = FdCount(v)
    BY <1>1, <1>2, <2>2 DEF Left, One
  <2> QED BY <1>2, <1>5, <2>1, <2>2, <2>3
<1>7. RoomToRelocate'
  <2>1. 0 \in 0 .. 1 /\ Room' = Room - 0
    BY <1>3, GoesFacts
  <2> QED BY <1>3, <1>4, <1>6, <2>1, RoomKept
<1> QED BY <1>2, <1>4, <1>7, GoesFacts DEF PaceInv, Goes

(* From one victim to the next, and from one of its entries to the next.   *)
LEMMA RelocateEnds ==
  ASSUME TypeOK, NEW s \in Sectors, NEW j, RelocateFrom(s, j) \/ Erase(s)
  PROVE  \/ /\ YieldAt("begin") /\ currAddress' = [currAddress EXCEPT ![s] = 0]
         \/ \E l \in {"copied", "await_read", "await_erase"} :
              /\ YieldAt(l) /\ reloc'.sector = s /\ UNCHANGED currAddress
              /\ l # "await_erase" => fd[reloc'.fd_index].sector = s
<1>1. CASE Erase(s)
  BY <1>1 DEF Erase, NoReloc
<1>2. CASE \E i \in j .. fd_index - 1 : fd[i].sector = s /\ CopyFd(s, i)
  <2>1. PICK i \in j .. fd_index - 1 : fd[i].sector = s /\ CopyFd(s, i)
    BY <1>2
  <2>2. UNCHANGED currAddress
    BY <2>1 DEF CopyFd
  <2>3. CASE YieldAt("copied") /\ reloc' = [sector |-> s, fd_index |-> i,
               address |-> fd[i].address, id |-> fd[i].header.id,
               buffer |-> flash[fd[i].address].data]
    BY <2>1, <2>2, <2>3
  <2>4. CASE YieldAt("await_read") /\ reloc' = [reloc EXCEPT !.sector = s, !.fd_index = i,
               !.address = fd[i].address, !.id = fd[i].header.id]
    <3>1. reloc'.sector = s /\ reloc'.fd_index = i
      BY <2>4 DEF TypeOK, RelocRecord
    <3> QED BY <2>1, <2>2, <2>4, <3>1
  <2> QED BY <2>1, <2>3, <2>4 DEF CopyFd
<1> QED BY <1>1, <1>2 DEF RelocateFrom

(* The search for the next entry ends with one, or the sector is erased.   *)
LEMMA RelocatePace ==
  ASSUME Goes, ThreadRuns, Counts, lc \in {"select", "next", "await_erase"},
         UNCHANGED <<indexVars, currSector>>, NEW s \in Sectors, s # currSector,
         NEW j, RelocateFrom(s, j) \/ Erase(s), FdCount(s) <= MostLive,
         \A v \in Victims : FdCount(s) <= FdCount(v)
  PROVE  PaceInv'
<1>1. /\ TypeOK /\ NestingInv /\ RunInv /\ lc # "retry" /\ lc # "copied"
      /\ polls' \in 0 .. PollsPerWrite
  BY GoesFacts DEF Counts
<1>2. ~Copying /\ Again = 0
  BY <1>1, Alone
<1>3. ASSUME NEW l \in Continuations, YieldAt(l)
      PROVE  lc' = l /\ ~Copying' /\ Again' = 0 /\ Pending' = Pending
  <2>1. lc' = l /\ ~Waiting' /\ (Copying' <=> Copying) /\ Pending' = Pending
    BY <1>1, <1>3, YieldCallers
  <2> QED BY <1>2, <2>1 DEF Again, One
<1>4. CASE YieldAt("begin") /\ currAddress' = [currAddress EXCEPT ![s] = 0]
  <2>1. lc' = "begin"
    BY <1>3, <1>4 DEF Continuations
  <2>2. currAddress'[s] = 0
    BY <1>1, <1>4 DEF TypeOK
  <2>3. SpareSector'
    BY <2>2 DEF SpareSector, SECTOR_IS_BLANK
  <2> QED BY <1>1, <2>1, <2>3, GoesFacts DEF PaceInv, Goes, RoomToRelocate
<1>5. ASSUME NEW l \in {"copied", "await_read", "await_erase"}, YieldAt(l),
             reloc'.sector = s, UNCHANGED currAddress,
             l # "await_erase" => fd[reloc'.fd_index].sector = s
      PROVE  PaceInv'
  <2>1. l \in Continuations
    BY DEF Continuations
  <2>2. lc' = l /\ ~Copying' /\ Again' = 0 /\ Pending' = Pending
    BY <1>3, <1>5, <2>1
  <2>3. /\ FdCount(s)' = FdCount(s) /\ FdCount(s) \in Nat
        /\ Room' = Room /\ (SpareSector' <=> SpareSector)
    BY <1>1, <1>5, ThreadPlaces, GoesFacts DEF Numbers
  <2>4. Left(s)' = FdCount(s)
    <3>1. ~(lc' \in {"await_read", "copied"} /\ Moved')
      BY <1>5, <2>2 DEF Moved, indexVars
    <3>2. Left(s)' = FdCount(s) + 0
      BY <2>3, <3>1 DEF Left, One
    <3> QED BY <2>3, <3>2
  <2>5. Victims' = {s}
    BY <1>5, <2>2 DEF Victims
  <2>6. Behind' <= Behind + 0 /\ Behind \in Nat /\ Behind' \in Nat
    <3>1. Stage = 2
      BY DEF Stage
    <3>2. CASE l = "copied"
      <4>1. Stage' = 1
        BY <2>2, <3>2 DEF Stage
      <4>2. polls' + 1 <= polls + 2 + 0
        BY CountsFacts
      <4>3. polls' + Stage' <= polls + Stage + 0
        BY <3>1, <4>1, <4>2
      <4> QED BY <1>1, <4>3, BehindStep
    <3>3. CASE l # "copied"
      <4>1. Stage' = 2
        BY <2>2, <3>3 DEF Stage
      <4>2. polls' + 2 <= polls + 2 + 0
        BY <2>2, <3>3, CountsFacts
      <4>3. polls' + Stage' <= polls + Stage + 0
        BY <3>1, <4>1, <4>2
      <4> QED BY <1>1, <4>3, BehindStep
    <3> QED BY <3>2, <3>3
  <2>7. ASSUME NEW v \in Victims
        PROVE  \E w \in Victims' :
                 /\ w \in Sectors
                 /\ 2 * Left(w)' + Behind' <= 2 * Left(v) + Behind
                 /\ FdCount(w)' + Again' + Pending' + 0 <= FdCount(v) + Again + Pending
    <3>1. v \in Sectors /\ FdCount(v) \in Nat /\ Pending \in 0 .. 1
      BY <1>1, VictimFacts, GoesFacts DEF Numbers
    <3>2. Left(v) = FdCount(v) + 0
      BY DEF Left, One
    <3>3. FdCount(s) <= FdCount(v)
      OBVIOUS
    <3>4. 2 * Left(s)' + Behind' <= 2 * Left(v) + Behind
      BY <2>3, <2>4, <2>6, <3>1, <3>2, <3>3
    <3>5. FdCount(s)' + Again' + Pending' + 0 <= FdCount(v) + Again + Pending
      BY <1>2, <2>2, <2>3, <3>1, <3>3
    <3> QED BY <2>5, <3>4, <3>5
  <2>8. RoomToRelocate'
    <3>1. 0 \in 0 .. 1 /\ Room' = Room - 0
      BY <2>3, GoesFacts
    <3> QED BY <1>1, <2>3, <2>7, <3>1, RoomKept
  <2>9. Left(reloc.sector)' <= MostLive
    BY <1>5, <2>4 DEF Left, FdCount
  <2> QED BY <1>1, <1>5, <2>2, <2>8, <2>9, GoesFacts DEF PaceInv, Goes, MostLive
<1> QED BY <1>1, <1>4, <1>5, RelocateEnds

(* A victim is selected, the one with fewest entries of all.               *)
LEMMA SelectPace ==
  ASSUME Goes, ThreadSelect, Counts
  PROVE  PaceInv'
<1>1. /\ ThreadRuns /\ lc = "select" /\ UNCHANGED <<indexVars, currSector>>
      /\ TypeOK /\ NestingInv /\ AddressInv /\ polls' \in 0 .. PollsPerWrite
  BY GoesFacts DEF ThreadSelect, ThreadAt, Counts
<1>2. CASE ~NeedsReloc /\ YieldAt("begin") /\ UNCHANGED currAddress
  <2>1. lc' = "begin"
    BY <1>2 DEF YieldAt
  <2>2. SpareSector'
    BY <1>1, <1>2, NotDue, ThreadPlaces
  <2> QED BY <1>1, <2>1, <2>2, GoesFacts DEF PaceInv, Goes, RoomToRelocate
<1>3. ASSUME NeedsReloc, NEW s \in Sectors, findRelocSector(s), RelocateFrom(s, 0)
      PROVE  PaceInv'
  <2>1. PICK w \in Candidates : FdCount(w) <= MostLive
    BY <1>1, <1>3, FewWhenDue DEF Goes
  <2>2. s \in Candidates
    BY <1>3, <2>1 DEF findRelocSector
  <2>3. Victims = Candidates /\ \A v \in Candidates : FdCount(v) \in Nat
    BY <1>1, GoesFacts DEF Victims, Candidates, Numbers
  <2>4. \A v \in Victims : FdCount(s) <= FdCount(v)
    <3> TAKE v \in Victims
    <3>1. v = s \/ FdCount(s) < FdCount(v) \/ FdCount(s) = FdCount(v)
      BY <1>3, <2>2, <2>3 DEF findRelocSector
    <3> QED BY <2>2, <2>3, <3>1
  <2>5. FdCount(s) <= MostLive
    <3>1. FdCount(s) <= FdCount(w)
      BY <2>1, <2>3, <2>4
    <3> QED BY <2>1, <2>2, <2>3, <3>1, MostLiveFacts
  <2>6. s # currSector
    BY <2>2 DEF Candidates
  <2> QED BY <1>1, <1>3, <2>4, <2>5, <2>6, RelocatePace
<1> QED BY <1>2, <1>3 DEF ThreadSelect

(* The entries of the sector that is relocated are few. *)
LEMMA VictimHasFew ==
  ASSUME Goes, lc \in {"next", "await_erase"}
  PROVE  /\ reloc.sector \in Sectors /\ reloc.sector # currSector
         /\ FdCount(reloc.sector) <= MostLive
         /\ \A v \in Victims : FdCount(reloc.sector) <= FdCount(v)
<1>1. Victims = {reloc.sector}
  BY DEF Victims
<1>2. reloc.sector \in Sectors /\ reloc.sector # currSector
  BY <1>1, GoesFacts, VictimFacts DEF Goes, PaceInv
<1>3. FdCount(reloc.sector) \in Nat
  BY <1>2, GoesFacts DEF Numbers
<1>4. Left(reloc.sector) = FdCount(reloc.sector) + 0
  BY DEF Left, One
<1>5. Left(reloc.sector) <= MostLive
  BY DEF Goes, PaceInv
<1> QED BY <1>1, <1>2, <1>3, <1>4, <1>5

(* The search goes on, or the erase does.                                  *)
LEMMA NextPace ==
  ASSUME Goes, ThreadNext \/ ThreadErase, Counts
  PROVE  PaceInv'
<1>1. /\ ThreadRuns /\ lc \in {"next", "await_erase"} /\ UNCHANGED <<indexVars, currSector>>
      /\ RelocateFrom(reloc.sector, reloc.fd_index + 1) \/ Erase(reloc.sector)
  BY DEF ThreadNext, ThreadErase, ThreadAt
<1>2. /\ reloc.sector \in Sectors /\ reloc.sector # currSector
      /\ FdCount(reloc.sector) <= MostLive
      /\ \A v \in Victims : FdCount(reloc.sector) <= FdCount(v)
  BY <1>1, VictimHasFew
<1>3. lc \in {"select", "next", "await_erase"}
  BY <1>1
<1> QED BY <1>1, <1>2, <1>3, RelocatePace

(* The block of the entry in hand is read. *)
LEMMA ReadPace ==
  ASSUME Goes, ThreadRead, Counts
  PROVE  PaceInv'
<1>1. /\ ThreadRuns /\ lc = "await_read" /\ TypeOK /\ NestingInv /\ RunInv
      /\ UNCHANGED <<indexVars, currSector, currAddress, fd, fd_index>>
      /\ polls' \in 0 .. PollsPerWrite /\ lc # "retry"
  BY GoesFacts DEF ThreadRead, ThreadAt, Counts, currVars, indexVars
<1>2. /\ reloc'.sector = reloc.sector /\ reloc'.fd_index = reloc.fd_index
      /\ \E l \in {"copied", "await_read"} : YieldAt(l)
  <2>1. reloc' = [reloc EXCEPT !.buffer = flash[reloc.address].data] \/ reloc' = reloc
    BY DEF ThreadRead
  <2> QED BY <1>1, <2>1 DEF ThreadRead, TypeOK, RelocRecord
<1>3. PICK l \in {"copied", "await_read"} : YieldAt(l)
  BY <1>2
<1>4. /\ lc' = l /\ ~Copying' /\ Again = 0 /\ Again' = 0 /\ Pending' = Pending
  <2>1. l \in Continuations
    BY DEF Continuations
  <2>2. lc' = l /\ ~Waiting' /\ (Copying' <=> Copying) /\ Pending' = Pending
    BY <1>1, <1>3, <2>1, YieldCallers
  <2>3. ~Copying /\ Again = 0
    BY <1>1, Alone
  <2> QED BY <2>2, <2>3 DEF Again, One
<1>5. PICK v : v = reloc.sector /\ v = reloc'.sector
  BY <1>2
<1>6. /\ v \in Sectors /\ Victims = {v} /\ Victims' = {v}
      /\ FdCount(v)' = FdCount(v) /\ FdCount(v) \in Nat /\ Left(v) \in Nat
      /\ Room' = Room /\ (SpareSector' <=> SpareSector)
  <2>1. Victims = {v} /\ Victims' = {v}
    BY <1>1, <1>4, <1>5 DEF Victims
  <2>2. v \in Sectors
    BY <1>1, <2>1, VictimFacts
  <2> QED BY <1>1, <2>1, <2>2, ThreadPlaces, GoesFacts DEF Numbers
<1>7. Left(v)' = Left(v)
  <2>1. Moved' <=> Moved
    BY <1>1, <1>2 DEF Moved
  <2> QED BY <1>1, <1>4, <1>6, <2>1 DEF Left, One
<1>8. Behind' <= Behind + 0 /\ Behind \in Nat /\ Behind' \in Nat
  <2>1. Stage = 2
    BY <1>1 DEF Stage
  <2>2. CASE l = "copied"
    <3>1. Stage' = 1
      BY <1>4, <2>2 DEF Stage
    <3>2. polls' + 1 <= polls + 2 + 0
      BY CountsFacts
    <3>3. polls' + Stage' <= polls + Stage + 0
      BY <2>1, <3>1, <3>2
    <3> QED BY <1>1, <3>3, BehindStep
  <2>3. CASE l = "await_read"
    <3>1. Stage' = 2
      BY <1>4, <2>3 DEF Stage
    <3>2. polls' + 2 <= polls + 2 + 0
      BY <1>4, <2>3, CountsFacts
    <3>3. polls' + Stage' <= polls + Stage + 0
      BY <2>1, <3>1, <3>2
    <3> QED BY <1>1, <3>3, BehindStep
  <2> QED BY <2>2, <2>3
<1>9. /\ 2 * Left(v)' + Behind' <= 2 * Left(v) + Behind
      /\ FdCount(v)' + Again' + Pending' + 0 <= FdCount(v) + Again + Pending
  <2>1. Pending \in 0 .. 1
    BY GoesFacts DEF Numbers
  <2> QED BY <1>4, <1>6, <1>7, <1>8, <2>1
<1>10. RoomToRelocate'
  <2>1. 0 \in 0 .. 1 /\ Room' = Room - 0
    BY <1>6, GoesFacts
  <2>2. \A x \in Victims : \E w \in Victims' :
           /\ w \in Sectors
           /\ 2 * Left(w)' + Behind' <= 2 * Left(x) + Behind
           /\ FdCount(w)' + Again' + Pending' + 0 <= FdCount(x) + Again + Pending
    BY <1>6, <1>9
  <2> QED BY <1>1, <1>6, <2>1, <2>2, RoomKept
<1>11. Left(v)' <= MostLive
  BY <1>1, <1>5, <1>7 DEF Goes, PaceInv
<1> QED BY <1>1, <1>4, <1>5, <1>10, <1>11, GoesFacts DEF PaceInv, Goes, MostLive

(* The entry in hand is written again, unless it has moved. *)
LEMMA CopyPace ==
  ASSUME Goes, ThreadAt("copied"), CallFsWrite, Counts, Stays,
         UNCHANGED <<indexVars, currVars, lc, reloc>>
  PROVE  PaceInv'
<1>1. /\ ThreadRuns /\ lc = "copied" /\ lc' = "copied" /\ TypeOK /\ NestingInv /\ RunInv
      /\ UNCHANGED <<indexVars, currSector, currAddress, fd, fd_index, reloc>>
      /\ polls' \in 0 .. PollsPerWrite
  BY GoesFacts DEF ThreadAt, Counts, currVars, indexVars
<1>2. Copying' /\ (Waiting' <=> Waiting) /\ Pending' = Pending
  BY <1>1, PushCallers
<1>3. Again' = Again
  BY <1>1, <1>2 DEF Again, One
<1>4. PICK v : v = reloc.sector /\ v = reloc'.sector
  BY <1>1
<1>5. /\ v \in Sectors /\ Victims = {v} /\ Victims' = {v}
      /\ FdCount(v)' = FdCount(v) /\ FdCount(v) \in Nat /\ Left(v) \in Nat
      /\ Room' = Room /\ (SpareSector' <=> SpareSector)
  <2>1. Victims = {v} /\ Victims' = {v}
    BY <1>1, <1>4 DEF Victims
  <2>2. v \in Sectors
    BY <1>1, <2>1, VictimFacts
  <2> QED BY <1>1, <2>1, <2>2, ThreadPlaces, GoesFacts DEF Numbers
<1>6. Left(v)' = Left(v)
  <2>1. Moved' <=> Moved
    BY <1>1 DEF Moved
  <2> QED BY <1>1, <1>5, <2>1 DEF Left, One
<1>7. Behind' <= Behind + 0 /\ Behind \in Nat /\ Behind' \in Nat
  <2>1. Stage' = 0
    BY <1>1, <1>2 DEF Stage
  <2>2. CASE Copying
    <3>1. Stage = 0 /\ calls # <<>>
      BY <1>1, <2>2, CallLength DEF Stage, Copying, TypeOK
    <3>2. polls' + 0 <= polls + 0 + 0
      BY <3>1, CountsFacts
    <3>3. polls' + Stage' <= polls + Stage + 0
      BY <2>1, <3>1, <3>2
    <3> QED BY <1>1, <3>3, BehindStep
  <2>3. CASE ~Copying
    <3>1. Stage = 1
      BY <1>1, <2>3 DEF Stage
    <3>2. polls' + 0 <= polls + 1 + 0
      BY CountsFacts
    <3>3. polls' + Stage' <= polls + Stage + 0
      BY <2>1, <3>1, <3>2
    <3> QED BY <1>1, <3>3, BehindStep
  <2> QED BY <2>2, <2>3
<1>8. /\ 2 * Left(v)' + Behind' <= 2 * Left(v) + Behind
      /\ FdCount(v)' + Again' + Pending' + 0 <= FdCount(v) + Again + Pending
  <2>1. Pending \in 0 .. 1 /\ Again \in 0 .. 1
    BY GoesFacts DEF Numbers
  <2> QED BY <1>2, <1>3, <1>5, <1>6, <1>7, <2>1
<1>9. RoomToRelocate'
  <2>1. 0 \in 0 .. 1 /\ Room' = Room - 0
    BY <1>5, GoesFacts
  <2>2. \A x \in Victims : \E w \in Victims' :
           /\ w \in Sectors
           /\ 2 * Left(w)' + Behind' <= 2 * Left(x) + Behind
           /\ FdCount(w)' + Again' + Pending' + 0 <= FdCount(x) + Again + Pending
    BY <1>5, <1>8
  <2> QED BY <1>1, <1>5, <2>1, <2>2, RoomKept
<1>10. Left(v)' <= MostLive
  BY <1>1, <1>4, <1>6 DEF Goes, PaceInv
<1>11. Stays'
  BY <1>1 DEF Stays
<1> QED BY <1>1, <1>4, <1>9, <1>10, <1>11, GoesFacts DEF PaceInv, Goes, MostLive

(* Nothing is left to do for an entry that has moved.                      *)
LEMMA MovedPace ==
  ASSUME Goes, ThreadAt("copied"), YieldAt("next"), Counts, ~Stays,
         UNCHANGED <<indexVars, currVars, reloc>>
  PROVE  PaceInv'
<1>1. /\ ThreadRuns /\ lc = "copied" /\ TypeOK /\ NestingInv /\ RunInv
      /\ UNCHANGED <<indexVars, currSector, currAddress, fd, fd_index, reloc>>
      /\ polls' \in 0 .. PollsPerWrite
  BY GoesFacts DEF ThreadAt, Counts, currVars, indexVars
<1>2. ~Copying /\ Moved
  BY <1>1 DEF Goes, PaceInv, RunInv, RelocInv
<1>3. /\ lc' = "next" /\ ~Copying' /\ Again = 0 /\ Again' = 0 /\ Pending' = Pending
  <2>1. "next" \in Continuations
    BY DEF Continuations
  <2>2. lc' = "next" /\ ~Waiting' /\ (Copying' <=> Copying) /\ Pending' = Pending
    BY <1>1, <2>1, YieldCallers
  <2>3. ~Waiting
    BY <1>2 DEF Copying, Waiting
  <2> QED BY <1>2, <2>2, <2>3 DEF Again, One
<1>4. PICK v : v = reloc.sector /\ v = reloc'.sector
  BY <1>1
<1>5. /\ v \in Sectors /\ Victims = {v} /\ Victims' = {v}
      /\ FdCount(v)' = FdCount(v) /\ FdCount(v) \in Nat
      /\ Room' = Room /\ (SpareSector' <=> SpareSector)
  <2>1. Victims = {v} /\ Victims' = {v}
    BY <1>1, <1>3, <1>4 DEF Victims
  <2>2. v \in Sectors
    BY <1>1, <2>1, VictimFacts
  <2> QED BY <1>1, <2>1, <2>2, ThreadPlaces, GoesFacts DEF Numbers
<1>6. Left(v) = FdCount(v) + 1 /\ Left(v)' = FdCount(v)
  <2>1. Left(v)' = FdCount(v)' + 0
    BY <1>3 DEF Left, One
  <2> QED BY <1>1, <1>2, <1>5, <2>1 DEF Left, One
<1>7. Behind' <= Behind + 2 /\ Behind \in Nat /\ Behind' \in Nat
  <2>1. Stage = 1 /\ Stage' = 2
    BY <1>1, <1>2, <1>3 DEF Stage
  <2>2. polls' + 2 <= polls + 1 + 2
    BY CountsFacts
  <2>3. polls' + Stage' <= polls + Stage + 2
    BY <2>1, <2>2
  <2> QED BY <1>1, <2>3, BehindStep
<1>8. /\ 2 * Left(v)' + Behind' <= 2 * Left(v) + Behind
      /\ FdCount(v)' + Again' + Pending' + 0 <= FdCount(v) + Again + Pending
  <2>1. Pending \in 0 .. 1
    BY GoesFacts DEF Numbers
  <2> QED BY <1>3, <1>5, <1>6, <1>7, <2>1
<1>9. RoomToRelocate'
  <2>1. 0 \in 0 .. 1 /\ Room' = Room - 0
    BY <1>5, GoesFacts
  <2>2. \A x \in Victims : \E w \in Victims' :
           /\ w \in Sectors
           /\ 2 * Left(w)' + Behind' <= 2 * Left(x) + Behind
           /\ FdCount(w)' + Again' + Pending' + 0 <= FdCount(x) + Again + Pending
    BY <1>5, <1>8
  <2> QED BY <1>1, <1>5, <2>1, <2>2, RoomKept
<1>10. Left(v)' <= MostLive
  <2>1. Left(v) <= MostLive
    BY <1>1, <1>4 DEF Goes, PaceInv
  <2> QED BY <1>5, <1>6, <2>1, MostLiveFacts
<1> QED BY <1>1, <1>3, <1>4, <1>9, <1>10, GoesFacts DEF PaceInv, Goes, MostLive

(* Each turn of fs_thread keeps the room.                                  *)
LEMMA ThreadPace ==
  ASSUME Goes, fs_thread, Counts
  PROVE  PaceInv'
<1>1. CASE ThreadCopied
  <2>1. CASE Stays
    <3>1. ThreadAt("copied") /\ CallFsWrite /\ UNCHANGED <<indexVars, currVars, lc, reloc>>
      BY <1>1, <2>1 DEF ThreadCopied, Stays
    <3> QED BY <2>1, <3>1, CopyPace
  <2>2. CASE ~Stays
    <3>1. /\ ThreadAt("copied") /\ YieldAt("next")
          /\ UNCHANGED <<indexVars, currVars, reloc>>
      BY <1>1, <2>2 DEF ThreadCopied, Stays
    <3> QED BY <2>2, <3>1, MovedPace
  <2> QED BY <2>1, <2>2
<1>2. ~ThreadRetry
  BY DEF ThreadRetry, ThreadAt, Goes, PaceInv
<1> QED BY <1>1, <1>2, BeginPace, SelectPace, ReadPace, NextPace DEF fs_thread

-----------------------------------------------------------------------------
(* The application writes when fs_thread has had its turns: what they have *)
(* done, or are behind, pays for the write.                                *)
LEMMA WritePace ==
  ASSUME Goes, PacedWrite \/ EarlyWrite
  PROVE  PaceInv'
<1>1. PICK id, data : UserWrite(id, data)
  BY DEF PacedWrite, EarlyWrite, Write
<1>2. /\ calls = <<>> /\ polls' = 0 /\ (polls = PollsPerWrite \/ SpareSector)
      /\ UNCHANGED <<currSector, currAddress, fd, fd_index, lc, reloc, indexVars>>
      /\ calls' = <<[caller |-> "user", at |-> "updateSector", id |-> id, data |-> data]>>
      /\ TypeOK /\ RunInv /\ lc # "retry" /\ polls' \in 0 .. PollsPerWrite
  BY <1>1, GoesFacts, PaceIsFinite
     DEF PacedWrite, EarlyWrite, Write, UserWrite, Idle, indexVars, currVars, Goes, PaceInv
<1>3. ~Copying /\ ~Waiting /\ Pending = 0
  BY <1>2, CallLength DEF Copying, Waiting, Pending, One, TypeOK
<1>4. ~Copying' /\ ~Waiting' /\ Pending' = 1
  <2>1. Len(calls') = 1 /\ calls'[1].caller = "user" /\ calls' # <<>>
    BY <1>2
  <2>2. \A c \in 1 .. Len(calls') : calls'[c].caller = "user"
    BY <2>1
  <2> QED BY <2>1, <2>2 DEF Copying, Waiting, Pending, One
<1>5. Again = 0 /\ Again' = 0 /\ Stage' = Stage /\ Stage \in 1 .. 3
  BY <1>2, <1>3, <1>4 DEF Again, One, Stage
<1>6. /\ Behind \in Nat /\ Behind' = 0
      /\ ~SpareSector => PollsPerWrite - 2 <= Behind
  <2>1. Behind' = 0
    BY <1>2, <1>5 DEF Behind
  <2>2. ~SpareSector => Behind = PollsPerWrite + Stage - 3 \/ (PollsPerWrite + Stage <= 3 /\ Behind = 0)
    BY <1>2, <1>5, PaceIsFinite DEF Behind
  <2> QED BY <1>5, <2>1, <2>2, GoesFacts, PaceIsFinite
<1>7. ASSUME NEW v \in Sectors
      PROVE  FdCount(v)' = FdCount(v) /\ Left(v)' = Left(v)
  <2>1. FdCount(v)' = FdCount(v)
    BY <1>2, ThreadPlaces
  <2> QED BY <1>2, <2>1 DEF Left, One, Moved
<1>8. /\ Room' = Room /\ (SpareSector' <=> SpareSector) /\ Victims' = Victims
  <2>1. Room' = Room /\ (SpareSector' <=> SpareSector) /\ Candidates' = Candidates
    BY <1>2, ThreadPlaces
  <2> QED BY <1>2, <2>1 DEF Victims
<1>9. ASSUME NEW v \in Victims, Need(v) <= Room, ~SpareSector
      PROVE  Need(v)' <= Room'
  <2>1. v \in Sectors /\ FdCount(v) \in Nat /\ Left(v) \in Nat
    BY <1>2, VictimFacts, GoesFacts DEF Numbers
  <2> DEFINE x == 2 * Left(v) + Behind
             y == 2 * Left(v) + 0
  <2>2. x \in Nat /\ y \in Nat /\ y + (PollsPerWrite - 2) <= x
    BY <1>6, <1>9, <2>1, PaceIsFinite
  <2>3. WritesIn(y) + 1 <= WritesIn(x) /\ WritesIn(x) \in Nat /\ WritesIn(y) \in Nat
    BY <2>2, WritesInFacts DEF Goes
  <2>4. Need(v) = FdCount(v) + WritesIn(x) + 0 + 0 + Allowed + 1
    BY <1>3, <1>5 DEF Need
  <2>5. Need(v)' = FdCount(v) + WritesIn(y) + 0 + 1 + Allowed' + 1
    BY <1>4, <1>5, <1>6, <1>7, <2>1 DEF Need, WritesIn
  <2>6. Allowed' = Allowed /\ Allowed \in Int
    BY <1>8, <1>9, GoesFacts
  <2> HIDE DEF x, y
  <2> QED BY <1>8, <1>9, <2>1, <2>3, <2>4, <2>5, <2>6, GoesFacts
<1>10. RoomToRelocate'
  BY <1>8, <1>9, GoesFacts DEF RoomToRelocate
<1>11. lc' \notin {"begin", "select"} => Left(reloc.sector)' <= MostLive
  <2> SUFFICES ASSUME lc \notin {"begin", "select"} PROVE Left(reloc.sector)' <= MostLive
    BY <1>2
  <2>1. reloc.sector \in Sectors /\ Left(reloc.sector) <= MostLive
    BY <1>2 DEF TypeOK, RelocRecord, Goes, PaceInv
  <2>2. PICK v \in Sectors : v = reloc.sector /\ v = reloc'.sector
    BY <1>2, <2>1
  <2> QED BY <1>7, <2>1, <2>2
<1> QED BY <1>2, <1>4, <1>10, <1>11, GoesFacts DEF PaceInv, Goes, MostLive

(* Each step of fs_write keeps the room, and none is refused.              *)
LEMMA FsWritePace ==
  ASSUME Goes, fs_write, UNCHANGED polls
  PROVE  PaceInv'
<1>1. ~NoSector
  <2>1. \E s \in Sectors : ~SECTOR_IS_FULL(s)
    BY GoesFacts, RoomIsOpen DEF Goes
  <2> QED BY <2>1 DEF NoSector
<1>2. ~NoFdLeft
  <2> SUFFICES ASSUME Executing("settle"), Search(FD_MAX, Top.id) PROVE FALSE
    BY DEF NoFdLeft
  <2>1. Top.id \in Ids
    BY GoesFacts, TopKnown
  <2> QED BY <2>1, GoesFacts, IndexSuffices DEF Goes
<1>3. ASSUME NEW i \in 0 .. FD_MAX, Settle(i)
      PROVE  PaceInv'
  BY <1>3, SettleUser, SettleThread
<1> QED BY <1>1, <1>2, <1>3, QuietWrite, ChangePace DEF fs_write, updateSector

-----------------------------------------------------------------------------
(* Each step of the main loop keeps the room. *)
LEMMA SameRoom ==
  ASSUME UNCHANGED <<flash, torn>>
  PROVE  RoomToBoot' <=> RoomToBoot
<1>1. \A id : Copies(id)' = Copies(id)
  BY DEF Copies, IsValid
<1>2. \A v : Live(v)' = Live(v)
  BY <1>1, LiveKept
<1> QED BY <1>2 DEF RoomToBoot, RoomInFlash, IsBlankFrom, WritesIn, Allowed

(* A FLASH that is blank has room.                                         *)
LEMMA AllBlank ==
  ASSUME NEW s \in Sectors, \A a \in Addr : flash[a] = Blank
  PROVE  \A k \in Slots : IsBlankFrom(s, k)
<1> SUFFICES ASSUME NEW k \in Slots, NEW j \in k .. LastSlot
             PROVE  flash[<<s, j>>] = Blank
  BY DEF IsBlankFrom
<1>1. j \in Slots
  BY Geometry DEF LastSlot, Slots
<1> QED BY <1>1, FsAddrFacts

(* So there is room at first.                                              *)
LEMMA PaceInit ==
  ASSUME PacedInit
  PROVE  PaceInv
<1>1. 0 \in Sectors /\ 0 \in Slots
  BY Geometry DEF Sectors, Slots
<1>2. IsBlankFrom(0, 0)
  <2>1. \A a \in Addr : flash[a] = Blank
    BY DEF PacedInit, PolledInit, Init
  <2> QED BY <1>1, <2>1, AllBlank
<1>3. lc = "begin" /\ mode = "boot" /\ polls = 0 /\ polls \in 0 .. PollsPerWrite
      /\ torn \in 0 .. MaxTorn
  BY PaceIsFinite, TornIsFinite DEF PacedInit, PolledInit, Init, ClearedRam
<1> QED BY <1>1, <1>2, <1>3 DEF PaceInv, RoomToBoot

(* fs_init keeps the room.                                                 *)
LEMMA BootPace ==
  ASSUME EnoughEntries, TearsShow, KeepsUp, StateFacts, StateFacts', PaceInv,
         Boot, UNCHANGED polls,
         torn' = IF mode' = "run" /\ SpareSector' THEN 0 ELSE torn
  PROVE  PaceInv'
<1>1. mode = "boot" /\ UNCHANGED calls
  BY DEF Boot, BootBlank, BootSkip, BootIndex, BootNoFd, BootDone, BootDuplicate, Scanning
<1>2. IInv /\ TypeOK' /\ calls = <<>> /\ mode' \in {"boot", "run"}
  BY <1>1 DEF StateFacts, IInv, NestingInv, TypeOK
<1>3. lc = "begin" /\ polls = 0 /\ RoomToBoot /\ polls \in 0 .. PollsPerWrite
  BY <1>1 DEF PaceInv
<1>4. lc' = "begin"
  BY <1>3 DEF Boot, BootBlank, BootSkip, BootIndex, BootNoFd, BootDone, BootDuplicate
<1>5. torn \in 0 .. MaxTorn /\ torn' \in 0 .. MaxTorn
  BY TornIsFinite DEF PaceInv
<1>6. torn' = torn => RoomToBoot'
  BY <1>2, <1>3, <1>5, BootRoom
<1>7. mode' = "run" => RoomToRelocate'
  <2>1. CASE mode' = "run" /\ SpareSector'
    BY <2>1 DEF RoomToRelocate
  <2>2. CASE torn' = torn
    BY <1>1, <1>2, <1>3, <1>4, <1>5, <1>6, <2>2 DEF StateFacts, WakesWithRoom
  <2> QED BY <2>1, <2>2
<1> QED BY <1>2, <1>3, <1>4, <1>5, <1>6, <1>7 DEF PaceInv

(* A power failure keeps the room, if it is not one torn copy too many.    *)
LEMMA FailPace ==
  ASSUME EnoughEntries, TearsShow, KeepsUp, StateFacts, PaceInv, Fail, polls' = 0,
         TornCopy => torn < MaxTorn, torn' = IF TornCopy THEN torn + 1 ELSE torn
  PROVE  PaceInv'
<1>1. IInv /\ Numbers /\ mode \in {"boot", "run"}
  BY DEF StateFacts, IInv, TypeOK
<1>2. mode' = "boot" /\ lc' = "begin" /\ polls' \in 0 .. PollsPerWrite
  BY PaceIsFinite DEF Fail, PowerLoss, PowerLossInProgram, ClearRam
<1>5. torn' \in 0 .. MaxTorn
  BY TornIsFinite DEF PaceInv
<1>3. CASE mode = "run"
  BY <1>1, <1>2, <1>3, <1>5, LossRoom DEF PaceInv
<1>4. CASE mode = "boot"
  <2>1. UNCHANGED flash
    BY <1>4 DEF Fail, PowerLoss, PowerLossInProgram, Executing
  <2>2. torn' = torn
    BY <2>1 DEF TornCopy
  <2>3. RoomToBoot'
    BY <1>4, <2>1, <2>2, SameRoom DEF PaceInv
  <2> QED BY <1>2, <1>5, <2>3 DEF PaceInv
<1> QED BY <1>1, <1>3, <1>4

(* So does a step of nothing.                                              *)
LEMMA StillPace ==
  ASSUME EnoughEntries, KeepsUp, StateFacts, StateFacts', PaceInv, UNCHANGED pacedVars
  PROVE  PaceInv'
<1>1. UNCHANGED <<vars, polls, torn>>
  BY DEF pacedVars, polledVars
<1>2. /\ UNCHANGED <<flash, mode, scan, fd, fd_index, currAddress, currSector, lc, reloc,
                     calls, ret, polls, torn>>
      /\ mode \in {"boot", "run"}
  BY <1>1 DEF vars, StateFacts, IInv, TypeOK
<1>3. CASE mode = "run"
  <2>1. (Copying' <=> Copying) /\ (Waiting' <=> Waiting) /\ Pending' = Pending
    BY <1>2 DEF Copying, Waiting, Pending
  <2>2. CASE SpareSector
    <3>1. SpareSector' /\ Left(reloc.sector)' = Left(reloc.sector) /\ (Stays' <=> Stays)
      BY <1>2, <2>2 DEF SpareSector, SECTOR_IS_BLANK, Left, FdCount, One, Moved, Stays
    <3> QED BY <1>2, <1>3, <2>1, <3>1 DEF PaceInv, RoomToRelocate, MostLive
  <2>3. CASE ~SpareSector
    <3>1. ~SpareSector'
      BY <1>2, <2>3 DEF SpareSector, SECTOR_IS_BLANK
    <3>2. Goes
      BY <1>2, <1>3, <3>1 DEF Goes
    <3> QED BY <1>2, <2>1, <3>2, QuietPace
  <2> QED BY <2>2, <2>3
<1>4. CASE mode = "boot"
  <2>1. RoomToBoot'
    BY <1>2, <1>4, SameRoom DEF PaceInv
  <2> QED BY <1>2, <1>4, <2>1 DEF PaceInv
<1> QED BY <1>2, <1>3, <1>4

(* All steps together.                                                     *)
LEMMA PaceStep ==
  ASSUME EnoughEntries, TearsShow, KeepsUp, StateFacts, StateFacts', PaceInv,
         [PacedNext]_pacedVars
  PROVE  PaceInv'
<1>1. CASE UNCHANGED pacedVars
  BY <1>1, StillPace
<1> SUFFICES ASSUME PacedNext PROVE PaceInv'
  BY <1>1
<1>2. CASE Fail /\ polls' = 0
  <2>1. mode' = "boot" /\ "boot" # "run"
    BY <1>2 DEF Fail, PowerLoss, PowerLossInProgram, ClearRam
  <2>2. (TornCopy => torn < MaxTorn) /\ torn' = IF TornCopy THEN torn + 1 ELSE torn
    BY <2>1 DEF PacedNext
  <2> QED BY <1>2, <2>2, FailPace
<1>11. ASSUME mode = "boot" \/ mode' = "run"
       PROVE  torn' = IF mode' = "run" /\ SpareSector' THEN 0 ELSE torn
  <2>1. ~TornCopy
    BY <1>11 DEF TornCopy, PowerLossInProgram, ClearRam, Executing
  <2> QED BY <2>1 DEF PacedNext
<1>3. CASE Boot /\ UNCHANGED polls
  <2>1. mode = "boot"
    BY <1>3 DEF Boot, BootBlank, BootSkip, BootIndex, BootNoFd, BootDone, BootDuplicate, Scanning
  <2> QED BY <1>3, <1>11, <2>1, BootPace
<1>4. polls \in 0 .. PollsPerWrite /\ polls \in Nat
  BY PaceIsFinite DEF PaceInv
<1>5. CASE fs_write /\ UNCHANGED polls
  <2>1. mode = "run" /\ mode' = "run"
    BY <1>5 DEF fs_write, updateSector, StaySector, ChangeSector, NoSector, ProgramBlock,
                MarkCurrent, InvalidateOld, Settle, NoFdLeft, Executing, bootVars
  <2>2. Goes
    BY <1>11, <2>1 DEF Goes
  <2> QED BY <1>5, <2>2, FsWritePace
<1>6. ASSUME fs_thread,
             \/ polls' = polls
             \/ /\ polls' = polls + 1 /\ polls < PollsPerWrite /\ calls = <<>>
                /\ lc' \notin {"await_read", "await_erase"}
      PROVE  PaceInv'
  <2>1. mode = "run" /\ mode' = "run"
    BY <1>6 DEF fs_thread, ThreadBegin, ThreadSelect, ThreadRead, ThreadCopied, ThreadRetry,
                ThreadNext, ThreadErase, ThreadAt, ThreadRuns, bootVars
  <2>2. Goes
    BY <1>11, <2>1 DEF Goes
  <2>3. polls' \in 0 .. PollsPerWrite
    BY <1>4, <1>6, PaceIsFinite
  <2>4. Counts
    BY <1>6, <2>3 DEF Counts
  <2> QED BY <1>6, <2>2, <2>4, ThreadPace
<1>7. CASE Poll
  BY <1>4, <1>6, <1>7 DEF Poll, Turn
<1>8. CASE PollBusy
  BY <1>6, <1>8 DEF PollBusy
<1>9. CASE Continue /\ UNCHANGED polls
  BY <1>5, <1>6, <1>9 DEF Continue
<1>10. CASE PacedWrite \/ EarlyWrite
  <2>1. mode = "run" /\ mode' = "run"
    BY <1>10 DEF PacedWrite, EarlyWrite, Write, UserWrite, Idle, bootVars
  <2>2. Goes
    BY <1>11, <2>1 DEF Goes
  <2> QED BY <1>10, <2>2, WritePace
<1> QED BY <1>2, <1>3, <1>7, <1>8, <1>9, <1>10 DEF PacedNext, PolledNext, SteadyNext

(* While relocation keeps up, PaceInv holds: there is always room for it,  *)
(* in the main loop and when fs_init has read FLASH again.                 *)
THEOREM PaceKept ==
  ASSUME EnoughEntries, TearsShow, KeepsUp
  PROVE  PacedSpec => []PaceInv
<1>1. PacedInit => PaceInv
  BY PaceInit
<1>2. StateFacts /\ StateFacts' /\ PaceInv /\ [PacedNext]_pacedVars => PaceInv'
  BY PaceStep
<1> QED BY <1>1, <1>2, PacedIsPolled, PolledIsWormvars, StateFactsHold, PTL DEF PacedSpec

(* Relocation always finds a sector to write to (comment at wormvars.c:101)*)
(* if the application leaves fs_thread enough turns once the last blank    *)
(* sector is in use, and however often power fails then, except that at    *)
(* most MaxTorn of the blocks that fs_thread writes meanwhile are torn.    *)
THEOREM ReserveHolds ==
  ASSUME EnoughEntries, TearsShow, KeepsUp
  PROVE  PacedSpec => []ReserveSuffices
<1>1. PaceInv => ReserveSuffices
  BY DEF PaceInv, ReserveSuffices
<1> QED BY <1>1, PaceKept, PTL

(* Under the same conditions no fs_write, of the application or of         *)
(* fs_thread, is refused because all sectors are full.                     *)
THEOREM WritesAlwaysFindRoom ==
  ASSUME EnoughEntries, TearsShow, KeepsUp
  PROVE  PacedSpec => []WritesFindRoom
<1>1. StateFacts /\ PaceInv => WritesFindRoom
  BY RoomIsOpen DEF StateFacts, IInv, WhileRunning, WritesFindRoom, Executing
<1> QED BY <1>1, PaceKept, PacedIsPolled, PolledIsWormvars, StateFactsHold, PTL
=============================================================================
