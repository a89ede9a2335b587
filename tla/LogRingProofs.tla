----------------------------- MODULE LogRingProofs -----------------------------
(***************************************************************************)
(* Proofs about LogRing, for any size of a member, any number of archives,  *)
(* records, failures and crashes.                                           *)
(*                                                                         *)
(* RotationInv is what a rotation relies on between its steps: the record    *)
(* being written is newer than every unit of the ring, the generation a      *)
(* rename moves to is empty, so is the active file once it is archived, and  *)
(* a record is only appended where it fits or where nothing is.  With it     *)
(* order, wholeness and the bound are inductive, and a step that drops       *)
(* records drops those of the oldest archive or of a file over the bound.    *)
(***************************************************************************)
EXTENDS LogRing, SequenceTheorems, TLAPS

Writing == stage \notin {"ready", "down"}

(* nothing in the ring is newer than the record being written *)
UnitsBelow ==
    \A g \in Generations : \A i \in DOMAIN member[g] :
        /\ member[g][i] <= last
        /\ Writing => member[g][i] < last

RotationInv ==
    /\ Writing => last # 0
    /\ stage = "shift" => shift < Archives /\ member[shift + 1] = << >>
    /\ stage = "create" => member[0] = << >>
    /\ stage = "append" => Len(member[0]) = 0 \/ Len(member[0]) + length <= MaxSize

RingInv ==
    /\ TypeOK
    /\ UnitsBelow
    /\ RotationInv
    /\ RecordsInOrder
    /\ RecordsAreWhole
    /\ BoundHolds

-----------------------------------------------------------------------------
(* A file after n more units of one record have been written to it.          *)
Grows(S, m, u, n) ==
    /\ m \o Units(u, n) \in Seq(S)
    /\ m \o Units(u, n) = [i \in 1..(Len(m) + n) |-> IF i <= Len(m) THEN m[i] ELSE u]

LEMMA Appended ==
    ASSUME NEW S, NEW m \in Seq(S), NEW u \in S, NEW n \in Nat
    PROVE  Grows(S, m, u, n)
  <1> DEFINE a == Units(u, n)
             ma == m \o a
  <1>1. a \in Seq(S) /\ Len(a) = n
    BY DEF Units
  <1>2. \A i \in 1..n : a[i] = u
    BY DEF Units
  <1> HIDE DEF a
  <1>3. Len(m) \in Nat /\ DOMAIN m = 1..Len(m)
    BY LenProperties
  <1>4. /\ ma \in Seq(S)
        /\ Len(ma) = Len(m) + n
        /\ \A i \in 1..(Len(m) + n) :
               ma[i] = IF i <= Len(m) THEN m[i] ELSE a[i - Len(m)]
    BY <1>1, ConcatProperties
  <1> HIDE DEF ma
  <1>5. DOMAIN ma = 1..(Len(m) + n)
    BY <1>4, LenProperties
  <1>6. ASSUME NEW i \in 1..(Len(m) + n)
        PROVE  ma[i] = IF i <= Len(m) THEN m[i] ELSE u
    <2>1. CASE i <= Len(m)
      BY <1>4, <2>1
    <2>2. CASE ~(i <= Len(m))
      <3>1. i - Len(m) \in 1..n
        BY <1>3, <2>2
      <3>2. QED
        BY <1>2, <1>4, <2>2, <3>1
    <2>3. QED
      BY <2>1, <2>2
  <1>7. ma = [i \in 1..(Len(m) + n) |-> IF i <= Len(m) THEN m[i] ELSE u]
    <2>1. ma = [i \in DOMAIN ma |-> ma[i]]
      BY <1>4, LenProperties
    <2>2. QED
      BY <1>5, <1>6, <2>1
  <1>8. QED
    BY <1>4, <1>7 DEF ma, a, Grows


(* What a member of the ring is.                                             *)
LEMMA MemberTypes ==
    ASSUME TypeOK, NEW g \in Generations
    PROVE  /\ g \in Int /\ 0 <= g /\ g <= Archives
           /\ member[g] \in Seq(0..MaxRecords)
           /\ Len(member[g]) \in Nat
           /\ DOMAIN member[g] = 1..Len(member[g])
           /\ \A i \in DOMAIN member[g] : member[g][i] \in 0..MaxRecords
           /\ last \in Nat
  <1>1. g \in Int /\ 0 <= g /\ g <= Archives
    BY RingAssumption DEF Generations
  <1>2. member[g] \in Seq(0..MaxRecords)
    BY DEF TypeOK
  <1>3. /\ Len(member[g]) \in Nat
        /\ DOMAIN member[g] = 1..Len(member[g])
        /\ \A i \in DOMAIN member[g] : member[g][i] \in 0..MaxRecords
    <2> DEFINE S == 0..MaxRecords
    <2>1. member[g] \in Seq(S)
      BY <1>2
    <2> HIDE DEF S
    <2>2. /\ Len(member[g]) \in Nat
          /\ DOMAIN member[g] = 1..Len(member[g])
          /\ member[g] \in [1..Len(member[g]) -> S]
      BY <2>1, LenProperties
    <2>3. \A i \in DOMAIN member[g] : member[g][i] \in S
      BY <2>2
    <2>4. QED
      BY <2>2, <2>3 DEF S
  <1>4. last \in Nat
    BY DEF TypeOK
  <1>5. QED
    BY <1>1, <1>2, <1>3, <1>4

(* Files that are removed, or moved without overtaking one another, keep the *)
(* ring as it was: from[g] is the generation that the file at g came from.   *)
LEMMA Rearranged ==
    ASSUME TypeOK, UnitsBelow, RecordsInOrder, RecordsAreWhole,
           NEW from \in [Generations -> Generations],
           \A g \in Generations :
               member'[g] = << >> \/ member'[g] = member[from[g]],
           \A g, h \in Generations :
               g > h /\ member'[g] # << >> /\ member'[h] # << >>
               => from[g] > from[h],
           last' = last, Writing' => Writing
    PROVE  UnitsBelow' /\ RecordsInOrder' /\ RecordsAreWhole'
  <1>1. ASSUME NEW g \in Generations, NEW i \in DOMAIN member'[g]
        PROVE  /\ member'[g] # << >>
               /\ member'[g] = member[from[g]]
               /\ i \in DOMAIN member[from[g]]
    <2>1. member'[g] # << >>
      BY <1>1
    <2>2. QED
      BY <2>1
  <1>2. UnitsBelow'
    <2> SUFFICES ASSUME NEW g \in Generations, NEW i \in DOMAIN member'[g]
                 PROVE  /\ member'[g][i] <= last'
                        /\ Writing' => member'[g][i] < last'
      BY DEF UnitsBelow
    <2>1. from[g] \in Generations
      OBVIOUS
    <2>2. QED
      BY <1>1, <2>1 DEF UnitsBelow
  <1>3. ASSUME NEW g \in Generations, NEW h \in Generations,
               member'[g] # << >>, member'[h] # << >>, from[g] = from[h]
        PROVE  g = h
    <2>1. g \in Int /\ h \in Int /\ from[g] \in Int /\ from[h] \in Int
      BY MemberTypes
    <2>2. ~(g > h) /\ ~(h > g)
      BY <1>3, <2>1
    <2>3. QED
      BY <2>1, <2>2
  <1>4. RecordsInOrder'
    <2> SUFFICES ASSUME NEW g \in Generations, NEW h \in Generations,
                        NEW i \in DOMAIN member'[g], NEW j \in DOMAIN member'[h],
                        ReadBefore(g, i, h, j),
                        Trace \notin {member'[g][i], member'[h][j]}
                 PROVE  member'[g][i] <= member'[h][j]
      BY DEF RecordsInOrder, ReadBefore
    <2>1. ReadBefore(from[g], i, from[h], j)
      BY <1>1 DEF ReadBefore
    <2>2. from[g] \in Generations /\ from[h] \in Generations
      OBVIOUS
    <2>3. QED
      BY <1>1, <2>1, <2>2 DEF RecordsInOrder
  <1>5. RecordsAreWhole'
    <2> SUFFICES ASSUME NEW g \in Generations, NEW h \in Generations, g # h,
                        NEW i \in DOMAIN member'[g], NEW j \in DOMAIN member'[h],
                        member'[g][i] = member'[h][j], member'[g][i] # Trace
                 PROVE  FALSE
      BY DEF RecordsAreWhole, In
    <2>1. from[g] # from[h]
      BY <1>1, <1>3
    <2>2. /\ member'[g][i] \in In(from[g])
          /\ member'[h][j] \in In(from[h])
      BY <1>1 DEF In
    <2>3. QED
      BY <2>1, <2>2 DEF RecordsAreWhole
  <1>6. QED
    BY <1>2, <1>4, <1>5

(* A step that leaves the files and the record alone.                        *)
LEMMA Untouched ==
    ASSUME TypeOK, UnitsBelow, RecordsInOrder, RecordsAreWhole,
           UNCHANGED <<member, last>>, Writing' => Writing
    PROVE  UnitsBelow' /\ RecordsInOrder' /\ RecordsAreWhole'
  BY DEF UnitsBelow, RecordsInOrder, RecordsAreWhole, In

(* What is written to a file is the record that is newer than all others, at *)
(* the end of the active file, or the trace of a crash, which is no record.  *)
LEMMA Grown ==
    ASSUME TypeOK, UnitsBelow, RecordsInOrder, RecordsAreWhole,
           NEW t \in Generations, NEW u \in 0..MaxRecords, NEW n \in Nat,
           member' = [member EXCEPT ![t] = @ \o Units(u, n)],
           u = Trace \/ (u = last /\ t = 0 /\ Writing),
           last' = last, ~Writing'
    PROVE  /\ member' \in [Generations -> Seq(0..MaxRecords)]
           /\ UnitsBelow' /\ RecordsInOrder' /\ RecordsAreWhole'
           /\ Len(member'[t]) = Len(member[t]) + n
  <1>1. member[t] \in Seq(0..MaxRecords)
    BY DEF TypeOK
  <1>2. /\ member'[t] = member[t] \o Units(u, n)
        /\ \A g \in Generations \ {t} : member'[g] = member[g]
    BY DEF TypeOK
  <1> DEFINE S == 0..MaxRecords
             m == Len(member[t])
             grown == member[t] \o Units(u, n)
  <1>S. member[t] \in Seq(S) /\ u \in S
    BY <1>1
  <1> HIDE DEF S
  <1>a. m \in Nat /\ DOMAIN member[t] = 1..m
    BY <1>S, LenProperties
  <1>0. /\ grown \in Seq(S)
        /\ grown = [i \in 1..(m + n) |-> IF i <= m THEN member[t][i] ELSE u]
    <2> DEFINE old == member[t]
    <2>1. old \in Seq(S)
      BY <1>S
    <2> HIDE DEF old
    <2>2. Grows(S, old, u, n)
      BY <1>S, <2>1, Appended
    <2>3. QED
      BY <2>2 DEF old, Grows
  <1> HIDE DEF grown
  <1>3. member' \in [Generations -> Seq(0..MaxRecords)]
    <2>1. member' = [member EXCEPT ![t] = grown]
      BY DEF grown
    <2>2. QED
      BY <1>0, <2>1 DEF TypeOK, S
  <1>4. ASSUME NEW g \in Generations, NEW i \in DOMAIN member'[g]
        PROVE  \/ i \in DOMAIN member[g] /\ member'[g][i] = member[g][i]
               \/ /\ g = t /\ member'[g][i] = u
                  /\ \A j \in DOMAIN member[g] : j < i
    <2>1. CASE g # t
      BY <1>2, <2>1
    <2>2. CASE g = t
      <3>1. member'[g] = grown
        BY <1>2, <2>2 DEF grown
      <3>2. i \in 1..(m + n)
        BY <1>0, <3>1
      <3>3. CASE i \in 1..m
        BY <1>0, <1>a, <2>2, <3>1, <3>2, <3>3
      <3>4. CASE i > m
        <4>1. grown[i] = u
          BY <1>0, <1>a, <3>2, <3>4
        <4>2. \A j \in DOMAIN member[t] : j < i
          BY <1>a, <3>2, <3>4
        <4>3. QED
          BY <2>2, <3>1, <4>1, <4>2
      <3>5. QED
        BY <1>a, <3>2, <3>3, <3>4
    <2>3. QED
      BY <2>1, <2>2
  <1>5. u <= last /\ last \in Nat
    BY DEF TypeOK, Trace
  <1>6. UnitsBelow'
    BY <1>4, <1>5 DEF UnitsBelow
  <1>7. RecordsInOrder'
    <2> SUFFICES ASSUME NEW g \in Generations, NEW h \in Generations,
                        NEW i \in DOMAIN member'[g], NEW j \in DOMAIN member'[h],
                        ReadBefore(g, i, h, j),
                        member'[g][i] # Trace, member'[h][j] # Trace
                 PROVE  member'[g][i] <= member'[h][j]
      BY DEF RecordsInOrder, ReadBefore
    <2>1. CASE u = Trace
      BY <1>4, <2>1 DEF RecordsInOrder
    <2>2. CASE u = last /\ t = 0 /\ Writing
      <3>1. CASE /\ i \in DOMAIN member[g] /\ member'[g][i] = member[g][i]
                 /\ j \in DOMAIN member[h] /\ member'[h][j] = member[h][j]
        BY <3>1 DEF RecordsInOrder
      <3>2. CASE member'[h][j] = u
        BY <1>6, <2>2, <3>2 DEF UnitsBelow
      <3>3. CASE /\ g = t /\ \A k \in DOMAIN member[g] : k < i
                 /\ j \in DOMAIN member[h]
        <4>1. ~(g > h)
          BY <2>2, <3>3, MemberTypes
        <4>2. g = h /\ i < j
          BY <4>1 DEF ReadBefore
        <4>3. j < i
          BY <3>3, <4>2
        <4>4. i \in Int /\ j \in Int
          <5>1. DOMAIN member[h] = 1..Len(member[h])
            BY MemberTypes
          <5>2. member'[g] \in Seq(0..MaxRecords)
            BY <1>3
          <5>3. QED
            BY <3>3, <5>1, <5>2, LenProperties
        <4>5. QED
          BY <4>2, <4>3, <4>4
      <3>4. QED
        BY <1>4, <3>1, <3>2, <3>3
    <2>3. QED
      BY <2>1, <2>2
  <1>8. RecordsAreWhole'
    <2> SUFFICES ASSUME NEW g \in Generations, NEW h \in Generations, g # h,
                        NEW i \in DOMAIN member'[g], NEW j \in DOMAIN member'[h],
                        member'[g][i] = member'[h][j], member'[g][i] # Trace
                 PROVE  FALSE
      BY DEF RecordsAreWhole, In
    <2>1. CASE /\ i \in DOMAIN member[g] /\ member'[g][i] = member[g][i]
               /\ j \in DOMAIN member[h] /\ member'[h][j] = member[h][j]
      BY <2>1 DEF RecordsAreWhole, In
    <2>2. CASE g = t /\ member'[g][i] = u
      <3>1. u = last /\ Writing
        BY <2>2
      <3>2. j \in DOMAIN member[h] /\ member[h][j] = last
        BY <1>2, <2>2, <3>1
      <3>3. member[h][j] < last
        BY <3>1, <3>2 DEF UnitsBelow
      <3>4. QED
        BY <1>5, <3>2, <3>3
    <2>3. CASE h = t /\ member'[h][j] = u
      <3>1. u = last /\ Writing
        BY <2>3
      <3>2. i \in DOMAIN member[g] /\ member[g][i] = last
        BY <1>2, <2>3, <3>1
      <3>3. member[g][i] < last
        BY <3>1, <3>2 DEF UnitsBelow
      <3>4. QED
        BY <1>5, <3>2, <3>3
    <2>4. QED
      BY <1>4, <2>1, <2>2, <2>3
  <1>9. Len(member'[t]) = Len(member[t]) + n
    <2>1. DOMAIN grown = 1..(m + n) /\ DOMAIN grown = 1..Len(grown)
      BY <1>0, LenProperties
    <2>2. Len(grown) \in Nat
      BY <1>0, LenProperties
    <2>3. Len(grown) = m + n
      BY <1>a, <2>1, <2>2
    <2>4. QED
      BY <1>2, <2>3 DEF grown
  <1>10. QED
    BY <1>3, <1>6, <1>7, <1>8, <1>9

-----------------------------------------------------------------------------
(* One rename of a rotation: the file at s, if there is one, moves up.       *)
LEMMA Moved ==
    ASSUME TypeOK, UnitsBelow, RecordsInOrder, RecordsAreWhole,
           NEW s \in 0..(Archives - 1), member' = Renamed(s, s + 1),
           last' = last, Writing' => Writing
    PROVE  /\ member' \in [Generations -> Seq(0..MaxRecords)]
           /\ UnitsBelow' /\ RecordsInOrder' /\ RecordsAreWhole'
           /\ member'[s] = << >>
           /\ \A g \in Generations :
                  member'[g] = << >> \/ \E h \in Generations : member'[g] = member[h]
  <1> USE RingAssumption
  <1>1. /\ s \in Generations /\ s + 1 \in Generations
        /\ s \in Int /\ s # s + 1
    BY DEF Generations
  <1>2. CASE member[s] = << >>
    <2>1. member' = member
      BY <1>2 DEF Renamed
    <2>2. UnitsBelow' /\ RecordsInOrder' /\ RecordsAreWhole'
      BY <2>1, Untouched
    <2>3. QED
      BY <1>1, <1>2, <2>1, <2>2 DEF TypeOK
  <1>3. CASE member[s] # << >>
    <2> DEFINE from == [g \in Generations |-> IF g = s + 1 THEN s ELSE g]
    <2>1. member' = [member EXCEPT ![s + 1] = member[s], ![s] = << >>]
      BY <1>3 DEF Renamed
    <2>2. /\ member'[s] = << >> /\ member'[s + 1] = member[s]
          /\ \A g \in Generations \ {s, s + 1} : member'[g] = member[g]
      BY <1>1, <2>1 DEF TypeOK
    <2>3. member' \in [Generations -> Seq(0..MaxRecords)]
      <3>1. << >> \in Seq(0..MaxRecords) /\ member[s] \in Seq(0..MaxRecords)
        BY <1>1 DEF TypeOK
      <3>2. QED
        BY <2>1, <3>1 DEF TypeOK
    <2>4. from \in [Generations -> Generations]
      BY <1>1
    <2>5. \A g \in Generations : member'[g] = << >> \/ member'[g] = member[from[g]]
      BY <2>2
    <2>6. ASSUME NEW g \in Generations, NEW h \in Generations, g > h,
                 member'[g] # << >>, member'[h] # << >>
          PROVE  from[g] > from[h]
      <3>1. g \in Int /\ h \in Int /\ g # s /\ h # s
        BY <2>2, <2>6 DEF Generations
      <3>2. QED
        BY <1>1, <2>6, <3>1
    <2>7. UnitsBelow' /\ RecordsInOrder' /\ RecordsAreWhole'
      <3> HIDE DEF from
      <3> QED
        BY <2>4, <2>5, <2>6, Rearranged
    <2>8. QED
      BY <2>2, <2>3, <2>4, <2>5, <2>7
  <1>4. QED
    BY <1>2, <1>3

LEMMA EmptyIsWithinBound == WithinBound(<< >>)
  <1>1. Len(<< >>) = 0
    OBVIOUS
  <1>2. QED
    BY <1>1, RingAssumption DEF WithinBound

(* Files are removed in place: the oldest archive, or those over the bound.  *)
LEMMA Removed ==
    ASSUME TypeOK, UnitsBelow, RecordsInOrder, RecordsAreWhole,
           member' \in [Generations -> Seq(0..MaxRecords)],
           \A g \in Generations : member'[g] = << >> \/ member'[g] = member[g],
           last' = last, Writing' => Writing
    PROVE  UnitsBelow' /\ RecordsInOrder' /\ RecordsAreWhole'
  <1> DEFINE from == [g \in Generations |-> g]
  <1>1. from \in [Generations -> Generations] /\ \A g \in Generations : from[g] = g
    OBVIOUS
  <1> HIDE DEF from
  <1>2. \A g \in Generations : member'[g] = << >> \/ member'[g] = member[from[g]]
    BY <1>1
  <1>3. \A g, h \in Generations :
            g > h /\ member'[g] # << >> /\ member'[h] # << >> => from[g] > from[h]
    BY <1>1
  <1>4. QED
    BY <1>1, <1>2, <1>3, Rearranged

(* The oldest archive has gone before anything moves.                        *)
LEMMA RemoveOldestStep ==
    ASSUME RingInv, RemoveOldest
    PROVE  RingInv'
  <1> USE RingAssumption DEF RingInv
  <1>1. /\ stage = "remove" /\ stage' = "shift" /\ shift' = Archives - 1
        /\ member' = [member EXCEPT ![Archives] = << >>]
        /\ UNCHANGED <<open, length, last, lost, faults, crashes>>
    BY DEF RemoveOldest
  <1>2. Archives \in Generations /\ Archives - 1 \in Generations
    BY DEF Generations
  <1>3. member' \in [Generations -> Seq(0..MaxRecords)]
    <2>1. << >> \in Seq(0..MaxRecords)
      OBVIOUS
    <2>2. QED
      BY <1>1, <2>1 DEF TypeOK
  <1>4. \A g \in Generations : member'[g] = << >> \/ member'[g] = member[g]
    BY <1>1 DEF TypeOK
  <1>5. TypeOK'
    BY <1>1, <1>2, <1>3 DEF TypeOK, Stages
  <1>6. UnitsBelow' /\ RecordsInOrder' /\ RecordsAreWhole'
    <2>1. Writing' => Writing
      BY <1>1 DEF Writing
    <2>2. QED
      BY <1>1, <1>3, <1>4, <2>1, Removed
  <1>7. RotationInv'
    <2>1. member'[shift' + 1] = << >>
      BY <1>1, <1>2 DEF TypeOK
    <2>2. QED
      BY <1>1, <2>1 DEF RotationInv, Writing
  <1>8. BoundHolds'
    BY <1>1, <1>4, EmptyIsWithinBound DEF BoundHolds
  <1>9. QED
    BY <1>5, <1>6, <1>7, <1>8

(* A rename leaves the place of the next one empty.                          *)
LEMMA ShiftStep ==
    ASSUME RingInv, ShiftArchive \/ ArchiveActive
    PROVE  RingInv'
  <1> USE RingAssumption DEF RingInv
  <1>1. /\ stage = "shift" /\ shift \in 0..(Archives - 1)
        /\ member' = Renamed(shift, shift + 1)
        /\ UNCHANGED <<open, length, last, lost, faults, crashes>>
    <2>1. shift \in Int /\ shift >= 0 /\ shift < Archives
      BY DEF ShiftArchive, ArchiveActive, TypeOK, Generations, RotationInv, Writing
    <2>2. QED
      BY <2>1 DEF ShiftArchive, ArchiveActive
  <1>2. \/ shift >= 1 /\ stage' = "shift" /\ shift' = shift - 1
        \/ shift = 0 /\ stage' = "create" /\ shift' = shift
    BY DEF ShiftArchive, ArchiveActive
  <1>3. /\ member' \in [Generations -> Seq(0..MaxRecords)]
        /\ UnitsBelow' /\ RecordsInOrder' /\ RecordsAreWhole'
        /\ member'[shift] = << >>
        /\ \A g \in Generations :
               member'[g] = << >> \/ \E h \in Generations : member'[g] = member[h]
    <2>1. Writing' => Writing
      BY <1>1, <1>2 DEF Writing
    <2> DEFINE s == shift
    <2>2. s \in 0..(Archives - 1) /\ member' = Renamed(s, s + 1)
      BY <1>1
    <2>3. last' = last
      BY <1>1
    <2> HIDE DEF s
    <2>4. /\ member' \in [Generations -> Seq(0..MaxRecords)]
          /\ UnitsBelow' /\ RecordsInOrder' /\ RecordsAreWhole'
          /\ member'[s] = << >>
          /\ \A g \in Generations :
               member'[g] = << >> \/ \E h \in Generations : member'[g] = member[h]
      BY <2>1, <2>2, <2>3, Moved
    <2>5. QED
      BY <2>4 DEF s
  <1>4. TypeOK'
    <2>1. shift' \in Generations
      BY <1>1, <1>2 DEF Generations
    <2>2. QED
      BY <1>1, <1>2, <1>3, <2>1 DEF TypeOK, Stages
  <1>5. RotationInv'
    <2>1. CASE stage' = "shift"
      <3>1. shift' + 1 = shift /\ shift' < Archives
        BY <1>1, <1>2, <2>1
      <3>2. QED
        BY <1>1, <1>3, <2>1, <3>1 DEF RotationInv, Writing
    <2>2. CASE stage' = "create"
      BY <1>1, <1>2, <1>3, <2>2 DEF RotationInv, Writing
    <2>3. QED
      BY <1>2, <2>1, <2>2
  <1>6. BoundHolds'
    <2>1. \A g \in Generations : WithinBound(member[g])
      BY <1>1 DEF BoundHolds
    <2>2. ASSUME NEW g \in Generations PROVE WithinBound(member'[g])
      <3>1. CASE member'[g] = << >>
        BY <3>1, EmptyIsWithinBound
      <3>2. CASE \E h \in Generations : member'[g] = member[h]
        BY <2>1, <3>2
      <3>3. QED
        BY <1>3, <3>1, <3>2
    <2>3. QED
      BY <2>2 DEF BoundHolds
  <1>7. QED
    BY <1>3, <1>4, <1>5, <1>6

(* A record is being written only when there is one.                         *)
LEMMA LastIsSet ==
    ASSUME RingInv, Writing
    PROVE  last # 0
  BY DEF RingInv, RotationInv, Writing

(* A record is appended where it fits or where nothing is, in full or cut    *)
(* short by a full disk.                                                     *)
LEMMA AppendStep ==
    ASSUME RingInv, NEW n \in 0..length, AppendRecord(n)
    PROVE  RingInv'
  <1> USE RingAssumption DEF RingInv
  <1>1. /\ stage = "append" /\ stage' = "ready" /\ n <= length
        /\ member' = [member EXCEPT ![0] = @ \o Units(last, n)]
        /\ UNCHANGED <<open, shift, length, last, crashes>>
    BY DEF AppendRecord, TypeOK
  <1>2. /\ 0 \in Generations /\ n \in Nat /\ last \in 0..MaxRecords
        /\ length \in Nat /\ Writing /\ ~Writing'
    BY <1>1 DEF Generations, TypeOK, Writing
  <1>3. /\ member' \in [Generations -> Seq(0..MaxRecords)]
        /\ UnitsBelow' /\ RecordsInOrder' /\ RecordsAreWhole'
        /\ Len(member'[0]) = Len(member[0]) + n
    BY <1>1, <1>2, Grown
  <1>4. last \in 1..MaxRecords \/ n = length
    <2>1. CASE n < length
      <3>1. last # 0
        BY <1>1, LastIsSet DEF Writing
      <3>2. QED
        BY <1>2, <3>1
    <2>2. QED
      BY <1>1, <2>1 DEF AppendRecord
  <1>5. TypeOK'
    <2>1. lost' \subseteq 1..MaxRecords /\ faults' \in 0..MaxFaults
      <3>1. CASE n = length /\ UNCHANGED <<lost, faults>>
        BY <3>1 DEF TypeOK
      <3>2. CASE /\ n < length /\ faults < MaxFaults /\ faults' = faults + 1
                 /\ lost' = lost \cup {last}
        <4>1. n \in Int /\ length \in Int
          BY DEF TypeOK
        <4>2. last \in 1..MaxRecords
          BY <1>4, <3>2, <4>1
        <4>3. QED
          BY <3>2, <4>2 DEF TypeOK
      <3>3. QED
        BY <3>1, <3>2 DEF AppendRecord
    <2>2. QED
      BY <1>1, <1>3, <2>1 DEF TypeOK, Stages
  <1>6. BoundHolds'
    <2>1. WithinBound(member'[0])
      <3>1. CASE Len(member[0]) + length <= MaxSize
        <4>1. Len(member'[0]) <= MaxSize
          BY <1>1, <1>2, <1>3, <3>1, MemberTypes DEF TypeOK
        <4>2. QED
          BY <4>1 DEF WithinBound
      <3>2. CASE Len(member[0]) = 0
        <4>1. \A i \in DOMAIN member'[0] : member'[0][i] = last
          <5> DEFINE S == 0..MaxRecords
                     old == member[0]
          <5>1. old \in Seq(S) /\ last \in S /\ Len(old) = 0
            BY <1>2, <3>2 DEF TypeOK
          <5>2. member'[0] = old \o Units(last, n)
            BY <1>1, <1>2 DEF TypeOK
          <5> HIDE DEF S, old
          <5>3. Grows(S, old, last, n)
            BY <1>2, <5>1, Appended
          <5>4. member'[0] = [i \in 1..n |-> last]
            BY <1>2, <5>1, <5>2, <5>3 DEF Grows
          <5>5. QED
            BY <5>4
        <4>2. last \in 1..MaxRecords
          BY <1>2, LastIsSet
        <4>3. QED
          BY <4>1, <4>2 DEF WithinBound
      <3>3. QED
        BY <1>1, <3>1, <3>2 DEF RotationInv
    <2>2. \A g \in Generations \ {0} : member'[g] = member[g]
      BY <1>1 DEF TypeOK
    <2>3. QED
      BY <1>1, <2>1, <2>2 DEF BoundHolds
  <1>7. RotationInv'
    BY <1>1 DEF RotationInv, Writing
  <1>8. QED
    BY <1>3, <1>5, <1>6, <1>7

(* What a crash leaves in the ring is no record, and over the bound only     *)
(* while the process is down.                                                *)
LEMMA CrashStep ==
    ASSUME RingInv, NEW n \in Traces, Crash(n)
    PROVE  RingInv'
  <1> USE RingAssumption DEF RingInv
  <1>1. /\ stage # "down" /\ stage' = "down"
        /\ crashes < MaxCrashes /\ crashes' = crashes + 1
        /\ open' = FALSE
        /\ member' = [member EXCEPT ![CrashTarget] = @ \o Units(Trace, n)]
        /\ lost' = IF stage = "ready" THEN lost ELSE lost \cup {last}
        /\ UNCHANGED <<shift, length, last, faults>>
    BY DEF Crash
  <1>2. /\ CrashTarget \in Generations /\ n \in Nat
        /\ Trace \in 0..MaxRecords /\ ~Writing'
    BY <1>1 DEF CrashTarget, Generations, Trace, Writing
  <1>3. /\ member' \in [Generations -> Seq(0..MaxRecords)]
        /\ UnitsBelow' /\ RecordsInOrder' /\ RecordsAreWhole'
    <2> DEFINE t == CrashTarget
               u == Trace
    <2>1. /\ t \in Generations /\ u \in 0..MaxRecords
          /\ member' = [member EXCEPT ![t] = @ \o Units(u, n)]
          /\ u = Trace /\ last' = last
      BY <1>1, <1>2
    <2> HIDE DEF t, u
    <2>2. QED
      BY <1>2, <2>1, Grown
  <1>4. TypeOK'
    <2>1. lost' \subseteq 1..MaxRecords
      <3>1. CASE stage = "ready"
        BY <1>1, <3>1 DEF TypeOK
      <3>2. CASE stage # "ready"
        <4>1. last # 0 /\ last \in 0..MaxRecords
          BY <1>1, <3>2, LastIsSet DEF Writing, TypeOK
        <4>2. QED
          BY <1>1, <4>1 DEF TypeOK
      <3>3. QED
        BY <3>1, <3>2
    <2>2. crashes' \in 0..MaxCrashes
      BY <1>1 DEF TypeOK
    <2>3. QED
      BY <1>1, <1>3, <2>1, <2>2 DEF TypeOK, Stages
  <1>5. RotationInv' /\ BoundHolds'
    BY <1>1, <1>2 DEF RotationInv, BoundHolds
  <1>6. QED
    BY <1>3, <1>4, <1>5

(* The next start removes what is over the bound.                            *)
LEMMA RestartStep ==
    ASSUME RingInv, Restart
    PROVE  RingInv'
  <1> USE RingAssumption DEF RingInv
  <1>1. /\ stage = "down" /\ stage' = "ready" /\ open' = TRUE
        /\ member' = [g \in Generations |->
                         IF Len(member[g]) > MaxSize THEN << >> ELSE member[g]]
        /\ UNCHANGED <<shift, length, last, lost, faults, crashes>>
    BY DEF Restart, Normalized
  <1>2. \A g \in Generations : member'[g] = << >> \/ member'[g] = member[g]
    BY <1>1
  <1>3. member' \in [Generations -> Seq(0..MaxRecords)]
    <2>1. << >> \in Seq(0..MaxRecords)
      OBVIOUS
    <2>2. QED
      BY <1>1, <2>1 DEF TypeOK
  <1>4. UnitsBelow' /\ RecordsInOrder' /\ RecordsAreWhole'
    <2>1. Writing' => Writing
      BY <1>1 DEF Writing
    <2>2. QED
      BY <1>1, <1>2, <1>3, <2>1, Removed
  <1>5. BoundHolds'
    <2>1. ASSUME NEW g \in Generations PROVE WithinBound(member'[g])
      <3>1. CASE Len(member[g]) > MaxSize
        BY <1>1, <3>1, EmptyIsWithinBound
      <3>2. CASE ~(Len(member[g]) > MaxSize)
        BY <1>1, <3>2, MemberTypes DEF WithinBound
      <3>3. QED
        BY <3>1, <3>2
    <2>2. QED
      BY <2>1 DEF BoundHolds
  <1>6. TypeOK' /\ RotationInv'
    <2>1. TypeOK'
      BY <1>1, <1>3 DEF TypeOK, Stages
    <2>2. RotationInv'
      BY <1>1 DEF RotationInv, Writing
    <2>3. QED
      BY <2>1, <2>2
  <1>7. QED
    BY <1>4, <1>5, <1>6

(* A record is handed to the log: every unit in the ring is older.           *)
LEMMA WriteStep ==
    ASSUME RingInv, NEW n \in Lengths, Write(n)
    PROVE  RingInv'
  <1> USE RingAssumption DEF RingInv
  <1>1. /\ stage = "ready" /\ last < MaxRecords /\ last' = last + 1 /\ length' = n
        /\ stage' \in {"ready", "close", "append"}
        /\ lost' \in {lost, lost \cup {last + 1}}
        /\ stage' = "append" => ~(Size > 0 /\ Size + n > MaxSize)
        /\ UNCHANGED <<member, open, shift, faults, crashes>>
    BY DEF Write
  <1>2. TypeOK'
    <2>1. last' \in 1..MaxRecords
      BY <1>1 DEF TypeOK
    <2>2. QED
      BY <1>1, <2>1 DEF TypeOK, Stages
  <1>3. UnitsBelow'
    <2> SUFFICES ASSUME NEW g \in Generations, NEW i \in DOMAIN member[g]
                 PROVE  member[g][i] < last + 1
      BY <1>1, MemberTypes DEF UnitsBelow
    <2>1. member[g][i] <= last /\ member[g][i] \in Int /\ last \in Int
      BY MemberTypes DEF UnitsBelow
    <2>2. QED
      BY <2>1
  <1>4. RecordsInOrder' /\ RecordsAreWhole' /\ BoundHolds'
    <2>1. member' = member /\ stage # "down"
      BY <1>1
    <2>2. RecordsInOrder'
      BY <2>1 DEF RecordsInOrder, ReadBefore
    <2>3. RecordsAreWhole'
      BY <2>1 DEF RecordsAreWhole, In
    <2>4. BoundHolds'
      BY <2>1 DEF BoundHolds
    <2>5. QED
      BY <2>2, <2>3, <2>4
  <1>5. RotationInv'
    <2>1. ASSUME stage' = "append"
          PROVE  Len(member[0]) = 0 \/ Len(member[0]) + n <= MaxSize
      <3>1. Len(member[0]) \in Nat /\ n \in Nat
        BY MemberTypes DEF Generations
      <3>2. QED
        BY <1>1, <2>1, <3>1 DEF Size
    <2>2. last' # 0
      BY <1>1 DEF TypeOK
    <2>3. QED
      BY <1>1, <2>1, <2>2 DEF RotationInv, Writing
  <1>6. QED
    BY <1>2, <1>3, <1>4, <1>5

(* The steps that close and create a file, and the ones that fail.           *)
LEMMA QuietStep ==
    ASSUME RingInv, CloseActive \/ CreateActive \/ RotationFails \/ UNCHANGED vars
    PROVE  RingInv'
  <1> USE RingAssumption DEF RingInv
  <1>1. UNCHANGED <<member, last>> /\ (Writing' => Writing)
    BY DEF CloseActive, CreateActive, RotationFails, vars, Writing
  <1>2. UnitsBelow' /\ RecordsInOrder' /\ RecordsAreWhole'
    BY <1>1, Untouched
  <1>3. TypeOK'
    <2>1. CASE RotationFails
      <3>1. last # 0 /\ last \in 0..MaxRecords
        BY <2>1, LastIsSet DEF RotationFails, Writing, TypeOK
      <3>2. QED
        <4>1. lost' \subseteq 1..MaxRecords /\ faults' \in 0..MaxFaults
          BY <2>1, <3>1 DEF RotationFails, TypeOK
        <4>2. QED
          BY <2>1, <4>1 DEF RotationFails, TypeOK, Stages
    <2>2. CASE CloseActive \/ CreateActive \/ UNCHANGED vars
      BY <2>2 DEF CloseActive, CreateActive, vars, TypeOK, Stages
    <2>3. QED
      BY <2>1, <2>2
  <1>4. BoundHolds'
    BY DEF CloseActive, CreateActive, RotationFails, vars, BoundHolds
  <1>5. RotationInv'
    <2>1. CASE CreateActive
      <3>1. Len(member[0]) = 0
        BY <2>1 DEF CreateActive, RotationInv, Writing
      <3>2. QED
        BY <2>1, <3>1 DEF CreateActive, RotationInv, Writing
    <2>2. CASE CloseActive \/ RotationFails \/ UNCHANGED vars
      BY <2>2 DEF CloseActive, RotationFails, vars, RotationInv, Writing
    <2>3. QED
      BY <2>1, <2>2
  <1>6. QED
    BY <1>2, <1>3, <1>4, <1>5

(* Every reachable state of the ring.                                        *)
LEMMA RingCorrect == Spec => []RingInv
  <1>1. Init => RingInv
    <2> SUFFICES ASSUME Init PROVE RingInv
      OBVIOUS
    <2> USE RingAssumption DEF Init
    <2>1. TypeOK
      <3>1. << >> \in Seq(0..MaxRecords) /\ 0 \in Generations
        BY DEF Generations
      <3>2. QED
        BY <3>1 DEF TypeOK, Stages
    <2>2. \A g \in Generations : DOMAIN member[g] = {} /\ Len(member[g]) = 0
      OBVIOUS
    <2>3. UnitsBelow /\ RecordsInOrder
      BY <2>2 DEF UnitsBelow, RecordsInOrder
    <2>4. RecordsAreWhole /\ BoundHolds
      BY <2>2 DEF RecordsAreWhole, BoundHolds, WithinBound, In
    <2>5. RotationInv
      BY DEF RotationInv, Writing
    <2>6. QED
      BY <2>1, <2>3, <2>4, <2>5 DEF RingInv
  <1>2. RingInv /\ [Next]_vars => RingInv'
    BY WriteStep, AppendStep, RemoveOldestStep, ShiftStep, CrashStep, RestartStep,
       QuietStep DEF Next
  <1>3. QED
    BY <1>1, <1>2, PTL DEF Spec

(* The state of the log ring is of its type.                                 *)
THEOREM TypeCorrect == Spec => []TypeOK
  <1>1. RingInv => TypeOK
    BY DEF RingInv
  <1>2. QED
    BY <1>1, RingCorrect, PTL

(* Whatever operation of a rotation fails, wherever the process ends, the    *)
(* ring read from its oldest archive has its records in the order written.   *)
THEOREM OrderIsKept == Spec => []RecordsInOrder
  <1>1. RingInv => RecordsInOrder
    BY DEF RingInv
  <1>2. QED
    BY <1>1, RingCorrect, PTL

(* No rotation splits a record over two files.                               *)
THEOREM NothingIsSplit == Spec => []RecordsAreWhole
  <1>1. RingInv => RecordsAreWhole
    BY DEF RingInv
  <1>2. QED
    BY <1>1, RingCorrect, PTL

(* While the process runs a file is over its bound only because of a single  *)
(* record that is longer than the bound, of whatever lengths records are.    *)
THEOREM BoundIsKept == Spec => []BoundHolds
  <1>1. RingInv => BoundHolds
    BY DEF RingInv
  <1>2. QED
    BY <1>1, RingCorrect, PTL

-----------------------------------------------------------------------------
(* A record leaves the ring only with a file that is removed.                *)
LEMMA StillThere ==
    ASSUME NEW x \in Retained, NEW to \in Generations, NEW g \in Generations,
           x \in In(g),
           \A i \in DOMAIN member[g] :
               i \in DOMAIN member'[to] /\ member'[to][i] = member[g][i]
    PROVE  x \in Retained'
  BY DEF Retained, In

(* A file that is written to keeps the records it had.                       *)
LEMMA WrittenTo ==
    ASSUME TypeOK, NEW t \in Generations, NEW u \in 0..MaxRecords, NEW n \in Nat,
           member' = [member EXCEPT ![t] = @ \o Units(u, n)]
    PROVE  Retained \subseteq Retained'
  <1> SUFFICES ASSUME NEW x \in Retained PROVE x \in Retained'
    OBVIOUS
  <1>1. PICK g \in Generations : x \in In(g)
    BY DEF Retained
  <1>2. \A i \in DOMAIN member[g] :
            i \in DOMAIN member'[g] /\ member'[g][i] = member[g][i]
    <2>1. CASE g # t
      BY <2>1 DEF TypeOK
    <2>2. CASE g = t
      <3> DEFINE S == 0..MaxRecords
                 old == member[t]
      <3>1. old \in Seq(S) /\ u \in S /\ member'[t] = old \o Units(u, n)
        BY DEF TypeOK
      <3>2. DOMAIN old = 1..Len(old) /\ Len(old) \in Nat
        BY MemberTypes
      <3> HIDE DEF S, old
      <3>3. old \o Units(u, n) =
                [i \in 1..(Len(old) + n) |-> IF i <= Len(old) THEN old[i] ELSE u]
        <4>1. Grows(S, old, u, n)
          BY <3>1, Appended
        <4>2. QED
          BY <4>1 DEF Grows
      <3>4. \A i \in DOMAIN old : i \in DOMAIN member'[t] /\ member'[t][i] = old[i]
        BY <3>1, <3>2, <3>3
      <3>5. QED
        BY <2>2, <3>4 DEF old
    <2>3. QED
      BY <2>1, <2>2
  <1>3. QED
    BY <1>1, <1>2, StillThere

(* A rename onto a place that is free, or of a file that is not there, takes *)
(* no record away.                                                           *)
LEMMA RenamedOnto ==
    ASSUME TypeOK, NEW s \in Generations, s + 1 \in Generations,
           member[s + 1] = << >>, member' = Renamed(s, s + 1)
    PROVE  Retained \subseteq Retained'
  <1> SUFFICES ASSUME NEW x \in Retained PROVE x \in Retained'
    OBVIOUS
  <1>1. PICK g \in Generations : x \in In(g)
    BY DEF Retained
  <1>2. s + 1 # s
    BY MemberTypes
  <1>3. CASE member[s] = << >>
    BY <1>3 DEF Renamed, Retained, In
  <1>4. CASE member[s] # << >>
    <2>1. member' = [member EXCEPT ![s + 1] = member[s], ![s] = << >>]
      BY <1>4 DEF Renamed
    <2>2. CASE g = s
      <3>1. member'[s + 1] = member[s]
        BY <1>2, <2>1 DEF TypeOK
      <3>2. QED
        BY <1>1, <2>2, <3>1, StillThere
    <2>3. CASE g # s
      <3>1. g # s + 1
        BY <1>1 DEF In
      <3>2. member'[g] = member[g]
        BY <2>1, <2>3, <3>1 DEF TypeOK
      <3>3. QED
        BY <1>1, <3>2, StillThere
    <2>4. QED
      BY <2>2, <2>3
  <1>5. QED
    BY <1>3, <1>4

(* What a step takes out of the ring.                                        *)
LEMMA EvictionStep ==
    ASSUME RingInv, [Next]_vars
    PROVE  Retained \ Retained' \subseteq
               In(Archives) \cup UNION {In(g) : g \in Oversize}
  <1> USE RingAssumption DEF RingInv
  <1>1. CASE UNCHANGED member
    BY <1>1 DEF Retained, In
  <1>2. CASE RemoveOldest
    <2> SUFFICES ASSUME NEW x \in Retained, x \notin In(Archives)
                 PROVE  x \in Retained'
      OBVIOUS
    <2>1. PICK g \in Generations : x \in In(g)
      BY DEF Retained
    <2>2. member'[g] = member[g]
      BY <1>2, <2>1 DEF RemoveOldest, TypeOK
    <2>3. QED
      BY <2>1, <2>2, StillThere
  <1>3. CASE ShiftArchive \/ ArchiveActive
    <2> DEFINE s == shift
    <2>1. /\ s \in Generations /\ s + 1 \in Generations
          /\ member[s + 1] = << >> /\ member' = Renamed(s, s + 1)
      BY <1>3 DEF ShiftArchive, ArchiveActive, RotationInv, TypeOK, Generations
    <2> HIDE DEF s
    <2>2. QED
      BY <2>1, RenamedOnto
  <1>4. ASSUME NEW n \in 0..length, AppendRecord(n)
        PROVE  Retained \subseteq Retained'
    <2>1. member' = [member EXCEPT ![0] = @ \o Units(last, n)]
      BY <1>4 DEF AppendRecord
    <2>2. 0 \in Generations /\ last \in 0..MaxRecords /\ n \in Nat
      BY DEF Generations, TypeOK
    <2>3. QED
      BY <2>1, <2>2, WrittenTo
  <1>5. ASSUME NEW n \in Traces, Crash(n)
        PROVE  Retained \subseteq Retained'
    <2> DEFINE t == CrashTarget
               u == Trace
    <2>1. /\ t \in Generations /\ u \in 0..MaxRecords /\ n \in Nat
          /\ member' = [member EXCEPT ![t] = @ \o Units(u, n)]
      BY <1>5 DEF Crash, CrashTarget, Generations, Trace
    <2> HIDE DEF t, u
    <2>2. QED
      BY <2>1, WrittenTo
  <1>6. CASE Restart
    <2> SUFFICES ASSUME NEW x \in Retained, \A g \in Oversize : x \notin In(g)
                 PROVE  x \in Retained'
      OBVIOUS
    <2>1. PICK g \in Generations : x \in In(g)
      BY DEF Retained
    <2>2. member'[g] = member[g]
      BY <1>6, <2>1 DEF Restart, Normalized, Oversize
    <2>3. QED
      BY <2>1, <2>2, StillThere
  <1>7. QED
    <2>1. \/ UNCHANGED member \/ RemoveOldest \/ ShiftArchive \/ ArchiveActive
          \/ \E n \in 0..length : AppendRecord(n)
          \/ \E n \in Traces : Crash(n)
          \/ Restart
      BY DEF Next, Write, CloseActive, CreateActive, RotationFails, vars
    <2>2. QED
      BY <1>1, <1>2, <1>3, <1>4, <1>5, <1>6, <2>1

(* No rotation renames a file over one that still holds records, and no      *)
(* start removes one that is within the bound: what leaves the ring is of    *)
(* the oldest archive, or of a file over the bound.                          *)
THEOREM OnlyTheOldestLeaves == Spec => EvictsOldestOnly
  <1>1. RingInv /\ [Next]_vars =>
            [Retained \ Retained' \subseteq
                 In(Archives) \cup UNION {In(g) : g \in Oversize}]_vars
    BY EvictionStep
  <1>2. QED
    BY <1>1, RingCorrect, PTL DEF Spec, EvictsOldestOnly
=============================================================================
