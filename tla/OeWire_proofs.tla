--------------------------- MODULE OeWire_proofs ---------------------------
(***************************************************************************)
(* Theorems of OeWire: whatever the messages hold, and however many fields *)
(* a newer cloud adds, both sides read what was sent.                      *)
(***************************************************************************)
EXTENDS OeWire, FiniteSetTheorems, WellFoundedInduction, TLAPS

Cells == Seq(Int)

(* The cell at offset o.  The builder only adds cells in front, so what an  *)
(* offset names stays where it is.                                         *)
At(buf, o) == buf[Len(buf) + 1 - o]
Ends(big, buf) ==
  /\ Len(buf) <= Len(big)
  /\ \A o \in 1..Len(buf) : At(big, o) = At(buf, o)

(* The string s at offset o. *)
IsString(buf, o, s) ==
  /\ o \in 1..Len(buf) /\ Len(s) < o
  /\ At(buf, o) = Len(s)
  /\ \A i \in 1..Len(s) : At(buf, o - i) = s[i]

(* The vector at offset o, of objects at the given offsets. *)
IsVector(buf, o, offsets) ==
  /\ o \in 1..Len(buf) /\ Len(offsets) < o
  /\ At(buf, o) = Len(offsets)
  /\ \A i \in 1..Len(offsets) : At(buf, o - i) = o - i - offsets[i]

(* The vtable of a table with these slots, at offset v. *)
IsVtable(buf, v, slots) ==
  /\ v \in 1..Len(buf) /\ Len(Vtable(slots)) <= v
  /\ \A k \in 1..Len(Vtable(slots)) : At(buf, v + 1 - k) = Vtable(slots)[k]

(* What a slot may hold in a buffer of n cells. *)
Slots(n) ==
  {Absent} \cup [is : {"scalar"}, n : Int] \cup [is : {"ref"}, n : 1..n]

(* The slot of a list, from 0; one beyond its end is absent. *)
SlotOf(slots, j) == IF j + 1 <= Len(slots) THEN slots[j + 1] ELSE Absent

(* The field that the vtable at v gives to slot j of the table at offset t. *)
FieldVia(buf, t, j, c, v) ==
  /\ t \in 1..Len(buf) /\ v \in 2..Len(buf)
  /\ At(buf, t) = v - t
  /\ IF j + 3 <= At(buf, v)
     THEN /\ j + 3 <= v
          /\ IF c = Absent THEN At(buf, v - 2 - j) = 0
             ELSE LET d == At(buf, v - 2 - j)
                  IN  /\ d \in 1 .. t - 1
                      /\ At(buf, t - d) = Entry(c, t - d)
                      /\ c \in Slots(t - d - 1)
     ELSE c = Absent

HasField(buf, t, j, c) == \E v \in 2..Len(buf) : FieldVia(buf, t, j, c, v)

-----------------------------------------------------------------------------
(* A list of integers. *)
LEMMA ListOfInts ==
  ASSUME NEW m \in Nat, NEW f \in [1..m -> Int] PROVE f \in Cells /\ Len(f) = m
BY DEF Cells

LEMMA SameCells ==
  ASSUME NEW r \in Cells, NEW s \in Cells, Len(r) = Len(s), \A i \in 1..Len(s) : r[i] = s[i]
  PROVE  r = s
<1>1. r \in [1..Len(s) -> Int] /\ s \in [1..Len(s) -> Int]
  BY DEF Cells
<1> QED BY <1>1

LEMMA JoinedThrice ==
  ASSUME NEW x \in Cells, NEW y \in Cells, NEW z \in Cells
  PROVE  (x \o y) \o z = x \o (y \o z)
BY DEF Cells

(* Cells put in front. *)
LEMMA Prepended ==
  ASSUME NEW x \in Cells, NEW buf \in Cells
  PROVE  /\ x \o buf \in Cells
         /\ Len(x \o buf) = Len(x) + Len(buf)
         /\ Ends(x \o buf, buf)
         /\ \A i \in 1..Len(x) : At(x \o buf, Len(buf) + Len(x) + 1 - i) = x[i]
BY DEF Cells, At, Ends

LEMMA EndsSelf == ASSUME NEW buf \in Cells PROVE Ends(buf, buf)
BY DEF Cells, Ends

LEMMA EndsOfEnds ==
  ASSUME NEW a \in Cells, NEW b \in Cells, NEW c \in Cells, Ends(a, b), Ends(b, c)
  PROVE  Ends(a, c)
BY DEF Cells, Ends

(* What is in a buffer stays there. *)
LEMMA StringStays ==
  ASSUME NEW big \in Cells, NEW buf \in Cells, Ends(big, buf), NEW o, NEW s \in Cells,
         IsString(buf, o, s)
  PROVE  IsString(big, o, s)
<1> USE DEF Cells
<1>1. o \in 1..Len(big) /\ At(big, o) = Len(s)
  BY DEF IsString, Ends
<1>2. \A i \in 1..Len(s) : At(big, o - i) = s[i]
  <2> SUFFICES ASSUME NEW i \in 1..Len(s) PROVE At(big, o - i) = s[i]
    OBVIOUS
  <2>1. o - i \in 1..Len(buf)
    BY DEF IsString
  <2> QED BY <2>1 DEF IsString, Ends
<1> QED BY <1>1, <1>2 DEF IsString

LEMMA VectorStays ==
  ASSUME NEW big \in Cells, NEW buf \in Cells, Ends(big, buf), NEW o, NEW s \in Seq(Nat),
         IsVector(buf, o, s)
  PROVE  IsVector(big, o, s)
<1> USE DEF Cells
<1>1. o \in 1..Len(big) /\ At(big, o) = Len(s)
  BY DEF IsVector, Ends
<1>2. \A i \in 1..Len(s) : At(big, o - i) = o - i - s[i]
  <2> SUFFICES ASSUME NEW i \in 1..Len(s) PROVE At(big, o - i) = o - i - s[i]
    OBVIOUS
  <2>1. o - i \in 1..Len(buf)
    BY DEF IsVector
  <2> QED BY <2>1 DEF IsVector, Ends
<1> QED BY <1>1, <1>2 DEF IsVector

LEMMA FieldStays ==
  ASSUME NEW big \in Cells, NEW buf \in Cells, Ends(big, buf),
         NEW t, NEW j \in Nat, NEW c, HasField(buf, t, j, c)
  PROVE  HasField(big, t, j, c)
<1> USE DEF Cells
<1>1. PICK v \in 2..Len(buf) : FieldVia(buf, t, j, c, v)
  BY DEF HasField
<1>2. t \in 1..Len(big) /\ v \in 2..Len(big) /\ At(big, t) = v - t /\ At(big, v) = At(buf, v)
  BY <1>1 DEF FieldVia, Ends
<1>3. CASE j + 3 <= At(buf, v)
  <2>1. j + 3 <= v /\ v - 2 - j \in 1..Len(buf)
    BY <1>1, <1>3 DEF FieldVia
  <2>2. At(big, v - 2 - j) = At(buf, v - 2 - j)
    BY <2>1 DEF Ends
  <2>3. CASE c = Absent
    BY <1>1, <1>2, <1>3, <2>1, <2>2, <2>3 DEF FieldVia, HasField
  <2>4. CASE c # Absent
    <3> DEFINE d == At(buf, v - 2 - j)
    <3>1. d \in 1 .. t - 1 /\ At(buf, t - d) = Entry(c, t - d) /\ c \in Slots(t - d - 1)
      BY <1>1, <1>3, <2>4 DEF FieldVia
    <3>2. t - d \in 1..Len(buf)
      BY <1>1, <3>1, SMTT(30) DEF FieldVia
    <3>3. At(big, t - d) = At(buf, t - d)
      BY <3>2 DEF Ends
    <3> QED BY <1>2, <1>3, <2>1, <2>2, <2>4, <3>1, <3>3 DEF FieldVia, HasField
  <2> QED BY <2>3, <2>4
<1>4. CASE ~(j + 3 <= At(buf, v))
  BY <1>1, <1>2, <1>4 DEF FieldVia, HasField
<1> QED BY <1>3, <1>4

-----------------------------------------------------------------------------
(* The largest of some numbers up to n. *)
LEMMA LargestExists ==
  ASSUME NEW n \in Nat, NEW S \in SUBSET (1..n), S # {}
  PROVE  \E s \in S : \A u \in S : u <= s
<1> DEFINE R == OpToRel(<, Nat)
           T == {n - s : s \in S}
<1>1. T \subseteq Nat /\ T # {}
  <2>1. \A s \in S : n - s \in Nat
    OBVIOUS
  <2>2. PICK s \in S : TRUE
    OBVIOUS
  <2>3. n - s \in T
    OBVIOUS
  <2> QED BY <2>1, <2>3
<1>2. PICK x \in T : \A y \in T : ~(<<y, x>> \in R)
  BY <1>1, NatLessThanWellFounded, WFMin
<1>3. \A y \in T : ~(y < x)
  BY <1>1, <1>2 DEF OpToRel
<1>4. PICK s \in S : x = n - s
  OBVIOUS
<1>5. ASSUME NEW u \in S PROVE u <= s
  <2>1. n - u \in T
    OBVIOUS
  <2>2. ~(n - u < n - s)
    BY <1>3, <1>4, <2>1
  <2>3. u \in Int /\ s \in Int
    OBVIOUS
  <2> QED BY <2>2, <2>3
<1> QED BY <1>5

-----------------------------------------------------------------------------
(* A part of a finite set has fewer elements. *)
LEMMA PartIsSmaller ==
  ASSUME NEW S, IsFiniteSet(S), NEW T, T \subseteq S
  PROVE  /\ IsFiniteSet(T) /\ Cardinality(T) \in Nat /\ Cardinality(S) \in Nat
         /\ Cardinality(T) <= Cardinality(S)
         /\ T # S => Cardinality(T) < Cardinality(S)
<1>1. T \in SUBSET S
  OBVIOUS
<1>2. IsFiniteSet(T) /\ Cardinality(T) <= Cardinality(S) /\ (Cardinality(S) = Cardinality(T) => S = T)
  BY <1>1, FS_Subset
<1>3. Cardinality(T) \in Nat /\ Cardinality(S) \in Nat
  BY <1>2, FS_CardinalityType
<1> QED BY <1>2, <1>3

(* The fields of a table are at different distances from its start. *)
LEMMA Distances ==
  ASSUME NEW S, NEW slots \in Seq(S)
  PROVE  /\ Used(slots) \subseteq 1..Len(slots)
         /\ Cardinality(Used(slots)) \in Nat
         /\ \A s : Distance(slots, s) \in Nat
         /\ \A s \in Used(slots) : Distance(slots, s) \in 1..Cardinality(Used(slots))
         /\ \A s, u \in Used(slots) : s < u => Distance(slots, u) < Distance(slots, s)
<1> DEFINE After(s) == {u \in Used(slots) : u > s}
<1>1. Used(slots) \subseteq 1..Len(slots) /\ Len(slots) \in Nat
  BY DEF Used
<1>2. IsFiniteSet(Used(slots)) /\ Cardinality(Used(slots)) \in Nat
  <2>1. IsFiniteSet(1..Len(slots))
    BY <1>1, FS_Interval
  <2> QED BY <1>1, <2>1, PartIsSmaller
<1>4. \A s : IsFiniteSet(After(s)) /\ Cardinality(After(s)) \in Nat
  <2>1. \A s : After(s) \subseteq Used(slots)
    OBVIOUS
  <2> QED BY <1>2, <2>1, PartIsSmaller
<1>5. ASSUME NEW s \in Used(slots)
      PROVE  Cardinality(After(s)) < Cardinality(Used(slots))
  <2>1. After(s) \subseteq Used(slots) /\ After(s) # Used(slots)
    BY <1>1
  <2> HIDE DEF After
  <2> QED BY <1>2, <2>1, PartIsSmaller
<1>6. ASSUME NEW s \in Used(slots), NEW u \in Used(slots), s < u
      PROVE  Cardinality(After(u)) < Cardinality(After(s))
  <2>1. After(u) \subseteq After(s) /\ After(u) # After(s)
    BY <1>1, <1>6
  <2> HIDE DEF After
  <2> QED BY <1>4, <2>1, PartIsSmaller
<1>7. \A s : Distance(slots, s) = 1 + Cardinality(After(s))
  BY DEF Distance
<1> HIDE DEF After
<1> QED BY <1>1, <1>2, <1>4, <1>5, <1>6, <1>7

(* There is no gap between them. *)
LEMMA DistancesFill ==
  ASSUME NEW S, NEW slots \in Seq(S), NEW d \in 1..Cardinality(Used(slots))
  PROVE  \E s \in Used(slots) : Distance(slots, s) = d
<1> DEFINE m == Cardinality(Used(slots))
           f == [s \in Used(slots) |-> Distance(slots, s)]
<1>1. /\ m \in Nat /\ Used(slots) \subseteq Nat
      /\ \A s \in Used(slots) : Distance(slots, s) \in 1..m
      /\ \A s, u \in Used(slots) : s < u => Distance(slots, u) < Distance(slots, s)
  BY Distances
<1>2. f \in [Used(slots) -> 1..m]
  BY <1>1
<1>3. ASSUME NEW s \in Used(slots), NEW u \in Used(slots), f[s] = f[u] PROVE s = u
  <2>1. /\ s \in Nat /\ u \in Nat /\ Distance(slots, s) \in Nat /\ Distance(slots, u) \in Nat
        /\ Distance(slots, s) = Distance(slots, u)
    BY <1>1, <1>3
  <2>2. /\ s < u => Distance(slots, u) < Distance(slots, s)
        /\ u < s => Distance(slots, s) < Distance(slots, u)
    BY <1>1
  <2> QED BY <2>1, <2>2
<1>4. f \in Injection(Used(slots), 1..m)
  BY <1>2, <1>3 DEF Injection, IsInjective
<1>5. IsFiniteSet(1..m) /\ Cardinality(1..m) = m
  BY <1>1, FS_Interval
<1>6. f \in Surjection(Used(slots), 1..m)
  BY <1>4, <1>5, FS_Injection
<1> QED BY <1>6 DEF Surjection

(* What a vtable says of a slot. *)
LEMMA VtableFacts ==
  ASSUME NEW S, NEW slots \in Seq(S)
  PROVE  /\ Vtable(slots) \in Cells
         /\ Len(Vtable(slots)) >= 2
         /\ Vtable(slots)[1] = Len(Vtable(slots))
         /\ \A j \in Nat : j + 3 <= Len(Vtable(slots)) =>
              Vtable(slots)[j + 3] = IF j + 1 \in Used(slots) THEN Distance(slots, j + 1) ELSE 0
         /\ \A j \in Nat : j + 1 \in Used(slots) => j + 3 <= Len(Vtable(slots))
<1> DEFINE used == Used(slots)
           n == IF used = {} THEN 0 ELSE CHOOSE s \in used : \A u \in used : u <= s
           tail == [s \in 1..n |-> IF s \in used THEN Distance(slots, s) ELSE 0]
<1>1. n \in Nat /\ \A u \in used : u <= n
  <2>1. CASE used = {}
    BY <2>1
  <2>2. CASE used # {}
    <3>0. Len(slots) \in Nat /\ used \in SUBSET (1..Len(slots))
      BY Distances
    <3> HIDE DEF used
    <3>1. \E s \in used : \A u \in used : u <= s
      BY <2>2, <3>0, LargestExists
    <3>2. n \in used /\ \A u \in used : u <= n
      BY <2>2, <3>1
    <3> HIDE DEF n
    <3> QED BY <3>0, <3>2
  <2> QED BY <2>1, <2>2
<1>2. Vtable(slots) = <<n + 2, Cardinality(used) + 1>> \o tail
  BY DEF Vtable
<1> HIDE DEF n
<1>3. tail \in Seq(Int) /\ Len(tail) = n
  BY <1>1, Distances
<1>4. \A s \in 1..n : tail[s] = IF s \in used THEN Distance(slots, s) ELSE 0
  OBVIOUS
<1>5. \A s \in used : s \in Nat
  BY Distances
<1> HIDE DEF tail, used
<1>6. <<n + 2, Cardinality(used) + 1>> \in Seq(Int)
  BY <1>1, Distances DEF used
<1>7. /\ Vtable(slots) \in Seq(Int) /\ Len(Vtable(slots)) = n + 2 /\ Vtable(slots)[1] = n + 2
      /\ \A i \in 1..n : Vtable(slots)[i + 2] = tail[i]
  BY <1>1, <1>2, <1>3, <1>6, SMTT(30)
<1>8. ASSUME NEW j \in Nat, j + 3 <= n + 2
      PROVE  Vtable(slots)[j + 3] = IF j + 1 \in used THEN Distance(slots, j + 1) ELSE 0
  <2>1. j + 1 \in 1..n /\ (j + 1) + 2 = j + 3
    BY <1>1, <1>8
  <2> QED BY <1>4, <1>7, <2>1
<1>9. ASSUME NEW j \in Nat, j + 1 \in used PROVE j + 3 <= n + 2
  BY <1>1, <1>9
<1> QED BY <1>1, <1>7, <1>8, <1>9 DEF used, Cells
(* A vtable stays where it is too. *)
LEMMA VtableStays ==
  ASSUME NEW big \in Cells, NEW buf \in Cells, Ends(big, buf), NEW v,
         NEW S, NEW slots \in Seq(S), IsVtable(buf, v, slots)
  PROVE  IsVtable(big, v, slots)
<1>1. v \in 1..Len(buf) /\ Len(Vtable(slots)) <= v /\ Len(buf) \in Nat /\ Len(big) \in Nat
  BY DEF IsVtable, Cells
<1>2. Len(Vtable(slots)) \in Nat
  BY VtableFacts DEF Cells
<1>3. \A k \in 1..Len(Vtable(slots)) : v + 1 - k \in 1..Len(buf)
  BY <1>1, <1>2
<1> QED BY <1>1, <1>2, <1>3 DEF IsVtable, Ends

(* The fields of a table, by their distance from its start. *)
LEMMA FieldsFacts ==
  ASSUME NEW buf \in Cells, NEW slots \in Seq(Slots(Len(buf))),
         NEW T, T = Len(buf) + Cardinality(Used(slots)) + 1
  PROVE  /\ Fields(buf, slots) \in Cells /\ Len(Fields(buf, slots)) = T - 1
         /\ Ends(Fields(buf, slots), buf)
         /\ \A s \in Used(slots) :
              At(Fields(buf, slots), T - Distance(slots, s)) = Entry(slots[s], T - Distance(slots, s))
<1> DEFINE m == Cardinality(Used(slots))
           Field(d) == CHOOSE s \in Used(slots) : Distance(slots, s) = d
           cells == [d \in 1..m |-> Entry(slots[Field(d)], Len(buf) + m + 1 - d)]
<1>1. m \in Nat /\ Len(buf) \in Nat /\ Used(slots) \subseteq 1..Len(slots)
      /\ T = Len(buf) + m + 1
  BY Distances DEF Cells
<1>2. \A s \in Used(slots) : Distance(slots, s) \in 1..m
  BY Distances
<1>3. \A s \in Used(slots) : Field(Distance(slots, s)) = s
  <2> SUFFICES ASSUME NEW s \in Used(slots) PROVE Field(Distance(slots, s)) = s
    OBVIOUS
  <2>1. Field(Distance(slots, s)) \in Used(slots)
        /\ Distance(slots, Field(Distance(slots, s))) = Distance(slots, s)
    OBVIOUS
  <2> HIDE DEF Field
  <2>2. /\ \A u, w \in Used(slots) : u < w => Distance(slots, w) < Distance(slots, u)
        /\ \A u \in Used(slots) : u \in Int /\ Distance(slots, u) \in Int
    BY <1>1, <1>2, Distances
  <2> QED BY <2>1, <2>2
<1>4. \A d \in 1..m : Field(d) \in Used(slots)
  BY DistancesFill
<1>5. ASSUME NEW s \in Used(slots), NEW o \in Int PROVE Entry(slots[s], o) \in Int
  <2>1. slots[s] \in Slots(Len(buf)) /\ slots[s] # Absent
    BY <1>1 DEF Used
  <2> QED BY <2>1, <1>1 DEF Slots, Entry
<1>0. Fields(buf, slots) = cells \o buf
  BY DEF Fields
<1> HIDE DEF Field
<1>6. cells = [d \in 1..m |-> Entry(slots[Field(d)], Len(buf) + m + 1 - d)]
  OBVIOUS
<1> HIDE DEF cells, m
<1>7. cells \in Cells /\ Len(cells) = m
  <2>1. \A d \in 1..m : Entry(slots[Field(d)], Len(buf) + m + 1 - d) \in Int
    BY <1>1, <1>4, <1>5
  <2>2. cells \in [1..m -> Int]
    BY <1>6, <2>1
  <2> QED BY <1>1, <2>2, ListOfInts
<1>8. ASSUME NEW s \in Used(slots)
      PROVE  At(cells \o buf, T - Distance(slots, s)) = Entry(slots[s], T - Distance(slots, s))
  <2>1. PICK d \in 1..m : d = Distance(slots, s)
    BY <1>2
  <2>2. cells[d] = Entry(slots[s], T - d)
    BY <1>1, <1>3, <1>6, <2>1
  <2>3. T - d = Len(buf) + Len(cells) + 1 - d
    BY <1>1, <1>7
  <2>4. At(cells \o buf, Len(buf) + Len(cells) + 1 - d) = cells[d]
    <3>1. d \in 1..Len(cells)
      BY <1>7
    <3>2. \A i \in 1..Len(cells) : At(cells \o buf, Len(buf) + Len(cells) + 1 - i) = cells[i]
      BY <1>7, Prepended
    <3> QED BY <3>1, <3>2
  <2> QED BY <2>1, <2>2, <2>3, <2>4
<1>9. cells \o buf \in Cells /\ Len(cells \o buf) = T - 1 /\ Ends(cells \o buf, buf)
  <2>1. cells \o buf \in Cells /\ Len(cells \o buf) = Len(cells) + Len(buf) /\ Ends(cells \o buf, buf)
    BY <1>7, Prepended
  <2>2. \A x \in Nat : \A y \in Nat : x + y = y + x + 1 - 1
    OBVIOUS
  <2> QED BY <1>1, <1>7, <2>1, <2>2
<1> QED BY <1>0, <1>8, <1>9

(* A table is where the builder says, each of its slots holds what it was   *)
(* given, and what was in the buffer stays there.                           *)
LEMMA TableHolds ==
  ASSUME NEW buf \in Cells, NEW slots \in Seq(Slots(Len(buf))), NEW there \in Nat,
         there # 0 => IsVtable(buf, there, slots), NEW t, t = Table(buf, slots, there)
  PROVE  /\ t.buf \in Cells /\ Ends(t.buf, buf)
         /\ t.ref \in Len(buf) + 1 .. Len(t.buf)
         /\ \A j \in Nat : HasField(t.buf, t.ref, j, SlotOf(slots, j))
         /\ there = 0 => IsVtable(t.buf, Len(t.buf), slots)
<1> DEFINE m == Cardinality(Used(slots))
           T == Len(buf) + m + 1
           fields == Fields(buf, slots)
           vt == IF there = 0 THEN Vtable(slots) ELSE <<>>
           far == IF there = 0 THEN Len(Vtable(slots)) ELSE there - T
           v == IF there = 0 THEN T + Len(Vtable(slots)) ELSE there
           big == vt \o (<<far>> \o fields)
<1>1. m \in Nat /\ Len(buf) \in Nat /\ T \in Nat /\ T > Len(buf)
  BY Distances DEF Cells
<1>2. /\ fields \in Cells /\ Len(fields) = T - 1 /\ Ends(fields, buf)
      /\ \A s \in Used(slots) :
           At(fields, T - Distance(slots, s)) = Entry(slots[s], T - Distance(slots, s))
  BY FieldsFacts
<1>3. Vtable(slots) \in Cells /\ Len(Vtable(slots)) \in Nat /\ Len(Vtable(slots)) >= 2
  BY VtableFacts DEF Cells
<1>4. vt \in Cells /\ <<far>> \in Cells /\ Len(<<far>>) = 1 /\ far = v - T
  BY <1>1, <1>3 DEF Cells
<1>5. t.ref = T /\ t.buf = big
  <2>1. t = [ref |-> T,
             buf |-> IF there # 0 THEN <<there - T>> \o fields
                     ELSE Vtable(slots) \o <<Len(Vtable(slots))>> \o fields]
    <3>1. Len(fields) + 1 = T
      BY <1>1, <1>2
    <3>2. t = [ref |-> Len(fields) + 1,
               buf |-> IF there # 0 THEN <<there - (Len(fields) + 1)>> \o fields
                       ELSE Vtable(slots) \o <<Len(Vtable(slots))>> \o fields]
      BY DEF Table
    <3> HIDE DEF T, fields
    <3> QED BY <3>1, <3>2
  <2> HIDE DEF fields, T
  <2>2. \A x, y, z \in Seq(Int) : (x \o y) \o z = x \o (y \o z)
    BY JoinedThrice DEF Cells
  <2>3. \A x \in Seq(Int) : <<>> \o x = x
    OBVIOUS
  <2>4. <<far>> \o fields \in Seq(Int)
    BY <1>2, <1>4, Prepended DEF Cells
  <2>5. CASE there = 0
    <3>1. t.buf = Vtable(slots) \o <<Len(Vtable(slots))>> \o fields
      BY <2>1, <2>5
    <3>2. <<Len(Vtable(slots))>> \in Seq(Int) /\ Vtable(slots) \in Seq(Int) /\ fields \in Seq(Int)
      BY <1>2, <1>3 DEF Cells
    <3>3. t.buf = Vtable(slots) \o (<<Len(Vtable(slots))>> \o fields)
      BY <2>2, <3>1, <3>2
    <3> QED BY <2>1, <2>5, <3>3
  <2>6. CASE there # 0
    <3>1. t.buf = <<there - T>> \o fields
      BY <2>1, <2>6
    <3>2. vt = <<>> /\ far = there - T
      BY <2>6
    <3> HIDE DEF vt, far
    <3>3. big = <<far>> \o fields
      BY <2>3, <2>4, <3>2
    <3> QED BY <2>1, <3>1, <3>2, <3>3, SMTT(30)
  <2> QED BY <2>5, <2>6
<1> HIDE DEF m, vt, far, v
<1> HIDE DEF fields
<1>6. /\ <<far>> \o fields \in Cells /\ Len(<<far>> \o fields) = T
      /\ Ends(<<far>> \o fields, fields) /\ At(<<far>> \o fields, T) = far
  <2>1. /\ <<far>> \o fields \in Cells /\ Len(<<far>> \o fields) = 1 + Len(fields)
        /\ Ends(<<far>> \o fields, fields)
        /\ \A i \in 1..1 : At(<<far>> \o fields, Len(fields) + 1 + 1 - i) = <<far>>[i]
    BY <1>2, <1>4, Prepended, ZenonT(30)
  <2>2. At(<<far>> \o fields, Len(fields) + 1 + 1 - 1) = far
    BY <2>1
  <2>3. Len(fields) + 1 + 1 - 1 = T /\ 1 + Len(fields) = T
    BY <1>1, <1>2
  <2> QED BY <2>1, <2>2, <2>3
<1>7. /\ big \in Cells /\ Len(big) = Len(vt) + T /\ Ends(big, <<far>> \o fields)
      /\ \A k \in 1..Len(vt) : At(big, T + Len(vt) + 1 - k) = vt[k]
  <2> DEFINE y == <<far>> \o fields
  <2>1. y \in Cells /\ Len(y) = T
    BY <1>6
  <2> HIDE DEF y, T
  <2>2. /\ vt \o y \in Cells /\ Len(vt \o y) = Len(vt) + Len(y) /\ Ends(vt \o y, y)
        /\ \A k \in 1..Len(vt) : At(vt \o y, Len(y) + Len(vt) + 1 - k) = vt[k]
    BY <1>4, <2>1, Prepended
  <2> QED BY <2>1, <2>2 DEF y
<1>8. Ends(big, fields) /\ Ends(big, buf) /\ At(big, T) = v - T
  <2>1. At(big, T) = far
    BY <1>1, <1>6, <1>7 DEF Ends
  <2> QED BY <1>2, <1>4, <1>6, <1>7, <2>1, EndsOfEnds
<1>9. IsVtable(big, v, slots) /\ (there = 0 => v = Len(big))
  <2>1. CASE there = 0
    <3>1. vt = Vtable(slots) /\ v = T + Len(Vtable(slots))
      BY <2>1 DEF vt, v
    <3> QED BY <1>1, <1>3, <1>7, <2>1, <3>1 DEF IsVtable
  <2>2. CASE there # 0
    BY <1>7, <1>8, <2>2, VtableStays DEF v
  <2> QED BY <2>1, <2>2
<1> HIDE DEF big
<1>10. /\ v \in 2..Len(big) /\ T \in 1..Len(big)
       /\ At(big, v) = Len(Vtable(slots)) /\ Len(Vtable(slots)) <= v
  <2>1. At(big, v + 1 - 1) = Vtable(slots)[1] /\ v \in 1..Len(big) /\ Len(Vtable(slots)) <= v
    BY <1>3, <1>9 DEF IsVtable
  <2>2. Vtable(slots)[1] = Len(Vtable(slots)) /\ v + 1 - 1 = v /\ Len(big) \in Nat
    BY <1>7, <2>1, VtableFacts DEF Cells
  <2>3. Len(vt) \in Nat
    BY <1>4 DEF Cells
  <2> QED BY <1>1, <1>3, <1>7, <2>1, <2>2, <2>3
<1>11. ASSUME NEW j \in Nat PROVE FieldVia(big, T, j, SlotOf(slots, j), v)
  <2> DEFINE c == SlotOf(slots, j)
  <2>1. (c # Absent) <=> (j + 1 \in Used(slots))
    BY DEF SlotOf, Used
  <2>2. CASE j + 3 <= At(big, v)
    <3>1. At(big, v - 2 - j) = IF j + 1 \in Used(slots) THEN Distance(slots, j + 1) ELSE 0
      <4>1. At(big, v + 1 - (j + 3)) = Vtable(slots)[j + 3]
        BY <1>3, <1>9, <1>10, <2>2 DEF IsVtable
      <4>2. v + 1 - (j + 3) = v - 2 - j
        BY <1>10
      <4>3. Vtable(slots)[j + 3] = IF j + 1 \in Used(slots) THEN Distance(slots, j + 1) ELSE 0
        BY <1>10, <2>2, VtableFacts
      <4> QED BY <4>1, <4>2, <4>3
    <3>2. CASE c = Absent
      BY <1>8, <1>10, <2>1, <2>2, <3>1, <3>2 DEF FieldVia
    <3>3. CASE c # Absent
      <4>1. PICK d \in 1..m : d = Distance(slots, j + 1)
        BY <2>1, <3>3, Distances DEF m
      <4>2. At(fields, T - d) = Entry(c, T - d)
        BY <1>2, <2>1, <3>3, <4>1 DEF SlotOf, Used
      <4>3. At(big, T - d) = Entry(c, T - d)
        BY <1>1, <1>2, <1>8, <4>1, <4>2 DEF Ends
      <4>4. c \in Slots(T - d - 1)
        <5>1. c \in Slots(Len(buf)) /\ Len(buf) <= T - d - 1 /\ T - d - 1 \in Nat
          BY <1>1, <2>1, <3>3, <4>1 DEF SlotOf, Used
        <5> QED BY <1>1, <5>1 DEF Slots
      <4>5. d \in 1 .. T - 1
        BY <1>1, <4>1
      <4>6. At(big, v - 2 - j) = d
        BY <2>1, <3>1, <3>3, <4>1
      <4>7. T \in 1..Len(big) /\ v \in 2..Len(big) /\ At(big, T) = v - T /\ j + 3 <= v
        BY <1>8, <1>10, <2>2
      <4> HIDE DEF T, c
      <4>8. FieldVia(big, T, j, c, v)
        BY <2>2, <3>3, <4>3, <4>4, <4>5, <4>6, <4>7 DEF FieldVia
      <4> QED BY <4>8 DEF c
    <3> QED BY <3>2, <3>3
  <2>3. CASE ~(j + 3 <= At(big, v))
    <3>1. c = Absent
      BY <1>10, <2>1, <2>3, VtableFacts
    <3> QED BY <1>8, <1>10, <2>3, <3>1 DEF FieldVia
  <2> QED BY <2>2, <2>3
<1>12. \A j \in Nat : HasField(big, T, j, SlotOf(slots, j))
  BY <1>10, <1>11 DEF HasField
<1> QED BY <1>1, <1>5, <1>7, <1>8, <1>9, <1>10, <1>12
-----------------------------------------------------------------------------
(* The readers, on what is in a buffer. *)
LEMMA CellAt ==
  ASSUME NEW buf \in Cells, NEW o \in 1..Len(buf)
  PROVE  Cell(buf, Len(buf) - o) = {At(buf, o)} /\ At(buf, o) \in Int
<1>1. Len(buf) - o \in 0 .. Len(buf) - 1 /\ Len(buf) - o + 1 = Len(buf) + 1 - o
  BY DEF Cells
<1>2. At(buf, o) \in Int
  BY DEF Cells, At
<1> QED BY <1>1, <1>2 DEF Cell, At

FoundAt(buf, t, j, c, o) ==
  /\ VtableOffset(buf, Len(buf) - t, j) = {Len(buf) - o}
  /\ At(buf, o) = Entry(c, o) /\ c \in Slots(o - 1)

LEMMA FieldRead ==
  ASSUME NEW buf \in Cells, NEW t, NEW j \in Nat, NEW c, HasField(buf, t, j, c)
  PROVE  /\ c = Absent => VtableOffset(buf, Len(buf) - t, j) = {0}
         /\ c # Absent => \E o \in 1 .. Len(buf) - 1 : FoundAt(buf, t, j, c, o)
<1> DEFINE p == Len(buf) - t
<1>1. PICK v \in 2..Len(buf) : FieldVia(buf, t, j, c, v)
  BY DEF HasField
<1>2. t \in 1..Len(buf) /\ At(buf, t) = v - t /\ Len(buf) \in Nat
  BY <1>1 DEF FieldVia, Cells
<1> DEFINE w == Len(buf) - v
<1>3. Cell(buf, p) = {v - t} /\ {p - d : d \in Cell(buf, p)} = {w}
  <2>1. Cell(buf, p) = {v - t}
    BY <1>2, CellAt
  <2>2. p - (v - t) = w
    BY <1>2
  <2> QED BY <2>1, <2>2
<1>4. Cell(buf, w) = {At(buf, v)} /\ At(buf, v) \in Int
  BY CellAt
<1>5. Cell(buf, w + 1) = {At(buf, v - 1)}
  <2>1. v - 1 \in 1..Len(buf) /\ Len(buf) - (v - 1) = w + 1
    BY <1>2
  <2> QED BY <2>1, CellAt
<1> HIDE DEF p, w
<1>6. VtableOffset(buf, p, j) =
        IF 2 + j + 1 > At(buf, v) THEN {0}
        ELSE {IF f = 0 THEN 0 ELSE p + f : f \in Cell(buf, w + 2 + j)}
  <2> DEFINE Of(u, size) == IF 2 + j + 1 > size THEN {0}
                            ELSE {IF f = 0 THEN 0 ELSE p + f : f \in Cell(buf, u + 2 + j)}
             Sized(u) == UNION {Of(u, size) : size \in Cell(buf, u)}
             Known(u) == UNION {Sized(u) : data \in Cell(buf, u + 1)}
  <2>1. VtableOffset(buf, p, j) = UNION {Known(u) : u \in {p - d : d \in Cell(buf, p)}}
    BY DEF VtableOffset
  <2> HIDE DEF Of
  <2>2. Sized(w) = Of(w, At(buf, v))
    BY <1>4
  <2> HIDE DEF Sized
  <2>3. Known(w) = Sized(w)
    BY <1>5
  <2> HIDE DEF Known
  <2>4. UNION {Known(u) : u \in {w}} = Known(w)
    OBVIOUS
  <2> QED BY <1>3, <2>1, <2>2, <2>3, <2>4 DEF Of
<1>7. CASE j + 3 <= At(buf, v)
  <2>1. j + 3 <= v /\ v - 2 - j \in 1..Len(buf)
    BY <1>1, <1>7 DEF FieldVia
  <2>2. Cell(buf, w + 2 + j) = {At(buf, v - 2 - j)} /\ At(buf, v - 2 - j) \in Int
    <3>1. Len(buf) - (v - 2 - j) = w + 2 + j
      BY <1>2 DEF w
    <3> QED BY <2>1, <3>1, CellAt
  <2>3. VtableOffset(buf, p, j) = {IF At(buf, v - 2 - j) = 0 THEN 0 ELSE p + At(buf, v - 2 - j)}
    <3>1. ~(2 + j + 1 > At(buf, v))
      BY <1>4, <1>7
    <3> QED BY <1>6, <2>2, <3>1
  <2>4. CASE c = Absent
    <3>1. At(buf, v - 2 - j) = 0
      BY <1>1, <1>7, <2>4 DEF FieldVia
    <3> QED BY <2>3, <2>4, <3>1 DEF p
  <2>5. CASE c # Absent
    <3> DEFINE d == At(buf, v - 2 - j)
    <3>1. d \in 1 .. t - 1 /\ At(buf, t - d) = Entry(c, t - d) /\ c \in Slots(t - d - 1)
      BY <1>1, <1>7, <2>5 DEF FieldVia
    <3> HIDE DEF d
    <3>2. t - d \in 1 .. Len(buf) - 1 /\ p + d = Len(buf) - (t - d) /\ d # 0
      BY <1>2, <3>1 DEF p
    <3>3. VtableOffset(buf, p, j) = {Len(buf) - (t - d)}
      BY <2>3, <3>2 DEF d
    <3> QED BY <2>5, <3>1, <3>2, <3>3 DEF p, FoundAt
  <2> QED BY <2>4, <2>5
<1>8. CASE ~(j + 3 <= At(buf, v))
  <2>1. c = Absent
    BY <1>1, <1>8 DEF FieldVia
  <2>2. 2 + j + 1 > At(buf, v)
    BY <1>4, <1>8
  <2> QED BY <1>6, <2>1, <2>2 DEF p
<1> QED BY <1>7, <1>8

(* A scalar comes back, its default too. *)
LEMMA NumberRead ==
  ASSUME NEW buf \in Cells, NEW t, NEW j \in Nat, NEW n \in Int, NEW default \in Int,
         HasField(buf, t, j, Slot(n, default))
  PROVE  ReadOr(buf, Len(buf) - t, j, default) = {n}
<1> DEFINE c == Slot(n, default)
<1>1. CASE n = default
  <2>1. c = Absent
    BY <1>1 DEF Slot
  <2>2. VtableOffset(buf, Len(buf) - t, j) = {0}
    BY <2>1, FieldRead
  <2> QED BY <1>1, <2>2 DEF ReadOr
<1>2. CASE n # default
  <2>1. c = [is |-> "scalar", n |-> n] /\ c # Absent
    BY <1>2 DEF Slot, Absent
  <2>2. PICK o \in 1 .. Len(buf) - 1 : FoundAt(buf, t, j, c, o)
    BY <2>1, FieldRead
  <2>3. Cell(buf, Len(buf) - o) = {n}
    <3>1. Entry(c, o) = n
      BY <2>1 DEF Entry
    <3>2. o \in 1..Len(buf)
      BY DEF Cells
    <3> QED BY <2>2, <3>1, <3>2, CellAt DEF FoundAt
  <2>4. Len(buf) - o # 0
    BY DEF Cells
  <2> QED BY <2>2, <2>3, <2>4 DEF ReadOr, FoundAt
<1> QED BY <1>1, <1>2

LEMMA BitRead ==
  ASSUME NEW buf \in Cells, NEW t, NEW j \in Nat, NEW b \in BOOLEAN,
         HasField(buf, t, j, Bit(b))
  PROVE  ReadBool(buf, Len(buf) - t, j) = {b}
<1>1. ReadNumber(buf, Len(buf) - t, j) = {IF b THEN 1 ELSE 0}
  BY NumberRead DEF Bit, ReadNumber
<1>2. ReadBool(buf, Len(buf) - t, j) = {(IF b THEN 1 ELSE 0) # 0}
  BY <1>1 DEF ReadBool
<1>3. ((IF b THEN 1 ELSE 0) # 0) = b
  <2>1. (1 # 0) = TRUE /\ (0 # 0) = FALSE
    OBVIOUS
  <2>2. b = TRUE => (IF b THEN 1 ELSE 0) = 1
    OBVIOUS
  <2>3. b = FALSE => (IF b THEN 1 ELSE 0) = 0
    OBVIOUS
  <2>4. CASE b = TRUE
    BY <2>1, <2>2, <2>4, Zenon
  <2>5. CASE b = FALSE
    BY <2>1, <2>3, <2>5, Zenon
  <2> QED BY <2>4, <2>5
<1> QED BY <1>2, <1>3

(* A reference leads to the object it was made for, and one to nothing is 0. *)
LEMMA OffsetRead ==
  ASSUME NEW buf \in Cells, NEW t, NEW j \in Nat, NEW o \in Nat, HasField(buf, t, j, Ref(o))
  PROVE  /\ o = 0 => ReadOffset(buf, Len(buf) - t, j) = {0}
         /\ o # 0 => ReadOffset(buf, Len(buf) - t, j) = {Len(buf) - o} /\ o < Len(buf)
<1> DEFINE c == Ref(o)
<1>1. CASE o = 0
  <2>1. c = Absent
    BY <1>1 DEF Ref
  <2>2. VtableOffset(buf, Len(buf) - t, j) = {0}
    BY <2>1, FieldRead
  <2> QED BY <1>1, <2>2 DEF ReadOffset
<1>2. CASE o # 0
  <2>1. c = [is |-> "ref", n |-> o] /\ c # Absent
    BY <1>2 DEF Ref, Absent
  <2>2. PICK at \in 1 .. Len(buf) - 1 : FoundAt(buf, t, j, c, at)
    BY <2>1, FieldRead
  <2>3. Cell(buf, Len(buf) - at) = {at - o}
    <3>1. Entry(c, at) = at - o
      BY <2>1 DEF Entry
    <3>2. at \in 1..Len(buf)
      BY DEF Cells
    <3> QED BY <2>2, <3>1, <3>2, CellAt DEF FoundAt
  <2>4. Len(buf) - at # 0 /\ Len(buf) - at + (at - o) = Len(buf) - o /\ Len(buf) \in Nat
    BY DEF Cells
  <2>5. o \in 1 .. at - 1
    BY <2>1, <2>2 DEF Slots, Absent, FoundAt
  <2>6. Target(buf, Len(buf) - at) = {Len(buf) - o}
    BY <2>3, <2>4 DEF Target
  <2>7. VtableOffset(buf, Len(buf) - t, j) = {Len(buf) - at}
    BY <2>2 DEF FoundAt
  <2>8. ReadOffset(buf, Len(buf) - t, j) = {Len(buf) - o}
    BY <2>4, <2>6, <2>7 DEF ReadOffset
  <2>9. o < Len(buf)
    <3>1. Len(buf) \in Nat
      BY DEF Cells
    <3>2. \A x, y, z \in Nat : y \in 1 .. x - 1 /\ z \in 1 .. y - 1 => z < x
      OBVIOUS
    <3>3. at \in Nat
      BY <3>1
    <3> QED BY <2>5, <3>1, <3>2, <3>3
  <2> QED BY <1>2, <2>8, <2>9
<1> QED BY <1>1, <1>2

LEMMA StringRead ==
  ASSUME NEW buf \in Cells, NEW o, NEW s \in Cells, IsString(buf, o, s)
  PROVE  StringAt(buf, Len(buf) - o) = {s}
<1>1. o \in 1..Len(buf) /\ Len(s) < o /\ At(buf, o) = Len(s) /\ Len(buf) \in Nat /\ Len(s) \in Nat
  BY DEF IsString, Cells
<1>2. Cell(buf, Len(buf) - o) = {Len(s)}
  BY <1>1, CellAt
<1> DEFINE p == Len(buf) - o + 1
           r == Slice(buf, p, Len(s))
<1>3. p + Len(s) <= Len(buf) /\ p \in Nat
  BY <1>1
<1>4. r = SubSeq(buf, p + 1, p + Len(s))
  BY <1>3 DEF Slice
<1>5. r \in Cells /\ Len(r) = Len(s) /\ \A i \in 1..Len(s) : r[i] = buf[p + i]
  <2> HIDE DEF p
  <2>1. p + 1 \in 1 .. Len(buf) + 1 /\ p + Len(s) \in (p + 1) - 1 .. Len(buf)
    BY <1>1, <1>3
  <2>2. /\ SubSeq(buf, p + 1, p + Len(s)) \in Seq(Int)
        /\ Len(SubSeq(buf, p + 1, p + Len(s))) = Len(s)
        /\ \A i \in 1..Len(s) : SubSeq(buf, p + 1, p + Len(s))[i] = buf[p + i]
    BY <1>1, <1>3, <2>1, SMTT(30) DEF Cells
  <2> QED BY <1>4, <2>2 DEF Cells
<1>6. ASSUME NEW i \in 1..Len(s) PROVE r[i] = s[i]
  <2>1. At(buf, o - i) = s[i]
    BY DEF IsString
  <2>2. Len(buf) + 1 - (o - i) = p + i
    BY <1>1
  <2> QED BY <1>5, <2>1, <2>2 DEF At
<1> HIDE DEF r
<1>7. r = s
  <2>1. r \in Cells /\ s \in Cells /\ Len(r) = Len(s) /\ \A i \in 1..Len(s) : r[i] = s[i]
    BY <1>5, <1>6 DEF Cells
  <2> QED BY <2>1, SameCells
<1> QED BY <1>2, <1>7 DEF StringAt, r

(* The string s at offset o, or none, and then o is 0. *)
IsText(buf, o, s) == (o = 0 => s = <<>>) /\ (o # 0 => IsString(buf, o, s))

(* A field that refers to a string, or to nothing if it is empty. *)
LEMMA TextRead ==
  ASSUME NEW buf \in Cells, NEW t, NEW j \in Nat, NEW o \in Nat, NEW s \in Cells,
         HasField(buf, t, j, Ref(o)), IsText(buf, o, s)
  PROVE  ReadString(buf, Len(buf) - t, j) = {s}
<1>1. CASE o = 0
  BY <1>1, OffsetRead DEF ReadString, IsText
<1>2. CASE o # 0
  <2>1. ReadOffset(buf, Len(buf) - t, j) = {Len(buf) - o} /\ Len(buf) - o # 0
    BY <1>2, OffsetRead DEF Cells
  <2> QED BY <1>2, <2>1, StringRead DEF ReadString, IsText
<1> QED BY <1>1, <1>2

(* The elements of a vector, whatever it is a vector of: where each begins. *)
LEMMA ElementAt ==
  ASSUME NEW buf \in Cells, NEW o, NEW offsets \in Seq(Nat), IsVector(buf, o, offsets),
         NEW p, p = Len(buf) - o
  PROVE  \A i \in 1..Len(offsets) : Target(buf, p + i) = {Len(buf) - offsets[i]}
<1> SUFFICES ASSUME NEW i \in 1..Len(offsets)
             PROVE  Target(buf, p + i) = {Len(buf) - offsets[i]}
  OBVIOUS
<1>1. /\ o \in 1..Len(buf) /\ Len(offsets) < o /\ At(buf, o - i) = o - i - offsets[i]
      /\ Len(buf) \in Nat /\ Len(offsets) \in Nat /\ offsets[i] \in Nat
  BY DEF IsVector, Cells
<1>2. o - i \in 1..Len(buf) /\ Len(buf) - (o - i) = Len(buf) - o + i
  BY <1>1
<1>3. Cell(buf, Len(buf) - o + i) = {o - i - offsets[i]}
  BY <1>1, <1>2, CellAt
<1>4. Len(buf) - o + i + (o - i - offsets[i]) = Len(buf) - offsets[i]
  <2>1. \A a, b, c, d \in Int : a - b + c + (b - c - d) = a - d
    OBVIOUS
  <2>2. Len(buf) \in Int /\ o \in Int /\ i \in Int /\ offsets[i] \in Int
    BY <1>1
  <2> QED BY <2>1, <2>2
<1> QED BY <1>3, <1>4 DEF Target

LEMMA VectorSize ==
  ASSUME NEW buf \in Cells, NEW o, NEW offsets \in Seq(Nat), IsVector(buf, o, offsets)
  PROVE  Cell(buf, Len(buf) - o) = {Len(offsets)}
BY CellAt DEF IsVector

(* A vector of strings is read as the list of them. *)
LEMMA StringsRead ==
  ASSUME NEW buf \in Cells, NEW t, NEW j \in Nat, NEW o,
         NEW offsets \in Seq(Nat), NEW ss \in Seq(Cells), Len(ss) = Len(offsets),
         HasField(buf, t, j, Ref(o)), IsVector(buf, o, offsets),
         \A i \in 1..Len(ss) : IsString(buf, offsets[i], ss[i])
  PROVE  ReadStrings(buf, Len(buf) - t, j) = {ss}
<1> DEFINE p == Len(buf) - o
           n == Len(ss)
           Element(i) == UNION {StringAt(buf, q) : q \in Target(buf, p + i)}
<1>1. ReadOffset(buf, Len(buf) - t, j) = {p} /\ p # 0
  <2>1. o \in Nat /\ o # 0 /\ Len(buf) \in Nat
    BY DEF IsVector, Cells
  <2> QED BY <2>1, OffsetRead
<1>2. Cell(buf, p) = {n}
  BY VectorSize
<1>3. ASSUME NEW i \in 1..n PROVE Element(i) = {ss[i]}
  <2>1. Target(buf, p + i) = {Len(buf) - offsets[i]}
    <3>1. p = Len(buf) - o
      OBVIOUS
    <3> HIDE DEF p, Element
    <3>2. \A k \in 1..Len(offsets) : Target(buf, p + k) = {Len(buf) - offsets[k]}
      BY <3>1, ElementAt
    <3> QED BY <3>2
  <2>2. StringAt(buf, Len(buf) - offsets[i]) = {ss[i]}
    BY StringRead
  <2> QED BY <2>1, <2>2
<1>4. Elements(buf, p, StringAt) =
        UNION {IF \E i \in 1..k : Element(i) = {} THEN {}
               ELSE {[i \in 1..k |-> CHOOSE e \in Element(i) : TRUE]} : k \in Cell(buf, p)}
  BY DEF Elements
<1> HIDE DEF Element, p
<1>5. [i \in 1..n |-> CHOOSE e \in Element(i) : TRUE] = ss
  <2>1. \A i \in 1..n : (CHOOSE e \in Element(i) : TRUE) = ss[i]
    BY <1>3
  <2>2. ss = [i \in 1..n |-> ss[i]]
    OBVIOUS
  <2> QED BY <2>1, <2>2
<1>6. ~(\E i \in 1..n : Element(i) = {})
  BY <1>3
<1>7. Elements(buf, p, StringAt) = {ss}
  BY <1>2, <1>4, <1>5, <1>6
<1> QED BY <1>1, <1>7 DEF ReadStrings
(* A header is read as the pair it was made from. *)
IsHeader(buf, o, h) ==
  \E k, v \in Nat \ {0} : /\ HasField(buf, o, 0, Ref(k)) /\ IsString(buf, k, h[1])
                         /\ HasField(buf, o, 1, Ref(v)) /\ IsString(buf, v, h[2])

LEMMA HeaderRead ==
  ASSUME NEW buf \in Cells, NEW o, NEW h \in Cells \X Cells, IsHeader(buf, o, h)
  PROVE  HeaderAt(buf, Len(buf) - o) = {h}
<1>1. PICK k, v \in Nat \ {0} : /\ HasField(buf, o, 0, Ref(k)) /\ IsString(buf, k, h[1])
                               /\ HasField(buf, o, 1, Ref(v)) /\ IsString(buf, v, h[2])
  BY DEF IsHeader
<1>2. h[1] \in Cells /\ h[2] \in Cells /\ h = <<h[1], h[2]>>
  OBVIOUS
<1>3. ReadString(buf, Len(buf) - o, 0) = {h[1]}
  <2>1. 0 \in Nat /\ k \in Nat /\ k # 0
    OBVIOUS
  <2> QED BY <1>1, <1>2, <2>1, TextRead DEF IsText
<1>4. ReadString(buf, Len(buf) - o, 1) = {h[2]}
  <2>1. 1 \in Nat /\ v \in Nat /\ v # 0
    OBVIOUS
  <2> QED BY <1>1, <1>2, <2>1, TextRead DEF IsText
<1>5. HeaderAt(buf, Len(buf) - o) = {<<h[1], h[2]>>}
  BY <1>3, <1>4 DEF HeaderAt
<1> QED BY <1>2, <1>5

LEMMA HeaderStays ==
  ASSUME NEW big \in Cells, NEW buf \in Cells, Ends(big, buf), NEW o, NEW h \in Cells \X Cells,
         IsHeader(buf, o, h)
  PROVE  IsHeader(big, o, h)
<1>1. PICK k, v \in Nat \ {0} : /\ HasField(buf, o, 0, Ref(k)) /\ IsString(buf, k, h[1])
                               /\ HasField(buf, o, 1, Ref(v)) /\ IsString(buf, v, h[2])
  BY DEF IsHeader
<1>2. HasField(big, o, 0, Ref(k)) /\ HasField(big, o, 1, Ref(v))
  BY <1>1, FieldStays
<1>3. IsString(big, k, h[1]) /\ IsString(big, v, h[2])
  <2>1. h[1] \in Cells /\ h[2] \in Cells
    OBVIOUS
  <2> QED BY <1>1, <2>1, StringStays
<1> QED BY <1>2, <1>3 DEF IsHeader

(* A list of headers at offset o. *)
IsHeaders(buf, o, hs) ==
  \E offsets \in Seq(Nat) :
    /\ Len(offsets) = Len(hs) /\ IsVector(buf, o, offsets)
    /\ \A i \in 1..Len(hs) : IsHeader(buf, offsets[i], hs[i])

LEMMA HeadersStay ==
  ASSUME NEW big \in Cells, NEW buf \in Cells, Ends(big, buf), NEW o,
         NEW hs \in Seq(Cells \X Cells), IsHeaders(buf, o, hs)
  PROVE  IsHeaders(big, o, hs)
<1>1. PICK offsets \in Seq(Nat) :
        /\ Len(offsets) = Len(hs) /\ IsVector(buf, o, offsets)
        /\ \A i \in 1..Len(hs) : IsHeader(buf, offsets[i], hs[i])
  BY DEF IsHeaders
<1>2. IsVector(big, o, offsets)
  BY <1>1, VectorStays
<1>3. \A i \in 1..Len(hs) : IsHeader(big, offsets[i], hs[i])
  BY <1>1, HeaderStays
<1> QED BY <1>1, <1>2, <1>3 DEF IsHeaders

(* A list of headers is read in its order. *)
LEMMA HeadersRead ==
  ASSUME NEW buf \in Cells, NEW t, NEW j \in Nat, NEW o,
         NEW hs \in Seq(Cells \X Cells), HasField(buf, t, j, Ref(o)), IsHeaders(buf, o, hs)
  PROVE  ReadHeaders(buf, Len(buf) - t, j) = {hs}
<1> DEFINE p == Len(buf) - o
           n == Len(hs)
           Element(i) == UNION {HeaderAt(buf, q) : q \in Target(buf, p + i)}
<1>0. PICK offsets \in Seq(Nat) :
        /\ Len(offsets) = Len(hs) /\ IsVector(buf, o, offsets)
        /\ \A i \in 1..Len(hs) : IsHeader(buf, offsets[i], hs[i])
  BY DEF IsHeaders
<1>1. ReadOffset(buf, Len(buf) - t, j) = {p} /\ p # 0
  <2>1. o \in Nat /\ o # 0 /\ Len(buf) \in Nat
    BY <1>0 DEF IsVector, Cells
  <2> QED BY <2>1, OffsetRead
<1>2. Cell(buf, p) = {n}
  BY <1>0, VectorSize
<1>3. ASSUME NEW i \in 1..n PROVE Element(i) = {hs[i]}
  <2>1. Target(buf, p + i) = {Len(buf) - offsets[i]}
    <3>1. p = Len(buf) - o
      OBVIOUS
    <3> HIDE DEF p, Element
    <3>2. \A k \in 1..Len(offsets) : Target(buf, p + k) = {Len(buf) - offsets[k]}
      BY <1>0, <3>1, ElementAt
    <3>3. i \in 1..Len(offsets)
      BY <1>0
    <3> QED BY <3>2, <3>3
  <2>2. HeaderAt(buf, Len(buf) - offsets[i]) = {hs[i]}
    BY <1>0, HeaderRead
  <2> QED BY <2>1, <2>2
<1>4. Elements(buf, p, HeaderAt) =
        UNION {IF \E i \in 1..k : Element(i) = {} THEN {}
               ELSE {[i \in 1..k |-> CHOOSE e \in Element(i) : TRUE]} : k \in Cell(buf, p)}
  BY DEF Elements
<1> HIDE DEF Element, p
<1>5. [i \in 1..n |-> CHOOSE e \in Element(i) : TRUE] = hs
  <2>1. \A i \in 1..n : (CHOOSE e \in Element(i) : TRUE) = hs[i]
    BY <1>3
  <2>2. hs = [i \in 1..n |-> hs[i]]
    OBVIOUS
  <2> QED BY <2>1, <2>2
<1>6. ~(\E i \in 1..n : Element(i) = {})
  BY <1>3
<1>7. Elements(buf, p, HeaderAt) = {hs}
  BY <1>2, <1>4, <1>5, <1>6
<1> QED BY <1>1, <1>7 DEF ReadHeaders

-----------------------------------------------------------------------------
(* What the builder makes, and what it leaves as it was. *)
LEMMA StringHolds ==
  ASSUME NEW buf \in Cells, NEW s \in Cells, NEW b, b = String(buf, s)
  PROVE  b \in Cells /\ Ends(b, buf) /\ IsString(b, Len(b), s) /\ Len(b) \in Nat \ {0}
<1> DEFINE x == <<Len(s)>> \o s
<1>1. Len(s) \in Nat /\ x \in Cells /\ Len(x) = 1 + Len(s) /\ Len(buf) \in Nat
  BY DEF Cells
<1>2. x[1] = Len(s) /\ \A i \in 1..Len(s) : x[1 + i] = s[i]
  BY DEF Cells
<1>3. b = x \o buf
  BY DEF String, Cells
<1> HIDE DEF x
<1>4. /\ b \in Cells /\ Len(b) = Len(x) + Len(buf) /\ Ends(b, buf)
      /\ \A i \in 1..Len(x) : At(b, Len(buf) + Len(x) + 1 - i) = x[i]
  <2>1. /\ x \o buf \in Cells /\ Len(x \o buf) = Len(x) + Len(buf) /\ Ends(x \o buf, buf)
        /\ \A i \in 1..Len(x) : At(x \o buf, Len(buf) + Len(x) + 1 - i) = x[i]
    BY <1>1, Prepended, Zenon
  <2> QED BY <1>3, <2>1
<1>5. At(b, Len(b)) = Len(s)
  <2>1. Len(buf) + Len(x) + 1 - 1 = Len(b) /\ 1 \in 1..Len(x)
    BY <1>1, <1>4
  <2> QED BY <1>2, <1>4, <2>1
<1>6. ASSUME NEW i \in 1..Len(s) PROVE At(b, Len(b) - i) = s[i]
  <2>1. Len(buf) + Len(x) + 1 - (1 + i) = Len(b) - i /\ 1 + i \in 1..Len(x)
    BY <1>1, <1>4
  <2> QED BY <1>2, <1>4, <2>1
<1>7. Len(b) \in 1..Len(b) /\ Len(s) < Len(b)
  BY <1>1, <1>4
<1> QED BY <1>4, <1>5, <1>6, <1>7 DEF IsString

LEMMA VectorHolds ==
  ASSUME NEW buf \in Cells, NEW offsets \in Seq(Nat), NEW b, b = Vector(buf, offsets)
  PROVE  /\ b \in Cells /\ Ends(b, buf) /\ IsVector(b, Len(b), offsets)
         /\ Len(b) \in Nat \ {0}
<1> DEFINE n == Len(offsets)
           refs == [i \in 1..n |-> Len(buf) + n + 1 - i - offsets[i]]
           x == <<n>> \o refs
<1>1. n \in Nat /\ Len(buf) \in Nat
  BY DEF Cells
<1>2. refs \in Cells /\ Len(refs) = n
  <2>1. refs \in [1..n -> Int]
    BY <1>1
  <2> QED BY <1>1, <2>1, ListOfInts
<1>3. \A i \in 1..n : refs[i] = Len(buf) + n + 1 - i - offsets[i]
  OBVIOUS
<1>4. Vector(buf, offsets) = <<n>> \o refs \o buf
  BY DEF Vector
<1> HIDE DEF refs
<1>5. b = x \o buf
  BY <1>1, <1>2, <1>4 DEF Cells
<1>6. x \in Cells /\ Len(x) = 1 + n /\ x[1] = n /\ \A i \in 1..n : x[1 + i] = refs[i]
  BY <1>1, <1>2 DEF Cells
<1> HIDE DEF x
<1>7. /\ b \in Cells /\ Len(b) = Len(x) + Len(buf) /\ Ends(b, buf)
      /\ \A i \in 1..Len(x) : At(b, Len(buf) + Len(x) + 1 - i) = x[i]
  <2>1. /\ x \o buf \in Cells /\ Len(x \o buf) = Len(x) + Len(buf) /\ Ends(x \o buf, buf)
        /\ \A i \in 1..Len(x) : At(x \o buf, Len(buf) + Len(x) + 1 - i) = x[i]
    BY <1>6, Prepended, Zenon
  <2> QED BY <1>5, <2>1
<1>8. At(b, Len(b)) = n
  <2>1. Len(buf) + Len(x) + 1 - 1 = Len(b) /\ 1 \in 1..Len(x)
    BY <1>1, <1>6, <1>7
  <2> QED BY <1>6, <1>7, <2>1
<1>9. ASSUME NEW i \in 1..n PROVE At(b, Len(b) - i) = Len(b) - i - offsets[i]
  <2>1. Len(buf) + Len(x) + 1 - (1 + i) = Len(b) - i /\ 1 + i \in 1..Len(x)
    BY <1>1, <1>6, <1>7
  <2>2. refs[i] = Len(b) - i - offsets[i]
    BY <1>1, <1>3, <1>6, <1>7
  <2> QED BY <1>6, <1>7, <2>1, <2>2
<1>10. Len(b) \in 1..Len(b) /\ n < Len(b)
  BY <1>1, <1>6, <1>7
<1> QED BY <1>7, <1>8, <1>9, <1>10 DEF IsVector
(* What may be put into a slot. *)
LEMMA SlotFacts ==
  ASSUME NEW n \in Nat
  PROVE  /\ Absent \in Slots(n)
         /\ \A x, d \in Int : Slot(x, d) \in Slots(n)
         /\ \A b \in BOOLEAN : Bit(b) \in Slots(n)
         /\ \A o \in 0..n : Ref(o) \in Slots(n)
         /\ \A o \in 1..n : Ref(o) # Absent
<1>1. \A x, d \in Int : Slot(x, d) \in Slots(n)
  BY DEF Slot, Slots
<1>2. \A b \in BOOLEAN : (IF b THEN 1 ELSE 0) \in Int
  OBVIOUS
<1>3. \A b \in BOOLEAN : Bit(b) \in Slots(n)
  BY <1>1, <1>2 DEF Bit
<1>4. \A o \in 1..n : Ref(o) = [is |-> "ref", n |-> o] /\ Ref(o) # Absent /\ Ref(o) \in Slots(n)
  BY DEF Ref, Absent, Slots
<1>5. Ref(0) = Absent /\ Absent \in Slots(n)
  BY DEF Ref, Slots
<1>6. \A o \in 0..n : o = 0 \/ o \in 1..n
  OBVIOUS
<1> QED BY <1>1, <1>3, <1>4, <1>5, <1>6

(* Tables that use the same slots have the same vtable. *)
LEMMA SameVtable ==
  ASSUME NEW a, NEW b, Used(a) = Used(b) PROVE Vtable(a) = Vtable(b)
<1>1. \A s : Distance(a, s) = Distance(b, s)
  BY DEF Distance
<1> DEFINE n(c) == IF Used(c) = {} THEN 0 ELSE CHOOSE s \in Used(c) : \A u \in Used(c) : u <= s
           tail(c) == [s \in 1..n(c) |-> IF s \in Used(c) THEN Distance(c, s) ELSE 0]
<1>2. n(a) = n(b)
  OBVIOUS
<1>3. \A c : Vtable(c) = <<n(c) + 2, Cardinality(Used(c)) + 1>> \o tail(c)
  BY DEF Vtable
<1>4. tail(a) = tail(b)
  <2> HIDE DEF n
  <2> QED BY <1>1, <1>2
<1> HIDE DEF n, tail
<1> QED BY <1>2, <1>3, <1>4

(* The slots of any header, as far as its vtable goes. *)
TwoRefs == <<Ref(1), Ref(1)>>

LEMMA HeaderVtable ==
  ASSUME NEW n \in Nat, NEW k \in 1..n, NEW v \in 1..n
  PROVE  Vtable(<<Ref(k), Ref(v)>>) = Vtable(TwoRefs)
<1>1. Ref(k) # Absent /\ Ref(v) # Absent
  BY SlotFacts
<1>2. Ref(1) # Absent
  BY DEF Ref, Absent
<1>3. Used(<<Ref(k), Ref(v)>>) = {1, 2} /\ Used(TwoRefs) = {1, 2}
  BY <1>1, <1>2 DEF Used, TwoRefs
<1> QED BY <1>3, SameVtable

LEMMA HeaderHolds ==
  ASSUME NEW buf \in Cells, NEW h \in Cells \X Cells, NEW there \in Nat,
         there # 0 => IsVtable(buf, there, TwoRefs), NEW t, t = Header(buf, h, there)
  PROVE  /\ t.buf \in Cells /\ Ends(t.buf, buf)
         /\ t.ref \in Nat \ {0} /\ IsHeader(t.buf, t.ref, h)
         /\ there = 0 => IsVtable(t.buf, Len(t.buf), TwoRefs) /\ Len(t.buf) \in Nat \ {0}
<1> DEFINE k == String(buf, h[1])
           v == String(k, h[2])
           slots == <<Ref(Len(k)), Ref(Len(v))>>
<1>0. h[1] \in Cells /\ h[2] \in Cells
  OBVIOUS
<1>1. k \in Cells /\ Ends(k, buf) /\ IsString(k, Len(k), h[1]) /\ Len(k) \in Nat \ {0}
  BY <1>0, StringHolds
<1> HIDE DEF k
<1>2. v \in Cells /\ Ends(v, k) /\ IsString(v, Len(v), h[2]) /\ Len(v) \in Nat \ {0}
  BY <1>0, <1>1, StringHolds
<1>3. t = Table(v, slots, there)
  BY DEF Header, k
<1> HIDE DEF v
<1>4. Len(k) \in 1..Len(v) /\ Len(v) \in 1..Len(v)
  BY <1>1, <1>2 DEF Ends
<1>5. slots \in Seq(Slots(Len(v)))
  BY <1>2, <1>4, SlotFacts
<1>6. Ends(v, buf)
  BY <1>1, <1>2, EndsOfEnds
<1>7. Vtable(slots) = Vtable(TwoRefs)
  BY <1>2, <1>4, HeaderVtable
<1>8. there # 0 => IsVtable(v, there, slots)
  <2>1. TwoRefs \in Seq({Ref(1)})
    BY DEF TwoRefs
  <2>2. there # 0 => IsVtable(v, there, TwoRefs)
    BY <1>2, <1>6, <2>1, VtableStays
  <2> QED BY <1>7, <2>2 DEF IsVtable
<1>9. SlotOf(slots, 0) = Ref(Len(k)) /\ SlotOf(slots, 1) = Ref(Len(v))
  BY DEF SlotOf
<1> HIDE DEF slots
<1>10. /\ t.buf \in Cells /\ Ends(t.buf, v)
       /\ t.ref \in Len(v) + 1 .. Len(t.buf)
       /\ \A j \in Nat : HasField(t.buf, t.ref, j, SlotOf(slots, j))
       /\ there = 0 => IsVtable(t.buf, Len(t.buf), slots)
  BY <1>2, <1>3, <1>5, <1>8, TableHolds
<1>11. HasField(t.buf, t.ref, 0, Ref(Len(k))) /\ HasField(t.buf, t.ref, 1, Ref(Len(v)))
  BY <1>9, <1>10
<1>12. IsString(t.buf, Len(k), h[1]) /\ IsString(t.buf, Len(v), h[2])
  <2>1. Ends(t.buf, k)
    BY <1>1, <1>2, <1>10, EndsOfEnds
  <2> QED BY <1>0, <1>1, <1>2, <1>10, <2>1, StringStays
<1>13. Ends(t.buf, buf) /\ t.ref \in Nat \ {0}
  BY <1>2, <1>6, <1>10, EndsOfEnds
<1>14. IsHeader(t.buf, t.ref, h)
  BY <1>1, <1>2, <1>11, <1>12 DEF IsHeader
<1>15. there = 0 => IsVtable(t.buf, Len(t.buf), TwoRefs) /\ Len(t.buf) \in Nat \ {0}
  BY <1>7, <1>10 DEF IsVtable
<1> QED BY <1>10, <1>13, <1>14, <1>15

(* A list of up to three of them, which share a vtable. *)
LEMMA HeadersHold ==
  ASSUME NEW buf \in Cells, NEW hs \in Seq(Cells \X Cells), Len(hs) <= 3,
         NEW b, b = Headers(buf, hs)
  PROVE  b \in Cells /\ Ends(b, buf) /\ IsHeaders(b, Len(b), hs) /\ Len(b) \in Nat \ {0}
<1> DEFINE h1 == IF Len(hs) < 1 THEN [ref |-> 0, buf |-> buf] ELSE Header(buf, hs[1], 0)
           h2 == IF Len(hs) < 2 THEN h1 ELSE Header(h1.buf, hs[2], Len(h1.buf))
           h3 == IF Len(hs) < 3 THEN h2 ELSE Header(h2.buf, hs[3], Len(h1.buf))
           offsets == [i \in 1..Len(hs) |-> <<h1.ref, h2.ref, h3.ref>>[i]]
<1>0. b = Vector(h3.buf, offsets)
  BY DEF Headers
<1>1. /\ h1.buf \in Cells /\ Ends(h1.buf, buf)
      /\ Len(hs) >= 1 =>
           /\ h1.ref \in Nat /\ IsHeader(h1.buf, h1.ref, hs[1])
           /\ IsVtable(h1.buf, Len(h1.buf), TwoRefs) /\ Len(h1.buf) \in Nat \ {0}
  <2>1. CASE Len(hs) < 1
    BY <2>1, EndsSelf
  <2>2. CASE ~(Len(hs) < 1)
    <3>1. hs[1] \in Cells \X Cells /\ h1 = Header(buf, hs[1], 0)
      BY <2>2
    <3> QED BY <2>2, <3>1, HeaderHolds
  <2> QED BY <2>1, <2>2
<1> HIDE DEF h1
<1>2. /\ h2.buf \in Cells /\ Ends(h2.buf, h1.buf)
      /\ Len(hs) >= 2 => h2.ref \in Nat /\ IsHeader(h2.buf, h2.ref, hs[2])
  <2>1. CASE Len(hs) < 2
    BY <1>1, <2>1, EndsSelf
  <2>2. CASE ~(Len(hs) < 2)
    <3>1. hs[2] \in Cells \X Cells /\ h2 = Header(h1.buf, hs[2], Len(h1.buf))
      BY <2>2
    <3> QED BY <1>1, <2>2, <3>1, HeaderHolds
  <2> QED BY <2>1, <2>2
<1> HIDE DEF h2
<1>3. /\ h3.buf \in Cells /\ Ends(h3.buf, h2.buf)
      /\ Len(hs) >= 3 => h3.ref \in Nat /\ IsHeader(h3.buf, h3.ref, hs[3])
  <2>1. CASE Len(hs) < 3
    BY <1>2, <2>1, EndsSelf
  <2>2. CASE ~(Len(hs) < 3)
    <3>1. hs[3] \in Cells \X Cells /\ h3 = Header(h2.buf, hs[3], Len(h1.buf))
      BY <2>2
    <3>2. IsVtable(h2.buf, Len(h1.buf), TwoRefs)
      <4>1. TwoRefs \in Seq({Ref(1)})
        BY DEF TwoRefs
      <4> QED BY <1>1, <1>2, <2>2, <4>1, VtableStays
    <3> QED BY <1>1, <1>2, <2>2, <3>1, <3>2, HeaderHolds
  <2> QED BY <2>1, <2>2
<1> HIDE DEF h3
<1>4. offsets \in Seq(Nat) /\ Len(offsets) = Len(hs)
  <2>1. \A i \in 1..Len(hs) : <<h1.ref, h2.ref, h3.ref>>[i] \in Nat
    BY <1>1, <1>2, <1>3
  <2> QED BY <2>1
<1>5. \A i \in 1..Len(hs) : offsets[i] = <<h1.ref, h2.ref, h3.ref>>[i]
  OBVIOUS
<1> HIDE DEF offsets
<1>6. b \in Cells /\ Ends(b, h3.buf) /\ IsVector(b, Len(b), offsets) /\ Len(b) \in Nat \ {0}
  BY <1>0, <1>3, <1>4, VectorHolds
<1>7. Ends(b, h2.buf) /\ Ends(b, h1.buf) /\ Ends(b, buf)
  BY <1>1, <1>2, <1>3, <1>6, EndsOfEnds
<1>8. ASSUME NEW i \in 1..Len(hs) PROVE IsHeader(b, offsets[i], hs[i])
  <2>1. CASE i = 1
    <3>1. offsets[i] = h1.ref /\ Len(hs) >= 1 /\ hs[1] \in Cells \X Cells
      BY <1>5, <2>1
    <3> QED BY <1>1, <1>6, <1>7, <2>1, <3>1, HeaderStays
  <2>2. CASE i = 2
    <3>1. offsets[i] = h2.ref /\ Len(hs) >= 2 /\ hs[2] \in Cells \X Cells
      BY <1>5, <2>2
    <3> QED BY <1>2, <1>6, <1>7, <2>2, <3>1, HeaderStays
  <2>3. CASE i = 3
    <3>1. offsets[i] = h3.ref /\ Len(hs) >= 3 /\ hs[3] \in Cells \X Cells
      BY <1>5, <2>3
    <3> QED BY <1>3, <1>6, <1>7, <2>3, <3>1, HeaderStays
  <2> QED BY <2>1, <2>2, <2>3
<1> QED BY <1>4, <1>6, <1>7, <1>8 DEF IsHeaders
(* The frame around a message: the prefix is taken off, the root is found,  *)
(* and in it the message, by a reader who asks for its context only.        *)
Wrapped(raw, context, inner, buf, root) ==
  /\ raw # <<>> /\ StripPrefix(raw) = buf /\ Len(buf) >= 2 /\ Ends(buf, inner.buf)
  /\ Len(inner.buf) < Len(buf)
  /\ FindRoot(buf) = {root}
  /\ FindInner(buf, root, context) = {Len(buf) - inner.ref}
  /\ \A c \in Int : c # context => FindInner(buf, root, c) = {None}

LEMMA FinishHolds ==
  ASSUME NEW context \in Int, NEW inner, inner.buf \in Cells, inner.ref \in 1..Len(inner.buf),
         NEW raw, raw = Finish(context, inner)
  PROVE  \E buf \in Cells, root \in Nat : Wrapped(raw, context, inner, buf, root)
<1> DEFINE slots == <<Slot(context, 0), Ref(inner.ref)>>
           t == Table(inner.buf, slots, 0)
           first == Len(t.buf) + 1 - t.ref
           buf == <<first>> \o t.buf
<1>1. raw = <<Len(buf)>> \o buf
  BY DEF Finish
<1>2. slots \in Seq(Slots(Len(inner.buf)))
  <2>1. Len(inner.buf) \in Nat
    BY DEF Cells
  <2> QED BY <2>1, SlotFacts
<1>3. SlotOf(slots, 0) = Slot(context, 0) /\ SlotOf(slots, 1) = Ref(inner.ref)
  BY DEF SlotOf
<1> HIDE DEF slots
<1>4. /\ t.buf \in Cells /\ Ends(t.buf, inner.buf)
      /\ t.ref \in Len(inner.buf) + 1 .. Len(t.buf)
      /\ \A j \in Nat : HasField(t.buf, t.ref, j, SlotOf(slots, j))
  BY <1>2, TableHolds
<1> HIDE DEF t
<1>5. Len(t.buf) \in Nat /\ Len(inner.buf) \in Nat /\ t.ref \in Nat /\ first \in Nat
  <2>1. Len(t.buf) \in Nat /\ Len(inner.buf) \in Nat
    BY <1>4 DEF Cells
  <2>2. \A a, n, m \in Int : 0 <= n /\ a \in n + 1 .. m => a \in Nat /\ m + 1 - a \in Nat
    OBVIOUS
  <2>3. t.ref \in Nat
    BY <1>4, <2>1
  <2> QED BY <1>4, <2>1, <2>2, <2>3
<1>6. /\ buf \in Cells /\ Len(buf) = 1 + Len(t.buf) /\ Ends(buf, t.buf)
      /\ At(buf, Len(buf)) = first
  <2>1. <<first>> \in Cells /\ Len(<<first>>) = 1 /\ <<first>>[1] = first
    BY <1>5 DEF Cells
  <2> DEFINE x == <<first>>
  <2> HIDE DEF x
  <2>2. /\ x \o t.buf \in Cells /\ Len(x \o t.buf) = Len(x) + Len(t.buf)
        /\ Ends(x \o t.buf, t.buf)
        /\ \A i \in 1..Len(x) : At(x \o t.buf, Len(t.buf) + Len(x) + 1 - i) = x[i]
    BY <1>4, <2>1, Prepended, Zenon DEF x
  <2>3. Len(t.buf) + Len(x) + 1 - 1 = 1 + Len(t.buf) /\ 1 \in 1..Len(x)
    BY <1>5, <2>1 DEF x
  <2> QED BY <2>1, <2>2, <2>3 DEF x
<1> HIDE DEF buf, first
<1>7. StripPrefix(raw) = buf /\ raw # <<>>
  <2>1. /\ raw \in Cells /\ raw # <<>> /\ Len(raw) = Len(buf) + 1 /\ raw[1] = Len(buf)
        /\ \A i \in 1..Len(buf) : raw[i + 1] = buf[i]
    BY <1>1, <1>6 DEF Cells
  <2>2. Slice(raw, 1, Len(buf)) = SubSeq(raw, 2, Len(buf) + 1)
    BY <2>1 DEF Slice, Cells
  <2>3. /\ SubSeq(raw, 2, Len(buf) + 1) \in Cells
        /\ Len(SubSeq(raw, 2, Len(buf) + 1)) = Len(buf)
        /\ \A i \in 1..Len(buf) : SubSeq(raw, 2, Len(buf) + 1)[i] = raw[i + 1]
    BY <1>6, <2>1, SMTT(30) DEF Cells
  <2>4. SubSeq(raw, 2, Len(buf) + 1) = buf
    <3> DEFINE r == SubSeq(raw, 2, Len(buf) + 1)
    <3>1. r \in Cells /\ buf \in Cells /\ Len(r) = Len(buf) /\ \A i \in 1..Len(buf) : r[i] = buf[i]
      BY <1>6, <2>1, <2>3
    <3> HIDE DEF r
    <3>2. r = buf
      BY <3>1, SameCells
    <3> QED BY <3>2 DEF r
  <2> QED BY <2>1, <2>2, <2>4 DEF StripPrefix
<1> DEFINE root == Len(buf) - t.ref
<1>8. root = first /\ root \in Nat /\ root + 1 <= Len(buf)
  BY <1>4, <1>5, <1>6, SMTT(30) DEF first
<1>9. FindRoot(buf) = {root}
  <2>1. Cell(buf, 0) = {first}
    <3>1. Len(buf) \in 1..Len(buf) /\ Len(buf) - Len(buf) = 0
      BY <1>5, <1>6
    <3> QED BY <1>6, <3>1, CellAt
  <2>2. ~(root + 1 > Len(buf))
    BY <1>5, <1>6, <1>8
  <2> HIDE DEF root
  <2> QED BY <1>8, <2>1, <2>2 DEF FindRoot
<1>10. HasField(buf, t.ref, 0, Slot(context, 0)) /\ HasField(buf, t.ref, 1, Ref(inner.ref))
  <2>1. HasField(t.buf, t.ref, 0, Slot(context, 0)) /\ HasField(t.buf, t.ref, 1, Ref(inner.ref))
    BY <1>3, <1>4
  <2> QED BY <1>4, <1>6, <2>1, FieldStays
<1>11. ReadNumber(buf, root, 0) = {context}
  BY <1>6, <1>10, NumberRead DEF ReadNumber
<1>12. ReadOffset(buf, root, 1) = {Len(buf) - inner.ref}
  <2>1. inner.ref \in Nat /\ inner.ref # 0
    BY <1>5
  <2> QED BY <1>6, <1>10, <2>1, OffsetRead
<1> HIDE DEF root
<1>13. FindInner(buf, root, context) = {Len(buf) - inner.ref}
  BY <1>11, <1>12 DEF FindInner
<1>14. ASSUME NEW c \in Int, c # context PROVE FindInner(buf, root, c) = {None}
  BY <1>11, <1>14 DEF FindInner
<1>15. Ends(buf, inner.buf) /\ Len(inner.buf) < Len(buf) /\ Len(buf) >= 2
  <2>1. Ends(buf, inner.buf)
    BY <1>4, <1>6, EndsOfEnds
  <2> QED BY <1>4, <1>5, <1>6, <2>1
<1>16. Wrapped(raw, context, inner, buf, root)
  BY <1>6, <1>7, <1>8, <1>9, <1>13, <1>14, <1>15 DEF Wrapped
<1> QED BY <1>6, <1>8, <1>16

LEMMA TextStays ==
  ASSUME NEW big \in Cells, NEW buf \in Cells, Ends(big, buf), NEW o, NEW s \in Cells,
         IsText(buf, o, s)
  PROVE  IsText(big, o, s)
BY StringStays DEF IsText

(* An optional string. *)
LEMMA OptionalHolds ==
  ASSUME NEW buf \in Cells, NEW s \in Cells, NEW b, b = Optional(buf, s)
  PROVE  /\ b \in Cells /\ Ends(b, buf)
         /\ \E o \in 0..Len(b) : OptionalRef(buf, s) = Ref(o) /\ IsText(b, o, s)
<1>1. CASE s = <<>>
  <2>1. b = buf /\ OptionalRef(buf, s) = Ref(0) /\ 0 \in 0..Len(b)
    BY <1>1 DEF Optional, OptionalRef, Cells
  <2> QED BY <1>1, <2>1, EndsSelf DEF IsText
<1>2. CASE s # <<>>
  <2>1. b = String(buf, s) /\ OptionalRef(buf, s) = Ref(Len(b))
    BY <1>2 DEF Optional, OptionalRef
  <2>2. b \in Cells /\ Ends(b, buf) /\ IsString(b, Len(b), s) /\ Len(b) \in Nat \ {0}
    BY <2>1, StringHolds
  <2>3. Len(b) \in 0..Len(b) /\ IsText(b, Len(b), s)
    BY <2>2 DEF IsText
  <2> QED BY <2>1, <2>2, <2>3
<1> QED BY <1>1, <1>2

(* The slots of a longer list. *)
LEMMA SlotsOfBoth ==
  ASSUME NEW S, NEW x \in Seq(S), NEW y \in Seq(S)
  PROVE  /\ x \o y \in Seq(S)
         /\ \A j \in Nat : j < Len(x) => SlotOf(x \o y, j) = x[j + 1]
BY DEF SlotOf

LEMMA Joined ==
  ASSUME NEW S, NEW x \in Seq(S), NEW y \in Seq(S)
  PROVE  /\ x \o y \in Seq(S) /\ Len(x \o y) = Len(x) + Len(y)
         /\ \A i \in 1..Len(x) : (x \o y)[i] = x[i]
         /\ \A i \in 1..Len(y) : (x \o y)[Len(x) + i] = y[i]
OBVIOUS

(* A framed table: what is read of it, and of the buffer it was made in. *)
Framed(raw, context, body, slots, buf, root, t) ==
  /\ raw # <<>> /\ StripPrefix(raw) = buf /\ Len(buf) >= 2
  /\ Ends(buf, body) /\ Len(body) < Len(buf) /\ t < Len(buf)
  /\ FindRoot(buf) = {root} /\ root # None
  /\ FindInner(buf, root, context) = {Len(buf) - t} /\ Len(buf) - t # None
  /\ \A c \in Int : c # context => FindInner(buf, root, c) = {None}
  /\ \A j \in Nat : HasField(buf, t, j, SlotOf(slots, j))

LEMMA MessageHolds ==
  ASSUME NEW context \in Int, NEW body \in Cells, NEW slots \in Seq(Slots(Len(body))),
         NEW raw, raw = Finish(context, Table(body, slots, 0))
  PROVE  \E buf \in Cells, root \in Nat, t \in Nat :
           Framed(raw, context, body, slots, buf, root, t)
<1> DEFINE inner == Table(body, slots, 0)
<1>1. /\ inner.buf \in Cells /\ Ends(inner.buf, body)
      /\ inner.ref \in Len(body) + 1 .. Len(inner.buf)
      /\ \A j \in Nat : HasField(inner.buf, inner.ref, j, SlotOf(slots, j))
  BY TableHolds
<1>2. raw = Finish(context, inner)
  OBVIOUS
<1> HIDE DEF inner
<1>3. /\ Len(body) \in Nat /\ Len(inner.buf) \in Nat
      /\ inner.ref \in Nat /\ inner.ref \in 1..Len(inner.buf)
  <2>1. Len(body) \in Nat /\ Len(inner.buf) \in Nat
    BY <1>1 DEF Cells
  <2>2. \A a, n, m \in Int : 0 <= n /\ a \in n + 1 .. m => a \in Nat /\ a \in 1..m
    OBVIOUS
  <2> QED BY <1>1, <2>1, <2>2
<1>4. PICK buf \in Cells, root \in Nat : Wrapped(raw, context, inner, buf, root)
  BY <1>1, <1>2, <1>3, FinishHolds
<1>5. Ends(buf, body)
  BY <1>1, <1>4, EndsOfEnds DEF Wrapped
<1>6. \A j \in Nat : HasField(buf, inner.ref, j, SlotOf(slots, j))
  BY <1>1, <1>4, FieldStays DEF Wrapped
<1>7. /\ Len(body) < Len(buf) /\ inner.ref < Len(buf)
      /\ Len(buf) - inner.ref # None /\ root # None
  <2>1. Len(buf) \in Nat /\ Len(body) <= Len(inner.buf)
    BY <1>1 DEF Cells, Ends
  <2> QED BY <1>3, <1>4, <2>1 DEF None, Wrapped
<1>8. Framed(raw, context, body, slots, buf, root, inner.ref)
  BY <1>4, <1>5, <1>6, <1>7 DEF Framed, Wrapped
<1> QED BY <1>3, <1>8

(* What is taken for an x, when x is one of the readings. *)
Readings(as, S) == {[as |-> as, msg |-> m] : m \in S}

(* The readings of a buffer, by who looks for what. *)
AcksIn(buf) == In(buf, HandshakeAck, ParseAck, "ack")
StreamsIn(buf, as) == In(buf, WebStreamMsg, ParseStream, as)
SynsIn(buf) == In(buf, HandshakeSyn, ParseSyn, "syn")

(* What a framed table is taken for. *)
LEMMA AckIn ==
  ASSUME NEW raw, NEW body, NEW slots, NEW buf \in Cells, NEW root \in Nat, NEW t \in Nat,
         Framed(raw, HandshakeAck, body, slots, buf, root, t), NEW at, at = Len(buf) - t
  PROVE  /\ AcksIn(buf) = Readings("ack", ParseAck(buf, at))
         /\ StreamsIn(buf, "stream") = {}
<1>1. /\ FindRoot(buf) = {root} /\ root # None /\ FindInner(buf, root, HandshakeAck) = {at} /\ at # None
      /\ \A c \in Int : c # HandshakeAck => FindInner(buf, root, c) = {None}
  BY DEF Framed
<1>2. /\ HandshakeSyn \in Int /\ HandshakeAck \in Int /\ WebStreamMsg \in Int
      /\ HandshakeSyn # HandshakeAck /\ HandshakeAck # WebStreamMsg
  BY DEF HandshakeSyn, HandshakeAck, WebStreamMsg
<1>3. AcksIn(buf) = Readings("ack", ParseAck(buf, at))
  BY <1>1, <1>2 DEF In, AcksIn, StreamsIn, SynsIn, Readings
<1>4. StreamsIn(buf, "stream") = {}
  BY <1>1, <1>2 DEF In, AcksIn, StreamsIn, SynsIn, Readings
<1> QED BY <1>3, <1>4

LEMMA StreamIn ==
  ASSUME NEW raw, NEW body, NEW slots, NEW buf \in Cells, NEW root \in Nat, NEW t \in Nat,
         Framed(raw, WebStreamMsg, body, slots, buf, root, t), NEW at, at = Len(buf) - t
  PROVE  /\ StreamsIn(buf, "stream") = Readings("stream", ParseStream(buf, at))
         /\ StreamsIn(buf, "answer") = Readings("answer", ParseStream(buf, at))
         /\ AcksIn(buf) = {}
<1>1. /\ FindRoot(buf) = {root} /\ root # None /\ FindInner(buf, root, WebStreamMsg) = {at} /\ at # None
      /\ \A c \in Int : c # WebStreamMsg => FindInner(buf, root, c) = {None}
  BY DEF Framed
<1>2. /\ HandshakeSyn \in Int /\ HandshakeAck \in Int /\ WebStreamMsg \in Int
      /\ HandshakeSyn # HandshakeAck /\ HandshakeAck # WebStreamMsg
  BY DEF HandshakeSyn, HandshakeAck, WebStreamMsg
<1>3. StreamsIn(buf, "stream") = Readings("stream", ParseStream(buf, at))
  BY <1>1, <1>2 DEF In, AcksIn, StreamsIn, SynsIn, Readings
<1>4. StreamsIn(buf, "answer") = Readings("answer", ParseStream(buf, at))
  BY <1>1, <1>2 DEF In, AcksIn, StreamsIn, SynsIn, Readings
<1>5. AcksIn(buf) = {}
  BY <1>1, <1>2 DEF In, AcksIn, StreamsIn, SynsIn, Readings
<1> QED BY <1>3, <1>4, <1>5

LEMMA SynIn ==
  ASSUME NEW raw, NEW body, NEW slots, NEW buf \in Cells, NEW root \in Nat, NEW t \in Nat,
         Framed(raw, HandshakeSyn, body, slots, buf, root, t), NEW at, at = Len(buf) - t
  PROVE  /\ SynsIn(buf) = Readings("syn", ParseSyn(buf, at))
<1>1. /\ FindRoot(buf) = {root} /\ root # None /\ FindInner(buf, root, HandshakeSyn) = {at} /\ at # None
      /\ \A c \in Int : c # HandshakeSyn => FindInner(buf, root, c) = {None}
  BY DEF Framed
<1>2. /\ HandshakeSyn \in Int /\ HandshakeAck \in Int /\ WebStreamMsg \in Int
      /\ HandshakeSyn # HandshakeAck /\ HandshakeAck # WebStreamMsg
  BY DEF HandshakeSyn, HandshakeAck, WebStreamMsg
<1>3. SynsIn(buf) = Readings("syn", ParseSyn(buf, at))
  BY <1>1, <1>2 DEF In, AcksIn, StreamsIn, SynsIn, Readings
<1> QED BY <1>3

LEMMA OtherIn ==
  ASSUME NEW raw, NEW body, NEW slots, NEW buf \in Cells, NEW root \in Nat, NEW t \in Nat,
         NEW context \in Int, context # HandshakeAck, context # WebStreamMsg,
         Framed(raw, context, body, slots, buf, root, t)
  PROVE  /\ AcksIn(buf) = {}
         /\ StreamsIn(buf, "stream") = {}
<1>1. /\ FindRoot(buf) = {root} /\ root # None
      /\ \A c \in Int : c # context => FindInner(buf, root, c) = {None}
  BY DEF Framed
<1>2. HandshakeAck \in Int /\ WebStreamMsg \in Int
  BY DEF HandshakeAck, WebStreamMsg
<1> QED BY <1>1, <1>2 DEF In, AcksIn, StreamsIn

(* The strings at offset o, none at offset 0. *)
IsStrings(buf, o, ss) ==
  /\ o = 0 => ss = <<>>
  /\ o # 0 => \E offsets \in Seq(Nat) :
                /\ Len(offsets) = Len(ss) /\ IsVector(buf, o, offsets)
                /\ \A i \in 1..Len(ss) : IsString(buf, offsets[i], ss[i])

LEMMA ListStays ==
  ASSUME NEW big \in Cells, NEW buf \in Cells, Ends(big, buf), NEW o,
         NEW ss \in Seq(Cells), IsStrings(buf, o, ss)
  PROVE  IsStrings(big, o, ss)
<1>1. CASE o = 0
  BY <1>1 DEF IsStrings
<1>2. CASE o # 0
  <2>1. PICK offsets \in Seq(Nat) :
          /\ Len(offsets) = Len(ss) /\ IsVector(buf, o, offsets)
          /\ \A i \in 1..Len(ss) : IsString(buf, offsets[i], ss[i])
    BY <1>2 DEF IsStrings
  <2>2. IsVector(big, o, offsets)
    BY <2>1, VectorStays
  <2>3. \A i \in 1..Len(ss) : IsString(big, offsets[i], ss[i])
    <3>1. \A i \in 1..Len(ss) : ss[i] \in Cells
      OBVIOUS
    <3> QED BY <2>1, <3>1, StringStays
  <2> QED BY <1>2, <2>1, <2>2, <2>3 DEF IsStrings
<1> QED BY <1>1, <1>2

LEMMA ListRead ==
  ASSUME NEW buf \in Cells, NEW t, NEW j \in Nat, NEW o \in Nat, NEW ss \in Seq(Cells),
         HasField(buf, t, j, Ref(o)), IsStrings(buf, o, ss)
  PROVE  ReadStrings(buf, Len(buf) - t, j) = {ss}
<1>1. CASE o = 0
  <2>1. ReadOffset(buf, Len(buf) - t, j) = {0} /\ ss = <<>>
    BY <1>1, OffsetRead DEF IsStrings
  <2> QED BY <2>1 DEF ReadStrings
<1>2. CASE o # 0
  <2>1. PICK offsets \in Seq(Nat) :
          /\ Len(offsets) = Len(ss) /\ IsVector(buf, o, offsets)
          /\ \A i \in 1..Len(ss) : IsString(buf, offsets[i], ss[i])
    BY <1>2 DEF IsStrings
  <2> QED BY <2>1, StringsRead
<1> QED BY <1>1, <1>2

(* The accounts of an ack: none, or two. *)
Accounts(a) ==
  LET first  == String(<<>>, a[1])
      second == String(first, a[2])
  IN  IF a = <<>> THEN <<>> ELSE Vector(second, <<Len(first), Len(second)>>)

LEMMA AccountsHold ==
  ASSUME NEW a \in {<<>>} \cup {<<s, t>> : s, t \in Cells}, NEW b, b = Accounts(a)
  PROVE  b \in Cells /\ IsStrings(b, Len(b), a) /\ a \in Seq(Cells)
<1>1. CASE a = <<>>
  BY <1>1 DEF Accounts, IsStrings, Cells
<1>2. CASE a # <<>>
  <2> DEFINE first == String(<<>>, a[1])
             second == String(first, a[2])
             offsets == <<Len(first), Len(second)>>
  <2>1. PICK s \in Cells, t \in Cells : a = <<s, t>>
    BY <1>2
  <2>2. a[1] \in Cells /\ a[2] \in Cells /\ Len(a) = 2 /\ a \in Seq(Cells) /\ <<>> \in Cells
    BY <2>1 DEF Cells
  <2>3. b = Vector(second, offsets)
    BY <1>2 DEF Accounts
  <2>4. first \in Cells /\ IsString(first, Len(first), a[1]) /\ Len(first) \in Nat
    BY <2>2, StringHolds
  <2> HIDE DEF first
  <2>5. /\ second \in Cells /\ Ends(second, first)
        /\ IsString(second, Len(second), a[2]) /\ Len(second) \in Nat
    BY <2>2, <2>4, StringHolds
  <2> HIDE DEF second
  <2>6. offsets \in Seq(Nat) /\ Len(offsets) = 2
        /\ offsets[1] = Len(first) /\ offsets[2] = Len(second)
    BY <2>4, <2>5
  <2> HIDE DEF offsets
  <2>7. b \in Cells /\ Ends(b, second) /\ IsVector(b, Len(b), offsets) /\ Len(b) # 0
    BY <2>3, <2>5, <2>6, VectorHolds
  <2>8. Ends(b, first)
    BY <2>4, <2>5, <2>7, EndsOfEnds
  <2>9. IsString(b, offsets[1], a[1]) /\ IsString(b, offsets[2], a[2])
    BY <2>2, <2>4, <2>5, <2>6, <2>7, <2>8, StringStays
  <2>10. \A i \in 1..Len(a) : IsString(b, offsets[i], a[i])
    <3>1. \A i \in 1..Len(a) : i = 1 \/ i = 2
      BY <2>2
    <3> QED BY <2>9, <3>1
  <2> QED BY <2>2, <2>6, <2>7, <2>10 DEF IsStrings
<1> QED BY <1>1, <1>2

LEMMA NewerHolds ==
  ASSUME NEW n \in Nat, NEW e \in Nat PROVE Newer(e) \in Seq(Slots(n))
<1>1. Slot(7, 0) \in Slots(n)
  BY SlotFacts
<1> QED BY <1>1 DEF Newer

(* Every field of the table at offset t is read as it is. *)
BitsRead(buf, t, at) == \A j \in Nat, b \in BOOLEAN :
  HasField(buf, t, j, Bit(b)) => ReadBool(buf, at, j) = {b}
NumbersRead(buf, t, at) == \A j \in Nat, n, default \in Int :
  HasField(buf, t, j, Slot(n, default)) => ReadOr(buf, at, j, default) = {n}
TextsRead(buf, t, at) == \A j \in Nat, o \in Nat, s \in Cells :
  HasField(buf, t, j, Ref(o)) /\ IsText(buf, o, s) => ReadString(buf, at, j) = {s}
ListsRead(buf, t, at) == \A j \in Nat, o \in Nat, ss \in Seq(Cells) :
  HasField(buf, t, j, Ref(o)) /\ IsStrings(buf, o, ss) => ReadStrings(buf, at, j) = {ss}
PairsRead(buf, t, at) == \A j \in Nat, o \in Nat, hs \in Seq(Cells \X Cells) :
  HasField(buf, t, j, Ref(o)) /\ IsHeaders(buf, o, hs) => ReadHeaders(buf, at, j) = {hs}
OffsetsRead(buf, t, at) == \A j \in Nat, o \in Nat :
  HasField(buf, t, j, Ref(o)) =>
    /\ o = 0 => ReadOffset(buf, at, j) = {0}
    /\ o # 0 => ReadOffset(buf, at, j) = {Len(buf) - o} /\ o < Len(buf)

FieldsRead(buf, t, at) ==
  /\ BitsRead(buf, t, at) /\ NumbersRead(buf, t, at) /\ TextsRead(buf, t, at)
  /\ ListsRead(buf, t, at) /\ PairsRead(buf, t, at) /\ OffsetsRead(buf, t, at)

LEMMA AllRead ==
  ASSUME NEW buf \in Cells, NEW t, NEW at, at = Len(buf) - t PROVE FieldsRead(buf, t, at)
<1>1. BitsRead(buf, t, at)
  BY BitRead DEF BitsRead
<1>2. NumbersRead(buf, t, at)
  BY NumberRead DEF NumbersRead
<1>3. TextsRead(buf, t, at)
  BY TextRead DEF TextsRead
<1>4. ListsRead(buf, t, at)
  BY ListRead DEF ListsRead
<1>5. PairsRead(buf, t, at)
  BY HeadersRead DEF PairsRead
<1>6. OffsetsRead(buf, t, at)
  <2> SUFFICES ASSUME NEW j \in Nat, NEW o \in Nat, HasField(buf, t, j, Ref(o))
               PROVE  /\ o = 0 => ReadOffset(buf, at, j) = {0}
                      /\ o # 0 => ReadOffset(buf, at, j) = {Len(buf) - o} /\ o < Len(buf)
    BY DEF OffsetsRead
  <2>1. o = 0 => ReadOffset(buf, at, j) = {0}
    BY OffsetRead
  <2>2. o # 0 => ReadOffset(buf, at, j) = {Len(buf) - o} /\ o < Len(buf)
    BY OffsetRead
  <2> QED BY <2>1, <2>2
<1> QED BY <1>1, <1>2, <1>3, <1>4, <1>5, <1>6 DEF FieldsRead

(* What parse_handshake_ack makes of fields that each have one reading. *)
LEMMA AckParsed ==
  ASSUME NEW m \in Ack, NEW buf, NEW at,
         ReadBool(buf, at, 0) = {m.accepted}, ReadStrings(buf, at, 1) = {m.accounts},
         ReadString(buf, at, 2) = {m.error}, ReadNumber(buf, at, 3) = {m.backoff},
         ReadBool(buf, at, 4) = {m.update}, ReadString(buf, at, 5) = {m.octokey},
         ReadString(buf, at, 6) = {m.rsa}, ReadBool(buf, at, 7) = {m.rekey}
  PROVE  ParseAck(buf, at) = {m}
<1>1. m = [accepted |-> m.accepted, accounts |-> m.accounts, error |-> m.error,
           backoff |-> m.backoff, update |-> m.update, octokey |-> m.octokey,
           rsa |-> m.rsa, rekey |-> m.rekey]
  BY DEF Ack
<1>2. ParseAck(buf, at) =
        {[accepted |-> a, accounts |-> ac, error |-> er, backoff |-> b, update |-> u,
          octokey |-> k, rsa |-> rs, rekey |-> rk] :
           a \in {m.accepted}, ac \in {m.accounts}, er \in {m.error}, b \in {m.backoff},
           u \in {m.update}, k \in {m.octokey}, rs \in {m.rsa}, rk \in {m.rekey}}
  BY DEF ParseAck
<1> QED BY <1>1, <1>2

LEMMA AckRead ==
  ASSUME NEW m \in Ack, NEW e \in Extra, NEW raw, raw = BuildAck(m, e)
  PROVE  raw # <<>> /\ Handle(raw) = {[as |-> "ack", msg |-> m]}
<1> DEFINE list == Accounts(m.accounts)
           error == Optional(list, m.error)
           key == Optional(error, m.octokey)
           rsa == Optional(key, m.rsa)
           head == <<Bit(m.accepted), Ref(Len(list)), OptionalRef(list, m.error),
                     Slot(m.backoff, 0), Bit(m.update), OptionalRef(error, m.octokey),
                     OptionalRef(key, m.rsa), Bit(m.rekey)>>
           slots == head \o Newer(e)
<1>1. raw = Finish(HandshakeAck, Table(rsa, slots, 0))
  BY Zenon DEF BuildAck, Accounts
<1>2. /\ m.accepted \in BOOLEAN /\ m.update \in BOOLEAN /\ m.rekey \in BOOLEAN
      /\ m.backoff \in Int /\ e \in Nat
      /\ m.error \in Cells /\ m.octokey \in Cells /\ m.rsa \in Cells
      /\ m.accounts \in {<<>>} \cup {<<s, t>> : s, t \in Cells}
  <2>1. Strings \in SUBSET Cells /\ Fewer \in SUBSET Cells
    BY CellsAssumption DEF Cells
  <2>2. m.accounts \in {<<>>} \cup {<<s, t>> : s, t \in Cells}
    BY <2>1 DEF Ack
  <2>3. m.backoff \in Int /\ e \in Nat
    BY CellsAssumption DEF Ack
  <2> QED BY <2>1, <2>2, <2>3 DEF Ack
<1>3. list \in Cells /\ IsStrings(list, Len(list), m.accounts) /\ m.accounts \in Seq(Cells)
  BY <1>2, AccountsHold
<1> HIDE DEF list
<1>4. /\ error \in Cells /\ Ends(error, list)
      /\ \E o \in 0..Len(error) : OptionalRef(list, m.error) = Ref(o) /\ IsText(error, o, m.error)
  BY <1>2, <1>3, OptionalHolds
<1> HIDE DEF error
<1>5. /\ key \in Cells /\ Ends(key, error)
      /\ \E o \in 0..Len(key) : OptionalRef(error, m.octokey) = Ref(o) /\ IsText(key, o, m.octokey)
  BY <1>2, <1>4, OptionalHolds
<1> HIDE DEF key
<1>6. /\ rsa \in Cells /\ Ends(rsa, key)
      /\ \E o \in 0..Len(rsa) : OptionalRef(key, m.rsa) = Ref(o) /\ IsText(rsa, o, m.rsa)
  BY <1>2, <1>5, OptionalHolds
<1> HIDE DEF rsa
<1>7. PICK o2 \in 0..Len(error) : OptionalRef(list, m.error) = Ref(o2) /\ IsText(error, o2, m.error)
  BY <1>4
<1>8. PICK o5 \in 0..Len(key) : OptionalRef(error, m.octokey) = Ref(o5) /\ IsText(key, o5, m.octokey)
  BY <1>5
<1>9. PICK o6 \in 0..Len(rsa) : OptionalRef(key, m.rsa) = Ref(o6) /\ IsText(rsa, o6, m.rsa)
  BY <1>6
<1>10. Ends(rsa, error) /\ Ends(rsa, list)
  <2>1. Ends(rsa, error)
    BY <1>4, <1>5, <1>6, EndsOfEnds
  <2> QED BY <1>3, <1>4, <1>6, <2>1, EndsOfEnds
<1>11. /\ Len(rsa) \in Nat /\ Len(list) \in 0..Len(rsa) /\ Len(list) \in Nat
       /\ o2 \in 0..Len(rsa) /\ o5 \in 0..Len(rsa) /\ o6 \in 0..Len(rsa)
       /\ o2 \in Nat /\ o5 \in Nat /\ o6 \in Nat
  <2>1. Len(rsa) \in Nat /\ Len(list) \in Nat /\ Len(key) \in Nat /\ Len(error) \in Nat
    BY <1>3, <1>4, <1>5, <1>6, SMTT(30) DEF Cells
  <2>2. Len(key) <= Len(rsa) /\ Len(error) <= Len(rsa) /\ Len(list) <= Len(rsa)
    BY <1>6, <1>10 DEF Ends
  <2> QED BY <1>7, <1>8, <1>9, <2>1, <2>2
<1>12. head \in Seq(Slots(Len(rsa)))
  <2>1. /\ Bit(m.accepted) \in Slots(Len(rsa)) /\ Bit(m.update) \in Slots(Len(rsa))
        /\ Bit(m.rekey) \in Slots(Len(rsa)) /\ Slot(m.backoff, 0) \in Slots(Len(rsa))
        /\ Ref(Len(list)) \in Slots(Len(rsa)) /\ Ref(o2) \in Slots(Len(rsa))
        /\ Ref(o5) \in Slots(Len(rsa)) /\ Ref(o6) \in Slots(Len(rsa))
    BY <1>2, <1>11, SlotFacts
  <2> QED BY <1>7, <1>8, <1>9, <2>1
<1>13. /\ Len(head) = 8 /\ head[1] = Bit(m.accepted) /\ head[2] = Ref(Len(list))
       /\ head[3] = Ref(o2) /\ head[4] = Slot(m.backoff, 0) /\ head[5] = Bit(m.update)
       /\ head[6] = Ref(o5) /\ head[7] = Ref(o6) /\ head[8] = Bit(m.rekey)
  BY <1>7, <1>8, <1>9
<1> HIDE DEF head
<1>14. slots \in Seq(Slots(Len(rsa))) /\ \A j \in Nat : j < 8 => SlotOf(slots, j) = head[j + 1]
  <2>1. Newer(e) \in Seq(Slots(Len(rsa)))
    BY <1>2, <1>11, NewerHolds
  <2> QED BY <1>12, <1>13, <2>1, SlotsOfBoth
<1> HIDE DEF slots
<1>15. HandshakeAck \in Int /\ HandshakeAck # WebStreamMsg
  BY DEF HandshakeAck, WebStreamMsg
<1>16. PICK buf \in Cells, root \in Nat, t \in Nat :
         Framed(raw, HandshakeAck, rsa, slots, buf, root, t)
  BY <1>1, <1>6, <1>14, <1>15, MessageHolds
<1>17. /\ raw # <<>> /\ StripPrefix(raw) = buf /\ Len(buf) >= 2 /\ Ends(buf, rsa)
       /\ \A j \in Nat : HasField(buf, t, j, SlotOf(slots, j))
  BY <1>16 DEF Framed
<1>18. /\ HasField(buf, t, 0, Bit(m.accepted)) /\ HasField(buf, t, 1, Ref(Len(list)))
       /\ HasField(buf, t, 2, Ref(o2)) /\ HasField(buf, t, 3, Slot(m.backoff, 0))
       /\ HasField(buf, t, 4, Bit(m.update)) /\ HasField(buf, t, 5, Ref(o5))
       /\ HasField(buf, t, 6, Ref(o6)) /\ HasField(buf, t, 7, Bit(m.rekey))
  BY <1>13, <1>14, <1>17
<1>19. /\ IsStrings(buf, Len(list), m.accounts) /\ IsText(buf, o2, m.error)
       /\ IsText(buf, o5, m.octokey) /\ IsText(buf, o6, m.rsa)
  <2>1. Ends(buf, key) /\ Ends(buf, error) /\ Ends(buf, list)
    BY <1>3, <1>4, <1>5, <1>6, <1>10, <1>17, EndsOfEnds
  <2>2. IsStrings(buf, Len(list), m.accounts)
    BY <1>3, <2>1, ListStays
  <2> QED BY <1>2, <1>4, <1>5, <1>6, <1>7, <1>8, <1>9, <1>17, <2>1, <2>2, TextStays
<1>19a. PICK at : at = Len(buf) - t
  OBVIOUS
<1>20. /\ FieldsRead(buf, t, at)
       /\ AcksIn(buf) = Readings("ack", ParseAck(buf, at))
       /\ StreamsIn(buf, "stream") = {}
  <2>1. FieldsRead(buf, t, at)
    BY <1>19a, AllRead
  <2> QED BY <1>16, <1>19a, <2>1, AckIn
<1>21. /\ ReadBool(buf, at, 0) = {m.accepted} /\ ReadBool(buf, at, 4) = {m.update}
       /\ ReadBool(buf, at, 7) = {m.rekey} /\ ReadNumber(buf, at, 3) = {m.backoff}
  <2>1. BitsRead(buf, t, at) /\ NumbersRead(buf, t, at)
    BY <1>20 DEF FieldsRead
  <2>2. /\ ReadBool(buf, at, 0) = {m.accepted} /\ ReadBool(buf, at, 4) = {m.update}
        /\ ReadBool(buf, at, 7) = {m.rekey}
    BY <1>2, <1>18, <2>1 DEF BitsRead
  <2>3. ReadNumber(buf, at, 3) = {m.backoff}
    BY <1>2, <1>18, <2>1, SMTT(30) DEF NumbersRead, ReadNumber
  <2> QED BY <2>2, <2>3
<1>22. /\ ReadString(buf, at, 2) = {m.error} /\ ReadString(buf, at, 5) = {m.octokey}
       /\ ReadString(buf, at, 6) = {m.rsa}
  <2>1. TextsRead(buf, t, at)
    BY <1>20 DEF FieldsRead
  <2> QED BY <1>2, <1>11, <1>18, <1>19, <2>1, SMTT(30) DEF TextsRead
<1>23. ReadStrings(buf, at, 1) = {m.accounts}
  <2>1. ListsRead(buf, t, at)
    BY <1>20 DEF FieldsRead
  <2> QED BY <1>3, <1>11, <1>18, <1>19, <2>1 DEF ListsRead
<1>24. ParseAck(buf, at) = {m}
  BY <1>21, <1>22, <1>23, AckParsed
<1>25. /\ AcksIn(buf) = {[as |-> "ack", msg |-> m]}
       /\ StreamsIn(buf, "stream") = {}
  BY <1>20, <1>24 DEF Readings
<1> QED BY <1>17, <1>25 DEF Handle, AcksIn, StreamsIn

-----------------------------------------------------------------------------
(* The fields of a stream message that lie in its own table, those in the   *)
(* table of its request, and where the texts are.                           *)
StreamFields(buf, t, m, data, http) ==
  /\ HasField(buf, t, 0, Slot(m.stream, 0)) /\ HasField(buf, t, 1, Bit(m.open))
  /\ HasField(buf, t, 2, Bit(m.close)) /\ HasField(buf, t, 3, Bit(m.done))
  /\ HasField(buf, t, 5, Slot(m.size, -1)) /\ HasField(buf, t, 6, Ref(data))
  /\ HasField(buf, t, 11, Slot(m.status, 0)) /\ HasField(buf, t, 9, Ref(http))
  /\ data \in Nat /\ IsText(buf, data, m.data) /\ http \in Nat \ {0}

HttpFields(buf, t, m, path, method, headers) ==
  /\ HasField(buf, t, 0, Ref(path)) /\ HasField(buf, t, 2, Ref(method))
  /\ HasField(buf, t, 5, Bit(m.auth)) /\ HasField(buf, t, 4, Ref(headers))
  /\ {path, method, headers} \in SUBSET Nat
  /\ IsText(buf, path, m.path) /\ IsText(buf, method, m.method)
  /\ IsHeaders(buf, headers, m.headers)

(* A message of the protocol's shape. *)
StreamOfCells ==
  [stream : Int, open : BOOLEAN, close : BOOLEAN, done : BOOLEAN, size : Int, data : Cells,
   status : Int, path : Cells, method : Cells, auth : BOOLEAN, headers : Seq(Cells \X Cells)]

LEMMA StreamReads ==
  ASSUME NEW m \in StreamOfCells, NEW buf \in Cells, NEW t, NEW data, NEW http, NEW path,
         NEW method, NEW headers, StreamFields(buf, t, m, data, http),
         HttpFields(buf, http, m, path, method, headers), NEW at, at = Len(buf) - t
  PROVE  ParseStream(buf, at) = {m}
<1>1. /\ m.stream \in Int /\ m.size \in Int /\ m.status \in Int
      /\ m.open \in BOOLEAN /\ m.close \in BOOLEAN /\ m.done \in BOOLEAN /\ m.auth \in BOOLEAN
      /\ m.data \in Cells /\ m.path \in Cells /\ m.method \in Cells
      /\ m.headers \in Seq(Cells \X Cells)
  BY DEF StreamOfCells
<1>2. PICK h : h = Len(buf) - http
  OBVIOUS
<1>3. /\ BitsRead(buf, t, at) /\ NumbersRead(buf, t, at) /\ TextsRead(buf, t, at)
      /\ OffsetsRead(buf, t, at)
      /\ BitsRead(buf, http, h) /\ TextsRead(buf, http, h) /\ PairsRead(buf, http, h)
  <2>1. FieldsRead(buf, t, at) /\ FieldsRead(buf, http, h)
    BY <1>2, AllRead
  <2> QED BY <2>1 DEF FieldsRead
<1>4. /\ ReadNumber(buf, at, 0) = {m.stream} /\ ReadSize(buf, at, 5) = {m.size}
      /\ ReadNumber(buf, at, 11) = {m.status}
  BY <1>1, <1>3, SMTT(30) DEF NumbersRead, StreamFields, ReadNumber, ReadSize
<1>5. /\ ReadBool(buf, at, 1) = {m.open} /\ ReadBool(buf, at, 2) = {m.close}
      /\ ReadBool(buf, at, 3) = {m.done}
  BY <1>1, <1>3 DEF BitsRead, StreamFields
<1>6. ReadString(buf, at, 6) = {m.data}
  BY <1>1, <1>3 DEF TextsRead, StreamFields
<1>7. ReadOffset(buf, at, 9) = {h} /\ h # 0
  <2>1. ReadOffset(buf, at, 9) = {Len(buf) - http} /\ http < Len(buf)
    BY <1>3 DEF OffsetsRead, StreamFields
  <2>2. Len(buf) \in Nat /\ http \in Nat
    BY DEF Cells, StreamFields
  <2> QED BY <1>2, <2>1, <2>2
<1>8. ReadString(buf, h, 0) = {m.path} /\ ReadString(buf, h, 2) = {m.method}
  BY <1>1, <1>3 DEF TextsRead, HttpFields
<1>9. ReadBool(buf, h, 5) = {m.auth}
  BY <1>1, <1>3 DEF BitsRead, HttpFields
<1>10. ReadHeaders(buf, h, 4) = {m.headers}
  <2>1. /\ HasField(buf, http, 4, Ref(headers)) /\ headers \in Nat
        /\ IsHeaders(buf, headers, m.headers)
    BY DEF HttpFields
  <2>2. \A j \in Nat, o \in Nat, hs \in Seq(Cells \X Cells) :
          HasField(buf, http, j, Ref(o)) /\ IsHeaders(buf, o, hs) => ReadHeaders(buf, h, j) = {hs}
    BY <1>3 DEF PairsRead
  <2>3. 4 \in Nat
    OBVIOUS
  <2> QED BY <1>1, <2>1, <2>2, <2>3, Zenon
<1> DEFINE Of(x) ==
      {[stream |-> st, open |-> o, close |-> c, done |-> d, size |-> sz, data |-> da,
        status |-> code, path |-> p, method |-> me, auth |-> au, headers |-> hs] :
         st \in ReadNumber(buf, at, 0), o \in ReadBool(buf, at, 1), c \in ReadBool(buf, at, 2),
         d \in ReadBool(buf, at, 3), sz \in ReadSize(buf, at, 5), da \in ReadString(buf, at, 6),
         code \in ReadNumber(buf, at, 11),
         p \in IF x = 0 THEN {<<>>} ELSE ReadString(buf, x, 0),
         me \in IF x = 0 THEN {<<>>} ELSE ReadString(buf, x, 2),
         au \in IF x = 0 THEN {FALSE} ELSE ReadBool(buf, x, 5),
         hs \in IF x = 0 THEN {<<>>} ELSE ReadHeaders(buf, x, 4)}
<1>11. ParseStream(buf, at) = UNION {Of(x) : x \in ReadOffset(buf, at, 9)}
  BY DEF ParseStream
<1>12. Of(h) = {[stream |-> st, open |-> o, close |-> c, done |-> d, size |-> sz, data |-> da,
                 status |-> code, path |-> p, method |-> me, auth |-> au, headers |-> hs] :
                  st \in {m.stream}, o \in {m.open}, c \in {m.close}, d \in {m.done},
                  sz \in {m.size}, da \in {m.data}, code \in {m.status}, p \in {m.path},
                  me \in {m.method}, au \in {m.auth}, hs \in {m.headers}}
  BY <1>4, <1>5, <1>6, <1>7, <1>8, <1>9, <1>10
<1> HIDE DEF Of
<1>13. Of(h) = {m}
  <2>1. m = [stream |-> m.stream, open |-> m.open, close |-> m.close, done |-> m.done,
             size |-> m.size, data |-> m.data, status |-> m.status, path |-> m.path,
             method |-> m.method, auth |-> m.auth, headers |-> m.headers]
    BY DEF StreamOfCells
  <2>2. Of(h) = {[stream |-> m.stream, open |-> m.open, close |-> m.close, done |-> m.done,
                  size |-> m.size, data |-> m.data, status |-> m.status, path |-> m.path,
                  method |-> m.method, auth |-> m.auth, headers |-> m.headers]}
    BY <1>12
  <2> QED BY <2>1, <2>2
<1> QED BY <1>7, <1>11, <1>13

(* The frame of a stream message, and what its fields are, read. *)
LEMMA StreamTaken ==
  ASSUME NEW m \in StreamOfCells, NEW raw, NEW body, NEW slots, NEW buf \in Cells,
         NEW root \in Nat, NEW t \in Nat, Framed(raw, WebStreamMsg, body, slots, buf, root, t),
         NEW data, NEW http, NEW path, NEW method, NEW headers,
         StreamFields(buf, t, m, data, http), HttpFields(buf, http, m, path, method, headers)
  PROVE  /\ raw # <<>> /\ Handle(raw) = {[as |-> "stream", msg |-> m]}
         /\ StreamsIn(StripPrefix(raw), "answer") = {[as |-> "answer", msg |-> m]}
<1>1. PICK at : at = Len(buf) - t
  OBVIOUS
<1>2. ParseStream(buf, at) = {m}
  BY <1>1, StreamReads
<1>3. /\ StreamsIn(buf, "stream") = Readings("stream", ParseStream(buf, at))
      /\ StreamsIn(buf, "answer") = Readings("answer", ParseStream(buf, at))
      /\ AcksIn(buf) = {}
  BY <1>1, StreamIn
<1>4. raw # <<>> /\ StripPrefix(raw) = buf /\ Len(buf) >= 2
  BY DEF Framed
<1>5. /\ StreamsIn(buf, "stream") = {[as |-> "stream", msg |-> m]}
      /\ StreamsIn(buf, "answer") = {[as |-> "answer", msg |-> m]}
  BY <1>2, <1>3 DEF Readings
<1> QED BY <1>3, <1>4, <1>5 DEF Handle, AcksIn, StreamsIn

(* A request of the cloud is a message of the protocol. *)
LEMMA RequestShape ==
  ASSUME NEW m \in Request, NEW e \in Extra
  PROVE  m \in StreamOfCells /\ e \in Nat /\ Len(m.headers) <= 3 /\ m.status = 0
<1>1. Strings \in SUBSET Cells /\ Fewer \in SUBSET Cells /\ Numbers \in SUBSET Int
  BY CellsAssumption DEF Cells
<1>2. m.headers \in Lists
  BY DEF Request
<1>3. Pairs \in SUBSET (Cells \X Cells)
  BY <1>1 DEF Pairs
<1>4. m.headers \in Seq(Cells \X Cells) /\ Len(m.headers) <= 3
  <2>1. \/ m.headers = <<>> \/ \E p \in Pairs : m.headers = <<p>>
        \/ \E p, q \in Pairs : m.headers = <<p, q>>
    BY <1>2 DEF Lists
  <2>2. ASSUME NEW p \in Pairs, m.headers = <<p>> PROVE m.headers \in Seq(Cells \X Cells) /\ Len(m.headers) = 1
    BY <1>3, <2>2
  <2>3. ASSUME NEW p \in Pairs, NEW q \in Pairs, m.headers = <<p, q>>
        PROVE  m.headers \in Seq(Cells \X Cells) /\ Len(m.headers) = 2
    BY <1>3, <2>3
  <2>4. ASSUME m.headers = <<>> PROVE m.headers \in Seq(Cells \X Cells) /\ Len(m.headers) = 0
    BY <2>4
  <2>5. m.headers \in Seq(Cells \X Cells)
    BY <2>1, <2>2, <2>3, <2>4
  <2>6. Len(m.headers) = 0 \/ Len(m.headers) = 1 \/ Len(m.headers) = 2
    BY <2>1, <2>2, <2>3, <2>4
  <2>7. Len(m.headers) <= 3
    <3>1. \A n : n = 0 \/ n = 1 \/ n = 2 => n <= 3
      OBVIOUS
    <3> QED BY <2>6, <3>1, Zenon
  <2> QED BY <2>5, <2>7
<1>5. m \in [stream : Numbers, open : BOOLEAN, close : BOOLEAN, done : BOOLEAN,
              size : Numbers \cup {-1}, data : Fewer, status : {0}, path : Strings,
              method : Fewer, auth : BOOLEAN, headers : Lists]
  BY DEF Request
<1>6. m.status = 0 /\ m.stream \in Int /\ m.size \in Int
  <2>1. m.status \in {0} /\ m.stream \in Numbers /\ m.size \in Numbers \cup {-1}
    BY <1>5
  <2>2. m.stream \in Int
    BY <1>1, <2>1
  <2>3. m.size \in Int
    <3>1. -1 \in Int
      OBVIOUS
    <3>2. m.size \in Numbers \/ m.size = -1
      BY <2>1
    <3> QED BY <1>1, <3>1, <3>2, Zenon
  <2> QED BY <2>1, <2>2, <2>3
<1>7. m.data \in Cells /\ m.path \in Cells /\ m.method \in Cells
  <2>1. m.data \in Fewer /\ m.path \in Strings /\ m.method \in Fewer
    BY <1>5
  <2> QED BY <1>1, <2>1
<1>8. m = [stream |-> m.stream, open |-> m.open, close |-> m.close, done |-> m.done,
           size |-> m.size, data |-> m.data, status |-> m.status, path |-> m.path,
           method |-> m.method, auth |-> m.auth, headers |-> m.headers]
  BY <1>5
<1>9. m.open \in BOOLEAN /\ m.close \in BOOLEAN /\ m.done \in BOOLEAN /\ m.auth \in BOOLEAN
  BY <1>5
<1>10. m \in StreamOfCells
  BY <1>4, <1>6, <1>7, <1>8, <1>9 DEF StreamOfCells
<1>11. e \in Nat
  BY CellsAssumption
<1> QED BY <1>4, <1>6, <1>10, <1>11

LEMMA RequestRead ==
  ASSUME NEW m \in Request, NEW e \in Extra, NEW raw, raw = BuildRequest(m, e)
  PROVE  raw # <<>> /\ Handle(raw) = {[as |-> "stream", msg |-> m]}
<1> DEFINE data == String(<<>>, m.data)
           path == String(data, m.path)
           method == String(path, m.method)
           hs == Headers(method, m.headers)
           asked == <<Ref(Len(path)), Absent, Ref(Len(method)), Absent, Ref(Len(hs)),
                      Bit(m.auth), Absent>>
           http == Table(hs, asked, 0)
           head == <<Slot(m.stream, 0), Bit(m.open), Bit(m.close), Bit(m.done), Absent,
                     Slot(m.size, -1), Ref(Len(data)), Absent, Absent, Ref(http.ref)>>
           eight == [i \in 1..8 |-> Absent]
           slots == head \o eight \o Newer(e)
<1>1. raw = Finish(WebStreamMsg, Table(http.buf, slots, 0))
  BY Zenon DEF BuildRequest
<1>2. m \in StreamOfCells /\ e \in Nat /\ Len(m.headers) <= 3 /\ m.status = 0
  BY RequestShape
<1>3. /\ m.data \in Cells /\ m.path \in Cells /\ m.method \in Cells /\ <<>> \in Cells
      /\ m.headers \in Seq(Cells \X Cells) /\ m.stream \in Int /\ m.size \in Int
      /\ m.open \in BOOLEAN /\ m.close \in BOOLEAN /\ m.done \in BOOLEAN /\ m.auth \in BOOLEAN
  BY <1>2 DEF StreamOfCells, Cells
<1>4. data \in Cells /\ IsString(data, Len(data), m.data) /\ Len(data) \in Nat \ {0}
  BY <1>3, StringHolds
<1> HIDE DEF data
<1>5. /\ path \in Cells /\ Ends(path, data) /\ IsString(path, Len(path), m.path)
      /\ Len(path) \in Nat \ {0}
  BY <1>3, <1>4, StringHolds
<1> HIDE DEF path
<1>6. /\ method \in Cells /\ Ends(method, path) /\ IsString(method, Len(method), m.method)
      /\ Len(method) \in Nat \ {0}
  BY <1>3, <1>5, StringHolds
<1> HIDE DEF method
<1>7. /\ hs \in Cells /\ Ends(hs, method) /\ IsHeaders(hs, Len(hs), m.headers)
      /\ Len(hs) \in Nat \ {0}
  BY <1>2, <1>3, <1>6, HeadersHold
<1> HIDE DEF hs
<1>8. /\ Ends(hs, path) /\ Ends(hs, data)
  <2>1. Ends(hs, path)
    BY <1>5, <1>6, <1>7, EndsOfEnds
  <2> QED BY <1>4, <1>5, <1>7, <2>1, EndsOfEnds
<1>9. asked \in Seq(Slots(Len(hs)))
  <2>1. Len(path) \in 0..Len(hs) /\ Len(method) \in 0..Len(hs) /\ Len(hs) \in 0..Len(hs)
    BY <1>5, <1>6, <1>7, <1>8 DEF Ends
  <2>2. /\ Ref(Len(path)) \in Slots(Len(hs)) /\ Ref(Len(method)) \in Slots(Len(hs))
        /\ Ref(Len(hs)) \in Slots(Len(hs)) /\ Bit(m.auth) \in Slots(Len(hs))
        /\ Absent \in Slots(Len(hs))
    BY <1>3, <1>7, <2>1, SlotFacts
  <2> QED BY <2>2
<1>10. /\ SlotOf(asked, 0) = Ref(Len(path)) /\ SlotOf(asked, 2) = Ref(Len(method))
       /\ SlotOf(asked, 4) = Ref(Len(hs)) /\ SlotOf(asked, 5) = Bit(m.auth)
  BY DEF SlotOf
<1> HIDE DEF asked
<1>11. /\ http.buf \in Cells /\ Ends(http.buf, hs) /\ http.ref \in Len(hs) + 1 .. Len(http.buf)
       /\ \A j \in Nat : HasField(http.buf, http.ref, j, SlotOf(asked, j))
  BY <1>7, <1>9, TableHolds
<1> HIDE DEF http
<1>12. /\ HasField(http.buf, http.ref, 0, Ref(Len(path)))
       /\ HasField(http.buf, http.ref, 2, Ref(Len(method)))
       /\ HasField(http.buf, http.ref, 4, Ref(Len(hs)))
       /\ HasField(http.buf, http.ref, 5, Bit(m.auth))
  BY <1>10, <1>11
<1>13. /\ Len(http.buf) \in Nat /\ http.ref \in Nat \ {0} /\ http.ref \in 0..Len(http.buf)
       /\ Len(data) \in 0..Len(http.buf)
  <2>1. Len(http.buf) \in Nat
    BY <1>11 DEF Cells
  <2>2. Len(data) <= Len(hs) /\ Len(hs) <= Len(http.buf)
    BY <1>8, <1>11 DEF Ends
  <2> QED BY <1>4, <1>7, <1>11, <2>1, <2>2
<1>14. head \in Seq(Slots(Len(http.buf)))
  <2>1. /\ Ref(http.ref) \in Slots(Len(http.buf)) /\ Ref(Len(data)) \in Slots(Len(http.buf))
        /\ Bit(m.open) \in Slots(Len(http.buf)) /\ Bit(m.close) \in Slots(Len(http.buf))
        /\ Bit(m.done) \in Slots(Len(http.buf)) /\ Absent \in Slots(Len(http.buf))
        /\ Slot(m.stream, 0) \in Slots(Len(http.buf)) /\ Slot(m.size, -1) \in Slots(Len(http.buf))
    BY <1>3, <1>13, SlotFacts
  <2> QED BY <2>1
<1>15. /\ Len(head) = 10 /\ head[1] = Slot(m.stream, 0) /\ head[2] = Bit(m.open)
       /\ head[3] = Bit(m.close) /\ head[4] = Bit(m.done) /\ head[6] = Slot(m.size, -1)
       /\ head[7] = Ref(Len(data)) /\ head[10] = Ref(http.ref)
  OBVIOUS
<1> HIDE DEF head
<1>16. /\ head \o eight \in Seq(Slots(Len(http.buf))) /\ Len(head \o eight) = 18
       /\ \A k \in 1..10 : (head \o eight)[k] = head[k]
       /\ (head \o eight)[12] = Slot(m.status, 0)
  <2>1. Absent \in Slots(Len(http.buf)) /\ Slot(m.status, 0) = Absent
    BY <1>2, <1>13, SlotFacts DEF Slot
  <2>2. eight \in Seq(Slots(Len(http.buf))) /\ Len(eight) = 8 /\ eight[2] = Absent
    BY <2>1
  <2> HIDE DEF eight
  <2>3. /\ head \o eight \in Seq(Slots(Len(http.buf))) /\ Len(head \o eight) = Len(head) + Len(eight)
        /\ \A k \in 1..Len(head) : (head \o eight)[k] = head[k]
        /\ \A k \in 1..Len(eight) : (head \o eight)[Len(head) + k] = eight[k]
    <3> DEFINE S == Slots(Len(http.buf))
    <3>1. head \in Seq(S) /\ eight \in Seq(S)
      BY <1>14, <2>2
    <3> HIDE DEF S
    <3>2. /\ head \o eight \in Seq(S) /\ Len(head \o eight) = Len(head) + Len(eight)
          /\ \A k \in 1..Len(head) : (head \o eight)[k] = head[k]
          /\ \A k \in 1..Len(eight) : (head \o eight)[Len(head) + k] = eight[k]
      BY <3>1
    <3> QED BY <3>2 DEF S
  <2>4. 2 \in 1..Len(eight) /\ Len(head) + 2 = 12 /\ Len(head) + Len(eight) = 18
    BY <1>15, <2>2
  <2>5. (head \o eight)[12] = eight[2]
    BY <2>3, <2>4
  <2> QED BY <1>15, <2>1, <2>2, <2>3, <2>4, <2>5
<1> DEFINE long == head \o eight
<1>17. /\ slots \in Seq(Slots(Len(http.buf)))
       /\ \A j \in Nat : j < 18 => SlotOf(slots, j) = long[j + 1]
  <2>1. Newer(e) \in Seq(Slots(Len(http.buf)))
    BY <1>2, <1>13, NewerHolds
  <2>2. slots = long \o Newer(e)
    OBVIOUS
  <2> HIDE DEF slots, long
  <2> QED BY <1>16, <2>1, <2>2, SlotsOfBoth DEF long
<1>18. /\ SlotOf(slots, 0) = Slot(m.stream, 0) /\ SlotOf(slots, 1) = Bit(m.open)
       /\ SlotOf(slots, 2) = Bit(m.close) /\ SlotOf(slots, 3) = Bit(m.done)
       /\ SlotOf(slots, 5) = Slot(m.size, -1) /\ SlotOf(slots, 6) = Ref(Len(data))
       /\ SlotOf(slots, 9) = Ref(http.ref) /\ SlotOf(slots, 11) = Slot(m.status, 0)
  <2> HIDE DEF slots
  <2> QED BY <1>15, <1>16, <1>17, SMTT(30)
<1> HIDE DEF slots
<1>19. WebStreamMsg \in Int
  BY DEF WebStreamMsg
<1>20. PICK buf \in Cells, root \in Nat, t \in Nat :
         Framed(raw, WebStreamMsg, http.buf, slots, buf, root, t)
  BY <1>1, <1>11, <1>17, <1>19, MessageHolds
<1>21. Ends(buf, http.buf) /\ \A j \in Nat : HasField(buf, t, j, SlotOf(slots, j))
  BY <1>20 DEF Framed
<1>22. Ends(buf, hs) /\ Ends(buf, method) /\ Ends(buf, path) /\ Ends(buf, data)
  <2>1. Ends(buf, hs)
    BY <1>7, <1>11, <1>21, EndsOfEnds
  <2> QED BY <1>4, <1>5, <1>6, <1>7, <1>8, <2>1, EndsOfEnds
<1>23. StreamFields(buf, t, m, Len(data), http.ref)
  <2>1. IsText(buf, Len(data), m.data)
    BY <1>3, <1>4, <1>22, StringStays DEF IsText
  <2>2. /\ HasField(buf, t, 0, Slot(m.stream, 0)) /\ HasField(buf, t, 1, Bit(m.open))
        /\ HasField(buf, t, 2, Bit(m.close)) /\ HasField(buf, t, 3, Bit(m.done))
        /\ HasField(buf, t, 5, Slot(m.size, -1)) /\ HasField(buf, t, 6, Ref(Len(data)))
        /\ HasField(buf, t, 11, Slot(m.status, 0)) /\ HasField(buf, t, 9, Ref(http.ref))
    BY <1>18, <1>21
  <2> QED BY <1>4, <1>13, <2>1, <2>2 DEF StreamFields
<1>24. HttpFields(buf, http.ref, m, Len(path), Len(method), Len(hs))
  <2>1. IsText(buf, Len(path), m.path) /\ IsText(buf, Len(method), m.method)
    BY <1>3, <1>5, <1>6, <1>22, StringStays DEF IsText
  <2>2. IsHeaders(buf, Len(hs), m.headers)
    BY <1>3, <1>7, <1>22, HeadersStay
  <2>3. /\ HasField(buf, http.ref, 0, Ref(Len(path))) /\ HasField(buf, http.ref, 2, Ref(Len(method)))
        /\ HasField(buf, http.ref, 4, Ref(Len(hs))) /\ HasField(buf, http.ref, 5, Bit(m.auth))
    BY <1>11, <1>12, <1>21, FieldStays
  <2> QED BY <1>5, <1>6, <1>7, <2>1, <2>2, <2>3 DEF HttpFields
<1> QED BY <1>2, <1>20, <1>23, <1>24, StreamTaken

(* A response of the client is a message of the protocol. *)
IsResponse(m) ==
  /\ m \in StreamOfCells /\ Len(m.headers) <= 3
  /\ m.open = FALSE /\ m.auth = FALSE /\ m.path = <<>> /\ m.method = <<>>

LEMMA ResponseShape ==
  ASSUME NEW st \in Numbers, NEW status \in {200, 404}, NEW body \in Strings
  PROVE  IsResponse(Response(st, status, body))
<1>1. /\ body \in Cells /\ st \in Int /\ status \in Int
      /\ ContentType \in Cells /\ ContentLength \in Cells /\ Connection \in Cells
      /\ Json \in Cells /\ Close \in Cells /\ <<>> \in Cells
  BY CellsAssumption DEF Cells
<1>2. Len(body) \in Int /\ <<Len(body)>> \in Cells
  BY <1>1 DEF Cells
<1> DEFINE hs == << <<ContentType, Json>>, <<ContentLength, <<Len(body)>>>>, <<Connection, Close>> >>
<1>3. hs \in Seq(Cells \X Cells) /\ Len(hs) <= 3
  BY <1>1, <1>2
<1> DEFINE m == Response(st, status, body)
<1>4. m = [stream |-> st, open |-> FALSE, close |-> TRUE, done |-> TRUE, size |-> Len(body),
           data |-> body, status |-> status, path |-> <<>>, method |-> <<>>, auth |-> FALSE,
           headers |-> hs]
  BY DEF Response
<1> HIDE DEF hs
<1> HIDE DEF m
<1>5. m \in StreamOfCells
  BY <1>1, <1>2, <1>3, <1>4 DEF StreamOfCells
<1>6. IsResponse(m)
  BY <1>3, <1>4, <1>5 DEF IsResponse
<1> QED BY <1>6 DEF m

LEMMA ResponseRead ==
  ASSUME NEW m, IsResponse(m), NEW raw, raw = BuildResponse(m)
  PROVE  raw # <<>> /\ StreamsIn(StripPrefix(raw), "answer") = {[as |-> "answer", msg |-> m]}
<1> DEFINE body == Optional(<<>>, m.data)
           hs == Headers(body, m.headers)
           asked == <<Absent, Absent, Absent, Absent, Ref(Len(hs)), Absent, Absent>>
           http == Table(hs, asked, 0)
           slots == <<Slot(m.stream, 0), Absent, Bit(m.close), Bit(m.done), Absent,
                      Slot(m.size, -1), Ref(Len(body)), Absent, Absent, Ref(http.ref), Absent,
                      Slot(m.status, 0)>>
<1>1. raw = Finish(WebStreamMsg, Table(http.buf, slots, 0))
  BY Zenon DEF BuildResponse
<1>2. /\ m \in StreamOfCells /\ Len(m.headers) <= 3
      /\ m.open = FALSE /\ m.auth = FALSE /\ m.path = <<>> /\ m.method = <<>>
  BY DEF IsResponse
<1>3. /\ m.data \in Cells /\ <<>> \in Cells /\ m.headers \in Seq(Cells \X Cells)
      /\ Len(m.headers) <= 3 /\ m.stream \in Int /\ m.size \in Int /\ m.status \in Int
      /\ m.close \in BOOLEAN /\ m.done \in BOOLEAN
  BY <1>2 DEF StreamOfCells, Cells
<1>4. body \in Cells /\ IsText(body, Len(body), m.data) /\ Len(body) \in Nat
  <2>1. CASE m.data = <<>>
    BY <1>3, <2>1 DEF Optional, IsText
  <2>2. CASE m.data # <<>>
    <3>1. body = String(<<>>, m.data)
      BY <2>2 DEF Optional
    <3> QED BY <1>3, <3>1, StringHolds DEF IsText
  <2> QED BY <2>1, <2>2
<1> HIDE DEF body
<1>5. /\ hs \in Cells /\ Ends(hs, body) /\ IsHeaders(hs, Len(hs), m.headers)
      /\ Len(hs) \in Nat \ {0}
  BY <1>3, <1>4, HeadersHold
<1> HIDE DEF hs
<1>6. asked \in Seq(Slots(Len(hs)))
  <2>1. Absent \in Slots(Len(hs)) /\ Ref(Len(hs)) \in Slots(Len(hs))
    <3>1. Len(hs) \in 0..Len(hs)
      BY <1>5
    <3> QED BY <1>5, <3>1, SlotFacts
  <2> QED BY <2>1
<1>7. /\ SlotOf(asked, 0) = Ref(0) /\ SlotOf(asked, 2) = Ref(0)
      /\ SlotOf(asked, 4) = Ref(Len(hs)) /\ SlotOf(asked, 5) = Bit(m.auth)
  <2>1. Ref(0) = Absent /\ Bit(m.auth) = Absent
    BY <1>2 DEF Ref, Bit, Slot
  <2> QED BY <2>1 DEF SlotOf
<1> HIDE DEF asked
<1>8. /\ http.buf \in Cells /\ Ends(http.buf, hs) /\ http.ref \in Len(hs) + 1 .. Len(http.buf)
      /\ \A j \in Nat : HasField(http.buf, http.ref, j, SlotOf(asked, j))
  BY <1>5, <1>6, TableHolds
<1> HIDE DEF http
<1>9. /\ HasField(http.buf, http.ref, 0, Ref(0)) /\ HasField(http.buf, http.ref, 2, Ref(0))
      /\ HasField(http.buf, http.ref, 4, Ref(Len(hs)))
      /\ HasField(http.buf, http.ref, 5, Bit(m.auth))
  BY <1>7, <1>8
<1>10. /\ Len(http.buf) \in Nat /\ http.ref \in Nat \ {0} /\ http.ref \in 0..Len(http.buf)
       /\ Len(body) \in 0..Len(http.buf)
  <2>1. Len(http.buf) \in Nat
    BY <1>8 DEF Cells
  <2>2. Len(body) <= Len(hs) /\ Len(hs) <= Len(http.buf)
    BY <1>5, <1>8 DEF Ends
  <2> QED BY <1>4, <1>5, <1>8, <2>1, <2>2
<1>11. slots \in Seq(Slots(Len(http.buf)))
  <2>1. /\ Ref(http.ref) \in Slots(Len(http.buf)) /\ Ref(Len(body)) \in Slots(Len(http.buf))
        /\ Bit(m.close) \in Slots(Len(http.buf)) /\ Bit(m.done) \in Slots(Len(http.buf))
        /\ Absent \in Slots(Len(http.buf)) /\ Slot(m.status, 0) \in Slots(Len(http.buf))
        /\ Slot(m.stream, 0) \in Slots(Len(http.buf)) /\ Slot(m.size, -1) \in Slots(Len(http.buf))
    BY <1>3, <1>10, SlotFacts
  <2> QED BY <2>1
<1>12. /\ SlotOf(slots, 0) = Slot(m.stream, 0) /\ SlotOf(slots, 1) = Bit(m.open)
       /\ SlotOf(slots, 2) = Bit(m.close) /\ SlotOf(slots, 3) = Bit(m.done)
       /\ SlotOf(slots, 5) = Slot(m.size, -1) /\ SlotOf(slots, 6) = Ref(Len(body))
       /\ SlotOf(slots, 9) = Ref(http.ref) /\ SlotOf(slots, 11) = Slot(m.status, 0)
  <2>1. Bit(m.open) = Absent
    BY <1>2 DEF Bit, Slot
  <2> QED BY <2>1 DEF SlotOf
<1> HIDE DEF slots
<1>13. WebStreamMsg \in Int
  BY DEF WebStreamMsg
<1>14. PICK buf \in Cells, root \in Nat, t \in Nat :
         Framed(raw, WebStreamMsg, http.buf, slots, buf, root, t)
  BY <1>1, <1>8, <1>11, <1>13, MessageHolds
<1>15. Ends(buf, http.buf) /\ \A j \in Nat : HasField(buf, t, j, SlotOf(slots, j))
  BY <1>14 DEF Framed
<1>16. Ends(buf, hs) /\ Ends(buf, body)
  <2>1. Ends(buf, hs)
    BY <1>5, <1>8, <1>15, EndsOfEnds
  <2> QED BY <1>4, <1>5, <2>1, EndsOfEnds
<1>17. StreamFields(buf, t, m, Len(body), http.ref)
  <2>1. IsText(buf, Len(body), m.data)
    BY <1>3, <1>4, <1>16, TextStays
  <2>2. /\ HasField(buf, t, 0, Slot(m.stream, 0)) /\ HasField(buf, t, 1, Bit(m.open))
        /\ HasField(buf, t, 2, Bit(m.close)) /\ HasField(buf, t, 3, Bit(m.done))
        /\ HasField(buf, t, 5, Slot(m.size, -1)) /\ HasField(buf, t, 6, Ref(Len(body)))
        /\ HasField(buf, t, 11, Slot(m.status, 0)) /\ HasField(buf, t, 9, Ref(http.ref))
    BY <1>12, <1>15
  <2> QED BY <1>4, <1>10, <2>1, <2>2 DEF StreamFields
<1>18. HttpFields(buf, http.ref, m, 0, 0, Len(hs))
  <2>1. IsText(buf, 0, m.path) /\ IsText(buf, 0, m.method)
    BY <1>2 DEF IsText
  <2>2. IsHeaders(buf, Len(hs), m.headers)
    BY <1>3, <1>5, <1>16, HeadersStay
  <2>3. /\ HasField(buf, http.ref, 0, Ref(0)) /\ HasField(buf, http.ref, 2, Ref(0))
        /\ HasField(buf, http.ref, 4, Ref(Len(hs))) /\ HasField(buf, http.ref, 5, Bit(m.auth))
    BY <1>8, <1>9, <1>15, FieldStays
  <2> QED BY <1>5, <2>1, <2>2, <2>3 DEF HttpFields
<1> QED BY <1>2, <1>14, <1>17, <1>18, StreamTaken

(* A message of another context is ignored. *)
LEMMA OtherRead ==
  ASSUME NEW c \in {4, 5}, NEW b \in BOOLEAN, NEW raw,
         raw = Finish(c, Table(<<>>, <<Bit(b)>>, 0))
  PROVE  raw # <<>> /\ Handle(raw) = {}
<1> DEFINE slots == <<Bit(b)>>
<1>1. <<>> \in Cells /\ slots \in Seq(Slots(Len(<<>>)))
  <2>1. Bit(b) \in Slots(0)
    BY SlotFacts
  <2> QED BY <2>1 DEF Cells
<1>2. c \in Int /\ c # HandshakeAck /\ c # WebStreamMsg
  BY DEF HandshakeAck, WebStreamMsg
<1>3. raw = Finish(c, Table(<<>>, slots, 0))
  OBVIOUS
<1> HIDE DEF slots
<1>4. PICK buf \in Cells, root \in Nat, t \in Nat : Framed(raw, c, <<>>, slots, buf, root, t)
  BY <1>1, <1>2, <1>3, MessageHolds
<1>5. AcksIn(buf) = {} /\ StreamsIn(buf, "stream") = {}
  BY <1>2, <1>4, OtherIn
<1>6. raw # <<>> /\ StripPrefix(raw) = buf /\ Len(buf) >= 2
  BY <1>4 DEF Framed
<1> QED BY <1>5, <1>6 DEF Handle, AcksIn, StreamsIn

LEMMA SynShape ==
  ASSUME NEW m \in Syn
  PROVE  /\ m.printer \in Cells /\ m.key \in Cells /\ m.challenge \in Cells /\ m.version \in Cells
         /\ m.ip \in Cells /\ m.octokey \in Cells /\ m.webcam \in Cells /\ m.host \in Int
         /\ m = [printer |-> m.printer, key |-> m.key, challenge |-> m.challenge,
                 version |-> m.version, ip |-> m.ip, octokey |-> m.octokey, host |-> m.host,
                 webcam |-> m.webcam]
<1>1. Strings \in SUBSET Cells /\ Fewer \in SUBSET Cells /\ Numbers \in SUBSET Int
  BY CellsAssumption DEF Cells
<1>2. Set \in SUBSET Cells
  BY <1>1 DEF Set
<1>3. /\ m.printer \in Set /\ m.key \in Set /\ m.challenge \in Set /\ m.version \in Set
      /\ m.ip \in Strings /\ m.octokey \in Strings /\ m.webcam \in Strings /\ m.host \in Numbers
  BY DEF Syn
<1>4. m = [printer |-> m.printer, key |-> m.key, challenge |-> m.challenge,
           version |-> m.version, ip |-> m.ip, octokey |-> m.octokey, host |-> m.host,
           webcam |-> m.webcam]
  BY DEF Syn
<1> QED BY <1>1, <1>2, <1>3, <1>4

(* The property with the webcam's address; none, and no vector, without one. *)
WebcamIn(buf, o, url) ==
  /\ url = <<>> => o = 0
  /\ url # <<>> => o # 0 /\ IsHeaders(buf, o, << <<WebcamUrl, url>> >>)

LEMMA SynRead ==
  ASSUME NEW m \in Syn, NEW raw, raw = BuildSyn(m)
  PROVE  raw # <<>> /\ SynsIn(StripPrefix(raw)) = {[as |-> "syn", msg |-> m]}
<1> DEFINE printer == String(<<>>, m.printer)
           key == String(printer, m.key)
           challenge == String(key, m.challenge)
           version == String(challenge, m.version)
           ip == Optional(version, m.ip)
           octokey == Optional(ip, m.octokey)
           named == << <<WebcamUrl, m.webcam>> >>
           webcam == Headers(octokey, named)
           last == IF m.webcam = <<>> THEN octokey ELSE webcam
           cam == IF m.webcam = <<>> THEN 0 ELSE Len(webcam)
           yes == Bit(TRUE)
           slots == <<Ref(Len(printer)), yes, Ref(Len(version)), OptionalRef(version, m.ip),
                      Absent, OptionalRef(ip, m.octokey), Ref(Len(challenge)), Slot(1, 0), Absent,
                      Absent, Absent, Ref(Len(key)), Slot(1, 0), Slot(m.host, 0), Absent, Absent,
                      Slot(2, 0), Absent, Absent, Ref(cam)>>
<1>1. raw = Finish(HandshakeSyn, Table(last, slots, 0))
  BY Zenon DEF BuildSyn
<1>2. /\ m.printer \in Cells /\ m.key \in Cells /\ m.challenge \in Cells /\ m.version \in Cells
      /\ m.ip \in Cells /\ m.octokey \in Cells /\ m.webcam \in Cells /\ m.host \in Int
      /\ <<>> \in Cells
  BY SynShape DEF Cells
<1>2a. \A n \in Nat : yes \in Slots(n)
  BY SlotFacts
<1> HIDE DEF yes
<1>3. printer \in Cells /\ IsString(printer, Len(printer), m.printer) /\ Len(printer) \in Nat \ {0}
  BY <1>2, StringHolds
<1> HIDE DEF printer
<1>4. /\ key \in Cells /\ Ends(key, printer) /\ IsString(key, Len(key), m.key)
      /\ Len(key) \in Nat \ {0}
  BY <1>2, <1>3, StringHolds
<1> HIDE DEF key
<1>5. /\ challenge \in Cells /\ Ends(challenge, key) /\ Len(challenge) \in Nat \ {0}
      /\ IsString(challenge, Len(challenge), m.challenge)
  BY <1>2, <1>4, StringHolds
<1> HIDE DEF challenge
<1>6. /\ version \in Cells /\ Ends(version, challenge) /\ Len(version) \in Nat \ {0}
      /\ IsString(version, Len(version), m.version)
  BY <1>2, <1>5, StringHolds
<1> HIDE DEF version
<1>7. /\ ip \in Cells /\ Ends(ip, version)
      /\ \E o \in 0..Len(ip) : OptionalRef(version, m.ip) = Ref(o) /\ IsText(ip, o, m.ip)
  BY <1>2, <1>6, OptionalHolds
<1> HIDE DEF ip
<1>8. /\ octokey \in Cells /\ Ends(octokey, ip)
      /\ \E o \in 0..Len(octokey) : /\ OptionalRef(ip, m.octokey) = Ref(o)
                                    /\ IsText(octokey, o, m.octokey)
  BY <1>2, <1>7, OptionalHolds
<1> HIDE DEF octokey
<1>9. PICK o3 \in 0..Len(ip) : OptionalRef(version, m.ip) = Ref(o3) /\ IsText(ip, o3, m.ip)
  BY <1>7
<1>10. PICK o5 \in 0..Len(octokey) :
         OptionalRef(ip, m.octokey) = Ref(o5) /\ IsText(octokey, o5, m.octokey)
  BY <1>8
<1>11. named \in Seq(Cells \X Cells) /\ Len(named) <= 3 /\ named[1][2] = m.webcam
  <2>1. WebcamUrl \in Cells
    BY CellsAssumption DEF Cells
  <2> QED BY <1>2, <2>1
<1>12. named = << <<WebcamUrl, m.webcam>> >> /\ named # <<>>
  BY <1>11
<1> HIDE DEF named
<1>13. /\ webcam \in Cells /\ Ends(webcam, octokey) /\ IsHeaders(webcam, Len(webcam), named)
       /\ Len(webcam) \in Nat \ {0}
  BY <1>8, <1>11, HeadersHold
<1> HIDE DEF webcam
<1>14. /\ last \in Cells /\ Ends(last, octokey) /\ cam \in 0..Len(last) /\ cam \in Nat
       /\ WebcamIn(last, cam, m.webcam)
  <2>1. CASE m.webcam = <<>>
    <3>1. Len(octokey) \in Nat
      BY <1>8 DEF Cells
    <3> QED BY <1>8, <2>1, <3>1, EndsSelf DEF WebcamIn
  <2>2. CASE m.webcam # <<>>
    BY <1>12, <1>13, <2>2 DEF WebcamIn
  <2> QED BY <2>1, <2>2
<1> HIDE DEF last, cam
<1>15. /\ Ends(last, ip) /\ Ends(last, version) /\ Ends(last, challenge) /\ Ends(last, key)
       /\ Ends(last, printer)
  <2>1. Ends(last, ip)
    BY <1>7, <1>8, <1>14, EndsOfEnds
  <2>2. Ends(last, version)
    BY <1>6, <1>7, <1>14, <2>1, EndsOfEnds
  <2>3. Ends(last, challenge)
    BY <1>5, <1>6, <1>14, <2>2, EndsOfEnds
  <2>4. Ends(last, key)
    BY <1>4, <1>5, <1>14, <2>3, EndsOfEnds
  <2> QED BY <1>3, <1>4, <1>14, <2>1, <2>2, <2>3, <2>4, EndsOfEnds
<1>16. /\ Len(last) \in Nat /\ Len(printer) \in 0..Len(last) /\ Len(key) \in 0..Len(last)
       /\ Len(challenge) \in 0..Len(last) /\ Len(version) \in 0..Len(last)
       /\ o3 \in 0..Len(last) /\ o5 \in 0..Len(last) /\ o3 \in Nat /\ o5 \in Nat
  <2>1. Len(last) \in Nat /\ Len(ip) \in Nat /\ Len(octokey) \in Nat
    BY <1>7, <1>8, <1>14 DEF Cells
  <2>2. /\ Len(ip) <= Len(last) /\ Len(octokey) <= Len(last) /\ Len(version) <= Len(last)
        /\ Len(challenge) <= Len(last) /\ Len(key) <= Len(last) /\ Len(printer) <= Len(last)
    BY <1>14, <1>15 DEF Ends
  <2> QED BY <1>3, <1>4, <1>5, <1>6, <1>9, <1>10, <2>1, <2>2
<1>17. slots \in Seq(Slots(Len(last)))
  <2>1. /\ Ref(Len(printer)) \in Slots(Len(last)) /\ Ref(Len(key)) \in Slots(Len(last))
        /\ Ref(Len(challenge)) \in Slots(Len(last)) /\ Ref(Len(version)) \in Slots(Len(last))
        /\ Ref(o3) \in Slots(Len(last)) /\ Ref(o5) \in Slots(Len(last))
        /\ Ref(cam) \in Slots(Len(last)) /\ Absent \in Slots(Len(last))
    BY <1>14, <1>16, SlotFacts
  <2>2. /\ yes \in Slots(Len(last)) /\ Slot(1, 0) \in Slots(Len(last))
        /\ Slot(m.host, 0) \in Slots(Len(last)) /\ Slot(2, 0) \in Slots(Len(last))
    <3>1. \A x, d \in Int : Slot(x, d) \in Slots(Len(last))
      BY <1>16, SlotFacts
    <3>2. 0 \in Int /\ 1 \in Int /\ 2 \in Int
      OBVIOUS
    <3> QED BY <1>2, <1>2a, <1>16, <3>1, <3>2, Zenon
  <2> DEFINE S == Slots(Len(last))
  <2>3. /\ Ref(Len(printer)) \in S /\ Ref(Len(key)) \in S /\ Ref(Len(challenge)) \in S
        /\ Ref(Len(version)) \in S /\ OptionalRef(version, m.ip) \in S
        /\ OptionalRef(ip, m.octokey) \in S /\ Ref(cam) \in S /\ Absent \in S
        /\ yes \in S /\ Slot(1, 0) \in S /\ Slot(m.host, 0) \in S /\ Slot(2, 0) \in S
    BY <1>9, <1>10, <2>1, <2>2
  <2> HIDE DEF S
  <2>4. slots \in Seq(S)
    BY <2>3
  <2> QED BY <2>4 DEF S
<1>18. /\ SlotOf(slots, 0) = Ref(Len(printer)) /\ SlotOf(slots, 2) = Ref(Len(version))
       /\ SlotOf(slots, 3) = Ref(o3) /\ SlotOf(slots, 5) = Ref(o5)
       /\ SlotOf(slots, 6) = Ref(Len(challenge)) /\ SlotOf(slots, 11) = Ref(Len(key))
       /\ SlotOf(slots, 13) = Slot(m.host, 0) /\ SlotOf(slots, 19) = Ref(cam)
  BY <1>9, <1>10 DEF SlotOf
<1> HIDE DEF slots
<1>19. HandshakeSyn \in Int
  BY DEF HandshakeSyn
<1>20. PICK buf \in Cells, root \in Nat, t \in Nat :
         Framed(raw, HandshakeSyn, last, slots, buf, root, t)
  BY <1>1, <1>14, <1>17, <1>19, MessageHolds
<1>21. /\ raw # <<>> /\ StripPrefix(raw) = buf /\ Ends(buf, last)
       /\ \A j \in Nat : HasField(buf, t, j, SlotOf(slots, j))
  BY <1>20 DEF Framed
<1>22. /\ HasField(buf, t, 0, Ref(Len(printer))) /\ HasField(buf, t, 2, Ref(Len(version)))
       /\ HasField(buf, t, 3, Ref(o3)) /\ HasField(buf, t, 5, Ref(o5))
       /\ HasField(buf, t, 6, Ref(Len(challenge))) /\ HasField(buf, t, 11, Ref(Len(key)))
       /\ HasField(buf, t, 13, Slot(m.host, 0)) /\ HasField(buf, t, 19, Ref(cam))
  BY <1>18, <1>21
<1>23. /\ Ends(buf, octokey) /\ Ends(buf, ip) /\ Ends(buf, version) /\ Ends(buf, challenge)
       /\ Ends(buf, key) /\ Ends(buf, printer)
  <2>1. Ends(buf, octokey) /\ Ends(buf, ip) /\ Ends(buf, version)
    BY <1>6, <1>7, <1>8, <1>14, <1>15, <1>21, EndsOfEnds
  <2>2. Ends(buf, challenge) /\ Ends(buf, key) /\ Ends(buf, printer)
    BY <1>3, <1>4, <1>5, <1>14, <1>15, <1>21, EndsOfEnds
  <2> QED BY <2>1, <2>2
<1>24. /\ IsText(buf, Len(printer), m.printer) /\ IsText(buf, Len(key), m.key)
       /\ IsText(buf, Len(challenge), m.challenge) /\ IsText(buf, Len(version), m.version)
  <2>1. IsString(buf, Len(printer), m.printer) /\ IsString(buf, Len(key), m.key)
    BY <1>2, <1>3, <1>4, <1>23, StringStays
  <2>2. IsString(buf, Len(challenge), m.challenge) /\ IsString(buf, Len(version), m.version)
    BY <1>2, <1>5, <1>6, <1>23, StringStays
  <2> QED BY <1>3, <1>4, <1>5, <1>6, <2>1, <2>2 DEF IsText
<1>25. IsText(buf, o3, m.ip) /\ IsText(buf, o5, m.octokey)
  BY <1>2, <1>7, <1>8, <1>9, <1>10, <1>23, TextStays
<1>26. WebcamIn(buf, cam, m.webcam)
  <2>1. CASE m.webcam = <<>>
    BY <1>14, <2>1 DEF WebcamIn
  <2>2. CASE m.webcam # <<>>
    <3>1. cam # 0 /\ IsHeaders(last, cam, named)
      BY <1>12, <1>14, <2>2 DEF WebcamIn
    <3>2. IsHeaders(buf, cam, named)
      BY <1>11, <1>14, <1>21, <3>1, HeadersStay
    <3> QED BY <1>12, <2>2, <3>1, <3>2 DEF WebcamIn
  <2> QED BY <2>1, <2>2
<1>27. PICK at : at = Len(buf) - t
  OBVIOUS
<1>28. /\ NumbersRead(buf, t, at) /\ TextsRead(buf, t, at) /\ PairsRead(buf, t, at)
       /\ OffsetsRead(buf, t, at)
  <2>1. FieldsRead(buf, t, at)
    BY <1>27, AllRead
  <2> QED BY <2>1 DEF FieldsRead
<1>29. /\ ReadString(buf, at, 0) = {m.printer} /\ ReadString(buf, at, 11) = {m.key}
       /\ ReadString(buf, at, 6) = {m.challenge} /\ ReadString(buf, at, 2) = {m.version}
  BY <1>2, <1>3, <1>4, <1>5, <1>6, <1>22, <1>24, <1>28 DEF TextsRead
<1>30. ReadString(buf, at, 3) = {m.ip} /\ ReadString(buf, at, 5) = {m.octokey}
  BY <1>2, <1>16, <1>22, <1>25, <1>28, SMTT(30) DEF TextsRead
<1>31. ReadNumber(buf, at, 13) = {m.host}
  BY <1>2, <1>22, <1>28, SMTT(30) DEF NumbersRead, ReadNumber
<1> DEFINE w == IF m.webcam = <<>> THEN <<>> ELSE named
<1>32. ReadHeaders(buf, at, 19) = {w} /\ m.webcam = (IF w = <<>> THEN <<>> ELSE w[1][2])
  <2>1. CASE m.webcam = <<>>
    <3>1. cam = 0
      BY <1>14, <2>1 DEF WebcamIn
    <3>2. ReadOffset(buf, at, 19) = {0}
      BY <1>14, <1>22, <1>28, <3>1 DEF OffsetsRead
    <3> QED BY <2>1, <3>2 DEF ReadHeaders
  <2>2. CASE m.webcam # <<>>
    <3>1. IsHeaders(buf, cam, named)
      BY <1>12, <1>26, <2>2 DEF WebcamIn
    <3>2. ReadHeaders(buf, at, 19) = {named}
      <4>1. HasField(buf, t, 19, Ref(cam)) /\ cam \in Nat /\ named \in Seq(Cells \X Cells)
        BY <1>11, <1>14, <1>22
      <4>2. \A j \in Nat, o \in Nat, hs \in Seq(Cells \X Cells) :
              HasField(buf, t, j, Ref(o)) /\ IsHeaders(buf, o, hs) => ReadHeaders(buf, at, j) = {hs}
        BY <1>28 DEF PairsRead
      <4>3. 19 \in Nat
        OBVIOUS
      <4> QED BY <3>1, <4>1, <4>2, <4>3, Zenon
    <3> QED BY <1>11, <1>12, <2>2, <3>2
  <2> QED BY <2>1, <2>2
<1> HIDE DEF w
<1>33. ParseSyn(buf, at) = {m}
  <2> DEFINE Url(x) == IF x = <<>> THEN <<>> ELSE x[1][2]
  <2> DEFINE All(P, K, C, V, I, O, H, X) ==
               {[printer |-> p, key |-> k, challenge |-> c, version |-> v, ip |-> i,
                 octokey |-> o, host |-> h, webcam |-> Url(x)] :
                  p \in P, k \in K, c \in C, v \in V, i \in I, o \in O, h \in H, x \in X}
  <2>1. ParseSyn(buf, at) =
          All(ReadString(buf, at, 0), ReadString(buf, at, 11), ReadString(buf, at, 6),
              ReadString(buf, at, 2), ReadString(buf, at, 3), ReadString(buf, at, 5),
              ReadNumber(buf, at, 13), ReadHeaders(buf, at, 19))
    BY DEF ParseSyn
  <2>2. Url(w) = m.webcam
    BY <1>32
  <2> HIDE DEF Url
  <2>3. All({m.printer}, {m.key}, {m.challenge}, {m.version}, {m.ip}, {m.octokey}, {m.host}, {w}) =
          {[printer |-> m.printer, key |-> m.key, challenge |-> m.challenge,
            version |-> m.version, ip |-> m.ip, octokey |-> m.octokey, host |-> m.host,
            webcam |-> Url(w)]}
    OBVIOUS
  <2> HIDE DEF All
  <2>4. ParseSyn(buf, at) =
          {[printer |-> m.printer, key |-> m.key, challenge |-> m.challenge,
            version |-> m.version, ip |-> m.ip, octokey |-> m.octokey, host |-> m.host,
            webcam |-> Url(w)]}
    <3>1. ReadHeaders(buf, at, 19) = {w}
      BY <1>32
    <3> QED BY <1>29, <1>30, <1>31, <2>1, <2>3, <3>1
  <2> QED BY <2>2, <2>4, SynShape
<1>34. SynsIn(buf) = Readings("syn", ParseSyn(buf, at))
  BY <1>20, <1>27, SynIn
<1> QED BY <1>21, <1>33, <1>34 DEF Readings

-----------------------------------------------------------------------------
(* The message s, written as raw. *)
Spoken(raw, s) ==
  \/ \E m \in Syn : s = [as |-> "syn", msg |-> m] /\ raw = BuildSyn(m)
  \/ \E m \in Ack, e \in Extra : s = [as |-> "ack", msg |-> m] /\ raw = BuildAck(m, e)
  \/ \E m \in Request, e \in Extra : s = [as |-> "stream", msg |-> m] /\ raw = BuildRequest(m, e)
  \/ \E c \in {4, 5}, m \in Ack :
       s = [as |-> "other", msg |-> m] /\ raw = Finish(c, Table(<<>>, <<Bit(m.accepted)>>, 0))
  \/ \E m : IsResponse(m) /\ s = [as |-> "answer", msg |-> m] /\ raw = BuildResponse(m)

(* What is on the wire was written from what was to be said; off the wire,  *)
(* it has been read.                                                        *)
Carried ==
  /\ wire # <<>> => Spoken(wire, sent)
  /\ wire = <<>> =>
       /\ sent.as \in {"nothing", "syn", "ack", "stream", "other", "answer"}
       /\ sent.as \in {"nothing", "other"} => got = {}
       /\ sent.as \in {"syn", "ack", "stream", "answer"} => got = {sent}
       /\ sent.as = "stream" => sent.msg \in Request

(* Reading what was written gives what was to be said. *)
LEMMA Understood ==
  ASSUME NEW raw, NEW s, Spoken(raw, s)
  PROVE  /\ raw # <<>> /\ s.as \in {"syn", "ack", "stream", "other", "answer"}
         /\ s.as = "syn" => SynsIn(StripPrefix(raw)) = {s}
         /\ s.as = "ack" => Handle(raw) = {s}
         /\ s.as = "stream" => Handle(raw) = {s} /\ s.msg \in Request
         /\ s.as = "other" => Handle(raw) = {}
         /\ s.as = "answer" => StreamsIn(StripPrefix(raw), "answer") = {s}
<1>1. ASSUME NEW m \in Syn, s = [as |-> "syn", msg |-> m], raw = BuildSyn(m)
      PROVE  raw # <<>> /\ s.as = "syn" /\ SynsIn(StripPrefix(raw)) = {s}
  BY <1>1, SynRead
<1>2. ASSUME NEW m \in Ack, NEW e \in Extra, s = [as |-> "ack", msg |-> m], raw = BuildAck(m, e)
      PROVE  raw # <<>> /\ s.as = "ack" /\ Handle(raw) = {s}
  BY <1>2, AckRead
<1>3. ASSUME NEW m \in Request, NEW e \in Extra, s = [as |-> "stream", msg |-> m],
             raw = BuildRequest(m, e)
      PROVE  raw # <<>> /\ s.as = "stream" /\ Handle(raw) = {s} /\ s.msg \in Request
  BY <1>3, RequestRead
<1>4. ASSUME NEW c \in {4, 5}, NEW m \in Ack, s = [as |-> "other", msg |-> m],
             raw = Finish(c, Table(<<>>, <<Bit(m.accepted)>>, 0))
      PROVE  raw # <<>> /\ s.as = "other" /\ Handle(raw) = {}
  <2>1. m.accepted \in BOOLEAN
    BY DEF Ack
  <2> QED BY <1>4, <2>1, OtherRead
<1>5. ASSUME NEW m, IsResponse(m), s = [as |-> "answer", msg |-> m], raw = BuildResponse(m)
      PROVE  raw # <<>> /\ s.as = "answer" /\ StreamsIn(StripPrefix(raw), "answer") = {s}
  BY <1>5, ResponseRead
<1>6. raw # <<>>
  BY <1>1, <1>2, <1>3, <1>4, <1>5 DEF Spoken
<1>7. \/ s.as = "syn" /\ SynsIn(StripPrefix(raw)) = {s}
      \/ s.as = "ack" /\ Handle(raw) = {s}
      \/ s.as = "stream" /\ Handle(raw) = {s} /\ s.msg \in Request
      \/ s.as = "other" /\ Handle(raw) = {}
      \/ s.as = "answer" /\ StreamsIn(StripPrefix(raw), "answer") = {s}
  BY <1>1, <1>2, <1>3, <1>4, <1>5 DEF Spoken
<1> QED BY <1>6, <1>7

(* ReadAsSent, for strings, scalars and headers of any value, for any      *)
(* number of fields the client does not know, and for every combination of *)
(* those left out: what oe_protocol.py reads is what was written, whichever *)
(* side wrote it.                                                          *)
THEOREM WireUnderstood == WireSpec => []ReadAsSent
<1>1. WireInit => Carried
  BY DEF WireInit, Carried, Silence
<1>2. Carried /\ [WireNext]_wireVars => Carried'
  <2> SUFFICES ASSUME Carried, [WireNext]_wireVars PROVE Carried'
    OBVIOUS
  <2>0. Spoken(wire', sent') => Carried'
    BY Understood DEF Carried
  <2>1. CASE SendSyn
    BY <2>1, <2>0 DEF SendSyn, Says, Spoken
  <2>2. CASE CloudAcks
    BY <2>2, <2>0 DEF CloudAcks, Says, Spoken
  <2>3. CASE CloudAsks
    BY <2>3, <2>0 DEF CloudAsks, Says, Spoken
  <2>4. CASE CloudTells
    BY <2>4, <2>0 DEF CloudTells, Says, Spoken
  <2>5. CASE Receive
    <3>1. /\ wire # <<>> /\ sent.as \in {"ack", "stream", "other"}
          /\ got' = Handle(wire) /\ wire' = <<>> /\ sent' = sent
      BY <2>5 DEF Receive
    <3>2. Spoken(wire, sent)
      BY <3>1 DEF Carried
    <3>3. /\ sent.as = "ack" => got' = {sent}
          /\ sent.as = "stream" => got' = {sent} /\ sent.msg \in Request
          /\ sent.as = "other" => got' = {}
      BY <3>1, <3>2, Understood
    <3> QED BY <3>1, <3>3 DEF Carried
  <2>6. CASE Respond
    <3>1. PICK g \in got, body \in Strings, status \in {200, 404} :
            /\ g.as = "stream" /\ wire = <<>>
            /\ Says("answer", Response(g.msg.stream, status, body),
                    BuildResponse(Response(g.msg.stream, status, body)))
      BY <2>6 DEF Respond
    <3>2. g = sent /\ sent.as = "stream" /\ sent.msg \in Request
      BY <3>1 DEF Carried
    <3>3. g.msg.stream \in Numbers
      BY <3>2 DEF Request
    <3> DEFINE m == Response(g.msg.stream, status, body)
    <3>4. IsResponse(m)
      BY <3>3, ResponseShape
    <3>5. wire' = BuildResponse(m) /\ sent' = [as |-> "answer", msg |-> m]
      BY <3>1 DEF Says
    <3> HIDE DEF m
    <3> QED BY <2>0, <3>4, <3>5 DEF Spoken
  <2>7. CASE CloudReads
    <3>1. /\ wire # <<>> /\ sent.as \in {"syn", "answer"} /\ wire' = <<>> /\ sent' = sent
          /\ sent.as = "syn" => got' = SynsIn(StripPrefix(wire))
          /\ sent.as = "answer" => got' = StreamsIn(StripPrefix(wire), "answer")
      BY <2>7 DEF CloudReads, SynsIn, StreamsIn
    <3>2. Spoken(wire, sent)
      BY <3>1 DEF Carried
    <3>3. got' = {sent}
      BY <3>1, <3>2, Understood
    <3> QED BY <3>1, <3>3 DEF Carried
  <2>8. CASE UNCHANGED wireVars
    BY <2>8 DEF wireVars, Carried, Spoken
  <2> QED BY <2>1, <2>2, <2>3, <2>4, <2>5, <2>6, <2>7, <2>8 DEF WireNext
<1>3. Carried => ReadAsSent
  BY DEF Carried, ReadAsSent
<1> QED BY <1>1, <1>2, <1>3, PTL DEF WireSpec
=============================================================================
