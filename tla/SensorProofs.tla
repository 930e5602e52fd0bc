---------------------------- MODULE SensorProofs ----------------------------
(***************************************************************************)
(* The node sensor: SensorSpool's promise that records are not lost nor    *)
(* reordered, for any frame sizes, budget, threshold, number of records    *)
(* and crashes, and HostEnforcer's that an ack is honest.  The two share   *)
(* no variable.                                                            *)
(***************************************************************************)
EXTENDS SensorSpool, HostEnforcer, TLAPS, SequenceTheorems, WellFoundedInduction

-----------------------------------------------------------------------------
(* The spool: what its proofs need *)

(***************************************************************************)
(* Where the task is: enqueue has a record to append, and on the normal    *)
(* lane may be making room for it; a record has been read.                 *)
(***************************************************************************)
Toward(labels) == pc \in labels \/ (pc = "persist" /\ after \in labels)
Enqueuing == Toward({"evict", "drop", "append", "compact_then_append"})
HasRead == Toward({"drop", "send", "ack"})

ControlInv ==
  /\ pc = "persist" <=> after # "idle"
  /\ Enqueuing => incoming.id + 1 = nextId /\ incoming.size \in Sizes /\ incoming.id \in Ids
  /\ HasRead => reading.id \in Ids /\ reading.size \in Sizes
  /\ Toward({"evict", "drop"}) => lane = "normal"

(***************************************************************************)
(* A whole frame starts at this offset of a log, and an offset where one   *)
(* may start: the end of the log or a frame's first cell.                  *)
(***************************************************************************)
Whole(s, o) ==
  /\ o < Len(s)
  /\ o + s[o + 1].size <= Len(s)
  /\ \A k \in 1 .. s[o + 1].size : s[o + k].id = s[o + 1].id /\ s[o + k].part = k

Starts(s, o) == o <= Len(s) /\ (o < Len(s) => s[o + 1].part = 1)

(***************************************************************************)
(* A log is a row of frames, each whole or torn off at its end, with       *)
(* rising ids.                                                             *)
(***************************************************************************)
Framed(s) ==
  /\ \A i \in 1 .. Len(s) :
       /\ s[i].part \in 1 .. s[i].size
       /\ s[i].part > 1 => i > 1 /\ s[i - 1].id = s[i].id /\ s[i - 1].part = s[i].part - 1
  /\ \A i, j \in 1 .. Len(s) : i < j =>
       /\ s[i].id <= s[j].id
       /\ s[i].id = s[j].id => s[j].part - s[i].part = j - i /\ s[j].size = s[i].size

Below(s, n) == \A i \in 1 .. Len(s) : s[i].id < n

(***************************************************************************)
(* No id in use is that of a record still to be appended.                  *)
(***************************************************************************)
Unused == IF Enqueuing THEN incoming.id ELSE nextId

LogInv(l) ==
  /\ Framed(log[l])
  /\ Below(log[l], Unused)
  /\ \A i \in delivered[l] : i < Unused

Rewritten(l) == Compacted /\ lane = l

MarkInv(l) ==
  /\ Starts(log[l], ackMem[l])
  /\ ~Rewritten(l) => Starts(log[l], ackDisk[l]) /\ (pc # "down" => ackDisk[l] <= ackMem[l])

ReadInv ==
  lane \notin mispaired =>
  /\ HasRead => /\ Whole(log[lane], ackMem[lane])
                /\ reading.id = log[lane][ackMem[lane] + 1].id
                /\ reading.size = log[lane][ackMem[lane] + 1].size
  /\ pc = "ack" => reading.id \in delivered[lane]

Held(l, i) == \E o \in Nat : o >= Offset(l) /\ Whole(log[l], o) /\ log[l][o + 1].id = i

Lost(l) == IF l = "normal" THEN evicted ELSE {}

KeptInv(l) == \A i \in accepted[l] : i \in delivered[l] \cup Lost(l) \/ Held(l, i)

(***************************************************************************)
(* Nothing is claimed of a lane whose files a crash mispaired, but that    *)
(* only such a lane panics.                                                *)
(***************************************************************************)
SpoolInv ==
  /\ pc = "panicked" => lane \in mispaired
  /\ ReadInv
  /\ \A l \in Lanes \ mispaired : LogInv(l) /\ MarkInv(l) /\ KeptInv(l)
  /\ CriticalInOrder

-----------------------------------------------------------------------------
(* Cells and frames *)

(* A nonempty set of numbers has a least element.                          *)
LEMMA LeastOf ==
    ASSUME NEW S, S \subseteq Nat, S # {}
    PROVE  Min(S) \in S /\ \A y \in S : Min(S) <= y
<1>1. PICK x \in S : \A y \in S : ~(<<y, x>> \in OpToRel(<, Nat))
  BY NatLessThanWellFounded, WFMin
<1>2. \A y \in S : ~(y < x)
  BY <1>1 DEF OpToRel
<1>3. \A y \in S : x <= y
  BY <1>2
<1> QED
  BY <1>3 DEF Min

LEMMA CellTyped ==
    ASSUME NEW s \in Seq(Cells)
    PROVE  /\ Len(s) \in Nat
           /\ \A i \in 1 .. Len(s) : /\ s[i] \in Cells
                                     /\ s[i].id \in Ids /\ s[i].id \in Nat
                                     /\ s[i].part \in Nat
                                     /\ s[i].size \in Sizes /\ s[i].size \in Nat \ {0}
<1>1. Len(s) \in Nat /\ \A i \in 1 .. Len(s) : s[i] \in Cells
  BY LenProperties, ElementOfSeq
<1>2. ASSUME NEW i \in 1 .. Len(s)
      PROVE  /\ s[i].id \in Ids /\ s[i].part \in Nat /\ s[i].size \in Sizes
  BY <1>1 DEF Cells
<1>3. Ids \subseteq Nat /\ Sizes \subseteq Nat \ {0}
  BY SizesAssumption, BoundsAssumption DEF Ids
<1> QED
  BY <1>1, <1>2, <1>3

(* Offset 0 is one where a frame may start.                                *)
LEMMA StartsAtZero ==
    ASSUME NEW s \in Seq(Cells), Framed(s)
    PROVE  Starts(s, 0)
<1>1. Len(s) \in Nat
  BY CellTyped
<1>2. ASSUME 0 < Len(s) PROVE s[1].part = 1
  <2>1. 1 \in 1 .. Len(s)
    BY <1>1, <1>2
  <2>2. s[1].part \in 1 .. s[1].size /\ ~(s[1].part > 1) /\ s[1].size \in Nat
    BY <2>1, CellTyped DEF Framed
  <2> QED
    BY <2>2
<1> QED
  BY <1>1, <1>2 DEF Starts

(* So is the end of a whole frame.                                         *)
LEMMA StartsAfterFrame ==
    ASSUME NEW s \in Seq(Cells), NEW o \in Nat, Framed(s), Whole(s, o)
    PROVE  Starts(s, o + s[o + 1].size)
<1> DEFINE n == s[o + 1].size
<1>1. /\ Len(s) \in Nat /\ o < Len(s) /\ n \in Nat \ {0} /\ o + n <= Len(s)
      /\ o + 1 \in 1 .. Len(s) /\ o + n \in 1 .. Len(s)
  <2>1. Len(s) \in Nat /\ o < Len(s) /\ o + 1 \in 1 .. Len(s)
    BY CellTyped DEF Whole
  <2>2. n \in Nat \ {0} /\ o + n <= Len(s)
    BY <2>1, CellTyped DEF Whole
  <2> QED
    BY <2>1, <2>2
<1>2. n \in 1 .. n
  BY <1>1
<1>3. s[o + n].id = s[o + 1].id /\ s[o + n].part = n
  BY <1>2 DEF Whole
<1>4. ASSUME o + n < Len(s) PROVE s[o + n + 1].part = 1
  <2>1. o + n + 1 \in 1 .. Len(s) /\ (o + n + 1) - 1 = o + n /\ o + 1 < o + n + 1
    BY <1>1, <1>4
  <2> DEFINE p == s[o + n + 1].part
  <2>2. p \in 1 .. s[o + n + 1].size /\ s[o + n + 1].size \in Nat
    BY <2>1, CellTyped DEF Framed
  <2>3. ASSUME p > 1 PROVE FALSE
    <3>1. s[o + n].id = s[o + n + 1].id /\ s[o + n].part = p - 1
      BY <2>1, <2>3 DEF Framed
    <3>2. s[o + n + 1].size = s[o + 1].size
      <4>1. PICK j \in 1 .. Len(s) : j = o + n + 1
        BY <2>1
      <4>2. PICK i \in 1 .. Len(s) : i = o + 1
        BY <1>1
      <4>3. i < j => (s[i].id = s[j].id => s[j].size = s[i].size)
        BY DEF Framed
      <4> QED
        BY <4>1, <4>2, <4>3, <2>1, <3>1, <1>3
    <3> QED
      BY <3>1, <3>2, <2>2, <1>3, <1>1
  <2> QED
    BY <2>2, <2>3
<1> QED
  BY <1>1, <1>4 DEF Starts

(* Whole frames do not overlap, and their ids rise.                        *)
LEMMA FramesApart ==
    ASSUME NEW s \in Seq(Cells), NEW o \in Nat, NEW q \in Nat, Framed(s),
           Whole(s, o), Whole(s, q), o < q
    PROVE  s[o + 1].id < s[q + 1].id /\ o + s[o + 1].size <= q
<1>1. /\ Len(s) \in Nat /\ o + 1 \in 1 .. Len(s) /\ q + 1 \in 1 .. Len(s) /\ o + 1 < q + 1
  BY CellTyped DEF Whole
<1>2. /\ s[o + 1].size \in Nat \ {0} /\ s[q + 1].size \in Nat \ {0}
      /\ s[o + 1].id \in Nat /\ s[q + 1].id \in Nat
  BY <1>1, CellTyped
<1>3. s[o + 1].part = 1 /\ s[q + 1].part = 1
  <2>1. 1 \in 1 .. s[o + 1].size /\ 1 \in 1 .. s[q + 1].size
    BY <1>2
  <2> QED
    BY <2>1 DEF Whole
<1>4. s[o + 1].id # s[q + 1].id
  <2>1. s[o + 1].id = s[q + 1].id => s[q + 1].part - s[o + 1].part = (q + 1) - (o + 1)
    BY <1>1 DEF Framed
  <2> QED
    BY <2>1, <1>3
<1>5. s[o + 1].id <= s[q + 1].id
  BY <1>1 DEF Framed
<1>6. ASSUME q < o + s[o + 1].size PROVE FALSE
  <2>0. PICK m \in Nat : m = s[o + 1].size
    BY <1>2
  <2>a. q < o + m
    BY <1>6, <2>0
  <2>b. (q + 1) - o \in 1 .. m /\ o + ((q + 1) - o) = q + 1
    BY <2>a
  <2>1. (q + 1) - o \in 1 .. s[o + 1].size /\ o + ((q + 1) - o) = q + 1
    BY <2>0, <2>b
  <2>2. s[q + 1].id = s[o + 1].id
    BY <2>1 DEF Whole
  <2> QED
    BY <2>2, <1>4
<1>7. s[o + 1].id < s[q + 1].id
  BY <1>2, <1>4, <1>5
<1>8. o + s[o + 1].size <= q
  <2>1. PICK m \in Nat : m = s[o + 1].size
    BY <1>2
  <2>2. ~(q < o + m)
    BY <1>6, <2>1
  <2> QED
    BY <2>1, <2>2
<1> QED
  BY <1>7, <1>8

(* What compaction leaves of a log.                                        *)
Rest(s, o) == SubSeq(s, o + 1, Len(s))

(* Compaction's rewrite: from an offset where a frame may start, what is   *)
(* left is framed, and whole frames stay whole.                            *)
LEMMA SuffixFramed ==
    ASSUME NEW s \in Seq(Cells), NEW o \in Nat, NEW t, NEW n \in Nat, Framed(s), Starts(s, o),
           Below(s, n), t = Rest(s, o)
    PROVE  /\ t \in Seq(Cells) /\ Framed(t) /\ Below(t, n)
           /\ \A q \in Nat : q >= o /\ Whole(s, q) =>
                Whole(t, q - o) /\ t[q - o + 1].id = s[q + 1].id
<1>1. Len(s) \in Nat /\ o <= Len(s)
  BY CellTyped DEF Starts
<1>2. \A i \in o + 1 .. Len(s) : s[i] \in Cells
  BY <1>1, CellTyped
<1>3. /\ t \in Seq(Cells) /\ Len(t) = Len(s) - o
      /\ \A i \in 1 .. Len(s) - o : t[i] = s[o + i]
  <2>1. /\ t \in Seq(Cells) /\ Len(t) = IF o + 1 <= Len(s) THEN Len(s) - (o + 1) + 1 ELSE 0
        /\ \A i \in 1 .. Len(s) - (o + 1) + 1 : t[i] = s[(o + 1) + i - 1]
    BY <1>1, <1>2, SubSeqProperties DEF Rest
  <2> QED
    BY <2>1, <1>1
<1>4. Framed(t)
  <2>1. ASSUME NEW i \in 1 .. Len(t)
        PROVE  /\ t[i].part \in 1 .. t[i].size
               /\ t[i].part > 1 => i > 1 /\ t[i - 1].id = t[i].id /\ t[i - 1].part = t[i].part - 1
    <3>a. i \in 1 .. Len(s) - o
      BY <1>3
    <3>b. o + i \in 1 .. Len(s)
      BY <1>1, <3>a
    <3>1. o + i \in 1 .. Len(s) /\ i \in 1 .. Len(s) - o /\ t[i] = s[o + i]
      BY <1>3, <3>a, <3>b
    <3>2. CASE i = 1
      <4>1. o < Len(s) /\ o + i = o + 1
        BY <3>1, <3>2, <1>1
      <4>2. t[i].part = 1
        BY <4>1, <3>1 DEF Starts
      <4>3. s[o + i].part \in 1 .. s[o + i].size
        BY <3>1 DEF Framed
      <4>4. ~(t[i].part > 1)
        BY <4>2
      <4> QED
        BY <3>1, <4>3, <4>4
    <3>3. CASE i > 1
      <4>1. i - 1 \in 1 .. Len(s) - o /\ (o + i) - 1 = o + (i - 1)
        BY <3>1, <3>3, <1>1
      <4>2. t[i - 1] = s[(o + i) - 1]
        BY <4>1, <1>3
      <4> QED
        BY <4>2, <3>1, <3>3 DEF Framed
    <3>4. i = 1 \/ i > 1
      BY <3>1, <1>1
    <3> QED
      BY <3>2, <3>3, <3>4
  <2>2. ASSUME NEW i \in 1 .. Len(t), NEW j \in 1 .. Len(t), i < j
        PROVE  /\ t[i].id <= t[j].id
               /\ t[i].id = t[j].id => t[j].part - t[i].part = j - i /\ t[j].size = t[i].size
    <3>a. i \in 1 .. Len(s) - o /\ j \in 1 .. Len(s) - o
      BY <1>3
    <3>b. o + i \in 1 .. Len(s) /\ o + j \in 1 .. Len(s)
      BY <1>1, <3>a
    <3>c. o + i < o + j /\ (o + j) - (o + i) = j - i
      BY <2>2, <3>a
    <3>1. /\ o + i \in 1 .. Len(s) /\ t[i] = s[o + i] /\ o + j \in 1 .. Len(s) /\ t[j] = s[o + j]
          /\ o + i < o + j /\ (o + j) - (o + i) = j - i
      BY <1>3, <3>a, <3>b, <3>c
    <3>2. PICK a \in 1 .. Len(s), b \in 1 .. Len(s) : a = o + i /\ b = o + j
      BY <3>1
    <3>3. a < b => /\ s[a].id <= s[b].id
                   /\ s[a].id = s[b].id => s[b].part - s[a].part = b - a /\ s[b].size = s[a].size
      BY DEF Framed
    <3> QED
      BY <3>1, <3>2, <3>3
  <2> QED
    BY <2>1, <2>2 DEF Framed
<1>5. Below(t, n)
  <2> SUFFICES ASSUME NEW i \in 1 .. Len(t) PROVE t[i].id < n
    BY DEF Below
  <2>1. o + i \in 1 .. Len(s) /\ t[i] = s[o + i]
    BY <1>1, <1>3
  <2> QED
    BY <2>1 DEF Below
<1>6. ASSUME NEW q \in Nat, q >= o, Whole(s, q)
      PROVE  Whole(t, q - o) /\ t[q - o + 1].id = s[q + 1].id
  <2>1. /\ q < Len(s) /\ q + 1 \in 1 .. Len(s) /\ q - o + 1 \in 1 .. Len(s) - o
        /\ o + (q - o + 1) = q + 1 /\ q - o < Len(t)
    BY <1>1, <1>3, <1>6 DEF Whole
  <2>2. t[q - o + 1] = s[q + 1]
    BY <2>1, <1>3
  <2>3. s[q + 1].size \in Nat /\ q + s[q + 1].size <= Len(s)
    BY <2>1, CellTyped, <1>6 DEF Whole
  <2>4. ASSUME NEW k \in 1 .. s[q + 1].size
        PROVE  t[q - o + k] = s[q + k]
    <3>0. PICK m \in Nat, z \in Nat : m = s[q + 1].size /\ z = Len(s)
      BY <2>3, <1>1
    <3>a. k \in 1 .. m /\ q + m <= z /\ q >= o
      BY <3>0, <2>3, <1>6
    <3>b. q - o + k \in 1 .. z - o /\ o + (q - o + k) = q + k
      BY <3>a
    <3>1. q - o + k \in 1 .. Len(s) - o /\ o + (q - o + k) = q + k
      BY <3>0, <3>b
    <3> QED
      BY <3>1, <1>3
  <2>5. q - o + s[q + 1].size <= Len(t)
    BY <2>3, <1>3, <1>1
  <2> QED
    BY <2>1, <2>2, <2>4, <2>5, <1>6 DEF Whole
<1> QED
  BY <1>3, <1>4, <1>5, <1>6

(* Appending: t is s and the first n cells of a record's frame.            *)
Extended(s, t, id, size, n) ==
  /\ Len(t) = Len(s) + n
  /\ \A i \in 1 .. Len(s) : t[i] = s[i]
  /\ \A k \in 1 .. n : t[Len(s) + k] = [id |-> id, part |-> k, size |-> size]

(* append, whole or torn off by a crash, extends the log.                  *)
LEMMA AppendExtends ==
    ASSUME NEW s \in Seq(Cells), NEW id \in Ids, NEW size \in Sizes, NEW n \in 0 .. size
    PROVE  LET f == Frame([id |-> id, size |-> size])
           IN  /\ s \o f \in Seq(Cells) /\ Extended(s, s \o f, id, size, size)
               /\ s \o SubSeq(f, 1, n) \in Seq(Cells)
               /\ Extended(s, s \o SubSeq(f, 1, n), id, size, n)
<1> DEFINE f == Frame([id |-> id, size |-> size])
<1>1. size \in Nat /\ n \in Nat /\ n <= size /\ Len(s) \in Nat
  BY SizesAssumption, CellTyped
<1>2. f = [k \in 1 .. size |-> [id |-> id, part |-> k, size |-> size]]
  BY DEF Frame
<1>3. \A k \in 1 .. size : f[k] = [id |-> id, part |-> k, size |-> size] /\ f[k] \in Cells
  <2> SUFFICES ASSUME NEW k \in 1 .. size
               PROVE  f[k] = [id |-> id, part |-> k, size |-> size] /\ f[k] \in Cells
    OBVIOUS
  <2>1. f[k] = [id |-> id, part |-> k, size |-> size]
    BY <1>2
  <2>2. k \in Nat
    BY <1>1
  <2> HIDE DEF f
  <2>3. f[k] \in Cells
    BY <2>1, <2>2 DEF Cells
  <2> QED
    BY <2>1, <2>3
<1>4. f \in Seq(Cells) /\ Len(f) = size
  <2>1. f \in [1 .. size -> Cells]
    BY <1>2, <1>3
  <2>2. f \in Seq(Cells)
    BY <2>1, <1>1, SeqDef
  <2>3. DOMAIN f = 1 .. size /\ DOMAIN f = 1 .. Len(f) /\ Len(f) \in Nat
    BY <2>1, <2>2, LenProperties
  <2> HIDE DEF f
  <2>4. Len(f) = size
    <3>1. ASSUME Len(f) < size PROVE FALSE
      <4>1. size \in 1 .. size
        BY <3>1, <1>1, <2>3
      <4> QED
        BY <4>1, <2>3, <3>1, <1>1
    <3>2. ASSUME size < Len(f) PROVE FALSE
      <4>1. Len(f) \in 1 .. Len(f)
        BY <3>2, <1>1, <2>3
      <4> QED
        BY <4>1, <2>3, <3>2, <1>1
    <3> QED
      BY <3>1, <3>2, <2>3, <1>1
  <2> QED
    BY <2>2, <2>4
<1> HIDE DEF f
<1>5. ASSUME NEW g \in Seq(Cells), NEW m \in Nat, m <= size, Len(g) = m,
             \A k \in 1 .. m : g[k] = f[k]
      PROVE  s \o g \in Seq(Cells) /\ Extended(s, s \o g, id, size, m)
  <2>1. /\ s \o g \in Seq(Cells) /\ Len(s \o g) = Len(s) + Len(g)
        /\ \A i \in 1 .. Len(s) + Len(g) : (s \o g)[i] = IF i <= Len(s) THEN s[i] ELSE g[i - Len(s)]
    BY ConcatProperties
  <2> DEFINE t == s \o g
  <2> HIDE DEF t
  <2>2. ASSUME NEW i \in 1 .. Len(s) PROVE t[i] = s[i]
    <3>1. i \in 1 .. Len(s) + Len(g) /\ i <= Len(s)
      BY <1>1, <1>5
    <3> QED
      BY <3>1, <2>1 DEF t
  <2>3. ASSUME NEW k \in 1 .. m PROVE t[Len(s) + k] = [id |-> id, part |-> k, size |-> size]
    <3>1. /\ Len(s) + k \in 1 .. Len(s) + Len(g) /\ ~(Len(s) + k <= Len(s))
          /\ (Len(s) + k) - Len(s) = k /\ k \in 1 .. size
      BY <1>1, <1>5
    <3>2. t[Len(s) + k] = g[k]
      BY <3>1, <2>1 DEF t
    <3> QED
      BY <3>1, <3>2, <1>3, <1>5
  <2> QED
    BY <2>1, <2>2, <2>3, <1>5 DEF Extended, t
<1>6. s \o f \in Seq(Cells) /\ Extended(s, s \o f, id, size, size)
  BY <1>4, <1>5, <1>1
<1>7. SubSeq(f, 1, n) \in Seq(Cells) /\ Len(SubSeq(f, 1, n)) = n
      /\ \A k \in 1 .. n : SubSeq(f, 1, n)[k] = f[k]
  <2>1. \A k \in 1 .. n : f[k] \in Cells
    <3>1. \A k \in 1 .. n : k \in 1 .. size
      BY <1>1
    <3> QED
      BY <3>1, <1>3, Zenon
  <2>2. /\ SubSeq(f, 1, n) \in Seq(Cells)
        /\ Len(SubSeq(f, 1, n)) = IF 1 <= n THEN n - 1 + 1 ELSE 0
        /\ \A k \in 1 .. n - 1 + 1 : SubSeq(f, 1, n)[k] = f[1 + k - 1]
    BY <2>1, <1>1, SubSeqProperties
  <2> QED
    BY <2>2, <1>1
<1>8. s \o SubSeq(f, 1, n) \in Seq(Cells) /\ Extended(s, s \o SubSeq(f, 1, n), id, size, n)
  BY <1>7, <1>5, <1>1
<1> QED
  BY <1>6, <1>8 DEF f

(* An extension with a fresh id is framed, and keeps what was there.       *)
LEMMA ExtensionFramed ==
    ASSUME NEW s \in Seq(Cells), NEW t \in Seq(Cells), NEW id \in Ids, NEW size \in Sizes,
           NEW n \in 0 .. size, Extended(s, t, id, size, n), Framed(s), Below(s, id)
    PROVE  /\ Framed(t) /\ Below(t, id + 1)
           /\ \A o \in Nat : Starts(s, o) => Starts(t, o)
           /\ \A o \in Nat : Whole(s, o) => Whole(t, o) /\ t[o + 1].id = s[o + 1].id
           /\ n = size => Whole(t, Len(s)) /\ t[Len(s) + 1].id = id
<1>1. /\ size \in Nat \ {0} /\ n \in Nat /\ n <= size /\ id \in Nat
      /\ Len(s) \in Nat /\ Len(t) = Len(s) + n
  BY SizesAssumption, BoundsAssumption, CellTyped DEF Extended, Ids
<1>2. ASSUME NEW i \in 1 .. Len(t)
      PROVE  \/ i \in 1 .. Len(s) /\ t[i] = s[i] /\ t[i].id < id /\ t[i].id \in Nat
             \/ \E k \in 1 .. n : /\ i = Len(s) + k
                                  /\ t[i].id = id /\ t[i].part = k /\ t[i].size = size
  <2>1. CASE i <= Len(s)
    <3>1. i \in 1 .. Len(s)
      BY <2>1, <1>1
    <3>2. t[i] = s[i] /\ s[i].id < id /\ s[i].id \in Nat
      BY <3>1, CellTyped DEF Extended, Below
    <3> QED
      BY <3>1, <3>2
  <2>2. CASE i > Len(s)
    <3>1. PICK k \in 1 .. n : i = Len(s) + k
      <4>1. i - Len(s) \in 1 .. n /\ i = Len(s) + (i - Len(s))
        BY <2>2, <1>1
      <4> QED
        BY <4>1
    <3>2. t[i] = [id |-> id, part |-> k, size |-> size]
      BY <3>1 DEF Extended
    <3>3. t[i].id = id /\ t[i].part = k /\ t[i].size = size
      BY <3>2
    <3> QED
      BY <3>1, <3>3
  <2> QED
    BY <2>1, <2>2, <1>1
<1>3. ASSUME NEW i \in 1 .. Len(t)
      PROVE  /\ t[i].part \in 1 .. t[i].size
             /\ t[i].part > 1 => i > 1 /\ t[i - 1].id = t[i].id /\ t[i - 1].part = t[i].part - 1
  <2>1. CASE i \in 1 .. Len(s) /\ t[i] = s[i]
    <3>1. /\ s[i].part \in 1 .. s[i].size
          /\ s[i].part > 1 => i > 1 /\ s[i - 1].id = s[i].id /\ s[i - 1].part = s[i].part - 1
      BY <2>1 DEF Framed
    <3>2. i > 1 => i - 1 \in 1 .. Len(s)
      BY <2>1, <1>1
    <3>3. i > 1 => t[i - 1] = s[i - 1]
      BY <3>2 DEF Extended
    <3> QED
      BY <3>1, <3>3, <2>1
  <2>2. ASSUME NEW k \in 1 .. n, i = Len(s) + k,
               t[i].id = id, t[i].part = k, t[i].size = size
        PROVE  /\ t[i].part \in 1 .. t[i].size
               /\ t[i].part > 1 => i > 1 /\ t[i - 1].id = t[i].id /\ t[i - 1].part = t[i].part - 1
    <3>1. t[i].part \in 1 .. t[i].size
      BY <2>2, <1>1
    <3>2. ASSUME k > 1 PROVE i > 1 /\ t[i - 1].id = id /\ t[i - 1].part = k - 1
      <4>1. k - 1 \in 1 .. n /\ i > 1 /\ i - 1 = Len(s) + (k - 1)
        BY <3>2, <2>2, <1>1
      <4>2. t[i - 1] = [id |-> id, part |-> k - 1, size |-> size]
        BY <4>1 DEF Extended
      <4>3. t[i - 1].id = id /\ t[i - 1].part = k - 1
        BY <4>2
      <4> QED
        BY <4>1, <4>3
    <3> QED
      BY <3>1, <3>2, <2>2
  <2> QED
    BY <1>2, <2>1, <2>2
<1>4. ASSUME NEW i \in 1 .. Len(t), NEW j \in 1 .. Len(t), i < j
      PROVE  /\ t[i].id <= t[j].id
             /\ t[i].id = t[j].id => t[j].part - t[i].part = j - i /\ t[j].size = t[i].size
  <2>1. CASE j \in 1 .. Len(s) /\ t[j] = s[j]
    <3>1. i \in 1 .. Len(s)
      BY <2>1, <1>4, <1>1
    <3>2. t[i] = s[i]
      BY <3>1 DEF Extended
    <3>3. /\ s[i].id <= s[j].id
          /\ s[i].id = s[j].id => s[j].part - s[i].part = j - i /\ s[j].size = s[i].size
      BY <3>1, <2>1, <1>4 DEF Framed
    <3> QED
      BY <3>2, <3>3, <2>1
  <2>2. ASSUME NEW k \in 1 .. n, j = Len(s) + k,
               t[j].id = id, t[j].part = k, t[j].size = size
        PROVE  /\ t[i].id <= t[j].id
               /\ t[i].id = t[j].id => t[j].part - t[i].part = j - i /\ t[j].size = t[i].size
    <3>1. CASE t[i].id < id /\ t[i].id \in Nat
      BY <3>1, <2>2, <1>1
    <3>2. ASSUME NEW m \in 1 .. n, i = Len(s) + m,
                 t[i].id = id, t[i].part = m, t[i].size = size
          PROVE  /\ t[i].id <= t[j].id
                 /\ t[i].id = t[j].id => t[j].part - t[i].part = j - i /\ t[j].size = t[i].size
      <4>1. k - m = j - i /\ id <= id
        BY <2>2, <3>2, <1>1
      <4> QED
        BY <4>1, <2>2, <3>2
    <3> QED
      BY <1>2, <3>1, <3>2
  <2> QED
    BY <1>2, <2>1, <2>2
<1>5. Framed(t)
  BY <1>3, <1>4 DEF Framed
<1>6. Below(t, id + 1)
  <2> SUFFICES ASSUME NEW i \in 1 .. Len(t) PROVE t[i].id < id + 1
    BY DEF Below
  <2> QED
    BY <1>2, <1>1
<1>7. ASSUME NEW o \in Nat, Starts(s, o) PROVE Starts(t, o)
  <2>1. o <= Len(t)
    BY <1>7, <1>1 DEF Starts
  <2>2. CASE o < Len(s)
    <3>1. o + 1 \in 1 .. Len(s)
      BY <2>2, <1>1
    <3>2. t[o + 1] = s[o + 1]
      BY <3>1 DEF Extended
    <3> QED
      BY <3>2, <2>1, <2>2, <1>7 DEF Starts
  <2>3. CASE o = Len(s) /\ n > 0
    <3>1. 1 \in 1 .. n
      BY <2>3, <1>1
    <3>2. t[o + 1] = [id |-> id, part |-> 1, size |-> size]
      BY <3>1, <2>3 DEF Extended
    <3>3. t[o + 1].part = 1
      BY <3>2
    <3> QED
      BY <3>3, <2>1 DEF Starts
  <2>4. CASE o = Len(s) /\ n = 0
    BY <2>4, <1>1 DEF Starts
  <2>5. o <= Len(s)
    BY <1>7 DEF Starts
  <2> QED
    BY <2>2, <2>3, <2>4, <2>5, <1>1
<1>8. ASSUME NEW o \in Nat, Whole(s, o) PROVE Whole(t, o) /\ t[o + 1].id = s[o + 1].id
  <2>1. o + 1 \in 1 .. Len(s) /\ o < Len(t)
    BY <1>8, <1>1 DEF Whole
  <2>2. t[o + 1] = s[o + 1] /\ s[o + 1].size \in Nat
    BY <2>1, CellTyped DEF Extended
  <2>3. o + s[o + 1].size <= Len(s) /\ o + s[o + 1].size <= Len(t)
    BY <1>8, <1>1, <2>2 DEF Whole
  <2>4. ASSUME NEW k \in 1 .. s[o + 1].size PROVE t[o + k] = s[o + k]
    <3>1. o + k \in 1 .. Len(s)
      <4>1. PICK m \in Nat, z \in Nat : m = s[o + 1].size /\ z = Len(s)
        BY <2>2, <1>1
      <4>2. k \in 1 .. m /\ o + m <= z
        BY <4>1, <2>3
      <4>3. o + k \in 1 .. z
        BY <4>2
      <4> QED
        BY <4>1, <4>3
    <3> QED
      BY <3>1 DEF Extended
  <2> QED
    BY <2>1, <2>2, <2>3, <2>4, <1>8 DEF Whole
<1>9. ASSUME n = size PROVE Whole(t, Len(s)) /\ t[Len(s) + 1].id = id
  <2>1. \A k \in 1 .. size : t[Len(s) + k] = [id |-> id, part |-> k, size |-> size]
    BY <1>9 DEF Extended
  <2>2. \A k \in 1 .. size : t[Len(s) + k].id = id /\ t[Len(s) + k].part = k /\ t[Len(s) + k].size = size
    <3> TAKE k \in 1 .. size
    <3>1. PICK c : c = t[Len(s) + k]
      OBVIOUS
    <3>2. c = [id |-> id, part |-> k, size |-> size]
      BY <2>1, <3>1
    <3>3. c.id = id /\ c.part = k /\ c.size = size
      BY <3>2
    <3> QED
      BY <3>1, <3>3
  <2>3. 1 \in 1 .. size
    BY <1>1
  <2>4. t[Len(s) + 1].id = id /\ t[Len(s) + 1].size = size
    BY <2>2, <2>3
  <2>5. Len(s) < Len(t) /\ Len(s) + size <= Len(t)
    BY <1>1, <1>9
  <2> QED
    BY <2>2, <2>4, <2>5 DEF Whole
<1> QED
  BY <1>5, <1>6, <1>7, <1>8, <1>9

-----------------------------------------------------------------------------
(* The spool's types, with the control flow they depend on *)

SpoolTyped == SpoolTypeOK /\ ControlInv

LEMMA FrameIsWhole == \A l, o : FrameAt(l, o) <=> Whole(log[l], o)
  BY DEF FrameAt, Whole

(* read_next's scan: nothing within its limit, or the first whole frame    *)
(* there is.                                                               *)
LEMMA NextFrameIsFirst ==
    ASSUME SpoolTypeOK, NEW l \in Lanes, NEW o \in Nat
    PROVE  \/ NextFrame(l, o) = -1
           \/ /\ NextFrame(l, o) \in Nat /\ NextFrame(l, o) >= o
              /\ Whole(log[l], NextFrame(l, o))
              /\ \A q \in Nat : q >= o /\ Whole(log[l], q) => NextFrame(l, o) <= q
<1> DEFINE found == {q \in Candidates(l, o) : FrameAt(l, q)}
<1>1. Len(log[l]) \in Nat /\ ScanLimit \in Nat
  BY CellTyped, BoundsAssumption DEF SpoolTypeOK
<1>2. ASSUME NEW x \in found, NEW q \in Nat, q >= o, Whole(log[l], q), q \notin found
      PROVE  x <= q
  <2>1. q < Len(log[l])
    BY <1>2 DEF Whole
  <2>2. q \in o .. Len(log[l]) /\ q \notin Candidates(l, o)
    BY <1>1, <1>2, <2>1, FrameIsWhole
  <2>3. q # o /\ ~(q < o + ScanLimit)
    BY <2>2 DEF Candidates
  <2>4. x \in Nat /\ (x = o \/ x < o + ScanLimit)
    BY <1>1 DEF Candidates
  <2> QED
    BY <1>1, <1>2, <2>3, <2>4
<1>3. NextFrame(l, o) = IF found = {} THEN -1 ELSE Min(found)
  BY DEF NextFrame
<1>4. \A q \in found : q \in Nat /\ q >= o /\ Whole(log[l], q)
  BY <1>1, FrameIsWhole DEF Candidates
<1> HIDE DEF found
<1>5. CASE found = {}
  BY <1>5, <1>3
<1>6. CASE found # {}
  <2>1. found \subseteq Nat
    BY <1>4
  <2>2. Min(found) \in found /\ \A y \in found : Min(found) <= y
    BY <1>6, <2>1, LeastOf
  <2> QED
    BY <2>2, <1>2, <1>3, <1>4, <1>6
<1> QED
  BY <1>5, <1>6

(* read_next as its callers see it.                                        *)
LEMMA ReadNextFinds ==
    ASSUME SpoolTypeOK, NEW some, NEW none, ReadNext(some, none)
    PROVE  /\ UNCHANGED <<disk, lane, incoming, nextId, crashes, history>>
           /\ \/ pc' = none /\ UNCHANGED <<after, reading, ackMem>>
              \/ \E at \in Nat :
                   /\ at >= ackMem[lane] /\ Whole(log[lane], at)
                   /\ \A q \in Nat : q >= ackMem[lane] /\ Whole(log[lane], q) => at <= q
                   /\ reading' = [id |-> log[lane][at + 1].id, size |-> log[lane][at + 1].size]
                   /\ ackMem' = [ackMem EXCEPT ![lane] = at]
                   /\ \/ pc' = some /\ UNCHANGED after
                      \/ pc' = "persist" /\ after' = some
<1> DEFINE at == NextFrame(lane, ackMem[lane])
<1>1. lane \in Lanes /\ ackMem[lane] \in Nat
  BY DEF SpoolTypeOK
<1>2. \/ at = -1
      \/ /\ at \in Nat /\ at >= ackMem[lane] /\ Whole(log[lane], at)
         /\ \A q \in Nat : q >= ackMem[lane] /\ Whole(log[lane], q) => at <= q
  BY <1>1, NextFrameIsFirst
<1>3. /\ UNCHANGED <<disk, lane, incoming, nextId, crashes, history>>
      /\ IF at = -1
         THEN pc' = none /\ UNCHANGED <<after, reading, ackMem>>
         ELSE /\ reading' = [id |-> log[lane][at + 1].id, size |-> log[lane][at + 1].size]
              /\ ackMem' = [ackMem EXCEPT ![lane] = at]
              /\ IF at = ackMem[lane] THEN pc' = some /\ UNCHANGED after
                 ELSE pc' = "persist" /\ after' = some
  BY Zenon DEF ReadNext
<1> HIDE DEF at
<1>4. CASE at = -1
  BY <1>3, <1>4
<1>5. CASE at # -1
  <2>1. /\ at \in Nat /\ at >= ackMem[lane] /\ Whole(log[lane], at)
        /\ \A q \in Nat : q >= ackMem[lane] /\ Whole(log[lane], q) => at <= q
    BY <1>2, <1>5
  <2> QED
    BY <1>3, <1>5, <2>1, Zenon
<1> QED
  BY <1>4, <1>5

(* A record read from a log is one.                                        *)
LEMMA ReadTyped ==
    ASSUME SpoolTypeOK, NEW at \in Nat, Whole(log[lane], at)
    PROVE  /\ log[lane][at + 1].id \in Ids /\ log[lane][at + 1].size \in Sizes
           /\ [id |-> log[lane][at + 1].id, size |-> log[lane][at + 1].size] \in Records
<1>1. log[lane] \in Seq(Cells)
  BY DEF SpoolTypeOK
<1>2. at + 1 \in 1 .. Len(log[lane])
  BY <1>1, CellTyped DEF Whole
<1>3. log[lane][at + 1].id \in Ids /\ log[lane][at + 1].size \in Sizes
  BY <1>1, <1>2, CellTyped
<1> QED
  BY <1>3 DEF Records

(* Both uses of read_next keep the types.                                  *)
LEMMA ReadNextTyped ==
    ASSUME SpoolTyped, NEW some \in {"drop", "send"}, NEW none \in {"compact_then_append", "reclaim"},
           ReadNext(some, none),
           \/ pc = "evict" /\ some = "drop" /\ none = "compact_then_append"
           \/ pc = "ship" /\ some = "send" /\ none = "reclaim"
    PROVE  SpoolTyped'
<1>1. SpoolTypeOK /\ ControlInv
  BY DEF SpoolTyped
<1>2. UNCHANGED <<log, ackDisk, lane, incoming, nextId, crashes, accepted, evicted, delivered, mispaired>>
  BY <1>1, ReadNextFinds DEF disk, history, records
<1>3. CASE pc' = none /\ UNCHANGED <<after, reading, ackMem>>
  <2>1. SpoolTypeOK'
    BY <1>1, <1>2, <1>3 DEF SpoolTypeOK, Labels, Returns
  <2>2. ControlInv'
    BY <1>1, <1>2, <1>3 DEF ControlInv, Toward, Enqueuing, HasRead
  <2> QED
    BY <2>1, <2>2 DEF SpoolTyped
<1>4. ASSUME NEW at \in Nat, Whole(log[lane], at),
             reading' = [id |-> log[lane][at + 1].id, size |-> log[lane][at + 1].size],
             ackMem' = [ackMem EXCEPT ![lane] = at],
             (pc' = some /\ UNCHANGED after) \/ (pc' = "persist" /\ after' = some)
      PROVE  SpoolTyped'
  <2>1. reading' \in Records /\ reading'.id \in Ids /\ reading'.size \in Sizes
    BY <1>1, <1>4, ReadTyped
  <2>2. ackMem' \in [Lanes -> Nat]
    BY <1>1, <1>4 DEF SpoolTypeOK
  <2>3. SpoolTypeOK'
    BY <1>1, <1>2, <1>4, <2>1, <2>2 DEF SpoolTypeOK, Labels, Returns
  <2>4. ControlInv'
    BY <1>1, <1>2, <1>4, <2>1 DEF ControlInv, Toward, Enqueuing, HasRead
  <2> QED
    BY <2>3, <2>4 DEF SpoolTyped
<1> QED
  BY <1>1, <1>3, <1>4, ReadNextFinds

(* ack keeps the types.                                                    *)
LEMMA AckTyped ==
    ASSUME SpoolTyped, NEW return \in {"evict", "ship"}, Ack(return), evicted' \subseteq Ids,
           \/ pc = "drop" /\ return = "evict"
           \/ pc = "ack" /\ return = "ship"
    PROVE  SpoolTyped'
<1>1. SpoolTypeOK /\ ControlInv
  BY DEF SpoolTyped
<1>2. reading.size \in Nat
  BY <1>1, SizesAssumption DEF ControlInv, Toward, HasRead
<1>3. ackMem' \in [Lanes -> Nat]
  BY <1>1, <1>2 DEF Ack, SpoolTypeOK
<1>4. NoRecord \in Records
  BY DEF NoRecord, Records
<1>5. SpoolTypeOK'
  BY <1>1, <1>3, <1>4 DEF SpoolTypeOK, Ack, Labels, Returns, disk
<1>6. ControlInv'
  BY <1>1 DEF ControlInv, Toward, Enqueuing, HasRead, Ack
<1> QED
  BY <1>5, <1>6 DEF SpoolTyped

LEMMA SpoolTypedInit == SpoolInit => SpoolTyped
<1> SUFFICES ASSUME SpoolInit PROVE SpoolTyped
  OBVIOUS
<1>1. NoRecord \in Records
  BY DEF NoRecord, Records
<1>2. SpoolTypeOK
  BY <1>1, BoundsAssumption, EmptySeq DEF SpoolInit, SpoolTypeOK, Labels, Returns, Lanes
<1>3. ControlInv
  BY DEF SpoolInit, ControlInv, Toward, Enqueuing, HasRead
<1> QED
  BY <1>2, <1>3 DEF SpoolTyped

LEMMA SpoolTypedStep == SpoolTyped /\ [SpoolNext]_spoolVars => SpoolTyped'
<1> SUFFICES ASSUME SpoolTyped, [SpoolNext]_spoolVars PROVE SpoolTyped'
  OBVIOUS
<1> USE DEF disk, history, records
<1>0. SpoolTypeOK /\ ControlInv
  BY DEF SpoolTyped
<1>1. ASSUME NEW l \in Lanes, NEW size \in Sizes, Enqueue(l, size) PROVE SpoolTyped'
  <2>1. nextId \in Ids
    BY <1>0, <1>1, BoundsAssumption DEF Enqueue, SpoolTypeOK, Ids
  <2>2. incoming' \in Records /\ incoming'.id = nextId /\ incoming'.size = size
    BY <2>1, <1>1 DEF Enqueue, Records
  <2>3. nextId' \in 1 .. MaxRecords + 1
    BY <1>0, <1>1, <2>1, BoundsAssumption DEF Enqueue, Ids
  <2>4. SpoolTypeOK'
    BY <1>0, <1>1, <2>2, <2>3 DEF Enqueue, SpoolTypeOK, Labels, Returns
  <2>5. ControlInv'
    BY <1>0, <1>1, <2>1, <2>2 DEF Enqueue, ControlInv, Toward, Enqueuing, HasRead, Lanes
  <2> QED
    BY <2>4, <2>5 DEF SpoolTyped
<1>2. CASE BeginShipTick \/ Confirmed \/ GivenUp \/ Reclaim \/ NextLane
  <2>1. SpoolTypeOK'
    <3>1. BeginShipTick \/ Reclaim \/ NextLane => SpoolTypeOK'
      BY <1>0 DEF BeginShipTick, Reclaim, NextLane, SpoolTypeOK, Labels, Returns, Lanes
    <3>2. ASSUME Confirmed \/ GivenUp PROVE SpoolTypeOK'
      <4>1. NoRecord \in Records
        BY DEF NoRecord, Records
      <4>2. reading.id \in Ids
        BY <1>0, <3>2 DEF Confirmed, GivenUp, ControlInv, Toward, HasRead
      <4>3. delivered' \in [Lanes -> SUBSET Ids]
        <5>1. delivered \in [Lanes -> SUBSET Ids]
          BY <1>0 DEF SpoolTypeOK
        <5>2. delivered' = delivered \/ delivered' = [delivered EXCEPT ![lane] = @ \cup {reading.id}]
          BY <3>2 DEF Confirmed, GivenUp
        <5> QED
          BY <4>2, <5>1, <5>2
      <4> QED
        BY <1>0, <3>2, <4>1, <4>3 DEF Confirmed, GivenUp, SpoolTypeOK, Labels, Returns
    <3> QED
      BY <1>2, <3>1, <3>2
  <2>2. ControlInv'
    BY <1>0, <1>2 DEF BeginShipTick, Confirmed, GivenUp, Reclaim, NextLane, ControlInv, Toward,
                      Enqueuing, HasRead
  <2> QED
    BY <2>1, <2>2 DEF SpoolTyped
<1>3. CASE EvictOldest
  <2>1. CASE OverBudget(lane, incoming.size)
    BY <1>3, <2>1, ReadNextTyped DEF EvictOldest
  <2>2. CASE ~OverBudget(lane, incoming.size)
    <3>1. SpoolTypeOK'
      BY <1>0, <1>3, <2>2 DEF EvictOldest, SpoolTypeOK, Labels, Returns
    <3>2. ControlInv'
      BY <1>0, <1>3, <2>2 DEF EvictOldest, ControlInv, Toward, Enqueuing, HasRead
    <3> QED
      BY <3>1, <3>2 DEF SpoolTyped
  <2> QED
    BY <2>1, <2>2
<1>4. CASE ShipNext
  BY <1>4, ReadNextTyped DEF ShipNext
<1>5. CASE DropOldest
  <2>1. reading.id \in Ids /\ evicted \subseteq Ids
    BY <1>0, <1>5 DEF DropOldest, ControlInv, Toward, HasRead, SpoolTypeOK
  <2> QED
    BY <1>5, <2>1, AckTyped DEF DropOldest
<1>6. CASE AckShipped
  <2>1. evicted' \subseteq Ids
    BY <1>0, <1>6 DEF AckShipped, SpoolTypeOK
  <2> QED
    BY <1>6, <2>1, AckTyped DEF AckShipped
<1>7. CASE Compact
  <2>1. ControlInv'
    BY <1>0, <1>7 DEF Compact, ControlInv, Toward, Enqueuing, HasRead
  <2>2. log' \in [Lanes -> Seq(Cells)] /\ ackMem' \in [Lanes -> Nat]
    <3>1. CASE UNCHANGED <<log, ackMem>>
      BY <1>0, <3>1 DEF SpoolTypeOK
    <3>2. CASE DropAckedPrefix
      <4>1. log[lane] \in Seq(Cells) /\ ackMem[lane] \in Nat /\ Len(log[lane]) \in Nat
        BY <1>0, CellTyped DEF SpoolTypeOK
      <4>2. \A i \in ackMem[lane] + 1 .. Len(log[lane]) : log[lane][i] \in Cells
        BY <4>1, CellTyped
      <4>3. SubSeq(log[lane], ackMem[lane] + 1, Len(log[lane])) \in Seq(Cells)
        BY <4>1, <4>2, SubSeqProperties
      <4> QED
        BY <1>0, <3>2, <4>3 DEF DropAckedPrefix, SpoolTypeOK
    <3> QED
      BY <1>7, <3>1, <3>2 DEF Compact
  <2>3. SpoolTypeOK'
    BY <1>0, <1>7, <2>2 DEF Compact, SpoolTypeOK, Labels, Returns
  <2> QED
    BY <2>1, <2>3 DEF SpoolTyped
<1>8. CASE Persist
  <2>1. after \in Returns
    BY <1>0, <1>8 DEF Persist, ControlInv, SpoolTypeOK
  <2>2. ackDisk' \in [Lanes -> Nat]
    BY <1>0, <1>8 DEF Persist, SpoolTypeOK
  <2>3. SpoolTypeOK'
    BY <1>0, <1>8, <2>1, <2>2 DEF Persist, SpoolTypeOK, Labels
  <2>4. ControlInv'
    BY <1>0, <1>8, <2>1 DEF Persist, ControlInv, Toward, Enqueuing, HasRead, Returns
  <2> QED
    BY <2>3, <2>4 DEF SpoolTyped
<1>9. CASE AppendFrame
  <2>1. incoming.id \in Ids /\ incoming.size \in Sizes /\ incoming \in Records
    BY <1>0, <1>9 DEF AppendFrame, ControlInv, Toward, Enqueuing, SpoolTypeOK
  <2>2. log[lane] \in Seq(Cells)
    BY <1>0 DEF SpoolTypeOK
  <2>3. incoming = [id |-> incoming.id, size |-> incoming.size] /\ 0 \in 0 .. incoming.size
    <3>1. incoming = [id |-> incoming.id, size |-> incoming.size]
      BY <2>1 DEF Records
    <3>2. 0 \in 0 .. incoming.size
      <4>1. PICK n \in Nat : n = incoming.size
        BY <2>1, SizesAssumption
      <4> QED
        BY <4>1
    <3> QED
      BY <3>1, <3>2, Zenon
  <2>4. log[lane] \o Frame(incoming) \in Seq(Cells)
    BY <2>1, <2>2, <2>3, AppendExtends
  <2>5. log' \in [Lanes -> Seq(Cells)] /\ accepted' \in [Lanes -> SUBSET Ids] /\ incoming' \in Records
    BY <1>0, <1>9, <2>1, <2>4 DEF AppendFrame, SpoolTypeOK, NoRecord, Records
  <2>6. SpoolTypeOK'
    BY <1>0, <1>9, <2>5 DEF AppendFrame, SpoolTypeOK, Labels, Returns
  <2>7. ControlInv'
    BY <1>0, <1>9 DEF AppendFrame, ControlInv, Toward, Enqueuing, HasRead
  <2> QED
    BY <2>6, <2>7 DEF SpoolTyped
<1>10. CASE Crash
  <2>1. log[lane] \in Seq(Cells) /\ lane \in Lanes
    BY <1>0 DEF SpoolTypeOK
  <2>2. PICK n \in 0 .. (IF pc = "append" THEN incoming.size ELSE 0) :
          log' = [log EXCEPT ![lane] = @ \o SubSeq(Frame(incoming), 1, n)]
    BY <1>10 DEF Crash
  <2>3. log[lane] \o SubSeq(Frame(incoming), 1, n) \in Seq(Cells)
    <3>1. CASE pc = "append"
      <4>1. incoming.id \in Ids /\ incoming.size \in Sizes /\ incoming \in Records
        BY <1>0, <3>1 DEF ControlInv, Toward, Enqueuing, SpoolTypeOK
      <4>2. incoming = [id |-> incoming.id, size |-> incoming.size] /\ n \in 0 .. incoming.size
        BY <4>1, <2>2, <3>1 DEF Records
      <4> QED
        BY <4>1, <4>2, <2>1, AppendExtends
    <3>2. CASE pc # "append"
      <4>1. n = 0
        BY <2>2, <3>2
      <4>2. SubSeq(Frame(incoming), 1, n) = <<>>
        BY <4>1, SubSeqEmpty
      <4> QED
        BY <4>2, <2>1, ConcatEmptySeq
    <3> QED
      BY <3>1, <3>2
  <2>4. log' \in [Lanes -> Seq(Cells)]
    BY <1>0, <2>2, <2>3 DEF SpoolTypeOK
  <2>5. ackDisk' \in [Lanes -> Nat] /\ ackMem' \in [Lanes -> Nat]
    BY <1>0, <1>10 DEF Crash, SpoolTypeOK, TruncatedReadsAs
  <2>6. incoming' \in Records /\ reading' \in Records
    BY <1>10 DEF Crash, NoRecord, Records
  <2>7. crashes' \in 0 .. MaxCrashes
    <3>1. crashes \in 0 .. MaxCrashes /\ crashes < MaxCrashes /\ crashes' = crashes + 1
      BY <1>0, <1>10 DEF Crash, SpoolTypeOK
    <3> QED
      BY <3>1, BoundsAssumption
  <2>8. SpoolTypeOK'
    BY <1>0, <1>10, <2>4, <2>5, <2>6, <2>7 DEF Crash, SpoolTypeOK, Labels, Returns
  <2>9. ControlInv'
    BY <1>10 DEF Crash, ControlInv, Toward, Enqueuing, HasRead
  <2> QED
    BY <2>8, <2>9 DEF SpoolTyped
<1>11. CASE Reopen
  <2>1. SpoolTypeOK'
    BY <1>0, <1>11 DEF Reopen, SpoolTypeOK, Labels, Returns
  <2>2. ControlInv'
    BY <1>0, <1>11 DEF Reopen, ControlInv, Toward, Enqueuing, HasRead
  <2> QED
    BY <2>1, <2>2 DEF SpoolTyped
<1>12. CASE UNCHANGED spoolVars
  <2>1. SpoolTypeOK'
    BY <1>0, <1>12 DEF spoolVars, SpoolTypeOK
  <2>2. ControlInv'
    BY <1>0, <1>12 DEF spoolVars, ControlInv, Toward, Enqueuing, HasRead
  <2> QED
    BY <2>1, <2>2 DEF SpoolTyped
<1> QED
  BY <1>1, <1>2, <1>3, <1>4, <1>5, <1>6, <1>7, <1>8, <1>9, <1>10, <1>11, <1>12 DEF SpoolNext, Step

(***************************************************************************)
(* The spool's variables keep their types, a crash inside compaction       *)
(* included: every frame a scan returns is a record that was enqueued.     *)
(***************************************************************************)
THEOREM SpoolTypesHold == SpoolSpec => []SpoolTypeOK
<1>1. SpoolTyped => SpoolTypeOK
  BY DEF SpoolTyped
<1> QED
  BY SpoolTypedInit, SpoolTypedStep, <1>1, PTL DEF SpoolSpec

-----------------------------------------------------------------------------
(* The spool's inductive invariant *)

LEMMA WholeStarts ==
    ASSUME NEW s \in Seq(Cells), NEW o \in Nat, Whole(s, o)
    PROVE  Starts(s, o)
<1>1. o + 1 \in 1 .. Len(s) /\ o <= Len(s)
  BY CellTyped DEF Whole
<1>2. 1 \in 1 .. s[o + 1].size
  <2>1. PICK n \in Nat \ {0} : n = s[o + 1].size
    BY <1>1, CellTyped
  <2> QED
    BY <2>1
<1>3. s[o + 1].part = 1
  BY <1>2 DEF Whole
<1> QED
  BY <1>1, <1>3 DEF Starts

(* What the state is made of.                                              *)
LEMMA SpoolFacts ==
    ASSUME SpoolTyped
    PROVE  /\ lane \in Lanes
           /\ \A l \in Lanes : /\ log[l] \in Seq(Cells) /\ ackMem[l] \in Nat /\ ackDisk[l] \in Nat
                               /\ Offset(l) \in Nat
                               /\ accepted[l] \subseteq Nat /\ delivered[l] \subseteq Nat
           /\ nextId \in Nat /\ Unused \in Nat /\ Unused <= nextId
           /\ Enqueuing => incoming.id \in Nat /\ nextId = incoming.id + 1
<1>1. /\ lane \in Lanes
      /\ \A l \in Lanes : /\ log[l] \in Seq(Cells) /\ ackMem[l] \in Nat /\ ackDisk[l] \in Nat
                          /\ accepted[l] \subseteq Ids /\ delivered[l] \subseteq Ids
      /\ nextId \in Nat
  BY BoundsAssumption DEF SpoolTyped, SpoolTypeOK
<1>2. Ids \subseteq Nat
  BY BoundsAssumption DEF Ids
<1>3. Enqueuing => incoming.id \in Nat /\ incoming.id + 1 = nextId
  BY <1>2 DEF SpoolTyped, ControlInv
<1>4. Unused \in Nat /\ Unused <= nextId
  BY <1>1, <1>3 DEF Unused
<1>5. \A l \in Lanes : Offset(l) \in Nat
  BY <1>1 DEF Offset
<1> QED
  BY <1>1, <1>2, <1>3, <1>4, <1>5

LEMMA UnusedIsNat == SpoolTyped => (Unused \in Nat)
  BY SpoolFacts

LEMMA UnusedStaysNat == SpoolTyped' => (Unused \in Nat)'
  BY UnusedIsNat, PTL

(* A lane whose log stays keeps its frames, and its records as long as the *)
(* offset does not pass one that is needed.                                *)
LEMMA SameLogKeeps ==
    ASSUME SpoolTyped, SpoolTyped', NEW l \in Lanes, LogInv(l), KeptInv(l),
           log'[l] = log[l], accepted'[l] = accepted[l], Unused <= Unused',
           delivered[l] \subseteq delivered'[l], Lost(l) \subseteq Lost(l)',
           \A i \in delivered'[l] : i < Unused',
           \A o \in Nat :
              /\ o >= Offset(l) /\ Whole(log[l], o)
              /\ log[l][o + 1].id \notin delivered'[l] \cup Lost(l)'
              => o >= Offset(l)'
    PROVE  LogInv(l)' /\ KeptInv(l)'
<1>1. LogInv(l)'
  <2>1. Below(log[l], Unused')
    <3> SUFFICES ASSUME NEW i \in 1 .. Len(log[l]) PROVE log[l][i].id < Unused'
      BY DEF Below
    <3>1. log[l][i].id < Unused /\ log[l][i].id \in Nat
      BY SpoolFacts, CellTyped DEF LogInv, Below
    <3>2. Unused \in Nat /\ Unused' \in Nat
      BY UnusedIsNat, UnusedStaysNat
    <3> QED
      BY <3>1, <3>2
  <2> QED
    BY <2>1 DEF LogInv
<1>2. KeptInv(l)'
  <2> SUFFICES ASSUME NEW i \in accepted[l], i \notin delivered'[l] \cup Lost(l)'
               PROVE  Held(l, i)'
    BY DEF KeptInv
  <2>1. Held(l, i)
    BY DEF KeptInv
  <2>2. PICK o \in Nat : o >= Offset(l) /\ Whole(log[l], o) /\ log[l][o + 1].id = i
    BY <2>1 DEF Held
  <2>3. o >= Offset(l)'
    BY <2>2
  <2> QED
    BY <2>2, <2>3 DEF Held
<1> QED
  BY <1>1, <1>2

LEMMA InOrderStays ==
    CriticalInOrder /\ UNCHANGED <<accepted, delivered>> /\ mispaired \subseteq mispaired'
      => CriticalInOrder'
  BY DEF CriticalInOrder

(* A step that moves no watermark and touches no log or history.           *)
LEMMA QuietKeeps ==
    ASSUME SpoolTyped, SpoolTyped', SpoolInv, ReadInv', Unused' = Unused,
           UNCHANGED <<log, ackMem, ackDisk, accepted, delivered, evicted, mispaired>>,
           pc # "down", pc' \notin {"down", "panicked"}, ~Compacted, ~Compacted'
    PROVE  SpoolInv'
<1>1. ASSUME NEW l \in Lanes \ mispaired PROVE LogInv(l)' /\ KeptInv(l)' /\ MarkInv(l)'
  <2>1. LogInv(l) /\ KeptInv(l) /\ MarkInv(l)
    BY DEF SpoolInv
  <2>2. Offset(l)' = Offset(l) /\ Lost(l)' = Lost(l) /\ Unused <= Unused'
    BY UnusedIsNat DEF Offset, Lost
  <2>3. LogInv(l)' /\ KeptInv(l)'
    BY <2>1, <2>2, SameLogKeeps DEF LogInv
  <2>4. MarkInv(l)'
    BY <2>1 DEF MarkInv, Rewritten
  <2> QED
    BY <2>3, <2>4
<1> QED
  BY <1>1, InOrderStays DEF SpoolInv

LEMMA EnqueueKeeps ==
    ASSUME SpoolTyped, SpoolTyped', SpoolInv, NEW l \in Lanes, NEW size \in Sizes, Enqueue(l, size)
    PROVE  SpoolInv'
<1> USE DEF disk, history, records
<1>1. Unused' = Unused
  BY DEF Enqueue, Unused, Enqueuing, Toward
<1>2. ReadInv'
  BY DEF Enqueue, ReadInv, HasRead, Toward
<1>3. pc # "down" /\ pc' \notin {"down", "panicked"} /\ ~Compacted /\ ~Compacted'
  BY DEF Enqueue, Compacted
<1> QED
  BY <1>1, <1>2, <1>3, QuietKeeps DEF Enqueue

LEMMA ControlKeeps ==
    ASSUME SpoolTyped, SpoolTyped', SpoolInv, BeginShipTick \/ Reclaim \/ NextLane
    PROVE  SpoolInv'
<1> USE DEF disk, history, records, BeginShipTick, Reclaim, NextLane
<1>1. Unused' = Unused
  BY DEF Unused, Enqueuing, Toward
<1>2. ReadInv'
  BY DEF ReadInv, HasRead, Toward
<1>3. pc # "down" /\ pc' \notin {"down", "panicked"} /\ ~Compacted /\ ~Compacted'
  BY DEF Compacted
<1> QED
  BY <1>1, <1>2, <1>3, QuietKeeps

(* read_next moves the watermark over what is not a frame.                 *)
LEMMA ReadNextKeeps ==
    ASSUME SpoolTyped, SpoolTyped', SpoolInv,
           NEW some, NEW none, ReadNext(some, none),
           \/ pc = "evict" /\ some = "drop" /\ none = "compact_then_append"
           \/ pc = "ship" /\ some = "send" /\ none = "reclaim"
    PROVE  SpoolInv'
<1>1. SpoolTypeOK /\ ControlInv
  BY DEF SpoolTyped
<1>2. UNCHANGED <<log, ackDisk, lane, incoming, nextId, crashes, accepted, evicted, delivered, mispaired>>
  BY <1>1, ReadNextFinds DEF disk, history, records
<1>3. CASE pc' = none /\ UNCHANGED <<after, reading, ackMem>>
  <2>1. Unused' = Unused
    BY <1>2, <1>3 DEF Unused, Enqueuing, Toward
  <2>2. ReadInv'
    BY <1>3 DEF ReadInv, HasRead, Toward
  <2>3. pc # "down" /\ pc' \notin {"down", "panicked"} /\ ~Compacted /\ ~Compacted'
    BY <1>3 DEF Compacted
  <2> QED
    BY <1>2, <1>3, <2>1, <2>2, <2>3, QuietKeeps
<1>4. ASSUME NEW at \in Nat, at >= ackMem[lane], Whole(log[lane], at),
             \A q \in Nat : q >= ackMem[lane] /\ Whole(log[lane], q) => at <= q,
             reading' = [id |-> log[lane][at + 1].id, size |-> log[lane][at + 1].size],
             ackMem' = [ackMem EXCEPT ![lane] = at],
             (pc' = some /\ UNCHANGED after) \/ (pc' = "persist" /\ after' = some)
      PROVE  SpoolInv'
  <2>1. /\ lane \in Lanes /\ log[lane] \in Seq(Cells)
        /\ \A l \in Lanes : ackMem[l] \in Nat /\ ackDisk[l] \in Nat /\ ackMem'[l] = IF l = lane THEN at ELSE ackMem[l]
    BY <1>1, <1>4 DEF SpoolTypeOK
  <2>2. /\ Unused' = Unused /\ Unused \in Nat
        /\ pc \notin {"down", "persist"} /\ pc' \notin {"down", "panicked", "ack"} /\ ~Compacted /\ ~Compacted'
    BY <1>2, <1>4, UnusedIsNat DEF Unused, Enqueuing, Toward, Compacted
  <2>3. ReadInv'
    <3>1. PICK x, y : x = log[lane][at + 1].id /\ y = log[lane][at + 1].size
      OBVIOUS
    <3>2. reading' = [id |-> x, size |-> y]
      BY <1>4, <3>1
    <3>3. reading'.id = x /\ reading'.size = y
      BY <3>2
    <3>4. ackMem'[lane'] = at /\ log'[lane'] = log[lane]
      BY <1>2, <2>1
    <3> QED
      BY <3>1, <3>3, <3>4, <2>2, <1>4 DEF ReadInv
  <2>4. ASSUME NEW l \in Lanes \ mispaired PROVE LogInv(l)' /\ KeptInv(l)' /\ MarkInv(l)'
    <3>1. LogInv(l) /\ KeptInv(l) /\ MarkInv(l)
      BY DEF SpoolInv
    <3>2. Offset(l) = ackMem[l] /\ Offset(l)' = ackMem'[l] /\ Lost(l)' = Lost(l) /\ Unused <= Unused'
      BY <1>2, <2>2 DEF Offset, Lost
    <3>3. \A o \in Nat : o >= Offset(l) /\ Whole(log[l], o) => o >= Offset(l)'
      BY <2>1, <3>2, <1>4
    <3>4. LogInv(l)' /\ KeptInv(l)'
      BY <3>1, <3>2, <3>3, <1>2, <2>2, SameLogKeeps DEF LogInv
    <3>5. Starts(log[l], ackMem'[l]) /\ ackDisk[l] <= ackMem'[l] /\ Starts(log[l], ackDisk[l])
      <4>1. Starts(log[l], ackMem[l]) /\ Starts(log[l], ackDisk[l]) /\ ackDisk[l] <= ackMem[l]
        BY <3>1, <2>2 DEF MarkInv, Rewritten
      <4>2. Starts(log[lane], at)
        BY <1>4, <2>1, WholeStarts
      <4> QED
        BY <4>1, <4>2, <2>1, <1>4
    <3>6. MarkInv(l)'
      BY <3>5, <1>2 DEF MarkInv
    <3> QED
      BY <3>4, <3>6
  <2> QED
    BY <2>2, <2>3, <2>4, <1>2, InOrderStays DEF SpoolInv
<1> QED
  BY <1>1, <1>3, <1>4, ReadNextFinds

(* ack passes exactly the frame that was read, which is delivered or, on   *)
(* the normal lane, dropped.                                               *)
LEMMA AckKeeps ==
    ASSUME SpoolTyped, SpoolTyped', SpoolInv, lane \notin mispaired, NEW return, Ack(return),
           \/ pc = "drop" /\ return = "evict" /\ evicted' = evicted \cup {reading.id}
           \/ pc = "ack" /\ return = "ship" /\ evicted' = evicted
    PROVE  SpoolInv'
<1> DEFINE a == ackMem[lane]
           s == log[lane]
<1>1. /\ lane \in Lanes /\ s \in Seq(Cells) /\ a \in Nat /\ Len(s) \in Nat
      /\ UNCHANGED <<log, ackDisk, lane, incoming, nextId, crashes, accepted, delivered, mispaired>>
  BY SpoolFacts, CellTyped DEF Ack, disk
<1>2. Framed(s) /\ Whole(s, a) /\ reading.id = s[a + 1].id /\ reading.size = s[a + 1].size
  BY <1>1 DEF SpoolInv, LogInv, ReadInv, HasRead, Toward
<1>3. s[a + 1].size \in Nat
  <2>1. a + 1 \in 1 .. Len(s)
    BY <1>1, <1>2 DEF Whole
  <2> QED
    BY <1>1, <2>1, CellTyped
<1>4. \A l \in Lanes : ackMem'[l] = IF l = lane THEN a + s[a + 1].size ELSE ackMem[l]
  BY <1>1, <1>2 DEF Ack, SpoolTyped, SpoolTypeOK
<1>5. ASSUME NEW l \in Lanes, l = lane
      PROVE  reading.id \in delivered'[l] \cup Lost(l)'
  <2>1. CASE pc = "drop"
    <3>1. lane = "normal"
      BY <2>1 DEF SpoolTyped, ControlInv, Toward
    <3> QED
      BY <2>1, <3>1, <1>1, <1>5 DEF Lost
  <2>2. CASE pc = "ack"
    BY <2>2, <1>1, <1>5 DEF SpoolInv, ReadInv
  <2> QED
    BY <2>1, <2>2
<1>6. /\ Unused' = Unused /\ Unused \in Nat
      /\ pc \notin {"down", "persist"} /\ pc' = "persist" /\ after' \in {"evict", "ship"}
      /\ ~Compacted /\ ~Compacted'
  BY <1>1, UnusedIsNat DEF Ack, Unused, Enqueuing, Toward, Compacted
<1>7. ReadInv'
  BY <1>6 DEF ReadInv, HasRead, Toward
<1>8. ASSUME NEW l \in Lanes \ mispaired PROVE LogInv(l)' /\ KeptInv(l)' /\ MarkInv(l)'
  <2>1. LogInv(l) /\ KeptInv(l) /\ MarkInv(l) /\ ackMem[l] \in Nat /\ ackDisk[l] \in Nat
    BY SpoolFacts DEF SpoolInv
  <2>2. Offset(l) = ackMem[l] /\ Offset(l)' = ackMem'[l] /\ Lost(l) \subseteq Lost(l)' /\ Unused <= Unused'
    BY <1>6 DEF Offset, Lost
  <2>3. ASSUME NEW o \in Nat, o >= Offset(l), Whole(log[l], o),
               log[l][o + 1].id \notin delivered'[l] \cup Lost(l)'
        PROVE  o >= Offset(l)'
    <3>1. CASE l # lane
      BY <3>1, <2>2, <2>3, <1>4
    <3>2. CASE l = lane /\ o = a
      BY <3>2, <1>2, <1>5, <2>3
    <3>3. CASE l = lane /\ o # a
      <4>1. a < o
        BY <3>3, <2>2, <2>3, <1>1
      <4>2. a + s[a + 1].size <= o
        BY <4>1, <3>3, <1>1, <1>2, <2>3, FramesApart
      <4> QED
        BY <4>2, <3>3, <2>2, <1>4
    <3> QED
      BY <3>1, <3>2, <3>3
  <2>4. LogInv(l)' /\ KeptInv(l)'
    BY <2>1, <2>2, <2>3, <1>1, <1>6, SameLogKeeps DEF LogInv
  <2>5. Starts(log[l], ackMem'[l]) /\ ackDisk[l] <= ackMem'[l] /\ Starts(log[l], ackDisk[l])
    <3>1. Starts(log[l], ackMem[l]) /\ Starts(log[l], ackDisk[l]) /\ ackDisk[l] <= ackMem[l]
      BY <2>1, <1>6 DEF MarkInv, Rewritten
    <3>2. Starts(s, a + s[a + 1].size)
      BY <1>1, <1>2, StartsAfterFrame
    <3> QED
      BY <3>1, <3>2, <2>1, <1>3, <1>4
  <2>6. MarkInv(l)'
    BY <2>5, <1>1 DEF MarkInv
  <2> QED
    BY <2>4, <2>6
<1> QED
  BY <1>1, <1>6, <1>7, <1>8, InOrderStays DEF SpoolInv

(* The record that is sent is the oldest one not yet ingested.             *)
LEMMA SendKeeps ==
    ASSUME SpoolTyped, SpoolTyped', SpoolInv, lane \notin mispaired, Confirmed \/ GivenUp
    PROVE  SpoolInv'
<1> DEFINE a == ackMem[lane]
           s == log[lane]
           r == reading.id
<1>1. /\ lane \in Lanes /\ s \in Seq(Cells) /\ a \in Nat /\ Len(s) \in Nat
      /\ UNCHANGED <<log, ackDisk, ackMem, after, lane, incoming, nextId, crashes, accepted, evicted, mispaired>>
  BY SpoolFacts, CellTyped DEF Confirmed, GivenUp, disk
<1>2. Framed(s) /\ Below(s, Unused) /\ Whole(s, a) /\ r = s[a + 1].id
  BY <1>1 DEF SpoolInv, LogInv, ReadInv, HasRead, Toward, Confirmed, GivenUp
<1>3. r < Unused /\ r \in Nat
  <2>1. a + 1 \in 1 .. Len(s)
    BY <1>1, <1>2 DEF Whole
  <2> QED
    BY <1>1, <1>2, <2>1, CellTyped DEF Below
<1>4. /\ Unused' = Unused /\ Unused \in Nat
      /\ pc \notin {"down", "persist"} /\ pc' \in {"ack", "reclaim"} /\ ~Compacted /\ ~Compacted'
  BY <1>1, UnusedIsNat DEF Confirmed, GivenUp, Unused, Enqueuing, Toward, Compacted
<1>5. \A l \in Lanes : /\ delivered[l] \subseteq delivered'[l]
                       /\ delivered'[l] \subseteq delivered[l] \cup (IF l = lane THEN {r} ELSE {})
  BY DEF Confirmed, GivenUp, SpoolTyped, SpoolTypeOK
<1>6. ReadInv'
  <2>1. CASE GivenUp
    BY <2>1, <1>4 DEF GivenUp, ReadInv, HasRead, Toward
  <2>2. CASE Confirmed
    <3>1. reading' = reading /\ pc = "send" /\ r \in delivered'[lane]
      BY <2>2, <1>1 DEF Confirmed, SpoolTyped, SpoolTypeOK
    <3> QED
      BY <3>1, <1>1, <1>2 DEF ReadInv, SpoolInv, HasRead, Toward
  <2> QED
    BY <2>1, <2>2
<1>7. ASSUME NEW l \in Lanes \ mispaired PROVE LogInv(l)' /\ KeptInv(l)' /\ MarkInv(l)'
  <2>1. LogInv(l) /\ KeptInv(l) /\ MarkInv(l) /\ ackMem[l] \in Nat
    BY SpoolFacts DEF SpoolInv
  <2>2. Offset(l)' = Offset(l) /\ Lost(l)' = Lost(l) /\ Unused <= Unused'
    BY <1>1, <1>4 DEF Offset, Lost
  <2>3. \A i \in delivered'[l] : i < Unused'
    BY <1>3, <1>4, <1>5, <2>1 DEF LogInv
  <2>4. LogInv(l)' /\ KeptInv(l)'
    BY <2>1, <2>2, <2>3, <1>1, <1>5, SameLogKeeps
  <2>5. MarkInv(l)'
    BY <2>1, <1>1, <1>4 DEF MarkInv, Rewritten
  <2> QED
    BY <2>4, <2>5
<1>8. CriticalInOrder'
  <2> SUFFICES ASSUME "critical" \notin mispaired,
                      NEW i \in delivered'["critical"], NEW j \in accepted["critical"], j < i,
                      j \notin delivered["critical"]
               PROVE  FALSE
    BY <1>1, <1>5 DEF CriticalInOrder, Lanes
  <2>1. i \notin delivered["critical"]
    BY DEF SpoolInv, CriticalInOrder
  <2>2. lane = "critical" /\ i = r
    BY <2>1, <1>5 DEF Lanes
  <2>3. Held("critical", j)
    BY DEF SpoolInv, KeptInv, Lost, Lanes
  <2>4. PICK o \in Nat : o >= a /\ Whole(s, o) /\ s[o + 1].id = j
    BY <2>2, <2>3, <1>4 DEF Held, Offset
  <2>5. o # a
    BY <2>2, <2>4, <1>2, <1>3
  <2>6. a < o
    BY <2>4, <2>5, <1>1
  <2>7. s[a + 1].id < s[o + 1].id
    BY <2>4, <2>6, <1>1, <1>2, FramesApart
  <2>8. j \in Nat
    BY SpoolFacts DEF Lanes
  <2> QED
    BY <2>2, <2>4, <2>7, <2>8, <1>2, <1>3
<1> QED
  BY <1>1, <1>4, <1>6, <1>7, <1>8 DEF SpoolInv

LEMMA PersistKeeps ==
    ASSUME SpoolTyped, SpoolTyped', SpoolInv, Persist
    PROVE  SpoolInv'
<1>1. /\ lane \in Lanes
      /\ UNCHANGED <<log, ackMem, lane, incoming, reading, nextId, crashes, accepted, evicted, delivered, mispaired>>
      /\ pc = "persist" /\ pc' = after /\ after' = "idle" /\ after \in Returns
  BY SpoolFacts DEF Persist, history, records, SpoolTyped, SpoolTypeOK, ControlInv
<1>2. \A l \in Lanes : ackDisk'[l] = IF l = lane THEN ackMem[l] ELSE ackDisk[l]
  BY <1>1 DEF Persist, SpoolTyped, SpoolTypeOK
<1>3. /\ Unused' = Unused /\ Unused \in Nat
      /\ pc' \notin {"down", "panicked", "ack", "persist"} /\ ~Compacted'
  BY <1>1, UnusedIsNat DEF Unused, Enqueuing, Toward, Compacted, Returns
<1>4. ReadInv'
  <2>1. HasRead' => HasRead
    BY <1>1, <1>3 DEF HasRead, Toward
  <2> QED
    BY <2>1, <1>1, <1>3 DEF ReadInv, SpoolInv
<1>5. ASSUME NEW l \in Lanes \ mispaired PROVE LogInv(l)' /\ KeptInv(l)' /\ MarkInv(l)'
  <2>1. LogInv(l) /\ KeptInv(l) /\ MarkInv(l) /\ ackMem[l] \in Nat
    BY SpoolFacts DEF SpoolInv
  <2>2. Offset(l)' = Offset(l) /\ Lost(l)' = Lost(l) /\ Unused <= Unused'
    BY <1>1, <1>3 DEF Offset, Lost
  <2>3. LogInv(l)' /\ KeptInv(l)'
    BY <2>1, <2>2, <1>1, <1>3, SameLogKeeps DEF LogInv
  <2>4. Starts(log[l], ackMem[l]) /\ Starts(log[l], ackDisk'[l]) /\ ackDisk'[l] <= ackMem[l]
    BY <2>1, <1>1, <1>2 DEF MarkInv, Rewritten
  <2>5. MarkInv(l)'
    BY <2>4, <1>1 DEF MarkInv
  <2> QED
    BY <2>3, <2>5
<1> QED
  BY <1>1, <1>3, <1>4, <1>5, InOrderStays DEF SpoolInv

(* compact's rewrite keeps every frame from the watermark on; the          *)
(* watermark is never beyond the end of the log, so it does not panic.     *)
LEMMA CompactKeeps ==
    ASSUME SpoolTyped, SpoolTyped', SpoolInv, lane \notin mispaired, Compact
    PROVE  SpoolInv'
<1> DEFINE a == ackMem[lane]
           s == log[lane]
<1>1. /\ lane \in Lanes /\ s \in Seq(Cells) /\ a \in Nat /\ Len(s) \in Nat
      /\ UNCHANGED <<ackDisk, lane, incoming, reading, nextId, crashes, accepted, evicted, delivered, mispaired>>
  BY SpoolFacts, CellTyped DEF Compact, history, records
<1>2. Framed(s) /\ Below(s, Unused) /\ Starts(s, a) /\ Unused \in Nat
  BY <1>1, UnusedIsNat DEF SpoolInv, LogInv, MarkInv
<1>3. pc \in {"compact_then_append", "compact_then_next"} /\ ~(Len(s) < a)
  BY <1>1, <1>2 DEF Compact, Starts
<1>4. CASE a = 0
  <2>1. /\ UNCHANGED <<log, ackMem, after>>
        /\ pc' = IF pc = "compact_then_append" THEN "append" ELSE "next_lane"
    BY <1>4 DEF Compact
  <2>2. Unused' = Unused
    BY <2>1, <1>1, <1>3 DEF Unused, Enqueuing, Toward
  <2>3. ReadInv'
    BY <2>1 DEF ReadInv, HasRead, Toward
  <2>4. pc # "down" /\ pc' \notin {"down", "panicked"} /\ ~Compacted /\ ~Compacted'
    BY <2>1, <1>3 DEF Compacted
  <2> QED
    BY <1>1, <2>1, <2>2, <2>3, <2>4, QuietKeeps
<1>5. CASE a # 0
  <2>1. /\ DropAckedPrefix /\ pc' = "persist"
        /\ after' = IF pc = "compact_then_append" THEN "append" ELSE "next_lane"
    BY <1>3, <1>5 DEF Compact
  <2>2. PICK t : t = SubSeq(s, a + 1, Len(s))
    OBVIOUS
  <2>3. /\ t \in Seq(Cells) /\ Framed(t) /\ Below(t, Unused)
        /\ \A q \in Nat : q >= a /\ Whole(s, q) => Whole(t, q - a) /\ t[q - a + 1].id = s[q + 1].id
    <3>1. PICK s0 \in Seq(Cells), a0 \in Nat, u0 \in Nat : s0 = s /\ a0 = a /\ u0 = Unused
      BY <1>1, <1>2
    <3>2. Framed(s0) /\ Starts(s0, a0) /\ Below(s0, u0) /\ t = Rest(s0, a0)
      BY <3>1, <1>2, <2>2 DEF Rest
    <3> HIDE DEF a, s
    <3>3. /\ t \in Seq(Cells) /\ Framed(t) /\ Below(t, u0)
          /\ \A q \in Nat : q >= a0 /\ Whole(s0, q) =>
               Whole(t, q - a0) /\ t[q - a0 + 1].id = s0[q + 1].id
      BY <3>2, SuffixFramed
    <3> QED
      BY <3>1, <3>3
  <2>4. \A l \in Lanes : /\ log'[l] = IF l = lane THEN t ELSE log[l]
                         /\ ackMem'[l] = IF l = lane THEN 0 ELSE ackMem[l]
    BY <2>1, <2>2, <1>1 DEF DropAckedPrefix, SpoolTyped, SpoolTypeOK
  <2>5. /\ Unused' = Unused /\ pc # "down" /\ ~Compacted /\ Compacted'
        /\ ~HasRead'
    BY <2>1, <1>1, <1>3 DEF Unused, Enqueuing, Toward, HasRead, Compacted
  <2>6. ReadInv'
    BY <2>1, <2>5 DEF ReadInv
  <2>7. ASSUME NEW l \in Lanes \ mispaired, l # lane PROVE LogInv(l)' /\ KeptInv(l)' /\ MarkInv(l)'
    <3>1. LogInv(l) /\ KeptInv(l) /\ MarkInv(l)
      BY DEF SpoolInv
    <3>2. Offset(l)' = Offset(l) /\ Lost(l)' = Lost(l) /\ Unused <= Unused' /\ log'[l] = log[l]
          /\ ackMem'[l] = ackMem[l]
      BY <2>7, <1>1, <1>2, <2>1, <2>4, <2>5 DEF Offset, Lost
    <3>3. LogInv(l)' /\ KeptInv(l)'
      BY <3>1, <3>2, <2>5, <1>1, SameLogKeeps DEF LogInv
    <3>4. MarkInv(l)'
      BY <3>1, <3>2, <2>1, <2>5, <1>1 DEF MarkInv, Rewritten
    <3> QED
      BY <3>3, <3>4
  <2>8. ASSUME NEW l \in Lanes \ mispaired, l = lane PROVE LogInv(l)' /\ KeptInv(l)' /\ MarkInv(l)'
    <3>1. LogInv(l) /\ KeptInv(l) /\ log'[l] = t /\ ackMem'[l] = 0 /\ Lost(l)' = Lost(l)
      BY <2>8, <2>4, <1>1 DEF SpoolInv, Lost
    <3>2. LogInv(l)'
      BY <3>1, <2>3, <2>5, <1>1 DEF LogInv
    <3>3. MarkInv(l)'
      <4>1. Starts(t, 0)
        BY <2>3, StartsAtZero
      <4>2. Rewritten(l)'
        BY <2>5, <2>8, <1>1 DEF Rewritten
      <4> QED
        BY <4>1, <4>2, <3>1 DEF MarkInv
    <3>4. Offset(l)' = 0 /\ Offset(l) = a
      BY <3>1, <2>1, <2>5, <2>8 DEF Offset
    <3>5. KeptInv(l)'
      <4> SUFFICES ASSUME NEW i \in accepted[l], i \notin delivered[l] \cup Lost(l)
                   PROVE  Held(l, i)'
        BY <3>1, <1>1 DEF KeptInv
      <4>1. PICK o \in Nat : o >= a /\ Whole(s, o) /\ s[o + 1].id = i
        BY <3>1, <3>4, <2>8 DEF KeptInv, Held
      <4>2. PICK q \in Nat : q = o - a
        BY <4>1, <1>1
      <4>3. Whole(t, q) /\ t[q + 1].id = i
        BY <4>1, <4>2, <2>3
      <4>4. q >= 0
        BY <4>2
      <4> QED
        BY <4>3, <4>4, <3>1, <3>4 DEF Held
    <3> QED
      BY <3>2, <3>3, <3>5
  <2> QED
    BY <2>1, <2>6, <2>7, <2>8, <1>1, InOrderStays DEF SpoolInv
<1> QED
  BY <1>4, <1>5

(* What an append or a part of one does to its lane.                       *)
LEMMA ExtensionKeeps ==
    ASSUME SpoolTyped, SpoolTyped', SpoolInv, pc = "append",
           NEW l \in Lanes \ mispaired, NEW n \in 0 .. incoming.size,
           log'[l] \in Seq(Cells),
           Extended(log[l], log'[l], incoming.id, incoming.size, n),
           Unused' = nextId, delivered'[l] = delivered[l]
    PROVE  /\ LogInv(l)'
           /\ \A o \in Nat : Starts(log[l], o) => Starts(log'[l], o)
           /\ \A o \in Nat : Whole(log[l], o) =>
                Whole(log'[l], o) /\ log'[l][o + 1].id = log[l][o + 1].id
           /\ n = incoming.size => /\ Whole(log'[l], Len(log[l]))
                                   /\ log'[l][Len(log[l]) + 1].id = incoming.id
<1> DEFINE s == log[l]
           t == log'[l]
<1>1. s \in Seq(Cells) /\ incoming.id \in Ids /\ incoming.size \in Sizes /\ Unused = incoming.id
      /\ nextId = incoming.id + 1 /\ incoming.id \in Nat
  BY SpoolFacts DEF SpoolTyped, ControlInv, Enqueuing, Toward, Unused
<1>2. Framed(s) /\ Below(s, incoming.id) /\ \A i \in delivered[l] : i < incoming.id /\ i \in Nat
  BY <1>1, SpoolFacts DEF SpoolInv, LogInv
<1>3. /\ Framed(t) /\ Below(t, incoming.id + 1)
      /\ \A o \in Nat : Starts(s, o) => Starts(t, o)
      /\ \A o \in Nat : Whole(s, o) => Whole(t, o) /\ t[o + 1].id = s[o + 1].id
      /\ n = incoming.size => Whole(t, Len(s)) /\ t[Len(s) + 1].id = incoming.id
  <2>1. PICK s0 \in Seq(Cells), t0 \in Seq(Cells), id \in Ids, size \in Sizes :
          s0 = s /\ t0 = t /\ id = incoming.id /\ size = incoming.size
    BY <1>1
  <2>2. n \in 0 .. size /\ Extended(s0, t0, id, size, n) /\ Framed(s0) /\ Below(s0, id)
    BY <2>1, <1>2
  <2> HIDE DEF s, t
  <2>3. /\ Framed(t0) /\ Below(t0, id + 1)
        /\ \A o \in Nat : Starts(s0, o) => Starts(t0, o)
        /\ \A o \in Nat : Whole(s0, o) => Whole(t0, o) /\ t0[o + 1].id = s0[o + 1].id
        /\ n = size => Whole(t0, Len(s0)) /\ t0[Len(s0) + 1].id = id
    BY <2>2, ExtensionFramed
  <2> QED
    BY <2>1, <2>3
<1>4. \A i \in delivered[l] : i < nextId
  BY <1>1, <1>2
<1>5. LogInv(l)'
  BY <1>1, <1>3, <1>4 DEF LogInv
<1> QED
  BY <1>3, <1>5

LEMMA AppendKeeps ==
    ASSUME SpoolTyped, SpoolTyped', SpoolInv, lane \notin mispaired, AppendFrame
    PROVE  SpoolInv'
<1>1. /\ lane \in Lanes /\ log[lane] \in Seq(Cells) /\ ackMem[lane] \in Nat /\ pc = "append" /\ pc' = "idle"
      /\ UNCHANGED <<ackDisk, ackMem, after, lane, reading, nextId, crashes, evicted, delivered, mispaired>>
      /\ Len(log[lane]) \in Nat /\ after = "idle"
  BY SpoolFacts, CellTyped DEF AppendFrame, SpoolTyped, ControlInv
<1>2. /\ incoming.id \in Ids /\ incoming.size \in Sizes /\ Unused = incoming.id
      /\ nextId = incoming.id + 1 /\ incoming.id \in Nat /\ Unused' = nextId
  BY <1>1, SpoolFacts DEF SpoolTyped, ControlInv, Enqueuing, Toward, Unused
<1>3. incoming = [id |-> incoming.id, size |-> incoming.size]
  BY DEF SpoolTyped, SpoolTypeOK, Records
<1>4. \A l \in Lanes : /\ log'[l] = IF l = lane THEN log[l] \o Frame(incoming) ELSE log[l]
                       /\ accepted'[l] = IF l = lane THEN accepted[l] \cup {incoming.id} ELSE accepted[l]
  BY <1>1 DEF AppendFrame, SpoolTyped, SpoolTypeOK
<1>5. /\ log[lane] \o Frame(incoming) \in Seq(Cells)
      /\ Extended(log[lane], log[lane] \o Frame(incoming), incoming.id, incoming.size, incoming.size)
      /\ incoming.size \in 0 .. incoming.size
  <2>1. PICK id \in Ids, size \in Sizes, s \in Seq(Cells) :
          id = incoming.id /\ size = incoming.size /\ s = log[lane]
    BY <1>1, <1>2
  <2>2. size \in 0 .. size
    BY SizesAssumption
  <2>3. LET f == Frame([id |-> id, size |-> size])
        IN  s \o f \in Seq(Cells) /\ Extended(s, s \o f, id, size, size)
    BY <2>2, AppendExtends
  <2>4. incoming = [id |-> id, size |-> size]
    BY <1>3, <2>1
  <2> QED
    BY <2>1, <2>2, <2>3, <2>4
<1>6. pc # "down" /\ ~Compacted /\ ~Compacted' /\ ReadInv' /\ pc' \notin {"down", "panicked"}
  BY <1>1 DEF Compacted, ReadInv, HasRead, Toward
<1>7. ASSUME NEW l \in Lanes \ mispaired, l # lane PROVE LogInv(l)' /\ KeptInv(l)' /\ MarkInv(l)'
  <2>1. LogInv(l) /\ KeptInv(l) /\ MarkInv(l) /\ delivered[l] \subseteq Nat
    BY SpoolFacts DEF SpoolInv
  <2>2. /\ Offset(l)' = Offset(l) /\ Lost(l)' = Lost(l) /\ Unused <= Unused'
        /\ log'[l] = log[l] /\ accepted'[l] = accepted[l]
    <3>1. Offset(l)' = Offset(l) /\ Lost(l)' = Lost(l)
      BY <1>1 DEF Offset, Lost
    <3>2. Unused <= Unused'
      BY <1>2
    <3>3. log'[l] = log[l] /\ accepted'[l] = accepted[l]
      BY <1>4, <1>7
    <3> QED
      BY <3>1, <3>2, <3>3
  <2>3. \A i \in delivered'[l] : i < Unused'
    BY <2>1, <1>1, <1>2 DEF LogInv
  <2>4. LogInv(l)' /\ KeptInv(l)'
    BY <2>1, <2>2, <2>3, <1>1, SameLogKeeps
  <2>5. MarkInv(l)'
    BY <2>1, <2>2, <1>1, <1>6 DEF MarkInv, Rewritten
  <2> QED
    BY <2>4, <2>5
<1>8. ASSUME NEW l \in Lanes \ mispaired, l = lane PROVE LogInv(l)' /\ KeptInv(l)' /\ MarkInv(l)'
  <2>1. KeptInv(l) /\ MarkInv(l) /\ Lost(l)' = Lost(l) /\ Offset(l) = ackMem[l] /\ Offset(l)' = ackMem[l]
    BY <1>1 DEF SpoolInv, Lost, Offset
  <2>2. PICK n : n = incoming.size
    OBVIOUS
  <2>3. /\ n \in 0 .. incoming.size /\ log'[l] \in Seq(Cells)
        /\ Extended(log[l], log'[l], incoming.id, incoming.size, n)
        /\ delivered'[l] = delivered[l]
    BY <2>2, <1>1, <1>4, <1>5, <1>8
  <2>4. /\ LogInv(l)'
        /\ \A o \in Nat : Starts(log[l], o) => Starts(log'[l], o)
        /\ \A o \in Nat : Whole(log[l], o) =>
             Whole(log'[l], o) /\ log'[l][o + 1].id = log[l][o + 1].id
        /\ n = incoming.size => /\ Whole(log'[l], Len(log[l]))
                                /\ log'[l][Len(log[l]) + 1].id = incoming.id
    BY <2>3, <1>1, <1>2, ExtensionKeeps
  <2>5. MarkInv(l)'
    BY <2>1, <2>4, <1>1, <1>6, SpoolFacts DEF MarkInv, Rewritten
  <2>6. KeptInv(l)'
    <3> SUFFICES ASSUME NEW i \in accepted'[l], i \notin delivered[l] \cup Lost(l)
                 PROVE  Held(l, i)'
      BY <2>1, <1>1 DEF KeptInv
    <3>1. CASE i = incoming.id
      <4>1. Len(log[l]) \in Nat /\ Len(log[l]) >= ackMem[l]
        BY <2>1, <1>1, <1>8 DEF MarkInv, Starts
      <4> QED
        BY <4>1, <3>1, <2>1, <2>2, <2>4 DEF Held
    <3>2. CASE i \in accepted[l]
      <4>1. PICK o \in Nat : o >= ackMem[l] /\ Whole(log[l], o) /\ log[l][o + 1].id = i
        BY <3>2, <2>1 DEF KeptInv, Held
      <4> QED
        BY <4>1, <2>1, <2>4 DEF Held
    <3> QED
      BY <3>1, <3>2, <1>4
  <2> QED
    BY <2>4, <2>5, <2>6
<1>9. CriticalInOrder'
  <2> SUFFICES ASSUME "critical" \notin mispaired,
                      NEW i \in delivered["critical"], NEW j \in accepted'["critical"], j < i
               PROVE  j \in delivered["critical"]
    BY <1>1 DEF CriticalInOrder
  <2>1. "critical" \in Lanes
    BY DEF Lanes
  <2>2. i < incoming.id /\ i \in Nat
    BY <1>2, <2>1, SpoolFacts DEF SpoolInv, LogInv
  <2>3. j # incoming.id
    BY <2>2, <1>2
  <2>4. j \in accepted["critical"]
    BY <2>1, <2>3, <1>4
  <2> QED
    BY <2>4 DEF SpoolInv, CriticalInOrder
<1> QED
  BY <1>1, <1>6, <1>7, <1>8, <1>9 DEF SpoolInv

(* A step on a mispaired lane leaves the other lane as it is.              *)
LEMMA MispairedKeeps ==
    ASSUME SpoolTyped, SpoolTyped', SpoolInv, lane \in mispaired,
           DropOldest \/ AckShipped \/ Confirmed \/ GivenUp \/ Compact \/ AppendFrame
    PROVE  SpoolInv'
<1> USE DEF disk, history, records
<1>1. /\ lane' = lane /\ mispaired' = mispaired /\ nextId' = nextId
      /\ pc \notin {"down", "persist"} /\ pc' # "down" /\ ~Compacted
  BY DEF DropOldest, AckShipped, Ack, Confirmed, GivenUp, Compact, AppendFrame, Compacted
<1>2. ReadInv' /\ (pc' = "panicked" => lane' \in mispaired')
  BY <1>1 DEF ReadInv
<1>3. Unused <= Unused' /\ Unused \in Nat
  <2>1. Unused' \in {Unused, nextId}
    BY <1>1 DEF DropOldest, AckShipped, Ack, Confirmed, GivenUp, Compact, AppendFrame, Unused, Enqueuing, Toward
  <2> QED
    BY <2>1, SpoolFacts
<1>4. ASSUME NEW l \in Lanes \ mispaired
      PROVE  /\ log'[l] = log[l] /\ ackMem'[l] = ackMem[l] /\ ackDisk'[l] = ackDisk[l]
             /\ accepted'[l] = accepted[l] /\ delivered'[l] = delivered[l]
             /\ Lost(l) \subseteq Lost(l)' /\ l # lane
  <2>1. l # lane /\ lane \in Lanes
    BY SpoolFacts
  <2>2. Lost(l) \subseteq Lost(l)'
    BY DEF Lost, DropOldest, AckShipped, Confirmed, GivenUp, Compact, AppendFrame
  <2>3. log'[l] = log[l] /\ ackMem'[l] = ackMem[l] /\ ackDisk'[l] = ackDisk[l]
    BY <2>1 DEF DropOldest, AckShipped, Ack, Confirmed, GivenUp, Compact, DropAckedPrefix, AppendFrame,
                SpoolTyped, SpoolTypeOK
  <2>4. accepted'[l] = accepted[l] /\ delivered'[l] = delivered[l]
    BY <2>1 DEF DropOldest, AckShipped, Ack, Confirmed, GivenUp, Compact, AppendFrame,
                SpoolTyped, SpoolTypeOK
  <2> QED
    BY <2>1, <2>2, <2>3, <2>4
<1>5. ASSUME NEW l \in Lanes \ mispaired PROVE LogInv(l)' /\ KeptInv(l)' /\ MarkInv(l)'
  <2>1. LogInv(l) /\ KeptInv(l) /\ MarkInv(l) /\ delivered[l] \subseteq Nat
    BY SpoolFacts DEF SpoolInv
  <2>2. Offset(l)' = Offset(l)
    BY <1>1, <1>4 DEF Offset
  <2>3. \A i \in delivered'[l] : i < Unused'
    BY <2>1, <1>3, <1>4, UnusedStaysNat DEF LogInv
  <2>4. LogInv(l)' /\ KeptInv(l)'
    BY <2>1, <2>2, <2>3, <1>3, <1>4, SameLogKeeps
  <2>5. MarkInv(l)'
    BY <2>1, <1>1, <1>4 DEF MarkInv, Rewritten
  <2> QED
    BY <2>4, <2>5
<1>6. CriticalInOrder'
  BY <1>1, <1>4 DEF SpoolInv, CriticalInOrder, Lanes
<1> QED
  BY <1>1, <1>2, <1>5, <1>6 DEF SpoolInv

(* The process dies: the log has gained at most a torn frame, and the      *)
(* watermark on disk is not ahead of the one in memory, except on a lane   *)
(* that this crash mispairs.                                               *)
LEMMA CrashKeeps ==
    ASSUME SpoolTyped, SpoolTyped', SpoolInv, Crash
    PROVE  SpoolInv'
<1>1. /\ lane \in Lanes /\ pc # "down" /\ pc' = "down" /\ after' = "idle"
      /\ mispaired \subseteq mispaired'
      /\ UNCHANGED <<lane, nextId, accepted, evicted, delivered>>
      /\ \A l \in Lanes : ackMem'[l] = 0
  BY SpoolFacts DEF Crash, history, records
<1>2. \A l \in Lanes : /\ ackDisk'[l] \in {ackDisk[l], 0}
                       /\ l \notin mispaired' => ackDisk'[l] = 0 \/ ~Rewritten(l)
  BY DEF Crash, TruncatedReadsAs, SpoolTyped, SpoolTypeOK, Rewritten
<1>3. ~Compacted' /\ ReadInv' /\ Unused' = nextId /\ Unused <= nextId /\ Unused \in Nat
  BY <1>1, SpoolFacts DEF Compacted, ReadInv, HasRead, Toward, Unused, Enqueuing
<1>4. PICK n \in 0 .. (IF pc = "append" THEN incoming.size ELSE 0) :
        log' = [log EXCEPT ![lane] = @ \o SubSeq(Frame(incoming), 1, n)]
  BY DEF Crash
<1>5. ASSUME NEW l \in Lanes \ mispaired'
      PROVE  /\ LogInv(l)' /\ log'[l] \in Seq(Cells) /\ Framed(log'[l])
             /\ \A o \in Nat : Starts(log[l], o) => Starts(log'[l], o)
             /\ \A o \in Nat : Whole(log[l], o) =>
                  Whole(log'[l], o) /\ log'[l][o + 1].id = log[l][o + 1].id
  <2>0. log[l] \in Seq(Cells) /\ LogInv(l) /\ delivered[l] \subseteq Nat /\ log[lane] \in Seq(Cells)
    BY <1>1, SpoolFacts DEF SpoolInv
  <2>1. CASE log'[l] = log[l]
    <3>1. \A i \in 1 .. Len(log[l]) : log[l][i].id \in Nat
      BY <2>0, CellTyped
    <3>2. Below(log[l], nextId) /\ \A i \in delivered[l] : i < nextId
      BY <2>0, <3>1, <1>3, SpoolFacts DEF LogInv, Below
    <3>3. LogInv(l)'
      BY <2>1, <3>2, <2>0, <1>1, <1>3 DEF LogInv
    <3> QED
      BY <2>0, <2>1, <3>3 DEF LogInv
  <2>2. CASE l = lane /\ pc = "append"
    <3>1. /\ incoming.id \in Ids /\ incoming.size \in Sizes
          /\ incoming = [id |-> incoming.id, size |-> incoming.size]
      BY <2>2 DEF SpoolTyped, SpoolTypeOK, ControlInv, Enqueuing, Toward, Records
    <3>2. PICK id \in Ids, size \in Sizes, s \in Seq(Cells) :
            id = incoming.id /\ size = incoming.size /\ s = log[l]
      BY <3>1, <2>0
    <3>3. n \in 0 .. size /\ incoming = [id |-> id, size |-> size]
      BY <1>4, <2>2, <3>1, <3>2
    <3>4. LET f == Frame([id |-> id, size |-> size])
          IN  /\ s \o SubSeq(f, 1, n) \in Seq(Cells)
              /\ Extended(s, s \o SubSeq(f, 1, n), id, size, n)
      BY <3>3, AppendExtends
    <3>5. log'[l] = s \o SubSeq(Frame([id |-> id, size |-> size]), 1, n)
      BY <1>4, <2>2, <3>2, <3>3 DEF SpoolTyped, SpoolTypeOK
    <3>6. log'[l] \in Seq(Cells) /\ Extended(log[l], log'[l], incoming.id, incoming.size, n)
      BY <3>2, <3>4, <3>5
    <3>7. n \in 0 .. incoming.size /\ Unused' = nextId /\ delivered'[l] = delivered[l]
      BY <3>2, <3>3, <1>1, <1>3
    <3>8. l \in Lanes \ mispaired
      BY <1>1
    <3> QED
      BY <3>6, <3>7, <3>8, <2>2, ExtensionKeeps DEF LogInv
  <2>3. CASE l = lane /\ pc # "append"
    <3>1. n = 0
      BY <1>4, <2>3
    <3>2. SubSeq(Frame(incoming), 1, n) = <<>>
      BY <3>1, SubSeqEmpty
    <3>3. log[lane] \o <<>> = log[lane]
      BY <2>0, ConcatEmptySeq
    <3>4. log'[l] = log[l]
      BY <1>4, <2>3, <3>2, <3>3 DEF SpoolTyped, SpoolTypeOK
    <3> QED
      BY <2>1, <3>4
  <2>4. l # lane => log'[l] = log[l]
    BY <1>4 DEF SpoolTyped, SpoolTypeOK
  <2> QED
    BY <2>1, <2>2, <2>3, <2>4
<1>6. ASSUME NEW l \in Lanes \ mispaired' PROVE KeptInv(l)' /\ MarkInv(l)'
  <2>0. MarkInv(l) /\ KeptInv(l) /\ ackMem[l] \in Nat /\ ackDisk[l] \in Nat
    BY <1>1, SpoolFacts DEF SpoolInv
  <2>1. /\ ackDisk'[l] = 0 \/ (Starts(log[l], ackDisk[l]) /\ ackDisk[l] <= ackMem[l])
        /\ ackMem[l] \in Nat /\ ackDisk'[l] \in Nat /\ KeptInv(l)
    BY <2>0, <1>1, <1>2 DEF MarkInv
  <2>2. Starts(log'[l], 0) /\ Starts(log'[l], ackDisk'[l])
    BY <2>0, <2>1, <1>2, <1>5, StartsAtZero
  <2>3. MarkInv(l)'
    BY <2>2, <1>1, <1>2 DEF MarkInv
  <2>4. Offset(l)' <= Offset(l) /\ Offset(l) = ackMem[l] /\ Offset(l)' \in Nat /\ Lost(l)' = Lost(l)
    BY <2>1, <1>1, <1>2 DEF Offset, Lost
  <2>5. KeptInv(l)'
    <3> SUFFICES ASSUME NEW i \in accepted[l], i \notin delivered[l] \cup Lost(l)
                 PROVE  Held(l, i)'
      BY <2>4, <1>1 DEF KeptInv
    <3>1. PICK o \in Nat : o >= Offset(l) /\ Whole(log[l], o) /\ log[l][o + 1].id = i
      BY <2>1 DEF KeptInv, Held
    <3>2. o >= Offset(l)'
      BY <3>1, <2>1, <2>4
    <3> QED
      BY <3>1, <3>2, <1>5 DEF Held
  <2> QED
    BY <2>3, <2>5
<1> QED
  BY <1>1, <1>3, <1>5, <1>6, InOrderStays DEF SpoolInv

(* LaneState::open takes the watermark on disk.                            *)
LEMMA ReopenKeeps ==
    ASSUME SpoolTyped, SpoolTyped', SpoolInv, Reopen
    PROVE  SpoolInv'
<1>1. /\ pc \in {"down", "panicked"} /\ pc' = "idle" /\ ackMem' = ackDisk /\ after = "idle"
      /\ UNCHANGED <<log, ackDisk, after, lane, incoming, reading, nextId, crashes, accepted, evicted, delivered, mispaired>>
  BY DEF Reopen, disk, history, records, SpoolInv, SpoolTyped, ControlInv
<1>2. ~Compacted /\ ~Compacted' /\ ReadInv' /\ Unused' = Unused
  BY <1>1 DEF Compacted, ReadInv, HasRead, Toward, Unused, Enqueuing
<1>3. ASSUME NEW l \in Lanes \ mispaired PROVE LogInv(l)' /\ KeptInv(l)' /\ MarkInv(l)'
  <2>1. /\ LogInv(l) /\ KeptInv(l) /\ MarkInv(l) /\ ackDisk[l] \in Nat /\ ackMem[l] \in Nat
        /\ pc # "down" => ackDisk[l] <= ackMem[l]
    BY <1>2, SpoolFacts DEF SpoolInv, MarkInv, Rewritten
  <2>2. Offset(l)' <= Offset(l) /\ Lost(l)' = Lost(l) /\ Unused <= Unused'
    BY <1>1, <1>2, <2>1, UnusedIsNat DEF Offset, Lost
  <2>a. Offset(l)' \in Nat /\ Offset(l) \in Nat
    BY <1>1, <2>1 DEF Offset
  <2>b. \A o \in Nat : o >= Offset(l) => o >= Offset(l)'
    BY <2>2, <2>a
  <2>3. LogInv(l)' /\ KeptInv(l)'
    BY <2>1, <2>2, <2>b, <1>1, <1>2, SameLogKeeps DEF LogInv
  <2>4. MarkInv(l)'
    BY <2>1, <1>1, <1>2 DEF MarkInv, Rewritten
  <2> QED
    BY <2>3, <2>4
<1> QED
  BY <1>1, <1>2, <1>3, InOrderStays DEF SpoolInv

(* Making room when there is room already.                                 *)
LEMMA EvictKeeps ==
    ASSUME SpoolTyped, SpoolTyped', SpoolInv, EvictOldest
    PROVE  SpoolInv'
<1>1. CASE ReadNext("drop", "compact_then_append")
  BY <1>1, ReadNextKeeps DEF EvictOldest
<1>2. CASE /\ pc' = "compact_then_append"
           /\ UNCHANGED <<disk, ackMem, after, lane, incoming, reading, nextId, crashes, history>>
  <2>1. /\ pc = "evict"
        /\ UNCHANGED <<log, ackDisk, accepted, evicted, delivered, mispaired, incoming, nextId, after>>
    BY <1>2 DEF EvictOldest, disk, history, records
  <2>2. Unused' = Unused
    BY <2>1, <1>2 DEF Unused, Enqueuing, Toward
  <2>3. ReadInv'
    BY <1>2 DEF ReadInv, HasRead, Toward
  <2>4. pc # "down" /\ pc' \notin {"down", "panicked"} /\ ~Compacted /\ ~Compacted'
    BY <2>1, <1>2 DEF Compacted
  <2> QED
    BY <2>1, <2>2, <2>3, <2>4, <1>2, QuietKeeps
<1> QED
  BY <1>1, <1>2 DEF EvictOldest

LEMMA SpoolInvInit == SpoolInit => SpoolInv
<1> SUFFICES ASSUME SpoolInit PROVE SpoolInv
  OBVIOUS
<1>1. \A l \in Lanes : /\ log[l] = <<>> /\ ackMem[l] = 0 /\ ackDisk[l] = 0
                       /\ accepted[l] = {} /\ delivered[l] = {}
  BY DEF SpoolInit
<1>2. Len(<<>>) = 0 /\ 1 .. 0 = {}
  OBVIOUS
<1>3. \A l \in Lanes : LogInv(l)
  BY <1>1, <1>2 DEF LogInv, Framed, Below
<1>4. \A l \in Lanes : MarkInv(l)
  BY <1>1, <1>2 DEF MarkInv, Starts
<1>5. \A l \in Lanes : KeptInv(l)
  BY <1>1 DEF KeptInv
<1>6. ReadInv /\ pc # "panicked"
  BY DEF SpoolInit, ReadInv, HasRead, Toward
<1>7. CriticalInOrder
  BY <1>1 DEF CriticalInOrder, Lanes
<1> QED
  BY <1>3, <1>4, <1>5, <1>6, <1>7 DEF SpoolInv

LEMMA SpoolInvStep ==
    ASSUME SpoolTyped, SpoolTyped', SpoolInv, [SpoolNext]_spoolVars
    PROVE  SpoolInv'
<1>1. ASSUME NEW l \in Lanes, NEW size \in Sizes, Enqueue(l, size) PROVE SpoolInv'
  BY <1>1, EnqueueKeeps
<1>2. CASE BeginShipTick \/ Reclaim \/ NextLane
  BY <1>2, ControlKeeps
<1>3. CASE EvictOldest
  BY <1>3, EvictKeeps
<1>4. CASE DropOldest
  BY <1>4, AckKeeps, MispairedKeeps DEF DropOldest
<1>5. CASE Compact
  BY <1>5, CompactKeeps, MispairedKeeps
<1>6. CASE Persist
  BY <1>6, PersistKeeps
<1>7. CASE AppendFrame
  BY <1>7, AppendKeeps, MispairedKeeps
<1>8. CASE ShipNext
  BY <1>8, ReadNextKeeps DEF ShipNext
<1>9. CASE Confirmed \/ GivenUp
  BY <1>9, SendKeeps, MispairedKeeps
<1>10. CASE AckShipped
  BY <1>10, AckKeeps, MispairedKeeps DEF AckShipped
<1>11. CASE Crash
  BY <1>11, CrashKeeps
<1>12. CASE Reopen
  BY <1>12, ReopenKeeps
<1>13. CASE UNCHANGED spoolVars
  BY <1>13 DEF spoolVars, disk, history, records, SpoolInv, ReadInv, HasRead, Toward, LogInv, MarkInv, KeptInv,
     Held, Lost, Offset, Unused, Enqueuing, Rewritten, Compacted, CriticalInOrder
<1> QED
  BY <1>1, <1>2, <1>3, <1>4, <1>5, <1>6, <1>7, <1>8, <1>9, <1>10, <1>11, <1>12, <1>13
  DEF SpoolNext, Step

LEMMA SpoolInvHolds == SpoolSpec => [](SpoolTyped /\ SpoolInv)
<1>1. SpoolInit => SpoolTyped /\ SpoolInv
  BY SpoolTypedInit, SpoolInvInit
<1>2. (SpoolTyped /\ SpoolInv) /\ [SpoolNext]_spoolVars => (SpoolTyped /\ SpoolInv)'
  BY SpoolTypedStep, SpoolInvStep
<1> QED
  BY <1>1, <1>2, PTL DEF SpoolSpec

(* What is held can be read.                                               *)
LEMMA HeldIsReadable ==
    ASSUME SpoolTyped, SpoolInv, NEW l \in Lanes, NEW i, Held(l, i)
    PROVE  i \in Readable(l)
<1>1. PICK o \in Nat : o >= Offset(l) /\ Whole(log[l], o) /\ log[l][o + 1].id = i
  BY DEF Held
<1>2. o \in Offset(l) .. Len(log[l])
  BY <1>1, SpoolFacts, CellTyped DEF Whole
<1> QED
  BY <1>1, <1>2, FrameIsWhole DEF Readable

(* No critical record that enqueue accepted is lost: ingested, or still to *)
(* be read at the offset the sensor has or would reopen with.  Any sizes,  *)
(* budget, threshold, scan limit, number of records and of crashes at any  *)
(* write.  The one exemption is the property's own: the lane's files       *)
(* mispaired by a crash between the two writes of spool.rs compact.        *)
THEOREM CriticalIsNeverLost == SpoolSpec => []CriticalNeverLost
<1>1. SpoolTyped /\ SpoolInv => CriticalNeverLost
  <2> SUFFICES ASSUME SpoolTyped, SpoolInv, "critical" \notin mispaired,
                      NEW i \in accepted["critical"], i \notin delivered["critical"]
               PROVE  i \in Readable("critical")
    BY DEF CriticalNeverLost, RestartReplays
  <2>1. "critical" \in Lanes
    BY DEF Lanes
  <2>2. Held("critical", i)
    BY <2>1 DEF SpoolInv, KeptInv, Lost
  <2> QED
    BY <2>1, <2>2, HeldIsReadable
<1> QED
  BY SpoolInvHolds, <1>1, PTL

(* An accepted record of the normal lane is gone only if it was ingested   *)
(* or dropped by enqueue to make room, unless the lane's own files were    *)
(* mispaired; a mispaired critical lane makes no difference to it.         *)
THEOREM NormalIsLostOnlyByEviction == SpoolSpec => []NormalLostOnlyByEviction
<1>1. SpoolTyped /\ SpoolInv => NormalLostOnlyByEviction
  <2> SUFFICES ASSUME SpoolTyped, SpoolInv, "normal" \notin mispaired, NEW i \in accepted["normal"],
                      i \notin delivered["normal"], i \notin evicted
               PROVE  i \in Readable("normal")
    BY DEF NormalLostOnlyByEviction
  <2>1. "normal" \in Lanes
    BY DEF Lanes
  <2>2. Held("normal", i)
    BY <2>1 DEF SpoolInv, KeptInv, Lost
  <2> QED
    BY <2>1, <2>2, HeldIsReadable
<1> QED
  BY SpoolInvHolds, <1>1, PTL

(* The gateway ingests the critical lane in the order of enqueue, through  *)
(* every replay after a crash, as long as its files were not mispaired.    *)
THEOREM CriticalStaysInOrder == SpoolSpec => []CriticalInOrder
<1>1. SpoolInv => CriticalInOrder
  BY DEF SpoolInv
<1> QED
  BY SpoolInvHolds, <1>1, PTL

-----------------------------------------------------------------------------
(* The enforcer: what its proofs need *)

(***************************************************************************)
(* A live process has its pid to itself.                                   *)
(***************************************************************************)
HostInv ==
  /\ \A x \in Procs : Alive(x) => host[x].pid \in Pids
  /\ \A x, y \in Procs : Alive(x) /\ Alive(y) /\ host[x].pid = host[y].pid => x = y

(***************************************************************************)
(* The process a registration saw is dead, or a signal or probe failed on  *)
(* it; the process is what it was registered as while it lives.            *)
(***************************************************************************)
Over(r) == seenAs[r] \in botched \/ host[seenAs[r]].life = "dead"

Terming(r) == job # NULL /\ job.termed = r

RegInv(r) ==
  /\ tracked[r] = NULL <=> seenAs[r] = NULL
  /\ tracked[r] # NULL =>
       /\ host[seenAs[r]].life # "unborn"
       /\ Alive(seenAs[r]) => host[seenAs[r]].pid = tracked[r].pid /\ host[seenAs[r]].run = r
       /\ tracked[r].state = "Killed" => Over(r) \/ Terming(r)
       /\ tracked[r].state = "Paused" =>
            Over(r) \/ host[seenAs[r]].life = "stopped" \/ SharesPid(r)

(***************************************************************************)
(* A kill in progress has marked the targets it has done with Killed.      *)
(***************************************************************************)
JobInv ==
  job # NULL =>
    /\ report = NULL
    /\ job.cmd \in DOMAIN cmds /\ cmds[job.cmd].action = "kill"
    /\ Targets(job.cmd) \cup job.todo \subseteq Registered
    /\ job.termed # NULL => job.termed \in job.todo /\ tracked[job.termed].state = "Killed"
    /\ \A r \in Targets(job.cmd) \ job.todo : tracked[r].state = "Killed"

EnforcerInv == HostInv /\ JobInv /\ \A r \in Runs : RegInv(r)

(***************************************************************************)
(* What happens to a process that is not being started.                    *)
(***************************************************************************)
Carried(x) ==
  /\ Alive(x)' => /\ Alive(x) /\ host'[x].pid = host[x].pid /\ host'[x].run = host[x].run
  /\ host[x].life = "dead" => host'[x].life = "dead"
  /\ host[x].life # "unborn" => host'[x].life # "unborn"

-----------------------------------------------------------------------------
(* The enforcer: types *)

(* Names.                                                                  *)
LEMMA EnforcerNames ==
    /\ NULL \notin Runs /\ NULL \notin Procs /\ NULL \notin Pids
    /\ NULL \notin Registrations /\ NULL \notin Jobs /\ NULL \notin Reports
    /\ Sensor \notin Runs /\ Unmarked \notin Runs
  BY NamesAssumption

(* A signal leaves every process a process.                                *)
LEMMA DeliverTyped ==
    ASSUME host \in [Procs -> Processes], NEW p, NEW sig \in {"STOP", "CONT", "KILL", "TERM"}, Deliver(p, sig)
    PROVE  host' \in [Procs -> Processes]
<1>1. CASE UNCHANGED host
  BY <1>1
<1>2. CASE \E x \in At(p) : \E h \in Hit(x, sig) : host' = [host EXCEPT ![x] = h]
  <2>1. PICK x \in At(p) : \E h \in Hit(x, sig) : host' = [host EXCEPT ![x] = h]
    BY <1>2
  <2>a. PICK h \in Hit(x, sig) : host' = [host EXCEPT ![x] = h]
    BY <2>1
  <2>2. x \in Procs /\ host[x] \in Processes
    BY DEF At
  <2>3. Ended("dead") \in Processes
    BY DEF Ended, Processes
  <2>4. \A l \in {"stopped", "running"} : [host[x] EXCEPT !.life = l] \in Processes
    BY <2>2 DEF Processes
  <2>5. h \in Processes
    BY <2>2, <2>3, <2>4 DEF Hit
  <2> QED
    BY <2>a, <2>2, <2>5
<1> QED
  BY <1>1, <1>2 DEF Deliver

(* One field of one command.                                               *)
LEMMA CommandKept ==
    ASSUME NEW s \in Seq(Commands), NEW c \in DOMAIN s, NEW v \in Commands
    PROVE  /\ [s EXCEPT ![c] = v] \in Seq(Commands)
           /\ Len([s EXCEPT ![c] = v]) = Len(s) /\ DOMAIN [s EXCEPT ![c] = v] = DOMAIN s
<1>1. c \in 1 .. Len(s)
  BY LenProperties
<1> QED
  BY <1>1, ExceptSeq

LEMMA EnforcerTypeInit == EnforcerInit => EnforcerTypeOK
<1> SUFFICES ASSUME EnforcerInit PROVE EnforcerTypeOK
  OBVIOUS
<1>1. Ended("unborn") \in Processes
  BY DEF Ended, Processes
<1>2. cmds \in Seq(Commands) /\ Len(cmds) = 0
  BY EmptySeq DEF EnforcerInit
<1> QED
  BY <1>1, <1>2, EnforcerBoundsAssumption DEF EnforcerInit, EnforcerTypeOK

LEMMA EnforcerTypeStep == EnforcerTypeOK /\ EnforcerInv /\ [EnforcerNext]_enforcerVars => EnforcerTypeOK'
<1> SUFFICES ASSUME EnforcerTypeOK, EnforcerInv, [EnforcerNext]_enforcerVars PROVE EnforcerTypeOK'
  OBVIOUS
<1> USE DEF sensor
<1>0. /\ DOMAIN cmds = 1 .. Len(cmds) /\ Len(cmds) \in Nat /\ DOMAIN cmds \subseteq 1 .. MaxCommands
      /\ \A c \in DOMAIN cmds : cmds[c] \in Commands /\ cmds[c].target \in Runs \cup {Sensor}
  <2>1. DOMAIN cmds = 1 .. Len(cmds) /\ Len(cmds) \in Nat
    BY LenProperties DEF EnforcerTypeOK
  <2>2. DOMAIN cmds \subseteq 1 .. MaxCommands
    BY <2>1, EnforcerBoundsAssumption DEF EnforcerTypeOK
  <2>3. \A c \in DOMAIN cmds : cmds[c] \in Commands
    BY <2>1, ElementOfSeq DEF EnforcerTypeOK
  <2> QED
    BY <2>1, <2>2, <2>3 DEF Commands
<1>a. ASSUME NEW c \in DOMAIN cmds, NEW ok \in BOOLEAN, Outcome(c, ok) PROVE report' \in Reports /\ report'.cmd \in DOMAIN cmds
  BY <1>0, <1>a DEF Outcome, Reports
<1>f. ASSUME Fault PROVE faults' \in 0 .. MaxFaults
  BY <1>f, EnforcerBoundsAssumption DEF Fault, EnforcerTypeOK
<1>r. ASSUME NEW r \in Runs, tracked[r] # NULL
      PROVE  /\ tracked[r] \in Registrations /\ tracked[r].pid \in Pids
             /\ \A st \in {"Running", "Paused", "Killed"} : [tracked[r] EXCEPT !.state = st] \in Registrations
  BY <1>r DEF EnforcerTypeOK, Registrations
<1>1. ASSUME NEW x \in Procs, NEW r \in Runs \cup {Unmarked}, Spawn(x, r) PROVE EnforcerTypeOK'
  <2>1. x % NumPids \in Pids
    BY PageAssumption, EnforcerBoundsAssumption DEF Pids, Procs
  <2>2. [run |-> r, pid |-> x % NumPids, life |-> "running"] \in Processes
    BY <2>1 DEF Processes
  <2> QED
    BY <1>1, <2>2 DEF Spawn, EnforcerTypeOK
<1>2. ASSUME NEW x \in Procs, Exit(x) PROVE EnforcerTypeOK'
  <2>1. Ended("dead") \in Processes
    BY DEF Ended, Processes
  <2> QED
    BY <1>2, <2>1 DEF Exit, EnforcerTypeOK
<1>3. ASSUME NEW a \in Actions, NEW t \in Runs \cup {Sensor}, NEW ok \in BOOLEAN, Issue(a, t, ok)
      PROVE  EnforcerTypeOK'
  <2>1. [action |-> a, target |-> t, valid |-> ok, status |-> "issued"] \in Commands
    BY DEF Commands
  <2>2. /\ cmds' \in Seq(Commands) /\ Len(cmds') = Len(cmds) + 1
        /\ DOMAIN cmds' = 1 .. Len(cmds')
    BY <1>3, <2>1, AppendProperties, LenProperties DEF Issue, EnforcerTypeOK
  <2>3. DOMAIN cmds \subseteq DOMAIN cmds' /\ Len(cmds') <= MaxCommands
    BY <1>0, <1>3, <2>2, EnforcerBoundsAssumption DEF Issue
  <2> QED
    BY <1>3, <2>2, <2>3 DEF Issue, EnforcerTypeOK
<1>4. ASSUME NEW c \in DOMAIN cmds, Expire(c) PROVE EnforcerTypeOK'
  <2>1. [cmds[c] EXCEPT !.valid = FALSE] \in Commands
    BY <1>0 DEF Commands
  <2>2. cmds' \in Seq(Commands) /\ Len(cmds') = Len(cmds) /\ DOMAIN cmds' = DOMAIN cmds
    BY <1>4, <2>1, CommandKept DEF Expire, EnforcerTypeOK
  <2> QED
    BY <1>4, <2>2 DEF Expire, EnforcerTypeOK
<1>5. CASE Collect
  <2>1. PICK last \in [Runs -> Procs \cup {NULL}] :
          (\A r \in Runs : last[r] \in LastOf(r)) /\ Rescan(last)
    BY <1>5 DEF Collect
  <2>2. ASSUME NEW r \in Runs, last[r] # NULL
        PROVE  last[r] \in Procs /\ [pid |-> host[last[r]].pid, state |-> "Running"] \in Registrations
    <3>1. last[r] \in Marked(r)
      BY <2>1, <2>2 DEF LastOf
    <3>2. last[r] \in Procs /\ host[last[r]].pid \in Pids
      BY <3>1 DEF Marked, EnforcerInv, HostInv
    <3> QED
      BY <3>2 DEF Registrations
  <2>3. tracked' \in [Runs -> Registrations \cup {NULL}]
    BY <2>1, <2>2 DEF Rescan, EnforcerTypeOK
  <2>4. seenAs' \in [Runs -> Procs \cup {NULL}]
    BY <2>1, <2>2 DEF Rescan, EnforcerTypeOK
  <2>5. announced' \in [Pids -> Runs \cup {NULL}]
    <3>1. ASSUME NEW p \in Pids, \E x \in Live : host[x].pid = p
          PROVE  host[CHOOSE x \in Live : host[x].pid = p].run \in Runs
      BY <3>1 DEF Live
    <3> QED
      BY <2>1, <3>1 DEF Rescan
  <2> QED
    BY <1>5, <2>1, <2>3, <2>4, <2>5 DEF Collect, Rescan, EnforcerTypeOK
<1>6. CASE PollCommands
  BY <1>6 DEF PollCommands, EnforcerTypeOK
<1>7. ASSUME NEW c \in DOMAIN cmds, Skip(c) PROVE EnforcerTypeOK'
  BY <1>7 DEF Skip, Turn, EnforcerTypeOK
<1>8. ASSUME NEW c \in DOMAIN cmds, Refuse(c) PROVE EnforcerTypeOK'
  <2>1. report' \in Reports /\ report'.cmd \in DOMAIN cmds
    BY <1>8, <1>a DEF Refuse
  <2>2. seen' \subseteq DOMAIN cmds
    BY <1>8 DEF Refuse, EnforcerTypeOK
  <2> QED
    BY <1>8, <2>1, <2>2 DEF Refuse, Turn, EnforcerTypeOK
<1>s. ASSUME NEW r \in Runs, tracked[r] # NULL PROVE seenAs[r] \in Procs
  BY <1>s DEF EnforcerTypeOK, EnforcerInv, RegInv
<1>t. ASSUME NEW c \in DOMAIN cmds, Accept(c)
      PROVE  /\ c \in 1 .. MaxCommands /\ seen' \subseteq DOMAIN cmds /\ queue' \subseteq DOMAIN cmds
             /\ job = NULL /\ report = NULL
             /\ cmds[c].target # Sensor => cmds[c].target \in Runs /\ tracked[cmds[c].target] # NULL
  BY <1>t, <1>0 DEF Accept, Turn, Addressed, Registered, EnforcerTypeOK
<1>9. ASSUME NEW c \in DOMAIN cmds, SignalRun(c) PROVE EnforcerTypeOK'
  <2>1. PICK r \in Runs : r = cmds[c].target /\ tracked[r] # NULL
    BY <1>9, <1>t DEF SignalRun
  <2>2. tracked' \in [Runs -> Registrations \cup {NULL}]
    <3>1. CASE UNCHANGED tracked
      BY <3>1 DEF EnforcerTypeOK
    <3>2. CASE tracked' = [tracked EXCEPT ![r].state =
                             IF cmds[c].action = "pause" THEN "Paused" ELSE "Running"]
      BY <3>2, <2>1, <1>r DEF EnforcerTypeOK
    <3> QED
      BY <1>9, <2>1, <3>1, <3>2 DEF SignalRun
  <2>3. host' \in [Procs -> Processes]
    <3>1. CASE UNCHANGED host
      BY <3>1 DEF EnforcerTypeOK
    <3>2. CASE Deliver(tracked[r].pid, "STOP") \/ Deliver(tracked[r].pid, "CONT")
      BY <3>2, DeliverTyped DEF EnforcerTypeOK
    <3> QED
      BY <1>9, <2>1, <3>1, <3>2 DEF SignalRun
  <2>4. report' \in Reports /\ report'.cmd \in DOMAIN cmds
    BY <1>9, <1>a DEF SignalRun
  <2>5. faults' \in 0 .. MaxFaults
    BY <1>9, <1>f DEF SignalRun, EnforcerTypeOK
  <2>6. botched' \subseteq Procs
    <3>1. seenAs[r] \in Procs
      BY <2>1, <1>s
    <3> QED
      BY <1>9, <2>1, <3>1 DEF SignalRun, EnforcerTypeOK
  <2> QED
    BY <1>9, <1>t, <2>2, <2>3, <2>4, <2>5, <2>6 DEF SignalRun, EnforcerTypeOK
<1>10. ASSUME NEW c \in DOMAIN cmds, BeginKill(c) PROVE EnforcerTypeOK'
  <2>1. (IF cmds[c].target = Sensor THEN Registered ELSE {cmds[c].target}) \in SUBSET Runs
    BY <1>10, <1>t DEF BeginKill, Registered
  <2>2. job' \in Jobs
    BY <1>10, <1>t, <2>1 DEF BeginKill, Jobs
  <2> QED
    BY <1>10, <1>t, <2>2 DEF BeginKill, EnforcerTypeOK
<1>j. ASSUME job # NULL
      PROVE  /\ job \in Jobs /\ job.todo \subseteq Runs
             /\ \A r \in Runs : [job EXCEPT !.todo = @ \ {r}] \in Jobs
             /\ \A r \in Runs : [job EXCEPT !.termed = r] \in Jobs
             /\ job.cmd \in DOMAIN cmds /\ job.todo \subseteq Registered
             /\ job.termed # NULL => job.termed \in job.todo
  BY <1>j DEF EnforcerTypeOK, Jobs, EnforcerInv, JobInv
<1>11. ASSUME NEW r \in Runs, PassKilled(r) PROVE EnforcerTypeOK'
  BY <1>11, <1>j DEF PassKilled, Killing, EnforcerTypeOK
<1>12. ASSUME NEW r \in Runs, Terminate(r) PROVE EnforcerTypeOK'
  <2>1. job # NULL /\ tracked[r] # NULL
    BY <1>12, <1>j DEF Terminate, Killing, Registered
  <2>2. tracked' \in [Runs -> Registrations \cup {NULL}]
    BY <1>12, <2>1, <1>r DEF Terminate, EnforcerTypeOK
  <2>3. CASE /\ Deliver(tracked[r].pid, "TERM")
             /\ job' = [job EXCEPT !.termed = r]
             /\ UNCHANGED <<report, botched, faults>>
    <3>1. host' \in [Procs -> Processes] /\ job' \in Jobs
      BY <2>1, <2>3, <1>j, DeliverTyped DEF EnforcerTypeOK
    <3> QED
      BY <1>12, <2>2, <2>3, <3>1 DEF Terminate, EnforcerTypeOK
  <2>4. CASE /\ Fault /\ botched' = botched \cup {seenAs[r]}
             /\ Outcome(job.cmd, FALSE) /\ job' = NULL /\ UNCHANGED host
    <3>1. report' \in Reports /\ report'.cmd \in DOMAIN cmds
      BY <2>1, <2>4, <1>a, <1>j
    <3>2. botched' \subseteq Procs /\ faults' \in 0 .. MaxFaults
      BY <2>1, <2>4, <1>s, <1>f DEF EnforcerTypeOK
    <3> QED
      BY <1>12, <2>2, <2>4, <3>1, <3>2 DEF Terminate, EnforcerTypeOK
  <2> QED
    BY <1>12, <2>3, <2>4 DEF Terminate
<1>13. CASE Escalate
  <2>1. PICK r \in Runs : r = job.termed /\ tracked[r] # NULL /\ job # NULL
    BY <1>13, <1>j DEF Escalate, Registered
  <2>2. job' \in Jobs \cup {NULL}
    <3>1. job' = NULL \/ job' = [job EXCEPT !.termed = NULL, !.todo = @ \ {r}]
      BY <1>13, <2>1 DEF Escalate
    <3>2. [job EXCEPT !.termed = NULL, !.todo = @ \ {r}] \in Jobs
      BY <2>1 DEF EnforcerTypeOK, Jobs
    <3> QED
      BY <3>1, <3>2
  <2>3. report' = report \/ (report' \in Reports /\ report'.cmd \in DOMAIN cmds)
    BY <1>13, <2>1, <1>a, <1>j DEF Escalate
  <2>4. host' \in [Procs -> Processes]
    <3>1. CASE UNCHANGED host
      BY <3>1 DEF EnforcerTypeOK
    <3>2. CASE Deliver(tracked[r].pid, "KILL")
      BY <3>2, DeliverTyped DEF EnforcerTypeOK
    <3> QED
      BY <1>13, <2>1, <3>1, <3>2 DEF Escalate
  <2>5. botched' \subseteq Procs /\ faults' \in 0 .. MaxFaults
    <3>1. botched' = botched \/ botched' = botched \cup {seenAs[r]}
      BY <1>13, <2>1 DEF Escalate
    <3>2. faults' = faults \/ Fault
      BY <1>13 DEF Escalate
    <3> QED
      BY <2>1, <3>1, <3>2, <1>s, <1>f DEF EnforcerTypeOK
  <2> QED
    BY <1>13, <2>2, <2>3, <2>4, <2>5 DEF Escalate, EnforcerTypeOK
<1>14. CASE EndKill
  <2>1. report' \in Reports /\ report'.cmd \in DOMAIN cmds
    BY <1>14, <1>a, <1>j DEF EndKill
  <2> QED
    BY <1>14, <2>1 DEF EndKill, EnforcerTypeOK
<1>15. CASE Report
  <2>1. PICK c \in DOMAIN cmds, st \in {"acked", "nacked"} : c = report.cmd /\ st = report.status
    BY <1>15 DEF Report, EnforcerTypeOK, Reports
  <2>2. PICK v \in Commands : v = [cmds[c] EXCEPT !.status = st]
    BY <1>0 DEF Commands
  <2>3. cmds' = cmds \/ cmds' = [cmds EXCEPT ![c] = v]
    BY <1>15, <2>1, <2>2 DEF Report
  <2>4. cmds' \in Seq(Commands) /\ Len(cmds') = Len(cmds) /\ DOMAIN cmds' = DOMAIN cmds
    BY <2>3, CommandKept DEF EnforcerTypeOK
  <2>5. faults' \in 0 .. MaxFaults
    BY <1>15, <1>f DEF Report, EnforcerTypeOK
  <2> QED
    BY <1>15, <2>4, <2>5 DEF Report, EnforcerTypeOK
<1>16. CASE Restart
  BY <1>16, <1>f, EnforcerNames DEF Restart, EnforcerTypeOK
<1>17. CASE UNCHANGED enforcerVars
  BY <1>17 DEF enforcerVars, EnforcerTypeOK
<1> QED
  BY <1>1, <1>2, <1>3, <1>4, <1>5, <1>6, <1>7, <1>8, <1>9, <1>10, <1>11, <1>12, <1>13, <1>14, <1>15,
     <1>16, <1>17 DEF EnforcerNext, Work, Environment

-----------------------------------------------------------------------------
(* The enforcer's inductive invariant *)

(* Registrations keep their pids, commands what they order.                *)
SamePids ==
  \A q \in Runs : /\ tracked'[q] = NULL <=> tracked[q] = NULL
                  /\ tracked[q] # NULL => tracked'[q].pid = tracked[q].pid

SameOrders ==
  \A c \in DOMAIN cmds : /\ c \in DOMAIN cmds'
                         /\ cmds'[c].action = cmds[c].action /\ cmds'[c].target = cmds[c].target

LEMMA HostKept ==
    ASSUME EnforcerTypeOK, HostInv, \A x \in Procs : Carried(x)
    PROVE  HostInv'
  BY DEF HostInv, Carried

(* Whoever has the pid is hit, and nobody else.                            *)
LEMMA DeliverHits ==
    ASSUME EnforcerTypeOK, HostInv, NEW p, NEW sig, Deliver(p, sig)
    PROVE  \A x \in Procs : IF Alive(x) /\ host[x].pid = p THEN host'[x] \in Hit(x, sig)
                            ELSE host'[x] = host[x]
<1>1. CASE At(p) = {}
  BY <1>1 DEF Deliver, At
<1>2. CASE At(p) # {}
  <2>1. PICK x \in At(p) : \E h \in Hit(x, sig) : host' = [host EXCEPT ![x] = h]
    BY <1>2 DEF Deliver
  <2>2. x \in Procs /\ Alive(x) /\ host[x].pid = p
    BY DEF At
  <2>3. \A y \in Procs : Alive(y) /\ host[y].pid = p => y = x
    BY <2>2 DEF HostInv
  <2> QED
    BY <2>1, <2>2, <2>3 DEF EnforcerTypeOK
<1> QED
  BY <1>1, <1>2

LEMMA DeliverCarries ==
    ASSUME EnforcerTypeOK, HostInv, NEW p, NEW sig \in {"STOP", "CONT", "KILL", "TERM"}, Deliver(p, sig)
    PROVE  \A x \in Procs : Carried(x)
<1> SUFFICES ASSUME NEW x \in Procs PROVE Carried(x)
  OBVIOUS
<1>1. CASE host'[x] = host[x]
  BY <1>1 DEF Carried, Alive
<1>2. CASE Alive(x) /\ host'[x] \in Hit(x, sig)
  <2>1. host[x] \in Processes
    BY DEF EnforcerTypeOK
  <2>2. \/ host'[x] = host[x] \/ host'[x] = Ended("dead")
        \/ host'[x] = [host[x] EXCEPT !.life = "stopped"]
        \/ host'[x] = [host[x] EXCEPT !.life = "running"]
    BY <1>2 DEF Hit
  <2>3. CASE host'[x] = Ended("dead")
    BY <1>2, <2>3 DEF Carried, Alive, Ended
  <2>4. ASSUME NEW l \in {"stopped", "running"}, host'[x] = [host[x] EXCEPT !.life = l] PROVE Carried(x)
    <3>1. host'[x].pid = host[x].pid /\ host'[x].run = host[x].run /\ host'[x].life = l
      BY <2>1, <2>4 DEF Processes
    <3> QED
      BY <1>2, <3>1 DEF Carried, Alive
  <2> QED
    BY <1>1, <2>2, <2>3, <2>4
<1> QED
  BY <1>1, <1>2, DeliverHits

(* What a signal does to the process a registration saw.                   *)
LEMMA SignalTakes ==
    ASSUME EnforcerTypeOK, HostInv, NEW r \in Runs, RegInv(r), tracked[r] # NULL,
           NEW sig \in {"STOP", "CONT", "KILL"}, Deliver(tracked[r].pid, sig)
    PROVE  host'[seenAs[r]].life \in
             {"dead", IF sig = "STOP" THEN "stopped" ELSE IF sig = "CONT" THEN "running" ELSE "dead"}
<1>1. PICK x \in Procs : x = seenAs[r] /\ host[x] \in Processes
  BY DEF EnforcerTypeOK, RegInv
<1>2. CASE Alive(x)
  <2>1. host'[x] \in Hit(x, sig)
    BY <1>1, <1>2, DeliverHits DEF RegInv
  <2>2. \A l \in {"stopped", "running"} : [host[x] EXCEPT !.life = l].life = l
    BY <1>1 DEF Processes
  <2>3. Ended("dead").life = "dead"
    BY DEF Ended
  <2>4. CASE sig = "STOP"
    BY <1>1, <2>1, <2>2, <2>4 DEF Hit
  <2>5. CASE sig = "CONT"
    BY <1>1, <2>1, <2>2, <2>5 DEF Hit
  <2>6. CASE sig = "KILL"
    BY <1>1, <2>1, <2>3, <2>6 DEF Hit
  <2> QED
    BY <2>4, <2>5, <2>6
<1>3. CASE ~Alive(x)
  <2>1. host[x].life = "dead" /\ host'[x] = host[x]
    BY <1>1, <1>3, DeliverHits DEF RegInv, Alive, Processes
  <2> QED
    BY <1>1, <2>1
<1> QED
  BY <1>2, <1>3

LEMMA SharesPidStays == ASSUME SamePids, NEW r \in Runs, tracked[r] # NULL PROVE SharesPid(r)' <=> SharesPid(r)
  BY DEF SamePids, SharesPid, Registered

(* A registration that keeps its process and pid.                          *)
LEMMA RegKept ==
    ASSUME EnforcerTypeOK, NEW r \in Runs, RegInv(r), SamePids, seenAs' = seenAs,
           tracked[r] # NULL =>
              /\ Carried(seenAs[r])
              /\ tracked'[r].state = "Killed" => Over(r)' \/ Terming(r)'
              /\ tracked'[r].state = "Paused" =>
                   Over(r)' \/ host'[seenAs[r]].life = "stopped" \/ SharesPid(r)
    PROVE  RegInv(r)'
<1>1. tracked'[r] = NULL <=> seenAs'[r] = NULL
  BY DEF RegInv, SamePids
<1>2. ASSUME tracked[r] # NULL
      PROVE  /\ host'[seenAs'[r]].life # "unborn"
             /\ Alive(seenAs[r])' => host'[seenAs'[r]].pid = tracked'[r].pid /\ host'[seenAs'[r]].run = r
             /\ tracked'[r].state = "Killed" => Over(r)' \/ Terming(r)'
             /\ tracked'[r].state = "Paused" =>
                  Over(r)' \/ host'[seenAs'[r]].life = "stopped" \/ SharesPid(r)'
  <2>1. PICK x \in Procs : x = seenAs[r] /\ x = seenAs'[r]
    BY <1>2 DEF EnforcerTypeOK, RegInv
  <2>2. /\ Carried(x) /\ host[x].life # "unborn"
        /\ Alive(x) => host[x].pid = tracked[r].pid /\ host[x].run = r
        /\ tracked'[r].pid = tracked[r].pid
    BY <1>2, <2>1 DEF RegInv, SamePids
  <2>3. SharesPid(r)' <=> SharesPid(r)
    BY <1>2, SharesPidStays
  <2>4. /\ host'[x].life # "unborn"
        /\ host'[x].life \in {"running", "stopped"} => host'[x].pid = tracked'[r].pid /\ host'[x].run = r
    BY <2>2 DEF Carried, Alive
  <2> QED
    BY <1>2, <2>1, <2>3, <2>4 DEF Alive
<1> QED
  BY <1>1, <1>2 DEF RegInv, Alive, SamePids

(* Registrations that nothing is done to.                                  *)
LEMMA RegsStay ==
    ASSUME EnforcerTypeOK, \A r \in Runs : RegInv(r), UNCHANGED <<tracked, seenAs, botched>>,
           \A r \in Runs : tracked[r] # NULL =>
              /\ Carried(seenAs[r])
              /\ host[seenAs[r]].life = "stopped" => host'[seenAs[r]].life = "stopped",
           \A r \in Runs : Terming(r) => Terming(r)'
    PROVE  \A r \in Runs : RegInv(r)'
<1> SUFFICES ASSUME NEW r \in Runs PROVE RegInv(r)'
  OBVIOUS
<1>1. SamePids
  BY DEF SamePids
<1>2. tracked[r] # NULL /\ Over(r) => Over(r)'
  BY DEF Over, Carried
<1> QED
  BY <1>1, <1>2, RegKept DEF RegInv

LEMMA JobKept ==
    ASSUME JobInv, UNCHANGED <<job, report>>, SamePids, SameOrders,
           job # NULL => job.todo \subseteq Runs,
           \A q \in Runs : tracked[q] # NULL /\ tracked[q].state = "Killed" => tracked'[q].state = "Killed"
    PROVE  JobInv'
<1>1. Registered' = Registered
  BY DEF SamePids, Registered
<1>2. CASE job = NULL
  BY <1>2 DEF JobInv
<1>3. CASE job # NULL
  <2>1. PICK c \in DOMAIN cmds : c = job.cmd /\ c = job'.cmd
    BY <1>3 DEF JobInv
  <2>2. Targets(c)' = Targets(c)
    BY <1>1 DEF SameOrders, Targets
  <2>3. Targets(job.cmd)' = Targets(job.cmd)
    BY <2>1, <2>2 DEF Targets
  <2>4. Targets(job.cmd) \subseteq Registered /\ Registered \subseteq Runs
    BY <1>3 DEF JobInv, Registered
  <2>5. \A q \in Registered : q \in Runs /\ tracked[q] # NULL
    BY DEF Registered
  <2>6. \A q \in Targets(job.cmd) \ job.todo : tracked'[q].state = "Killed"
    BY <1>3, <2>4, <2>5 DEF JobInv
  <2>7. job.termed # NULL => job.termed \in job.todo /\ tracked'[job.termed].state = "Killed"
    BY <1>3, <2>5 DEF JobInv
  <2> QED
    BY <1>1, <1>3, <2>1, <2>3, <2>6, <2>7 DEF JobInv, SameOrders
<1> QED
  BY <1>2, <1>3

LEMMA CommandIsTyped ==
    ASSUME EnforcerTypeOK
    PROVE  /\ DOMAIN cmds = 1 .. Len(cmds) /\ Len(cmds) \in Nat
           /\ \A c \in DOMAIN cmds : /\ cmds[c] \in Commands
                                     /\ cmds[c].action \in Actions /\ cmds[c].target \in Runs \cup {Sensor}
<1>1. DOMAIN cmds = 1 .. Len(cmds) /\ Len(cmds) \in Nat
  BY LenProperties DEF EnforcerTypeOK
<1>2. \A c \in DOMAIN cmds : cmds[c] \in Commands
  BY <1>1, ElementOfSeq DEF EnforcerTypeOK
<1> QED
  BY <1>1, <1>2 DEF Commands

(* The gateway and the host.                                               *)
LEMMA EnvironmentKeeps ==
    ASSUME EnforcerTypeOK, EnforcerInv, Environment
    PROVE  EnforcerInv'
<1> USE DEF sensor
<1>0. UNCHANGED <<tracked, seenAs, botched, job, report>> /\ SamePids
  BY DEF Environment, Spawn, Exit, Issue, Expire, SamePids
<1>t. job # NULL => job.todo \subseteq Runs
  BY DEF EnforcerTypeOK, Jobs
<1>s. \A r \in Runs : tracked[r] # NULL => seenAs[r] \in Procs
  BY DEF EnforcerTypeOK, EnforcerInv, RegInv
<1>w. \A r \in Runs : Terming(r) => Terming(r)'
  BY <1>0 DEF Terming
<1>1. ASSUME NEW x \in Procs, NEW r \in Runs \cup {Unmarked}, Spawn(x, r) PROVE EnforcerInv'
  <2>1. SameOrders /\ host[x].life = "unborn" /\ At(x % NumPids) = {}
    BY <1>1 DEF Spawn, SameOrders
  <2>2. \A y \in Procs : host'[y] = IF y = x THEN [run |-> r, pid |-> x % NumPids, life |-> "running"]
                                    ELSE host[y]
    BY <1>1 DEF Spawn, EnforcerTypeOK
  <2>3. x % NumPids \in Pids
    BY PageAssumption DEF Pids, Procs
  <2>4. HostInv'
    BY <2>1, <2>2, <2>3 DEF EnforcerInv, HostInv, Alive, At
  <2>5. \A q \in Runs : tracked[q] # NULL => host'[seenAs[q]] = host[seenAs[q]]
    BY <1>s, <2>1, <2>2 DEF EnforcerInv, RegInv
  <2>6. \A q \in Runs : tracked[q] # NULL => Carried(seenAs[q])
    <3> SUFFICES ASSUME NEW q \in Runs, tracked[q] # NULL PROVE Carried(seenAs[q])
      OBVIOUS
    <3>1. host'[seenAs[q]] = host[seenAs[q]] /\ seenAs'[q] = seenAs[q]
      BY <2>5, <1>0
    <3> QED
      BY <3>1 DEF Carried, Alive
  <2>7. \A q \in Runs : RegInv(q)'
    BY <1>0, <1>w, <2>5, <2>6, RegsStay DEF EnforcerInv
  <2>8. JobInv'
    BY <1>0, <1>t, <2>1, JobKept DEF EnforcerInv
  <2> QED
    BY <2>4, <2>7, <2>8 DEF EnforcerInv
<1>2. ASSUME NEW x \in Procs, Exit(x) PROVE EnforcerInv'
  <2>1. SameOrders /\ host[x].life = "running"
    BY <1>2 DEF Exit, SameOrders
  <2>2. \A y \in Procs : host'[y] = IF y = x THEN Ended("dead") ELSE host[y]
    BY <1>2 DEF Exit, EnforcerTypeOK
  <2>3. \A y \in Procs : Carried(y) /\ (host[y].life = "stopped" => host'[y].life = "stopped")
    BY <2>1, <2>2 DEF Carried, Alive, Ended
  <2>4. HostInv'
    BY <2>3, HostKept DEF EnforcerInv
  <2>5. \A q \in Runs : tracked[q] # NULL => Carried(seenAs[q])
    <3> SUFFICES ASSUME NEW q \in Runs, tracked[q] # NULL PROVE Carried(seenAs[q])
      OBVIOUS
    <3>1. PICK y \in Procs : y = seenAs[q] /\ y = seenAs'[q]
      BY <1>s, <1>0
    <3> QED
      BY <3>1, <2>3 DEF Carried, Alive
  <2>6. \A q \in Runs : RegInv(q)'
    BY <1>0, <1>s, <1>w, <2>3, <2>5, RegsStay DEF EnforcerInv
  <2>7. JobInv'
    BY <1>0, <1>t, <2>1, JobKept DEF EnforcerInv
  <2> QED
    BY <2>4, <2>6, <2>7 DEF EnforcerInv
<1>3. ASSUME SameOrders, UNCHANGED host PROVE EnforcerInv'
  <2>1. HostInv'
    BY <1>3 DEF EnforcerInv, HostInv, Alive
  <2>2. \A q \in Runs : RegInv(q)'
    BY <1>0, <1>3, <1>w, RegsStay DEF EnforcerInv, Carried, Alive
  <2>3. JobInv'
    BY <1>0, <1>3, <1>t, JobKept DEF EnforcerInv
  <2> QED
    BY <2>1, <2>2, <2>3 DEF EnforcerInv
<1>4. ASSUME NEW a \in Actions, NEW t \in Runs \cup {Sensor}, NEW ok \in BOOLEAN, Issue(a, t, ok)
      PROVE  SameOrders /\ UNCHANGED host
  <2>1. PICK e \in Commands : e = [action |-> a, target |-> t, valid |-> ok, status |-> "issued"]
    BY DEF Commands
  <2>2. /\ cmds' \in Seq(Commands) /\ Len(cmds') = Len(cmds) + 1
        /\ \A c \in 1 .. Len(cmds) : cmds'[c] = cmds[c]
    BY <1>4, <2>1, AppendProperties DEF Issue, EnforcerTypeOK
  <2>3. DOMAIN cmds' = 1 .. Len(cmds')
    BY <2>2, LenProperties
  <2> QED
    BY <1>4, <2>2, <2>3, CommandIsTyped DEF Issue, SameOrders
<1>5. ASSUME NEW c \in DOMAIN cmds, Expire(c) PROVE SameOrders /\ UNCHANGED host
  <2>1. [cmds[c] EXCEPT !.valid = FALSE].action = cmds[c].action /\ [cmds[c] EXCEPT !.valid = FALSE].target = cmds[c].target
    BY CommandIsTyped DEF Commands
  <2> QED
    BY <1>5, <2>1 DEF Expire, SameOrders
<1> QED
  BY <1>1, <1>2, <1>3, <1>4, <1>5 DEF Environment

(* A scan registers every live marked process anew: a registration it      *)
(* leaves alone is of a dead process.                                      *)
LEMMA CollectKeeps ==
    ASSUME EnforcerTypeOK, EnforcerInv, Collect
    PROVE  EnforcerInv'
<1>1. job = NULL /\ UNCHANGED <<host, job, report>>
  BY DEF Collect, Idle
<1>2. PICK last \in [Runs -> Procs \cup {NULL}] :
        (\A r \in Runs : last[r] \in LastOf(r)) /\ Rescan(last)
  BY DEF Collect
<1>3. HostInv'
  BY <1>1 DEF EnforcerInv, HostInv, Alive
<1>4. JobInv'
  BY <1>1 DEF JobInv
<1>5. ASSUME NEW r \in Runs PROVE RegInv(r)'
  <2>1. CASE last[r] # NULL
    <3>1. last[r] \in Procs /\ Alive(last[r]) /\ host[last[r]].run = r
      BY <1>2, <2>1 DEF LastOf, Marked
    <3>2. /\ seenAs'[r] = last[r] /\ tracked'[r] = [pid |-> host[last[r]].pid, state |-> "Running"]
      BY <1>2, <2>1 DEF Rescan
    <3>3. tracked'[r] # NULL
      <4>1. tracked'[r] \in Registrations
        BY <3>1, <3>2 DEF EnforcerInv, HostInv, Registrations
      <4> QED
        BY <4>1, EnforcerNames
    <3>4. /\ tracked'[r].pid = host[last[r]].pid /\ tracked'[r].state = "Running"
      BY <3>2
    <3>5. seenAs'[r] # NULL
      BY <3>1, <3>2, EnforcerNames
    <3>6. host[last[r]].life # "unborn"
      BY <3>1 DEF Alive
    <3> QED
      BY <1>1, <3>1, <3>2, <3>3, <3>4, <3>5, <3>6 DEF RegInv
  <2>2. CASE last[r] = NULL /\ Dropped(r)
    BY <1>2, <2>2 DEF Rescan, RegInv
  <2>3. CASE last[r] = NULL /\ ~Dropped(r)
    <3>1. Marked(r) = {}
      BY <1>2, <2>3, EnforcerNames DEF LastOf, Marked
    <3>2. tracked'[r] = tracked[r] /\ seenAs'[r] = seenAs[r]
      BY <1>2, <2>3 DEF Rescan
    <3>3. ASSUME tracked[r] # NULL PROVE host[seenAs[r]].life = "dead"
      <4>1. PICK x \in Procs : x = seenAs[r] /\ host[x] \in Processes
        BY <3>3 DEF EnforcerTypeOK, EnforcerInv, RegInv
      <4>2. ~Alive(x)
        BY <3>1, <3>3, <4>1 DEF Marked, EnforcerInv, RegInv
      <4> QED
        BY <3>3, <4>1, <4>2 DEF EnforcerInv, RegInv, Alive, Processes
    <3>4. tracked[r] # NULL => Over(r)' /\ ~Alive(seenAs[r])'
      BY <1>1, <3>2, <3>3 DEF Over, Alive
    <3> QED
      BY <1>1, <3>2, <3>3, <3>4 DEF RegInv, EnforcerInv
  <2> QED
    BY <2>1, <2>2, <2>3
<1> QED
  BY <1>3, <1>4, <1>5 DEF EnforcerInv

(* The steps of the loop that send no signal.                              *)
LEMMA LoopKeeps ==
    ASSUME EnforcerTypeOK, EnforcerInv,
           UNCHANGED <<host, tracked, seenAs, botched>>,
           \A r \in Runs : Terming(r) => Terming(r)',
           JobInv'
    PROVE  EnforcerInv'
<1>1. HostInv'
  BY DEF EnforcerInv, HostInv, Alive
<1>2. \A r \in Runs : tracked[r] # NULL => Carried(seenAs[r])
  BY DEF Carried, Alive
<1>3. \A r \in Runs : RegInv(r)'
  BY <1>2, RegsStay DEF EnforcerInv
<1> QED
  BY <1>1, <1>3 DEF EnforcerInv

LEMMA PollKeeps ==
    ASSUME EnforcerTypeOK, EnforcerInv,
           PollCommands \/ Report \/ (\E c \in DOMAIN cmds : Skip(c) \/ Refuse(c)) \/ UNCHANGED enforcerVars
    PROVE  EnforcerInv'
<1> USE DEF sensor
<1>1. UNCHANGED <<host, tracked, seenAs, botched, job>>
  BY DEF PollCommands, Report, Skip, Refuse, enforcerVars
<1>2. \A r \in Runs : Terming(r) => Terming(r)'
  BY <1>1 DEF Terming
<1>3. JobInv'
  <2>1. CASE job = NULL
    BY <1>1, <2>1 DEF JobInv
  <2>2. CASE job # NULL
    <3>1. report = NULL
      BY <2>2 DEF EnforcerInv, JobInv
    <3>2. UNCHANGED enforcerVars
      BY <2>2, <3>1 DEF PollCommands, Idle, Report, Skip, Refuse, Turn
    <3> QED
      BY <3>2 DEF enforcerVars, EnforcerInv, JobInv, Targets, Registered
  <2> QED
    BY <2>1, <2>2
<1> QED
  BY <1>1, <1>2, <1>3, LoopKeeps

LEMMA BeginKillKeeps ==
    ASSUME EnforcerTypeOK, EnforcerInv, NEW c \in DOMAIN cmds, BeginKill(c)
    PROVE  EnforcerInv'
<1>1. /\ UNCHANGED <<host, cmds, tracked, seenAs, botched, report>> /\ job = NULL /\ report = NULL
      /\ cmds[c].action = "kill" /\ cmds[c].target \in Registered \cup {Sensor}
  BY DEF BeginKill, Accept, Turn, Addressed
<1>2. \A r \in Runs : Terming(r) => Terming(r)'
  BY <1>1 DEF Terming
<1>3. job'.cmd = c /\ job'.todo = Targets(c) /\ job'.termed = NULL
  BY DEF BeginKill, Targets
<1>4. Targets(c)' = Targets(c) /\ Registered' = Registered /\ Targets(c) \subseteq Registered
  BY <1>1 DEF Targets, Registered
<1>5. Targets(job.cmd)' = Targets(c)
  BY <1>1, <1>3 DEF Targets, Registered
<1>6. JobInv'
  BY <1>1, <1>3, <1>4, <1>5 DEF JobInv
<1> QED
  BY <1>1, <1>2, <1>6, LoopKeeps

LEMMA PassKeeps ==
    ASSUME EnforcerTypeOK, EnforcerInv, (\E r \in Runs : PassKilled(r)) \/ EndKill
    PROVE  EnforcerInv'
<1>1. /\ UNCHANGED <<host, cmds, tracked, seenAs, botched>> /\ job # NULL /\ job.termed = NULL
  BY DEF PassKilled, Killing, EndKill
<1>2. \A r \in Runs : Terming(r) => Terming(r)'
  BY <1>1, EnforcerNames DEF Terming
<1>3. JobInv'
  <2>1. CASE EndKill
    BY <2>1 DEF EndKill, JobInv
  <2>2. ASSUME NEW r \in Runs, PassKilled(r) PROVE JobInv'
    <3>1. /\ job'.cmd = job.cmd /\ job'.todo = job.todo \ {r} /\ job'.termed = NULL
          /\ UNCHANGED report /\ tracked[r].state = "Killed"
      BY <1>1, <2>2 DEF PassKilled, EnforcerTypeOK, Jobs
    <3>2. Targets(job.cmd)' = Targets(job.cmd) /\ Registered' = Registered
      BY <1>1, <3>1 DEF Targets, Registered
    <3> QED
      BY <1>1, <3>1, <3>2 DEF JobInv, EnforcerInv
  <2> QED
    BY <2>1, <2>2
<1> QED
  BY <1>1, <1>2, <1>3, LoopKeeps

LEMMA RestartKeeps ==
    ASSUME EnforcerTypeOK, EnforcerInv, Restart
    PROVE  EnforcerInv'
<1>1. HostInv'
  BY DEF Restart, EnforcerInv, HostInv, Alive
<1>2. JobInv' /\ \A r \in Runs : RegInv(r)'
  BY DEF Restart, JobInv, RegInv
<1> QED
  BY <1>1, <1>2 DEF EnforcerInv

(* The enforcer's map, one state changed.                                  *)
LEMMA StateIsSet ==
    ASSUME EnforcerTypeOK, NEW r \in Runs, tracked[r] # NULL, NEW st \in {"Running", "Paused", "Killed"},
           tracked' = [tracked EXCEPT ![r].state = st]
    PROVE  /\ SamePids /\ tracked'[r].state = st
           /\ \A q \in Runs \ {r} : tracked'[q] = tracked[q]
<1>1. tracked[r] \in Registrations /\ tracked'[r] = [tracked[r] EXCEPT !.state = st]
  BY DEF EnforcerTypeOK
<1>2. tracked'[r] \in Registrations /\ tracked'[r].pid = tracked[r].pid /\ tracked'[r].state = st
  BY <1>1 DEF Registrations
<1>3. tracked'[r] # NULL
  BY <1>2, EnforcerNames
<1>4. \A q \in Runs \ {r} : tracked'[q] = tracked[q]
  BY DEF EnforcerTypeOK
<1> QED
  BY <1>2, <1>3, <1>4 DEF SamePids

(* A stopped process is woken only by a SIGCONT to its pid.                *)
LEMMA StoppedStays ==
    ASSUME EnforcerTypeOK, HostInv, NEW p, NEW sig \in {"STOP", "CONT", "KILL", "TERM"}, Deliver(p, sig),
           NEW x \in Procs, host[x].life = "stopped"
    PROVE  host'[x].life \in {"stopped", "dead"} \/ (sig = "CONT" /\ host[x].pid = p)
<1>1. CASE host'[x] = host[x]
  BY <1>1
<1>2. CASE host[x].pid = p /\ host'[x] \in Hit(x, sig)
  <2>1. host[x] \in Processes
    BY DEF EnforcerTypeOK
  <2>2. Ended("dead").life = "dead" /\ [host[x] EXCEPT !.life = "stopped"].life = "stopped"
    BY <2>1 DEF Ended, Processes
  <2>3. CASE sig = "STOP"
    BY <1>2, <2>2, <2>3 DEF Hit
  <2>4. CASE sig = "KILL"
    BY <1>2, <2>2, <2>4 DEF Hit
  <2>5. CASE sig = "TERM"
    BY <1>2, <2>2, <2>5 DEF Hit
  <2> QED
    BY <1>2, <2>3, <2>4, <2>5
<1> QED
  BY <1>1, <1>2, DeliverHits

(* A registration that a command, or a kill, for another run leaves alone. *)
LEMMA OthersKept ==
    ASSUME EnforcerTypeOK, EnforcerInv, NEW r \in Runs, tracked[r] # NULL, NEW q \in Runs, q # r,
           SamePids, seenAs' = seenAs, tracked'[q] = tracked[q], botched \subseteq botched',
           Terming(q) => Terming(q)',
           \/ UNCHANGED host
           \/ \E sig \in {"STOP", "CONT", "KILL", "TERM"} : Deliver(tracked[r].pid, sig)
    PROVE  RegInv(q)'
<1> SUFFICES ASSUME tracked[q] # NULL
             PROVE  /\ Carried(seenAs[q])
                    /\ tracked'[q].state = "Killed" => Over(q)' \/ Terming(q)'
                    /\ tracked'[q].state = "Paused" =>
                         Over(q)' \/ host'[seenAs[q]].life = "stopped" \/ SharesPid(q)
  BY RegKept DEF EnforcerInv
<1>1. PICK x \in Procs : x = seenAs[q] /\ x = seenAs'[q]
  BY DEF EnforcerTypeOK, EnforcerInv, RegInv
<1>2. Carried(x)
  <2>1. CASE UNCHANGED host
    BY <2>1 DEF Carried, Alive
  <2>2. CASE ~UNCHANGED host
    BY <2>2, DeliverCarries DEF EnforcerInv
  <2> QED
    BY <2>1, <2>2
<1>3. Carried(seenAs[q])
  BY <1>1, <1>2 DEF Carried, Alive
<1>4. Over(q) => Over(q)'
  BY <1>1, <1>2 DEF Over, Carried
<1>5. ASSUME host[x].life = "stopped" PROVE host'[x].life \in {"stopped", "dead"} \/ SharesPid(q)
  <2>1. CASE UNCHANGED host
    BY <1>5, <2>1
  <2>2. CASE \E sig \in {"STOP", "CONT", "KILL", "TERM"} : Deliver(tracked[r].pid, sig)
    <3>1. host'[x].life \in {"stopped", "dead"} \/ host[x].pid = tracked[r].pid
      BY <1>5, <2>2, StoppedStays DEF EnforcerInv
    <3>2. host[x].pid = tracked[q].pid
      BY <1>1, <1>5 DEF EnforcerInv, RegInv, Alive
    <3> QED
      BY <3>1, <3>2 DEF SharesPid, Registered
  <2> QED
    BY <2>1, <2>2
<1>6. tracked[q].state = "Killed" => Over(q) \/ Terming(q)
  BY DEF EnforcerInv, RegInv
<1>7. tracked[q].state = "Paused" => Over(q) \/ host[x].life = "stopped" \/ SharesPid(q)
  BY <1>1 DEF EnforcerInv, RegInv
<1>8. host'[x].life = "dead" => Over(q)'
  BY <1>1 DEF Over
<1> QED
  BY <1>1, <1>3, <1>4, <1>5, <1>6, <1>7, <1>8

LEMMA SignalRunKeeps ==
    ASSUME EnforcerTypeOK, EnforcerInv, NEW c \in DOMAIN cmds, SignalRun(c)
    PROVE  EnforcerInv'
<1>1. PICK r \in Runs : r = cmds[c].target /\ tracked[r] # NULL
  BY DEF SignalRun, Accept, Addressed, Registered
<1>2. job = NULL /\ UNCHANGED <<job, seenAs>> /\ JobInv'
  BY DEF SignalRun, Accept, Turn, JobInv
<1>3. \A q \in Runs : Terming(q) => Terming(q)'
  BY <1>2 DEF Terming
<1>4. CASE UNCHANGED <<host, tracked, botched>>
  BY <1>2, <1>3, <1>4, LoopKeeps
<1>5. ASSUME NEW st \in {"Running", "Paused"}, tracked' = [tracked EXCEPT ![r].state = st],
             \/ /\ Deliver(tracked[r].pid, IF st = "Paused" THEN "STOP" ELSE "CONT")
                /\ UNCHANGED botched
             \/ /\ UNCHANGED host /\ botched' = botched \cup {seenAs[r]}
      PROVE  EnforcerInv'
  <2>1. SamePids /\ tracked'[r].state = st /\ \A q \in Runs \ {r} : tracked'[q] = tracked[q]
    BY <1>1, <1>5, StateIsSet
  <2>2. UNCHANGED host \/ \E sig \in {"STOP", "CONT", "KILL", "TERM"} : Deliver(tracked[r].pid, sig)
    BY <1>5
  <2>3. ASSUME NEW q \in Runs, q # r PROVE RegInv(q)'
    BY <1>1, <1>2, <1>3, <1>5, <2>1, <2>2, <2>3, OthersKept
  <2>4. \A x \in Procs : Carried(x)
    <3>1. CASE UNCHANGED host
      BY <3>1 DEF Carried, Alive
    <3>2. CASE ~UNCHANGED host
      BY <2>2, <3>2, DeliverCarries DEF EnforcerInv
    <3> QED
      BY <3>1, <3>2
  <2>5. RegInv(r)'
    <3>1. PICK x \in Procs : x = seenAs[r] /\ x = seenAs'[r]
      BY <1>1, <1>2 DEF EnforcerTypeOK, EnforcerInv, RegInv
    <3>2. Carried(seenAs[r])
      BY <2>4, <3>1 DEF Carried, Alive
    <3>3. st = "Paused" => Over(r)' \/ host'[seenAs[r]].life = "stopped"
      <4>1. CASE Deliver(tracked[r].pid, "STOP")
        <5>1. host'[seenAs[r]].life \in {"dead", "stopped"}
          BY <1>1, <4>1, SignalTakes DEF EnforcerInv
        <5> QED
          BY <5>1, <1>2 DEF Over
      <4>2. CASE botched' = botched \cup {seenAs[r]}
        BY <1>2, <4>2 DEF Over
      <4> QED
        BY <1>5, <4>1, <4>2
    <3> QED
      BY <1>2, <2>1, <3>2, <3>3, <1>5, RegKept DEF EnforcerInv
  <2>6. HostInv'
    BY <2>4, HostKept DEF EnforcerInv
  <2> QED
    BY <1>2, <2>3, <2>5, <2>6 DEF EnforcerInv
<1>6. ASSUME ~UNCHANGED <<host, tracked, botched>>
      PROVE  \E st \in {"Running", "Paused"} :
               /\ tracked' = [tracked EXCEPT ![r].state = st]
               /\ \/ /\ Deliver(tracked[r].pid, IF st = "Paused" THEN "STOP" ELSE "CONT")
                     /\ UNCHANGED botched
                  \/ /\ UNCHANGED host /\ botched' = botched \cup {seenAs[r]}
  <2>1. CASE cmds[c].action = "pause"
    BY <1>1, <1>6, <2>1 DEF SignalRun
  <2>2. CASE cmds[c].action # "pause"
    BY <1>1, <1>6, <2>2 DEF SignalRun
  <2> QED
    BY <2>1, <2>2
<1> QED
  BY <1>4, <1>5, <1>6

LEMMA TerminateKeeps ==
    ASSUME EnforcerTypeOK, EnforcerInv, NEW r \in Runs, Terminate(r)
    PROVE  EnforcerInv'
<1>1. /\ job # NULL /\ r \in job.todo /\ job.termed = NULL /\ tracked[r] # NULL /\ job \in Jobs
      /\ UNCHANGED <<cmds, seenAs>> /\ report = NULL
      /\ tracked' = [tracked EXCEPT ![r].state = "Killed"]
  BY DEF Terminate, Killing, EnforcerInv, JobInv, Registered, EnforcerTypeOK
<1>2. SamePids /\ tracked'[r].state = "Killed" /\ \A q \in Runs \ {r} : tracked'[q] = tracked[q]
  BY <1>1, StateIsSet
<1>3. \/ /\ Deliver(tracked[r].pid, "TERM") /\ job' = [job EXCEPT !.termed = r] /\ UNCHANGED <<report, botched>>
      \/ /\ UNCHANGED host /\ job' = NULL /\ botched' = botched \cup {seenAs[r]}
  BY DEF Terminate
<1>4. ASSUME NEW q \in Runs, q # r PROVE RegInv(q)'
  <2>1. ~Terming(q)
    BY <1>1, EnforcerNames DEF Terming
  <2> QED
    BY <1>1, <1>2, <1>3, <1>4, <2>1, OthersKept
<1>5. \A x \in Procs : Carried(x)
  <2>1. CASE UNCHANGED host
    BY <2>1 DEF Carried, Alive
  <2>2. CASE ~UNCHANGED host
    BY <1>3, <2>2, DeliverCarries DEF EnforcerInv
  <2> QED
    BY <2>1, <2>2
<1>6. RegInv(r)'
  <2>1. PICK x \in Procs : x = seenAs[r] /\ x = seenAs'[r]
    BY <1>1 DEF EnforcerTypeOK, EnforcerInv, RegInv
  <2>2. Carried(seenAs[r])
    BY <1>5, <2>1 DEF Carried, Alive
  <2>3. Over(r)' \/ Terming(r)'
    <3>1. CASE job' = [job EXCEPT !.termed = r]
      <4>1. job' \in Jobs /\ job'.termed = r
        BY <1>1, <3>1 DEF Jobs
      <4> QED
        BY <4>1, EnforcerNames DEF Terming
    <3>2. CASE botched' = botched \cup {seenAs[r]}
      BY <1>1, <3>2 DEF Over
    <3> QED
      BY <1>3, <3>1, <3>2
  <2> QED
    BY <1>1, <1>2, <2>2, <2>3, RegKept DEF EnforcerInv
<1>7. JobInv'
  <2>1. CASE job' = NULL
    BY <2>1 DEF JobInv
  <2>2. CASE job' = [job EXCEPT !.termed = r] /\ UNCHANGED report
    <3>1. job'.cmd = job.cmd /\ job'.todo = job.todo /\ job'.termed = r
      BY <1>1, <2>2 DEF Jobs
    <3>2. Registered' = Registered
      BY <1>2 DEF SamePids, Registered
    <3>3. Targets(job.cmd)' = Targets(job.cmd)
      BY <1>1, <3>1, <3>2 DEF Targets
    <3>4. Targets(job.cmd) \subseteq Runs
      BY <1>1 DEF EnforcerInv, JobInv, Registered
    <3>5. \A q \in Targets(job.cmd) \ job.todo : tracked'[q].state = "Killed"
      BY <1>1, <1>2, <3>4 DEF EnforcerInv, JobInv
    <3> QED
      BY <1>1, <1>2, <2>2, <3>1, <3>2, <3>3, <3>5 DEF EnforcerInv, JobInv
  <2> QED
    BY <1>3, <2>1, <2>2
<1>8. HostInv'
  BY <1>5, HostKept DEF EnforcerInv
<1> QED
  BY <1>4, <1>6, <1>7, <1>8 DEF EnforcerInv

LEMMA EscalateKeeps ==
    ASSUME EnforcerTypeOK, EnforcerInv, Escalate
    PROVE  EnforcerInv'
<1>1. PICK r \in Runs : /\ r = job.termed /\ job # NULL /\ tracked[r] # NULL /\ tracked[r].state = "Killed"
                        /\ r \in job.todo /\ job \in Jobs
  BY DEF Escalate, EnforcerInv, JobInv, Registered, EnforcerTypeOK
<1>2. UNCHANGED <<cmds, seenAs, tracked>> /\ SamePids
  BY DEF Escalate, SamePids
<1>3. \/ /\ Deliver(tracked[r].pid, "KILL") /\ UNCHANGED botched
      \/ /\ UNCHANGED host /\ botched' = botched \cup {seenAs[r]}
  BY <1>1 DEF Escalate
<1>4. ASSUME NEW q \in Runs, q # r PROVE RegInv(q)'
  <2>1. ~Terming(q)
    BY <1>1, <1>4 DEF Terming
  <2> QED
    BY <1>1, <1>2, <1>3, <1>4, <2>1, OthersKept
<1>5. \A x \in Procs : Carried(x)
  <2>1. CASE UNCHANGED host
    BY <2>1 DEF Carried, Alive
  <2>2. CASE ~UNCHANGED host
    BY <1>3, <2>2, DeliverCarries DEF EnforcerInv
  <2> QED
    BY <2>1, <2>2
<1>6. RegInv(r)'
  <2>1. PICK x \in Procs : x = seenAs[r] /\ x = seenAs'[r]
    BY <1>1, <1>2 DEF EnforcerTypeOK, EnforcerInv, RegInv
  <2>2. Carried(seenAs[r])
    BY <1>5, <2>1 DEF Carried, Alive
  <2>3. Over(r)'
    <3>1. CASE Deliver(tracked[r].pid, "KILL")
      <4>1. host'[seenAs[r]].life = "dead"
        BY <1>1, <3>1, SignalTakes DEF EnforcerInv
      <4> QED
        BY <1>2, <4>1 DEF Over
    <3>2. CASE botched' = botched \cup {seenAs[r]}
      BY <1>2, <3>2 DEF Over
    <3> QED
      BY <1>3, <3>1, <3>2
  <2> QED
    BY <1>1, <1>2, <2>2, <2>3, RegKept DEF EnforcerInv
<1>7. JobInv'
  <2>1. CASE job' = NULL
    BY <2>1 DEF JobInv
  <2>2. CASE job' = [job EXCEPT !.termed = NULL, !.todo = @ \ {r}] /\ UNCHANGED report
    <3>1. job'.cmd = job.cmd /\ job'.todo = job.todo \ {r} /\ job'.termed = NULL
      BY <1>1, <2>2 DEF Jobs
    <3>2. Registered' = Registered /\ Targets(job.cmd)' = Targets(job.cmd)
      BY <1>2, <3>1 DEF Targets, Registered
    <3> QED
      BY <1>1, <1>2, <2>2, <3>1, <3>2 DEF EnforcerInv, JobInv
  <2> QED
    BY <1>1, <2>1, <2>2 DEF Escalate
<1>8. HostInv'
  BY <1>5, HostKept DEF EnforcerInv
<1> QED
  BY <1>4, <1>6, <1>7, <1>8 DEF EnforcerInv

LEMMA EnforcerInvInit == EnforcerInit => EnforcerInv
<1> SUFFICES ASSUME EnforcerInit PROVE EnforcerInv
  OBVIOUS
<1>1. \A x \in Procs : ~Alive(x)
  BY DEF EnforcerInit, Alive, Ended
<1>2. HostInv
  BY <1>1 DEF HostInv
<1>3. JobInv /\ \A r \in Runs : RegInv(r)
  BY DEF EnforcerInit, JobInv, RegInv
<1> QED
  BY <1>2, <1>3 DEF EnforcerInv

LEMMA EnforcerInvStep == EnforcerTypeOK /\ EnforcerInv /\ [EnforcerNext]_enforcerVars => EnforcerInv'
<1> SUFFICES ASSUME EnforcerTypeOK, EnforcerInv, [EnforcerNext]_enforcerVars PROVE EnforcerInv'
  OBVIOUS
<1>1. CASE Environment
  BY <1>1, EnvironmentKeeps
<1>2. CASE Collect
  BY <1>2, CollectKeeps
<1>3. CASE PollCommands \/ Report \/ (\E c \in DOMAIN cmds : Skip(c) \/ Refuse(c)) \/ UNCHANGED enforcerVars
  BY <1>3, PollKeeps
<1>4. ASSUME NEW c \in DOMAIN cmds, SignalRun(c) PROVE EnforcerInv'
  BY <1>4, SignalRunKeeps
<1>5. ASSUME NEW c \in DOMAIN cmds, BeginKill(c) PROVE EnforcerInv'
  BY <1>5, BeginKillKeeps
<1>6. CASE (\E r \in Runs : PassKilled(r)) \/ EndKill
  BY <1>6, PassKeeps
<1>7. ASSUME NEW r \in Runs, Terminate(r) PROVE EnforcerInv'
  BY <1>7, TerminateKeeps
<1>8. CASE Escalate
  BY <1>8, EscalateKeeps
<1>9. CASE Restart
  BY <1>9, RestartKeeps
<1> QED
  BY <1>1, <1>2, <1>3, <1>4, <1>5, <1>6, <1>7, <1>8, <1>9 DEF EnforcerNext, Work

LEMMA EnforcerInvHolds == EnforcerSpec => [](EnforcerTypeOK /\ EnforcerInv)
<1>1. EnforcerInit => EnforcerTypeOK /\ EnforcerInv
  BY EnforcerTypeInit, EnforcerInvInit
<1>2. (EnforcerTypeOK /\ EnforcerInv) /\ [EnforcerNext]_enforcerVars => (EnforcerTypeOK /\ EnforcerInv)'
  BY EnforcerTypeStep, EnforcerInvStep
<1> QED
  BY <1>1, <1>2, PTL DEF EnforcerSpec

(***************************************************************************)
(* The sensor's map, queue, kill in progress and reports keep their types. *)
(***************************************************************************)
THEOREM EnforcerTypesHold == EnforcerSpec => []EnforcerTypeOK
<1>1. EnforcerTypeOK /\ EnforcerInv => EnforcerTypeOK
  OBVIOUS
<1> QED
  BY EnforcerInvHolds, <1>1, PTL

(***************************************************************************)
(* The commands that are acked: pause and resume after their signal, or    *)
(* without one when the map says it is not needed; a kill when its targets *)
(* are all done.                                                           *)
(***************************************************************************)
LEMMA AckStep ==
    ASSUME EnforcerTypeOK, EnforcerInv, [EnforcerNext]_enforcerVars, Acking,
           NEW r \in Targets(report'.cmd)
    PROVE  Obeyed(report'.cmd, r) \/ (cmds[report'.cmd].action = "pause" /\ SharesPid(r))
<1>1. ASSUME NEW c \in DOMAIN cmds, SignalRun(c)
      PROVE  Obeyed(report'.cmd, r) \/ (cmds[report'.cmd].action = "pause" /\ SharesPid(r))
  <2>1. /\ cmds[c].target # Sensor /\ cmds[c].target \in Runs /\ tracked[cmds[c].target] # NULL
        /\ cmds[c].action \in {"pause", "resume"} /\ job = NULL
    BY <1>1, CommandIsTyped DEF SignalRun, Accept, Turn, Addressed, Registered, Actions
  <2>2. report'.cmd = c
    BY <1>1 DEF SignalRun, Outcome
  <2>3. r = cmds[c].target
    BY <2>1, <2>2 DEF Targets
  <2>4. PICK x \in Procs : x = seenAs[r] /\ RegInv(r)
    BY <2>1, <2>3 DEF EnforcerTypeOK, EnforcerInv, RegInv
  <2>5. tracked[r].state = "Killed" => Over(r)
    BY <2>1, <2>3, <2>4 DEF RegInv, Terming
  <2>6. CASE Early(cmds[c].action, tracked[r].state) /\ UNCHANGED <<host, botched>>
    <3>1. Over(r) => Obeyed(c, r)
      BY <2>1, <2>6 DEF Over, Obeyed, Took
    <3>2. CASE tracked[r].state = "Killed"
      BY <2>2, <2>5, <3>1, <3>2
    <3>3. CASE cmds[c].action = "pause" /\ tracked[r].state = "Paused"
      <4>1. Over(r) \/ host[seenAs[r]].life = "stopped" \/ SharesPid(r)
        BY <2>1, <2>3, <2>4, <3>3 DEF RegInv
      <4>2. host[seenAs[r]].life = "stopped" => Obeyed(c, r)
        BY <2>6, <3>3 DEF Obeyed, Took
      <4> QED
        BY <2>2, <3>1, <3>3, <4>1, <4>2
    <3> QED
      BY <2>6, <3>2, <3>3 DEF Early
  <2>7. CASE Deliver(tracked[r].pid, IF cmds[c].action = "pause" THEN "STOP" ELSE "CONT")
    <3>1. CASE cmds[c].action = "pause"
      <4>1. host'[seenAs[r]].life \in {"dead", "stopped"}
        BY <2>1, <2>3, <2>4, <2>7, <3>1, SignalTakes DEF EnforcerInv
      <4> QED
        BY <2>2, <3>1, <4>1 DEF Obeyed, Took
    <3>2. CASE cmds[c].action = "resume"
      <4>1. host'[seenAs[r]].life \in {"dead", "running"}
        BY <2>1, <2>3, <2>4, <2>7, <3>2, SignalTakes DEF EnforcerInv
      <4> QED
        BY <2>2, <3>2, <4>1 DEF Obeyed, Took
    <3> QED
      BY <2>1, <3>1, <3>2
  <2>8. ~Outcome(c, FALSE)
    BY DEF Outcome, Acking
  <2> QED
    BY <1>1, <2>3, <2>6, <2>7, <2>8 DEF SignalRun
<1>2. CASE EndKill
  <2>1. job # NULL /\ job.todo = {} /\ job.termed = NULL /\ report'.cmd = job.cmd /\ UNCHANGED <<host, botched>>
    BY <1>2 DEF EndKill, Outcome
  <2>2. /\ cmds[job.cmd].action = "kill" /\ Targets(job.cmd) \subseteq Registered
        /\ \A q \in Targets(job.cmd) : tracked[q].state = "Killed"
    BY <2>1 DEF EnforcerInv, JobInv
  <2>3. r \in Runs /\ tracked[r] # NULL /\ tracked[r].state = "Killed"
    BY <2>1, <2>2 DEF Registered
  <2>4. ~Terming(r)
    BY <2>1, <2>3, EnforcerNames DEF Terming
  <2>5. Over(r)
    BY <2>3, <2>4 DEF EnforcerInv, RegInv
  <2> QED
    BY <2>1, <2>2, <2>5 DEF Over, Obeyed, Took
<1>3. \/ \E c \in DOMAIN cmds : SignalRun(c)
      \/ EndKill
  <2>1. UNCHANGED report \/ report' = NULL \/ (\E c : Outcome(c, FALSE)) \/ EndKill
        \/ \E c \in DOMAIN cmds : SignalRun(c)
    BY DEF EnforcerNext, Work, Environment, Collect, PollCommands, Restart, Escalate, Report, Skip, Refuse,
       BeginKill, PassKilled, Terminate, Exit, Spawn, Issue, Expire, enforcerVars, sensor
  <2>2. ASSUME NEW c, Outcome(c, FALSE) PROVE FALSE
    BY <2>2 DEF Outcome, Acking
  <2> QED
    BY <2>1, <2>2 DEF Acking
<1> QED
  BY <1>1, <1>2, <1>3

(***************************************************************************)
(* An acked command took effect on every process registered for a target,  *)
(* however many runs, processes, pids, commands and faults there are,      *)
(* unless a signal or probe failed on the process since it was registered  *)
(* or, for a pause, another registration has its pid.                      *)
(***************************************************************************)
THEOREM AcksAreHonest == EnforcerSpec => AckIsHonest
<1>1. (EnforcerTypeOK /\ EnforcerInv) /\ [EnforcerNext]_enforcerVars =>
        [Acking => \A r \in Targets(report'.cmd) :
           \/ Obeyed(report'.cmd, r)
           \/ cmds[report'.cmd].action = "pause" /\ SharesPid(r)]_enforcerVars
  BY AckStep
<1> QED
  BY EnforcerInvHolds, <1>1, PTL DEF EnforcerSpec, AckIsHonest
=============================================================================
