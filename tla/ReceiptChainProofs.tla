------------------------- MODULE ReceiptChainProofs -------------------------
(***************************************************************************)
(* The receipt chain for any set of receipts and tenants, any channel      *)
(* capacity and batch size and any number of restarts: on SQLite every     *)
(* tenant's chain verifies; on either backend no receipt is chained twice  *)
(* or silently dropped.                                                    *)
(*                                                                         *)
(* The chain argument speaks of what a connection sees, Visible(c), not of *)
(* the committed rows alone: a batch's rows must already verify before the *)
(* commit makes them everybody's.  What a connection sees is private to it *)
(* because only the holder of the write lock has rows of its own.          *)
(***************************************************************************)
EXTENDS ReceiptChain, TLAPS, SequenceTheorems, FiniteSetTheorems

Holding(c) == tx[c].at \in {"head", "insert", "commit"}

\* On SQLite a connection past BEGIN IMMEDIATE holds the write lock.
LockInv == Locking => \A c \in Connections : Holding(c) <=> lock = c

OneToOne(s) == \A i, j \in DOMAIN s : s[i] = s[j] => i = j

\* A transaction's rows are those of the tenants it is done with.
TxOK(s) ==
    /\ s.at \in {"none", "begin"} => s.new = {} /\ s.done = {}
    /\ s.at # "none" => s.todo # <<>> /\ OneToOne(s.todo)
    /\ s.at \in {"head", "insert"} => ~(Tenants(s.todo) \subseteq s.done)
    /\ s.at = "commit" => Tenants(s.todo) \subseteq s.done
    /\ \A x \in s.new : x.id \in Range(s.todo) /\ TenantOf[x.id] \in s.done
    /\ \A x, y \in s.new : x.id = y.id => x = y
    /\ \A i \in DOMAIN s.todo : TenantOf[s.todo[i]] \in s.done => s.todo[i] \in Ids(s.new)
TxInv == \A c \in Connections : TxOK(tx[c])

\* No rowid beyond the last one handed out.
RowidInv == \A c \in Connections : \A x \in Visible(c) : x.rowid <= serial

OneRowPerRowid(table) == \A x, y \in table : x.rowid = y.rowid => x = y
Verifies(table) ==
    \A x \in table : x.prev = HeadOf({y \in table : y.rowid < x.rowid}, TenantOf[x.id])

\* What a connection sees verifies, and the head it read is still the head.
ChainOn(table, s) ==
    /\ OneRowPerRowid(table)
    /\ Verifies(table)
    /\ s.at = "insert" => s.prev = HeadOf(table, NextTenant(s.todo, s.done))
ChainInv ==
    Locking => ChainVerifies /\ \A c \in Connections : ChainOn(Visible(c), tx[c])

\* What the writer task has in hand.
WriterInv ==
    /\ mode \in {"receive", "stopped"} => tx[Writer].at = "none" /\ Len(buf) < BatchSize
    /\ mode = "batch" => tx[Writer].at # "none" /\ tx[Writer].todo = buf
    /\ mode = "single" =>
          /\ left # <<>> /\ Range(left) \subseteq Range(buf)
          /\ tx[Writer].at # "none" => tx[Writer].todo = <<Head(left)>>

\* Each receipt is in one place, and not in the chain while it still waits.
PlaceInv ==
    /\ OneToOne(queue) /\ OneToOne(buf) /\ OneToOne(left)
    /\ Range(queue) \cap Range(buf) = {}
    /\ \A r \in Range(queue) \cup Range(buf) : caller[r] = "queued"
    /\ Range(queue) \cap Ids(rows) = {}
    /\ mode # "single" => Range(buf) \cap Ids(rows) = {}
    /\ mode = "single" => Range(left) \cap Ids(rows) = {}
    /\ \A r \in Receipts : caller[r] \in {"idle", "appending"} => r \notin Ids(rows)
    /\ \A r \in Receipts : tx[r].at # "none" => caller[r] = "appending" /\ tx[r].todo = <<r>>

\* What the fallback has dealt with is in the chain or in the log.
FallbackInv == mode = "single" => Range(buf) \subseteq Ids(rows) \cup logged \cup Range(left)

DatabaseInv == LockInv /\ TxInv /\ RowidInv /\ ChainInv
DeliveryInv == WriterInv /\ PlaceInv /\ OnceInChain /\ FallbackInv /\ NeverSilentlyDropped
IndInv == TypeOK /\ DatabaseInv /\ DeliveryInv

-----------------------------------------------------------------------------
(* Numbers and sequences. *)

\* A nonempty set of numbers has a least element.
LEMMA MinOf ==
    ASSUME NEW S, S \subseteq Nat, S # {}
    PROVE  Min(S) \in S /\ \A y \in S : Min(S) <= y
  <1>1. PICK x \in S : \A y \in S : ~(<<y, x>> \in OpToRel(<, Nat))
    BY NatLessThanWellFounded, WFMin
  <1>2. \A y \in S : ~(y < x)
    BY <1>1 DEF OpToRel
  <1>3. \A y \in S : x <= y
    BY <1>2
  <1> QED
    BY <1>3 DEF Min

\* A bounded one has a greatest.
LEMMA MaxOf ==
    ASSUME NEW S, NEW n \in Nat, S \subseteq Nat, S # {}, \A y \in S : y <= n
    PROVE  Max(S) \in S /\ \A y \in S : y <= Max(S)
  <1> DEFINE T == {n - y : y \in S}
  <1>1. T \subseteq Nat /\ T # {}
    <2>1. PICK d \in S : TRUE
      OBVIOUS
    <2>2. n - d \in T
      OBVIOUS
    <2>3. \A y \in S : n - y \in Nat
      OBVIOUS
    <2> QED  BY <2>2, <2>3
  <1>2. Min(T) \in T /\ \A y \in T : Min(T) <= y
    BY <1>1, MinOf
  <1>3. PICK m \in S : Min(T) = n - m
    BY <1>2
  <1>4. \A y \in S : m >= y
    <2> TAKE y \in S
    <2>1. n - y \in T
      OBVIOUS
    <2>2. n - m <= n - y
      BY <1>2, <1>3, <2>1
    <2> QED  BY <2>2
  <1> QED
    BY <1>4 DEF Max

LEMMA AppendKeeps ==
    ASSUME NEW S, NEW s \in Seq(S), NEW e \in S
    PROVE  /\ Append(s, e) \in Seq(S) /\ Append(s, e) # <<>>
           /\ Len(Append(s, e)) = Len(s) + 1
           /\ Range(Append(s, e)) = Range(s) \cup {e}
           /\ (OneToOne(s) /\ e \notin Range(s)) => OneToOne(Append(s, e))
  <1>1. /\ Append(s, e) \in Seq(S) /\ Append(s, e) # <<>>
        /\ Len(Append(s, e)) = Len(s) + 1
        /\ DOMAIN Append(s, e) = 1 .. Len(s) + 1 /\ DOMAIN s = 1 .. Len(s)
        /\ \A i \in 1 .. Len(s) : Append(s, e)[i] = s[i]
        /\ Append(s, e)[Len(s) + 1] = e
    BY AppendProperties, LenProperties
  <1>2. Range(Append(s, e)) = Range(s) \cup {e}
    BY <1>1 DEF Range
  <1>3. ASSUME OneToOne(s), e \notin Range(s)  PROVE OneToOne(Append(s, e))
    BY <1>1, <1>3 DEF OneToOne, Range
  <1> QED
    BY <1>1, <1>2, <1>3

LEMMA TailKeeps ==
    ASSUME NEW S, NEW s \in Seq(S), s # <<>>
    PROVE  /\ Tail(s) \in Seq(S) /\ Head(s) \in S /\ Len(Tail(s)) = Len(s) - 1
           /\ Range(s) = {Head(s)} \cup Range(Tail(s))
           /\ OneToOne(s) => OneToOne(Tail(s)) /\ Head(s) \notin Range(Tail(s))
  <1>1. /\ Tail(s) \in Seq(S) /\ Head(s) \in S /\ Head(s) = s[1]
        /\ Len(s) \in Nat \ {0} /\ Len(Tail(s)) = Len(s) - 1
        /\ DOMAIN Tail(s) = 1 .. Len(s) - 1 /\ DOMAIN s = 1 .. Len(s)
        /\ \A i \in 1 .. Len(s) - 1 : Tail(s)[i] = s[i + 1]
    BY HeadTailProperties, LenProperties, EmptySeq
  <1>2. \A i \in 1 .. Len(s) : i = 1 \/ (i - 1 \in 1 .. Len(s) - 1 /\ s[i] = Tail(s)[i - 1])
    BY <1>1
  <1>3. Range(s) = {Head(s)} \cup Range(Tail(s))
    <2>1. ASSUME NEW i \in 1 .. Len(s)  PROVE s[i] \in {Head(s)} \cup Range(Tail(s))
      <3>1. CASE i = 1
        BY <1>1, <3>1
      <3>2. CASE i - 1 \in 1 .. Len(s) - 1 /\ s[i] = Tail(s)[i - 1]
        BY <1>1, <3>2 DEF Range
      <3> QED  BY <1>2, <3>1, <3>2
    <2>2. Head(s) \in Range(s)
      BY <1>1 DEF Range
    <2>3. \A r \in Range(Tail(s)) : r \in Range(s)
      BY <1>1 DEF Range
    <2>4. \A r \in Range(s) : r \in {Head(s)} \cup Range(Tail(s))
      BY <1>1, <2>1 DEF Range
    <2> QED  BY <2>2, <2>3, <2>4
  <1>4. ASSUME OneToOne(s)  PROVE OneToOne(Tail(s)) /\ Head(s) \notin Range(Tail(s))
    <2>1. \A i, j \in 1 .. Len(s) - 1 : Tail(s)[i] = Tail(s)[j] => i + 1 = j + 1
      BY <1>1, <1>4 DEF OneToOne
    <2>2. \A i \in 1 .. Len(s) - 1 : Tail(s)[i] # Head(s)
      BY <1>1, <1>4 DEF OneToOne
    <2> QED
      BY <1>1, <2>1, <2>2 DEF OneToOne, Range
  <1> QED
    BY <1>1, <1>3, <1>4

LEMMA EmptyKeeps == /\ Range(<<>>) = {} /\ OneToOne(<<>>) /\ Len(<<>>) = 0
                    /\ \A S : <<>> \in Seq(S)
  BY DEF Range, OneToOne

LEMMA OneReceipt ==
    ASSUME NEW S, NEW e \in S
    PROVE  /\ <<e>> \in Seq(S) /\ <<e>> # <<>> /\ Range(<<e>>) = {e} /\ OneToOne(<<e>>)
  BY DEF Range, OneToOne

-----------------------------------------------------------------------------
(* Chains. *)

\* The head depends on the tenant's own rows only.
LEMMA HeadSame ==
    ASSUME NEW s, NEW table, NEW t,
           \A x \in s : TenantOf[x.id] = t => x \in table,
           \A x \in table : TenantOf[x.id] = t => x \in s
    PROVE  HeadOf(s, t) = HeadOf(table, t)
  <1> DEFINE Mine(u) == {x \in u : TenantOf[x.id] = t}
             Top(m) == IF m = {} THEN Genesis
                       ELSE (CHOOSE x \in m : \A y \in m : y.rowid <= x.rowid).id
  <1>1. Mine(s) = Mine(table)
    OBVIOUS
  <1>2. HeadOf(s, t) = Top(Mine(s)) /\ HeadOf(table, t) = Top(Mine(table))
    BY DEF HeadOf
  <1> HIDE DEF Mine, Top
  <1> QED
    BY <1>1, <1>2

\* The head is the row nobody of the tenant is above.
LEMMA HeadIs ==
    ASSUME NEW table, NEW h \in table, table \subseteq Rows, OneRowPerRowid(table),
           \A y \in table : TenantOf[y.id] = TenantOf[h.id] => y.rowid <= h.rowid
    PROVE  HeadOf(table, TenantOf[h.id]) = h.id
  <1> DEFINE mine == {x \in table : TenantOf[x.id] = TenantOf[h.id]}
  <1>1. h \in mine /\ \A y \in mine : y.rowid <= h.rowid
    OBVIOUS
  <1>2. \A x \in mine : (\A y \in mine : y.rowid <= x.rowid) => x = h
    <2> SUFFICES ASSUME NEW x \in mine, \A y \in mine : y.rowid <= x.rowid  PROVE x = h
      OBVIOUS
    <2>1. x.rowid <= h.rowid /\ h.rowid <= x.rowid /\ x.rowid \in Nat /\ h.rowid \in Nat
      BY <1>1 DEF Rows
    <2>2. x.rowid = h.rowid
      BY <2>1
    <2> QED
      BY <2>2 DEF OneRowPerRowid
  <1>3. (CHOOSE x \in mine : \A y \in mine : y.rowid <= x.rowid) = h
    BY <1>1, <1>2
  <1> QED
    BY <1>1, <1>3 DEF HeadOf

\* A tenant that has rows has a head among them.
LEMMA HeadExists ==
    ASSUME NEW table, NEW n \in Nat, NEW t, table \subseteq Rows,
           \A y \in table : y.rowid <= n, \E x \in table : TenantOf[x.id] = t
    PROVE  \E h \in table : /\ TenantOf[h.id] = t /\ HeadOf(table, t) = h.id
                            /\ \A y \in table : TenantOf[y.id] = t => y.rowid <= h.rowid
  <1> DEFINE mine == {x \in table : TenantOf[x.id] = t}
             ids == {x.rowid : x \in mine}
             top == CHOOSE x \in mine : \A y \in mine : y.rowid <= x.rowid
  <1>1. mine # {}
    OBVIOUS
  <1>2. ids \subseteq Nat /\ ids # {} /\ \A y \in ids : y <= n
    BY <1>1 DEF Rows
  <1>3. Max(ids) \in ids /\ \A y \in ids : y <= Max(ids)
    BY <1>2, MaxOf
  <1>4. PICK m \in mine : m.rowid = Max(ids)
    BY <1>3
  <1>5. \A y \in mine : y.rowid <= m.rowid
    BY <1>3, <1>4
  <1>6. top \in mine /\ \A y \in mine : y.rowid <= top.rowid
    BY <1>5
  <1>7. HeadOf(table, t) = top.id
    BY <1>1 DEF HeadOf
  <1> QED
    BY <1>6, <1>7

LEMMA HeadTyped ==
    ASSUME NEW table, NEW n \in Nat, NEW t, table \subseteq Rows,
           \A y \in table : y.rowid <= n
    PROVE  HeadOf(table, t) \in Receipts \cup {Genesis}
  <1>1. CASE \E x \in table : TenantOf[x.id] = t
    <2>1. PICK h \in table : HeadOf(table, t) = h.id
      BY <1>1, HeadExists
    <2> QED  BY <2>1 DEF Rows
  <1>2. CASE ~ \E x \in table : TenantOf[x.id] = t
    <2>1. {x \in table : TenantOf[x.id] = t} = {}
      BY <1>2
    <2> QED  BY <2>1 DEF HeadOf
  <1> QED  BY <1>1, <1>2

-----------------------------------------------------------------------------
(* The groups of a batch. *)

LEMMA NextTenantIs ==
    ASSUME NEW todo \in Seq(Receipts), NEW done, ~(Tenants(todo) \subseteq done)
    PROVE  /\ NextTenant(todo, done) \in Tenants(todo) \ done
           /\ NextTenant(todo, done) \in {TenantOf[r] : r \in Receipts}
  <1> DEFINE P == {i \in DOMAIN todo : TenantOf[todo[i]] \notin done}
  <1>1. P \subseteq Nat /\ P # {} /\ DOMAIN todo = 1 .. Len(todo)
    BY LenProperties DEF Tenants
  <1>2. Min(P) \in P
    BY <1>1, MinOf
  <1>3. NextTenant(todo, done) = TenantOf[todo[Min(P)]]
    BY DEF NextTenant
  <1>4. todo[Min(P)] \in Receipts
    BY <1>1, <1>2
  <1> QED
    BY <1>2, <1>3, <1>4 DEF Tenants

\* Places before i in a group: how many, and the last of them.
LEMMA BeforeIs ==
    ASSUME NEW n \in Nat, NEW group \in SUBSET (1 .. n), NEW i \in group
    PROVE  /\ Cardinality(group) \in Nat /\ Cardinality(Before(group, i)) \in Nat
           /\ Cardinality(Before(group, i)) + 1 <= Cardinality(group)
           /\ \A j \in group : j < i =>
                Cardinality(Before(group, j)) < Cardinality(Before(group, i))
           /\ Before(group, i) # {} =>
                /\ Max(Before(group, i)) \in group /\ Max(Before(group, i)) < i
                /\ \A j \in group : j < i => j <= Max(Before(group, i))
  <1>1. IsFiniteSet(group) /\ \A k \in group : k \in Nat /\ k <= n
    <2>1. 1 \in Int /\ n \in Int
      OBVIOUS
    <2>2. IsFiniteSet(1 .. n)
      BY <2>1, FS_Interval
    <2>3. \A k \in group : k \in Nat /\ k <= n
      OBVIOUS
    <2>4. IsFiniteSet(group)
      BY <2>2, FS_Subset
    <2> QED  BY <2>3, <2>4
  <1>2. ASSUME NEW s, NEW r \in SUBSET group, s \subseteq r, s # r
        PROVE  /\ Cardinality(s) \in Nat /\ Cardinality(r) \in Nat
               /\ Cardinality(s) < Cardinality(r)
    <2>1. IsFiniteSet(r) /\ Cardinality(r) \in Nat
      BY <1>1, FS_Subset, FS_CardinalityType
    <2>2. s \in SUBSET r
      BY <1>2
    <2>3. IsFiniteSet(s) /\ Cardinality(s) <= Cardinality(r) /\ Cardinality(s) # Cardinality(r)
      BY <1>2, <2>1, <2>2, FS_Subset
    <2>4. Cardinality(s) \in Nat
      BY <2>3, FS_CardinalityType
    <2> QED
      BY <2>1, <2>3, <2>4
  <1>3. Before(group, i) \subseteq group /\ i \notin Before(group, i)
    BY DEF Before
  <1>4. /\ Cardinality(Before(group, i)) \in Nat /\ Cardinality(group) \in Nat
        /\ Cardinality(Before(group, i)) < Cardinality(group)
    <2>1. Before(group, i) # group /\ group \in SUBSET group
      BY <1>3
    <2> QED  BY <1>2, <1>3, <2>1
  <1>5. ASSUME NEW j \in group, j < i
        PROVE  Cardinality(Before(group, j)) < Cardinality(Before(group, i))
    <2>1. Before(group, j) \subseteq Before(group, i)
      <3>1. \A k \in group : k < j => k < i
        BY <1>1, <1>5
      <3> QED  BY <3>1 DEF Before
    <2>2. j \in Before(group, i) /\ j \notin Before(group, j)
      BY <1>1, <1>5 DEF Before
    <2>3. Before(group, i) \in SUBSET group /\ Before(group, j) # Before(group, i)
      BY <1>3, <2>2
    <2> QED  BY <1>2, <2>1, <2>3
  <1>6. ASSUME Before(group, i) # {}
        PROVE  /\ Max(Before(group, i)) \in group /\ Max(Before(group, i)) < i
               /\ \A j \in group : j < i => j <= Max(Before(group, i))
    <2>1. Before(group, i) \subseteq Nat /\ \A y \in Before(group, i) : y <= n
      BY <1>1 DEF Before
    <2>2. /\ Max(Before(group, i)) \in Before(group, i)
          /\ \A y \in Before(group, i) : y <= Max(Before(group, i))
      BY <1>6, <2>1, MaxOf
    <2> QED
      BY <2>2 DEF Before
  <1>7. Cardinality(Before(group, i)) + 1 <= Cardinality(group)
    BY <1>4
  <1> QED
    BY <1>4, <1>5, <1>6, <1>7

Link(todo, group, prev, base, i) ==
    [id |-> todo[i],
     prev |-> IF Before(group, i) = {} THEN prev ELSE todo[Max(Before(group, i))],
     rowid |-> base + Cardinality(Before(group, i)) + 1]

\* A batch's positions of one tenant, and how many of them come before one.
LEMMA GroupIs ==
    ASSUME NEW todo \in Seq(Receipts), NEW t, NEW group, group = Group(todo, t)
    PROVE  /\ Cardinality(group) \in Nat
           /\ \A i \in group :
                /\ i \in DOMAIN todo /\ i \in Nat
                /\ todo[i] \in Receipts /\ TenantOf[todo[i]] = t
                /\ Cardinality(Before(group, i)) \in Nat
                /\ Cardinality(Before(group, i)) + 1 <= Cardinality(group)
                /\ \A j \in group : j < i =>
                     Cardinality(Before(group, j)) < Cardinality(Before(group, i))
                /\ Before(group, i) # {} => Max(Before(group, i)) \in group
  <1>1. /\ Len(todo) \in Nat /\ DOMAIN todo = 1 .. Len(todo)
        /\ \A i \in DOMAIN todo : todo[i] \in Receipts
    BY LenProperties
  <1>2. group \in SUBSET (1 .. Len(todo)) /\ \A i \in group : TenantOf[todo[i]] = t /\ i \in DOMAIN todo
    BY <1>1 DEF Group
  <1>3. Cardinality(group) \in Nat
    <2>1. 1 \in Int /\ Len(todo) \in Int
      BY <1>1
    <2>2. IsFiniteSet(1 .. Len(todo))
      BY <2>1, FS_Interval
    <2>3. IsFiniteSet(group)
      BY <1>2, <2>2, FS_Subset
    <2> QED
      BY <2>3, FS_CardinalityType
  <1>4. ASSUME NEW i \in group
        PROVE  /\ Cardinality(Before(group, i)) \in Nat
               /\ Cardinality(Before(group, i)) + 1 <= Cardinality(group)
               /\ \A j \in group : j < i =>
                    Cardinality(Before(group, j)) < Cardinality(Before(group, i))
               /\ Before(group, i) # {} => Max(Before(group, i)) \in group
    BY <1>1, <1>2, BeforeIs
  <1>5. \A i \in group : i \in DOMAIN todo /\ i \in Nat /\ todo[i] \in Receipts /\ TenantOf[todo[i]] = t
    BY <1>1, <1>2
  <1> QED
    BY <1>3, <1>4, <1>5

\* A link is a row of its receipt above the base, and no higher than the group's
\* last.
LEMMA LinkIs ==
    ASSUME NEW todo \in Seq(Receipts), NEW t, NEW group, group = Group(todo, t),
           NEW prev \in Receipts \cup {Genesis}, NEW base \in Nat, NEW i \in group,
           NEW x, x = Link(todo, group, prev, base, i)
    PROVE  /\ x \in Rows /\ x.id = todo[i] /\ TenantOf[todo[i]] = t
           /\ i \in DOMAIN todo /\ i \in Nat
           /\ base < x.rowid /\ x.rowid <= base + Cardinality(group)
  <1>1. PICK n, N : n = Cardinality(Before(group, i)) /\ N = Cardinality(group)
    OBVIOUS
  <1>2. /\ i \in DOMAIN todo /\ i \in Nat /\ todo[i] \in Receipts /\ TenantOf[todo[i]] = t
        /\ n \in Nat /\ N \in Nat /\ n + 1 <= N
        /\ Before(group, i) # {} => todo[Max(Before(group, i))] \in Receipts
    <2>1. PICK m : m = Max(Before(group, i))
      OBVIOUS
    <2>2. Before(group, i) # {} => m \in group
      BY <2>1, GroupIs
    <2>3. \A j \in group : todo[j] \in Receipts
      BY GroupIs
    <2> QED  BY <1>1, <2>1, <2>2, <2>3, GroupIs
  <1>3. /\ x.id = todo[i] /\ x.rowid = base + n + 1
        /\ x.prev = IF Before(group, i) = {} THEN prev ELSE todo[Max(Before(group, i))]
    BY <1>1 DEF Link
  <1>4. x.prev \in Receipts \cup {Genesis} /\ x.rowid \in Nat
    BY <1>2, <1>3
  <1>5. x \in Rows
    BY <1>2, <1>3, <1>4 DEF Link, Rows
  <1> QED  BY <1>1, <1>2, <1>3, <1>5

\* Linking a tenant's group to the head keeps the table's chains intact.
LEMMA ChainExtends ==
    ASSUME NEW todo \in Seq(Receipts), NEW t, NEW table \in SUBSET Rows, NEW base \in Nat,
           \A y \in table : y.rowid <= base,
           NEW prev \in Receipts \cup {Genesis}, prev = HeadOf(table, t),
           OneRowPerRowid(table), Verifies(table)
    PROVE  /\ OneRowPerRowid(table \cup Chained(todo, Group(todo, t), prev, base))
           /\ Verifies(table \cup Chained(todo, Group(todo, t), prev, base))
  <1> DEFINE group == Group(todo, t)
             L(i) == Link(todo, group, prev, base, i)
             G == Chained(todo, group, prev, base)
             T == table \cup G
  <1>1. /\ G = {L(i) : i \in group}
        /\ \A i \in group :
             /\ L(i) \in Rows /\ L(i).id = todo[i] /\ TenantOf[todo[i]] = t
             /\ i \in DOMAIN todo /\ i \in Nat /\ base < L(i).rowid
             /\ \A j \in group : j < i => L(j).rowid < L(i).rowid
    <2>1. G = {L(i) : i \in group}
      BY Zenon DEF Chained, Link
    <2>2. PICK P : P = group
      OBVIOUS
    <2>3. ASSUME NEW i \in P
          PROVE  /\ L(i) \in Rows /\ L(i).id = todo[i] /\ TenantOf[todo[i]] = t
                 /\ i \in DOMAIN todo /\ i \in Nat /\ base < L(i).rowid
      <3>1. PICK x : x = Link(todo, P, prev, base, i)
        OBVIOUS
      <3>2. /\ x \in Rows /\ x.id = todo[i] /\ TenantOf[todo[i]] = t
            /\ i \in DOMAIN todo /\ i \in Nat /\ base < x.rowid
        <4>1. P = Group(todo, t)
          BY <2>2
        <4>2. PICK p \in Receipts \cup {Genesis}, b \in Nat : p = prev /\ b = base
          OBVIOUS
        <4>3. x = Link(todo, P, p, b, i)
          BY <3>1, <4>2
        <4>4. /\ x \in Rows /\ x.id = todo[i] /\ TenantOf[todo[i]] = t
              /\ i \in DOMAIN todo /\ i \in Nat /\ b < x.rowid
          BY <4>1, <4>3, LinkIs
        <4> QED  BY <4>2, <4>4
      <3> QED  BY <2>2, <3>1, <3>2
    <2>4. ASSUME NEW i \in P, NEW j \in P, j < i  PROVE L(j).rowid < L(i).rowid
      <3>1. PICK m, n : m = Cardinality(Before(P, j)) /\ n = Cardinality(Before(P, i))
        OBVIOUS
      <3>2. m \in Nat /\ n \in Nat /\ m < n
        BY <2>2, <2>4, <3>1, GroupIs
      <3>3. L(j).rowid = base + m + 1 /\ L(i).rowid = base + n + 1
        BY <2>2, <3>1 DEF Link
      <3> QED  BY <3>2, <3>3
    <2> QED  BY <2>1, <2>2, <2>3, <2>4
  <1>2. \A i \in group : L(i).prev = IF Before(group, i) = {} THEN prev ELSE todo[Max(Before(group, i))]
    BY DEF Link
  <1>3. group \in SUBSET (1 .. Len(todo)) /\ Len(todo) \in Nat
    BY LenProperties DEF Group
  <1> HIDE DEF group, L, G
  <1>4. \A x \in table : \A y \in G : x.rowid < y.rowid
    BY <1>1 DEF Rows
  <1>5. T \subseteq Rows
    BY <1>1
  <1>6. OneRowPerRowid(T)
    <2> SUFFICES ASSUME NEW x \in T, NEW y \in T, x.rowid = y.rowid  PROVE x = y
      BY DEF OneRowPerRowid
    <2>0. x.rowid \in Nat /\ y.rowid \in Nat
      BY <1>5 DEF Rows
    <2>1. CASE x \in table /\ y \in table
      BY <2>1 DEF OneRowPerRowid
    <2>2. CASE (x \in table /\ y \in G) \/ (x \in G /\ y \in table)
      BY <1>4, <2>0, <2>2
    <2>3. CASE x \in G /\ y \in G
      <3>1. PICK i \in group, j \in group : x = L(i) /\ y = L(j)
        BY <1>1, <2>3
      <3>2. ~(i < j) /\ ~(j < i) /\ i \in Nat /\ j \in Nat
        BY <1>1, <2>0, <3>1
      <3>3. i = j
        BY <3>2
      <3> QED  BY <3>1, <3>3
    <2> QED  BY <2>1, <2>2, <2>3
  <1>7. ASSUME NEW x \in table
        PROVE  x.prev = HeadOf({y \in T : y.rowid < x.rowid}, TenantOf[x.id])
    <2>1. {y \in T : y.rowid < x.rowid} = {y \in table : y.rowid < x.rowid}
      <3>1. \A y \in G : ~(y.rowid < x.rowid)
        <4> TAKE y \in G
        <4>1. x.rowid < y.rowid /\ x.rowid \in Nat /\ y.rowid \in Nat
          BY <1>4, <1>5 DEF Rows
        <4> QED  BY <4>1
      <3> QED  BY <3>1
    <2> QED
      BY <2>1 DEF Verifies
  <1>8. ASSUME NEW i \in group
        PROVE  L(i).prev = HeadOf({y \in T : y.rowid < L(i).rowid}, TenantOf[L(i).id])
    <2> DEFINE below == {y \in T : y.rowid < L(i).rowid}
    <2>0. L(i) \in G /\ L(i).rowid \in Nat /\ TenantOf[L(i).id] = t
      BY <1>1 DEF Rows
    <2>1. table \subseteq below
      BY <1>4, <2>0
    <2>2. \A j \in group : (L(j) \in below <=> j < i)
      <3> TAKE j \in group
      <3>1. L(j) \in G /\ L(j).rowid \in Nat
        BY <1>1 DEF Rows
      <3>2. CASE j < i
        BY <1>1, <3>1, <3>2
      <3>3. CASE j = i
        <4>1. ~(j < i) /\ ~(L(j).rowid < L(i).rowid)
          BY <1>1, <2>0, <3>3
        <4> QED  BY <4>1
      <3>4. CASE i < j
        BY <1>1, <2>0, <3>1, <3>4
      <3> QED  BY <1>1, <3>2, <3>3, <3>4
    <2> HIDE DEF below
    <2>3. below \subseteq T
      BY DEF below
    <2>4. CASE Before(group, i) = {}
      <3>1. below \subseteq table
        BY <1>1, <2>2, <2>3, <2>4 DEF Before
      <3>2. below = table
        BY <2>1, <3>1
      <3> QED
        BY <1>2, <2>0, <2>4, <3>2 DEF below
    <2>5. CASE Before(group, i) # {}
      <3>1. PICK m \in group : /\ m = Max(Before(group, i)) /\ m < i
                               /\ \A j \in group : j < i => j <= m
        BY <1>3, <2>5, BeforeIs
      <3>2. L(m) \in below /\ L(m).id = todo[m] /\ TenantOf[L(m).id] = t /\ L(m).rowid \in Nat
        BY <1>1, <2>2, <3>1 DEF Rows
      <3>3. ASSUME NEW y \in below  PROVE y.rowid <= L(m).rowid
        <4>0. y.rowid \in Nat
          BY <1>5, <2>3 DEF Rows
        <4>1. CASE y \in table
          BY <1>1, <1>4, <3>2, <4>0, <4>1
        <4>2. CASE y \in G
          <5>1. PICK j \in group : y = L(j)
            BY <1>1, <4>2
          <5>2. j <= m /\ j \in Nat /\ m \in Nat
            BY <1>1, <2>2, <3>1, <5>1
          <5>3. CASE j = m
            BY <3>2, <5>1, <5>3
          <5>4. CASE j < m
            BY <1>1, <3>2, <4>0, <5>1, <5>4
          <5> QED  BY <5>2, <5>3, <5>4
        <4> QED  BY <2>3, <4>1, <4>2
      <3>4. below \subseteq Rows /\ OneRowPerRowid(below)
        BY <1>5, <1>6, <2>3 DEF OneRowPerRowid
      <3>5. HeadOf(below, TenantOf[L(m).id]) = L(m).id
        BY <3>2, <3>3, <3>4, HeadIs
      <3> QED
        BY <1>2, <2>0, <2>5, <3>1, <3>2, <3>5 DEF below
    <2> QED  BY <2>4, <2>5
  <1>9. Verifies(T)
    <2>1. ASSUME NEW x \in T
          PROVE  x.prev = HeadOf({y \in T : y.rowid < x.rowid}, TenantOf[x.id])
      BY <1>1, <1>7, <1>8, Zenon
    <2> QED  BY <2>1, Zenon DEF Verifies
  <1> QED
    BY <1>6, <1>9 DEF G, group

-----------------------------------------------------------------------------
(* Statements of a transaction: what they do to the database. *)

LEMMA TxOf ==
    ASSUME TypeOK, NEW c \in Connections
    PROVE  /\ tx[c] \in Transactions /\ tx[c].todo \in Seq(Receipts)
           /\ tx[c].at \in {"none", "begin", "head", "insert", "commit"}
           /\ tx[c].done \in SUBSET {TenantOf[r] : r \in Receipts}
           /\ tx[c].prev \in Receipts \cup {Genesis}
           /\ tx[c].new \in SUBSET Rows /\ Visible(c) \in SUBSET Rows
           /\ rows \in SUBSET Rows /\ serial \in Nat
           /\ \A x \in Visible(c) : x.rowid \in Nat /\ x.id \in Receipts
  <1>1. tx[c] \in Transactions /\ rows \in SUBSET Rows /\ serial \in Nat
    BY DEF TypeOK
  <1>2. /\ tx[c].todo \in Seq(Receipts)
        /\ tx[c].at \in {"none", "begin", "head", "insert", "commit"}
        /\ tx[c].done \in SUBSET {TenantOf[r] : r \in Receipts}
        /\ tx[c].prev \in Receipts \cup {Genesis}
        /\ tx[c].new \in SUBSET Rows
    BY <1>1 DEF Transactions
  <1>3. Visible(c) \in SUBSET Rows
    BY <1>1, <1>2 DEF Visible
  <1>4. \A x \in Visible(c) : x.rowid \in Nat /\ x.id \in Receipts
    BY <1>3 DEF Rows
  <1> QED
    BY <1>1, <1>2, <1>3, <1>4

\* Connection c moves to s and nobody commits.
LEMMA DatabaseMove ==
    ASSUME TypeOK, DatabaseInv, NEW c \in Connections, NEW s,
           tx' = [tx EXCEPT ![c] = s], rows' = rows, serial' \in Nat, serial <= serial',
           LockInv', TxOK(s),
           \A x \in rows \cup s.new : x.rowid <= serial',
           Locking => ChainOn(rows \cup s.new, s)
    PROVE  DatabaseInv'
  <1>1. tx'[c] = s /\ \A d \in Connections : d # c => tx'[d] = tx[d]
    BY DEF TypeOK
  <1>2. Visible(c)' = rows \cup s.new /\ \A d \in Connections : d # c => Visible(d)' = Visible(d)
    BY <1>1 DEF Visible
  <1>3. TxInv'
    BY <1>1 DEF DatabaseInv, TxInv
  <1>4. RowidInv'
    <2> SUFFICES ASSUME NEW d \in Connections, NEW x \in Visible(d)'  PROVE x.rowid <= serial'
      BY DEF RowidInv
    <2>1. CASE d = c
      BY <1>2, <2>1
    <2>2. CASE d # c
      <3>1. x \in Visible(d)
        BY <1>2, <2>2
      <3>2. x.rowid <= serial /\ x.rowid \in Nat /\ serial \in Nat
        BY <3>1, TxOf DEF DatabaseInv, RowidInv
      <3> QED  BY <3>2
    <2> QED  BY <2>1, <2>2
  <1>5. ChainInv'
    <2>1. Locking => ChainVerifies'
      BY DEF DatabaseInv, ChainInv, ChainVerifies
    <2> SUFFICES ASSUME Locking, NEW d \in Connections  PROVE ChainOn(Visible(d)', tx'[d])
      BY <2>1 DEF ChainInv
    <2> QED
      BY <1>1, <1>2 DEF DatabaseInv, ChainInv
  <1> QED
    BY <1>3, <1>4, <1>5 DEF DatabaseInv

\* A connection that has nothing open is asked to append todo.
LEMMA AskStep ==
    ASSUME TypeOK, DatabaseInv, NEW c \in Connections, NEW todo \in Seq(Receipts),
           tx[c].at = "none", todo # <<>>, OneToOne(todo), Ask(c, todo),
           rows' = rows, serial' = serial, lock' = lock
    PROVE  /\ DatabaseInv' /\ tx' \in [Connections -> Transactions]
           /\ tx'[c].at = "begin" /\ tx'[c].todo = todo
           /\ \A d \in Connections : d # c => tx'[d] = tx[d]
  <1>1. PICK s : /\ s = [NoTx EXCEPT !.at = "begin", !.todo = todo]
                 /\ tx' = [tx EXCEPT ![c] = s]
    BY DEF Ask
  <1>2. /\ s.at = "begin" /\ s.todo = todo /\ s.done = {} /\ s.prev = Genesis /\ s.new = {}
        /\ s \in Transactions
    BY <1>1 DEF NoTx, Transactions
  <1>3. TxOK(s)
    BY <1>2 DEF TxOK
  <1>4. tx'[c] = s /\ \A d \in Connections : d # c => tx'[d] = tx[d]
    BY <1>1 DEF TypeOK
  <1>5. LockInv'
    BY <1>2, <1>4 DEF DatabaseInv, LockInv, Holding
  <1>6. /\ tx[c].new = {} /\ rows \cup s.new = Visible(c)
    BY <1>2 DEF DatabaseInv, TxInv, TxOK, Visible
  <1>7. \A x \in rows \cup s.new : x.rowid <= serial'
    BY <1>6 DEF DatabaseInv, RowidInv
  <1>8. Locking => ChainOn(rows \cup s.new, s)
    BY <1>2, <1>6 DEF DatabaseInv, ChainInv, ChainOn
  <1>9. serial' \in Nat /\ serial <= serial'
    BY TxOf
  <1>10. DatabaseInv'
    BY <1>1, <1>3, <1>5, <1>7, <1>8, <1>9, DatabaseMove
  <1>11. tx' \in [Connections -> Transactions]
    BY <1>1, <1>2 DEF TypeOK
  <1> QED
    BY <1>2, <1>4, <1>10, <1>11

\* c goes on with its transaction.
GoesOn(c) ==
    /\ tx' \in [Connections -> Transactions] /\ serial' \in Nat
    /\ tx[c].at # "none" /\ tx'[c].at # "none" /\ tx'[c].todo = tx[c].todo
    /\ \A d \in Connections : d # c => tx'[d] = tx[d]

LEMMA NextStatement ==
    ASSUME TypeOK, DatabaseInv, NEW c \in Connections, NEW s \in Transactions,
           tx' = [tx EXCEPT ![c] = s], rows' = rows, serial' \in Nat, serial <= serial',
           tx[c].at # "none", s.at # "none", s.todo = tx[c].todo,
           LockInv', TxOK(s),
           \A x \in rows \cup s.new : x.rowid <= serial',
           Locking => ChainOn(rows \cup s.new, s)
    PROVE  DatabaseInv' /\ GoesOn(c)
  <1>1. DatabaseInv'
    BY DatabaseMove
  <1>2. tx'[c] = s /\ \A d \in Connections : d # c => tx'[d] = tx[d]
    BY DEF TypeOK
  <1>3. tx' \in [Connections -> Transactions]
    BY DEF TypeOK
  <1> QED
    BY <1>1, <1>2, <1>3 DEF GoesOn

LEMMA BeginStep ==
    ASSUME TypeOK, DatabaseInv, NEW c \in Connections, Begin(c)
    PROVE  DatabaseInv' /\ GoesOn(c)
  <1>1. PICK s : s = [tx[c] EXCEPT !.at = "head"]
    OBVIOUS
  <1>2. /\ tx' = [tx EXCEPT ![c] = s] /\ rows' = rows /\ serial' = serial /\ tx[c].at = "begin"
    BY <1>1 DEF Begin
  <1>3. /\ s.at = "head" /\ s.todo = tx[c].todo /\ s.done = tx[c].done /\ s.new = tx[c].new
        /\ s \in Transactions
    BY <1>1, TxOf DEF Transactions
  <1>4. s.new = {} /\ s.done = {} /\ s.todo # <<>> /\ OneToOne(s.todo) /\ s.todo \in Seq(Receipts)
    BY <1>2, <1>3, TxOf DEF DatabaseInv, TxInv, TxOK
  <1>5. ~(Tenants(s.todo) \subseteq s.done)
    <2>1. 1 \in DOMAIN s.todo
      BY <1>4, LenProperties, EmptySeq
    <2> QED
      BY <1>4, <2>1 DEF Tenants
  <1>6. TxOK(s)
    BY <1>3, <1>4, <1>5 DEF TxOK
  <1>7. LockInv'
    <2>1. tx'[c] = s /\ \A d \in Connections : d # c => tx'[d] = tx[d]
      BY <1>2 DEF TypeOK
    <2>2. Locking => lock = Nobody /\ lock' = c
      BY DEF Begin
    <2>3. \A d \in Connections : d # Nobody
      BY NamesAssumption DEF Connections
    <2> QED
      BY <1>3, <2>1, <2>2, <2>3 DEF DatabaseInv, LockInv, Holding
  <1>8. rows \cup s.new = Visible(c)
    BY <1>3 DEF Visible
  <1>9. \A x \in rows \cup s.new : x.rowid <= serial'
    BY <1>2, <1>8 DEF DatabaseInv, RowidInv
  <1>10. Locking => ChainOn(rows \cup s.new, s)
    BY <1>3, <1>8 DEF DatabaseInv, ChainInv, ChainOn
  <1>11. serial' \in Nat /\ serial <= serial' /\ s.at # "none" /\ tx[c].at # "none"
    BY <1>2, <1>3, TxOf
  <1> QED
    BY <1>2, <1>3, <1>6, <1>7, <1>9, <1>10, <1>11, NextStatement

LEMMA ReadHeadStep ==
    ASSUME TypeOK, DatabaseInv, NEW c \in Connections, ReadHead(c)
    PROVE  DatabaseInv' /\ GoesOn(c)
  <1>1. PICK h : h = HeadOf(Visible(c), NextTenant(tx[c].todo, tx[c].done))
    OBVIOUS
  <1>2. PICK s : s = [tx[c] EXCEPT !.at = "insert", !.prev = h]
    OBVIOUS
  <1>3. /\ tx' = [tx EXCEPT ![c] = s] /\ rows' = rows /\ serial' = serial /\ lock' = lock
        /\ tx[c].at = "head"
    BY <1>1, <1>2 DEF ReadHead
  <1>4. h \in Receipts \cup {Genesis}
    <2>1. \A x \in Visible(c) : x.rowid <= serial
      BY DEF DatabaseInv, RowidInv
    <2> QED
      BY <1>1, <2>1, TxOf, HeadTyped
  <1>5. /\ s.at = "insert" /\ s.todo = tx[c].todo /\ s.done = tx[c].done /\ s.new = tx[c].new
        /\ s.prev = h /\ s \in Transactions
    BY <1>2, <1>4, TxOf DEF Transactions
  <1>6. TxOK(s)
    <2>1. TxOK(tx[c])
      BY DEF DatabaseInv, TxInv
    <2> QED
      BY <1>3, <1>5, <2>1 DEF TxOK
  <1>7. LockInv'
    <2>1. tx'[c] = s /\ \A d \in Connections : d # c => tx'[d] = tx[d]
      BY <1>3 DEF TypeOK
    <2> QED
      BY <1>3, <1>5, <2>1 DEF DatabaseInv, LockInv, Holding
  <1>8. rows \cup s.new = Visible(c)
    BY <1>5 DEF Visible
  <1>9. \A x \in rows \cup s.new : x.rowid <= serial'
    BY <1>3, <1>8 DEF DatabaseInv, RowidInv
  <1>10. Locking => ChainOn(rows \cup s.new, s)
    BY <1>1, <1>5, <1>8 DEF DatabaseInv, ChainInv, ChainOn
  <1>11. serial' \in Nat /\ serial <= serial' /\ s.at # "none" /\ tx[c].at # "none"
    BY <1>3, <1>5, TxOf
  <1> QED
    BY <1>3, <1>5, <1>6, <1>7, <1>9, <1>10, <1>11, NextStatement

LEMMA InsertStep ==
    ASSUME TypeOK, DatabaseInv, NEW c \in Connections, Insert(c)
    PROVE  DatabaseInv' /\ GoesOn(c)
  <1>1. PICK todo, done, t, G :
           /\ todo = tx[c].todo /\ t = NextTenant(todo, tx[c].done)
           /\ done = tx[c].done \cup {t}
           /\ G = Chained(todo, Group(todo, t), tx[c].prev, serial)
    OBVIOUS
  <1>2. PICK s : s = [tx[c] EXCEPT !.at = IF Tenants(todo) \subseteq done THEN "commit" ELSE "head",
                                   !.done = done, !.new = tx[c].new \cup G]
    OBVIOUS
  <1>3. /\ tx' = [tx EXCEPT ![c] = s] /\ rows' = rows /\ lock' = lock
        /\ serial' = serial + Cardinality(Group(todo, t)) /\ tx[c].at = "insert"
    BY <1>1, <1>2 DEF Insert
  <1>4. TxOK(tx[c]) /\ tx[c].at = "insert"
    BY <1>3 DEF DatabaseInv, TxInv
  <1>5. t \in Tenants(todo) \ tx[c].done /\ t \in {TenantOf[r] : r \in Receipts}
    BY <1>1, <1>4, TxOf, NextTenantIs DEF TxOK
  <1>6. PICK L : /\ DOMAIN L = Group(todo, t)
                 /\ G = {L[i] : i \in Group(todo, t)}
                 /\ \A i \in Group(todo, t) :
                      /\ L[i] \in Rows /\ L[i].id = todo[i] /\ TenantOf[todo[i]] = t
                      /\ i \in DOMAIN todo /\ L[i].rowid <= serial'
    <2> DEFINE L == [i \in Group(todo, t) |-> Link(todo, Group(todo, t), tx[c].prev, serial, i)]
    <2>1. todo \in Seq(Receipts) /\ tx[c].prev \in Receipts \cup {Genesis} /\ serial \in Nat
      BY <1>1, TxOf
    <2>2. \A i \in Group(todo, t) : L[i] = Link(todo, Group(todo, t), tx[c].prev, serial, i)
      OBVIOUS
    <2>3. DOMAIN L = Group(todo, t)
      OBVIOUS
    <2> HIDE DEF L
    <2>4. G = {L[i] : i \in Group(todo, t)}
      <3>1. G = {Link(todo, Group(todo, t), tx[c].prev, serial, i) : i \in Group(todo, t)}
        BY <1>1, Zenon DEF Chained, Link
      <3> QED  BY <2>2, <3>1
    <2>5. \A i \in Group(todo, t) :
             /\ L[i] \in Rows /\ L[i].id = todo[i] /\ TenantOf[todo[i]] = t
             /\ i \in DOMAIN todo /\ L[i].rowid <= serial'
      <3>1. PICK P, p, n : P = Group(todo, t) /\ p = tx[c].prev /\ n = serial
        OBVIOUS
      <3>2. p \in Receipts \cup {Genesis} /\ n \in Nat /\ serial' = n + Cardinality(P)
        BY <1>3, <2>1, <3>1
      <3>3. ASSUME NEW i \in P
            PROVE  /\ L[i] \in Rows /\ L[i].id = todo[i] /\ TenantOf[todo[i]] = t
                   /\ i \in DOMAIN todo /\ L[i].rowid <= serial'
        <4>1. PICK x : x = Link(todo, P, p, n, i)
          OBVIOUS
        <4>2. /\ x \in Rows /\ x.id = todo[i] /\ TenantOf[todo[i]] = t
              /\ i \in DOMAIN todo /\ x.rowid <= n + Cardinality(P)
          BY <2>1, <3>1, <3>2, <4>1, LinkIs
        <4>3. L[i] = x
          BY <2>2, <3>1, <4>1
        <4> QED  BY <3>2, <4>2, <4>3
      <3> QED  BY <3>1, <3>3
    <2> QED
      BY <2>3, <2>4, <2>5
  <1>7. Cardinality(Group(todo, t)) \in Nat
    BY <1>1, TxOf, GroupIs
  <1>8. serial' \in Nat /\ serial <= serial'
    BY <1>3, <1>7, TxOf
  <1>9. /\ s.at = (IF Tenants(todo) \subseteq done THEN "commit" ELSE "head")
        /\ s.todo = todo /\ s.done = done /\ s.new = tx[c].new \cup G
    BY <1>1, <1>2, TxOf DEF Transactions
  <1>10. s \in Transactions
    <2>1. done \in SUBSET {TenantOf[r] : r \in Receipts} /\ tx[c].new \cup G \in SUBSET Rows
      BY <1>1, <1>5, <1>6, TxOf
    <2>2. (IF Tenants(todo) \subseteq done THEN "commit" ELSE "head")
             \in {"none", "begin", "head", "insert", "commit"}
      OBVIOUS
    <2> QED
      BY <1>2, <2>1, <2>2, TxOf DEF Transactions
  <1>11. TxOK(s)
    <2>1. \A x \in s.new : x.id \in Range(s.todo) /\ TenantOf[x.id] \in s.done
      <3> TAKE x \in s.new
      <3>1. CASE x \in tx[c].new
        BY <1>1, <1>4, <1>9, <3>1 DEF TxOK
      <3>2. CASE x \in G
        BY <1>1, <1>6, <1>9, <3>2 DEF Range
      <3> QED  BY <1>9, <3>1, <3>2
    <2>2. \A x, y \in s.new : x.id = y.id => x = y
      <3> SUFFICES ASSUME NEW x \in s.new, NEW y \in s.new, x.id = y.id  PROVE x = y
        OBVIOUS
      <3>1. CASE x \in tx[c].new /\ y \in tx[c].new
        BY <1>4, <3>1 DEF TxOK
      <3>2. \A u \in tx[c].new : \A v \in G : u.id # v.id
        <4> SUFFICES ASSUME NEW u \in tx[c].new, NEW v \in G, u.id = v.id  PROVE FALSE
          OBVIOUS
        <4>1. TenantOf[v.id] = t
          BY <1>6
        <4>2. TenantOf[u.id] \in tx[c].done
          BY <1>4 DEF TxOK
        <4> QED  BY <1>5, <4>1, <4>2
      <3>3. CASE x \in G /\ y \in G
        <4>1. PICK i \in Group(todo, t), j \in Group(todo, t) : x = L[i] /\ y = L[j]
          BY <1>6, <3>3
        <4>2. todo[i] = todo[j] /\ i \in DOMAIN todo /\ j \in DOMAIN todo
          BY <1>6, <4>1
        <4>3. i = j
          BY <1>1, <1>4, <4>2 DEF TxOK, OneToOne
        <4> QED  BY <4>1, <4>3
      <3> QED  BY <1>9, <3>1, <3>2, <3>3
    <2>3. \A i \in DOMAIN s.todo : TenantOf[s.todo[i]] \in s.done => s.todo[i] \in Ids(s.new)
      <3> SUFFICES ASSUME NEW i \in DOMAIN todo, TenantOf[todo[i]] \in done
                   PROVE  todo[i] \in Ids(s.new)
        BY <1>9
      <3>1. CASE TenantOf[todo[i]] \in tx[c].done
        <4>1. todo[i] \in Ids(tx[c].new)
          BY <1>1, <1>4, <3>1 DEF TxOK
        <4> QED  BY <1>9, <4>1 DEF Ids
      <3>2. CASE TenantOf[todo[i]] = t
        <4>1. i \in Group(todo, t)
          BY <3>2 DEF Group
        <4>2. L[i] \in G /\ L[i].id = todo[i]
          BY <1>6, <4>1
        <4> QED  BY <1>9, <4>2 DEF Ids
      <3> QED  BY <1>1, <3>1, <3>2
    <2>4. s.todo # <<>> /\ OneToOne(s.todo)
      BY <1>1, <1>4, <1>9 DEF TxOK
    <2> QED
      BY <1>9, <2>1, <2>2, <2>3, <2>4 DEF TxOK
  <1>12. LockInv'
    <2>1. tx'[c] = s /\ \A d \in Connections : d # c => tx'[d] = tx[d]
      BY <1>3 DEF TypeOK
    <2>2. s.at \in {"head", "commit"}
      BY <1>9
    <2> QED
      BY <1>3, <2>1, <2>2 DEF DatabaseInv, LockInv, Holding
  <1>13. rows \cup s.new = Visible(c) \cup G
    BY <1>9 DEF Visible
  <1>14. \A x \in rows \cup s.new : x.rowid <= serial'
    <2> TAKE x \in rows \cup s.new
    <2>1. CASE x \in Visible(c)
      <3>1. x.rowid <= serial /\ x.rowid \in Nat /\ serial \in Nat
        BY <2>1, TxOf DEF DatabaseInv, RowidInv
      <3> QED  BY <1>8, <3>1
    <2>2. CASE x \in G
      BY <1>6, <2>2
    <2> QED  BY <1>13, <2>1, <2>2
  <1>15. Locking => ChainOn(rows \cup s.new, s)
    <2> SUFFICES ASSUME Locking  PROVE ChainOn(rows \cup s.new, s)
      OBVIOUS
    <2>1. ChainOn(Visible(c), tx[c])
      BY DEF DatabaseInv, ChainInv
    <2>2. \A x \in Visible(c) : x.rowid <= serial
      BY DEF DatabaseInv, RowidInv
    <2>3. OneRowPerRowid(Visible(c) \cup G) /\ Verifies(Visible(c) \cup G)
      <3>1. tx[c].prev = HeadOf(Visible(c), t)
        BY <1>1, <1>4, <2>1 DEF ChainOn
      <3>2. OneRowPerRowid(Visible(c)) /\ Verifies(Visible(c))
        BY <2>1 DEF ChainOn
      <3>3. /\ todo \in Seq(Receipts) /\ tx[c].prev \in Receipts \cup {Genesis} /\ serial \in Nat
            /\ Visible(c) \in SUBSET Rows
        BY <1>1, TxOf
      <3> QED
        BY <1>1, <2>2, <3>1, <3>2, <3>3, ChainExtends
    <2> QED
      BY <1>9, <1>13, <2>3 DEF ChainOn
  <1>16. s.at # "none" /\ tx[c].at # "none" /\ s.todo = tx[c].todo
    BY <1>1, <1>3, <1>9
  <1> QED
    BY <1>3, <1>8, <1>10, <1>11, <1>12, <1>14, <1>15, <1>16, NextStatement

-----------------------------------------------------------------------------
(* The end of a transaction. *)

\* c has nothing open any more.
Over(c) ==
    /\ tx' \in [Connections -> Transactions]
    /\ tx'[c] = NoTx /\ \A d \in Connections : d # c => tx'[d] = tx[d]

LEMMA NoTxIs == /\ NoTx \in Transactions /\ TxOK(NoTx) /\ NoTx.at = "none" /\ NoTx.new = {}
  <1>1. /\ NoTx.at = "none" /\ NoTx.todo = <<>> /\ NoTx.done = {} /\ NoTx.prev = Genesis
        /\ NoTx.new = {} /\ NoTx \in Transactions
    BY DEF NoTx, Transactions
  <1> QED
    BY <1>1 DEF TxOK

LEMMA ReleaseStep ==
    ASSUME TypeOK, DatabaseInv, NEW c \in Connections, Release(c)
    PROVE  Over(c) /\ TxInv' /\ LockInv' /\ lock' \in Connections \cup {Nobody}
  <1>1. tx' = [tx EXCEPT ![c] = NoTx]
    BY DEF Release
  <1>2. Over(c)
    BY <1>1, NoTxIs DEF Over, TypeOK
  <1>3. TxInv'
    BY <1>2, NoTxIs DEF Over, DatabaseInv, TxInv
  <1>4. LockInv'
    <2> SUFFICES ASSUME Locking, NEW d \in Connections  PROVE Holding(d)' <=> lock' = d
      BY DEF LockInv
    <2>1. \A e \in Connections : Holding(e) <=> lock = e
      BY DEF DatabaseInv, LockInv
    <2>2. d # Nobody /\ c # Nobody
      BY NamesAssumption DEF Connections
    <2>3. lock' = IF lock = c THEN Nobody ELSE lock
      BY DEF Release
    <2>4. CASE d = c
      BY <1>2, <2>2, <2>3, <2>4, NoTxIs DEF Over, Holding
    <2>5. CASE d # c
      BY <1>2, <2>1, <2>2, <2>3, <2>5 DEF Over, Holding
    <2> QED  BY <2>4, <2>5
  <1>5. lock' \in Connections \cup {Nobody}
    BY DEF Release, TypeOK
  <1> QED
    BY <1>2, <1>3, <1>4, <1>5

\* On SQLite only the holder of the lock has rows of its own.
LEMMA HolderOnly ==
    ASSUME TypeOK, DatabaseInv, Locking, NEW c \in Connections, Holding(c),
           NEW d \in Connections, d # c
    PROVE  tx[d].new = {} /\ tx[d].at \in {"none", "begin"}
  <1>1. ~Holding(d)
    BY DEF DatabaseInv, LockInv
  <1>2. tx[d].at \in {"none", "begin"}
    BY <1>1, TxOf DEF Holding
  <1> QED
    BY <1>2 DEF DatabaseInv, TxInv, TxOK

LEMMA NewIsHolders ==
    ASSUME TypeOK, DatabaseInv, NEW c \in Connections, tx[c].new # {}
    PROVE  Holding(c)
  BY TxOf DEF DatabaseInv, TxInv, TxOK, Holding

LEMMA CommitStep ==
    ASSUME TypeOK, DatabaseInv, NEW c \in Connections, Commit(c)
    PROVE  DatabaseInv' /\ Over(c) /\ rows' = Visible(c) /\ rows' \subseteq Rows /\ serial' = serial
  <1>1. tx[c].at = "commit" /\ Release(c) /\ rows' = Visible(c) /\ serial' = serial
    BY DEF Commit, Visible
  <1>2. Over(c) /\ TxInv' /\ LockInv'
    BY <1>1, ReleaseStep
  <1>3. RowidInv'
    <2> SUFFICES ASSUME NEW d \in Connections, NEW x \in Visible(d)'  PROVE x.rowid <= serial'
      BY DEF RowidInv
    <2>1. x \in Visible(c) \/ x \in Visible(d)
      <3>1. CASE d = c
        BY <1>1, <1>2, <3>1, NoTxIs DEF Over, Visible
      <3>2. CASE d # c
        BY <1>1, <1>2, <3>2 DEF Over, Visible
      <3> QED  BY <3>1, <3>2
    <2> QED
      BY <1>1, <2>1 DEF DatabaseInv, RowidInv
  <1>4. ChainInv'
    <2> SUFFICES ASSUME Locking
                 PROVE  ChainVerifies' /\ \A d \in Connections : ChainOn(Visible(d)', tx'[d])
      BY DEF ChainInv
    <2>1. ChainOn(Visible(c), tx[c])
      BY DEF DatabaseInv, ChainInv
    <2>2. ChainVerifies'
      BY <1>1, <2>1 DEF ChainOn, Verifies, ChainVerifies
    <2>3. ASSUME NEW d \in Connections  PROVE ChainOn(Visible(d)', tx'[d])
      <3>1. tx'[d].new = {} /\ tx'[d].at # "insert"
        <4>1. CASE d = c
          BY <1>2, <4>1, NoTxIs DEF Over
        <4>2. CASE d # c
          <5>1. Holding(c)
            BY <1>1 DEF Holding
          <5> QED  BY <1>2, <4>2, <5>1, HolderOnly DEF Over
        <4> QED  BY <4>1, <4>2
      <3>2. Visible(d)' = Visible(c)
        BY <1>1, <3>1 DEF Visible
      <3> QED
        BY <2>1, <3>1, <3>2 DEF ChainOn
    <2> QED  BY <2>2, <2>3
  <1> QED
    BY <1>1, <1>2, <1>3, <1>4, TxOf DEF DatabaseInv

\* After a rollback the next rowid is still above every committed one.
LEMMA RollbackIs ==
    ASSUME TypeOK, DatabaseInv, RollbackSerial
    PROVE  serial' \in Nat /\ \A x \in rows : x.rowid <= serial'
  <1>1. \A x \in rows : x.rowid <= serial /\ x.rowid \in Nat /\ serial \in Nat
    <2>1. Writer \in Connections /\ rows \subseteq Visible(Writer)
      BY DEF Connections, Visible
    <2> QED
      BY <2>1, TxOf DEF DatabaseInv, RowidInv
  <1>2. CASE ~Locking
    BY <1>1, <1>2 DEF RollbackSerial, TypeOK
  <1>3. CASE Locking
    <2> DEFINE ids == {0} \cup {x.rowid : x \in rows}
    <2>1. ids \subseteq Nat /\ ids # {} /\ serial \in Nat /\ \A y \in ids : y <= serial
      BY <1>1 DEF TypeOK
    <2>2. Max(ids) \in ids /\ \A y \in ids : y <= Max(ids)
      BY <2>1, MaxOf
    <2>3. serial' = Max(ids)
      BY <1>3 DEF RollbackSerial
    <2>4. \A x \in rows : x.rowid \in ids
      OBVIOUS
    <2> HIDE DEF ids
    <2> QED
      BY <2>1, <2>2, <2>3, <2>4
  <1> QED  BY <1>2, <1>3

LEMMA RowsChain ==
    ASSUME TypeOK, DatabaseInv, Locking
    PROVE  OneRowPerRowid(rows) /\ Verifies(rows)
  <1>1. Writer \in Connections /\ rows \subseteq Visible(Writer)
    BY DEF Connections, Visible
  <1>2. OneRowPerRowid(rows)
    BY <1>1 DEF DatabaseInv, ChainInv, ChainOn, OneRowPerRowid
  <1>3. Verifies(rows)
    BY DEF DatabaseInv, ChainInv, ChainVerifies, Verifies
  <1> QED  BY <1>2, <1>3

LEMMA AbortStep ==
    ASSUME TypeOK, DatabaseInv, NEW c \in Connections, Abort(c)
    PROVE  DatabaseInv' /\ Over(c) /\ rows' = rows /\ serial' \in Nat
  <1>1. /\ Release(c) /\ rows' = rows
        /\ (serial' = serial \/ (tx[c].new # {} /\ RollbackSerial))
    BY DEF Abort
  <1>2. Over(c) /\ TxInv' /\ LockInv'
    BY <1>1, ReleaseStep
  <1>3. serial' \in Nat /\ RowidInv'
    <2>1. \A d \in Connections : Visible(d)' \subseteq Visible(d)
      <3> TAKE d \in Connections
      <3>1. CASE d = c
        BY <1>1, <1>2, <3>1, NoTxIs DEF Over, Visible
      <3>2. CASE d # c
        BY <1>1, <1>2, <3>2 DEF Over, Visible
      <3> QED  BY <3>1, <3>2
    <2>2. CASE serial' = serial
      BY <2>1, <2>2, TxOf DEF DatabaseInv, RowidInv
    <2>3. CASE tx[c].new # {} /\ RollbackSerial /\ ~Locking
      <3>1. serial' = serial
        BY <2>3 DEF RollbackSerial
      <3> QED  BY <2>2, <3>1
    <2>4. CASE tx[c].new # {} /\ RollbackSerial /\ Locking
      <3>1. \A d \in Connections : Visible(d)' = rows
        <4> TAKE d \in Connections
        <4>1. CASE d = c
          BY <1>1, <1>2, <4>1, NoTxIs DEF Over, Visible
        <4>2. CASE d # c
          <5>1. tx[d].new = {}
            BY <2>4, <4>2, NewIsHolders, HolderOnly
          <5> QED  BY <1>1, <1>2, <4>2, <5>1 DEF Over, Visible
        <4> QED  BY <4>1, <4>2
      <3> QED
        BY <2>4, <3>1, RollbackIs DEF RowidInv
    <2> QED  BY <1>1, <2>2, <2>3, <2>4
  <1>4. ChainInv'
    <2> SUFFICES ASSUME Locking
                 PROVE  ChainVerifies' /\ \A d \in Connections : ChainOn(Visible(d)', tx'[d])
      BY DEF ChainInv
    <2>1. ChainVerifies'
      BY <1>1 DEF DatabaseInv, ChainInv, ChainVerifies
    <2>2. ASSUME NEW d \in Connections  PROVE ChainOn(Visible(d)', tx'[d])
      <3>1. CASE d = c
        <4>1. Visible(d)' = rows /\ tx'[d].at # "insert"
          BY <1>1, <1>2, <3>1, NoTxIs DEF Over, Visible
        <4> QED  BY <4>1, RowsChain DEF ChainOn
      <3>2. CASE d # c
        <4>1. Visible(d)' = Visible(d) /\ tx'[d] = tx[d]
          BY <1>1, <1>2, <3>2 DEF Over, Visible
        <4> QED  BY <4>1 DEF DatabaseInv, ChainInv
      <3> QED  BY <3>1, <3>2
    <2> QED  BY <2>1, <2>2
  <1> QED
    BY <1>1, <1>2, <1>3, <1>4 DEF DatabaseInv

LEMMA CrashStep ==
    ASSUME TypeOK, DatabaseInv, Crash
    PROVE  DatabaseInv' /\ tx' \in [Connections -> Transactions] /\ serial' \in Nat
  <1>1. /\ \A d \in Connections : tx'[d] = NoTx
        /\ tx' \in [Connections -> Transactions]
        /\ lock' = Nobody /\ RollbackSerial /\ rows' = rows
    BY NoTxIs DEF Crash
  <1>2. serial' \in Nat /\ \A x \in rows : x.rowid <= serial'
    BY <1>1, RollbackIs
  <1>3. \A d \in Connections : Visible(d)' = rows /\ ~Holding(d)' /\ d # Nobody
    BY <1>1, NoTxIs, NamesAssumption DEF Visible, Holding, Connections
  <1>4. LockInv' /\ TxInv' /\ RowidInv'
    BY <1>1, <1>2, <1>3, NoTxIs DEF LockInv, TxInv, RowidInv
  <1>5. ChainInv'
    <2> SUFFICES ASSUME Locking
                 PROVE  ChainVerifies' /\ \A d \in Connections : ChainOn(Visible(d)', tx'[d])
      BY DEF ChainInv
    <2>1. ChainVerifies'
      BY <1>1 DEF DatabaseInv, ChainInv, ChainVerifies
    <2>2. \A d \in Connections : ChainOn(Visible(d)', tx'[d])
      BY <1>1, <1>3, NoTxIs, RowsChain DEF ChainOn
    <2> QED  BY <2>1, <2>2
  <1> QED
    BY <1>1, <1>2, <1>4, <1>5 DEF DatabaseInv

-----------------------------------------------------------------------------
(* The receipts: where each one is. *)

LEMMA TaskOf ==
    ASSUME TypeOK
    PROVE  /\ queue \in Seq(Deferred) /\ buf \in Seq(Deferred) /\ left \in Seq(Deferred)
           /\ queue \in Seq(Receipts) /\ buf \in Seq(Receipts) /\ left \in Seq(Receipts)
           /\ Range(queue) \subseteq Deferred /\ Range(buf) \subseteq Deferred
           /\ Range(left) \subseteq Deferred
           /\ logged \subseteq Deferred /\ Deferred \subseteq Receipts
           /\ mode \in {"receive", "batch", "single", "stopped"}
           /\ Writer \in Connections /\ \A r \in Receipts : r \in Connections /\ r # Writer
           /\ Len(buf) \in Nat /\ BatchSize \in Nat \ {0} /\ Len(buf) <= BatchSize
  <1>1. queue \in Seq(Deferred) /\ buf \in Seq(Deferred) /\ left \in Seq(Deferred)
    BY DEF TypeOK
  <1>2. Deferred \subseteq Receipts /\ BatchSize \in Nat \ {0}
    BY SinkAssumption
  <1>3. queue \in Seq(Receipts) /\ buf \in Seq(Receipts) /\ left \in Seq(Receipts)
    BY <1>1, <1>2
  <1>4. Range(queue) \subseteq Deferred /\ Range(buf) \subseteq Deferred /\ Range(left) \subseteq Deferred
    BY <1>1, RangeOfSeq
  <1>5. Writer \in Connections /\ \A r \in Receipts : r \in Connections /\ r # Writer
    BY NamesAssumption DEF Connections
  <1> QED
    BY <1>1, <1>2, <1>3, <1>4, <1>5 DEF TypeOK

\* A statement in the middle of a transaction moves no receipt.
LEMMA GoingOn ==
    ASSUME IndInv, NEW c \in Connections, GoesOn(c),
           UNCHANGED <<rows, caller, channel, task, crashes>>, lock' \in Connections \cup {Nobody}
    PROVE  TypeOK' /\ DeliveryInv'
  <1>1. /\ rows' = rows /\ caller' = caller /\ queue' = queue /\ open' = open
        /\ buf' = buf /\ left' = left /\ mode' = mode /\ logged' = logged /\ crashes' = crashes
    BY DEF channel, task
  <1>2. \A d \in Connections : (tx'[d].at = "none" <=> tx[d].at = "none") /\ tx'[d].todo = tx[d].todo
    BY DEF GoesOn
  <1>3. TypeOK'
    BY <1>1 DEF IndInv, TypeOK, GoesOn
  <1>4. WriterInv'
    <2>1. Writer \in Connections
      BY DEF Connections
    <2> QED
      BY <1>1, <1>2, <2>1 DEF IndInv, DeliveryInv, WriterInv
  <1>5. PlaceInv'
    <2>1. \A r \in Receipts : tx'[r].at # "none" => caller'[r] = "appending" /\ tx'[r].todo = <<r>>
      BY <1>1, <1>2 DEF IndInv, DeliveryInv, PlaceInv, Connections
    <2> QED
      BY <1>1, <2>1 DEF IndInv, DeliveryInv, PlaceInv
  <1>6. OnceInChain' /\ FallbackInv' /\ NeverSilentlyDropped'
    BY <1>1 DEF IndInv, DeliveryInv, OnceInChain, FallbackInv, NeverSilentlyDropped
  <1> QED
    BY <1>3, <1>4, <1>5, <1>6 DEF DeliveryInv

\* What a transaction is to append is not in the chain.
LEMMA TodoWaits ==
    ASSUME IndInv, NEW c \in Connections, tx[c].at # "none"
    PROVE  /\ Range(tx[c].todo) \cap Ids(rows) = {}
           /\ c \in Receipts => /\ tx[c].todo = <<c>> /\ Range(tx[c].todo) = {c}
                                /\ caller[c] = "appending"
           /\ c = Writer => mode \in {"batch", "single"}
  <1>1. CASE c \in Receipts
    <2>1. tx[c].todo = <<c>> /\ caller[c] = "appending" /\ c \notin Ids(rows)
      BY <1>1 DEF IndInv, DeliveryInv, PlaceInv
    <2>2. Range(<<c>>) = {c}
      BY OneReceipt
    <2>3. c # Writer
      BY <1>1, NamesAssumption
    <2> QED  BY <2>1, <2>2, <2>3
  <1>2. CASE c = Writer
    <2>0. mode \in {"batch", "single"} /\ c \notin Receipts
      BY <1>2, TaskOf, NamesAssumption DEF IndInv, DeliveryInv, WriterInv
    <2>1. CASE mode = "batch"
      BY <1>2, <2>0, <2>1 DEF IndInv, DeliveryInv, WriterInv, PlaceInv
    <2>2. CASE mode = "single"
      <3>1. tx[c].todo = <<Head(left)>> /\ left # <<>> /\ Range(left) \cap Ids(rows) = {}
        BY <1>2, <2>2 DEF IndInv, DeliveryInv, WriterInv, PlaceInv
      <3>2. Head(left) \in Range(left) /\ Head(left) \in Deferred
        BY <3>1, TaskOf, TailKeeps DEF IndInv
      <3>3. Range(<<Head(left)>>) = {Head(left)}
        BY <3>2, OneReceipt
      <3> QED  BY <2>0, <3>1, <3>2, <3>3
    <2> QED  BY <2>0, <2>1, <2>2
  <1> QED  BY <1>1, <1>2 DEF Connections

\* A transaction of c has ended; its receipts are in the chain if ok.
LEMMA RequestEnds ==
    ASSUME IndInv, NEW c \in Receipts, NEW ok \in BOOLEAN, tx[c].at # "none",
           Over(c), Answer(c, ok), queue' = queue,
           Ids(rows') = Ids(rows) \cup (IF ok THEN {c} ELSE {}), OnceInChain'
    PROVE  DeliveryInv' /\ UNCHANGED task /\ caller' \in [Receipts -> {"idle", "appending", "queued", "ok", "failed", "dead"}]
  <1>1. c \in Connections /\ c # Writer /\ Writer \in Connections
    BY NamesAssumption DEF Connections
  <1>2. /\ caller' = [caller EXCEPT ![c] = IF ok THEN "ok" ELSE "failed"] /\ UNCHANGED task
        /\ buf' = buf /\ left' = left /\ mode' = mode /\ logged' = logged
    BY <1>1 DEF Answer, task
  <1>3. /\ caller' \in [Receipts -> {"idle", "appending", "queued", "ok", "failed", "dead"}]
        /\ caller'[c] = (IF ok THEN "ok" ELSE "failed")
        /\ \A r \in Receipts : r # c => caller'[r] = caller[r]
    BY <1>2 DEF IndInv, TypeOK
  <1>4. caller[c] = "appending"
    BY <1>1, TodoWaits
  <1>5. c \notin Range(queue) /\ c \notin Range(buf)
    BY <1>4 DEF IndInv, DeliveryInv, PlaceInv
  <1>6. WriterInv'
    <2>1. tx'[Writer] = tx[Writer]
      BY <1>1 DEF Over
    <2> QED
      BY <1>2, <2>1 DEF IndInv, DeliveryInv, WriterInv
  <1>7. PlaceInv'
    <2>1. \A r \in Range(queue') \cup Range(buf') : caller'[r] = "queued"
      BY <1>2, <1>3, <1>5, TaskOf DEF IndInv, DeliveryInv, PlaceInv
    <2>2. Range(queue') \cap Ids(rows') = {} /\ (mode' # "single" => Range(buf') \cap Ids(rows') = {})
      BY <1>2, <1>5 DEF IndInv, DeliveryInv, PlaceInv
    <2>3. mode' = "single" => Range(left') \cap Ids(rows') = {}
      BY <1>2, <1>5 DEF IndInv, DeliveryInv, PlaceInv, WriterInv
    <2>4. \A r \in Receipts : caller'[r] \in {"idle", "appending"} => r \notin Ids(rows')
      <3> SUFFICES ASSUME NEW r \in Receipts, caller'[r] \in {"idle", "appending"}  PROVE r \notin Ids(rows')
        OBVIOUS
      <3>1. r # c
        BY <1>3
      <3> QED  BY <1>3, <3>1 DEF IndInv, DeliveryInv, PlaceInv
    <2>5. \A r \in Receipts : tx'[r].at # "none" => caller'[r] = "appending" /\ tx'[r].todo = <<r>>
      <3> SUFFICES ASSUME NEW r \in Receipts, tx'[r].at # "none"
                   PROVE  caller'[r] = "appending" /\ tx'[r].todo = <<r>>
        OBVIOUS
      <3>1. r # c
        BY NoTxIs DEF Over
      <3>2. tx'[r] = tx[r]
        BY <3>1 DEF Over, Connections
      <3> QED  BY <1>3, <3>1, <3>2 DEF IndInv, DeliveryInv, PlaceInv
    <2>6. /\ OneToOne(queue') /\ OneToOne(buf') /\ OneToOne(left') /\ Range(queue') \cap Range(buf') = {}
      BY <1>2 DEF IndInv, DeliveryInv, PlaceInv
    <2> QED
      BY <2>1, <2>2, <2>3, <2>4, <2>5, <2>6 DEF PlaceInv
  <1>8. FallbackInv'
    BY <1>2 DEF IndInv, DeliveryInv, FallbackInv
  <1>9. NeverSilentlyDropped'
    <2> SUFFICES ASSUME NEW r \in Receipts
                 PROVE  /\ caller'[r] = "ok" => r \in Ids(rows')
                        /\ caller'[r] = "queued" =>
                              r \in Ids(rows') \cup Range(queue') \cup Range(buf') \cup logged'
      BY DEF NeverSilentlyDropped
    <2>1. CASE r = c
      BY <1>3, <2>1
    <2>2. CASE r # c
      BY <1>2, <1>3, <2>2 DEF IndInv, DeliveryInv, NeverSilentlyDropped
    <2> QED  BY <2>1, <2>2
  <1> QED
    BY <1>2, <1>3, <1>6, <1>7, <1>8, <1>9 DEF DeliveryInv

\* The other connections' transactions stay as they are.
LEMMA OthersGoOn ==
    ASSUME IndInv, caller' = caller, \A r \in Receipts : tx'[r] = tx[r]
    PROVE  \A r \in Receipts : tx'[r].at # "none" => caller'[r] = "appending" /\ tx'[r].todo = <<r>>
  BY DEF IndInv, DeliveryInv, PlaceInv

LEMMA BatchIsOver ==
    ASSUME IndInv, NEW ok \in BOOLEAN, mode = "batch", tx[Writer].at # "none",
           Over(Writer), Answer(Writer, ok), queue' = queue,
           Ids(rows') = Ids(rows) \cup (IF ok THEN Range(buf) ELSE {}), OnceInChain'
    PROVE  /\ DeliveryInv' /\ caller' = caller
           /\ buf' \in Seq(Deferred) /\ left' \in Seq(Deferred) /\ Len(buf') <= BatchSize
           /\ mode' \in {"receive", "batch", "single", "stopped"} /\ logged' \subseteq Deferred
  <1>1. /\ mode' = (IF ok THEN "receive" ELSE "single") /\ buf' = (IF ok THEN <<>> ELSE buf)
        /\ left' = (IF ok THEN <<>> ELSE buf) /\ logged' = logged /\ caller' = caller
    BY DEF Answer, BatchEnds
  <1>2. tx'[Writer].at = "none" /\ \A r \in Receipts : tx'[r] = tx[r]
    BY NoTxIs, TaskOf DEF Over, IndInv
  <1>3. buf # <<>> /\ Range(buf) \cap Ids(rows) = {}
    BY TaskOf DEF IndInv, DatabaseInv, TxInv, TxOK, DeliveryInv, WriterInv, PlaceInv
  <1>4. /\ OneToOne(queue) /\ OneToOne(buf) /\ Range(queue) \cap Range(buf) = {}
        /\ \A r \in Range(queue) \cup Range(buf) : caller[r] = "queued"
        /\ Range(queue) \cap Ids(rows) = {}
        /\ \A r \in Receipts : caller[r] \in {"idle", "appending"} => r \notin Ids(rows)
    BY DEF IndInv, DeliveryInv, PlaceInv
  <1>5. \A r \in Receipts : tx'[r].at # "none" => caller'[r] = "appending" /\ tx'[r].todo = <<r>>
    BY <1>1, <1>2, OthersGoOn
  <1>6. \A r \in Receipts :
           /\ caller[r] = "ok" => r \in Ids(rows)
           /\ caller[r] = "queued" => r \in Ids(rows) \cup Range(queue) \cup Range(buf) \cup logged
    BY DEF IndInv, DeliveryInv, NeverSilentlyDropped
  <1>7. CASE ok
    <2>1. /\ mode' = "receive" /\ buf' = <<>> /\ left' = <<>> /\ Range(buf') = {} /\ Range(left') = {}
          /\ OneToOne(buf') /\ OneToOne(left') /\ Len(buf') = 0
          /\ buf' \in Seq(Deferred) /\ left' \in Seq(Deferred)
      BY <1>1, <1>7, EmptyKeeps
    <2>2. Ids(rows') = Ids(rows) \cup Range(buf)
      BY <1>7
    <2>3. WriterInv' /\ Len(buf') <= BatchSize
      BY <1>2, <2>1, SinkAssumption DEF WriterInv
    <2>4. PlaceInv'
      BY <1>1, <1>4, <1>5, <2>1, <2>2, TaskOf DEF PlaceInv, IndInv
    <2>5. FallbackInv' /\ NeverSilentlyDropped'
      BY <1>1, <1>6, <2>1, <2>2 DEF FallbackInv, NeverSilentlyDropped
    <2> QED
      BY <1>1, <2>1, <2>3, <2>4, <2>5, TaskOf DEF DeliveryInv, IndInv
  <1>8. CASE ~ok
    <2>1. /\ mode' = "single" /\ buf' = buf /\ left' = buf /\ Ids(rows') = Ids(rows)
      BY <1>1, <1>8
    <2>2. WriterInv'
      BY <1>2, <1>3, <2>1 DEF WriterInv
    <2>3. PlaceInv'
      BY <1>1, <1>3, <1>4, <1>5, <2>1 DEF PlaceInv
    <2>4. FallbackInv' /\ NeverSilentlyDropped'
      BY <1>1, <1>6, <2>1 DEF FallbackInv, NeverSilentlyDropped
    <2> QED
      BY <1>1, <2>1, <2>2, <2>3, <2>4, TaskOf DEF DeliveryInv, IndInv
  <1> QED  BY <1>7, <1>8

LEMMA SingleIsOver ==
    ASSUME IndInv, NEW ok \in BOOLEAN, mode = "single", tx[Writer].at # "none",
           Over(Writer), Answer(Writer, ok), queue' = queue,
           Ids(rows') = Ids(rows) \cup (IF ok THEN {Head(left)} ELSE {}), OnceInChain'
    PROVE  /\ DeliveryInv' /\ caller' = caller
           /\ buf' \in Seq(Deferred) /\ left' \in Seq(Deferred) /\ Len(buf') <= BatchSize
           /\ mode' \in {"receive", "batch", "single", "stopped"} /\ logged' \subseteq Deferred
  <1>1. /\ left' = Tail(left) /\ mode' = (IF left' = <<>> THEN "receive" ELSE "single")
        /\ buf' = (IF left' = <<>> THEN <<>> ELSE buf)
        /\ logged' = (IF ok THEN logged ELSE logged \cup {Head(left)}) /\ caller' = caller
    BY DEF Answer, SingleEnds
  <1>2. tx'[Writer].at = "none" /\ \A r \in Receipts : tx'[r] = tx[r]
    BY NoTxIs, TaskOf DEF Over, IndInv
  <1>3. left # <<>> /\ Range(left) \subseteq Range(buf) /\ OneToOne(left)
    BY DEF IndInv, DeliveryInv, WriterInv, PlaceInv
  <1>4. /\ Tail(left) \in Seq(Deferred) /\ Head(left) \in Deferred
        /\ Range(left) = {Head(left)} \cup Range(left') /\ OneToOne(left')
        /\ Head(left) \notin Range(left')
    BY <1>1, <1>3, TaskOf, TailKeeps DEF IndInv
  <1>5. /\ OneToOne(queue) /\ OneToOne(buf) /\ Range(queue) \cap Range(buf) = {}
        /\ \A r \in Range(queue) \cup Range(buf) : caller[r] = "queued"
        /\ Range(queue) \cap Ids(rows) = {} /\ Range(left) \cap Ids(rows) = {}
        /\ \A r \in Receipts : caller[r] \in {"idle", "appending"} => r \notin Ids(rows)
    BY DEF IndInv, DeliveryInv, PlaceInv
  <1>6. \A r \in Receipts : tx'[r].at # "none" => caller'[r] = "appending" /\ tx'[r].todo = <<r>>
    BY <1>1, <1>2, OthersGoOn
  <1>7. \A r \in Receipts :
           /\ caller[r] = "ok" => r \in Ids(rows)
           /\ caller[r] = "queued" => r \in Ids(rows) \cup Range(queue) \cup Range(buf) \cup logged
    BY DEF IndInv, DeliveryInv, NeverSilentlyDropped
  <1>8. Range(buf) \subseteq Ids(rows') \cup logged' \cup Range(left')
    <2>1. Range(buf) \subseteq Ids(rows) \cup logged \cup Range(left)
      BY DEF IndInv, DeliveryInv, FallbackInv
    <2> QED
      BY <1>1, <1>4, <2>1
  <1>9. /\ Range(queue) \cap Ids(rows') = {} /\ Range(left') \cap Ids(rows') = {}
        /\ \A r \in Receipts : caller[r] \in {"idle", "appending"} => r \notin Ids(rows')
    <2>1. Head(left) \in Range(buf) /\ Head(left) \notin Range(queue) /\ caller[Head(left)] = "queued"
      BY <1>3, <1>4, <1>5
    <2> QED
      BY <1>4, <1>5, <2>1
  <1>10. logged' \subseteq Deferred /\ Ids(rows) \subseteq Ids(rows') /\ logged \subseteq logged'
    BY <1>1, <1>4, TaskOf DEF IndInv
  <1>11. CASE left' = <<>>
    <2>1. /\ mode' = "receive" /\ buf' = <<>> /\ Range(buf') = {} /\ Range(left') = {}
          /\ OneToOne(buf') /\ Len(buf') = 0 /\ buf' \in Seq(Deferred)
      BY <1>1, <1>11, EmptyKeeps
    <2>2. WriterInv' /\ Len(buf') <= BatchSize
      BY <1>2, <2>1, SinkAssumption DEF WriterInv
    <2>3. PlaceInv'
      BY <1>1, <1>4, <1>5, <1>6, <1>9, <2>1, TaskOf DEF PlaceInv, IndInv
    <2>4. FallbackInv' /\ NeverSilentlyDropped'
      BY <1>1, <1>7, <1>8, <1>10, <2>1 DEF FallbackInv, NeverSilentlyDropped
    <2> QED
      BY <1>1, <1>4, <1>10, <2>1, <2>2, <2>3, <2>4 DEF DeliveryInv
  <1>12. CASE left' # <<>>
    <2>1. mode' = "single" /\ buf' = buf
      BY <1>1, <1>12
    <2>2. WriterInv'
      BY <1>2, <1>3, <1>4, <1>12, <2>1 DEF WriterInv
    <2>3. PlaceInv'
      BY <1>1, <1>4, <1>5, <1>6, <1>9, <2>1 DEF PlaceInv
    <2>4. FallbackInv' /\ NeverSilentlyDropped'
      BY <1>1, <1>7, <1>8, <1>10, <2>1 DEF FallbackInv, NeverSilentlyDropped
    <2> QED
      BY <1>1, <1>4, <1>10, <2>1, <2>2, <2>3, <2>4, TaskOf DEF DeliveryInv, IndInv
  <1> QED  BY <1>11, <1>12

\* Whoever asked for it hears of the end of a transaction.
LEMMA TransactionEnds ==
    ASSUME IndInv, NEW c \in Connections, NEW ok \in BOOLEAN, tx[c].at # "none",
           Over(c), Answer(c, ok), UNCHANGED channel, crashes' = crashes,
           lock' \in Connections \cup {Nobody}, serial' \in Nat, rows' \subseteq Rows,
           Ids(rows') = Ids(rows) \cup (IF ok THEN Range(tx[c].todo) ELSE {}), OnceInChain'
    PROVE  TypeOK' /\ DeliveryInv'
  <1>1. queue' = queue /\ open' = open
    BY DEF channel
  <1>2. /\ DeliveryInv'
        /\ caller' \in [Receipts -> {"idle", "appending", "queued", "ok", "failed", "dead"}]
        /\ buf' \in Seq(Deferred) /\ left' \in Seq(Deferred) /\ Len(buf') <= BatchSize
        /\ mode' \in {"receive", "batch", "single", "stopped"} /\ logged' \subseteq Deferred
    <2>1. CASE c \in Receipts
      <3>1. Range(tx[c].todo) = {c}
        BY <2>1, TodoWaits
      <3>2. /\ DeliveryInv' /\ UNCHANGED task
            /\ caller' \in [Receipts -> {"idle", "appending", "queued", "ok", "failed", "dead"}]
        BY <1>1, <2>1, <3>1, RequestEnds
      <3>3. buf' = buf /\ left' = left /\ mode' = mode /\ logged' = logged
        BY <3>2 DEF task
      <3> QED
        BY <3>2, <3>3, TaskOf DEF IndInv
    <2>2. CASE c = Writer
      <3>0. caller \in [Receipts -> {"idle", "appending", "queued", "ok", "failed", "dead"}]
        BY DEF IndInv, TypeOK
      <3>1. CASE mode = "batch"
        <4>1. tx[c].todo = buf
          BY <2>2, <3>1 DEF IndInv, DeliveryInv, WriterInv
        <4> QED
          BY <1>1, <2>2, <3>0, <3>1, <4>1, BatchIsOver
      <3>2. CASE mode = "single"
        <4>1. Range(tx[c].todo) = {Head(left)}
          <5>1. left # <<>> /\ tx[c].todo = <<Head(left)>>
            BY <2>2, <3>2 DEF IndInv, DeliveryInv, WriterInv
          <5>2. Head(left) \in Deferred
            BY <5>1, TaskOf, TailKeeps DEF IndInv
          <5> QED  BY <5>1, <5>2, OneReceipt
        <4> QED
          BY <1>1, <2>2, <3>0, <3>2, <4>1, SingleIsOver
      <3> QED
        BY <2>2, <3>1, <3>2, TodoWaits
    <2> QED  BY <2>1, <2>2 DEF Connections
  <1>3. TypeOK'
    BY <1>1, <1>2 DEF IndInv, TypeOK, Over
  <1> QED  BY <1>2, <1>3

LEMMA CommitKeeps ==
    ASSUME IndInv, NEW c \in Connections, Commit(c)
    PROVE  IndInv'
  <1>1. /\ tx[c].at = "commit" /\ Answer(c, TRUE) /\ Release(c) /\ UNCHANGED <<serial, channel, crashes>>
    BY DEF Commit
  <1>2. /\ DatabaseInv' /\ Over(c) /\ rows' = Visible(c) /\ rows' \subseteq Rows /\ serial' = serial
    BY CommitStep DEF IndInv
  <1>3. lock' \in Connections \cup {Nobody}
    BY <1>1, ReleaseStep DEF IndInv
  <1>4. /\ \A x \in tx[c].new : x.id \in Range(tx[c].todo)
        /\ \A x, y \in tx[c].new : x.id = y.id => x = y
        /\ Range(tx[c].todo) \subseteq Ids(tx[c].new)
    <2>1. TxOK(tx[c])
      BY DEF IndInv, DatabaseInv, TxInv
    <2> QED
      BY <1>1, <2>1 DEF TxOK, Tenants, Range
  <1>5. Ids(rows') = Ids(rows) \cup Range(tx[c].todo)
    BY <1>2, <1>4 DEF Visible, Ids
  <1>6. OnceInChain'
    <2> SUFFICES ASSUME NEW x \in rows', NEW y \in rows', x.id = y.id  PROVE x = y
      BY DEF OnceInChain
    <2>1. Range(tx[c].todo) \cap Ids(rows) = {}
      BY <1>1, TodoWaits
    <2>2. \A u \in rows : \A v \in tx[c].new : u.id # v.id
      BY <1>4, <2>1 DEF Ids
    <2>3. CASE x \in rows /\ y \in rows
      BY <2>3 DEF IndInv, DeliveryInv, OnceInChain
    <2>4. CASE x \in tx[c].new /\ y \in tx[c].new
      BY <1>4, <2>4
    <2> QED
      BY <1>2, <2>2, <2>3, <2>4 DEF Visible
  <1>7. TypeOK' /\ DeliveryInv'
    <2>1. TRUE \in BOOLEAN /\ tx[c].at # "none" /\ UNCHANGED channel /\ crashes' = crashes
          /\ serial' \in Nat
      BY <1>1, <1>2, TxOf DEF IndInv
    <2>2. Ids(rows') = Ids(rows) \cup (IF TRUE THEN Range(tx[c].todo) ELSE {})
      BY <1>5
    <2> QED
      BY <1>1, <1>2, <1>3, <1>6, <2>1, <2>2, TransactionEnds
  <1> QED
    BY <1>2, <1>7 DEF IndInv

LEMMA AbortKeeps ==
    ASSUME IndInv, NEW c \in Connections, Abort(c)
    PROVE  IndInv'
  <1>1. /\ tx[c].at # "none" /\ Answer(c, FALSE) /\ Release(c) /\ UNCHANGED channel /\ crashes' = crashes
    BY DEF Abort
  <1>2. /\ DatabaseInv' /\ Over(c) /\ rows' = rows /\ serial' \in Nat
    BY AbortStep DEF IndInv
  <1>3. lock' \in Connections \cup {Nobody}
    BY <1>1, ReleaseStep DEF IndInv
  <1>4. OnceInChain'
    BY <1>2 DEF IndInv, DeliveryInv, OnceInChain
  <1>5. Ids(rows') = Ids(rows) \cup (IF FALSE THEN Range(tx[c].todo) ELSE {}) /\ FALSE \in BOOLEAN
    BY <1>2
  <1>6. rows' \subseteq Rows
    BY <1>2 DEF IndInv, TypeOK
  <1>7. TypeOK' /\ DeliveryInv'
    BY <1>1, <1>2, <1>3, <1>4, <1>5, <1>6, TransactionEnds
  <1> QED
    BY <1>2, <1>7 DEF IndInv

LEMMA StatementKeeps ==
    ASSUME IndInv, NEW c \in Connections, Begin(c) \/ ReadHead(c) \/ Insert(c)
    PROVE  IndInv'
  <1>1. DatabaseInv' /\ GoesOn(c)
    BY BeginStep, ReadHeadStep, InsertStep DEF IndInv
  <1>2. UNCHANGED <<rows, caller, channel, task, crashes>> /\ lock' \in Connections \cup {Nobody}
    BY DEF Begin, ReadHead, Insert, IndInv, TypeOK
  <1> QED
    BY <1>1, <1>2, GoingOn DEF IndInv

-----------------------------------------------------------------------------
(* Requests, the writer task, the process. *)

\* A request appends its own receipt, because it must or because the channel is full.
LEMMA RequestAsks ==
    ASSUME IndInv, NEW r \in Receipts, caller[r] = "idle", Ask(r, <<r>>),
           caller' = [caller EXCEPT ![r] = "appending"],
           UNCHANGED <<rows, serial, lock, channel, task, crashes>>
    PROVE  IndInv'
  <1>1. /\ rows' = rows /\ serial' = serial /\ lock' = lock /\ queue' = queue /\ open' = open
        /\ buf' = buf /\ left' = left /\ mode' = mode /\ logged' = logged /\ crashes' = crashes
    BY DEF channel, task
  <1>2. r \in Connections /\ r # Writer /\ Writer \in Connections /\ tx[r].at = "none"
    BY TaskOf DEF IndInv, DeliveryInv, PlaceInv
  <1>3. /\ DatabaseInv' /\ tx' \in [Connections -> Transactions]
        /\ tx'[r].at = "begin" /\ tx'[r].todo = <<r>>
        /\ \A d \in Connections : d # r => tx'[d] = tx[d]
    BY <1>1, <1>2, OneReceipt, AskStep DEF IndInv
  <1>4. /\ caller' \in [Receipts -> {"idle", "appending", "queued", "ok", "failed", "dead"}]
        /\ caller'[r] = "appending" /\ \A q \in Receipts : q # r => caller'[q] = caller[q]
    BY DEF IndInv, TypeOK
  <1>5. r \notin Range(queue) /\ r \notin Range(buf) /\ r \notin Ids(rows)
    BY DEF IndInv, DeliveryInv, PlaceInv
  <1>6. TypeOK'
    BY <1>1, <1>3, <1>4 DEF IndInv, TypeOK
  <1>7. WriterInv'
    <2>1. tx'[Writer] = tx[Writer]
      BY <1>2, <1>3
    <2> QED  BY <1>1, <2>1 DEF IndInv, DeliveryInv, WriterInv
  <1>8. PlaceInv'
    <2>1. \A q \in Range(queue') \cup Range(buf') : caller'[q] = "queued"
      BY <1>1, <1>4, <1>5, TaskOf DEF IndInv, DeliveryInv, PlaceInv
    <2>2. \A q \in Receipts : caller'[q] \in {"idle", "appending"} => q \notin Ids(rows')
      BY <1>1, <1>4, <1>5 DEF IndInv, DeliveryInv, PlaceInv
    <2>3. \A q \in Receipts : tx'[q].at # "none" => caller'[q] = "appending" /\ tx'[q].todo = <<q>>
      BY <1>3, <1>4, TaskOf DEF IndInv, DeliveryInv, PlaceInv
    <2> QED
      BY <1>1, <2>1, <2>2, <2>3 DEF IndInv, DeliveryInv, PlaceInv
  <1>9. OnceInChain' /\ FallbackInv'
    BY <1>1 DEF IndInv, DeliveryInv, OnceInChain, FallbackInv
  <1>10. NeverSilentlyDropped'
    BY <1>1, <1>4 DEF IndInv, DeliveryInv, NeverSilentlyDropped
  <1> QED
    BY <1>3, <1>6, <1>7, <1>8, <1>9, <1>10 DEF IndInv, DeliveryInv

\* A step that leaves the database alone.
LEMMA DatabaseKept ==
    ASSUME IndInv, tx' = tx, rows' = rows, serial' = serial, lock' = lock
    PROVE  /\ DatabaseInv' /\ OnceInChain'
           /\ tx' \in [Connections -> Transactions] /\ rows' \subseteq Rows
           /\ serial' \in Nat /\ lock' \in Connections \cup {Nobody}
  <1>1. \A c \in Connections : Visible(c)' = Visible(c) /\ (Holding(c)' <=> Holding(c))
    BY DEF Visible, Holding
  <1>2. LockInv' /\ TxInv' /\ RowidInv' /\ ChainInv'
    BY <1>1 DEF IndInv, DatabaseInv, LockInv, TxInv, RowidInv, ChainInv, ChainVerifies
  <1>3. OnceInChain'
    BY DEF IndInv, DeliveryInv, OnceInChain
  <1> QED
    BY <1>2, <1>3 DEF DatabaseInv, IndInv, TypeOK

LEMMA EmitKeeps == ASSUME IndInv, NEW r \in Receipts, Emit(r) PROVE IndInv'
  <1>1. CASE ~(open /\ Len(queue) < Capacity)
    <2>1. /\ caller[r] = "idle" /\ Ask(r, <<r>>)
          /\ caller' = [caller EXCEPT ![r] = "appending"]
          /\ UNCHANGED <<rows, serial, lock, channel, task, crashes>>
      BY <1>1 DEF Emit, channel
    <2> QED  BY <2>1, RequestAsks
  <1>2. CASE open /\ Len(queue) < Capacity
    <2>1. /\ caller[r] = "idle" /\ r \in Deferred /\ queue' = Append(queue, r)
          /\ caller' = [caller EXCEPT ![r] = "queued"]
          /\ rows' = rows /\ serial' = serial /\ lock' = lock /\ open' = open /\ tx' = tx
          /\ buf' = buf /\ left' = left /\ mode' = mode /\ logged' = logged /\ crashes' = crashes
      BY <1>2 DEF Emit, task
    <2>2. r \notin Range(queue) /\ r \notin Range(buf) /\ r \notin Ids(rows) /\ tx[r].at = "none"
      BY <2>1 DEF IndInv, DeliveryInv, PlaceInv
    <2>3. /\ queue' \in Seq(Deferred) /\ Range(queue') = Range(queue) \cup {r} /\ OneToOne(queue')
          /\ Len(queue') = Len(queue) + 1
      BY <2>1, <2>2, TaskOf, AppendKeeps DEF IndInv, DeliveryInv, PlaceInv
    <2>4. Len(queue') <= Capacity
      <3>1. Len(queue) \in Nat /\ Capacity \in Nat
        BY TaskOf, LenProperties, SinkAssumption DEF IndInv
      <3> QED  BY <1>2, <2>3, <3>1
    <2>5. /\ caller' \in [Receipts -> {"idle", "appending", "queued", "ok", "failed", "dead"}]
          /\ caller'[r] = "queued" /\ \A q \in Receipts : q # r => caller'[q] = caller[q]
      BY <2>1 DEF IndInv, TypeOK
    <2>6. TypeOK'
      BY <2>1, <2>3, <2>4, <2>5 DEF IndInv, TypeOK
    <2>7. DatabaseInv' /\ OnceInChain'
      BY <2>1, DatabaseKept
    <2>8. WriterInv' /\ FallbackInv'
      BY <2>1 DEF IndInv, DeliveryInv, WriterInv, FallbackInv
    <2>9. PlaceInv'
      <3>1. \A q \in Range(queue') \cup Range(buf') : caller'[q] = "queued"
        BY <2>1, <2>3, <2>5, TaskOf DEF IndInv, DeliveryInv, PlaceInv
      <3>2. Range(queue') \cap Range(buf') = {} /\ Range(queue') \cap Ids(rows') = {}
        BY <2>1, <2>2, <2>3 DEF IndInv, DeliveryInv, PlaceInv
      <3>3. \A q \in Receipts : caller'[q] \in {"idle", "appending"} => q \notin Ids(rows')
        BY <2>1, <2>5 DEF IndInv, DeliveryInv, PlaceInv
      <3>4. \A q \in Receipts : tx'[q].at # "none" => caller'[q] = "appending" /\ tx'[q].todo = <<q>>
        BY <2>1, <2>2, <2>5 DEF IndInv, DeliveryInv, PlaceInv
      <3> QED
        BY <2>1, <2>3, <3>1, <3>2, <3>3, <3>4 DEF IndInv, DeliveryInv, PlaceInv
    <2>10. NeverSilentlyDropped'
      BY <2>1, <2>3, <2>5 DEF IndInv, DeliveryInv, NeverSilentlyDropped
    <2> QED
      BY <2>6, <2>7, <2>8, <2>9, <2>10 DEF IndInv, DeliveryInv
  <1> QED  BY <1>1, <1>2

LEMMA AppendDurableKeeps == ASSUME IndInv, NEW r \in Receipts, AppendDurable(r) PROVE IndInv'
  BY RequestAsks DEF AppendDurable

\* A batch is handed to the database.
LEMMA FlushStep ==
    ASSUME IndInv, NEW records \in Seq(Receipts), records # <<>>, OneToOne(records),
           mode = "receive", Flush(records), rows' = rows, serial' = serial, lock' = lock
    PROVE  /\ DatabaseInv' /\ OnceInChain' /\ tx' \in [Connections -> Transactions] /\ mode' = "batch"
           /\ tx'[Writer].at = "begin" /\ tx'[Writer].todo = records
           /\ \A r \in Receipts : tx'[r] = tx[r]
  <1>1. Writer \in Connections /\ tx[Writer].at = "none"
    BY TaskOf DEF IndInv, DeliveryInv, WriterInv
  <1>2. /\ DatabaseInv' /\ tx' \in [Connections -> Transactions]
        /\ tx'[Writer].at = "begin" /\ tx'[Writer].todo = records
        /\ \A d \in Connections : d # Writer => tx'[d] = tx[d]
    BY <1>1, AskStep DEF IndInv, Flush
  <1>3. \A r \in Receipts : tx'[r] = tx[r]
    BY <1>2, TaskOf DEF IndInv
  <1>4. OnceInChain'
    BY DEF IndInv, DeliveryInv, OnceInChain
  <1> QED
    BY <1>2, <1>3, <1>4 DEF Flush

LEMMA ReceiveKeeps == ASSUME IndInv, Receive PROVE IndInv'
  <1>1. /\ mode = "receive" /\ queue # <<>> /\ queue' = Tail(queue) /\ buf' = Append(buf, Head(queue))
        /\ rows' = rows /\ serial' = serial /\ lock' = lock /\ caller' = caller /\ open' = open
        /\ left' = left /\ logged' = logged /\ crashes' = crashes
    BY DEF Receive
  <1>2. /\ Head(queue) \in Deferred /\ Range(queue) = {Head(queue)} \cup Range(queue')
        /\ OneToOne(queue') /\ queue' \in Seq(Deferred) /\ Len(queue') = Len(queue) - 1
        /\ Head(queue) \notin Range(queue')
    BY <1>1, TaskOf, TailKeeps DEF IndInv, DeliveryInv, PlaceInv
  <1>3. /\ Range(queue) \cap Range(buf) = {} /\ OneToOne(buf) /\ OneToOne(left)
        /\ \A r \in Range(queue) \cup Range(buf) : caller[r] = "queued"
        /\ Range(queue) \cap Ids(rows) = {} /\ Range(buf) \cap Ids(rows) = {}
        /\ \A r \in Receipts : caller[r] \in {"idle", "appending"} => r \notin Ids(rows)
    BY <1>1 DEF IndInv, DeliveryInv, PlaceInv
  <1>4. /\ buf' \in Seq(Deferred) /\ buf' # <<>> /\ Len(buf') = Len(buf) + 1
        /\ Range(buf') = Range(buf) \cup {Head(queue)} /\ OneToOne(buf')
    <2>1. Head(queue) \notin Range(buf) /\ buf \in Seq(Deferred)
      BY <1>2, <1>3, TaskOf DEF IndInv
    <2> QED
      BY <1>1, <1>2, <1>3, <2>1, AppendKeeps
  <1>5. Len(queue') <= Capacity /\ Len(buf') <= BatchSize
    <2>1. /\ Len(queue) \in Nat /\ Len(queue) <= Capacity /\ Capacity \in Nat
          /\ Len(buf) \in Nat /\ Len(buf) < BatchSize /\ BatchSize \in Nat
      BY <1>1, TaskOf, LenProperties, SinkAssumption DEF IndInv, TypeOK, DeliveryInv, WriterInv
    <2> QED  BY <1>2, <1>4, <2>1
  <1>6. /\ DatabaseInv' /\ OnceInChain' /\ tx' \in [Connections -> Transactions]
        /\ mode' \in {"receive", "batch"} /\ WriterInv'
        /\ \A r \in Receipts : tx'[r] = tx[r]
    <2>1. CASE Len(buf') >= BatchSize
      <3>1. Flush(buf')
        BY <2>1 DEF Receive
      <3>2. PICK records \in Seq(Receipts) : records = buf'
        BY <1>4, SinkAssumption
      <3>3. Flush(records) /\ records # <<>> /\ OneToOne(records)
        BY <1>4, <3>1, <3>2
      <3>4. /\ DatabaseInv' /\ OnceInChain' /\ tx' \in [Connections -> Transactions] /\ mode' = "batch"
            /\ tx'[Writer].at = "begin" /\ tx'[Writer].todo = records
            /\ \A r \in Receipts : tx'[r] = tx[r]
        BY <1>1, <3>3, FlushStep
      <3> QED
        BY <3>2, <3>4 DEF WriterInv
    <2>2. CASE ~(Len(buf') >= BatchSize)
      <3>1. tx' = tx /\ mode' = mode
        BY <2>2 DEF Receive
      <3>2. Len(buf') < BatchSize
        <4>1. Len(buf) \in Nat /\ BatchSize \in Nat
          BY TaskOf DEF IndInv
        <4> QED  BY <1>4, <2>2, <4>1
      <3>3. WriterInv'
        BY <1>1, <3>1, <3>2 DEF IndInv, DeliveryInv, WriterInv
      <3> QED
        BY <1>1, <3>1, <3>3, DatabaseKept
    <2> QED  BY <2>1, <2>2
  <1>7. TypeOK'
    BY <1>1, <1>2, <1>4, <1>5, <1>6 DEF IndInv, TypeOK
  <1>8. PlaceInv'
    <2>1. \A r \in Receipts : tx'[r].at # "none" => caller'[r] = "appending" /\ tx'[r].todo = <<r>>
      BY <1>1, <1>6, OthersGoOn
    <2>2. /\ Range(queue') \cap Range(buf') = {} /\ Range(queue') \cap Ids(rows') = {}
          /\ Range(buf') \cap Ids(rows') = {}
          /\ \A r \in Range(queue') \cup Range(buf') : caller'[r] = "queued"
      BY <1>1, <1>2, <1>3, <1>4
    <2>3. mode' # "single"
      BY <1>6
    <2> QED
      BY <1>1, <1>2, <1>3, <1>4, <2>1, <2>2, <2>3 DEF PlaceInv
  <1>9. FallbackInv'
    BY <1>6 DEF FallbackInv
  <1>10. NeverSilentlyDropped'
    BY <1>1, <1>2, <1>4 DEF IndInv, DeliveryInv, NeverSilentlyDropped
  <1> QED
    BY <1>6, <1>7, <1>8, <1>9, <1>10 DEF IndInv, DeliveryInv

LEMMA TickKeeps == ASSUME IndInv, Tick PROVE IndInv'
  <1>1. /\ mode = "receive" /\ buf # <<>> /\ Flush(buf)
        /\ rows' = rows /\ serial' = serial /\ lock' = lock /\ caller' = caller /\ queue' = queue
        /\ open' = open /\ buf' = buf /\ left' = left /\ logged' = logged /\ crashes' = crashes
    BY DEF Tick, channel
  <1>2. /\ DatabaseInv' /\ OnceInChain' /\ tx' \in [Connections -> Transactions] /\ mode' = "batch"
        /\ tx'[Writer].at = "begin" /\ tx'[Writer].todo = buf
        /\ \A r \in Receipts : tx'[r] = tx[r]
    BY <1>1, FlushStep, TaskOf DEF IndInv, DeliveryInv, PlaceInv
  <1>3. TypeOK'
    BY <1>1, <1>2 DEF IndInv, TypeOK
  <1>4. WriterInv' /\ FallbackInv'
    BY <1>1, <1>2 DEF WriterInv, FallbackInv
  <1>5. PlaceInv'
    <2>1. \A r \in Receipts : tx'[r].at # "none" => caller'[r] = "appending" /\ tx'[r].todo = <<r>>
      BY <1>1, <1>2, OthersGoOn
    <2> QED
      BY <1>1, <1>2, <2>1 DEF IndInv, DeliveryInv, PlaceInv
  <1>6. NeverSilentlyDropped'
    BY <1>1 DEF IndInv, DeliveryInv, NeverSilentlyDropped
  <1> QED
    BY <1>2, <1>3, <1>4, <1>5, <1>6 DEF IndInv, DeliveryInv

LEMMA SingleKeeps == ASSUME IndInv, Single PROVE IndInv'
  <1>1. /\ mode = "single" /\ tx[Writer].at = "none" /\ Ask(Writer, <<Head(left)>>)
        /\ rows' = rows /\ serial' = serial /\ lock' = lock /\ caller' = caller /\ queue' = queue
        /\ open' = open /\ buf' = buf /\ left' = left /\ mode' = mode /\ logged' = logged
        /\ crashes' = crashes
    BY DEF Single, channel, task
  <1>2. left # <<>> /\ Head(left) \in Receipts /\ Writer \in Connections
    <2>1. left # <<>>
      BY <1>1 DEF IndInv, DeliveryInv, WriterInv
    <2> QED
      BY <2>1, TaskOf, TailKeeps DEF IndInv
  <1>3. <<Head(left)>> \in Seq(Receipts) /\ <<Head(left)>> # <<>> /\ OneToOne(<<Head(left)>>)
    BY <1>2, OneReceipt
  <1>4. /\ DatabaseInv' /\ tx' \in [Connections -> Transactions]
        /\ tx'[Writer].at = "begin" /\ tx'[Writer].todo = <<Head(left)>>
        /\ \A d \in Connections : d # Writer => tx'[d] = tx[d]
    BY <1>1, <1>2, <1>3, AskStep DEF IndInv
  <1>5. TypeOK'
    BY <1>1, <1>4 DEF IndInv, TypeOK
  <1>6. WriterInv'
    BY <1>1, <1>4 DEF IndInv, DeliveryInv, WriterInv
  <1>7. PlaceInv'
    <2>1. \A r \in Receipts : tx'[r] = tx[r]
      BY <1>4, TaskOf DEF IndInv
    <2>2. \A r \in Receipts : tx'[r].at # "none" => caller'[r] = "appending" /\ tx'[r].todo = <<r>>
      BY <1>1, <2>1, OthersGoOn
    <2> QED
      BY <1>1, <2>2 DEF IndInv, DeliveryInv, PlaceInv
  <1>8. OnceInChain' /\ FallbackInv' /\ NeverSilentlyDropped'
    BY <1>1 DEF IndInv, DeliveryInv, OnceInChain, FallbackInv, NeverSilentlyDropped
  <1> QED
    BY <1>4, <1>5, <1>6, <1>7, <1>8 DEF IndInv, DeliveryInv

LEMMA StopKeeps == ASSUME IndInv, Stop \/ CloseSink \/ UNCHANGED vars PROVE IndInv'
  <1>1. /\ tx' = tx /\ rows' = rows /\ serial' = serial /\ lock' = lock /\ caller' = caller
        /\ queue' = queue /\ buf' = buf /\ left' = left /\ logged' = logged /\ crashes' = crashes
        /\ open' \in BOOLEAN
        /\ mode' = mode \/ (mode = "receive" /\ mode' = "stopped")
    BY DEF Stop, CloseSink, vars, database, channel, task, IndInv, TypeOK
  <1>2. DatabaseInv' /\ OnceInChain'
    BY <1>1, DatabaseKept
  <1>3. TypeOK'
    BY <1>1 DEF IndInv, TypeOK
  <1>4. WriterInv' /\ FallbackInv'
    BY <1>1 DEF IndInv, DeliveryInv, WriterInv, FallbackInv
  <1>5. PlaceInv' /\ NeverSilentlyDropped'
    BY <1>1 DEF IndInv, DeliveryInv, PlaceInv, NeverSilentlyDropped
  <1> QED
    BY <1>2, <1>3, <1>4, <1>5 DEF IndInv, DeliveryInv

LEMMA CrashKeeps == ASSUME IndInv, Crash PROVE IndInv'
  <1>1. DatabaseInv' /\ tx' \in [Connections -> Transactions] /\ serial' \in Nat
    BY CrashStep DEF IndInv
  <1>2. /\ crashes' \in 0 .. MaxCrashes /\ lock' = Nobody /\ open' = TRUE
        /\ queue' = <<>> /\ buf' = <<>> /\ left' = <<>> /\ mode' = "receive"
        /\ rows' = rows /\ logged' = logged
        /\ \A c \in Connections : tx'[c].at = "none"
    BY BackendAssumption, NoTxIs DEF Crash, IndInv, TypeOK
  <1>3. /\ caller' \in [Receipts -> {"idle", "appending", "queued", "ok", "failed", "dead"}]
        /\ \A r \in Receipts : /\ caller'[r] # "appending" /\ caller'[r] # "queued"
                               /\ caller'[r] # "dead" => caller'[r] = caller[r]
    BY DEF Crash, IndInv, TypeOK
  <1>4. TypeOK'
    BY <1>1, <1>2, <1>3, EmptyKeeps, SinkAssumption DEF IndInv, TypeOK
  <1>5. WriterInv' /\ FallbackInv'
    BY <1>2, EmptyKeeps, SinkAssumption DEF WriterInv, FallbackInv, Connections
  <1>6. PlaceInv'
    <2>1. \A r \in Receipts : caller'[r] \in {"idle", "appending"} => r \notin Ids(rows')
      BY <1>2, <1>3 DEF IndInv, DeliveryInv, PlaceInv
    <2> QED
      BY <1>2, <2>1, EmptyKeeps DEF PlaceInv, Connections
  <1>7. OnceInChain' /\ NeverSilentlyDropped'
    BY <1>2, <1>3 DEF IndInv, DeliveryInv, OnceInChain, NeverSilentlyDropped
  <1> QED
    BY <1>1, <1>4, <1>5, <1>6, <1>7 DEF IndInv, DeliveryInv

-----------------------------------------------------------------------------
(* The theorems. *)

LEMMA InitHolds == Init => IndInv
  <1> SUFFICES ASSUME Init  PROVE IndInv
    OBVIOUS
  <1>1. /\ rows = {} /\ serial = 0 /\ lock = Nobody /\ tx = [c \in Connections |-> NoTx]
        /\ caller = [r \in Receipts |-> "idle"] /\ queue = <<>> /\ open = TRUE
        /\ buf = <<>> /\ left = <<>> /\ mode = "receive" /\ logged = {} /\ crashes = 0
    BY DEF Init
  <1>2. \A c \in Connections : tx[c] = NoTx /\ Visible(c) = {} /\ ~Holding(c) /\ c # Nobody
    BY <1>1, NoTxIs, NamesAssumption DEF Visible, Holding, Connections
  <1>3. TypeOK
    BY <1>1, NoTxIs, EmptyKeeps, SinkAssumption, BackendAssumption DEF TypeOK
  <1>4. DatabaseInv
    <2>1. LockInv /\ TxInv /\ RowidInv
      BY <1>1, <1>2, NoTxIs DEF LockInv, TxInv, RowidInv
    <2>2. ChainInv
      BY <1>1, <1>2, NoTxIs DEF ChainInv, ChainVerifies, ChainOn, OneRowPerRowid, Verifies
    <2> QED  BY <2>1, <2>2 DEF DatabaseInv
  <1>5. WriterInv /\ FallbackInv /\ OnceInChain
    BY <1>1, <1>2, NoTxIs, EmptyKeeps, SinkAssumption
    DEF WriterInv, FallbackInv, OnceInChain, Connections
  <1>6. PlaceInv /\ NeverSilentlyDropped
    BY <1>1, <1>2, NoTxIs, EmptyKeeps DEF PlaceInv, NeverSilentlyDropped, Ids, Connections
  <1> QED
    BY <1>3, <1>4, <1>5, <1>6 DEF IndInv, DeliveryInv

LEMMA Inductive == IndInv /\ [Next]_vars => IndInv'
  <1> SUFFICES ASSUME IndInv, [Next]_vars  PROVE IndInv'
    OBVIOUS
  <1>1. ASSUME NEW c \in Connections, ConnectionNext(c)  PROVE IndInv'
    BY <1>1, StatementKeeps, CommitKeeps, AbortKeeps DEF ConnectionNext
  <1>2. ASSUME NEW r \in Receipts, AppendDurable(r) \/ Emit(r)  PROVE IndInv'
    BY <1>2, AppendDurableKeeps, EmitKeeps
  <1>3. CASE WriterNext
    BY <1>3, ReceiveKeeps, TickKeeps, SingleKeeps, StopKeeps DEF WriterNext
  <1>4. CASE CloseSink \/ Crash \/ UNCHANGED vars
    BY <1>4, StopKeeps, CrashKeeps
  <1> QED
    BY <1>1, <1>2, <1>3, <1>4 DEF Next

LEMMA IndInvHolds == Spec => []IndInv
  BY InitHolds, Inductive, PTL DEF Spec

\* Every variable keeps its type: in particular the writer's buffer never
\* exceeds a batch, the channel never its capacity, and a head or a link is a
\* receipt or the genesis hash.
THEOREM TypeCorrect == Spec => []TypeOK
  <1>1. IndInv => TypeOK
    BY DEF IndInv
  <1> QED
    BY <1>1, IndInvHolds, PTL

\* append_action_receipt_atomic, append_action_receipts_batch_atomic on SQLite:
\* because the head is read under BEGIN IMMEDIATE, every tenant's chain verifies
\* whatever requests, batches, failures and restarts interleave.
THEOREM ChainAlwaysVerifies == ASSUME Locking PROVE Spec => []ChainVerifies
  <1>1. IndInv => ChainVerifies
    BY DEF IndInv, DatabaseInv, ChainInv
  <1> QED
    BY <1>1, IndInvHolds, PTL

\* flush, flush_fallback_individual, emit: on either backend a failed batch
\* leaves nothing behind that its fallback would append a second time.
THEOREM ChainedOnce == Spec => []OnceInChain
  <1>1. IndInv => OnceInChain
    BY DEF IndInv, DeliveryInv
  <1> QED
    BY <1>1, IndInvHolds, PTL

\* ReceiptBatchSink::emit, run_receipt_batch_writer: on either backend a receipt
\* the sink took is in the channel, in the buffer, in the chain or in the log
\* until its process dies, and an append that was answered ok is in the chain.
THEOREM NothingDropped == Spec => []NeverSilentlyDropped
  <1>1. IndInv => NeverSilentlyDropped
    BY DEF IndInv, DeliveryInv
  <1> QED
    BY <1>1, IndInvHolds, PTL

\* Two receipts of one tenant that refer to the same one are the same: the
\* lower of two would be the other's head or below it.
LEMMA VerifiedIsUnforked == IndInv /\ Locking => NoFork
  <1> SUFFICES ASSUME IndInv, Locking, NEW x \in rows, NEW y \in rows,
                      TenantOf[x.id] = TenantOf[y.id], x.prev = y.prev
               PROVE  x = y
    BY DEF NoFork
  <1>1. /\ OneRowPerRowid(rows) /\ Verifies(rows) /\ rows \subseteq Rows
        /\ \A u, v \in rows : u.id = v.id => u = v
    BY RowsChain DEF IndInv, TypeOK, DeliveryInv, OnceInChain
  <1>2. \A u \in rows : u.rowid \in Nat /\ u.id \in Receipts
    BY <1>1 DEF Rows
  <1>3. ASSUME NEW u \in rows, NEW v \in rows, TenantOf[u.id] = TenantOf[v.id],
               u.prev = v.prev, u.rowid < v.rowid
        PROVE  FALSE
    <2> DEFINE Below(w) == {z \in rows : z.rowid < w.rowid}
               t == TenantOf[v.id]
    <2>1. u.prev = HeadOf(Below(u), t) /\ v.prev = HeadOf(Below(v), t)
      BY <1>1, <1>3 DEF Verifies
    <2>2. /\ Below(u) \subseteq Rows /\ \A z \in Below(u) : z.rowid <= u.rowid
          /\ Below(v) \subseteq Rows /\ \A z \in Below(v) : z.rowid <= v.rowid
      BY <1>1, <1>2
    <2>3. u \in Below(v) /\ TenantOf[u.id] = t /\ u.rowid \in Nat /\ v.rowid \in Nat
      BY <1>2, <1>3
    <2>4. PICK h \in Below(v) : v.prev = h.id /\ u.rowid <= h.rowid
      <3>1. \E h \in Below(v) : /\ TenantOf[h.id] = t /\ HeadOf(Below(v), t) = h.id
                                /\ \A z \in Below(v) : TenantOf[z.id] = t => z.rowid <= h.rowid
        <4> HIDE DEF Below, t
        <4> QED  BY <2>2, <2>3, HeadExists
      <3> QED  BY <2>1, <2>3, <3>1
    <2>5. h \in rows /\ h.id \in Receipts /\ h.id # Genesis /\ h.rowid \in Nat
      BY <1>2, NamesAssumption
    <2>6. CASE \E z \in Below(u) : TenantOf[z.id] = t
      <3>1. \E k \in Below(u) : HeadOf(Below(u), t) = k.id
        <4> HIDE DEF Below, t
        <4> QED  BY <2>2, <2>3, <2>6, HeadExists
      <3>2. PICK k \in Below(u) : u.prev = k.id
        BY <2>1, <3>1
      <3>3. k \in rows /\ k.rowid < u.rowid /\ k.id = h.id
        BY <1>3, <2>4, <3>2
      <3>4. k = h
        BY <1>1, <2>5, <3>3
      <3> QED
        BY <2>3, <2>4, <2>5, <3>3, <3>4
    <2>7. CASE ~ \E z \in Below(u) : TenantOf[z.id] = t
      <3>1. {z \in Below(u) : TenantOf[z.id] = t} = {}
        BY <2>7
      <3>2. HeadOf(Below(u), t) = Genesis
        BY <3>1 DEF HeadOf
      <3> QED
        BY <1>3, <2>1, <2>4, <2>5, <3>2
    <2> QED  BY <2>6, <2>7
  <1>4. ~(x.rowid < y.rowid) /\ ~(y.rowid < x.rowid)
    BY <1>3
  <1>5. x.rowid = y.rowid
    BY <1>2, <1>4
  <1> QED
    BY <1>1, <1>5 DEF OneRowPerRowid

\* append_action_receipts_batch_atomic's doc comment, "concurrent single-row
\* appends cannot fork a chain mid-batch": true on SQLite (on Postgres TLC
\* finds a fork).
THEOREM ChainNeverForks == ASSUME Locking PROVE Spec => []NoFork
  <1>1. IndInv => NoFork
    BY VerifiedIsUnforked
  <1> QED
    BY <1>1, IndInvHolds, PTL
=============================================================================
