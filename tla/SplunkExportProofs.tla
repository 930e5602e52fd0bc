------------------------- MODULE SplunkExportProofs -------------------------
(***************************************************************************)
(* SplunkExport for every set of instances and streams, every Lease >=     *)
(* Interval, every batch limit and every bound: types, the exclusive       *)
(* lease, its transfer in time, and the export's cursors.                  *)
(*                                                                         *)
(* The lease and the export are two inductive invariants that share no     *)
(* variable but the set of live processes: LeaseInv and TimeInv are kept   *)
(* by the election's actions, ExportInv by the export's.                   *)
(***************************************************************************)
EXTENDS SplunkExport, TLAPS

-----------------------------------------------------------------------------
(* The lease *)

(***************************************************************************)
(* A lease an instance believes in was granted from a clock reading that   *)
(* is not ahead of the clock, nor of the reading of its next statement;    *)
(* and the row outlives what its holder was told.                          *)
(***************************************************************************)
LeaseInv ==
    /\ \A i \in Instances :
          /\ election[i] # "idle" <=> asked[i] # NULL
          /\ election[i] # "idle" => i \in up
          /\ asked[i] # NULL => asked[i] <= now /\ held[i] <= asked[i] + Lease
          /\ held[i] <= now + Lease
          /\ lock # NULL /\ lock.holder = i => held[i] <= lock.until
    /\ LeaseIsExclusive

(***************************************************************************)
(* When the next statement of an instance's election runs.                 *)
(***************************************************************************)
NextTick(i) == IF election[i] = "idle" THEN due[i] ELSE now

(***************************************************************************)
(* Without faults no election is late, the row runs out at most Lease      *)
(* after a live process held it, and every live process but a newborn one  *)
(* tries again at most Interval after the row runs out.                    *)
(***************************************************************************)
TimeInv ==
    /\ lastLed <= now
    /\ \A i \in Instances : upAt[i] <= now
    /\ faults = 0 =>
          /\ lock # NULL => lock.until <= lastLed + Lease
          /\ \A i \in up :
                /\ now <= due[i]
                /\ election[i] # "idle" => asked[i] = now /\ due[i] = now + Interval
                /\ election[i] = "insert" => lock = NULL \/ lock.until >= now
                /\ \/ NextTick(i) = upAt[i]
                   \/ lock # NULL /\ NextTick(i) <= lock.until + Interval

-----------------------------------------------------------------------------
(* The export *)

(***************************************************************************)
(* What the tick in progress has gathered of a stream is the rows from its *)
(* cursor up to some m, none while the stream is still to be read, and     *)
(* none where there is no cursor.                                          *)
(***************************************************************************)
Gathered(i, s, m) ==
    /\ m >= cursor[i][s]
    /\ \A r \in Nat : <<s, r>> \in batch[i] <=> r \in cursor[i][s] + 1 .. m

ExportInv ==
    /\ \A i \in Instances, s \in Streams :
          /\ s \in todo[i] => \A r \in Nat : <<s, r>> \notin batch[i]
          /\ cursor[i][s] = NULL => seed[i][s] = NULL /\ \A r \in Nat : <<s, r>> \notin batch[i]
          /\ job[i] = "gather" /\ s \notin todo[i] => cursor[i][s] # NULL
          /\ cursor[i][s] # NULL =>
                /\ seed[i][s] \in Nat /\ seed[i][s] <= cursor[i][s]
                /\ \E m \in Nat : Gathered(i, s, m)
    /\ CursorIsDelivered

LEInv == LeaseTypeOK /\ LeaseInv /\ TimeInv

-----------------------------------------------------------------------------
(* The lease is kept by every step *)

LEMMA LeaseInit == Init => LEInv
  BY TimesAssumption, IdsAssumption
  DEF Init, LEInv, LeaseTypeOK, LeaseInv, TimeInv, LeaseIsExclusive, NextTick

(***************************************************************************)
(* The steps of the export job, and of the tables, leave the lease alone;  *)
(* at most they are the fault that ends TimeInv's promise.                 *)
(***************************************************************************)
LEMMA LeaseApart ==
    ASSUME LEInv, UNCHANGED <<now, up, upAt, lastLed, lease>>, faults' = faults \/ Fault
    PROVE  LEInv'
  <1>1. faults' \in Nat /\ (faults' = 0 => faults = 0)
    BY DEF LEInv, LeaseTypeOK, Fault
  <1>2. /\ now' = now /\ up' = up /\ upAt' = upAt /\ lastLed' = lastLed /\ lock' = lock
        /\ isLeader' = isLeader /\ due' = due /\ election' = election /\ asked' = asked
        /\ held' = held
    BY DEF lease
  <1> QED
    BY <1>1, <1>2 DEF LEInv, LeaseTypeOK, LeaseInv, TimeInv, LeaseIsExclusive, NextTick

LEMMA ElectionTickLease == ASSUME LEInv, NEW i \in Instances, ElectionTick(i) PROVE LEInv'
  <1> USE TimesAssumption, IdsAssumption DEF LEInv
  <1>1. LeaseTypeOK'
    BY DEF LeaseTypeOK, ElectionTick
  <1>2. LeaseInv'
    BY DEF LeaseTypeOK, ElectionTick, LeaseInv, LeaseIsExclusive
  <1>3. TimeInv'
    BY DEF LeaseTypeOK, ElectionTick, LeaseInv, TimeInv, NextTick
  <1> QED  BY <1>1, <1>2, <1>3

(***************************************************************************)
(* The row an instance may write: it is its own, or no row, or one that    *)
(* ran out before the clock reading the statement carries.                 *)
(***************************************************************************)
Free(i) == lock = NULL \/ MayTake(i)

LEMMA WriteTyped ==
    ASSUME LEInv, NEW i \in Instances, election[i] # "idle", Free(i), Write(i)
    PROVE  /\ asked[i] \in Nat /\ i \in up
           /\ lock' \in [holder : Instances \cup {Gone}, until : Nat]
           /\ lock' # NULL /\ lock'.holder = i /\ lock'.until = asked[i] + Lease
           /\ lastLed' = lastLed \/ lastLed' = now
           /\ asked[i] = now => lastLed' = now
           /\ \A j \in Instances \ {i} : j \in isLeader => now > held[j]
  <1> USE TimesAssumption, IdsAssumption DEF LEInv
  <1>1. asked[i] \in Nat /\ i \in up
    BY DEF LeaseTypeOK, LeaseInv
  <1>2. /\ lock' \in [holder : Instances \cup {Gone}, until : Nat]
        /\ lock' # NULL /\ lock'.holder = i /\ lock'.until = asked[i] + Lease
    BY <1>1 DEF Write, LeaseTypeOK
  <1>3. /\ lastLed' = lastLed \/ lastLed' = now
        /\ asked[i] = now => lastLed' = now
    BY <1>1, <1>2 DEF Write, Led, LeaseTypeOK
  <1>4. \A j \in Instances \ {i} : j \in isLeader => now > held[j]
    BY <1>1 DEF Free, MayTake, LeaseTypeOK, LeaseInv, LeaseIsExclusive
  <1> QED  BY <1>1, <1>2, <1>3, <1>4

(***************************************************************************)
(* A statement that wrote the row, whether or not its caller hears of it.  *)
(***************************************************************************)
LEMMA WonLease ==
    ASSUME LEInv, NEW i \in Instances, election[i] # "idle", Free(i), Won(i)
    PROVE  LEInv'
  <1> USE TimesAssumption, IdsAssumption DEF LEInv
  <1>0. Write(i)
    BY DEF Won
  <1> USE WriteTyped, <1>0
  <1>1. LeaseTypeOK'
    BY DEF LeaseTypeOK, Won
  <1>2. LeaseInv'
    <2>1. LeaseIsExclusive'
      BY DEF LeaseTypeOK, Won, LeaseInv, LeaseIsExclusive
    <2> QED  BY <2>1 DEF LeaseTypeOK, Won, LeaseInv
  <1>3. TimeInv'
    BY DEF LeaseTypeOK, Won, LeaseInv, TimeInv, NextTick
  <1> QED  BY <1>1, <1>2, <1>3

LEMMA RenewLease == ASSUME LEInv, NEW i \in Instances, Renew(i) PROVE LEInv'
  <1> USE TimesAssumption, IdsAssumption DEF LEInv
  <1>1. CASE MayTake(i) /\ Won(i)
    BY <1>1, WonLease DEF Renew, Free
  <1>2. CASE ~(MayTake(i) /\ Won(i))
    <2>1. LeaseTypeOK'
      BY <1>2 DEF LeaseTypeOK, Renew
    <2>2. LeaseInv'
      BY <1>2 DEF LeaseTypeOK, Renew, LeaseInv, LeaseIsExclusive
    <2>3. TimeInv'
      BY <1>2 DEF LeaseTypeOK, Renew, LeaseInv, TimeInv, NextTick, MayTake
    <2> QED  BY <2>1, <2>2, <2>3
  <1> QED  BY <1>1, <1>2

LEMMA ClaimFirstLease == ASSUME LEInv, NEW i \in Instances, ClaimFirst(i) PROVE LEInv'
  <1> USE TimesAssumption, IdsAssumption DEF LEInv
  <1>1. CASE lock = NULL /\ Won(i)
    BY <1>1, WonLease DEF ClaimFirst, Free
  <1>2. CASE ~(lock = NULL /\ Won(i))
    <2>1. LeaseTypeOK'
      BY <1>2 DEF LeaseTypeOK, ClaimFirst
    <2>2. LeaseInv'
      BY <1>2 DEF LeaseTypeOK, ClaimFirst, LeaseInv, LeaseIsExclusive
    <2>3. TimeInv'
      BY <1>2 DEF LeaseTypeOK, ClaimFirst, LeaseInv, TimeInv, NextTick
    <2> QED  BY <2>1, <2>2, <2>3
  <1> QED  BY <1>1, <1>2

(***************************************************************************)
(* An election that fails is a fault; its statement may have taken effect. *)
(***************************************************************************)
LEMMA ElectionFailsLease == ASSUME LEInv, NEW i \in Instances, ElectionFails(i) PROVE LEInv'
  <1> USE TimesAssumption, IdsAssumption DEF LEInv
  <1>1. faults' \in Nat /\ faults' # 0
    BY DEF ElectionFails, Fault, LeaseTypeOK
  <1>2. CASE UNCHANGED <<lock, lastLed>>
    <2>1. LeaseTypeOK'
      BY <1>1, <1>2 DEF LeaseTypeOK, ElectionFails
    <2>2. LeaseInv'
      BY <1>1, <1>2 DEF LeaseTypeOK, ElectionFails, LeaseInv, LeaseIsExclusive
    <2>3. TimeInv'
      BY <1>1, <1>2 DEF LeaseTypeOK, ElectionFails, TimeInv
    <2> QED  BY <2>1, <2>2, <2>3
  <1>3. CASE ~UNCHANGED <<lock, lastLed>>
    <2>0. election[i] # "idle" /\ Free(i) /\ Write(i)
      BY <1>3 DEF ElectionFails, Free, LeaseTypeOK
    <2> USE WriteTyped, <2>0
    <2>1. LeaseTypeOK'
      BY <1>1 DEF LeaseTypeOK, ElectionFails
    <2>2. LeaseInv'
      <3>1. LeaseIsExclusive'
        BY DEF LeaseTypeOK, ElectionFails, LeaseInv, LeaseIsExclusive
      <3> QED  BY <3>1 DEF LeaseTypeOK, ElectionFails, LeaseInv
    <2>3. TimeInv'
      BY <1>1 DEF LeaseTypeOK, ElectionFails, TimeInv
    <2> QED  BY <2>1, <2>2, <2>3
  <1> QED  BY <1>2, <1>3

LEMMA TickLease == ASSUME LEInv, Tick PROVE LEInv'
  <1> USE TimesAssumption, IdsAssumption DEF LEInv
  <1>1. /\ now' = now + 1 /\ faults' \in Nat /\ (faults' = 0 => faults = 0)
        /\ lastLed' = lastLed \/ lastLed' = now'
        /\ up' = up /\ upAt' = upAt /\ lock' = lock /\ isLeader' = isLeader /\ due' = due
        /\ election' = election /\ asked' = asked /\ held' = held
        /\ faults' = 0 => \A i \in up : election[i] = "idle" /\ due[i] > now
    BY DEF Tick, Fault, LeaseTypeOK, lease
  <1>2. LeaseTypeOK'
    BY <1>1 DEF LeaseTypeOK
  <1>3. LeaseInv'
    BY <1>1 DEF LeaseTypeOK, LeaseInv, LeaseIsExclusive
  <1>4. TimeInv'
    BY <1>1 DEF LeaseTypeOK, LeaseInv, TimeInv, NextTick
  <1> QED  BY <1>2, <1>3, <1>4

LEMMA CrashLease == ASSUME LEInv, NEW i \in Instances, Crash(i) PROVE LEInv'
  <1> USE TimesAssumption, IdsAssumption DEF LEInv
  <1>1. /\ lock' = NULL <=> lock = NULL
        /\ lock # NULL => /\ lock' \in [holder : Instances \cup {Gone}, until : Nat]
                          /\ lock'.until = lock.until
                          /\ lock'.holder = IF lock.holder = i THEN Gone ELSE lock.holder
    BY DEF Crash, LeaseTypeOK
  <1>2. LeaseTypeOK'
    BY <1>1 DEF Crash, LeaseTypeOK
  <1>3. LeaseInv'
    BY <1>1 DEF Crash, LeaseTypeOK, LeaseInv, LeaseIsExclusive
  <1>4. TimeInv'
    BY <1>1 DEF Crash, LeaseTypeOK, LeaseInv, TimeInv, NextTick
  <1> QED  BY <1>2, <1>3, <1>4

LEMMA StartLease == ASSUME LEInv, NEW i \in Instances, Start(i) PROVE LEInv'
  <1> USE TimesAssumption, IdsAssumption DEF LEInv
  <1>1. LeaseTypeOK'
    BY DEF Start, LeaseTypeOK
  <1>2. LeaseInv'
    BY DEF Start, LeaseTypeOK, LeaseInv, LeaseIsExclusive
  <1>3. TimeInv'
    BY DEF Start, LeaseTypeOK, LeaseInv, TimeInv, NextTick
  <1> QED  BY <1>1, <1>2, <1>3

LEMMA LeaseStep == ASSUME LEInv, [Next]_vars PROVE LEInv'
  <1>1. ASSUME NEW i \in Instances, ExportTick(i) \/ Export(i) PROVE LEInv'
    BY <1>1, LeaseApart DEF ExportTick, Export, Dispatch, Seed, List
  <1>2. ASSUME NEW s \in Streams, InsertRow(s) PROVE LEInv'
    BY <1>2, LeaseApart DEF InsertRow
  <1>3. CASE UNCHANGED vars
    BY <1>3, LeaseApart DEF vars
  <1> QED
    BY <1>1, <1>2, <1>3, TickLease, ElectionTickLease, RenewLease, ClaimFirstLease,
       ElectionFailsLease, CrashLease, StartLease
    DEF Next, Elect

EXInv == ExportTypeOK /\ ExportInv

-----------------------------------------------------------------------------
(* The cursors are kept by every step *)

LEMMA ExportInit == Init => EXInv
  BY IdsAssumption DEF Init, EXInv, ExportTypeOK, ExportInv, CursorIsDelivered

LEMMA ExportApart ==
    ASSUME EXInv, UNCHANGED export, rows' \in [Streams -> Nat]
    PROVE  EXInv'
  <1>1. /\ job' = job /\ todo' = todo /\ cursor' = cursor /\ seed' = seed /\ batch' = batch
        /\ forwarded' = forwarded
    BY DEF export
  <1> QED
    BY <1>1 DEF EXInv, ExportTypeOK, ExportInv, CursorIsDelivered, Gathered

LEMMA ExportTickExport == ASSUME EXInv, NEW i \in Instances, ExportTick(i) PROVE EXInv'
  <1> USE IdsAssumption DEF EXInv
  <1>1. ExportTypeOK'
    BY DEF ExportTypeOK, ExportTick
  <1>2. ASSUME NEW j \in Instances, NEW s \in Streams, cursor[j][s] # NULL
        PROVE  \E m \in Nat : Gathered(j, s, m)'
    <2>1. CASE j = i
      <3>1. cursor[j][s] \in Nat /\ batch'[j] = {} /\ cursor' = cursor
        BY <1>2, <2>1 DEF ExportTypeOK, ExportTick
      <3>2. Gathered(j, s, cursor[j][s])'
        BY <3>1 DEF Gathered
      <3> QED  BY <3>1, <3>2
    <2>2. CASE j # i
      <3>1. cursor' = cursor /\ batch'[j] = batch[j]
        BY <2>2 DEF ExportTypeOK, ExportTick
      <3>2. PICK m \in Nat : Gathered(j, s, m)
        BY <1>2 DEF ExportInv
      <3> QED  BY <3>1, <3>2 DEF Gathered
    <2> QED  BY <2>1, <2>2
  <1>3. CursorIsDelivered'
    BY DEF ExportTick, ExportInv, CursorIsDelivered
  <1> QED
    BY <1>1, <1>2, <1>3 DEF ExportTypeOK, ExportTick, ExportInv

LEMMA SeedExport ==
    ASSUME EXInv, NEW i \in Instances, NEW s \in Streams, Seed(i, s) PROVE EXInv'
  <1> USE IdsAssumption DEF EXInv
  <1>0. PICK from \in Nat : /\ cursor' = [cursor EXCEPT ![i][s] = from]
                            /\ seed' = [seed EXCEPT ![i][s] = from]
    BY DEF Seed, ExportTypeOK
  <1>1. ExportTypeOK'
    BY <1>0 DEF ExportTypeOK, Seed
  <1>2. /\ cursor'[i][s] = from /\ seed'[i][s] = from
        /\ \A j \in Instances, z \in Streams :
              <<j, z>> # <<i, s>> => cursor'[j][z] = cursor[j][z] /\ seed'[j][z] = seed[j][z]
        /\ job' = job /\ todo' = todo /\ batch' = batch /\ forwarded' = forwarded
    BY <1>0 DEF ExportTypeOK, Seed
  <1>3. ASSUME NEW j \in Instances, NEW z \in Streams, cursor'[j][z] # NULL
        PROVE  /\ seed'[j][z] \in Nat /\ seed'[j][z] <= cursor'[j][z]
               /\ \E m \in Nat : Gathered(j, z, m)'
    <2>1. CASE <<j, z>> = <<i, s>>
      <3>1. \A r \in Nat : <<s, r>> \notin batch[i]
        BY DEF Seed, ExportInv
      <3>2. Gathered(j, z, from)'
        BY <1>2, <2>1, <3>1 DEF Gathered
      <3> QED  BY <1>2, <2>1, <3>2
    <2>2. CASE <<j, z>> # <<i, s>>
      <3>1. PICK m \in Nat : Gathered(j, z, m)
        BY <1>2, <1>3, <2>2 DEF ExportInv
      <3>2. Gathered(j, z, m)'
        BY <1>2, <2>2, <3>1 DEF Gathered
      <3> QED  BY <1>2, <1>3, <2>2, <3>2 DEF ExportInv
    <2> QED  BY <2>1, <2>2
  <1>4. CursorIsDelivered'
    BY <1>2 DEF ExportInv, CursorIsDelivered
  <1> QED
    BY <1>1, <1>2, <1>3, <1>4 DEF ExportTypeOK, Seed, ExportInv

(***************************************************************************)
(* A listing is the rows from the cursor to the highest it returned.       *)
(***************************************************************************)
LEMMA SinceIsInterval ==
    ASSUME ExportTypeOK, NEW i \in Instances, NEW s \in Streams, cursor[i][s] \in Nat
    PROVE  /\ Since(i, s) \subseteq Nat
           /\ \E m \in Nat : m >= cursor[i][s] /\ Since(i, s) = cursor[i][s] + 1 .. m
  <1> USE TimesAssumption
  <1>1. rows[s] \in Nat
    BY DEF ExportTypeOK
  <1>2. CASE rows[s] <= cursor[i][s]
    <2>1. Since(i, s) = cursor[i][s] + 1 .. cursor[i][s]
      BY <1>1, <1>2 DEF Since
    <2> QED  BY <2>1
  <1>3. CASE rows[s] > cursor[i][s] /\ rows[s] <= cursor[i][s] + Batch
    <2>1. Since(i, s) = cursor[i][s] + 1 .. rows[s]
      BY <1>1, <1>3 DEF Since
    <2> QED  BY <1>1, <1>3, <2>1
  <1>4. CASE rows[s] > cursor[i][s] + Batch
    <2>1. Since(i, s) = cursor[i][s] + 1 .. cursor[i][s] + Batch
      BY <1>1, <1>4 DEF Since
    <2> QED  BY <2>1
  <1> QED  BY <1>1, <1>2, <1>3, <1>4

LEMMA ListExport ==
    ASSUME EXInv, NEW i \in Instances, NEW s \in Streams, List(i, s) PROVE EXInv'
  <1> USE IdsAssumption DEF EXInv
  <1>0. cursor[i][s] \in Nat /\ s \in todo[i]
    BY DEF ExportTypeOK, List
  <1>1. PICK got \in SUBSET Nat :
           /\ batch' = [batch EXCEPT ![i] = @ \cup ({s} \X got)]
           /\ \E m \in Nat : m >= cursor[i][s] /\ got = cursor[i][s] + 1 .. m
    <2>1. CASE batch' = [batch EXCEPT ![i] = @ \cup ({s} \X Since(i, s))]
      BY <1>0, <2>1, SinceIsInterval
    <2>2. CASE UNCHANGED batch
      <3>1. cursor[i][s] + 1 .. cursor[i][s] = {}
        BY <1>0
      <3>2. batch' = [batch EXCEPT ![i] = @ \cup ({s} \X {})]
        BY <2>2 DEF ExportTypeOK
      <3> WITNESS {} \in SUBSET Nat
      <3> QED  BY <1>0, <3>1, <3>2
    <2> QED  BY <2>1, <2>2 DEF List
  <1>2. /\ cursor' = cursor /\ seed' = seed /\ job' = job /\ forwarded' = forwarded
        /\ todo' = [todo EXCEPT ![i] = @ \ {s}]
        /\ rows' = rows
    BY DEF List
  <1>3. /\ batch'[i] = batch[i] \cup ({s} \X got)
        /\ \A j \in Instances : j # i => batch'[j] = batch[j]
    BY <1>1 DEF ExportTypeOK
  <1>4. ExportTypeOK'
    BY <1>1, <1>2 DEF ExportTypeOK
  <1>5. \A j \in Instances, z \in Streams : <<j, z>> # <<i, s>> =>
           \A r \in Nat : <<z, r>> \in batch'[j] <=> <<z, r>> \in batch[j]
    BY <1>3
  <1>6. \A r \in Nat : <<s, r>> \in batch'[i] <=> r \in got
    <2>1. \A r \in Nat : <<s, r>> \notin batch[i]
      BY <1>0 DEF ExportInv
    <2> QED  BY <1>3, <2>1
  <1>7. ASSUME NEW j \in Instances, NEW z \in Streams, cursor'[j][z] # NULL
        PROVE  \E m \in Nat : Gathered(j, z, m)'
    <2>1. CASE <<j, z>> = <<i, s>>
      <3>1. PICK m \in Nat : m >= cursor[i][s] /\ got = cursor[i][s] + 1 .. m
        BY <1>1
      <3>2. Gathered(j, z, m)'
        BY <1>2, <1>6, <2>1, <3>1 DEF Gathered
      <3> QED  BY <3>2
    <2>2. CASE <<j, z>> # <<i, s>>
      <3>1. PICK m \in Nat : Gathered(j, z, m)
        BY <1>2, <1>7 DEF ExportInv
      <3>2. Gathered(j, z, m)'
        BY <1>2, <1>5, <2>2, <3>1 DEF Gathered
      <3> QED  BY <3>2
    <2> QED  BY <2>1, <2>2
  <1>8. CursorIsDelivered'
    BY <1>2 DEF ExportInv, CursorIsDelivered
  <1>9. ASSUME NEW j \in Instances, NEW z \in Streams
        PROVE  /\ z \in todo'[j] => \A r \in Nat : <<z, r>> \notin batch'[j]
               /\ cursor'[j][z] = NULL =>
                     seed'[j][z] = NULL /\ \A r \in Nat : <<z, r>> \notin batch'[j]
               /\ job'[j] = "gather" /\ z \notin todo'[j] => cursor'[j][z] # NULL
               /\ cursor'[j][z] # NULL => seed'[j][z] \in Nat /\ seed'[j][z] <= cursor'[j][z]
    <2>1. CASE <<j, z>> = <<i, s>>
      <3>1. z \notin todo'[j]
        BY <1>2, <2>1 DEF ExportTypeOK
      <3> QED  BY <1>0, <1>2, <2>1, <3>1 DEF ExportInv
    <2>2. CASE <<j, z>> # <<i, s>>
      <3>1. z \in todo'[j] <=> z \in todo[j]
        BY <1>2, <2>2 DEF ExportTypeOK
      <3> QED  BY <1>2, <1>5, <2>2, <3>1 DEF ExportInv
    <2> QED  BY <2>1, <2>2
  <1> QED
    BY <1>4, <1>7, <1>8, <1>9 DEF ExportInv

(***************************************************************************)
(* max_seen is the end of what the batch holds of the stream.              *)
(***************************************************************************)
LEMMA MaxSeenIsEnd ==
    ASSUME ExportTypeOK, NEW i \in Instances, NEW s \in Streams, cursor[i][s] \in Nat,
           NEW m \in Nat, Gathered(i, s, m)
    PROVE  MaxSeen(i, s) = m
  <1> DEFINE S == {cursor[i][s]} \cup {e[2] : e \in {e \in batch[i] : e[1] = s}}
  <1>1. \A e \in batch[i] : e = <<e[1], e[2]>> /\ e[2] \in Nat
    BY DEF ExportTypeOK
  <1>2. \A x \in S : x \in Nat /\ x <= m
    BY <1>1 DEF Gathered
  <1>3. m \in S
    <2>1. CASE m = cursor[i][s]
      BY <2>1
    <2>2. CASE m # cursor[i][s]
      <3>1. <<s, m>> \in batch[i]
        BY <2>2 DEF Gathered
      <3>2. <<s, m>> \in {e \in batch[i] : e[1] = s} /\ <<s, m>>[2] = m
        BY <3>1
      <3> QED  BY <3>2
    <2> QED  BY <2>1, <2>2
  <1>4. \A x \in S : (\A y \in S : x >= y) => x = m
    BY <1>2, <1>3
  <1>5. \A y \in S : m >= y
    BY <1>2
  <1> HIDE DEF S
  <1>6. Max(S) = m
    BY <1>3, <1>4, <1>5 DEF Max
  <1> QED  BY <1>6 DEF S, MaxSeen

LEMMA DispatchExport == ASSUME EXInv, NEW i \in Instances, Dispatch(i) PROVE EXInv'
  <1> USE IdsAssumption DEF EXInv
  <1>0. \A s \in Streams : cursor[i][s] \in Nat
    BY DEF ExportTypeOK, ExportInv, Dispatch
  <1>1. PICK ok, stored \in BOOLEAN :
           /\ ok => stored
           /\ forwarded' = IF stored THEN forwarded \cup {<<i, e[1], e[2]>> : e \in batch[i]}
                                     ELSE forwarded
           /\ cursor' = [cursor EXCEPT ![i] = CursorsAfter(i, ok)]
    BY DEF Dispatch
  <1>2. /\ job' = [job EXCEPT ![i] = "idle"] /\ batch' = [batch EXCEPT ![i] = {}]
        /\ todo' = todo /\ seed' = seed /\ rows' = rows
    BY DEF Dispatch
  <1>3. \A s \in Streams, r \in Nat : ok /\ <<s, r>> \in batch[i] => <<i, s, r>> \in forwarded'
    BY <1>1
  <1>4. forwarded \subseteq forwarded' /\ forwarded' \subseteq Instances \X Streams \X Nat
    <2>1. \A e \in batch[i] : e[1] \in Streams /\ e[2] \in Nat
      BY DEF ExportTypeOK
    <2>2. {<<i, e[1], e[2]>> : e \in batch[i]} \subseteq Instances \X Streams \X Nat
      BY <2>1
    <2> QED  BY <1>1, <2>2 DEF ExportTypeOK
  <1>5. ASSUME NEW s \in Streams
        PROVE  /\ cursor'[i][s] \in Nat /\ cursor'[i][s] >= cursor[i][s]
               /\ \A r \in cursor[i][s] + 1 .. cursor'[i][s] : <<i, s, r>> \in forwarded'
    <2>1. PICK m \in Nat : Gathered(i, s, m)
      BY <1>0 DEF ExportInv
    <2>2. CASE ok
      <3>1. cursor'[i][s] = m
        BY <1>0, <1>1, <2>1, <2>2, MaxSeenIsEnd DEF CursorsAfter, ExportTypeOK
      <3>2. \A r \in cursor[i][s] + 1 .. m : r \in Nat /\ <<s, r>> \in batch[i]
        BY <1>0, <2>1 DEF Gathered
      <3> QED  BY <1>0, <1>3, <2>1, <2>2, <3>1, <3>2 DEF Gathered
    <2>3. CASE ~ok
      <3>1. cursor'[i][s] = cursor[i][s]
        BY <1>1, <2>3 DEF CursorsAfter, ExportTypeOK
      <3> QED  BY <1>0, <3>1
    <2> QED  BY <2>2, <2>3
  <1>6. \A j \in Instances : j # i => cursor'[j] = cursor[j] /\ batch'[j] = batch[j]
                                    /\ job'[j] = job[j]
    BY <1>1, <1>2 DEF ExportTypeOK
  <1>7. ExportTypeOK'
    <2>1. CursorsAfter(i, ok) \in [Streams -> Nat \cup {NULL}]
      <3>1. CASE ok
        <4>1. \A s \in Streams : MaxSeen(i, s) \in Nat
          BY <1>0, MaxSeenIsEnd DEF ExportInv
        <4> QED  BY <3>1, <4>1 DEF CursorsAfter
      <3>2. CASE ~ok
        BY <3>2 DEF CursorsAfter, ExportTypeOK
      <3> QED  BY <3>1, <3>2
    <2>2. cursor' \in [Instances -> [Streams -> Nat \cup {NULL}]]
      BY <1>1, <2>1 DEF ExportTypeOK
    <2> QED  BY <1>2, <1>4, <2>2 DEF ExportTypeOK
  <1>8. CursorIsDelivered'
    <2>1. SUFFICES ASSUME NEW j \in Instances, NEW s \in Streams, cursor'[j][s] # NULL,
                          NEW r \in seed[j][s] + 1 .. cursor'[j][s]
                   PROVE  <<j, s, r>> \in forwarded'
      BY <1>2 DEF CursorIsDelivered
    <2>2. CASE j # i
      BY <1>4, <1>6, <2>1, <2>2 DEF ExportInv, CursorIsDelivered
    <2>3. CASE j = i
      <3>1. seed[i][s] \in Nat /\ cursor[i][s] \in Nat /\ cursor'[i][s] \in Nat
        BY <1>0, <1>5 DEF ExportInv
      <3>2. CASE r <= cursor[i][s]
        <4>1. r \in seed[i][s] + 1 .. cursor[i][s]
          BY <2>1, <2>3, <3>1, <3>2
        <4>2. <<i, s, r>> \in forwarded
          BY <1>0, <4>1 DEF ExportInv, CursorIsDelivered
        <4> QED  BY <1>4, <2>3, <4>2
      <3>3. CASE ~(r <= cursor[i][s])
        <4>1. r \in cursor[i][s] + 1 .. cursor'[i][s]
          BY <2>1, <2>3, <3>1, <3>3
        <4> QED  BY <1>5, <2>3, <4>1
      <3> QED  BY <3>2, <3>3
    <2> QED  BY <2>2, <2>3
  <1>9. ASSUME NEW j \in Instances, NEW s \in Streams, cursor'[j][s] # NULL
        PROVE  /\ seed'[j][s] \in Nat /\ seed'[j][s] <= cursor'[j][s]
               /\ \E m \in Nat : Gathered(j, s, m)'
    <2>1. CASE j # i
      <3>1. PICK m \in Nat : Gathered(j, s, m)
        BY <1>6, <1>9, <2>1 DEF ExportInv
      <3>2. Gathered(j, s, m)'
        BY <1>6, <2>1, <3>1 DEF Gathered
      <3> QED  BY <1>2, <1>6, <1>9, <2>1, <3>2 DEF ExportInv
    <2>2. CASE j = i
      <3>1. batch'[i] = {}
        BY <1>2 DEF ExportTypeOK
      <3>2. PICK m \in Nat : m = cursor'[i][s]
        BY <1>5
      <3>4. Gathered(j, s, m)'
        BY <2>2, <3>1, <3>2 DEF Gathered
      <3>3. seed[i][s] \in Nat /\ seed[i][s] <= cursor[i][s]
        BY <1>0 DEF ExportInv
      <3> QED  BY <1>0, <1>2, <1>5, <2>2, <3>3, <3>4
    <2> QED  BY <2>1, <2>2
  <1>10. ASSUME NEW j \in Instances, NEW s \in Streams
         PROVE  /\ s \in todo'[j] => \A r \in Nat : <<s, r>> \notin batch'[j]
                /\ cursor'[j][s] = NULL =>
                      seed'[j][s] = NULL /\ \A r \in Nat : <<s, r>> \notin batch'[j]
                /\ job'[j] = "gather" /\ s \notin todo'[j] => cursor'[j][s] # NULL
    <2>1. CASE j # i
      BY <1>2, <1>6, <2>1 DEF ExportInv
    <2>2. CASE j = i
      BY <1>2, <1>5, <2>2 DEF ExportTypeOK
    <2> QED  BY <2>1, <2>2
  <1> QED
    BY <1>7, <1>8, <1>9, <1>10 DEF ExportInv

LEMMA CrashExport == ASSUME EXInv, NEW i \in Instances, Crash(i) PROVE EXInv'
  <1> USE IdsAssumption DEF EXInv
  <1>1. ExportTypeOK'
    BY DEF ExportTypeOK, Crash
  <1>2. /\ \A s \in Streams : cursor'[i][s] = NULL /\ seed'[i][s] = NULL
        /\ batch'[i] = {} /\ job'[i] = "idle" /\ todo'[i] = {}
        /\ \A j \in Instances : j # i =>
              /\ cursor'[j] = cursor[j] /\ seed'[j] = seed[j] /\ batch'[j] = batch[j]
              /\ job'[j] = job[j] /\ todo'[j] = todo[j]
        /\ forwarded' = forwarded
    BY DEF ExportTypeOK, Crash
  <1>3. CursorIsDelivered'
    BY <1>2 DEF ExportInv, CursorIsDelivered
  <1>4. ASSUME NEW j \in Instances, NEW s \in Streams, cursor'[j][s] # NULL
        PROVE  \E m \in Nat : Gathered(j, s, m)'
    <2>1. j # i
      BY <1>2, <1>4
    <2>2. PICK m \in Nat : Gathered(j, s, m)
      BY <1>2, <1>4, <2>1 DEF ExportInv
    <2>3. Gathered(j, s, m)'
      BY <1>2, <2>1, <2>2 DEF Gathered
    <2> QED  BY <2>3
  <1>5. ASSUME NEW j \in Instances, NEW s \in Streams
        PROVE  /\ s \in todo'[j] => \A r \in Nat : <<s, r>> \notin batch'[j]
               /\ cursor'[j][s] = NULL =>
                     seed'[j][s] = NULL /\ \A r \in Nat : <<s, r>> \notin batch'[j]
               /\ job'[j] = "gather" /\ s \notin todo'[j] => cursor'[j][s] # NULL
               /\ cursor'[j][s] # NULL => seed'[j][s] \in Nat /\ seed'[j][s] <= cursor'[j][s]
    <2>1. CASE j = i
      BY <1>2, <2>1
    <2>2. CASE j # i
      BY <1>2, <2>2 DEF ExportInv
    <2> QED  BY <2>1, <2>2
  <1> QED
    BY <1>1, <1>3, <1>4, <1>5 DEF ExportInv

LEMMA ExportStep == ASSUME EXInv, [Next]_vars PROVE EXInv'
  <1>0. rows \in [Streams -> Nat]
    BY DEF EXInv, ExportTypeOK
  <1>1. ASSUME NEW s \in Streams, InsertRow(s) PROVE EXInv'
    BY <1>0, <1>1, ExportApart DEF InsertRow
  <1>2. ASSUME NEW i \in Instances, Elect(i) \/ ElectionFails(i) \/ Start(i) PROVE EXInv'
    BY <1>0, <1>2, ExportApart
    DEF Elect, ElectionTick, Renew, ClaimFirst, Won, ElectionFails, Start
  <1>3. CASE Tick
    BY <1>0, <1>3, ExportApart DEF Tick
  <1>4. CASE UNCHANGED vars
    BY <1>0, <1>4, ExportApart DEF vars
  <1>5. ASSUME NEW i \in Instances, Export(i) PROVE EXInv'
    BY <1>5, DispatchExport, SeedExport, ListExport DEF Export
  <1> QED
    BY <1>1, <1>2, <1>3, <1>4, <1>5, ExportTickExport, CrashExport DEF Next

-----------------------------------------------------------------------------
(* The theorems *)

LEMMA Invariance == Spec => [](LEInv /\ EXInv)
  <1>1. Init => LEInv /\ EXInv
    BY LeaseInit, ExportInit
  <1>2. LEInv /\ EXInv /\ [Next]_vars => (LEInv /\ EXInv)'
    BY LeaseStep, ExportStep
  <1> QED  BY <1>1, <1>2, PTL DEF Spec

(***************************************************************************)
(* Every variable keeps its type, max_seen and the lease's expiry included.*)
(***************************************************************************)
THEOREM TypeCorrect == Spec => []TypeOK
  <1>1. LEInv /\ EXInv => TypeOK
    BY DEF LEInv, EXInv, TypeOK
  <1> QED  BY <1>1, Invariance, PTL

(***************************************************************************)
(* try_acquire_or_renew_leadership: whatever number of gateways, failures, *)
(* delays and crashes, the row belongs to whoever was last told it leads   *)
(* until the lease it was told of has run out.                             *)
(***************************************************************************)
THEOREM LeaseExclusive == Spec => []LeaseIsExclusive
  <1>1. LEInv => LeaseIsExclusive
    BY DEF LEInv, LeaseInv
  <1> QED  BY <1>1, Invariance, PTL

(***************************************************************************)
(* run_leader_election_loop, for every Lease >= Interval: as long as no    *)
(* statement fails or is delayed, a live process has the lease again at    *)
(* most Lease + Interval after the last one that held it.                  *)
(***************************************************************************)
THEOREM TransferredInTime == Spec => []TransferInTime
  <1>1. ASSUME NEW a \in Nat, NEW b \in Nat
        PROVE  Max({a, b}) \in Nat /\ Max({a, b}) >= a /\ Max({a, b}) >= b
    <2>1. \E x \in {a, b} : \A y \in {a, b} : x >= y
      BY a >= b \/ b >= a
    <2>2. Max({a, b}) \in {a, b} /\ \A y \in {a, b} : Max({a, b}) >= y
      BY <2>1 DEF Max
    <2> QED  BY <2>2
  <1>2. LEInv => TransferInTime
    <2> SUFFICES ASSUME LEInv, faults = 0, NEW i \in up
                 PROVE  now - Max({lastLed, upAt[i]}) <= Lease + Interval
      BY DEF TransferInTime
    <2>1. i \in Instances /\ lastLed \in Nat /\ upAt[i] \in Nat /\ now \in Nat /\ due[i] \in Nat
      BY DEF LEInv, LeaseTypeOK
    <2>2. now <= upAt[i] \/ now <= lastLed + Lease + Interval
      BY <2>1, TimesAssumption DEF LEInv, LeaseTypeOK, TimeInv, NextTick
    <2> QED  BY <1>1, <2>1, <2>2, TimesAssumption
  <1> QED  BY <1>2, Invariance, PTL

(***************************************************************************)
(* run_splunk_export_job: whatever listing or POST fails, and for every    *)
(* batch limit, no cursor passes a row its process did not get through.    *)
(***************************************************************************)
THEOREM CursorDelivered == Spec => []CursorIsDelivered
  <1>1. EXInv => CursorIsDelivered
    BY DEF EXInv, ExportInv
  <1> QED  BY <1>1, Invariance, PTL
=============================================================================
