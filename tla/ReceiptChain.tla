----------------------------- MODULE ReceiptChain -----------------------------
(***************************************************************************)
(* The per-tenant hash chain of action receipts (lib/storage): the atomic  *)
(* append, the batch append, and the sink and background writer that batch *)
(* the receipts of unprotected decisions.                                  *)
(*                                                                         *)
(* An append is a transaction of three statements on one connection: read  *)
(* the tenant's chain head, insert the receipt that refers to it, commit.  *)
(* The statements of different connections interleave.  On SQLite BEGIN    *)
(* IMMEDIATE takes the database's write lock first (Locking); on Postgres  *)
(* the transaction is a plain READ COMMITTED one.                          *)
(*                                                                         *)
(* receipt_hash covers the receipt's id and is unique to its row, so a     *)
(* hash is written as the id of the receipt it belongs to.  A tokio mpsc   *)
(* channel is a bounded sequence.                                          *)
(***************************************************************************)
EXTENDS Naturals, Sequences, FiniteSets, FiniteSetsExt

CONSTANTS
    Receipts,       \* receipts to be appended, each once
    Deferred,       \* those handed to the ReceiptBatchSink
    TenantOf,       \* TenantOf[r]: whose chain r belongs to
    Genesis,        \* the empty prev_receipt_hash
    Writer,         \* the batch writer task
    Nobody,         \* no holder of the write lock
    Locking,        \* TRUE: SQLite, FALSE: Postgres
    Capacity,       \* of the sink's channel
    BatchSize,      \* rows that trigger a flush
    MaxCrashes      \* bound on process restarts

ASSUME SinkAssumption ==
    /\ Deferred \subseteq Receipts
    /\ Capacity \in Nat \ {0} /\ BatchSize \in Nat \ {0}
ASSUME NamesAssumption ==
    /\ Writer \notin Receipts /\ Genesis \notin Receipts
    /\ Nobody \notin Receipts \cup {Writer}
ASSUME BackendAssumption == Locking \in BOOLEAN /\ MaxCrashes \in Nat

Connections == Receipts \cup {Writer}

VARIABLES
    rows,       \* committed rows of action_receipts: id, prev_receipt_hash, rowid
    serial,     \* the last rowid handed out
    lock,       \* which connection holds SQLite's write lock
    tx,         \* tx[c]: statement c is at, receipts to insert, tenants whose receipts
                \* it has inserted, head it read, its own rows
    caller,     \* caller[r]: what became of the call that emits r
    queue, open,    \* the sink's channel; whether senders remain
    buf, left,      \* the writer's buffer; what its single-row fallback has left of it
    mode,       \* where the writer task is
    logged,     \* receipts whose single-row fallback failed
    crashes

database == <<rows, serial, lock, tx>>
channel == <<queue, open>>
task == <<buf, left, mode, logged>>
vars == <<database, caller, channel, task, crashes>>

Ids(table) == {x.id : x \in table}
NoTx == [at |-> "none", todo |-> <<>>, done |-> {}, prev |-> Genesis, new |-> {}]

Init ==
    /\ rows = {} /\ serial = 0 /\ lock = Nobody
    /\ tx = [c \in Connections |-> NoTx]
    /\ caller = [r \in Receipts |-> "idle"]
    /\ queue = <<>> /\ open = TRUE
    /\ buf = <<>> /\ left = <<>> /\ mode = "receive"
    /\ logged = {} /\ crashes = 0

-----------------------------------------------------------------------------
(* Transactions. *)

\* What a statement of connection c sees: committed rows and its own.
Visible(c) == rows \cup tx[c].new

\* receipt_hash of the tenant's row with the greatest rowid.
HeadOf(table, t) ==
    LET mine == {x \in table : TenantOf[x.id] = t}
    IN  IF mine = {} THEN Genesis
        ELSE (CHOOSE x \in mine : \A y \in mine : y.rowid <= x.rowid).id

\* group_pending_by_tenant: tenants in order of their first receipt, and the
\* positions in todo of one tenant's receipts.
Tenants(todo) == {TenantOf[todo[i]] : i \in DOMAIN todo}
Group(todo, t) == {i \in DOMAIN todo : TenantOf[todo[i]] = t}
NextTenant(todo, done) ==
    TenantOf[todo[Min({i \in DOMAIN todo : TenantOf[todo[i]] \notin done})]]

\* chain_receipts_from_head, finalize_receipt_link: each receipt refers to the
\* one before it, the first to the head that was read.
Before(group, i) == {j \in group : j < i}
Chained(todo, group, prev, base) ==
    {[id |-> todo[i],
      prev |-> IF Before(group, i) = {} THEN prev ELSE todo[Max(Before(group, i))],
      rowid |-> base + Cardinality(Before(group, i)) + 1] : i \in group}

\* A connection is asked to append todo.
Ask(c, todo) == tx' = [tx EXCEPT ![c] = [NoTx EXCEPT !.at = "begin", !.todo = todo]]

\* BEGIN IMMEDIATE waits for the write lock; a Postgres BEGIN takes none.
BeginDeferred(c) ==
    /\ tx[c].at = "begin"
    /\ tx' = [tx EXCEPT ![c].at = "head"]
    /\ UNCHANGED <<rows, serial, lock, caller, channel, task, crashes>>

Begin(c) ==
    /\ tx[c].at = "begin"
    /\ Locking => lock = Nobody
    /\ lock' = IF Locking THEN c ELSE lock
    /\ tx' = [tx EXCEPT ![c].at = "head"]
    /\ UNCHANGED <<rows, serial, caller, channel, task, crashes>>

\* SELECT receipt_hash ... ORDER BY rowid DESC LIMIT 1.
ReadHead(c) ==
    /\ tx[c].at = "head"
    /\ tx' = [tx EXCEPT ![c].at = "insert",
                        ![c].prev = HeadOf(Visible(c), NextTenant(tx[c].todo, tx[c].done))]
    /\ UNCHANGED <<rows, serial, lock, caller, channel, task, crashes>>

\* INSERT of one tenant's receipts; the next tenant's head is read after it.
Insert(c) ==
    /\ tx[c].at = "insert"
    /\ LET todo == tx[c].todo
           t == NextTenant(todo, tx[c].done)
           done == tx[c].done \cup {t}
       IN  /\ serial' = serial + Cardinality(Group(todo, t))
           /\ tx' = [tx EXCEPT ![c].at = IF Tenants(todo) \subseteq done THEN "commit" ELSE "head",
                               ![c].done = done,
                               ![c].new = @ \cup Chained(todo, Group(todo, t), tx[c].prev, serial)]
    /\ UNCHANGED <<rows, lock, caller, channel, task, crashes>>

-----------------------------------------------------------------------------
(* The writer's side of an append that ended. *)

\* flush: the batch is in, or each of its receipts is appended on its own.
BatchEndsAnyway(ok) ==
    /\ mode' = "receive" /\ buf' = <<>> /\ left' = <<>>
    /\ UNCHANGED logged

BatchEnds(ok) ==
    /\ mode' = IF ok THEN "receive" ELSE "single"
    /\ buf' = IF ok THEN <<>> ELSE buf
    /\ left' = IF ok THEN <<>> ELSE buf
    /\ UNCHANGED logged

\* flush_fallback_individual: a failure is logged, the next one is tried.
SingleEnds(ok) ==
    /\ left' = Tail(left)
    /\ mode' = IF left' = <<>> THEN "receive" ELSE "single"
    /\ buf' = IF left' = <<>> THEN <<>> ELSE buf
    /\ logged' = IF ok THEN logged ELSE logged \cup {Head(left)}

\* The result goes to the writer, or to the request that appends itself.
Answer(c, ok) ==
    IF c = Writer
    THEN (IF mode = "batch" THEN BatchEnds(ok) ELSE SingleEnds(ok)) /\ UNCHANGED caller
    ELSE /\ caller' = [caller EXCEPT ![c] = IF ok THEN "ok" ELSE "failed"]
         /\ UNCHANGED task

Release(c) ==
    /\ lock' = IF lock = c THEN Nobody ELSE lock
    /\ tx' = [tx EXCEPT ![c] = NoTx]

Commit(c) ==
    /\ tx[c].at = "commit"
    /\ rows' = rows \cup tx[c].new
    /\ Release(c)
    /\ Answer(c, TRUE)
    /\ UNCHANGED <<serial, channel, crashes>>

\* A rolled back insert gives its rowids back on SQLite (max + 1), not on
\* Postgres (a sequence).
RollbackSerial == serial' = IF Locking THEN Max({0} \cup {x.rowid : x \in rows}) ELSE serial

\* SQLITE_BUSY after the busy timeout and its retries, or a failed statement:
\* ROLLBACK.  After a COMMIT that fails (I/O, disk full) the code issues none;
\* the database itself has rolled back by then, or does so when the connection
\* is dropped.
AbortKeepsRows(c) ==
    /\ tx[c].at # "none"
    /\ rows' = rows \cup tx[c].new
    /\ Release(c)
    /\ Answer(c, FALSE)
    /\ UNCHANGED <<serial, channel, crashes>>

Abort(c) ==
    /\ tx[c].at # "none"
    /\ Release(c)
    /\ Answer(c, FALSE)
    /\ IF tx[c].new = {} THEN UNCHANGED serial ELSE RollbackSerial
    /\ UNCHANGED <<rows, channel, crashes>>

-----------------------------------------------------------------------------
(* Requests. *)

\* A protected decision, a tamper attempt, an export: append before answering.
AppendDurable(r) ==
    /\ caller[r] = "idle" /\ r \notin Deferred
    /\ caller' = [caller EXCEPT ![r] = "appending"]
    /\ Ask(r, <<r>>)
    /\ UNCHANGED <<rows, serial, lock, channel, task, crashes>>

\* ReceiptBatchSink::emit: try_send; a full or closed channel appends at once.
Emit(r) ==
    /\ caller[r] = "idle" /\ r \in Deferred
    /\ IF open /\ Len(queue) < Capacity
         THEN /\ queue' = Append(queue, r)
              /\ caller' = [caller EXCEPT ![r] = "queued"]
              /\ UNCHANGED tx
         ELSE /\ caller' = [caller EXCEPT ![r] = "appending"]
              /\ Ask(r, <<r>>)
              /\ UNCHANGED queue
    /\ UNCHANGED <<rows, serial, lock, open, task, crashes>>

-----------------------------------------------------------------------------
(* run_receipt_batch_writer. *)

Flush(records) ==
    /\ mode' = "batch"
    /\ Ask(Writer, records)

\* rx.recv(): buffer, and flush a full batch.

Receive ==
    /\ mode = "receive" /\ queue # <<>>
    /\ queue' = Tail(queue)
    /\ buf' = Append(buf, Head(queue))
    /\ IF Len(buf') >= BatchSize THEN Flush(buf') ELSE UNCHANGED <<mode, tx>>
    /\ UNCHANGED <<rows, serial, lock, caller, open, left, logged, crashes>>

\* The interval's tick, or the end of the channel: flush what is buffered.
TickOnFullBatch ==
    /\ mode = "receive" /\ Len(buf) >= BatchSize
    /\ Flush(buf)
    /\ UNCHANGED <<rows, serial, lock, caller, channel, buf, left, logged, crashes>>

Tick ==
    /\ mode = "receive" /\ buf # <<>>
    /\ Flush(buf)
    /\ UNCHANGED <<rows, serial, lock, caller, channel, buf, left, logged, crashes>>

\* The next receipt of a failed batch.
Single ==
    /\ mode = "single" /\ tx[Writer].at = "none"
    /\ Ask(Writer, <<Head(left)>>)
    /\ UNCHANGED <<rows, serial, lock, caller, channel, task, crashes>>

\* recv() returns None once no sender and no message is left.
Stop ==
    /\ mode = "receive" /\ ~open /\ queue = <<>> /\ buf = <<>>
    /\ mode' = "stopped"
    /\ UNCHANGED <<database, caller, channel, buf, left, logged, crashes>>

-----------------------------------------------------------------------------
(* The process. *)

\* Graceful shutdown drops the last sink.
CloseSink ==
    /\ open
    /\ open' = FALSE
    /\ UNCHANGED <<database, caller, queue, task, crashes>>

\* The process dies, or exits because the drain timeout passed, and starts
\* again: open transactions roll back, the channel and the buffer are gone.
Crash ==
    /\ crashes < MaxCrashes
    /\ crashes' = crashes + 1
    /\ lock' = Nobody
    /\ RollbackSerial
    /\ tx' = [c \in Connections |-> NoTx]
    /\ caller' = [r \in Receipts |->
                    IF caller[r] \in {"appending", "queued"} THEN "dead" ELSE caller[r]]
    /\ queue' = <<>> /\ open' = TRUE
    /\ buf' = <<>> /\ left' = <<>> /\ mode' = "receive"
    /\ UNCHANGED <<rows, logged>>

ConnectionNext(c) == Begin(c) \/ ReadHead(c) \/ Insert(c) \/ Commit(c) \/ Abort(c)
WriterNext == Receive \/ Tick \/ Single \/ Stop

Next ==
    \/ \E c \in Connections : ConnectionNext(c)
    \/ \E r \in Receipts : AppendDurable(r) \/ Emit(r)
    \/ WriterNext
    \/ CloseSink \/ Crash

Spec == Init /\ [][Next]_vars

\* The runtime polls every task, every statement returns (the busy timeout
\* bounds the wait for the lock), and the interval ticks.  Nothing is assumed
\* of requests, of the shutdown or of crashes.
Fairness ==
    /\ \A c \in Connections : WF_vars(ConnectionNext(c))
    /\ WF_vars(WriterNext)

FairSpec == Spec /\ Fairness

-----------------------------------------------------------------------------
(* Properties. *)

Rows == [id : Receipts, prev : Receipts \cup {Genesis}, rowid : Nat]
Transactions ==
    [at : {"none", "begin", "head", "insert", "commit"}, todo : Seq(Receipts),
     done : SUBSET {TenantOf[r] : r \in Receipts}, prev : Receipts \cup {Genesis},
     new : SUBSET Rows]

\* Every variable keeps its type.
TypeOK ==
    /\ rows \subseteq Rows /\ serial \in Nat
    /\ lock \in Connections \cup {Nobody}
    /\ tx \in [Connections -> Transactions]
    /\ caller \in [Receipts -> {"idle", "appending", "queued", "ok", "failed", "dead"}]
    /\ queue \in Seq(Deferred) /\ buf \in Seq(Deferred) /\ left \in Seq(Deferred)
    /\ logged \subseteq Deferred
    /\ Len(queue) <= Capacity /\ Len(buf) <= BatchSize
    /\ open \in BOOLEAN /\ mode \in {"receive", "batch", "single", "stopped"}
    /\ crashes \in 0 .. MaxCrashes

\* verify_chain_records on every tenant: read in rowid order, each committed
\* receipt refers to the one before it and the first to the genesis hash.
ChainVerifies ==
    \A x \in rows :
        x.prev = HeadOf({y \in rows : y.rowid < x.rowid}, TenantOf[x.id])

\* An emitted receipt is never silently dropped: one that was acknowledged is
\* in the chain, one the sink accepted is in the chain, the channel or the
\* buffer, or its failed append was logged, or its process died.
NeverSilentlyDropped ==
    \A r \in Receipts :
        /\ caller[r] = "ok" => r \in Ids(rows)
        /\ caller[r] = "queued" => r \in Ids(rows) \cup Range(queue) \cup Range(buf) \cup logged

\* A receipt is in the chain once: neither the fallback after a failed batch
\* nor a request that appends for itself writes what is already there.
OnceInChain == \A x, y \in rows : x.id = y.id => x = y

\* What the sink accepted reaches the chain or the log, also when fewer than
\* BatchSize receipts ever come and when the sink is closed behind them.
AcceptedIsResolved ==
    \A r \in Deferred :
        caller[r] = "queued" ~> (r \in Ids(rows) \cup logged \/ caller[r] = "dead")

\* append_action_receipt_atomic: concurrent appends for a tenant cannot fork
\* the chain.
NoFork ==
    \A x, y \in rows : (TenantOf[x.id] = TenantOf[y.id] /\ x.prev = y.prev) => x = y

=============================================================================
