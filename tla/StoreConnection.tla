-------------------------- MODULE StoreConnection --------------------------
(***************************************************************************)
(* Who executes the statements of MemoryStore: each call of the store runs *)
(* in a thread of its own (asyncio.to_thread), all threads share one       *)
(* sqlite3 connection under one lock, and the event loop may close the     *)
(* store while threads still run.  A thread cannot be cancelled: the        *)
(* coroutine that waits for it can.                                        *)
(***************************************************************************)
EXTENDS MemoryStore

CONSTANTS
  Thread,       \* the threads that calls run in, one call at a time each
  Closer,       \* the thread that closes the store
  Calls,        \* the calls the store may be given
  MaxReopen     \* bound on connections opened

ASSUME ConnectionAssumption == Closer \notin Thread /\ None \notin Thread \cup {Closer}

VARIABLES
  conn,      \* MemoryStore._conn: a connection or None
  opened,    \* how many connections were ever opened
  open,      \* those that are open
  lock,      \* who holds _conn_lock
  thread,    \* for each thread, its call and where it is in it
  closing,   \* close(): "no", the connection it has yet to close, or "done"
  db         \* what is committed

storeVars == <<conn, opened, open, lock, thread, closing, db>>

\* A thread that is not in the database, and one that has executed n statements
\* of c on the connection k, with what they made of the database.
Outside(at, c, out) ==
  [at |-> at, call |-> c, n |-> 0, conn |-> None, txn |-> None, out |-> out]
Running(c, n, k, txn) ==
  [at |-> "inside", call |-> c, n |-> n, conn |-> k, txn |-> txn, out |-> None]
Rest == Outside("idle", None, None)

StoreInit ==
  /\ conn = None /\ opened = 0 /\ open = {} /\ lock = None
  /\ thread = [t \in Thread |-> Rest]
  /\ closing = [at |-> "no", conn |-> None]
  /\ db = Empty

-----------------------------------------------------------------------------
\* asyncio.to_thread: the thread waits for the lock.
Submit(t, c) ==
  /\ thread[t].at \in {"idle", "done", "failed"}
  /\ thread' = [thread EXCEPT ![t] = Outside("queued", c, None)]
  /\ UNCHANGED <<conn, opened, open, lock, closing, db>>

\* with self._conn_lock: conn = self._ensure_conn().
Enter(t) ==
  /\ thread[t].at = "queued" /\ lock = None
  /\ IF conn # None THEN UNCHANGED <<conn, opened, open>>
     ELSE /\ opened < MaxReopen
          /\ opened' = opened + 1 /\ conn' = opened' /\ open' = open \cup {opened'}
  /\ lock' = t
  /\ thread' = [thread EXCEPT ![t] = Running(thread[t].call, 0, conn', db)]
  /\ UNCHANGED <<closing, db>>

\* with conn: the first statement that fails rolls the transaction back.
Execute(t) ==
  LET w == thread[t] IN
  /\ w.at = "inside" /\ w.n < StatementsOf(w.call)
  /\ LET d == Statement(w.call, w.n + 1, db, w.txn) IN
     IF d # Fails
     THEN /\ thread' = [thread EXCEPT ![t] = Running(w.call, w.n + 1, w.conn, d)]
          /\ UNCHANGED lock
     ELSE /\ thread' = [thread EXCEPT ![t] = Outside("failed", w.call, None)]
          /\ lock' = None
  /\ UNCHANGED <<conn, opened, open, closing, db>>

\* Faulty variant: statements commit one by one.
ErrorCommitting(t) ==
  LET w == thread[t] IN
  /\ w.at = "inside" /\ w.n < StatementsOf(w.call)
  /\ thread' = [thread EXCEPT ![t] = Outside("failed", w.call, None)]
  /\ lock' = None /\ db' = w.txn
  /\ UNCHANGED <<conn, opened, open, closing>>

\* A statement raises sqlite3.OperationalError (disk, another process).
Error(t) ==
  LET w == thread[t] IN
  /\ w.at = "inside" /\ w.n < StatementsOf(w.call)
  /\ thread' = [thread EXCEPT ![t] = Outside("failed", w.call, None)]
  /\ lock' = None
  /\ UNCHANGED <<conn, opened, open, closing, db>>

\* The transaction is committed or the rows are read, and the lock released.
Leave(t) ==
  LET w == thread[t] IN
  /\ w.at = "inside" /\ w.n = StatementsOf(w.call)
  /\ db' = w.txn
  /\ thread' = [thread EXCEPT ![t] = Outside("done", w.call, Answer(db, w.call))]
  /\ lock' = None
  /\ UNCHANGED <<conn, opened, open, closing>>

\* Faulty variant: the connection is closed on the event loop, at once.
CloseUnlocked ==
  /\ closing.at = "no"
  /\ closing' = [at |-> "done", conn |-> None]
  /\ conn' = None /\ open' = open \ {conn}
  /\ UNCHANGED <<opened, lock, thread, db>>

\* close() on the event loop: the connection is taken out of the store first.
Close ==
  /\ closing.at = "no"
  /\ closing' = IF conn = None THEN [at |-> "done", conn |-> None]
                ELSE [at |-> "waiting", conn |-> conn]
  /\ conn' = None
  /\ UNCHANGED <<opened, open, lock, thread, db>>

\* Faulty variant: looks at the store again for the connection to close.
CloseReread ==
  /\ closing.at = "waiting" /\ lock = None /\ conn # None
  /\ open' = open \ {conn}
  /\ closing' = [at |-> "done", conn |-> None]
  /\ UNCHANGED <<conn, opened, lock, thread, db>>

\* _close_under_lock, in a thread: once nobody is inside.
CloseUnderLock ==
  /\ closing.at = "waiting" /\ lock = None
  /\ open' = open \ {closing.conn}
  /\ closing' = [at |-> "done", conn |-> None]
  /\ UNCHANGED <<conn, opened, lock, thread, db>>

ThreadNext(t) == Enter(t) \/ Execute(t) \/ Leave(t)

StoreNext ==
  \/ \E t \in Thread : ThreadNext(t) \/ Error(t)
  \/ \E t \in Thread, c \in Calls : Submit(t, c)
  \/ Close \/ CloseUnderLock

StoreSpec == StoreInit /\ [][StoreNext]_storeVars

-----------------------------------------------------------------------------
(* Properties *)

Inside(t) == thread[t].at = "inside"

\* No thread is in a statement of a connection that has been closed, which
\* would be a use after free in the sqlite extension (store.py:372-383), and
\* no two threads use one connection (store.py:77-93), whatever was
\* cancelled, however many calls were still queued when the store was closed.
ConnectionDiscipline ==
  /\ \A t \in Thread : Inside(t) => thread[t].conn \in open
  /\ \A t, u \in Thread : Inside(t) /\ Inside(u) => t = u

\* A memory and its vector are written together or not at all: there is never
\* a vector without its row, even when a statement of the pair has failed
\* (store.py:405-500, 752-792).
VectorsHaveRows == DOMAIN db.vec \subseteq DOMAIN db.row
=============================================================================
