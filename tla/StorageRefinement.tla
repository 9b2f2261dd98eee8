-------------------------- MODULE StorageRefinement --------------------------
(***************************************************************************)
(* KestrelStorage implements TransactionalStore.  While the database is    *)
(* closed or opening, the abstract table is the newest published one; when *)
(* it is open, the abstract table is the one that readers see.  A thread   *)
(* is a client: its draft is its canonical transaction, until it is        *)
(* published.  After a crash, what was asked for is left over as far as    *)
(* the log has a whole frame of it.                                        *)
(***************************************************************************)
EXTENDS KestrelStorage

\* Where a thread waits for its commit to take effect.
Asked == {"commitLock", "append", "appending", "sync", "publish"}

InFlight == {w \in Workers : pc[w] \in Asked}

Draft ==
  [w \in Workers |-> IF pc[w] = "commitReturn" THEN [r \in {} |-> Absent]
                     ELSE Canonicalize(operations[w])]

\* The frames of a log that would be published.
Unpublished(log) ==
  {i \in DOMAIN log : Whole(log[i]) /\ log[i].generation > Newest}

Leftover ==
  IF phase = "ready" THEN {} ELSE {wal[i].tx : i \in Unpublished(wal)}

Visible           == IF phase = "ready" THEN snapshot.table ELSE history[Len(history)]
VisibleGeneration == IF phase = "ready" THEN snapshot.generation ELSE Newest

Store == INSTANCE TransactionalStore WITH
  Clients    <- Workers,
  table      <- Visible,
  generation <- VisibleGeneration,
  serving    <- phase = "ready",
  draft      <- Draft,
  requested  <- InFlight,
  leftover   <- Leftover

\* Transactions are atomic, durable, ordered and carried out at most once:
\* each step of the storage engine, crashes and every step of recovery
\* included, is a step of the abstract store or changes nothing there.
ImplementsStore == Store!Spec

=============================================================================
