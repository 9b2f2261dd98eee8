-------------------------- MODULE TransactionalStore --------------------------
(***************************************************************************)
(* What the crate promises of its write path: "Writes are transactional    *)
(* and durable".  There is one table.  A client puts together a draft, one *)
(* operation after the other, and asks for it to be carried out.  It is    *)
(* carried out whole and once, in an order all readers agree on, or not at *)
(* all.  Closing, crashing and opening again change neither the table nor  *)
(* its generation; what was asked for and not yet carried out when the     *)
(* store closed is carried out when it opens again, or forgotten.          *)
(***************************************************************************)
EXTENDS Integers

CONSTANTS
  Clients,  \* who asks
  Rows,     \* row identifiers
  Docs,     \* documents
  BadDoc,   \* a document that the store refuses
  Absent    \* no document; as an operation on a row, its deletion

VARIABLES
  table,      \* the document of each row
  generation, \* how many drafts were carried out
  serving,    \* the store is open
  draft,      \* draft[c]: what client c has put together
  requested,  \* the clients that wait for their draft to be carried out
  leftover    \* what was asked for when the store closed

storeVars == <<table, generation, serving, draft, requested, leftover>>

Nothing == [r \in {} |-> Absent]

\* An operation on a row takes the place of an earlier one on it.
Put(change, row, doc) ==
  [r \in DOMAIN change \cup {row} |-> IF r = row THEN doc ELSE change[r]]

\* The rows of a change are replaced, the others kept.
Changed(t, change) == [r \in Rows |-> IF r \in DOMAIN change THEN change[r] ELSE t[r]]

Init ==
  /\ table = [r \in Rows |-> Absent]
  /\ generation = 0
  /\ serving = FALSE
  /\ draft = [c \in Clients |-> Nothing]
  /\ requested = {}
  /\ leftover = {}

\* Client c adds an operation to its draft.
Write(c) ==
  /\ serving
  /\ c \notin requested
  /\ \E row \in Rows, doc \in Docs \cup {BadDoc, Absent} :
       draft' = [draft EXCEPT ![c] = Put(@, row, doc)]
  /\ UNCHANGED <<table, generation, serving, requested, leftover>>

Request(c) ==
  /\ serving
  /\ c \notin requested
  /\ draft[c] # Nothing
  /\ \A r \in DOMAIN draft[c] : draft[c][r] # BadDoc
  /\ requested' = requested \cup {c}
  /\ UNCHANGED <<table, generation, serving, draft, leftover>>

\* The draft is rolled back, or the request fails.
Forget(c) ==
  /\ serving
  /\ draft' = [draft EXCEPT ![c] = Nothing]
  /\ requested' = requested \ {c}
  /\ UNCHANGED <<table, generation, serving, leftover>>

CarryOut(change) ==
  /\ table' = Changed(table, change)
  /\ generation' = generation + 1

Commit(c) ==
  /\ serving
  /\ c \in requested
  /\ CarryOut(draft[c])
  /\ draft' = [draft EXCEPT ![c] = Nothing]
  /\ requested' = requested \ {c}
  /\ UNCHANGED <<serving, leftover>>

\* The store closes, or gives up opening.
Close ==
  /\ serving' = FALSE
  /\ draft' = [c \in Clients |-> Nothing]
  /\ requested' = {}
  /\ leftover' \in SUBSET (leftover \cup {draft[c] : c \in requested})
  /\ UNCHANGED <<table, generation>>

\* The store opens, and may carry out a change that it had accepted before.
Reopen ==
  /\ ~serving
  /\ serving' = TRUE
  /\ (\E change \in leftover : CarryOut(change)) \/ UNCHANGED <<table, generation>>
  /\ leftover' = {}
  /\ UNCHANGED <<draft, requested>>

Next ==
  \/ \E c \in Clients : Write(c) \/ Request(c) \/ Forget(c) \/ Commit(c)
  \/ Close
  \/ Reopen

Spec == Init /\ [][Next]_storeVars

=============================================================================
