---------------------------- MODULE MemoryStore ----------------------------
(***************************************************************************)
(* The content of the memory database and what its statements do to it:    *)
(* the rows of the four kinds of memory, the vectors beside them and the   *)
(* dialog turns.  A write is a sequence of statements in one transaction.   *)
(* StoreConnection says who executes them and when.                        *)
(***************************************************************************)
EXTENDS Integers, Sequences, FiniteSets, FiniteSetsExt, Functions

CONSTANTS None, Fails

\* The four tables.
Kinds == {"episodic", "semantic", "procedural", "relational"}

Empty == [row |-> <<>>, vec |-> <<>>, turn |-> <<>>]

-----------------------------------------------------------------------------
(* Statements *)

\* A second row or vector of an id violates a PRIMARY KEY.
InsertRow(d, id, r) ==
  IF id \in DOMAIN d.row THEN Fails
  ELSE [d EXCEPT !.row = [i \in DOMAIN @ \cup {id} |-> IF i = id THEN r ELSE @[i]]]

InsertVec(d, id, v) ==
  IF id \in DOMAIN d.vec THEN Fails
  ELSE [d EXCEPT !.vec = [i \in DOMAIN @ \cup {id} |-> IF i = id THEN v ELSE @[i]]]

\* INSERT OR REPLACE INTO semantic_memory: the count of recalls starts anew.
ReplaceRow(d, id, r) ==
  [d EXCEPT !.row = [i \in DOMAIN @ \cup {id} |->
                       IF i = id THEN [r EXCEPT !.recalls = 0] ELSE @[i]]]

DeleteVec(d, ids) == [d EXCEPT !.vec = Restrict(@, DOMAIN @ \ ids)]

DeleteRows(d, ids) == [d EXCEPT !.row = Restrict(@, DOMAIN @ \ ids)]

\* SET recall_count = recall_count + 1, in the database and not in the client.
Recall(d, ids) ==
  [d EXCEPT !.row = [i \in DOMAIN d.row |->
                       IF i \in ids THEN [d.row[i] EXCEPT !.recalls = @ + 1] ELSE d.row[i]]]

\* INSERT OR IGNORE on UNIQUE(dialog_id, turn_index).
InsertTurn(d, key, t) ==
  IF key \in DOMAIN d.turn THEN d
  ELSE [d EXCEPT !.turn = [k \in DOMAIN @ \cup {key} |-> IF k = key THEN t ELSE @[k]]]

-----------------------------------------------------------------------------
(* Writes: the operation of the class that a call names, statement by       *)
(* statement.                                                               *)

Add(id, r, v) == [op |-> "add", id |-> id, row |-> r, vec |-> v]
UpsertSemantic(id, r, v) == [op |-> "upsert", id |-> id, row |-> r, vec |-> v]
MarkRecalled(ids) == [op |-> "mark", ids |-> ids]
AddDialogTurn(key, t) == [op |-> "turn", key |-> key, turn |-> t]

StatementsOf(c) ==
  CASE c.op = "add" -> IF c.vec = None THEN 1 ELSE 2
    [] c.op = "upsert" -> IF c.vec = None THEN 2 ELSE 3
    [] c.op = "evict" -> 2
    [] c.op \in {"mark", "turn"} -> 1
    [] OTHER -> 0

EvictEpisodicBefore(a, before) == [op |-> "evict", agent |-> a, before |-> before]

Evicted(d, c) == {i \in DOMAIN d.row : /\ d.row[i].kind = "episodic"
                                       /\ d.row[i].agent = c.agent /\ d.row[i].at < c.before}

\* The nth statement of c; d0 is what the transaction started from.
Statement(c, n, d0, d) ==
  CASE c.op = "add" /\ n = 1 -> InsertRow(d, c.id, c.row)
    [] c.op = "add" /\ n = 2 -> InsertVec(d, c.id, c.vec)
    [] c.op = "upsert" /\ n = 1 -> ReplaceRow(d, c.id, c.row)
    [] c.op = "upsert" /\ n = 2 -> DeleteVec(d, {c.id})
    [] c.op = "upsert" /\ n = 3 -> InsertVec(d, c.id, c.vec)
    [] c.op = "evict" /\ n = 1 -> DeleteRows(d, Evicted(d0, c))
    [] c.op = "evict" /\ n = 2 -> DeleteVec(d, Evicted(d0, c))
    [] c.op = "mark" -> Recall(d, c.ids)
    [] c.op = "turn" -> InsertTurn(d, c.key, c.turn)

-----------------------------------------------------------------------------
(* Reads *)

ListByAgent(a, pool) == [op |-> "list", agent |-> a, world |-> FALSE, pool |-> pool]
ListWorldScope(a, pool) == [op |-> "list", agent |-> a, world |-> TRUE, pool |-> pool]
GetEmbeddings(ids) == [op |-> "vectors", ids |-> ids]

Matching(d, c, kind) ==
  {i \in DOMAIN d.row : d.row[i].kind = kind /\ (c.world <=> d.row[i].agent # c.agent)}

\* ORDER BY created_at DESC LIMIT pool: which of several rows of one time are
\* cut off is the engine's choice, the same one for the same rows.
Newest(d, ids, pool) ==
  CHOOSE S \in kSubset(IF Cardinality(ids) < pool THEN Cardinality(ids) ELSE pool, ids) :
    \A x \in S, y \in ids \ S : d.row[x].at >= d.row[y].at

\* One fetch for each kind that is retrieved.
Fetched(d, c) ==
  Restrict(d.row, Newest(d, Matching(d, c, "episodic"), c.pool)
                  \cup Newest(d, Matching(d, c, "semantic"), c.pool))

\* A row without a vector has no embedding.
Embeddings(d, c) == [i \in c.ids |-> IF i \in DOMAIN d.vec THEN d.vec[i] ELSE None]

Answer(d, c) ==
  CASE c.op = "list" -> Fetched(d, c)
    [] c.op = "vectors" -> Embeddings(d, c)
    [] OTHER -> None

-----------------------------------------------------------------------------
(* Retrieval (memory/retrieval.py). *)

CONSTANT Horizon    \* more than any age

ASSUME HorizonAssumption == Horizon \in Nat

Least(a, b) == IF a < b THEN a ELSE b
Greatest(a, b) == IF a < b THEN b ELSE a

\* cosine_similarity; a memory without an embedding has 0.
CosineSimilarity(v, q) == IF v = q THEN 1 ELSE 0

\* importance * decay * (1 + 0.2 * recalls) * cosine: the spatial factor is 1.
Strength(r, v, q, now) ==
  CosineSimilarity(v, q) * (r.imp * (5 + r.recalls) * Horizon - Greatest(0, now - r.at))

\* The ranked memories of one scope: rows as fetched, vecs their embeddings.
Ranked(rows, vecs, q, now) ==
  {[id |-> i, row |-> rows[i], strength |-> Strength(rows[i], vecs[i], q, now)] :
     i \in DOMAIN rows}

\* (-strength, created_at, id); an id is a tuple of numbers.
SortKey(m) == <<-m.strength, m.row.at>> \o m.id

Before(m, n) ==
  LET k == SortKey(m)  l == SortKey(n) IN
  \E i \in DOMAIN k : k[i] < l[i] /\ \A j \in 1..(i - 1) : k[j] = l[j]

\* The first k of them.
Tops(ranked, k) ==
  {T \in kSubset(Least(k, Cardinality(ranked)), ranked) :
     \A m \in T, n \in ranked \ T : ~Before(n, m)}
=============================================================================
