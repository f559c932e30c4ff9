-------------------------- MODULE ConcurrentProofs --------------------------
(***************************************************************************)
(* Proofs about ConcurrentRequests, for any number of records and of       *)
(* overlapping requests.  A request that is not stale still has what is    *)
(* committed in every row it has read; each property then fails only by    *)
(* the stale commits that it names.                                        *)
(***************************************************************************)
EXTENDS ConcurrentRequests, TLAPS

RowStatus == {"indexed", "indexing", "qa_pending", "qa_passed"}

Status == RowStatus \cup {"qa_review", "complete"}

Stages == {"idle", "flush", "count", "advance", "insert", "close", "commit"}

Saw == UNION {[S -> Status] : S \in SUBSET LockRows}

Req == [op : Ops, r : LockRows, pc : Stages, saw : Saw]

\* The rows that a request of this kind has read when it is this far.
Reading(op, r, pc) ==
    IF op = "none" \/ op = "flag" THEN {}
    ELSE IF op = "reopen" THEN {"batch", r}
    ELSE IF op \in {"finish", "resubmit"} THEN {r}
    ELSE IF op = "complete" THEN (IF pc = "count" THEN {"batch"} ELSE LockRows)
    ELSE IF pc \in {"flush", "count"} THEN {r} ELSE LockRows

\* How far a request of this kind can be.
Stage(op, r, pc) ==
    \/ op \in {"reopen", "finish", "resubmit"} /\ r \in Rows /\ pc = "flush"
    \/ op = "complete" /\ r = "batch" /\ pc \in {"count", "advance", "insert"}
    \/ op = "pass" /\ r \in Rows /\ pc \in {"flush", "count", "close", "commit"}
    \/ op = "flag" /\ r \in Rows /\ pc \in {"flush", "commit"}

Shape(c) ==
    /\ c.saw \in [Reading(c.op, c.r, c.pc) -> Status]
    /\ c = Idle \/ Stage(c.op, c.r, c.pc)

Shaped ==
    /\ CcTypeOK
    /\ req \in [Requests -> Req]
    /\ \A q \in Requests : Shape(req[q])

\* What a request decided on, as long as it runs.
Decided(q) ==
    /\ req[q].op \in {"reopen", "complete"} => req[q].saw["batch"] = "indexing"
    /\ req[q].op = "pass" /\ req[q].pc = "close" =>
           \A x \in Rows \ {req[q].r} : req[q].saw[x] = "qa_passed"

\* What a request knows as long as nothing it has read is overwritten.
Knows(q) ==
    /\ \A x \in HasRead(q) : req[q].saw[x] = Seen[x]
    /\ req[q].op = "complete" /\ req[q].pc \in {"advance", "insert"} =>
           \A r \in Rows : req[q].saw[r] = "indexed"
    /\ req[q].op = "pass" /\ req[q].pc = "commit" =>
           \E x \in Rows \ {req[q].r} : req[q].saw[x] # "qa_passed"

Current ==
    /\ \A q \in Requests : Decided(q)
    /\ \A q \in Requests \ stale : Knows(q)

\* One QA task per record from the batch's completion on, and passes only then.
QaPhase ==
    \/ "complete" \in raced
    \/ /\ \A r \in Rows : qa_tasks[r] = IF batch = "indexing" THEN 0 ELSE 1
       /\ \A q \in Requests : req[q].op = "pass" => batch # "indexing"

\* What the overwritten rows of a stale request can have become.
Outlives(q) ==
    /\ req[q].op = "finish" => req[q].saw[req[q].r] = "indexing"
    /\ req[q].op = "resubmit" /\ batch = "indexing" => req[q].saw[req[q].r] = "indexed"
    /\ req[q].op = "pass" =>
           \A x \in HasRead(q) : x \in Rows /\ req[q].saw[x] = "qa_passed" =>
               rec[x] \in {"qa_passed", "indexed"}

\* Indexing before the batch's completion, passed or submitted records in a
\* complete batch.
IndexingPhase ==
    \/ raced \cap {"reopen", "complete"} # {}
    \/ /\ batch = "indexing" =>
              \A r \in Rows : rec[r] = IF reopened[r] THEN "indexing" ELSE "indexed"
       /\ batch # "indexing" => \A r \in Rows : ~reopened[r] /\ rec[r] # "indexing"
       /\ batch = "complete" => \A r \in Rows : rec[r] \in {"qa_passed", "indexed"}
       /\ \A q \in Requests : Outlives(q)

LastPass ==
    \/ raced \cap {"pass", "complete"} # {}
    \/ (\A r \in Rows : rec[r] = "qa_passed") => batch = "complete"

CcInv == Shaped /\ Current /\ QaPhase /\ IndexingPhase /\ LastPass

-----------------------------------------------------------------------------
(* Types, and how far requests are.                                        *)

\* What is seen is what the columns hold.
LEMMA SeenType ==
    ASSUME Shaped
    PROVE  /\ Seen \in [LockRows -> Status]
           /\ Seen["batch"] = batch
           /\ \A r \in Rows : Seen[r] = rec[r]
BY ConcurrentAssumption DEF Shaped, CcTypeOK, Seen, LockRows, RowStatus, Status

\* What a request has read is what its kind has read by then.
LEMMA ReadShape ==
    ASSUME Shaped, NEW q \in Requests
    PROVE  /\ HasRead(q) = Reading(req[q].op, req[q].r, req[q].pc)
           /\ req[q].saw \in [HasRead(q) -> Status]
           /\ HasRead(q) \in SUBSET LockRows
           /\ req[q].op \in Ops /\ req[q].r \in LockRows
           /\ req[q].op # "none" => Stage(req[q].op, req[q].r, req[q].pc)
<1>1. Shape(req[q]) /\ req[q] \in Req
    BY DEF Shaped
<1>2. /\ HasRead(q) = Reading(req[q].op, req[q].r, req[q].pc)
      /\ req[q].saw \in [HasRead(q) -> Status]
    BY <1>1 DEF Shape, HasRead
<1>3. req[q].op # "none" => Stage(req[q].op, req[q].r, req[q].pc)
    BY <1>1 DEF Shape, Idle
<1>4. HasRead(q) \in SUBSET LockRows
    BY DEF Shaped, CcTypeOK
<1> QED BY <1>1, <1>2, <1>3, <1>4 DEF Req

\* A request in the shape of its kind.
LEMMA NewReq ==
    ASSUME NEW op \in Ops, NEW r \in LockRows, NEW pc \in Stages,
           NEW saw \in [Reading(op, r, pc) -> Status], Stage(op, r, pc),
           Reading(op, r, pc) \in SUBSET LockRows
    PROVE  /\ [op |-> op, r |-> r, pc |-> pc, saw |-> saw] \in Req
           /\ Shape([op |-> op, r |-> r, pc |-> pc, saw |-> saw])
<1>1. saw \in Saw
    BY DEF Saw
<1> QED BY <1>1 DEF Req, Shape

LEMMA IdleShape == Idle \in Req /\ Shape(Idle) /\ Idle.op = "none" /\ DOMAIN Idle.saw = {}
<1>1. Reading("none", "batch", "idle") = {}
    BY DEF Reading
<1>2. [x \in {} |-> x] \in [{} -> Status] /\ DOMAIN [x \in {} |-> x] = {}
    OBVIOUS
<1>3. [x \in {} |-> x] \in Saw
    BY <1>2, Zenon DEF Saw
<1>4. Idle.op = "none" /\ Idle.r = "batch" /\ Idle.pc = "idle" /\ Idle.saw = [x \in {} |-> x]
    BY DEF Idle
<1>5. Idle \in Req
    BY <1>3 DEF Idle, Req, Ops, LockRows, Stages
<1>6. Shape(Idle)
    BY <1>1, <1>2, <1>4, Zenon DEF Shape
<1> QED BY <1>2, <1>4, <1>5, <1>6, Zenon

DbTypeOK ==
    /\ rec \in [Rows -> {"indexed", "indexing", "qa_pending", "qa_passed"}]
    /\ reopened \in [Rows -> BOOLEAN]
    /\ qa_tasks \in [Rows -> 0 .. MaxQaTasks]
    /\ batch \in {"indexing", "qa_review", "complete"}
    /\ flags \in [Rows -> 0 .. 1]

\* One request changes, in shape; the columns, rows and flags stay typed.
LEMMA StaysShaped ==
    ASSUME Shaped, NEW q \in Requests,
           req' \in [Requests -> Req], Shape(req'[q]),
           \A p \in Requests \ {q} : req'[p] = req[p],
           DbTypeOK', row_lock' \in [LockRows -> Requests \cup {NoRequest}],
           stale' \subseteq Requests, raced' \subseteq Deciding,
           RowsHeld', InsertedIsAlone'
    PROVE  Shaped'
<1>1. \A p \in Requests : Shape(req'[p])
    BY DEF Shaped
<1>2. \A p \in Requests : req'[p].op \in Ops /\ DOMAIN req'[p].saw \subseteq LockRows
  <2> SUFFICES ASSUME NEW p \in Requests
               PROVE  req'[p].op \in Ops /\ DOMAIN req'[p].saw \subseteq LockRows
      OBVIOUS
  <2>1. req'[p] \in Req
      OBVIOUS
  <2>2. PICK S \in SUBSET LockRows : req'[p].saw \in [S -> Status]
      BY <2>1 DEF Req, Saw
  <2> QED BY <2>1, <2>2 DEF Req
<1>3. CcTypeOK'
    BY <1>2, Zenon DEF CcTypeOK, DbTypeOK, HasRead
<1> QED BY <1>1, <1>3, Zenon DEF Shaped

\* The rows held stay as they are when one request begins or goes on without
\* taking or giving back a row.
LEMMA RowsStayHeld ==
    ASSUME Shaped, NEW q \in Requests, row_lock' = row_lock,
           \A p \in Requests \ {q} : req'[p] = req[p],
           req'[q].op = "complete" /\ req'[q].pc = "insert" <=> At(q, "complete", "insert"),
           \A r \in Rows :
               (/\ req'[q].op = "pass" /\ req'[q].r = r
                /\ req'[q].pc \in {"count", "close", "commit"})
               <=> (/\ req[q].op = "pass" /\ req[q].r = r
                    /\ req[q].pc \in {"count", "close", "commit"})
    PROVE  RowsHeld'
<1>1. RowsHeld
    BY DEF Shaped, CcTypeOK
<1>2. \A p \in Requests : row_lock'["batch"] = p <=> At(p, "complete", "insert")'
    BY <1>1 DEF RowsHeld, At
<1>3. \A p \in Requests, r \in Rows :
          row_lock'[r] = p <=> (/\ req'[p].op = "pass" /\ req'[p].r = r
                                /\ req'[p].pc \in {"count", "close", "commit"})
  <2> SUFFICES ASSUME NEW p \in Requests, NEW r \in Rows
               PROVE  row_lock'[r] = p <=> (/\ req'[p].op = "pass" /\ req'[p].r = r
                                            /\ req'[p].pc \in {"count", "close", "commit"})
      OBVIOUS
  <2>1. row_lock'[r] = p <=> (/\ req[p].op = "pass" /\ req[p].r = r
                              /\ req[p].pc \in {"count", "close", "commit"})
      BY <1>1 DEF RowsHeld
  <2> QED BY <2>1
<1> QED BY <1>2, <1>3, Zenon DEF RowsHeld

\* An inserted flag stays alone when no request comes to its commit.
LEMMA StaysAlone ==
    ASSUME Shaped, NEW q \in Requests, flags' = flags,
           \A p \in Requests \ {q} : req'[p] = req[p],
           ~(req'[q].op = "flag" /\ req'[q].pc = "commit")
    PROVE  InsertedIsAlone'
BY DEF Shaped, CcTypeOK, InsertedIsAlone, Inserted, At

\* get_db's end: the request's rows are free, it is idle, and only its own kind
\* is added to the stale commits.
LEMMA EndFacts ==
    ASSUME Shaped, NEW q \in Requests, NEW written \in SUBSET LockRows, GetDbEnd(q, written)
    PROVE  /\ req' \in [Requests -> Req] /\ req'[q] = Idle
           /\ \A p \in Requests \ {q} : req'[p] = req[p]
           /\ row_lock' \in [LockRows -> Requests \cup {NoRequest}]
           /\ RowsHeld'
           /\ stale' \subseteq Requests /\ q \notin stale'
           /\ \A p \in Requests \ {q} :
                  p \notin stale' => p \notin stale /\ HasRead(p) \cap written = {}
           /\ raced' \subseteq Deciding /\ raced \subseteq raced'
           /\ written = {} => /\ raced' = raced
                              /\ \A p \in Requests \ {q} : p \in stale' <=> p \in stale
           /\ written # {} /\ req[q].op \in Deciding \ raced' => q \notin stale
<1>1. /\ req' \in [Requests -> Req] /\ req'[q] = Idle
      /\ \A p \in Requests \ {q} : req'[p] = req[p]
    BY IdleShape DEF GetDbEnd, Shaped
<1>2. /\ row_lock' \in [LockRows -> Requests \cup {NoRequest}]
      /\ \A x \in LockRows : row_lock'[x] = IF row_lock[x] = q THEN NoRequest ELSE row_lock[x]
    BY DEF GetDbEnd, Shaped, CcTypeOK
<1>3. RowsHeld
    BY DEF Shaped, CcTypeOK
<1>4. "batch" \in LockRows /\ Rows \subseteq LockRows /\ NoRequest \notin Requests
    BY ConcurrentAssumption DEF LockRows
<1>5. \A p \in Requests : row_lock'["batch"] = p <=> At(p, "complete", "insert")'
    BY <1>1, <1>2, <1>3, <1>4, IdleShape DEF RowsHeld, At
<1>6. \A p \in Requests, r \in Rows :
          row_lock'[r] = p <=> (/\ req'[p].op = "pass" /\ req'[p].r = r
                                /\ req'[p].pc \in {"count", "close", "commit"})
  <2> SUFFICES ASSUME NEW p \in Requests, NEW r \in Rows
               PROVE  row_lock'[r] = p <=> (/\ req'[p].op = "pass" /\ req'[p].r = r
                                            /\ req'[p].pc \in {"count", "close", "commit"})
      OBVIOUS
  <2>1. row_lock[r] = p <=> (/\ req[p].op = "pass" /\ req[p].r = r
                             /\ req[p].pc \in {"count", "close", "commit"})
      BY <1>3 DEF RowsHeld
  <2>2. row_lock'[r] = IF row_lock[r] = q THEN NoRequest ELSE row_lock[r]
      BY <1>2, <1>4
  <2>3. CASE p = q
      BY <1>1, <1>4, <2>2, <2>3, IdleShape
  <2>4. CASE p # q
      BY <1>1, <1>4, <2>1, <2>2, <2>4
  <2> QED BY <2>3, <2>4
<1>7. RowsHeld'
    BY <1>5, <1>6, Zenon DEF RowsHeld
<1>8. /\ stale' \subseteq Requests /\ q \notin stale'
      /\ \A p \in Requests \ {q} :
             p \notin stale' => p \notin stale /\ HasRead(p) \cap written = {}
      /\ written = {} => \A p \in Requests \ {q} : p \in stale' <=> p \in stale
    BY DEF GetDbEnd, Shaped, CcTypeOK
<1>9. /\ raced' \subseteq Deciding /\ raced \subseteq raced'
      /\ written = {} => raced' = raced
      /\ written # {} /\ req[q].op \in Deciding \ raced' => q \notin stale
    BY DEF GetDbEnd, Shaped, CcTypeOK
<1> QED BY <1>1, <1>2, <1>7, <1>8, <1>9, Zenon

-----------------------------------------------------------------------------
(* What requests know of each other.                                       *)

DbSame == UNCHANGED <<rec, reopened, qa_tasks, batch>>

\* Where the rows that a request has read stay, it knows what it knew.
LEMMA StillKnows ==
    ASSUME Shaped, NEW p \in Requests, Knows(p), req'[p] = req[p],
           \A x \in HasRead(p) : Seen'[x] = Seen[x]
    PROVE  Knows(p)'
<1>1. HasRead(p)' = HasRead(p)
    BY DEF HasRead
<1>2. \A x \in HasRead(p)' : req'[p].saw[x] = Seen'[x]
    BY <1>1 DEF Knows
<1>3. req'[p].op = "complete" /\ req'[p].pc \in {"advance", "insert"} =>
          \A r \in Rows : req'[p].saw[r] = "indexed"
    BY DEF Knows
<1>4. req'[p].op = "pass" /\ req'[p].pc = "commit" =>
          \E x \in Rows \ {req'[p].r} : req'[p].saw[x] # "qa_passed"
    BY DEF Knows
<1> QED BY <1>2, <1>3, <1>4 DEF Knows

\* An idle request has decided and knows nothing.
LEMMA IdleKnows ==
    ASSUME NEW q \in Requests, req[q] = Idle
    PROVE  Decided(q) /\ Knows(q) /\ Outlives(q) /\ req[q].op # "pass"
BY IdleShape, Zenon DEF Decided, Knows, Outlives, HasRead

\* A request that begins or goes on, or ends without having written.
LEMMA GoesOn ==
    ASSUME CcInv, Shaped', NEW q \in Requests, DbSame, raced' = raced,
           \A p \in Requests \ {q} : req'[p] = req[p],
           \A p \in Requests \ {q} : p \in stale' <=> p \in stale,
           Decided(q)', q \notin stale' => Knows(q)',
           "complete" \notin raced /\ req'[q].op = "pass" => batch # "indexing",
           raced \cap {"reopen", "complete"} = {} => Outlives(q)'
    PROVE  CcInv'
<1>1. Seen' = Seen
    BY DEF Seen, DbSame
<1>2. ASSUME NEW p \in Requests \ {q} PROVE Decided(p)'
    BY <1>2 DEF CcInv, Current, Decided
<1>3. ASSUME NEW p \in Requests \ stale', p # q PROVE Knows(p)'
  <2>1. Knows(p) /\ req'[p] = req[p] /\ p \in Requests
      BY <1>3 DEF CcInv, Current
  <2> QED BY <1>1, <2>1, StillKnows DEF CcInv
<1>4. Current'
    BY <1>2, <1>3 DEF Current
<1>5. QaPhase'
    BY DEF CcInv, QaPhase, DbSame
<1>6. IndexingPhase'
  <2>1. CASE raced \cap {"reopen", "complete"} # {}
      BY <2>1 DEF IndexingPhase
  <2>2. CASE raced \cap {"reopen", "complete"} = {}
    <3>1. ASSUME NEW p \in Requests \ {q} PROVE Outlives(p)'
      <4>1. Outlives(p) /\ req'[p] = req[p] /\ HasRead(p)' = HasRead(p)
          BY <2>2, <3>1 DEF CcInv, IndexingPhase, HasRead
      <4> QED BY <4>1 DEF Outlives, DbSame
    <3>2. \A p \in Requests : Outlives(p)'
        BY <2>2, <3>1
    <3> QED BY <2>2, <3>2 DEF CcInv, IndexingPhase, DbSame
  <2> QED BY <2>1, <2>2
<1>7. LastPass'
    BY DEF CcInv, LastPass, DbSame
<1> QED BY <1>4, <1>5, <1>6, <1>7 DEF CcInv

\* A request that ends with what is committed as it was, flags aside.
LEMMA EndsUnwritten ==
    ASSUME CcInv, NEW q \in Requests, GetDbEnd(q, {}), DbSame, DbTypeOK', InsertedIsAlone'
    PROVE  CcInv'
<1>1. Shaped'
    BY EndFacts, IdleShape, StaysShaped DEF CcInv
<1>2. /\ raced' = raced /\ req'[q] = Idle
      /\ \A p \in Requests \ {q} : req'[p] = req[p]
      /\ \A p \in Requests \ {q} : p \in stale' <=> p \in stale
    BY EndFacts DEF CcInv
<1>3. Decided(q)' /\ Knows(q)' /\ Outlives(q)' /\ req'[q].op # "pass"
    BY <1>2, IdleShape, Zenon DEF Decided, Knows, Outlives, HasRead
<1> QED BY <1>1, <1>2, <1>3, GoesOn

\* A commit leaves whoever is not stale after it with what it knew.
LEMMA CommitCurrent ==
    ASSUME CcInv, NEW q \in Requests, NEW written \in SUBSET LockRows, GetDbEnd(q, written),
           \A x \in LockRows \ written : Seen'[x] = Seen[x]
    PROVE  Current'
<1>1. /\ req'[q] = Idle /\ q \notin stale'
      /\ \A p \in Requests \ {q} : req'[p] = req[p]
      /\ \A p \in Requests \ {q} :
             p \notin stale' => p \notin stale /\ HasRead(p) \cap written = {}
    BY EndFacts DEF CcInv
<1>2. Decided(q)' /\ Knows(q)'
    BY <1>1, IdleShape, Zenon DEF Decided, Knows, HasRead
<1>3. ASSUME NEW p \in Requests \ {q} PROVE Decided(p)'
    BY <1>1, <1>3 DEF CcInv, Current, Decided
<1>4. ASSUME NEW p \in Requests \ stale', p # q PROVE Knows(p)'
  <2>1. p \in Requests /\ Knows(p) /\ req'[p] = req[p] /\ HasRead(p) \cap written = {}
      BY <1>1, <1>4 DEF CcInv, Current
  <2>2. HasRead(p) \in SUBSET LockRows
      BY <2>1, ReadShape DEF CcInv
  <2>3. \A x \in HasRead(p) : Seen'[x] = Seen[x]
      BY <2>1, <2>2
  <2> QED BY <2>1, <2>3, StillKnows DEF CcInv
<1> QED BY <1>2, <1>3, <1>4 DEF Current

-----------------------------------------------------------------------------
(* Requests that begin or go on.                                           *)

LEMMA BeginInv ==
    ASSUME CcInv, NEW q \in Requests, NEW op \in Ops, NEW r \in LockRows,
           NEW pc \in {"flush", "count"}, Begin(q, op, r, pc, Reading(op, r, pc)),
           Stage(op, r, pc), NoWrites, NothingEnds, op \in Ops \ {"none"},
           op \in {"reopen", "complete"} => batch = "indexing",
           op = "finish" => reopened[r], op = "resubmit" => ~reopened[r],
           op = "pass" => qa_tasks[r] > 0 /\ pc = "flush"
    PROVE  CcInv'
<1> DEFINE rows == Reading(op, r, pc)
           saw == [x \in rows |-> Seen[x]]
           c == [op |-> op, r |-> r, pc |-> pc, saw |-> saw]
<1>1. rows \in SUBSET LockRows
    BY DEF Reading, LockRows
<1>2. /\ Seen \in [LockRows -> Status]
      /\ Seen["batch"] = batch /\ \A x \in Rows : Seen[x] = rec[x]
    BY SeenType DEF CcInv
<1>3. saw \in [rows -> Status]
    BY <1>1, <1>2
<1>4. req[q] = Idle /\ req' = [req EXCEPT ![q] = c]
    BY DEF Begin
<1>5. c \in Req /\ Shape(c) /\ c.op = op /\ c.r = r /\ c.pc = pc /\ c.saw = saw
  <2>1. pc \in Stages
      BY DEF Stages
  <2> QED BY <1>1, <1>3, <2>1, NewReq
<1>6. DOMAIN saw = rows /\ \A x \in rows : saw[x] = Seen[x]
    OBVIOUS
<1> HIDE DEF c, saw
<1>7. /\ req' \in [Requests -> Req] /\ req'[q] = c
      /\ \A p \in Requests \ {q} : req'[p] = req[p]
    BY <1>4, <1>5 DEF CcInv, Shaped
<1>8. Shaped'
  <2>1. RowsHeld'
    <3>1. req'[q].pc \in {"flush", "count"} /\ (req'[q].op = "pass" => req'[q].pc = "flush")
        BY <1>5, <1>7
    <3>2. req[q].op = "none"
        BY <1>4, IdleShape
    <3> QED BY <1>7, <3>1, <3>2, RowsStayHeld DEF NothingEnds, CcInv, At
  <2>2. InsertedIsAlone'
      BY <1>5, <1>7, StaysAlone DEF NoWrites, CcInv
  <2>3. DbTypeOK' /\ row_lock' \in [LockRows -> Requests \cup {NoRequest}]
        /\ stale' \subseteq Requests /\ raced' \subseteq Deciding
      BY Zenon DEF NoWrites, NothingEnds, CcInv, Shaped, CcTypeOK, DbTypeOK
  <2> QED BY <1>5, <1>7, <2>1, <2>2, <2>3, StaysShaped DEF CcInv
<1>9. HasRead(q)' = rows /\ req'[q].op = op /\ req'[q].r = r /\ req'[q].pc = pc /\ req'[q].saw = saw
    BY <1>5, <1>6, <1>7 DEF HasRead
<1>10. Seen' = Seen
    BY DEF NoWrites, Seen
<1>11. op \in {"reopen", "complete"} => saw["batch"] = "indexing"
  <2>1. op \in {"reopen", "complete"} => "batch" \in rows
      BY DEF Stage, Reading, LockRows
  <2> QED BY <1>2, <1>6, <2>1
<1>12. Decided(q)'
    BY <1>9, <1>11, Zenon DEF Decided
<1>13. Knows(q)'
  <2>1. \A x \in HasRead(q)' : req'[q].saw[x] = Seen'[x]
      BY <1>6, <1>9, <1>10
  <2> QED BY <1>9, <2>1, Zenon DEF Knows
<1>14. "complete" \notin raced /\ req'[q].op = "pass" => batch # "indexing"
    BY <1>9 DEF CcInv, QaPhase, Stage
<1>15. ASSUME raced \cap {"reopen", "complete"} = {} PROVE Outlives(q)'
  <2>1. op \in {"finish", "resubmit"} => r \in Rows /\ saw[r] = rec[r]
      BY <1>2, <1>6 DEF Stage, Reading
  <2>2. req'[q].op = "finish" => req'[q].saw[req'[q].r] = "indexing"
      BY <1>9, <1>15, <2>1 DEF CcInv, IndexingPhase
  <2>3. req'[q].op = "resubmit" /\ batch' = "indexing" => req'[q].saw[req'[q].r] = "indexed"
      BY <1>9, <1>15, <2>1 DEF CcInv, IndexingPhase, NoWrites
  <2>4. \A x \in HasRead(q)' : x \in Rows /\ req'[q].saw[x] = "qa_passed" =>
            rec'[x] \in {"qa_passed", "indexed"}
      BY <1>2, <1>6, <1>9 DEF NoWrites
  <2> QED BY <2>2, <2>3, <2>4 DEF Outlives
<1>16. DbSame /\ raced' = raced /\ \A p \in Requests \ {q} : p \in stale' <=> p \in stale
    BY DEF NoWrites, NothingEnds, DbSame
<1> QED BY <1>7, <1>8, <1>12, <1>13, <1>14, <1>15, <1>16, GoesOn

LEMMA BeginsInv ==
    ASSUME CcInv, NEW q \in Requests,
           \/ CompleteRead(q)
           \/ \E r \in Rows : ReopenRead(q, r) \/ FinishRead(q, r) \/ PassRead(q, r) \/ FlagRead(q, r)
    PROVE  CcInv'
<1>1. CASE CompleteRead(q)
  <2>1. /\ Begin(q, "complete", "batch", "count", Reading("complete", "batch", "count"))
        /\ Stage("complete", "batch", "count") /\ NoWrites /\ NothingEnds /\ batch = "indexing"
      BY <1>1 DEF CompleteRead, Reading, Stage
  <2>2. "complete" \in Ops \ {"none"} /\ "batch" \in LockRows
      BY DEF Ops, LockRows
  <2> QED BY <2>1, <2>2, BeginInv
<1>2. ASSUME NEW r \in Rows, ReopenRead(q, r) PROVE CcInv'
  <2>1. /\ Begin(q, "reopen", r, "flush", Reading("reopen", r, "flush"))
        /\ Stage("reopen", r, "flush") /\ NoWrites /\ NothingEnds /\ batch = "indexing"
      BY <1>2 DEF ReopenRead, Reading, Stage
  <2>2. "reopen" \in Ops \ {"none"} /\ r \in LockRows
      BY DEF Ops, LockRows
  <2> QED BY <2>1, <2>2, BeginInv
<1>3. ASSUME NEW r \in Rows, FinishRead(q, r) PROVE CcInv'
  <2> DEFINE op == IF reopened[r] THEN "finish" ELSE "resubmit"
  <2>1. op \in {"finish", "resubmit"} /\ (op = "finish" => reopened[r]) /\ (op = "resubmit" => ~reopened[r])
      OBVIOUS
  <2>2. Begin(q, op, r, "flush", {r}) /\ NoWrites /\ NothingEnds
      BY <1>3 DEF FinishRead
  <2> HIDE DEF op
  <2>3. Reading(op, r, "flush") = {r} /\ Stage(op, r, "flush")
      BY <2>1 DEF Reading, Stage
  <2>4. op \in Ops \ {"none"} /\ r \in LockRows
      BY <2>1 DEF Ops, LockRows
  <2> QED BY <2>1, <2>2, <2>3, <2>4, BeginInv
<1>4. ASSUME NEW r \in Rows, PassRead(q, r) PROVE CcInv'
  <2>1. /\ Begin(q, "pass", r, "flush", Reading("pass", r, "flush"))
        /\ Stage("pass", r, "flush") /\ NoWrites /\ NothingEnds /\ qa_tasks[r] > 0
      BY <1>4 DEF PassRead, Reading, Stage
  <2>2. "pass" \in Ops \ {"none"} /\ r \in LockRows
      BY DEF Ops, LockRows
  <2> QED BY <2>1, <2>2, BeginInv
<1>5. ASSUME NEW r \in Rows, FlagRead(q, r) PROVE CcInv'
  <2>1. /\ Begin(q, "flag", r, "flush", Reading("flag", r, "flush"))
        /\ Stage("flag", r, "flush") /\ NoWrites /\ NothingEnds
      BY <1>5 DEF FlagRead, Reading, Stage
  <2>2. "flag" \in Ops \ {"none"} /\ r \in LockRows
      BY DEF Ops, LockRows
  <2> QED BY <2>1, <2>2, BeginInv
<1> QED BY <1>1, <1>2, <1>3, <1>4, <1>5

\* A request whose stage changes: what is left to show is the rows it holds,
\* and what it decided and knows.
LEMMA ReadsShaped ==
    ASSUME CcInv, NEW q \in Requests, req[q].op # "none",
           NEW pc \in {"advance", "insert", "close", "commit"}, NEW rows \in SUBSET LockRows,
           Reads(q, pc, rows), NoWrites, stale' = stale, raced' = raced,
           Stage(req[q].op, req[q].r, pc), req[q].op # "flag",
           HasRead(q) \cup rows = Reading(req[q].op, req[q].r, pc),
           req[q].r \in HasRead(q),
           row_lock' \in [LockRows -> Requests \cup {NoRequest}]
    PROVE  /\ RowsHeld' => Shaped'
           /\ \A p \in Requests \ {q} : req'[p] = req[p]
           /\ req'[q].op = req[q].op /\ req'[q].r = req[q].r /\ req'[q].pc = pc
           /\ HasRead(q)' = HasRead(q) \cup rows
           /\ req'[q].saw[req[q].r] = req[q].saw[req[q].r]
           /\ \A x \in HasRead(q) \cup rows : x # req[q].r => req'[q].saw[x] = Seen[x]
<1> DEFINE R == HasRead(q) \cup rows
           saw == [x \in R |-> IF x = req[q].r THEN req[q].saw[x] ELSE Seen[x]]
           c == [req[q] EXCEPT !.pc = pc, !.saw = saw]
<1>1. /\ req[q] \in Req /\ req[q].op \in Ops /\ req[q].r \in LockRows
      /\ HasRead(q) \in SUBSET LockRows /\ req[q].saw \in [HasRead(q) -> Status]
    BY ReadShape DEF CcInv, Shaped
<1>2. Seen \in [LockRows -> Status]
    BY SeenType DEF CcInv
<1>3. saw \in [R -> Status] /\ R \in SUBSET LockRows
    BY <1>1, <1>2
<1>4. req' = [req EXCEPT ![q] = c]
    BY DEF Reads
<1>5. pc \in Stages /\ saw \in Saw
    BY <1>3, Zenon DEF Stages, Saw
<1>6. /\ DOMAIN saw = R /\ saw[req[q].r] = req[q].saw[req[q].r]
      /\ \A x \in R : x # req[q].r => saw[x] = Seen[x]
    OBVIOUS
<1>7. c \in Req /\ Shape(c) /\ c.op = req[q].op /\ c.r = req[q].r /\ c.pc = pc /\ c.saw = saw
  <2> HIDE DEF saw
  <2>1. /\ c \in Req
        /\ c.op = req[q].op /\ c.r = req[q].r /\ c.pc = pc /\ c.saw = saw
      BY <1>1, <1>5 DEF Req
  <2> HIDE DEF c
  <2>2. Shape(c)
      BY <1>3, <2>1 DEF Shape
  <2> QED BY <2>1, <2>2
<1> HIDE DEF c, saw
<1>9. /\ req' \in [Requests -> Req] /\ req'[q] = c
      /\ \A p \in Requests \ {q} : req'[p] = req[p]
    BY <1>4, <1>7 DEF CcInv, Shaped
<1>10. ASSUME RowsHeld' PROVE Shaped'
  <2>1. InsertedIsAlone'
      BY <1>7, <1>9, StaysAlone DEF NoWrites, CcInv
  <2>2. DbTypeOK' /\ stale' \subseteq Requests /\ raced' \subseteq Deciding
      BY Zenon DEF NoWrites, CcInv, Shaped, CcTypeOK, DbTypeOK
  <2> QED BY <1>7, <1>9, <1>10, <2>1, <2>2, StaysShaped DEF CcInv
<1>11. HasRead(q)' = R
    BY <1>6, <1>7, <1>9 DEF HasRead
<1> QED BY <1>6, <1>7, <1>9, <1>10, <1>11

\* A request that takes a row which no other holds.
LEMMA TakesBatch ==
    ASSUME Shaped, NEW q \in Requests, CanWrite(q, "batch"),
           row_lock' = [row_lock EXCEPT !["batch"] = q],
           req'[q].op = "complete", req'[q].pc = "insert", req[q].op = "complete",
           \A p \in Requests \ {q} : req'[p] = req[p]
    PROVE  RowsHeld' /\ row_lock' \in [LockRows -> Requests \cup {NoRequest}]
<1>1. RowsHeld /\ row_lock \in [LockRows -> Requests \cup {NoRequest}] /\ NoRequest \notin Requests
    BY ConcurrentAssumption DEF Shaped, CcTypeOK
<1>2. "batch" \in LockRows /\ "batch" \notin Rows /\ Rows \subseteq LockRows
    BY ConcurrentAssumption DEF LockRows
<1>3. row_lock'["batch"] = q /\ \A r \in Rows : row_lock'[r] = row_lock[r]
    BY <1>1, <1>2
<1>4. \A p \in Requests : row_lock'["batch"] = p <=> At(p, "complete", "insert")'
    BY <1>1, <1>3 DEF CanWrite, RowsHeld, At
<1>5. \A p \in Requests, r \in Rows :
          row_lock'[r] = p <=> (/\ req'[p].op = "pass" /\ req'[p].r = r
                                /\ req'[p].pc \in {"count", "close", "commit"})
  <2> SUFFICES ASSUME NEW p \in Requests, NEW r \in Rows
               PROVE  row_lock'[r] = p <=> (/\ req'[p].op = "pass" /\ req'[p].r = r
                                            /\ req'[p].pc \in {"count", "close", "commit"})
      OBVIOUS
  <2>1. row_lock[r] = p <=> (/\ req[p].op = "pass" /\ req[p].r = r
                             /\ req[p].pc \in {"count", "close", "commit"})
      BY <1>1 DEF RowsHeld
  <2> QED BY <1>3, <2>1
<1>6. RowsHeld'
    BY <1>4, <1>5, Zenon DEF RowsHeld
<1>7. row_lock' \in [LockRows -> Requests \cup {NoRequest}]
    BY <1>1
<1> QED BY <1>6, <1>7

LEMMA CompleteReadsInv ==
    ASSUME CcInv, NEW q \in Requests, CompleteCount(q) \/ CompleteAdvance(q)
    PROVE  CcInv'
<1>1. req[q].op = "complete" /\ req[q].pc \in {"count", "advance"}
    BY DEF CompleteCount, CompleteAdvance, At
<1>2. /\ req[q].r = "batch" /\ HasRead(q) = (IF req[q].pc = "count" THEN {"batch"} ELSE LockRows)
      /\ "batch" \in HasRead(q)
    BY <1>1, ReadShape DEF Reading, Stage, CcInv, LockRows
<1>3. Decided(q) /\ (q \notin stale => Knows(q))
    BY DEF CcInv, Current
<1>4. Seen \in [LockRows -> Status] /\ Seen["batch"] = batch /\ \A r \in Rows : Seen[r] = rec[r]
    BY SeenType DEF CcInv
<1>5. CASE CompleteCount(q) /\ GetDbEnd(q, {})
  <2>1. NoWrites
      BY <1>5 DEF CompleteCount
  <2>2. DbSame /\ DbTypeOK'
      BY <2>1, Zenon DEF NoWrites, DbSame, CcInv, Shaped, CcTypeOK, DbTypeOK
  <2>3. InsertedIsAlone'
      BY <1>5, <2>1, EndFacts, IdleShape, StaysAlone DEF NoWrites, CcInv
  <2> QED BY <1>5, <2>2, <2>3, EndsUnwritten
<1>6. ASSUME NEW pc \in {"advance", "insert"}, Reads(q, pc, Rows), NoWrites,
             stale' = stale, raced' = raced,
             row_lock' \in [LockRows -> Requests \cup {NoRequest}],
             \A p \in Requests \ {q} : req'[p] = req[p],
             req'[q].op = "complete" /\ req'[q].pc = pc => RowsHeld',
             q \notin stale => \A r \in Rows : rec[r] = "indexed"
      PROVE  CcInv'
  <2>1. /\ Stage(req[q].op, req[q].r, pc) /\ req[q].op \notin {"flag", "none"}
        /\ HasRead(q) \cup Rows = Reading(req[q].op, req[q].r, pc)
        /\ Rows \in SUBSET LockRows /\ pc \in {"advance", "insert", "close", "commit"}
      BY <1>1, <1>2, <1>6 DEF Stage, Reading, LockRows
  <2>2. /\ RowsHeld' => Shaped'
        /\ req'[q].op = "complete" /\ req'[q].r = "batch" /\ req'[q].pc = pc
        /\ HasRead(q)' = LockRows
        /\ req'[q].saw["batch"] = req[q].saw["batch"]
        /\ \A x \in LockRows : x # "batch" => req'[q].saw[x] = Seen[x]
    <3>1. HasRead(q) \cup Rows = LockRows
        BY <1>2 DEF LockRows
    <3>2. /\ RowsHeld' => Shaped'
          /\ req'[q].op = req[q].op /\ req'[q].r = req[q].r /\ req'[q].pc = pc
          /\ HasRead(q)' = HasRead(q) \cup Rows
          /\ req'[q].saw[req[q].r] = req[q].saw[req[q].r]
          /\ \A x \in HasRead(q) \cup Rows : x # req[q].r => req'[q].saw[x] = Seen[x]
        BY <1>2, <1>6, <2>1, ReadsShaped
    <3> QED BY <1>1, <1>2, <3>1, <3>2
  <2>3. Shaped'
      BY <1>6, <2>2
  <2>4. Seen' = Seen
      BY <1>6 DEF NoWrites, Seen
  <2>5. Decided(q)'
      BY <1>1, <1>3, <2>2 DEF Decided
  <2>6. ASSUME q \notin stale PROVE Knows(q)'
    <3>1. req'[q].saw["batch"] = Seen["batch"]
        BY <1>2, <1>3, <2>2, <2>6 DEF Knows
    <3>2. \A x \in HasRead(q)' : req'[q].saw[x] = Seen'[x]
        BY <2>2, <2>4, <3>1
    <3>3. \A r \in Rows : req'[q].saw[r] = "indexed"
        BY <1>4, <1>6, <2>2, <2>6, ConcurrentAssumption DEF LockRows
    <3> QED BY <2>2, <3>2, <3>3 DEF Knows
  <2>7. Outlives(q)'
      BY <2>2 DEF Outlives
  <2>8. DbSame
      BY <1>6 DEF NoWrites, DbSame
  <2> QED BY <1>6, <2>2, <2>3, <2>5, <2>6, <2>7, <2>8, GoesOn
<1>7. ASSUME NEW pc, Reads(q, pc, Rows) PROVE \A p \in Requests \ {q} : req'[p] = req[p]
    BY <1>7 DEF Reads, CcInv, Shaped
<1>8. CASE CompleteCount(q) /\ ~GetDbEnd(q, {})
  <2>1. Reads(q, "advance", Rows) /\ NoWrites /\ NothingEnds /\ \A r \in Rows : rec[r] = "indexed"
      BY <1>8 DEF CompleteCount
  <2>2. \A p \in Requests \ {q} : req'[p] = req[p]
      BY <1>7, <2>1
  <2>3. req[q].pc = "count"
      BY <1>8 DEF CompleteCount, At
  <2>4. req'[q].op = "complete" /\ req'[q].pc = "advance" => RowsHeld'
      BY <1>1, <2>1, <2>2, <2>3, RowsStayHeld DEF NothingEnds, CcInv, At
  <2>5. row_lock' \in [LockRows -> Requests \cup {NoRequest}]
      BY <2>1 DEF NothingEnds, CcInv, Shaped, CcTypeOK
  <2> QED BY <1>6, <2>1, <2>2, <2>4, <2>5 DEF NothingEnds
<1>9. CASE CompleteAdvance(q)
  <2>1. /\ Reads(q, "insert", Rows) /\ NoWrites /\ stale' = stale /\ raced' = raced
        /\ CanWrite(q, "batch") /\ row_lock' = [row_lock EXCEPT !["batch"] = q]
        /\ req[q].pc = "advance"
      BY <1>9 DEF CompleteAdvance, At
  <2>2. \A p \in Requests \ {q} : req'[p] = req[p]
      BY <1>7, <2>1
  <2>3. req'[q].op = "complete" /\ req'[q].pc = "insert" => RowsHeld'
      BY <1>1, <2>1, <2>2, TakesBatch DEF CcInv
  <2>4. row_lock' \in [LockRows -> Requests \cup {NoRequest}]
      BY <2>1 DEF CcInv, Shaped, CcTypeOK
  <2>5. ASSUME q \notin stale PROVE \A r \in Rows : rec[r] = "indexed"
      BY <1>1, <1>2, <1>3, <1>4, <2>1, <2>5 DEF Knows, LockRows
  <2> QED BY <1>6, <2>1, <2>2, <2>3, <2>4, <2>5
<1> QED BY <1>5, <1>8, <1>9

\* A request that only comes to its next stage.
LEMMA NextStage ==
    ASSUME CcInv, NEW q \in Requests, NEW pc \in Stages, req' = [req EXCEPT ![q].pc = pc],
           Stage(req[q].op, req[q].r, pc), req[q].op # "none",
           Reading(req[q].op, req[q].r, pc) = HasRead(q)
    PROVE  /\ req' \in [Requests -> Req] /\ Shape(req'[q])
           /\ \A p \in Requests \ {q} : req'[p] = req[p]
           /\ req'[q].op = req[q].op /\ req'[q].r = req[q].r /\ req'[q].pc = pc
           /\ req'[q].saw = req[q].saw /\ HasRead(q)' = HasRead(q)
<1> DEFINE c == [req[q] EXCEPT !.pc = pc]
<1>1. req[q] \in Req /\ req[q].saw \in [HasRead(q) -> Status]
    BY ReadShape DEF CcInv, Shaped
<1>2. req' = [req EXCEPT ![q] = c]
    OBVIOUS
<1>3. /\ c \in Req
      /\ c.op = req[q].op /\ c.r = req[q].r /\ c.pc = pc /\ c.saw = req[q].saw
    BY <1>1 DEF Req
<1> HIDE DEF c
<1>4. Shape(c)
    BY <1>1, <1>3 DEF Shape
<1>5. /\ req' \in [Requests -> Req] /\ req'[q] = c
      /\ \A p \in Requests \ {q} : req'[p] = req[p]
    BY <1>2, <1>3 DEF CcInv, Shaped
<1> QED BY <1>3, <1>4, <1>5 DEF HasRead

LEMMA PassFlushInv ==
    ASSUME CcInv, NEW q \in Requests, PassFlush(q)
    PROVE  CcInv'
<1>1. /\ req[q].op = "pass" /\ req[q].pc = "flush" /\ req[q].r \in Rows
      /\ CanWrite(q, req[q].r) /\ row_lock' = [row_lock EXCEPT ![req[q].r] = q]
      /\ req' = [req EXCEPT ![q].pc = "count"] /\ NoWrites /\ stale' = stale /\ raced' = raced
    BY ReadShape DEF PassFlush, At, Stage, CcInv
<1>2. HasRead(q) = {req[q].r}
    BY <1>1, ReadShape DEF Reading, CcInv
<1>3. /\ "count" \in Stages /\ Stage(req[q].op, req[q].r, "count") /\ req[q].op # "none"
      /\ Reading(req[q].op, req[q].r, "count") = HasRead(q)
    BY <1>1, <1>2 DEF Stages, Stage, Reading
<1>4. /\ req' \in [Requests -> Req] /\ Shape(req'[q])
      /\ \A p \in Requests \ {q} : req'[p] = req[p]
      /\ req'[q].op = "pass" /\ req'[q].r = req[q].r /\ req'[q].pc = "count"
      /\ req'[q].saw = req[q].saw /\ HasRead(q)' = HasRead(q)
    BY <1>1, <1>3, NextStage
<1>5. Shaped'
  <2>1. RowsHeld /\ row_lock \in [LockRows -> Requests \cup {NoRequest}] /\ NoRequest \notin Requests
      BY ConcurrentAssumption DEF CcInv, Shaped, CcTypeOK
  <2>2. "batch" \in LockRows /\ "batch" \notin Rows /\ Rows \subseteq LockRows
      BY ConcurrentAssumption DEF LockRows
  <2>3. /\ row_lock' \in [LockRows -> Requests \cup {NoRequest}]
        /\ row_lock'[req[q].r] = q
        /\ \A x \in LockRows \ {req[q].r} : row_lock'[x] = row_lock[x]
      BY <1>1, <2>1, <2>2
  <2>4. \A p \in Requests : row_lock'["batch"] = p <=> At(p, "complete", "insert")'
      BY <1>1, <1>4, <2>1, <2>2, <2>3 DEF RowsHeld, At
  <2>5. \A p \in Requests, r \in Rows :
            row_lock'[r] = p <=> (/\ req'[p].op = "pass" /\ req'[p].r = r
                                  /\ req'[p].pc \in {"count", "close", "commit"})
    <3> SUFFICES ASSUME NEW p \in Requests, NEW r \in Rows
                 PROVE  row_lock'[r] = p <=> (/\ req'[p].op = "pass" /\ req'[p].r = r
                                              /\ req'[p].pc \in {"count", "close", "commit"})
        OBVIOUS
    <3>1. row_lock[r] = p <=> (/\ req[p].op = "pass" /\ req[p].r = r
                               /\ req[p].pc \in {"count", "close", "commit"})
        BY <2>1 DEF RowsHeld
    <3>2. CASE r = req[q].r /\ p # q
        BY <1>1, <1>4, <2>1, <2>3, <3>1, <3>2 DEF CanWrite
    <3>3. CASE r = req[q].r /\ p = q
        BY <1>4, <2>3, <3>3
    <3>4. CASE r # req[q].r
        BY <1>1, <1>4, <2>2, <2>3, <3>1, <3>4
    <3> QED BY <3>2, <3>3, <3>4
  <2>6. RowsHeld'
      BY <2>4, <2>5, Zenon DEF RowsHeld
  <2>7. InsertedIsAlone'
      BY <1>1, <1>4, StaysAlone DEF NoWrites, CcInv
  <2>8. DbTypeOK' /\ stale' \subseteq Requests /\ raced' \subseteq Deciding
      BY <1>1, Zenon DEF NoWrites, CcInv, Shaped, CcTypeOK, DbTypeOK
  <2> QED BY <1>4, <2>3, <2>6, <2>7, <2>8, StaysShaped DEF CcInv
<1>6. Seen' = Seen /\ DbSame
    BY <1>1 DEF NoWrites, Seen, DbSame
<1>7. Decided(q)'
    BY <1>4 DEF Decided
<1>8. q \notin stale' => Knows(q)'
    BY <1>1, <1>4, <1>6 DEF CcInv, Current, Knows
<1>9. "complete" \notin raced => batch # "indexing"
    BY <1>1 DEF CcInv, QaPhase
<1>10. raced \cap {"reopen", "complete"} = {} => Outlives(q)'
    BY <1>1, <1>4 DEF CcInv, IndexingPhase, Outlives, NoWrites
<1> QED BY <1>1, <1>4, <1>5, <1>6, <1>7, <1>8, <1>9, <1>10, GoesOn

LEMMA PassCountInv ==
    ASSUME CcInv, NEW q \in Requests, PassCount(q)
    PROVE  CcInv'
<1> DEFINE pc == IF \A x \in Rows : Passed(q, x) THEN "close" ELSE "commit"
           r == req[q].r
<1>1. /\ req[q].op = "pass" /\ req[q].pc = "count" /\ r \in Rows
      /\ Reads(q, pc, LockRows) /\ NoWrites /\ NothingEnds
    BY ReadShape DEF PassCount, At, Stage, CcInv
<1>2. HasRead(q) = {r} /\ r \in LockRows /\ r # "batch"
    BY <1>1, ReadShape, ConcurrentAssumption DEF Reading, CcInv, LockRows
<1>3. Seen \in [LockRows -> Status] /\ Seen["batch"] = batch /\ \A x \in Rows : Seen[x] = rec[x]
    BY SeenType DEF CcInv
<1>4. q \notin stale => Knows(q)
    BY DEF CcInv, Current
<1>5. pc = "close" => \A x \in Rows \ {r} : rec[x] = "qa_passed"
    BY DEF Passed
<1>6. ASSUME q \notin stale, pc = "commit" PROVE \E x \in Rows \ {r} : rec[x] # "qa_passed"
  <2>1. req[q].saw[r] = rec[r]
      BY <1>1, <1>2, <1>3, <1>4, <1>6 DEF Knows
  <2>2. PICK x \in Rows : ~Passed(q, x)
      BY <1>6
  <2> QED BY <2>1, <2>2 DEF Passed, Emits
<1>7. pc \in {"close", "commit"}
    OBVIOUS
<1> HIDE DEF pc
<1>8. /\ pc \in {"advance", "insert", "close", "commit"} /\ Stage(req[q].op, r, pc)
      /\ HasRead(q) \cup LockRows = Reading(req[q].op, r, pc)
      /\ HasRead(q) \cup LockRows = LockRows /\ LockRows \in SUBSET LockRows
    BY <1>1, <1>2, <1>7 DEF Stage, Reading
<1>9. /\ row_lock' \in [LockRows -> Requests \cup {NoRequest}]
      /\ row_lock' = row_lock /\ stale' = stale /\ raced' = raced
    BY <1>1 DEF NothingEnds, CcInv, Shaped, CcTypeOK
<1>10. /\ RowsHeld' => Shaped'
       /\ \A p \in Requests \ {q} : req'[p] = req[p]
       /\ req'[q].op = req[q].op /\ req'[q].r = r /\ req'[q].pc = pc
       /\ HasRead(q)' = HasRead(q) \cup LockRows
       /\ req'[q].saw[r] = req[q].saw[r]
       /\ \A x \in HasRead(q) \cup LockRows : x # r => req'[q].saw[x] = Seen[x]
    BY <1>1, <1>2, <1>8, <1>9, ReadsShaped
<1> HIDE DEF r
<1>11. Shaped'
  <2>1. RowsHeld'
      BY <1>1, <1>7, <1>9, <1>10, RowsStayHeld DEF CcInv, At, r
  <2> QED BY <1>10, <2>1
<1>12. Seen' = Seen /\ DbSame
    BY <1>1 DEF NoWrites, Seen, DbSame
<1>13. HasRead(q)' = LockRows /\ \A x \in Rows \ {r} : req'[q].saw[x] = rec[x]
    BY <1>3, <1>8, <1>10 DEF LockRows
<1>14. Decided(q)'
    BY <1>1, <1>5, <1>10, <1>13 DEF Decided
<1>15. ASSUME q \notin stale PROVE Knows(q)'
  <2>1. req'[q].saw[r] = Seen[r]
      BY <1>2, <1>4, <1>10, <1>15 DEF Knows
  <2>2. \A x \in HasRead(q)' : req'[q].saw[x] = Seen'[x]
      BY <1>8, <1>10, <1>12, <2>1
  <2>3. pc = "commit" => \E x \in Rows \ {r} : req'[q].saw[x] # "qa_passed"
      BY <1>6, <1>13, <1>15
  <2> QED BY <1>1, <1>10, <2>2, <2>3 DEF Knows
<1>16. "complete" \notin raced => batch # "indexing"
    BY <1>1 DEF CcInv, QaPhase
<1>17. ASSUME raced \cap {"reopen", "complete"} = {} PROVE Outlives(q)'
  <2>1. Outlives(q) /\ rec' = rec
      BY <1>1, <1>17 DEF CcInv, IndexingPhase, NoWrites
  <2>2. req[q].saw[r] = "qa_passed" => rec[r] \in {"qa_passed", "indexed"}
      BY <1>1, <1>2, <2>1 DEF Outlives
  <2> QED BY <1>1, <1>10, <1>13, <2>1, <2>2 DEF Outlives
<1> QED BY <1>9, <1>10, <1>11, <1>12, <1>14, <1>15, <1>16, <1>17, GoesOn

-----------------------------------------------------------------------------
(* Flags, and requests refused.                                            *)

LEMMA FlagsAndRefusalsInv ==
    ASSUME CcInv, NEW q \in Requests, FlagInsert(q) \/ FlagCommit(q) \/ RefuseDeadlocked(q)
    PROVE  CcInv'
<1>1. flags \in [Rows -> 0 .. 1] /\ InsertedIsAlone
    BY DEF CcInv, Shaped, CcTypeOK
<1>2. CASE GetDbEnd(q, {}) /\ NoWrites
  <2>1. DbSame /\ DbTypeOK'
      BY <1>2, Zenon DEF NoWrites, DbSame, CcInv, Shaped, CcTypeOK, DbTypeOK
  <2>2. InsertedIsAlone'
      BY <1>2, EndFacts, IdleShape, StaysAlone DEF NoWrites, CcInv
  <2> QED BY <1>2, <2>1, <2>2, EndsUnwritten
<1>3. CASE FlagCommit(q)
  <2>1. /\ Inserted(q, req[q].r) /\ req[q].r \in Rows
        /\ flags' = [flags EXCEPT ![req[q].r] = flags[req[q].r] + 1]
        /\ GetDbEnd(q, {}) /\ DbSame
      BY <1>3, ReadShape DEF FlagCommit, At, Inserted, Stage, CcInv, DbSame
  <2>2. flags[req[q].r] = 0 /\ \A p \in Requests : Inserted(p, req[q].r) => p = q
      BY <1>1, <2>1 DEF InsertedIsAlone
  <2>3. flags' \in [Rows -> 0 .. 1] /\ \A r \in Rows \ {req[q].r} : flags'[r] = flags[r]
      BY <1>1, <2>1, <2>2
  <2>4. DbTypeOK'
      BY <2>1, <2>3, Zenon DEF DbSame, CcInv, Shaped, CcTypeOK, DbTypeOK
  <2>5. req'[q] = Idle /\ \A p \in Requests \ {q} : req'[p] = req[p]
      BY <2>1, EndFacts DEF CcInv
  <2>6. InsertedIsAlone'
      BY <1>1, <2>2, <2>3, <2>5, IdleShape DEF InsertedIsAlone, Inserted, At
  <2> QED BY <2>1, <2>4, <2>6, EndsUnwritten
<1>4. CASE FlagInsert(q) /\ ~GetDbEnd(q, {})
  <2>1. /\ req[q].op = "flag" /\ req[q].pc = "flush" /\ req[q].r \in Rows
        /\ flags[req[q].r] = 0 /\ \A p \in Requests : ~Inserted(p, req[q].r)
        /\ req' = [req EXCEPT ![q].pc = "commit"] /\ NothingEnds /\ NoWrites
      BY <1>4, ReadShape DEF FlagInsert, At, Stage, CcInv
  <2>2. HasRead(q) = {}
      BY <2>1, ReadShape DEF Reading, CcInv
  <2>3. /\ "commit" \in Stages /\ Stage(req[q].op, req[q].r, "commit") /\ req[q].op # "none"
        /\ Reading(req[q].op, req[q].r, "commit") = HasRead(q)
      BY <2>1, <2>2 DEF Stages, Stage, Reading
  <2>4. /\ req' \in [Requests -> Req] /\ Shape(req'[q])
        /\ \A p \in Requests \ {q} : req'[p] = req[p]
        /\ req'[q].op = "flag" /\ req'[q].r = req[q].r /\ req'[q].pc = "commit"
        /\ req'[q].saw = req[q].saw /\ HasRead(q)' = {}
      BY <2>1, <2>2, <2>3, NextStage
  <2>5. RowsHeld'
      BY <2>1, <2>4, RowsStayHeld DEF NothingEnds, CcInv, At
  <2>6. InsertedIsAlone'
      BY <1>1, <2>1, <2>4 DEF InsertedIsAlone, Inserted, At, NoWrites
  <2>7. /\ DbTypeOK' /\ row_lock' \in [LockRows -> Requests \cup {NoRequest}]
        /\ stale' \subseteq Requests /\ raced' \subseteq Deciding
      BY <2>1, Zenon DEF NoWrites, NothingEnds, CcInv, Shaped, CcTypeOK, DbTypeOK
  <2>8. Shaped'
      BY <2>4, <2>5, <2>6, <2>7, StaysShaped DEF CcInv
  <2>9. Decided(q)' /\ Knows(q)' /\ Outlives(q)'
      BY <2>4 DEF Decided, Knows, Outlives
  <2>10. DbSame /\ raced' = raced /\ stale' = stale
      BY <2>1 DEF NoWrites, NothingEnds, DbSame
  <2> QED BY <2>4, <2>8, <2>9, <2>10, GoesOn
<1>5. RefuseDeadlocked(q) => GetDbEnd(q, {}) /\ NoWrites
    BY DEF RefuseDeadlocked
<1>6. FlagInsert(q) => NoWrites
    BY DEF FlagInsert
<1> QED BY <1>2, <1>3, <1>4, <1>5, <1>6

\* Closing a flag: none is being inserted for a record that has an open one.
LEMMA FlagCloseInv ==
    ASSUME CcInv, NEW r \in Rows, FlagClose(r)
    PROVE  CcInv'
<1>1. /\ flags[r] > 0 /\ flags' = [flags EXCEPT ![r] = 0]
      /\ UNCHANGED <<rec, reopened, qa_tasks, batch, req, row_lock, stale, raced>>
    BY DEF FlagClose
<1>2. flags \in [Rows -> 0 .. 1] /\ InsertedIsAlone /\ CcTypeOK
    BY DEF CcInv, Shaped, CcTypeOK
<1>3. flags' \in [Rows -> 0 .. 1] /\ flags'[r] = 0 /\ \A x \in Rows \ {r} : flags'[x] = flags[x]
    BY <1>1, <1>2
<1>4. InsertedIsAlone'
    BY <1>1, <1>2, <1>3 DEF InsertedIsAlone, Inserted, At
<1>5. RowsHeld'
    BY <1>1, <1>2 DEF CcTypeOK, RowsHeld, At
<1>6. CcTypeOK'
    BY <1>1, <1>2, <1>3, <1>4, <1>5, Zenon DEF CcTypeOK, HasRead
<1>7. Shaped'
    BY <1>1, <1>6, Zenon DEF CcInv, Shaped
<1>8. Current'
    BY <1>1 DEF CcInv, Current, Decided, Knows, HasRead, Seen
<1>9. QaPhase' /\ LastPass'
    BY <1>1, Zenon DEF CcInv, QaPhase, LastPass
<1>10. IndexingPhase'
    BY <1>1, Zenon DEF CcInv, IndexingPhase, Outlives, HasRead
<1> QED BY <1>7, <1>8, <1>9, <1>10 DEF CcInv

-----------------------------------------------------------------------------
(* The commits.                                                            *)

LEMMA IndexingFlushInv ==
    ASSUME CcInv, NEW q \in Requests, IndexingFlush(q)
    PROVE  CcInv'
<1> DEFINE r == req[q].r
           op == req[q].op
           new == IF op = "reopen" THEN "indexing" ELSE "indexed"
<1>1. /\ op \in {"reopen", "finish", "resubmit"} /\ r \in Rows /\ req[q].pc = "flush"
      /\ r \in LockRows /\ r # "batch"
    BY ReadShape, ConcurrentAssumption DEF IndexingFlush, Stage, CcInv, LockRows
<1>2. /\ rec' = IF Emits(q, r, new) THEN [rec EXCEPT ![r] = new] ELSE rec
      /\ reopened' = IF op = "resubmit" THEN reopened ELSE [reopened EXCEPT ![r] = (op = "reopen")]
      /\ GetDbEnd(q, {r})
      /\ qa_tasks' = qa_tasks /\ batch' = batch /\ flags' = flags
    BY DEF IndexingFlush
<1>3. /\ rec \in [Rows -> {"indexed", "indexing", "qa_pending", "qa_passed"}]
      /\ reopened \in [Rows -> BOOLEAN]
    BY DEF CcInv, Shaped, CcTypeOK
<1>4. (op = "reopen" => {"batch", r} = HasRead(q)) /\ r \in HasRead(q)
    BY <1>1, ReadShape DEF Reading, CcInv
<1> HIDE DEF r, op
<1>5. /\ \A x \in Rows \ {r} : rec'[x] = rec[x] /\ reopened'[x] = reopened[x]
      /\ rec'[r] = IF Emits(q, r, new) THEN new ELSE rec[r]
      /\ op = "resubmit" => reopened'[r] = reopened[r]
      /\ op # "resubmit" => (reopened'[r] <=> op = "reopen")
    BY <1>1, <1>2, <1>3
<1>6. DbTypeOK'
  <2>1. reopened' \in [Rows -> BOOLEAN]
      BY <1>1, <1>2, <1>3
  <2>2. rec' \in [Rows -> {"indexed", "indexing", "qa_pending", "qa_passed"}]
      BY <1>1, <1>2, <1>3
  <2> QED BY <1>2, <2>1, <2>2, Zenon DEF DbTypeOK, CcInv, Shaped, CcTypeOK
<1>7. {r} \in SUBSET LockRows /\ {r} # {}
    BY <1>1
<1>8. /\ req'[q] = Idle /\ \A p \in Requests \ {q} : req'[p] = req[p]
      /\ raced \subseteq raced'
      /\ op \in Deciding \ raced' => q \notin stale
    BY <1>2, <1>7, EndFacts DEF CcInv, op
<1>9. InsertedIsAlone'
    BY <1>2, <1>8, IdleShape, StaysAlone DEF CcInv
<1>10. Shaped'
    BY <1>2, <1>6, <1>7, <1>9, EndFacts, IdleShape, StaysShaped DEF CcInv
<1>11. Current'
  <2>1. \A x \in LockRows \ {r} : Seen'[x] = Seen[x]
      BY <1>2, <1>5 DEF Seen, LockRows
  <2> QED BY <1>2, <1>7, <2>1, CommitCurrent
<1>12. QaPhase'
    BY <1>2, <1>8, IdleShape DEF CcInv, QaPhase
<1>13. IndexingPhase'
  <2> SUFFICES ASSUME raced' \cap {"reopen", "complete"} = {}
               PROVE  /\ batch = "indexing" => \A x \in Rows :
                             rec'[x] = IF reopened'[x] THEN "indexing" ELSE "indexed"
                      /\ batch # "indexing" => \A x \in Rows : ~reopened'[x] /\ rec'[x] # "indexing"
                      /\ batch = "complete" => \A x \in Rows : rec'[x] \in {"qa_passed", "indexed"}
                      /\ \A p \in Requests : Outlives(p)'
      BY <1>2 DEF IndexingPhase
  <2>1. raced \cap {"reopen", "complete"} = {}
      BY <1>8
  <2>2. /\ batch = "indexing" =>
               \A x \in Rows : rec[x] = IF reopened[x] THEN "indexing" ELSE "indexed"
        /\ batch # "indexing" => \A x \in Rows : ~reopened[x] /\ rec[x] # "indexing"
        /\ batch = "complete" => \A x \in Rows : rec[x] \in {"qa_passed", "indexed"}
        /\ \A p \in Requests : Outlives(p)
      BY <2>1 DEF CcInv, IndexingPhase
  <2>3. CASE op = "reopen"
    <3>1. q \notin stale
        BY <1>8, <2>3 DEF Deciding
    <3>2. req[q].saw["batch"] = batch /\ req[q].saw[r] = rec[r] /\ batch = "indexing"
        BY <1>1, <1>4, <2>3, <3>1, SeenType DEF CcInv, Current, Knows, Decided, op
    <3>3. rec'[r] = "indexing" /\ reopened'[r]
        BY <1>5, <2>3, <3>2 DEF Emits
    <3>4. \A x \in Rows : rec'[x] = IF reopened'[x] THEN "indexing" ELSE "indexed"
        BY <1>5, <2>2, <3>2, <3>3
    <3>5. \A p \in Requests : req[p].op # "pass"
        BY <2>1, <3>2 DEF CcInv, QaPhase
    <3>6. ASSUME NEW p \in Requests, p # q PROVE Outlives(p)'
      <4>1. Outlives(p) /\ req'[p] = req[p] /\ req[p].op # "pass"
          BY <1>8, <2>2, <3>5, <3>6
      <4> QED BY <1>2, <4>1 DEF Outlives
    <3>7. Outlives(q)'
        BY <1>8, IdleShape, Zenon DEF Outlives
    <3> QED BY <3>2, <3>4, <3>6, <3>7
  <2>4. CASE op \in {"finish", "resubmit"}
    <3>1. rec'[r] \in {rec[r], "indexed"}
        BY <1>5, <2>4
    <3>2. batch = "indexing" => rec'[r] = IF reopened'[r] THEN "indexing" ELSE "indexed"
      <4>1. CASE op = "finish"
        <5>1. req[q].saw[r] = "indexing"
            BY <2>2, <4>1 DEF Outlives, op, r
        <5> QED BY <1>5, <4>1, <5>1 DEF Emits
      <4>2. CASE op = "resubmit" /\ batch = "indexing"
        <5>1. req[q].saw[r] = "indexed"
            BY <2>2, <4>2 DEF Outlives, op, r
        <5> QED BY <1>1, <1>5, <2>2, <4>2, <5>1 DEF Emits
      <4> QED BY <2>4, <4>1, <4>2
    <3>3. batch # "indexing" => ~reopened'[r] /\ rec'[r] # "indexing"
        BY <1>1, <1>5, <2>2, <2>4, <3>1
    <3>4. ASSUME NEW p \in Requests, p # q PROVE Outlives(p)'
      <4>1. Outlives(p) /\ req'[p] = req[p] /\ HasRead(p)' = HasRead(p)
          BY <1>8, <2>2, <3>4 DEF HasRead
      <4> QED BY <1>2, <1>5, <3>1, <4>1 DEF Outlives
    <3>5. Outlives(q)'
        BY <1>8, IdleShape, Zenon DEF Outlives
    <3> QED BY <1>1, <1>5, <2>2, <3>1, <3>2, <3>3, <3>4, <3>5
  <2> QED BY <1>1, <2>3, <2>4
<1>14. LastPass'
  <2>1. (\A x \in Rows : rec'[x] = "qa_passed") => rec' = rec
      BY <1>1, <1>2, <1>5
  <2> QED BY <1>2, <1>8, <2>1 DEF CcInv, LastPass
<1> QED BY <1>10, <1>11, <1>12, <1>13, <1>14 DEF CcInv

LEMMA CompleteInsertInv ==
    ASSUME CcInv, NEW q \in Requests, CompleteInsert(q)
    PROVE  CcInv'
<1> DEFINE emitted == {r \in Rows : Emits(q, r, "qa_pending")}
           written == emitted \cup {"batch"}
<1>1. /\ req[q].op = "complete" /\ req[q].pc = "insert"
      /\ \A r \in Rows : qa_tasks[r] < MaxQaTasks
      /\ rec' = [r \in Rows |-> IF r \in emitted THEN "qa_pending" ELSE rec[r]]
      /\ qa_tasks' = [r \in Rows |-> qa_tasks[r] + 1]
      /\ batch' = "qa_review"
      /\ GetDbEnd(q, written)
      /\ reopened' = reopened /\ flags' = flags
    BY DEF CompleteInsert, At
<1>2. HasRead(q) = LockRows
    BY <1>1, ReadShape DEF Reading, CcInv
<1>3. /\ rec \in [Rows -> {"indexed", "indexing", "qa_pending", "qa_passed"}]
      /\ qa_tasks \in [Rows -> 0 .. MaxQaTasks]
    BY DEF CcInv, Shaped, CcTypeOK
<1>4. \A r \in Rows : Emits(q, r, "qa_pending") <=> r \in emitted
    OBVIOUS
<1>5. written \in SUBSET LockRows /\ written # {} /\ "batch" \in written /\ emitted \subseteq written
    BY DEF LockRows
<1> HIDE DEF emitted, written
<1>6. \A r \in Rows : rec'[r] = (IF r \in emitted THEN "qa_pending" ELSE rec[r])
                      /\ qa_tasks'[r] = qa_tasks[r] + 1
    BY <1>1
<1>7. DbTypeOK'
  <2>1. rec' \in [Rows -> {"indexed", "indexing", "qa_pending", "qa_passed"}]
      BY <1>1, <1>3
  <2>2. qa_tasks' \in [Rows -> 0 .. MaxQaTasks]
      BY <1>1, <1>3, ConcurrentAssumption
  <2>3. reopened' \in [Rows -> BOOLEAN] /\ flags' \in [Rows -> 0 .. 1]
        /\ batch' \in {"indexing", "qa_review", "complete"}
      BY <1>1, Zenon DEF CcInv, Shaped, CcTypeOK
  <2> QED BY <2>1, <2>2, <2>3, Zenon DEF DbTypeOK
<1>8. /\ req'[q] = Idle /\ \A p \in Requests \ {q} : req'[p] = req[p]
      /\ raced \subseteq raced'
      /\ "complete" \notin raced' => q \notin stale
    BY <1>1, <1>5, EndFacts DEF CcInv, Deciding
<1>9. InsertedIsAlone'
    BY <1>1, <1>8, IdleShape, StaysAlone DEF CcInv
<1>10. Shaped'
    BY <1>1, <1>5, <1>7, <1>9, EndFacts, IdleShape, StaysShaped DEF CcInv
<1>11. Current'
  <2>1. \A x \in LockRows \ written : Seen'[x] = Seen[x]
      BY <1>5, <1>6 DEF Seen, LockRows
  <2> QED BY <1>1, <1>5, <2>1, CommitCurrent
<1>12. CASE "complete" \in raced'
    BY <1>10, <1>11, <1>12 DEF CcInv, QaPhase, IndexingPhase, LastPass
<1>13. CASE "complete" \notin raced'
  <2>1. Knows(q) /\ Decided(q) /\ "complete" \notin raced
      BY <1>8, <1>13 DEF CcInv, Current
  <2>2. batch = "indexing" /\ \A r \in Rows : req[q].saw[r] = "indexed" /\ rec[r] = "indexed"
      BY <1>1, <1>2, <2>1, SeenType DEF CcInv, Knows, Decided, LockRows
  <2>3. \A r \in Rows : rec'[r] = "qa_pending" /\ qa_tasks'[r] = 1
      BY <1>4, <1>6, <2>1, <2>2 DEF Emits, CcInv, QaPhase
  <2>4. \A p \in Requests : req[p].op # "pass"
      BY <2>1, <2>2 DEF CcInv, QaPhase
  <2>5. \A p \in Requests : req'[p].op # "pass"
      BY <1>8, <2>4, IdleShape
  <2>6. QaPhase'
      BY <1>1, <2>3, <2>5 DEF QaPhase
  <2>7. LastPass'
      BY <2>3, ConcurrentAssumption DEF LastPass
  <2>8. IndexingPhase'
    <3>1. CASE "reopen" \in raced'
        BY <3>1 DEF IndexingPhase
    <3>2. CASE "reopen" \notin raced'
      <4>1. /\ \A r \in Rows : rec[r] = IF reopened[r] THEN "indexing" ELSE "indexed"
            /\ \A p \in Requests : Outlives(p)
          BY <1>8, <2>1, <2>2, <3>2 DEF CcInv, IndexingPhase
      <4>2. \A r \in Rows : ~reopened'[r] /\ rec'[r] # "indexing"
          BY <1>1, <2>2, <2>3, <4>1
      <4>3. ASSUME NEW p \in Requests PROVE Outlives(p)'
        <5>1. CASE p = q
            BY <1>8, <5>1, IdleShape, Zenon DEF Outlives
        <5>2. CASE p # q
            BY <1>1, <1>8, <2>5, <4>1, <5>2 DEF Outlives
        <5> QED BY <5>1, <5>2
      <4> QED BY <1>1, <4>2, <4>3 DEF IndexingPhase
    <3> QED BY <3>1, <3>2
  <2> QED BY <1>10, <1>11, <2>6, <2>7, <2>8 DEF CcInv
<1> QED BY <1>12, <1>13

LEMMA PassEndInv ==
    ASSUME CcInv, NEW q \in Requests, PassEnd(q)
    PROVE  CcInv'
<1> DEFINE r == req[q].r
           closes == req[q].pc = "close" /\ Emits(q, "batch", "complete")
           written == {r} \cup {x \in {"batch"} : closes}
<1>1. /\ req[q].op = "pass" /\ req[q].pc \in {"close", "commit"}
      /\ r \in Rows /\ r # "batch"
    BY ReadShape, ConcurrentAssumption DEF PassEnd, Stage, CcInv
<1>2. /\ rec' = IF Emits(q, r, "qa_passed") THEN [rec EXCEPT ![r] = "qa_passed"] ELSE rec
      /\ batch' = IF closes THEN "complete" ELSE batch
      /\ GetDbEnd(q, written)
      /\ reopened' = reopened /\ qa_tasks' = qa_tasks /\ flags' = flags
    BY DEF PassEnd
<1>3. HasRead(q) = LockRows /\ r \in LockRows /\ "batch" \in LockRows /\ Rows \subseteq LockRows
    BY <1>1, ReadShape DEF Reading, CcInv, LockRows
<1>4. /\ written \in SUBSET LockRows /\ written # {} /\ r \in written
      /\ closes => "batch" \in written
    BY <1>3
<1> HIDE DEF r, written
<1>5. rec \in [Rows -> {"indexed", "indexing", "qa_pending", "qa_passed"}]
    BY DEF CcInv, Shaped, CcTypeOK
<1>6. /\ \A x \in Rows \ {r} : rec'[x] = rec[x]
      /\ rec'[r] = IF Emits(q, r, "qa_passed") THEN "qa_passed" ELSE rec[r]
    BY <1>1, <1>2, <1>5
<1>7. DbTypeOK'
  <2>1. rec' \in [Rows -> {"indexed", "indexing", "qa_pending", "qa_passed"}]
      BY <1>1, <1>2, <1>5
  <2>2. batch' \in {"indexing", "qa_review", "complete"}
      BY <1>2 DEF CcInv, Shaped, CcTypeOK
  <2> QED BY <1>2, <2>1, <2>2, Zenon DEF DbTypeOK, CcInv, Shaped, CcTypeOK
<1>8. /\ req'[q] = Idle /\ \A p \in Requests \ {q} : req'[p] = req[p]
      /\ raced \subseteq raced'
      /\ "pass" \notin raced' => q \notin stale
    BY <1>1, <1>2, <1>4, EndFacts DEF CcInv, Deciding
<1>9. InsertedIsAlone'
    BY <1>2, <1>8, IdleShape, StaysAlone DEF CcInv
<1>10. Shaped'
    BY <1>2, <1>4, <1>7, <1>9, EndFacts, IdleShape, StaysShaped DEF CcInv
<1>11. Current'
  <2>1. \A x \in LockRows \ written : Seen'[x] = Seen[x]
      BY <1>2, <1>4, <1>6 DEF Seen, LockRows
  <2> QED BY <1>2, <1>4, <2>1, CommitCurrent
<1>12. QaPhase'
    BY <1>1, <1>2, <1>8, IdleShape DEF CcInv, QaPhase
<1>13. IndexingPhase'
  <2> SUFFICES ASSUME raced' \cap {"reopen", "complete"} = {} PROVE IndexingPhase'
      BY DEF IndexingPhase
  <2>1. raced \cap {"reopen", "complete"} = {}
      BY <1>8
  <2>2. batch # "indexing" /\ batch' # "indexing"
      BY <1>1, <1>2, <2>1 DEF CcInv, QaPhase
  <2>3. /\ \A x \in Rows : ~reopened[x] /\ rec[x] # "indexing"
        /\ batch = "complete" => \A x \in Rows : rec[x] \in {"qa_passed", "indexed"}
        /\ \A p \in Requests : Outlives(p)
      BY <2>1, <2>2 DEF CcInv, IndexingPhase
  <2>4. \A x \in Rows : req[q].saw[x] = "qa_passed" => rec[x] \in {"qa_passed", "indexed"}
      BY <1>1, <1>3, <2>3 DEF Outlives
  <2>5. rec'[r] \in {"qa_passed", "indexed"}
      BY <1>1, <1>6, <2>4 DEF Emits
  <2>6. \A x \in Rows : ~reopened'[x] /\ rec'[x] # "indexing"
      BY <1>2, <1>6, <2>3, <2>5
  <2>7. batch' = "complete" => \A x \in Rows : rec'[x] \in {"qa_passed", "indexed"}
    <3>1. CASE closes
      <4>1. \A x \in Rows \ {r} : req[q].saw[x] = "qa_passed"
          BY <1>1, <3>1 DEF CcInv, Current, Decided, r
      <4> QED BY <1>6, <2>4, <2>5, <4>1
    <3>2. CASE ~closes
        BY <1>2, <1>6, <2>3, <2>5, <3>2
    <3> QED BY <3>1, <3>2
  <2>8. ASSUME NEW p \in Requests PROVE Outlives(p)'
    <3>1. CASE p = q
        BY <1>8, <3>1, IdleShape, Zenon DEF Outlives
    <3>2. CASE p # q
      <4>1. Outlives(p) /\ req'[p] = req[p] /\ HasRead(p)' = HasRead(p)
          BY <1>8, <2>3, <3>2 DEF HasRead
      <4> QED BY <1>6, <2>2, <2>5, <4>1 DEF Outlives
    <3> QED BY <3>1, <3>2
  <2> QED BY <2>2, <2>6, <2>7, <2>8 DEF IndexingPhase
<1>14. LastPass'
  <2> SUFFICES ASSUME raced' \cap {"pass", "complete"} = {}, \A x \in Rows : rec'[x] = "qa_passed"
               PROVE  batch' = "complete"
      BY DEF LastPass
  <2>1. Knows(q)
      BY <1>8 DEF CcInv, Current
  <2>2. req[q].saw["batch"] = batch /\ \A x \in Rows : req[q].saw[x] = rec[x]
      BY <1>3, <2>1, SeenType DEF Knows, CcInv
  <2>3. CASE req[q].pc = "commit"
    <3>1. PICK x \in Rows \ {r} : req[q].saw[x] # "qa_passed"
        BY <1>1, <2>1, <2>3 DEF Knows, r
    <3> QED BY <1>6, <2>2, <3>1
  <2>4. CASE req[q].pc = "close"
      BY <1>2, <2>2, <2>4 DEF Emits
  <2> QED BY <1>1, <2>3, <2>4
<1> QED BY <1>10, <1>11, <1>12, <1>13, <1>14 DEF CcInv

-----------------------------------------------------------------------------
(* The theorems.                                                           *)

LEMMA CcInvInit == CcInit => CcInv
<1> SUFFICES ASSUME CcInit PROVE CcInv
    OBVIOUS
<1>1. req \in [Requests -> Req] /\ \A q \in Requests : req[q] = Idle
    BY IdleShape DEF CcInit
<1>2. \A q \in Requests : req[q].op = "none" /\ HasRead(q) = {}
    BY <1>1, IdleShape DEF HasRead
<1>3. /\ rec \in [Rows -> {"indexed", "indexing", "qa_pending", "qa_passed"}]
      /\ reopened \in [Rows -> BOOLEAN]
      /\ qa_tasks \in [Rows -> 0 .. MaxQaTasks]
      /\ batch \in {"indexing", "qa_review", "complete"}
      /\ flags \in [Rows -> 0 .. 1]
      /\ row_lock \in [LockRows -> Requests \cup {NoRequest}]
    BY ConcurrentAssumption DEF CcInit
<1>4. RowsHeld
    BY <1>2, ConcurrentAssumption DEF CcInit, RowsHeld, At, LockRows
<1>5. InsertedIsAlone
    BY <1>2 DEF InsertedIsAlone, Inserted, At
<1>6. CcTypeOK
    BY <1>2, <1>3, <1>4, <1>5 DEF CcInit, CcTypeOK, Ops, Deciding
<1>7. Shaped
    BY <1>1, <1>6, IdleShape DEF Shaped
<1>8. \A q \in Requests : Decided(q) /\ Knows(q) /\ Outlives(q) /\ req[q].op # "pass"
    BY <1>1, IdleKnows
<1>9. \E r \in Rows : rec[r] # "qa_passed"
    BY ConcurrentAssumption DEF CcInit
<1> QED BY <1>7, <1>8, <1>9 DEF CcInit, CcInv, Current, QaPhase, IndexingPhase, LastPass

LEMMA CcInvNext == CcInv /\ [CcNext]_ccVars => CcInv'
<1> SUFFICES ASSUME CcInv, [CcNext]_ccVars PROVE CcInv'
    OBVIOUS
<1>1. ASSUME NEW q \in Requests, Goes(q) PROVE CcInv'
    BY <1>1, IndexingFlushInv, CompleteReadsInv, CompleteInsertInv, PassFlushInv,
       PassCountInv, PassEndInv, FlagsAndRefusalsInv DEF Goes
<1>2. ASSUME NEW q \in Requests,
             \/ CompleteRead(q)
             \/ \E r \in Rows : ReopenRead(q, r) \/ FinishRead(q, r) \/ PassRead(q, r) \/ FlagRead(q, r)
      PROVE  CcInv'
    BY <1>2, BeginsInv
<1>3. ASSUME NEW r \in Rows, FlagClose(r) PROVE CcInv'
    BY <1>3, FlagCloseInv
<1>4. CASE UNCHANGED ccVars
  <2>1. UNCHANGED <<rec, reopened, qa_tasks, batch, flags, req, row_lock, stale, raced>>
      BY <1>4 DEF ccVars
  <2>2. Shaped'
    <3>1. RowsHeld' /\ InsertedIsAlone'
        BY <2>1 DEF CcInv, Shaped, CcTypeOK, RowsHeld, InsertedIsAlone, Inserted, At
    <3>2. CcTypeOK'
        BY <2>1, <3>1, Zenon DEF CcInv, Shaped, CcTypeOK, HasRead
    <3> QED BY <2>1, <3>2, Zenon DEF CcInv, Shaped
  <2>3. Current' /\ QaPhase' /\ LastPass'
    <3>1. Current'
        BY <2>1 DEF CcInv, Current, Decided, Knows, HasRead, Seen
    <3>2. QaPhase' /\ LastPass'
        BY <2>1, Zenon DEF CcInv, QaPhase, LastPass
    <3> QED BY <3>1, <3>2
  <2>4. IndexingPhase'
      BY <2>1, Zenon DEF CcInv, IndexingPhase, Outlives, HasRead
  <2> QED BY <2>2, <2>3, <2>4 DEF CcInv
<1> QED BY <1>1, <1>2, <1>3, <1>4 DEF CcNext

\* However many requests overlap, one that is not stale still has what is
\* committed in every row it has read, and the batch is in order but for what
\* the stale commits, told apart by their kind, have done to it (get_db,
\* auto_advance_to_qa, _maybe_complete_batch).
THEOREM CcInvariant == CcSpec => []CcInv
<1> QED BY CcInvInit, CcInvNext, PTL DEF CcSpec

\* A row is held exactly by the live request whose UPDATE of it is not yet
\* committed, and a record's open flag, inserted or committed, is the only one
\* although every request looks for one before it inserts.
THEOREM CcTypeCorrect == CcSpec => []CcTypeOK
<1>1. CcInv => CcTypeOK
    BY DEF CcInv, Shaped
<1> QED BY <1>1, CcInvariant, PTL

\* However many requests complete the batch, and whatever passes, reopenings
\* and submissions are stale, no record gets a second QA task unless a stale
\* completion commits.
THEOREM QaTasksAreSingle == CcSpec => []OneQaTask
<1>1. CcInv => OneQaTask
    BY DEF CcInv, QaPhase, OneQaTask
<1> QED BY <1>1, CcInvariant, PTL

\* Reopened work slips past the batch's completion only by a stale reopening
\* or a stale completion; a finished task submitted again, at any time, does
\* not put its record back into indexing.
THEOREM ReviewHasNoIndexing == CcSpec => []NoIndexingInReview
<1>1. CcInv => NoIndexingInReview
    BY DEF CcInv, IndexingPhase, NoIndexingInReview
<1> QED BY <1>1, CcInvariant, PTL

\* A batch whose records have all passed is complete unless a stale pass or
\* completion commits, and a complete batch has no record waiting for QA or in
\* indexing whatever passes and submissions overlap.
THEOREM ClosesWithLastPass == CcSpec => []CompleteWhenPassed
<1>1. CcInv => CompleteWhenPassed
    BY DEF CcInv, IndexingPhase, LastPass, CompleteWhenPassed
<1> QED BY <1>1, CcInvariant, PTL

=============================================================================
