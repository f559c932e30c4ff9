---------------------------- MODULE ScriptProofs ----------------------------
(***************************************************************************)
(* Theorems about the operators' scripts: the copy of records to another   *)
(* deployment, the wipe of a project, and the scripts that rewrite         *)
(* statuses beside live requests.                                          *)
(***************************************************************************)
EXTENDS RecordMigration, ProjectWipe, StatusScripts, SequenceTheorems, TLAPS

-----------------------------------------------------------------------------
(* ProjectWipe.                                                            *)

\* What a row of the project that is in the way refers to is in the way too.
Parents(rows) ==
    \A k \in rows : k.table # "audit_logs" => \A t \in k.of : Holds(rows, t)

\* Behind the DELETE that is due, rows of the scope are late ones, and there are
\* no batches, lots and records, since none is added once they were gathered.
Behind ==
    \A i \in 1 .. purge.at - 1 : \A k \in purge.left :
        k.table = DeleteOrder[i] /\ InScope(k) => k \in late /\ k.table \notin Owned

\* The wipe's transaction keeps the references, and of what it went through only
\* late rows are there.
WipeInv ==
    /\ PurgeTypeOK
    /\ purge.pc \in {"off", "gathering", "asked"} => late = {} /\ Parents(stored)
    /\ purge.pc = "asked" => purge.at = 1
    /\ purge.pc = "deleting" => Parents(purge.left) /\ Behind
    /\ purge.pc = "done" => WipeLeavesNothing

\* What the kinds of row keep to.
LEMMA KindFacts ==
    ASSUME NEW k \in Kinds
    PROVE  /\ k.table \in Tables /\ k.own \in BOOLEAN
           /\ k.of \subseteq Owned \cup {"tasks"}
           /\ k.own => k.table \in Owned
           /\ k.table # "audit_logs" => \A t \in k.of : <<k.table, t>> \in References
           /\ k.table = "records" /\ "batches" \in k.of => k.own
           /\ k.table = "record_flags" /\ "batches" \in k.of => "records" \in k.of
BY DEF Kinds

\* The order of the DELETEs, spelt out.
LEMMA OrderFacts ==
    /\ Len(DeleteOrder) = 8
    /\ DeleteOrder[1] = "audit_logs" /\ DeleteOrder[2] = "lot_records"
    /\ DeleteOrder[3] = "lots" /\ DeleteOrder[4] = "batch_qc_results"
    /\ DeleteOrder[5] = "tasks" /\ DeleteOrder[6] = "record_versions"
    /\ DeleteOrder[7] = "records" /\ DeleteOrder[8] = "batches"
BY DEF DeleteOrder

\* Deleting a table's rows of the scope with those that go by cascade leaves no
\* reference in the air, unless the statement is refused (_delete_db_rows).
LEMMA DeleteKeepsParents ==
    ASSUME NEW left \in SUBSET Kinds, Parents(left), NEW t \in Tables,
           ~(Doomed(t, left) # {} /\ Blockers(t, left) # {})
    PROVE  Parents(left \ (Doomed(t, left) \cup TakenAlong(t, left)))
<1> DEFINE gone == Doomed(t, left) \cup TakenAlong(t, left)
<1>1. SUFFICES ASSUME NEW k \in left \ gone, k.table # "audit_logs", NEW x \in k.of
               PROVE  Holds(left \ gone, x)
      BY DEF Parents
<1>2. PICK p \in left : p.table = x /\ InScope(p)
      BY <1>1 DEF Parents, Holds
<1>3. x \in Owned \cup {"tasks"} /\ <<k.table, x>> \in References
      BY <1>1, KindFacts
<1>4. x # t
  <2>1. SUFFICES ASSUME x = t PROVE FALSE
        OBVIOUS
  <2>2. p \in Doomed(t, left)
        BY <1>2, <2>1 DEF Doomed
  <2>3. CASE <<k.table, x>> \in Cascades
        BY <1>1, <2>1, <2>3 DEF TakenAlong
  <2>4. CASE <<k.table, x>> \notin Cascades
        BY <1>1, <1>3, <2>1, <2>2, <2>4 DEF Blockers
  <2> QED BY <2>3, <2>4
<1>5. p \notin Doomed(t, left)
      BY <1>2, <1>4 DEF Doomed
<1>6. p \notin TakenAlong(t, left)
  <2>1. p.table # "record_flags"
        BY <1>2, <1>3 DEF Owned
  <2> QED BY <2>1 DEF TakenAlong, Cascades
<1> QED BY <1>2, <1>5, <1>6 DEF Holds

\* Where every DELETE has run, what is left of the scope is late audit events:
\* what refers only to rows that are gone is gone.
LEMMA ScopeIsGone ==
    ASSUME PurgeTypeOK, Parents(purge.left), Behind, purge.at = 9,
           NEW k \in purge.left, InScope(k)
    PROVE  k.table = "audit_logs" /\ k \in late
<1>1. k \in Kinds /\ purge.left \in SUBSET Kinds
      BY DEF PurgeTypeOK
<1>2. \A t \in Owned : ~Holds(purge.left, t)
  <2>1. \A t \in Owned : \E i \in 1 .. 8 : DeleteOrder[i] = t
        BY OrderFacts DEF Owned
  <2> QED BY <2>1 DEF Behind, Holds
<1>3. k.table \notin Owned
      BY <1>2 DEF Holds
<1>4. k.table = "audit_logs"
  <2>1. SUFFICES ASSUME k.table # "audit_logs" PROVE FALSE
        OBVIOUS
  <2>2. PICK t \in k.of : Holds(purge.left, t)
        BY <1>3, <2>1 DEF InScope, Parents
  <2>3. t = "tasks"
        BY <1>1, <1>2, <2>2, KindFacts
  <2>4. PICK p \in purge.left : p.table = "tasks" /\ InScope(p)
        BY <2>2, <2>3 DEF Holds
  <2>5. PICK x \in p.of : Holds(purge.left, x)
    <3>1. "tasks" \notin Owned
          BY DEF Owned
    <3> QED BY <2>4, <3>1 DEF InScope, Parents
  <2>6. <<"tasks", x>> \in References
        BY <1>1, <2>4, <2>5, KindFacts
  <2>7. x \in Owned
        BY <2>6 DEF References, Owned
  <2> QED BY <1>2, <2>5, <2>7
<1>5. k \in late
  <2>1. 1 \in 1 .. purge.at - 1
        OBVIOUS
  <2> QED BY <1>4, <2>1, OrderFacts DEF Behind
<1> QED BY <1>4, <1>5

\* It holds of an empty project.
LEMMA WipeInvInit == PurgeInit => WipeInv
<1> SUFFICES ASSUME PurgeInit PROVE WipeInv
    OBVIOUS
<1>1. /\ stored = {} /\ late = {} /\ purge.pc = "off" /\ purge.at = 1
      /\ purge = [pc |-> "off", at |-> 1, left |-> {}]
      BY DEF PurgeInit
<1>2. PurgeTypeOK
      BY <1>1, OrderFacts DEF PurgeTypeOK
<1>3. Parents(stored)
      BY <1>1 DEF Parents
<1> QED BY <1>1, <1>2, <1>3 DEF WipeInv

\* Every step of the application and of the script keeps it.
LEMMA WipeInvNext == WipeInv /\ [PurgeNext]_purgeVars => WipeInv'
<1> SUFFICES ASSUME WipeInv, [PurgeNext]_purgeVars PROVE WipeInv'
    OBVIOUS
<1> USE OrderFacts
<1>0. /\ stored \subseteq Kinds /\ late \subseteq Kinds
      /\ purge \in [pc : {"off", "gathering", "asked", "deleting", "refused", "done"},
                    at : 1 .. 9, left : SUBSET Kinds]
      BY DEF WipeInv, PurgeTypeOK
<1>1. ASSUME NEW k \in Kinds, RowAdded(k) PROVE WipeInv'
  <2>1. /\ stored' = stored \cup {k} /\ Timely(k) /\ ParentsThere(k)
        /\ purge' = IF purge.pc = "deleting"
                    THEN [purge EXCEPT !.left = purge.left \cup {k}] ELSE purge
        /\ late' = IF purge.pc \in {"deleting", "done"} THEN late \cup {k} ELSE late
        BY <1>1 DEF RowAdded
  <2>2. ASSUME k.table # "audit_logs", NEW t \in k.of
        PROVE  Holds(IF purge.pc = "deleting" THEN purge.left ELSE stored, t)
    <3>1. <<k.table, t>> \in References
          BY <2>2, KindFacts
    <3>2. <<k.table, t>>[1] = k.table /\ <<k.table, t>>[2] = t
          OBVIOUS
    <3> QED BY <2>1, <2>2, <3>1, <3>2 DEF ParentsThere
  <2>3. CASE purge.pc \in {"off", "gathering", "asked"}
    <3>1. purge' = purge /\ late' = late /\ late = {}
          BY <2>1, <2>3 DEF WipeInv
    <3>2. Parents(stored)'
      <4>1. Parents(stored) /\ \A t \in k.of : k.table # "audit_logs" => Holds(stored, t)
            BY <2>2, <2>3 DEF WipeInv
      <4> QED BY <2>1, <4>1 DEF Parents, Holds
    <3> QED BY <1>0, <2>1, <2>3, <3>1, <3>2 DEF WipeInv, PurgeTypeOK
  <2>4. CASE purge.pc = "deleting"
    <3>1. /\ purge'.pc = "deleting" /\ purge'.at = purge.at
          /\ purge'.left = purge.left \cup {k} /\ late' = late \cup {k}
          /\ purge' \in [pc : {"off", "gathering", "asked", "deleting", "refused", "done"},
                         at : 1 .. 9, left : SUBSET Kinds]
          BY <1>0, <2>1, <2>4
    <3>2. Parents(purge.left)'
      <4>1. /\ Parents(purge.left)
            /\ \A t \in k.of : k.table # "audit_logs" => Holds(purge.left, t)
            BY <2>2, <2>4 DEF WipeInv
      <4> QED BY <3>1, <4>1 DEF Parents, Holds
    <3>3. Behind'
      <4>1. ~k.own
            BY <2>1, <2>4 DEF Timely, Gathered
      <4>2. InScope(k) => k.table \notin Owned
            BY <4>1 DEF InScope
      <4>3. Behind
            BY <2>4 DEF WipeInv
      <4> QED BY <3>1, <4>2, <4>3 DEF Behind
    <3>4. PurgeTypeOK'
          BY <1>0, <2>1, <2>4, <3>1 DEF WipeInv, PurgeTypeOK
    <3> QED BY <3>1, <3>2, <3>3, <3>4 DEF WipeInv
  <2>5. CASE purge.pc = "done"
    <3>1. purge' = purge /\ late' = late \cup {k} /\ WipeLeavesNothing
          BY <2>1, <2>5 DEF WipeInv
    <3>2. InScope(k) => k.table = "audit_logs"
      <4>1. SUFFICES ASSUME InScope(k), k.table # "audit_logs" PROVE FALSE
            OBVIOUS
      <4>2. ~k.own
            BY <2>1, <2>5 DEF Timely, Gathered
      <4>3. PICK t \in k.of : Holds(stored, t)
            BY <2>2, <2>5, <4>1, <4>2 DEF InScope
      <4>4. t # "audit_logs"
            BY <4>3, KindFacts DEF Owned
      <4> QED BY <2>5, <3>1, <4>3, <4>4 DEF WipeLeavesNothing, Holds
    <3>3. WipeLeavesNothing'
          BY <2>1, <2>5, <3>1, <3>2 DEF WipeLeavesNothing
    <3> QED BY <1>0, <2>1, <2>5, <3>1, <3>3 DEF WipeInv, PurgeTypeOK
  <2>6. CASE purge.pc = "refused"
        BY <1>0, <2>1, <2>6 DEF WipeInv, PurgeTypeOK
  <2> QED BY <1>0, <2>3, <2>4, <2>5, <2>6
<1>2. CASE PurgeBegins
  <2>1. /\ purge.pc = "off" /\ purge' = [purge EXCEPT !.pc = "gathering"]
        /\ stored' = stored /\ late' = late
        BY <1>2 DEF PurgeBegins
  <2> QED BY <1>0, <2>1 DEF WipeInv, PurgeTypeOK, Parents, Holds
<1>3. CASE GatherTable
  <2>1. /\ purge.pc = "gathering" /\ stored' = stored /\ late' = late
        BY <1>3 DEF GatherTable
  <2>2. \/ purge.at < 3 /\ purge' = [purge EXCEPT !.at = purge.at + 1]
        \/ purge' = [purge EXCEPT !.pc = "asked", !.at = 1]
    <3>1. Len(GatherOrder) = 3
          BY DEF GatherOrder
    <3> QED BY <1>3, <3>1 DEF GatherTable
  <2>3. /\ purge' \in [pc : {"gathering", "asked"}, at : 1 .. 9, left : SUBSET Kinds]
        /\ purge'.pc = "asked" => purge'.at = 1
    <3>1. purge.left \in SUBSET Kinds /\ purge.at \in 1 .. 9
          BY <1>0
    <3>2. CASE purge.at < 3 /\ purge' = [purge EXCEPT !.at = purge.at + 1]
      <4>1. purge.at + 1 \in 1 .. 9
            BY <3>1, <3>2
      <4>2. purge'.pc = "gathering"
            BY <1>0, <2>1, <3>2
      <4> QED BY <1>0, <2>1, <3>2, <4>1, <4>2
    <3>3. CASE purge' = [purge EXCEPT !.pc = "asked", !.at = 1]
      <4>1. purge'.at = 1
            BY <1>0, <3>3
      <4>2. 1 \in 1 .. 9 /\ "asked" \in {"gathering", "asked"}
            OBVIOUS
      <4>3. purge' \in [pc : {"gathering", "asked"}, at : 1 .. 9, left : SUBSET Kinds]
            BY <1>0, <3>1, <3>3, <4>2
      <4> QED BY <4>1, <4>3
    <3> QED BY <2>2, <3>2, <3>3
  <2>4. Parents(stored)' /\ late = {}
        BY <2>1 DEF WipeInv, Parents, Holds
  <2>5. PurgeTypeOK'
        BY <1>0, <2>1, <2>3 DEF PurgeTypeOK
  <2> QED BY <2>1, <2>3, <2>4, <2>5 DEF WipeInv
<1>4. CASE PurgeConfirmed
  <2>1. /\ purge.pc = "asked" /\ purge' = [purge EXCEPT !.pc = "deleting", !.left = stored]
        /\ stored' = stored /\ late' = late
        BY <1>4 DEF PurgeConfirmed
  <2>2. /\ purge'.pc = "deleting" /\ purge'.at = 1 /\ purge'.left = stored /\ late' = {}
        /\ Parents(stored)
        BY <1>0, <2>1 DEF WipeInv
  <2>3. Parents(purge.left)'
        BY <2>2 DEF Parents, Holds
  <2>4. Behind'
        BY <2>2 DEF Behind
  <2> QED BY <1>0, <2>1, <2>2, <2>3, <2>4 DEF WipeInv, PurgeTypeOK
<1>5. CASE PurgeTable
  <2> DEFINE t    == DeleteOrder[purge.at]
             gone == Doomed(t, purge.left) \cup TakenAlong(t, purge.left)
  <2>1. /\ purge.pc = "deleting" /\ purge.at \in 1 .. 8 /\ stored' = stored
        /\ Parents(purge.left) /\ Behind
        BY <1>0, <1>5 DEF PurgeTable, WipeInv
  <2>2. CASE Doomed(t, purge.left) # {} /\ Blockers(t, purge.left) # {}
    <3>1. purge' = [purge EXCEPT !.pc = "refused"] /\ late' = late
          BY <1>5, <2>2 DEF PurgeTable
    <3> QED BY <1>0, <2>1, <3>1 DEF WipeInv, PurgeTypeOK
  <2>3. CASE ~(Doomed(t, purge.left) # {} /\ Blockers(t, purge.left) # {})
    <3>1. /\ purge' = [purge EXCEPT !.at = purge.at + 1, !.left = purge.left \ gone]
          /\ late' = late \ gone
          BY <1>5, <2>3 DEF PurgeTable
    <3>2. /\ purge'.pc = "deleting" /\ purge'.at = purge.at + 1
          /\ purge'.left = purge.left \ gone
          BY <1>0, <2>1, <3>1
    <3>3. t \in Tables
          BY <2>1 DEF Tables, References, Owned
    <3>4. Parents(purge.left \ gone)
          BY <1>0, <2>1, <2>3, <3>3, DeleteKeepsParents
    <3>5. Parents(purge.left)'
          BY <3>2, <3>4 DEF Parents, Holds
    <3>6. Behind'
      <4>1. SUFFICES ASSUME NEW i \in 1 .. purge.at, NEW k \in purge.left \ gone,
                            k.table = DeleteOrder[i], InScope(k)
                     PROVE  k \in late \ gone /\ k.table \notin Owned
            BY <2>1, <3>1, <3>2 DEF Behind
      <4>2. i # purge.at
            BY <4>1 DEF Doomed
      <4>3. i \in 1 .. purge.at - 1
            BY <2>1, <4>2
      <4> QED BY <2>1, <4>1, <4>3 DEF Behind
    <3>7. PurgeTypeOK'
      <4>1. late \subseteq purge.left
            BY <2>1 DEF WipeInv, PurgeTypeOK
      <4> HIDE DEF gone
      <4>2. /\ purge.left \ gone \subseteq Kinds /\ late \ gone \subseteq purge.left \ gone
            /\ late \ gone \subseteq Kinds
            BY <1>0, <4>1
      <4>3. purge' \in [pc : {"off", "gathering", "asked", "deleting", "refused", "done"},
                       at : 1 .. 9, left : SUBSET Kinds]
        <5>1. purge.at + 1 \in 1 .. 9 /\ purge.left \ gone \in SUBSET Kinds
              BY <2>1, <4>2
        <5> QED BY <1>0, <3>1, <5>1
      <4> QED BY <1>0, <2>1, <3>1, <3>2, <4>2, <4>3 DEF PurgeTypeOK
    <3> QED BY <3>2, <3>5, <3>6, <3>7 DEF WipeInv
  <2> QED BY <2>2, <2>3
<1>6. CASE PurgeCommits
  <2>1. /\ purge.pc = "deleting" /\ purge.at = 9
        /\ purge' = [purge EXCEPT !.pc = "done"]
        /\ stored' = purge.left /\ late' = late
        BY <1>0, <1>6 DEF PurgeCommits
  <2>2. \A k \in purge.left : InScope(k) => k.table = "audit_logs" /\ k \in late
        BY <2>1, ScopeIsGone DEF WipeInv
  <2>3. WipeLeavesNothing'
        BY <2>1, <2>2 DEF WipeLeavesNothing
  <2> QED BY <1>0, <2>1, <2>3 DEF WipeInv, PurgeTypeOK
<1>7. CASE UNCHANGED purgeVars
  <2>1. stored' = stored /\ purge' = purge /\ late' = late
        BY <1>7 DEF purgeVars
  <2> QED BY <2>1 DEF WipeInv, PurgeTypeOK, WipeLeavesNothing, Parents, Holds, Behind
<1> QED BY <1>1, <1>2, <1>3, <1>4, <1>5, <1>6, <1>7 DEF PurgeNext

\* A wipe that reports success has left no row that it gathered and none that
\* refers to one, whatever the application inserted meanwhile, but audit events
\* written since the first DELETE (_delete_db_rows).
THEOREM WipedClean == PurgeSpec => []WipeLeavesNothing
<1>1. WipeInv => WipeLeavesNothing
      BY DEF WipeInv, WipeLeavesNothing
<1> QED BY <1>1, WipeInvInit, WipeInvNext, PTL DEF PurgeSpec

\* What refers to rows that are due: verdicts, and late rows of the tables that
\* the script has been through.
LEMMA HeldUpByVerdicts ==
    ASSUME PurgeTypeOK, Parents(purge.left), Behind, purge.at \in 1 .. 8,
           NEW k \in Blockers(DeleteOrder[purge.at], purge.left)
    PROVE  k.table = "qc_field_results" \/ k \in late
<1> USE OrderFacts
<1> DEFINE t == DeleteOrder[purge.at]
<1>1. /\ k \in Kinds /\ k \in purge.left /\ t \in k.of
      /\ <<k.table, t>> \in References \ Cascades
      BY DEF Blockers, PurgeTypeOK
<1>2. ~(k.table = "record_flags" /\ t = "batches")
  <2>1. SUFFICES ASSUME k.table = "record_flags", t = "batches" PROVE FALSE
        OBVIOUS
  <2>2. "records" \in k.of /\ purge.at = 8
        BY <1>1, <2>1, KindFacts
  <2>3. PICK p \in purge.left : p.table = "records" /\ InScope(p)
        BY <1>1, <2>1, <2>2 DEF Parents, Holds
  <2>4. 7 \in 1 .. purge.at - 1
        BY <2>2
  <2> QED BY <2>3, <2>4 DEF Behind, Owned
<1>3. k.table # "qc_field_results" => \E i \in 1 .. purge.at - 1 : k.table = DeleteOrder[i]
  <2>1. SUFFICES ASSUME k.table # "qc_field_results"
                 PROVE  \E i \in 1 .. purge.at - 1 : k.table = DeleteOrder[i]
        OBVIOUS
  <2>2. CASE t = "batches"
    <3>1. purge.at = 8
          BY <2>2
    <3>2. k.table \in {"records", "tasks", "batch_qc_results"}
          BY <1>1, <1>2, <2>1, <2>2 DEF References
    <3> QED BY <3>1, <3>2
  <2>3. CASE t = "records"
    <3>1. purge.at = 7
          BY <2>3
    <3>2. k.table \in {"record_versions", "tasks", "lot_records"}
          BY <1>1, <2>1, <2>3 DEF References, Cascades
    <3> QED BY <3>1, <3>2
  <2>4. CASE t = "lots"
    <3>1. purge.at = 3
          BY <2>4
    <3>2. k.table = "lot_records"
          BY <1>1, <2>1, <2>4 DEF References
    <3> QED BY <3>1, <3>2
  <2>5. t \in {"batches", "records", "lots"}
    <3>1. t \in {"batches", "records", "lots", "tasks"}
          BY <1>1 DEF References
    <3>2. t # "tasks"
          BY <1>1, <2>1 DEF References
    <3> QED BY <3>1, <3>2
  <2> QED BY <2>2, <2>3, <2>4, <2>5
<1>4. InScope(k)
  <2>1. CASE k.table \in Owned
    <3>1. k.table = "records" /\ t = "batches"
          BY <1>1, <2>1 DEF References, Owned
    <3> QED BY <1>1, <2>1, <3>1, KindFacts DEF InScope
  <2>2. CASE k.table \notin Owned
        BY <1>1, <2>2 DEF InScope
  <2> QED BY <2>1, <2>2
<1> QED BY <1>1, <1>3, <1>4 DEF Behind

\* The database refuses a wipe for the field verdicts of customer QC and for rows
\* that were committed between two DELETEs, and for no row that was there before,
\* whatever the project holds: what _delete_db_rows says of its order is so for
\* the tables that it names, where nothing is written beside it.
THEOREM RefusalsAreForVerdicts == PurgeSpec => []RefusedForVerdicts
<1>1. PurgeInit => RefusedForVerdicts
      BY DEF PurgeInit, RefusedForVerdicts
<1>2. WipeInv /\ RefusedForVerdicts /\ [PurgeNext]_purgeVars => RefusedForVerdicts'
  <2> SUFFICES ASSUME WipeInv, RefusedForVerdicts, [PurgeNext]_purgeVars
               PROVE  RefusedForVerdicts'
      OBVIOUS
  <2>0. purge \in [pc : {"off", "gathering", "asked", "deleting", "refused", "done"},
                   at : 1 .. 9, left : SUBSET Kinds]
        BY OrderFacts DEF WipeInv, PurgeTypeOK
  <2>1. CASE purge' = purge /\ late \subseteq late'
        BY <2>1 DEF RefusedForVerdicts
  <2>2. CASE PurgeBegins \/ GatherTable \/ PurgeConfirmed \/ PurgeCommits
    <3>1. purge'.pc # "refused"
          BY <2>0, <2>2 DEF PurgeBegins, GatherTable, PurgeConfirmed, PurgeCommits
    <3> QED BY <3>1 DEF RefusedForVerdicts
  <2>3. CASE PurgeTable
    <3> DEFINE t == DeleteOrder[purge.at]
    <3>1. /\ purge.pc = "deleting" /\ purge.at \in 1 .. 8
          /\ PurgeTypeOK /\ Parents(purge.left) /\ Behind
          BY <2>0, <2>3, OrderFacts DEF PurgeTable, WipeInv
    <3>2. CASE Doomed(t, purge.left) # {} /\ Blockers(t, purge.left) # {}
      <4>1. purge' = [purge EXCEPT !.pc = "refused"] /\ late' = late
            BY <2>3, <3>2 DEF PurgeTable
      <4>2. purge'.left = purge.left /\ purge'.at = purge.at
            BY <2>0, <4>1
      <4>3. \A k \in Blockers(t, purge.left) : k.table = "qc_field_results" \/ k \in late
            BY <3>1, HeldUpByVerdicts
      <4> QED BY <4>1, <4>2, <4>3 DEF RefusedForVerdicts
    <3>3. CASE ~(Doomed(t, purge.left) # {} /\ Blockers(t, purge.left) # {})
      <4>1. PICK rows, n : purge' = [purge EXCEPT !.at = n, !.left = rows]
            BY <2>3, <3>3 DEF PurgeTable
      <4>2. purge'.pc = "deleting"
            BY <2>0, <3>1, <4>1
      <4> QED BY <4>2 DEF RefusedForVerdicts
    <3> QED BY <3>2, <3>3
  <2>4. ASSUME NEW k \in Kinds, RowAdded(k) PROVE RefusedForVerdicts'
    <3>1. CASE purge.pc = "deleting"
      <4>1. purge'.pc = "deleting"
            BY <2>0, <2>4, <3>1 DEF RowAdded
      <4> QED BY <4>1 DEF RefusedForVerdicts
    <3>2. CASE purge.pc # "deleting"
      <4>1. purge' = purge /\ late \subseteq late'
            BY <2>4, <3>2 DEF RowAdded
      <4> QED BY <2>1, <4>1
    <3> QED BY <3>1, <3>2
  <2>5. CASE UNCHANGED purgeVars
        BY <2>1, <2>5 DEF purgeVars
  <2> QED BY <2>2, <2>3, <2>4, <2>5 DEF PurgeNext
<1> QED BY <1>1, <1>2, WipeInvInit, WipeInvNext, PTL DEF PurgeSpec

-----------------------------------------------------------------------------
(* RecordMigration.                                                        *)

\* Where a run stands between two records: what it still has to copy has no
\* copy yet, and each candidate is still to do, failed, or in the target as
\* far as its identity tells.
Covered ==
    \A i \in Candidates :
        i \in migration.todo \cup migration.failed \/ Identity[i] \in AlreadyMigrated

MigrateInv ==
    /\ MigrateTypeOK
    /\ CopiedOnce
    /\ \A i \in migration.todo : \A j \in DOMAIN copies : copies[j] # i
    /\ migration.pc # "copying" => migration.todo = {}
    /\ migration.pc \in {"copying", "ended", "died"} => Covered

\* It holds before the first run.
LEMMA MigrateInvInit == MigrateInit => MigrateInv
<1> SUFFICES ASSUME MigrateInit PROVE MigrateInv
    OBVIOUS
<1>1. copies = <<>> /\ upsets = 0
      BY DEF MigrateInit
<1>2. /\ migration.pc = "off" /\ migration.todo = {} /\ migration.failed = {}
      /\ migration.first \in BOOLEAN /\ migration.expired \in BOOLEAN
      BY DEF MigrateInit, Run
<1>3. MigrateTypeOK
  <2>1. <<>> \in Seq(1 .. Len(Originals)) /\ 0 \in 0 .. MaxUpsets
        BY MigrationAssumption
  <2> QED BY <1>1, <2>1 DEF MigrateInit, Run, MigrateTypeOK
<1>4. DOMAIN copies = {}
      BY <1>1
<1> QED BY <1>2, <1>3, <1>4 DEF MigrateInv, CopiedOnce

\* One record is dealt with: it leaves what is to do, and is copied or counted
\* as failed (the loop's body).
LEMMA OneRecordDone ==
    ASSUME MigrateInv, MigrateTypeOK', NEW i \in migration.todo,
           migration.pc = "copying", migration'.pc = "copying",
           migration'.todo = migration.todo \ {i},
           migration.failed \subseteq migration'.failed,
           \/ copies' = copies /\ i \in migration'.failed
           \/ copies' = Append(copies, i)
    PROVE  MigrateInv'
<1>1. /\ copies \in Seq(1 .. Len(Originals)) /\ i \in 1 .. Len(Originals)
      /\ DOMAIN copies = 1 .. Len(copies) /\ Len(copies) \in Nat
  <2>1. copies \in Seq(1 .. Len(Originals)) /\ i \in 1 .. Len(Originals)
        BY DEF MigrateInv, MigrateTypeOK
  <2> QED BY <2>1, LenProperties
<1>2. CASE copies' = copies /\ i \in migration'.failed
      BY <1>2 DEF MigrateInv, CopiedOnce, Covered, AlreadyMigrated
<1>3. CASE copies' = Append(copies, i)
  <2>1. /\ Len(copies') = Len(copies) + 1
        /\ DOMAIN copies' = 1 .. Len(copies) + 1
        /\ \A j \in DOMAIN copies : copies'[j] = copies[j]
        /\ copies'[Len(copies) + 1] = i
        BY <1>1, <1>3, AppendProperties, LenProperties
  <2>2. \A j \in DOMAIN copies' : j \in DOMAIN copies \/ j = Len(copies) + 1
        BY <1>1, <2>1
  <2>3. CopiedOnce'
        BY <1>1, <2>1, <2>2 DEF MigrateInv, CopiedOnce
  <2>4. \A k \in migration'.todo : \A j \in DOMAIN copies' : copies'[j] # k
        BY <2>1, <2>2 DEF MigrateInv
  <2>5. Covered'
    <3>1. SUFFICES ASSUME NEW k \in Candidates
                   PROVE  k \in migration'.todo \cup migration'.failed
                            \/ Identity[k] \in AlreadyMigrated'
          BY DEF Covered, Candidates
    <3>2. CASE k = i
      <4>1. Len(copies) + 1 \in DOMAIN copies'
            BY <1>1, <2>1
      <4> QED BY <2>1, <3>2, <4>1 DEF AlreadyMigrated
    <3>3. CASE k # i /\ k \in migration.todo \cup migration.failed
          BY <3>3
    <3>4. CASE Identity[k] \in AlreadyMigrated
      <4>1. PICK j \in DOMAIN copies : Identity[k] = Identity[copies[j]]
            BY <3>4 DEF AlreadyMigrated
      <4>2. j \in DOMAIN copies' /\ copies'[j] = copies[j]
            BY <1>1, <2>1
      <4> QED BY <4>1, <4>2 DEF AlreadyMigrated
    <3> QED BY <3>2, <3>3, <3>4 DEF MigrateInv, Covered
  <2> QED BY <2>3, <2>4, <2>5 DEF MigrateInv
<1> QED BY <1>2, <1>3

\* Ids and counters stay in range.
LEMMA MigrateTypeNext == MigrateTypeOK /\ [MigrateNext]_migrateVars => MigrateTypeOK'
<1> SUFFICES ASSUME MigrateTypeOK, [MigrateNext]_migrateVars PROVE MigrateTypeOK'
    OBVIOUS
<1> DEFINE Ids == 1 .. Len(Originals)
           Runs == [pc : {"off", "copying", "killed", "ended", "died"},
                    todo : SUBSET Ids, failed : SUBSET Ids,
                    first : BOOLEAN, expired : BOOLEAN]
<1>0. /\ copies \in Seq(Ids) /\ migration \in Runs
      /\ \A i \in Ids : Append(copies, i) \in Seq(Ids)
      BY AppendProperties DEF MigrateTypeOK
<1>1. CASE BeginMigration
  <2>1. Candidates \subseteq Ids
        BY DEF Candidates
  <2>2. migration' \in Runs
        BY <1>1, <2>1 DEF BeginMigration, Run
  <2> QED BY <1>1, <2>2 DEF BeginMigration, MigrateTypeOK
<1>2. ASSUME NEW i \in Ids,
             SkipFileless(i) \/ CopyRecord(i) \/ CopyFails(i) \/ FailsExpired(i)
      PROVE  MigrateTypeOK'
  <2>1. NextWithFailed(i) \in Runs
        BY <1>0 DEF NextWithFailed
  <2>2. CASE SkipFileless(i) \/ FailsExpired(i)
        BY <2>1, <2>2 DEF SkipFileless, FailsExpired, MigrateTypeOK
  <2>3. CASE CopyRecord(i)
    <3>1. migration' \in Runs
          BY <1>0, <2>3 DEF CopyRecord
    <3> QED BY <1>0, <2>3, <3>1 DEF CopyRecord, MigrateTypeOK
  <2>4. CASE CopyFails(i)
    <3>1. PICK inTarget \in BOOLEAN :
               /\ copies' = copies \/ copies' = Append(copies, i)
               /\ migration' = [NextWithFailed(i) EXCEPT !.first = FALSE,
                                    !.expired = inTarget \/ migration.first]
               /\ upsets' = upsets + 1 /\ upsets < MaxUpsets
          BY <2>4 DEF CopyFails, MayUpset
    <3>2. (inTarget \/ migration.first) \in BOOLEAN
          OBVIOUS
    <3>3. migration' \in Runs
          BY <2>1, <3>1, <3>2
    <3>4. copies' \in Seq(Ids)
          BY <1>0, <3>1
    <3>5. upsets' \in 0 .. MaxUpsets
          BY <3>1, MigrationAssumption DEF MigrateTypeOK
    <3> QED BY <3>3, <3>4, <3>5 DEF MigrateTypeOK
  <2> QED BY <1>2, <2>2, <2>3, <2>4
<1>3. CASE MigrationKilled \/ EndMigration
  <2>1. migration' \in Runs
        BY <1>0, <1>3 DEF MigrationKilled, EndMigration
  <2>2. /\ copies' = copies
        /\ \/ upsets' = upsets
           \/ upsets < MaxUpsets /\ upsets' = upsets + 1
        BY <1>3 DEF MigrationKilled, EndMigration, MayUpset
  <2> QED BY <2>1, <2>2, MigrationAssumption DEF MigrateTypeOK
<1>4. CASE UNCHANGED migrateVars
      BY <1>4 DEF migrateVars, MigrateTypeOK
<1> QED BY <1>1, <1>2, <1>3, <1>4 DEF MigrateNext

\* Every step of a run, of its failures and of the next run keeps it.
LEMMA MigrateInvNext == MigrateInv /\ [MigrateNext]_migrateVars => MigrateInv'
<1> SUFFICES ASSUME MigrateInv, [MigrateNext]_migrateVars PROVE MigrateInv'
    OBVIOUS
<1>0. MigrateTypeOK /\ MigrateTypeOK'
      BY MigrateTypeNext DEF MigrateInv
<1>1. CASE BeginMigration
  <2>1. /\ copies' = copies /\ migration'.pc = "copying"
        /\ migration'.todo = {i \in Candidates : Identity[i] \notin AlreadyMigrated}
        BY <1>1 DEF BeginMigration, Run
  <2>2. AlreadyMigrated' = AlreadyMigrated
        BY <2>1 DEF AlreadyMigrated
  <2>3. \A i \in migration'.todo : \A j \in DOMAIN copies' : copies'[j] # i
        BY <2>1 DEF AlreadyMigrated
  <2>4. Covered'
        BY <2>1, <2>2 DEF Covered, Candidates
  <2> QED BY <1>0, <2>1, <2>3, <2>4 DEF MigrateInv, CopiedOnce
<1>2. ASSUME NEW i \in 1 .. Len(Originals),
             SkipFileless(i) \/ CopyRecord(i) \/ CopyFails(i) \/ FailsExpired(i)
      PROVE  MigrateInv'
  <2>1. migration.pc = "copying" /\ i \in migration.todo
        BY <1>2 DEF SkipFileless, CopyRecord, CopyFails, FailsExpired, Due
  <2>2. /\ migration'.pc = "copying" /\ migration'.todo = migration.todo \ {i}
        /\ migration.failed \subseteq migration'.failed
        /\ \/ copies' = copies /\ i \in migration'.failed
           \/ copies' = Append(copies, i)
    <3>1. CASE SkipFileless(i) \/ FailsExpired(i)
          BY <1>0, <2>1, <3>1 DEF SkipFileless, FailsExpired, NextWithFailed, MigrateTypeOK
    <3>2. CASE CopyRecord(i)
          BY <1>0, <2>1, <3>2 DEF CopyRecord, MigrateTypeOK
    <3>3. CASE CopyFails(i)
          BY <1>0, <2>1, <3>3 DEF CopyFails, NextWithFailed, MigrateTypeOK
    <3> QED BY <1>2, <3>1, <3>2, <3>3
  <2> QED BY <1>0, <2>1, <2>2, OneRecordDone
<1>3. CASE MigrationKilled
      BY <1>0, <1>3 DEF MigrationKilled, MayUpset, MigrateInv, CopiedOnce
<1>4. CASE EndMigration
      BY <1>0, <1>4 DEF EndMigration, MigrateInv, CopiedOnce, Covered, AlreadyMigrated
<1>5. CASE UNCHANGED migrateVars
      BY <1>5 DEF migrateVars, MigrateInv, MigrateTypeOK, CopiedOnce, Covered, AlreadyMigrated
<1> QED BY <1>1, <1>2, <1>3, <1>4, <1>5 DEF MigrateNext

\* No original is ever copied twice, for any number of records, failures and
\* interrupted runs, and also where two originals have one identity
\* (_already_migrated and the commit per record).
THEOREM MigrationCopiesOnce == MigrateSpec => []CopiedOnce
<1>1. MigrateInv => CopiedOnce
      BY DEF MigrateInv
<1> QED BY <1>1, MigrateInvInit, MigrateInvNext, PTL DEF MigrateSpec

\* What RerunPicksUp says of the originals, of their identities.
RerunCoversIdentities ==
    migration.pc \in {"ended", "died"} =>
        \A i \in Candidates \ migration.failed : Identity[i] \in AlreadyMigrated

\* A run that goes through to its end leaves in the target the identity of each
\* candidate that it does not count as failed, whether or not identities are
\* unique.
THEOREM MigrationCoversIdentities == MigrateSpec => []RerunCoversIdentities
<1>1. MigrateInv => RerunCoversIdentities
      BY DEF MigrateInv, Covered, RerunCoversIdentities
<1> QED BY <1>1, MigrateInvInit, MigrateInvNext, PTL DEF MigrateSpec

\* Nothing in the code makes them differ: two files of one name may hang on
\* one source_identifier.
IdentityIsUnique ==
    \A i, j \in 1 .. Len(Originals) : Identity[i] = Identity[j] => i = j

\* Where they are unique, an interrupted run is picked up where it stopped: a
\* later run that goes through to its end has a copy of every candidate that it
\* does not count as failed.
THEOREM MigrationPicksUp ==
    ASSUME IdentityIsUnique
    PROVE  MigrateSpec => []RerunPicksUp
<1>1. MigrateInv => RerunPicksUp
  <2>1. SUFFICES ASSUME MigrateInv, migration.pc \in {"ended", "died"},
                        NEW i \in Candidates \ migration.failed
                 PROVE  \E j \in DOMAIN copies : copies[j] = i
        BY DEF RerunPicksUp
  <2>2. Identity[i] \in AlreadyMigrated
        BY <2>1 DEF MigrateInv, Covered
  <2>3. PICK j \in DOMAIN copies : Identity[i] = Identity[copies[j]]
        BY <2>2 DEF AlreadyMigrated
  <2>4. copies[j] \in 1 .. Len(Originals)
        BY <2>1, <2>3, ElementOfSeq, LenProperties DEF MigrateInv, MigrateTypeOK
  <2>5. i \in 1 .. Len(Originals)
        BY DEF Candidates
  <2> QED BY <2>3, <2>4, <2>5 DEF IdentityIsUnique
<1> QED BY <1>1, MigrateInvInit, MigrateInvNext, PTL DEF MigrateSpec

-----------------------------------------------------------------------------
(* StatusScripts.                                                          *)

\* A record that waits for QA has an open QA task that the failed-status
\* backfill will not close under it.
WaitsWithTask(r) ==
    doc[r].status = "qa_pending" =>
        \E k \in OpenQa(r) : script.name = "fix_failed" => <<r, k>> \notin script.loaded

ScriptsInv ==
    /\ ScriptsTypeOK
    /\ \A item \in script.loaded : item[2] = 0 \/ item[2] \in DOMAIN doc[item[1]].tasks
    /\ \A r \in Docs : WaitsWithTask(r)
    /\ \A r \in Docs : doc[r].status = "qc_pending" => doc_lot = "qc" \/ sampled_late
    /\ script.name = "rollback_lot" => doc_lot \in {"draft", "released"} \/ sampled_late

\* The tasks of a record after one of the writes are tasks, and none is lost.
LEMMA WrittenTasks ==
    ASSUME NEW tasks \in Seq(DocTask)
    PROVE  /\ DOMAIN tasks = 1 .. Len(tasks) /\ Len(tasks) \in Nat
           /\ \A k \in DOMAIN tasks : tasks[k] \in DocTask
           /\ WithOpenClosed(tasks) \in Seq(DocTask)
           /\ DOMAIN WithOpenClosed(tasks) = DOMAIN tasks
           /\ \A k \in DOMAIN tasks : /\ Completed(tasks, k) \in Seq(DocTask)
                                      /\ DOMAIN Completed(tasks, k) = DOMAIN tasks
<1>1. /\ DOMAIN tasks = 1 .. Len(tasks) /\ Len(tasks) \in Nat
      /\ tasks \in [1 .. Len(tasks) -> DocTask]
      BY LenProperties
<1>2. \A k \in DOMAIN tasks : tasks[k] \in DocTask
      BY <1>1
<1>3. WithOpenClosed(tasks) \in [1 .. Len(tasks) -> DocTask]
  <2>1. SUFFICES ASSUME NEW k \in 1 .. Len(tasks)
                 PROVE  IF IsOpen(tasks[k])
                        THEN [tasks[k] EXCEPT !.status = "failed", !.logged = TRUE,
                                              !.passed = FALSE] \in DocTask
                        ELSE tasks[k] \in DocTask
        BY <1>1 DEF WithOpenClosed
  <2> QED BY <1>1, <1>2 DEF DocTask
<1>4. WithOpenClosed(tasks) \in Seq(DocTask) /\ DOMAIN WithOpenClosed(tasks) = DOMAIN tasks
      BY <1>1, <1>3, SeqDef DEF WithOpenClosed
<1>5. ASSUME NEW k \in DOMAIN tasks
      PROVE  Completed(tasks, k) \in Seq(DocTask) /\ DOMAIN Completed(tasks, k) = DOMAIN tasks
  <2>1. (tasks[k].passed \/ IsOpen(tasks[k])) \in BOOLEAN
        OBVIOUS
  <2>2. Completed(tasks, k) \in [1 .. Len(tasks) -> DocTask]
        BY <1>1, <1>2, <2>1 DEF Completed, DocTask
  <2> QED BY <1>1, <2>2, SeqDef
<1> QED BY <1>1, <1>2, <1>4, <1>5

\* What a transaction that writes one record must leave behind: tasks that
\* were there stay, a wait for QA has its task, and nobody starts to wait for
\* customer QC.
WrittenWell(r, d) ==
    /\ d \in DocRow
    /\ DOMAIN doc[r].tasks \subseteq DOMAIN d.tasks
    /\ d.status = "qa_pending" =>
           \E k \in DOMAIN d.tasks :
               /\ d.tasks[k].type = "qa" /\ IsOpen(d.tasks[k])
               /\ script.name = "fix_failed" => <<r, k>> \notin script.loaded
    /\ d.status = "qc_pending" => doc[r].status = "qc_pending"

\* Such a write keeps the invariant, and so does a script that goes on or ends
\* with it.
LEMMA OneRecordWritten ==
    ASSUME ScriptsInv, NEW r \in Docs, NEW d, WrittenWell(r, d),
           doc' = [doc EXCEPT ![r] = d],
           doc_lot' = doc_lot, sampled_late' = sampled_late, started' = started,
           \/ script' = NoScript
           \/ \E gone : script' = [script EXCEPT !.loaded = @ \ gone]
    PROVE  ScriptsInv'
<1>1. /\ doc \in [Docs -> DocRow] /\ doc_lot \in {"none", "draft", "released", "qc", "gone"}
      /\ script \in [name : {"none", "requeue_qa", "train_qc", "fix_failed",
                             "fix_requeued", "rollback_lot"},
                     loaded : SUBSET (Docs \X (0 .. MaxDocTasks))]
      /\ started \in 0 .. MaxScripts /\ sampled_late \in BOOLEAN
      BY DEF ScriptsInv, ScriptsTypeOK
<1>2. /\ doc' \in [Docs -> DocRow] /\ doc'[r] = d
      /\ \A q \in Docs : q # r => doc'[q] = doc[q]
      BY <1>1 DEF WrittenWell
<1>3. /\ script' \in [name : {"none", "requeue_qa", "train_qc", "fix_failed",
                              "fix_requeued", "rollback_lot"},
                      loaded : SUBSET (Docs \X (0 .. MaxDocTasks))]
      /\ script'.loaded \subseteq script.loaded
      /\ script'.name \in {"none", script.name}
  <2>1. CASE script' = NoScript
        BY <2>1 DEF NoScript
  <2>2. CASE \E gone : script' = [script EXCEPT !.loaded = @ \ gone]
        BY <1>1, <2>2
  <2> QED BY <2>1, <2>2
<1>4. ScriptsTypeOK'
      BY <1>1, <1>2, <1>3 DEF ScriptsTypeOK
<1>5. ASSUME NEW item \in script'.loaded
      PROVE  item[2] = 0 \/ item[2] \in DOMAIN doc'[item[1]].tasks
  <2>1. item \in script.loaded /\ item[1] \in Docs
        BY <1>1, <1>3
  <2>2. item[2] = 0 \/ item[2] \in DOMAIN doc[item[1]].tasks
        BY <2>1 DEF ScriptsInv
  <2> QED BY <1>2, <2>1, <2>2 DEF WrittenWell
<1>6. ASSUME NEW q \in Docs PROVE WaitsWithTask(q)'
  <2>1. SUFFICES ASSUME doc'[q].status = "qa_pending"
                 PROVE  \E k \in OpenQa(q)' :
                            script'.name = "fix_failed" => <<q, k>> \notin script'.loaded
        BY DEF WaitsWithTask
  <2>2. CASE q = r
        BY <1>2, <1>3, <2>1, <2>2 DEF WrittenWell, OpenQa
  <2>3. CASE q # r
        BY <1>2, <1>3, <2>1, <2>3 DEF ScriptsInv, WaitsWithTask, OpenQa
  <2> QED BY <2>2, <2>3
<1>7. ASSUME NEW q \in Docs, doc'[q].status = "qc_pending"
      PROVE  doc_lot' = "qc" \/ sampled_late'
      BY <1>2, <1>7 DEF WrittenWell, ScriptsInv
<1>8. script'.name = "rollback_lot" => doc_lot' \in {"draft", "released"} \/ sampled_late'
      BY <1>3 DEF ScriptsInv
<1> QED BY <1>4, <1>5, <1>6, <1>7, <1>8 DEF ScriptsInv

\* A script's step lets go of rows, or ends it.
LEMMA ThroughLoaded ==
    ASSUME NEW items, Through(items)
    PROVE  \/ script' = NoScript
           \/ \E gone : script' = [script EXCEPT !.loaded = @ \ gone]
BY DEF Through

\* requeue_record leaves the record well written.
LEMMA RequeuedWell ==
    ASSUME ScriptsInv, NEW r \in Docs
    PROVE  WrittenWell(r, RequeuedToQa(r)) /\ WrittenWell(r, RequeuedToIndexing(r))
<1> DEFINE tasks == doc[r].tasks
           closed == WithOpenClosed(tasks)
<1>1. tasks \in Seq(DocTask)
      BY DEF ScriptsInv, ScriptsTypeOK, DocRow
<1>2. closed \in Seq(DocTask) /\ DOMAIN closed = DOMAIN tasks
      BY <1>1, WrittenTasks
<1>3. DOMAIN closed = 1 .. Len(closed) /\ Len(closed) \in Nat
      BY <1>2, LenProperties
<1>4. WrittenWell(r, RequeuedToIndexing(r))
      BY <1>2 DEF WrittenWell, RequeuedToIndexing, DocRow, DocStatus
<1>5. NewDocTask("qa") \in DocTask
      BY DEF NewDocTask, DocTask
<1>6. PICK longer : longer = Append(closed, NewDocTask("qa"))
      OBVIOUS
<1>7. /\ longer \in Seq(DocTask) /\ DOMAIN longer = 1 .. Len(closed) + 1
      /\ longer[Len(closed) + 1] = NewDocTask("qa")
      BY <1>2, <1>5, <1>6, AppendProperties, LenProperties
<1>8. <<r, Len(closed) + 1>> \notin script.loaded
  <2>1. Len(closed) + 1 # 0 /\ Len(closed) + 1 \notin DOMAIN tasks
        BY <1>2, <1>3
  <2> QED BY <2>1 DEF ScriptsInv
<1>9. RequeuedToQa(r) = [status |-> "qa_pending", old |-> FALSE, tasks |-> longer]
      BY <1>6 DEF RequeuedToQa
<1>10. NewDocTask("qa").type = "qa" /\ IsOpen(NewDocTask("qa"))
      BY DEF NewDocTask, IsOpen
<1>11. Len(closed) + 1 \in DOMAIN longer /\ DOMAIN tasks \subseteq DOMAIN longer
      BY <1>2, <1>3, <1>7
<1>12. WrittenWell(r, RequeuedToQa(r))
      BY <1>7, <1>8, <1>9, <1>10, <1>11 DEF WrittenWell, DocRow, DocStatus
<1> QED BY <1>4, <1>12

\* A write of status and tasks replaces the record's row by this one.
LEMMA WritesRow ==
    ASSUME ScriptsInv, NEW r \in Docs, NEW status \in DocStatus,
           NEW tasks \in Seq(DocTask), Writes(r, status, tasks)
    PROVE  \E d \in DocRow : /\ d.status = status /\ d.tasks = tasks
                             /\ doc' = [doc EXCEPT ![r] = d]
<1>1. doc \in [Docs -> DocRow]
      BY DEF ScriptsInv, ScriptsTypeOK
<1>2. PICK d : d = [doc[r] EXCEPT !.status = status, !.tasks = tasks]
      OBVIOUS
<1>3. d \in DocRow /\ d.status = status /\ d.tasks = tasks
      BY <1>1, <1>2 DEF DocRow
<1>4. doc' = [doc EXCEPT ![r] = d]
      BY <1>1, <1>2 DEF Writes, DocRow
<1> QED BY <1>3, <1>4

\* The requests on one record.
LEMMA LiveStep ==
    ASSUME ScriptsInv, NEW r \in Docs, NEW k,
           \/ LiveReassign(r, k) \/ LiveStart(r, k) \/ LiveComplete(r, k)
           \/ LiveReject(r, k) \/ LiveToQa(r) \/ LiveRequeue(r)
    PROVE  ScriptsInv'
<1> DEFINE tasks == doc[r].tasks
<1>1. /\ doc \in [Docs -> DocRow] /\ doc[r] \in DocRow /\ tasks \in Seq(DocTask)
      /\ doc[r].status \in DocStatus
      BY DEF ScriptsInv, ScriptsTypeOK, DocRow
<1>2. /\ DOMAIN tasks = 1 .. Len(tasks) /\ Len(tasks) \in Nat
      /\ \A j \in DOMAIN tasks : tasks[j] \in DocTask
      BY <1>1, WrittenTasks
<1>3. /\ doc_lot' = doc_lot /\ sampled_late' = sampled_late /\ started' = started
      /\ script' = script
      BY DEF LiveReassign, LiveStart, LiveComplete, LiveReject, LiveToQa, LiveRequeue,
             OthersStand
<1>4. \E gone : script' = [script EXCEPT !.loaded = @ \ gone]
  <2>1. script = [script EXCEPT !.loaded = @ \ {}]
        BY DEF ScriptsInv, ScriptsTypeOK
  <2> QED BY <1>3, <2>1
<1>5. \A item \in script.loaded : item[2] = 0 \/ item[2] \in DOMAIN doc[item[1]].tasks
      BY DEF ScriptsInv
<1>6. ASSUME NEW status \in DocStatus, NEW ts \in Seq(DocTask), Writes(r, status, ts),
             DOMAIN tasks \subseteq DOMAIN ts, status = "qc_pending" => doc[r].status = status,
             status = "qa_pending" =>
                \E j \in DOMAIN ts :
                   /\ ts[j].type = "qa" /\ IsOpen(ts[j])
                   /\ script.name = "fix_failed" => <<r, j>> \notin script.loaded
      PROVE  ScriptsInv'
  <2>1. PICK d \in DocRow : /\ d.status = status /\ d.tasks = ts
                            /\ doc' = [doc EXCEPT ![r] = d]
        BY <1>6, WritesRow
  <2>2. WrittenWell(r, d)
        BY <1>6, <2>1 DEF WrittenWell
  <2> QED BY <1>3, <1>4, <2>1, <2>2, OneRecordWritten
<1>7. ASSUME doc[r].status = "qa_pending"
      PROVE  \E j \in DOMAIN tasks :
                 /\ tasks[j].type = "qa" /\ IsOpen(tasks[j])
                 /\ script.name = "fix_failed" => <<r, j>> \notin script.loaded
      BY <1>7 DEF ScriptsInv, WaitsWithTask, OpenQa
<1>8. CASE LiveReassign(r, k)
  <2>1. PICK ts : ts = [tasks EXCEPT ![k].status = "pending", ![k].passed = FALSE]
        OBVIOUS
  <2>2. k \in DOMAIN tasks /\ Writes(r, doc[r].status, ts)
        BY <1>8, <2>1 DEF LiveReassign
  <2>3. ts \in [1 .. Len(tasks) -> DocTask]
    <3>1. tasks[k] \in DocTask
          BY <1>2, <2>2
    <3>2. PICK t : t = [tasks[k] EXCEPT !.status = "pending", !.passed = FALSE]
          OBVIOUS
    <3>3. t \in DocTask
          BY <3>1, <3>2 DEF DocTask
    <3>4. ts = [tasks EXCEPT ![k] = t]
          BY <2>1, <3>2
    <3>5. tasks \in [1 .. Len(tasks) -> DocTask]
          BY <1>1, <1>2
    <3> QED BY <3>3, <3>4, <3>5
  <2>4. ts \in Seq(DocTask) /\ DOMAIN ts = DOMAIN tasks
        BY <1>2, <2>3, SeqDef
  <2>5. \A j \in DOMAIN tasks : ts[j].type = tasks[j].type /\ (IsOpen(tasks[j]) => IsOpen(ts[j]))
        BY <1>2, <2>1, <2>2 DEF DocTask, IsOpen
  <2> QED BY <1>1, <1>6, <1>7, <2>2, <2>4, <2>5
<1>9. CASE LiveStart(r, k)
  <2>1. PICK ts : ts = [tasks EXCEPT ![k].status = "in_progress"]
        OBVIOUS
  <2>2. PICK status : /\ status \in {"indexing", doc[r].status}
                      /\ Writes(r, status, ts) /\ k \in DOMAIN tasks
        BY <1>9, <2>1 DEF LiveStart
  <2>3. ts \in [1 .. Len(tasks) -> DocTask]
    <3>1. tasks[k] \in DocTask
          BY <1>2, <2>2
    <3>2. PICK t : t = [tasks[k] EXCEPT !.status = "in_progress"]
          OBVIOUS
    <3>3. t \in DocTask
          BY <3>1, <3>2 DEF DocTask
    <3>4. ts = [tasks EXCEPT ![k] = t]
          BY <2>1, <3>2
    <3>5. tasks \in [1 .. Len(tasks) -> DocTask]
          BY <1>1, <1>2
    <3> QED BY <3>3, <3>4, <3>5
  <2>4. ts \in Seq(DocTask) /\ DOMAIN ts = DOMAIN tasks
        BY <1>2, <2>3, SeqDef
  <2>5. \A j \in DOMAIN tasks : ts[j].type = tasks[j].type /\ (IsOpen(tasks[j]) => IsOpen(ts[j]))
        BY <1>2, <2>1, <2>2 DEF DocTask, IsOpen
  <2>6. status \in DocStatus
        BY <1>1, <2>2 DEF DocStatus
  <2> QED BY <1>6, <1>7, <2>2, <2>4, <2>5, <2>6
<1>10. CASE LiveComplete(r, k)
  <2>1. k \in DOMAIN tasks
        BY <1>10 DEF LiveComplete
  <2>2. PICK status : status \in {"indexed", "qa_passed"} /\ Writes(r, status, Completed(tasks, k))
        BY <1>10 DEF LiveComplete
  <2>3. Completed(tasks, k) \in Seq(DocTask) /\ DOMAIN Completed(tasks, k) = DOMAIN tasks
        BY <1>1, <2>1, WrittenTasks
  <2>4. status \in DocStatus
        BY <2>2 DEF DocStatus
  <2> QED BY <1>6, <2>2, <2>3, <2>4
<1>11. CASE LiveReject(r, k)
  <2>1. PICK ts : ts = [tasks EXCEPT ![k].status = "failed", ![k].logged = TRUE,
                                     ![k].passed = FALSE]
        OBVIOUS
  <2>2. k \in DOMAIN tasks /\ Writes(r, "qa_failed", Append(ts, NewDocTask("indexing")))
        BY <1>11, <2>1 DEF LiveReject
  <2>3. ts \in [1 .. Len(tasks) -> DocTask]
    <3>1. tasks[k] \in DocTask
          BY <1>2, <2>2
    <3>2. PICK t : t = [tasks[k] EXCEPT !.status = "failed", !.logged = TRUE, !.passed = FALSE]
          OBVIOUS
    <3>3. t \in DocTask
          BY <3>1, <3>2 DEF DocTask
    <3>4. ts = [tasks EXCEPT ![k] = t]
          BY <2>1, <3>2
    <3>5. tasks \in [1 .. Len(tasks) -> DocTask]
          BY <1>1, <1>2
    <3> QED BY <3>3, <3>4, <3>5
  <2>4. ts \in Seq(DocTask) /\ Len(ts) = Len(tasks)
        BY <1>2, <2>3, SeqDef, LenProperties
  <2>5. NewDocTask("indexing") \in DocTask
        BY DEF NewDocTask, DocTask
  <2>6. PICK longer : longer = Append(ts, NewDocTask("indexing"))
        OBVIOUS
  <2>7. longer \in Seq(DocTask) /\ DOMAIN longer = 1 .. Len(tasks) + 1
        BY <2>4, <2>5, <2>6, AppendProperties, LenProperties
  <2>8. DOMAIN tasks \subseteq DOMAIN longer /\ "qa_failed" \in DocStatus
        BY <1>2, <2>7 DEF DocStatus
  <2> QED BY <1>6, <2>2, <2>6, <2>7, <2>8
<1>12. CASE LiveToQa(r)
  <2>1. PICK ts : ts = Append(tasks, NewDocTask("qa"))
        OBVIOUS
  <2>2. NewDocTask("qa") \in DocTask
        BY DEF NewDocTask, DocTask
  <2>3. /\ ts \in Seq(DocTask) /\ DOMAIN ts = 1 .. Len(tasks) + 1
        /\ ts[Len(tasks) + 1] = NewDocTask("qa")
        BY <1>1, <2>1, <2>2, AppendProperties, LenProperties
  <2>4. NewDocTask("qa").type = "qa" /\ IsOpen(NewDocTask("qa"))
        BY DEF NewDocTask, IsOpen
  <2>5. <<r, Len(tasks) + 1>> \notin script.loaded
    <3>1. Len(tasks) + 1 # 0 /\ Len(tasks) + 1 \notin DOMAIN tasks
          BY <1>2
    <3> QED BY <1>5, <3>1
  <2>6. Len(tasks) + 1 \in DOMAIN ts /\ DOMAIN tasks \subseteq DOMAIN ts
        BY <1>2, <2>3
  <2>7. Writes(r, "qa_pending", ts)
        BY <1>12, <2>1 DEF LiveToQa
  <2> QED BY <1>6, <2>3, <2>4, <2>5, <2>6, <2>7 DEF DocStatus
<1>13. CASE LiveRequeue(r)
  <2>1. PICK d \in {RequeuedToQa(r), RequeuedToIndexing(r)} : doc' = [doc EXCEPT ![r] = d]
        BY <1>13 DEF LiveRequeue
  <2>2. WrittenWell(r, d)
        BY <2>1, RequeuedWell
  <2> QED BY <1>3, <1>4, <2>1, <2>2, OneRecordWritten
<1> QED BY <1>8, <1>9, <1>10, <1>11, <1>12, <1>13

\* Beginning a script reads rows, and those of the failed-status backfill are
\* completed: no open task is among them.
LEMMA BeginStep ==
    ASSUME ScriptsInv,
           BeginRequeue \/ BeginTraining \/ BeginFailedBackfill \/ BeginRequeueBackfill
             \/ BeginRollback
    PROVE  ScriptsInv'
<1>1. PICK name \in {"requeue_qa", "train_qc", "fix_failed", "fix_requeued", "rollback_lot"},
           loaded \in SUBSET (Docs \X (0 .. MaxDocTasks)) :
         /\ Begins(name, loaded)
         /\ \A item \in loaded : item[2] = 0 \/ item[2] \in DOMAIN doc[item[1]].tasks
         /\ name = "fix_failed" =>
                \A item \in loaded : doc[item[1]].tasks[item[2]].status = "completed"
         /\ name = "rollback_lot" => doc_lot \in {"draft", "released"}
  <2>0. 0 \in 0 .. MaxDocTasks /\ 1 .. MaxDocTasks \subseteq 0 .. MaxDocTasks
        BY ScriptsAssumption
  <2>1. CASE BeginRequeue
        BY <2>0, <2>1 DEF BeginRequeue
  <2>2. CASE BeginTraining
    <3>1. PICK loaded : loaded = {item \in Docs \X (1 .. MaxDocTasks) : AwaitsQa(item[1], item[2])}
          OBVIOUS
    <3>2. loaded \subseteq Docs \X (0 .. MaxDocTasks)
          BY <2>0, <3>1
    <3>3. \A item \in loaded : item[2] \in DOMAIN doc[item[1]].tasks
          BY <3>1 DEF AwaitsQa, OpenQa
    <3> QED BY <2>2, <3>1, <3>2, <3>3 DEF BeginTraining
  <2>3. CASE BeginFailedBackfill
    <3>1. PICK loaded : loaded = {item \in Docs \X (1 .. MaxDocTasks) : IsStale(item[1], item[2])}
          OBVIOUS
    <3>2. loaded \subseteq Docs \X (0 .. MaxDocTasks)
          BY <2>0, <3>1
    <3>3. \A item \in loaded : /\ item[2] \in DOMAIN doc[item[1]].tasks
                               /\ doc[item[1]].tasks[item[2]].status = "completed"
          BY <3>1 DEF IsStale
    <3> QED BY <2>3, <3>1, <3>2, <3>3 DEF BeginFailedBackfill
  <2>4. CASE BeginRequeueBackfill
        BY <2>0, <2>4 DEF BeginRequeueBackfill
  <2>5. CASE BeginRollback
        BY <2>5 DEF BeginRollback
  <2> QED BY <2>1, <2>2, <2>3, <2>4, <2>5
<1>2. /\ doc' = doc /\ doc_lot' = doc_lot /\ sampled_late' = sampled_late
      /\ script' = [name |-> name, loaded |-> loaded]
      /\ started' = started + 1 /\ started < MaxScripts
      BY <1>1 DEF Begins
<1>3. ScriptsTypeOK'
      BY <1>1, <1>2, ScriptsAssumption DEF ScriptsInv, ScriptsTypeOK
<1>4. ASSUME NEW r \in Docs PROVE WaitsWithTask(r)'
  <2>1. SUFFICES ASSUME doc[r].status = "qa_pending"
                 PROVE  \E k \in OpenQa(r) : name = "fix_failed" => <<r, k>> \notin loaded
        BY <1>2 DEF WaitsWithTask, OpenQa
  <2>2. PICK k \in OpenQa(r) : TRUE
        BY <2>1 DEF ScriptsInv, WaitsWithTask
  <2>3. doc[r].tasks[k].status # "completed"
        BY <2>2 DEF OpenQa, IsOpen
  <2>4. name = "fix_failed" => <<r, k>> \notin loaded
        BY <1>1, <2>3
  <2> QED BY <2>2, <2>4
<1> QED BY <1>1, <1>2, <1>3, <1>4 DEF ScriptsInv

\* The lot's own steps.
LEMMA LotStep == ScriptsInv /\ LiveLot => ScriptsInv'
<1> SUFFICES ASSUME ScriptsInv, LiveLot PROVE ScriptsInv'
    OBVIOUS
<1>1. /\ script' = script /\ started' = started
      /\ doc \in [Docs -> DocRow] /\ ScriptsTypeOK
      BY DEF LiveLot, ScriptsInv, ScriptsTypeOK
<1>2. CASE doc_lot = "none" /\ doc_lot' = "draft" /\ doc' = doc /\ sampled_late' = sampled_late
             /\ \A r \in Docs : doc[r].status = "qa_passed"
      BY <1>1, <1>2 DEF ScriptsInv, ScriptsTypeOK, WaitsWithTask, OpenQa
<1>3. CASE doc_lot = "draft" /\ doc_lot' = "released" /\ doc' = doc /\ sampled_late' = sampled_late
      BY <1>1, <1>3 DEF ScriptsInv, ScriptsTypeOK, WaitsWithTask, OpenQa
<1>4. CASE /\ doc_lot = "released" /\ doc_lot' = "qc"
           /\ doc' = [r \in Docs |-> [doc[r] EXCEPT !.status = "qc_pending"]]
           /\ sampled_late' = (sampled_late \/ script.name = "rollback_lot")
  <2>1. \A r \in Docs : /\ doc'[r] \in DocRow /\ doc'[r].status = "qc_pending"
                        /\ doc'[r].tasks = doc[r].tasks
        BY <1>1, <1>4 DEF DocRow, DocStatus
  <2>2. doc' \in [Docs -> DocRow]
        BY <1>4, <2>1
  <2>3. sampled_late' \in BOOLEAN
        BY <1>4
  <2>4. ScriptsTypeOK'
        BY <1>1, <1>4, <2>2, <2>3 DEF ScriptsTypeOK
  <2>5. \A item \in script'.loaded : item[2] = 0 \/ item[2] \in DOMAIN doc'[item[1]].tasks
        BY <1>1, <2>1 DEF ScriptsInv, ScriptsTypeOK
  <2>6. \A r \in Docs : WaitsWithTask(r)'
        BY <2>1 DEF WaitsWithTask
  <2>7. script'.name = "rollback_lot" => sampled_late'
        BY <1>1, <1>4
  <2> QED BY <1>4, <2>4, <2>5, <2>6, <2>7 DEF ScriptsInv
<1>5. ASSUME doc_lot' = doc_lot, sampled_late' = sampled_late,
             NEW r \in Docs, doc' = [doc EXCEPT ![r].status = "qc_passed"]
      PROVE  ScriptsInv'
  <2>1. PICK d : d = [doc[r] EXCEPT !.status = "qc_passed"]
        OBVIOUS
  <2>2. doc' = [doc EXCEPT ![r] = d]
        BY <1>5, <2>1
  <2>3. WrittenWell(r, d)
        BY <1>1, <2>1 DEF WrittenWell, DocRow, DocStatus
  <2>4. script' = [script EXCEPT !.loaded = @ \ {}]
        BY <1>1 DEF ScriptsTypeOK
  <2> QED BY <1>1, <1>5, <2>2, <2>3, <2>4, OneRecordWritten
<1> QED BY <1>2, <1>3, <1>4, <1>5 DEF LiveLot

\* The scripts' own writes.
LEMMA ScriptStep ==
    ASSUME ScriptsInv,
           \/ LoopDies \/ FixFailed \/ FixRequeued \/ RollBackLot
           \/ \E r \in Docs : RequeueOne(r) \/ \E k \in 1 .. MaxDocTasks : TrainOne(r, k)
    PROVE  ScriptsInv'
<1>1. doc \in [Docs -> DocRow] /\ ScriptsTypeOK /\ NoScript.loaded = {} /\ NoScript.name = "none"
      BY DEF ScriptsInv, ScriptsTypeOK, NoScript
<1>2. \A r \in Docs : /\ doc[r] \in DocRow /\ doc[r].tasks \in Seq(DocTask)
                      /\ DOMAIN doc[r].tasks = 1 .. Len(doc[r].tasks)
                      /\ \A k \in DOMAIN doc[r].tasks : doc[r].tasks[k] \in DocTask
  <2>1. \A r \in Docs : doc[r] \in DocRow /\ doc[r].tasks \in Seq(DocTask)
        BY <1>1 DEF DocRow
  <2> QED BY <2>1, WrittenTasks
<1>3. CASE LoopDies
      BY <1>1, <1>3 DEF LoopDies, NoScript, ScriptsInv, ScriptsTypeOK, WaitsWithTask, OpenQa
<1>4. CASE RollBackLot
      BY <1>1, <1>4 DEF RollBackLot, NoScript, ScriptsInv, ScriptsTypeOK, WaitsWithTask, OpenQa
<1>5. CASE FixFailed
  <2>1. /\ script.name = "fix_failed" /\ script' = NoScript /\ started' = started
        /\ doc_lot' = doc_lot /\ sampled_late' = sampled_late
        /\ doc' = [r \in Docs |-> [doc[r] EXCEPT !.tasks = WithLoadedFailed(r)]]
        BY <1>5 DEF FixFailed
  <2>2. ASSUME NEW r \in Docs
        PROVE  /\ WithLoadedFailed(r) \in Seq(DocTask)
               /\ DOMAIN WithLoadedFailed(r) = DOMAIN doc[r].tasks
    <3>1. WithLoadedFailed(r) \in [1 .. Len(doc[r].tasks) -> DocTask]
          BY <1>2 DEF WithLoadedFailed, DocTask
    <3>2. Len(doc[r].tasks) \in Nat
          BY <1>2, LenProperties
    <3> QED BY <1>2, <3>1, <3>2, SeqDef
  <2>3. \A r \in Docs : /\ doc'[r] \in DocRow /\ doc'[r].status = doc[r].status
                        /\ doc'[r].tasks = WithLoadedFailed(r)
        BY <1>2, <2>1, <2>2 DEF DocRow
  <2>4. doc' \in [Docs -> DocRow]
        BY <2>1, <2>3
  <2>5. ScriptsTypeOK'
        BY <1>1, <2>1, <2>4 DEF ScriptsTypeOK, NoScript
  <2>6. ASSUME NEW r \in Docs PROVE WaitsWithTask(r)'
    <3>1. SUFFICES ASSUME doc'[r].status = "qa_pending" PROVE \E k : k \in OpenQa(r)'
          BY <1>1, <2>1 DEF WaitsWithTask
    <3>2. PICK k \in OpenQa(r) : <<r, k>> \notin script.loaded
          BY <2>1, <2>3, <3>1 DEF ScriptsInv, WaitsWithTask
    <3>3. doc'[r].tasks[k] = doc[r].tasks[k] /\ k \in DOMAIN doc'[r].tasks
          BY <2>2, <2>3, <3>2 DEF WithLoadedFailed, OpenQa
    <3>4. k \in OpenQa(r)'
          BY <3>2, <3>3 DEF OpenQa
    <3> QED BY <3>4
  <2> QED BY <1>1, <2>1, <2>3, <2>5, <2>6 DEF ScriptsInv
<1>6. CASE FixRequeued
  <2>1. /\ script' = NoScript /\ started' = started
        /\ doc_lot' = doc_lot /\ sampled_late' = sampled_late
        /\ doc' = [r \in Docs |-> IF <<r, 0>> \in script.loaded
                                  THEN RequeuedToIndexing(r) ELSE doc[r]]
        BY <1>6 DEF FixRequeued
  <2>2. ASSUME NEW r \in Docs
        PROVE  /\ doc'[r] \in DocRow
               /\ doc'[r].status = "pending" \/ doc'[r] = doc[r]
    <3>1. WrittenWell(r, RequeuedToIndexing(r))
          BY RequeuedWell
    <3>2. RequeuedToIndexing(r) \in DocRow /\ RequeuedToIndexing(r).status = "pending"
          BY <3>1 DEF WrittenWell, RequeuedToIndexing
    <3> QED BY <1>2, <2>1, <3>2
  <2>3. doc' \in [Docs -> DocRow]
        BY <2>1, <2>2
  <2>4. ScriptsTypeOK'
        BY <1>1, <2>1, <2>3 DEF ScriptsTypeOK, NoScript
  <2>5. ASSUME NEW r \in Docs PROVE WaitsWithTask(r)'
    <3>1. SUFFICES ASSUME doc'[r].status = "qa_pending" PROVE OpenQa(r)' # {}
          BY <1>1, <2>1 DEF WaitsWithTask
    <3>2. doc'[r] = doc[r]
          BY <2>2, <3>1
    <3> QED BY <3>1, <3>2 DEF ScriptsInv, WaitsWithTask, OpenQa
  <2> QED BY <1>1, <2>1, <2>2, <2>4, <2>5 DEF ScriptsInv
<1>7. ASSUME NEW r \in Docs, RequeueOne(r) PROVE ScriptsInv'
  <2>1. WrittenWell(r, RequeuedToQa(r))
        BY RequeuedWell
  <2>2. /\ doc' = [doc EXCEPT ![r] = RequeuedToQa(r)] /\ Through({<<r, 0>>})
        /\ doc_lot' = doc_lot /\ sampled_late' = sampled_late /\ started' = started
        BY <1>7 DEF RequeueOne
  <2> QED BY <2>1, <2>2, ThroughLoaded, OneRecordWritten
<1>8. ASSUME NEW r \in Docs, NEW k \in 1 .. MaxDocTasks, TrainOne(r, k) PROVE ScriptsInv'
  <2>1. /\ Writes(r, "qa_passed", Completed(doc[r].tasks, k)) /\ Through({<<r, k>>})
        /\ <<r, k>> \in script.loaded
        /\ doc_lot' = doc_lot /\ sampled_late' = sampled_late /\ started' = started
        BY <1>8 DEF TrainOne
  <2>2. k \in DOMAIN doc[r].tasks
    <3>1. \A item \in script.loaded : item[2] = 0 \/ item[2] \in DOMAIN doc[item[1]].tasks
          BY DEF ScriptsInv
    <3> QED BY <2>1, <3>1
  <2>3. /\ Completed(doc[r].tasks, k) \in Seq(DocTask)
        /\ DOMAIN Completed(doc[r].tasks, k) = DOMAIN doc[r].tasks
        BY <1>2, <2>2, WrittenTasks
  <2>4. "qa_passed" \in DocStatus
        BY DEF DocStatus
  <2>5. PICK d \in DocRow : /\ d.status = "qa_passed" /\ d.tasks = Completed(doc[r].tasks, k)
                            /\ doc' = [doc EXCEPT ![r] = d]
        BY <2>1, <2>3, <2>4, WritesRow
  <2>6. WrittenWell(r, d)
        BY <2>3, <2>5 DEF WrittenWell
  <2> QED BY <2>1, <2>5, <2>6, ThroughLoaded, OneRecordWritten
<1> QED BY <1>3, <1>4, <1>5, <1>6, <1>7, <1>8

\* It holds of every mix of old and fresh records.
LEMMA ScriptsInvInit == ScriptsInit => ScriptsInv
<1> SUFFICES ASSUME ScriptsInit PROVE ScriptsInv
    OBVIOUS
<1>1. /\ doc \in [Docs -> {OldRejection, OldRequeue, Fresh}]
      /\ doc_lot = "none" /\ script = NoScript /\ started = 0 /\ sampled_late = FALSE
      BY DEF ScriptsInit
<1>2. /\ NewDocTask("qa") \in DocTask /\ NewDocTask("indexing") \in DocTask
      /\ [NewDocTask("qa") EXCEPT !.status = "completed", !.logged = TRUE] \in DocTask
      BY DEF NewDocTask, DocTask
<1>3. OldRejection \in DocRow /\ OldRequeue \in DocRow /\ Fresh \in DocRow
      BY <1>2 DEF OldRejection, OldRequeue, Fresh, DocRow, DocStatus
<1>4. doc \in [Docs -> DocRow]
      BY <1>1, <1>3
<1>5. ScriptsTypeOK
  <2>1. sampled_late \in BOOLEAN
        BY <1>1, Zenon
  <2>2. script \in [name : {"none", "requeue_qa", "train_qc", "fix_failed",
                           "fix_requeued", "rollback_lot"},
                   loaded : SUBSET (Docs \X (0 .. MaxDocTasks))]
        BY <1>1 DEF NoScript
  <2> QED BY <1>1, <1>4, <2>1, <2>2, ScriptsAssumption DEF ScriptsTypeOK
<1>6. ASSUME NEW r \in Docs PROVE WaitsWithTask(r) /\ doc[r].status # "qc_pending"
  <2>1. CASE doc[r] = Fresh
    <3>1. /\ DOMAIN doc[r].tasks = {1} /\ doc[r].tasks[1] = NewDocTask("qa")
          /\ doc[r].status = "qa_pending"
          BY <2>1 DEF Fresh
    <3>2. 1 \in OpenQa(r)
          BY <3>1 DEF OpenQa, IsOpen, NewDocTask
    <3> QED BY <1>1, <3>1, <3>2 DEF WaitsWithTask, NoScript
  <2>2. CASE doc[r] \in {OldRejection, OldRequeue}
        BY <2>2 DEF OldRejection, OldRequeue, WaitsWithTask
  <2> QED BY <1>1, <2>1, <2>2
<1> QED BY <1>1, <1>5, <1>6 DEF ScriptsInv, NoScript

\* Every step of the requests and of the scripts keeps it.
LEMMA ScriptsInvNext == ScriptsInv /\ [ScriptsNext]_scriptVars => ScriptsInv'
<1> SUFFICES ASSUME ScriptsInv, [ScriptsNext]_scriptVars PROVE ScriptsInv'
    OBVIOUS
<1>1. CASE UNCHANGED scriptVars
      BY <1>1 DEF scriptVars, ScriptsInv, ScriptsTypeOK, WaitsWithTask, OpenQa
<1>2. CASE LiveLot
      BY <1>2, LotStep
<1>3. CASE \/ BeginRequeue \/ BeginTraining \/ BeginFailedBackfill \/ BeginRequeueBackfill
           \/ BeginRollback
      BY <1>3, BeginStep
<1>4. CASE LoopDies \/ FixFailed \/ FixRequeued \/ RollBackLot
      BY <1>4, ScriptStep
<1>5. ASSUME NEW r \in Docs, LiveToQa(r) \/ LiveRequeue(r) PROVE ScriptsInv'
      BY <1>5, LiveStep
<1>6. ASSUME NEW r \in Docs, RequeueOne(r) PROVE ScriptsInv'
      BY <1>6, ScriptStep
<1>7. ASSUME NEW r \in Docs, NEW k \in 1 .. MaxDocTasks,
             LiveReassign(r, k) \/ LiveStart(r, k) \/ LiveComplete(r, k) \/ LiveReject(r, k)
      PROVE  ScriptsInv'
      BY <1>7, LiveStep
<1>8. ASSUME NEW r \in Docs, NEW k \in 1 .. MaxDocTasks, TrainOne(r, k) PROVE ScriptsInv'
      BY <1>8, ScriptStep
<1> QED BY <1>1, <1>2, <1>3, <1>4, <1>5, <1>6, <1>7, <1>8 DEF ScriptsNext

\* No interleaving of the five scripts with live requests leaves a record that
\* waits for QA without an open QA task, or one that waits for customer QC
\* without its lot, unless a sample was drawn while rollback_lot ran.
THEOREM NobodyStranded == ScriptsSpec => []ScriptsStrandNobody
<1>1. ScriptsInv => ScriptsStrandNobody
      BY DEF ScriptsInv, WaitsWithTask, ScriptsStrandNobody
<1> QED BY <1>1, ScriptsInvInit, ScriptsInvNext, PTL DEF ScriptsSpec

=============================================================================
