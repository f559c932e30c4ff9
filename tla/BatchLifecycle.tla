--------------------------- MODULE BatchLifecycle ---------------------------
(***************************************************************************)
(* The life of a batch as other parts of the system may rely on it: it is  *)
(* opened for indexing or directly for QA, moves on to QA once, and closes *)
(* for good; one request moves one batch.                                  *)
(***************************************************************************)
EXTENDS Naturals, Sequences

VARIABLE phase  \* the phase of every batch opened so far, by batch id

Init == phase = <<>>

Open == \E s \in {"indexing", "qa_review"} : phase' = Append(phase, s)

Advance(b) ==
    /\ phase[b] = "indexing"
    /\ phase' = [phase EXCEPT ![b] = "qa_review"]

Close(b) ==
    /\ phase[b] \in {"indexing", "qa_review"}
    /\ phase' = [phase EXCEPT ![b] = "complete"]

Next == Open \/ \E b \in DOMAIN phase : Advance(b) \/ Close(b)

Spec == Init /\ [][Next]_phase

=============================================================================
