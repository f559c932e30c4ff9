---------------------------- MODULE LotLifecycle ----------------------------
(***************************************************************************)
(* The life of a lot as both portals rely on it: its members are fixed     *)
(* when it is created and its sample when it enters QC; it is decided only *)
(* after it was sampled; one request moves one lot.  A decided lot may be  *)
(* decided again.                                                          *)
(***************************************************************************)
EXTENDS Naturals, Sequences

CONSTANT Records

VARIABLE lot  \* every lot created so far: its phase, members and sample

Init == lot = <<>>

Create ==
    \E chosen \in SUBSET Records :
        lot' = Append(lot, [phase |-> "draft", members |-> chosen, sample |-> {}])

Release(l) ==
    /\ lot[l].phase = "draft"
    /\ lot' = [lot EXCEPT ![l].phase = "released"]

Sample(l) ==
    /\ lot[l].phase = "released"
    /\ \E drawn \in SUBSET lot[l].members :
           lot' = [lot EXCEPT ![l] = [phase   |-> "qc_in_progress",
                                      members |-> lot[l].members,
                                      sample  |-> drawn]]

Decide(l) ==
    /\ lot[l].phase \in {"qc_in_progress", "passed", "failed", "remediation"}
    /\ lot[l].sample # {}
    /\ \E verdict \in {"passed", "failed"} :
           lot' = [lot EXCEPT ![l].phase = verdict]

Remediate(l) ==
    /\ lot[l].phase = "failed"
    /\ lot' = [lot EXCEPT ![l].phase = "remediation"]

Next ==
    Create \/ \E l \in DOMAIN lot : Release(l) \/ Sample(l) \/ Decide(l) \/ Remediate(l)

Spec == Init /\ [][Next]_lot

=============================================================================
