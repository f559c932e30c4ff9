----------------------------- MODULE MCServices -----------------------------
(***************************************************************************)
(* The two parts that wait for PostgreSQL, S3 and Keycloak and must come   *)
(* to an end whatever these do: ingestion and the workers' start-up.  They *)
(* share no state here; a behaviour moves one of them, chosen at the       *)
(* start, under that part's fairness.                                      *)
(***************************************************************************)
EXTENDS MCIngestion, ClientSync

VARIABLE focus

ServicesInit ==
    /\ focus \in {"ingestion", "startup"}
    /\ IngestInit /\ SyncInit
    /\ focus = "ingestion" => in_sync

ServicesNext ==
    \/ focus = "ingestion" /\ IngestNext /\ UNCHANGED <<focus, syncVars>>
    \/ focus = "startup" /\ SyncNext /\ UNCHANGED <<focus, ingestVars>>

\* The parts' fairness: what stands still is not enabled.
ServicesFairness ==
    /\ \A f \in Files : SF_ingestVars(focus = "ingestion" /\ Uploads(f))
    /\ \A q \in Slots : WF_ingestVars(focus = "ingestion" /\ Serves(q))
    /\ WF_ingestVars(focus = "ingestion" /\ Backfills)
    /\ \A w \in Workers : SF_syncVars(focus = "startup" /\ StartsUp(w))

ServicesSpec ==
    ServicesInit /\ [][ServicesNext]_<<focus, ingestVars, syncVars>> /\ ServicesFairness

\* The parts' type invariants: keys, references, tries and counters stay in
\* range.
ServicesTypeOK == IngestTypeOK /\ SyncTypeOK

\* UploadsEnd of Ingestion, where that part moves (with_retries, main).
UploaderEnds ==
    \A f \in Files :
        focus = "ingestion" /\ upload[f].pc = "queued" ~> upload[f].pc = "done" \/ uploads = MaxKeys

\* WorkersComeUp of ClientSync, where that part moves (sync_de_client, lifespan).
StartupEnds == \A w \in Workers : <>(focus # "startup" \/ wpc[w] = "up")

=============================================================================
