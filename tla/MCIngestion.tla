----------------------------- MODULE MCIngestion -----------------------------
(***************************************************************************)
(* Ingestion on a small instance: one TIFF, whose uploads, views, backfill *)
(* and wipe meet.  Files only meet at the slots and the token.             *)
(***************************************************************************)
EXTENDS Ingestion

MCFileKind == [f \in {"scan"} |-> "tif"]

=============================================================================
