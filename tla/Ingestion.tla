------------------------------ MODULE Ingestion -----------------------------
(***************************************************************************)
(* Scans and how they get into a cabinet.  The bulk uploader               *)
(* (scripts/bulk_upload.py) sends files over several threads and retries;  *)
(* the backend stores each under a fresh key, finds or creates the record  *)
(* and turns a TIFF into a PDF beside it (cabinets.py, cabinet_service).   *)
(* A view converts what still is a TIFF (batches.py), the backfill script  *)
(* does so for all records, and the wipe script deletes records and        *)
(* objects.  Each runs in a session of its own with no row locked.         *)
(***************************************************************************)
EXTENDS Naturals, FiniteSets, Sequences, Functions

CONSTANTS
    Files,        \* the directory's files, named as source_identifier
    FileKind,     \* Files to "pdf", "tif" or "broken": a TIFF Pillow refuses
    Slots,        \* requests the backend serves at a time
    MaxTries,     \* RETRY_MAX_ATTEMPTS
    MaxKeys,      \* bound: uploads ever begun
    MaxImages,    \* bound: record rows when JSON rows are still ingested
    MaxFailures   \* bound: failing calls, timeouts, expired tokens, reruns

ASSUME IngestionAssumption ==
    /\ FileKind \in [Files -> {"pdf", "tif", "broken"}]
    /\ MaxTries \in Nat \ {0}
    /\ MaxKeys \in Nat /\ MaxImages \in Nat /\ MaxFailures \in Nat

VARIABLES
    objects,   \* keys that have an object in the bucket
    images,    \* the records: source identifier and file_reference, the key
               \* of the upload that committed last, and whether it was wiped
    slot,      \* per served request: what it does and how far it is
    uploads,   \* keys made so far, which number them
    upload,    \* per file: where the uploader is with it
    token,     \* the uploader's bearer token
    backfill,  \* the backfill script and the references it selected
    wipe,      \* the wipe script and the scope it gathered
    failures

ingestVars == <<objects, images, slot, uploads, upload, token, backfill, wipe, failures>>

\* record_image_key and derived_pdf_key: the upload's number stands for the
\* random part of the key.
ImageKey(n, f) == [n |-> n, ext |-> IF FileKind[f] = "pdf" THEN "pdf" ELSE "tif"]

Derived(key) == [key EXCEPT !.ext = "pdf"]

NoKey == [n |-> 0, ext |-> "none"]

Free == [op |-> "none", f |-> "none", key |-> NoKey, img |-> 0, pc |-> "free", heard |-> FALSE]

NotSent == [pc |-> "queued", tries |-> 0, result |-> "none"]

Image(f, key) == [f |-> f, ref |-> key, last |-> key.n, wiped |-> FALSE]

\* The backfill is for TIFFs that were uploaded before conversion existed.
OldTiff == [n |-> 0, ext |-> "tif"]

IngestInit ==
    /\ \/ images = <<>> /\ objects = {}
       \/ \E f \in Files : /\ FileKind[f] # "pdf"
                          /\ images = <<Image(f, OldTiff)>>
                          /\ objects = {OldTiff}
    /\ slot = [q \in Slots |-> Free]
    /\ uploads = 0
    /\ upload = [f \in Files |-> NotSent]
    /\ token = "good"
    /\ backfill = [pc |-> "off", todo |-> {}]
    /\ wipe = [pc |-> "off", rows |-> {}, keys |-> {}]
    /\ failures = 0

Live(k) == k \in DOMAIN images /\ ~images[k].wiped

Matching(f) == {k \in DOMAIN images : Live(k) /\ images[k].f = f}

MayFail == failures < MaxFailures

Scripts == <<backfill, wipe>>

\* Slots are alike: a request takes one that is free, no matter which.
Takes(q) == slot[q] = Free /\ q = CHOOSE p \in Slots : slot[p] = Free

-----------------------------------------------------------------------------
(* bulk_upload.py: upload_one under with_retries, AuthSession.request.     *)

Moves(f, from, to) == upload[f].pc = from /\ upload' = [upload EXCEPT ![f].pc = to]

\* A slip: the last error raised past upload_one, which leaves no result.
AfterFailure_Escapes(u) ==
    IF u.tries + 1 < MaxTries
    THEN [u EXCEPT !.pc = "queued", !.tries = @ + 1]
    ELSE [u EXCEPT !.tries = MaxTries]

\* A slip: one attempt more than RETRY_MAX_ATTEMPTS.
AfterFailure_OneMore(u) ==
    IF u.tries + 1 <= MaxTries
    THEN [u EXCEPT !.pc = "queued", !.tries = @ + 1]
    ELSE [pc |-> "done", tries |-> MaxTries, result |-> "failed"]

\* A failed attempt: MaxTries of them make the file's result.
AfterFailure(u) ==
    IF u.tries + 1 < MaxTries
    THEN [u EXCEPT !.pc = "queued", !.tries = @ + 1]
    ELSE [pc |-> "done", tries |-> MaxTries, result |-> "failed"]

\* The request, with the token at hand.
Send(f, q) ==
    /\ uploads < MaxKeys
    /\ Takes(q)
    /\ token = "good"
    /\ \/ Moves(f, "queued", "sent")
       \/ Moves(f, "again", "sent")
    /\ uploads' = uploads + 1
    /\ slot' = [slot EXCEPT ![q] = [op |-> "upload", f |-> f, key |-> ImageKey(uploads + 1, f),
                                    img |-> 0, pc |-> "put", heard |-> TRUE]]
    /\ UNCHANGED <<objects, images, token, Scripts, failures>>

TokenExpires ==
    /\ MayFail
    /\ token' = "expired"
    /\ failures' = failures + 1
    /\ UNCHANGED <<objects, images, slot, uploads, upload, Scripts>>

\* A 401 makes the thread fetch a token and send once more ...
Refresh(f) ==
    /\ token = "expired"
    /\ Moves(f, "queued", "again")
    /\ token' = "good"
    /\ UNCHANGED <<objects, images, slot, uploads, Scripts, failures>>

\* ... a second one is final ...
RefusedAgain(f) ==
    /\ token = "expired" /\ upload[f].pc = "again"
    /\ upload' = [upload EXCEPT ![f].pc = "done", ![f].result = "failed"]
    /\ UNCHANGED <<objects, images, slot, uploads, token, Scripts, failures>>

\* ... and Keycloak's 5xx counts as a failed attempt, its 4xx is final.
RefreshFails(f) ==
    /\ MayFail
    /\ token = "expired" /\ upload[f].pc = "queued"
    /\ failures' = failures + 1
    /\ upload' \in {[upload EXCEPT ![f] = AfterFailure(@)],
                    [upload EXCEPT ![f].pc = "done", ![f].result = "failed"]}
    /\ UNCHANGED <<objects, images, slot, uploads, token, Scripts>>

\* The connection breaks or 30 seconds pass; the backend goes on.
TimesOutUpload(f) ==
    /\ MayFail
    /\ upload[f].pc = "sent"
    /\ upload' = [upload EXCEPT ![f] = AfterFailure(@)]
    /\ slot' = [q \in Slots |-> IF slot[q].f = f THEN [slot[q] EXCEPT !.heard = FALSE] ELSE slot[q]]
    /\ failures' = failures + 1
    /\ UNCHANGED <<objects, images, uploads, token, Scripts>>

\* The whole script once more over the same directory, or over one whose
\* first run was interrupted.
RerunUploader ==
    /\ MayFail
    /\ \E f \in Files : upload[f].pc # "queued"
    /\ upload' = [f \in Files |-> NotSent]
    /\ slot' = [q \in Slots |-> [slot[q] EXCEPT !.heard = FALSE]]
    /\ token' = "good"
    /\ failures' = failures + 1
    /\ UNCHANGED <<objects, images, uploads, Scripts>>

-----------------------------------------------------------------------------
(* POST /cabinets/{id}/upload and GET /records/{id}/image.                 *)

\* The answer reaches whoever still waits for it.
Answers(q, ok) ==
    /\ slot' = [slot EXCEPT ![q] = Free]
    /\ upload' = IF ~slot[q].heard THEN upload
                 ELSE [upload EXCEPT ![slot[q].f] =
                           IF ok THEN [@ EXCEPT !.pc = "done", !.result = "success"]
                           ELSE AfterFailure(@)]

\* An exception: 500, nothing committed, what was put in the bucket stays.
RaisesIn(q) ==
    /\ MayFail
    /\ slot[q].pc # "free"
    /\ Answers(q, FALSE)
    /\ failures' = failures + 1
    /\ UNCHANGED <<objects, images, uploads, token, Scripts>>

\* scalar_one_or_none on two rows of one source_identifier.
RaisesOnTwo(q) == Answers(q, FALSE)

Converted(key, f) == IF key.ext = "tif" /\ FileKind[f] = "tif" THEN Derived(key) ELSE key

\* A slip: the success answered before the commit.
PutFindConvert_AnswersEarly(q) ==
    LET s == slot[q]
    IN  /\ s.pc = "put"
        /\ objects' = objects \cup {s.key, Converted(s.key, s.f)}
        /\ slot' = [slot EXCEPT ![q].pc = "commit", ![q].key = Converted(s.key, s.f),
                                ![q].heard = FALSE]
        /\ upload' = IF ~s.heard THEN upload
                     ELSE [upload EXCEPT ![s.f].pc = "done", ![s.f].result = "success"]
        /\ UNCHANGED <<images, uploads, token, Scripts, failures>>

\* upload_image puts the file; ingest_image_create_or_link looks for the
\* record with its stem and else makes one, flushed and seen by nobody yet;
\* _convert_tiff_if_needed puts the PDF of a TIFF and repoints the record,
\* or fails and leaves it.
PutFindConvert(q) ==
    LET s     == slot[q]
        found == Matching(s.f)
    IN  /\ s.pc = "put"
        /\ IF Cardinality(found) > 1
           THEN RaisesOnTwo(q) /\ objects' = objects \cup {s.key} /\ UNCHANGED failures
           ELSE \E key \in {s.key, Converted(s.key, s.f)} :
                    /\ key # Converted(s.key, s.f) => MayFail
                    /\ failures' = IF key = Converted(s.key, s.f) THEN failures ELSE failures + 1
                    /\ objects' = objects \cup {s.key, key}
                    /\ slot' = [slot EXCEPT ![q].pc = "commit", ![q].key = key,
                                            ![q].img = IF found = {} THEN 0
                                                       ELSE CHOOSE k \in found : TRUE]
                    /\ UNCHANGED upload
        /\ UNCHANGED <<images, uploads, token, Scripts>>

\* The commit; an UPDATE of a row that is gone raises.
CommitUpload(q) ==
    LET s == slot[q]
    IN  /\ s.op = "upload" /\ s.pc = "commit"
        /\ IF s.img = 0
           THEN /\ images' = Append(images, Image(s.f, s.key))
                /\ Answers(q, TRUE)
           ELSE /\ images' = IF Live(s.img)
                             THEN [images EXCEPT ![s.img].ref = s.key, ![s.img].last = s.key.n]
                             ELSE images
                /\ Answers(q, Live(s.img))
        /\ UNCHANGED <<objects, uploads, token, Scripts, failures>>

\* ingest_json_records: a row per item, no look for one that is there.
IngestJson(f) ==
    /\ MayFail
    /\ Len(images) < MaxImages
    /\ images' = Append(images, Image(f, NoKey))
    /\ failures' = failures + 1
    /\ UNCHANGED <<objects, slot, uploads, upload, token, Scripts>>

\* get_record_image on a record that still points at a TIFF: it is read,
\* converted and put beside it.
BeginView(q, k) ==
    LET key == images[k].ref
    IN  /\ Takes(q) /\ \A p \in Slots : slot[p].op # "view"
        /\ Live(k) /\ Converted(key, images[k].f) # key
        /\ objects' = objects \cup {Derived(key)}
        /\ slot' = [slot EXCEPT ![q] = [op |-> "view", f |-> images[k].f, key |-> Derived(key),
                                        img |-> k, pc |-> "commit", heard |-> FALSE]]
        /\ UNCHANGED <<images, uploads, upload, token, Scripts, failures>>

Repointed(k, key) == IF Live(k) THEN [images EXCEPT ![k].ref = key] ELSE images

CommitView(q) ==
    /\ slot[q].op = "view" /\ slot[q].pc = "commit"
    /\ images' = Repointed(slot[q].img, slot[q].key)
    /\ Answers(q, TRUE)
    /\ UNCHANGED <<objects, uploads, token, Scripts, failures>>

-----------------------------------------------------------------------------
(* scripts/backfill_tiff_to_pdf.py, one session and one batch of records   *)
(* at a time: what a record pointed at when it was selected is what the    *)
(* script converts.                                                        *)

StillTiff == {k \in DOMAIN images : Live(k) /\ images[k].ref.ext = "tif"}

StartBackfill ==
    /\ backfill.pc = "off"
    /\ backfill' = [backfill EXCEPT !.pc = "batch"]
    /\ UNCHANGED <<objects, images, slot, uploads, upload, token, wipe, failures>>

\* The LIMIT of BATCH_SIZE is above what the model holds.
BackfillSelect ==
    /\ backfill.pc = "batch" /\ backfill.todo = {}
    /\ backfill' = [pc   |-> IF StillTiff = {} THEN "done" ELSE "batch",
                    todo |-> {<<k, images[k].ref>> : k \in StillTiff}]
    /\ UNCHANGED <<objects, images, slot, uploads, upload, token, wipe, failures>>

\* A slip: no commit per record, and the session rolled back at the end.
BackfillConvert_NoCommit(k, key) ==
    /\ <<k, key>> \in backfill.todo
    /\ objects' = objects \cup {Derived(key)}
    /\ backfill' = [backfill EXCEPT !.todo = @ \ {<<k, key>>}]
    /\ UNCHANGED <<images, slot, uploads, upload, token, wipe, failures>>

\* Convert, put and commit.  An UPDATE of a row that is gone raises outside
\* the script's try and ends it.
BackfillConvert(k, key) ==
    /\ <<k, key>> \in backfill.todo
    /\ FileKind[images[k].f] = "tif" /\ key \in objects
    /\ objects' = objects \cup {Derived(key)}
    /\ images' = Repointed(k, Derived(key))
    /\ backfill' = IF Live(k) THEN [backfill EXCEPT !.todo = @ \ {<<k, key>>}]
                   ELSE [pc |-> "died", todo |-> {}]
    /\ UNCHANGED <<slot, uploads, upload, token, wipe, failures>>

\* A failure is logged and the record left for the next select; so is one
\* whose object is gone or is no TIFF that Pillow reads.
BackfillPassesOver(k, key) ==
    /\ <<k, key>> \in backfill.todo
    /\ \/ /\ FileKind[images[k].f] = "broken" \/ key \notin objects
          /\ UNCHANGED failures
       \/ MayFail /\ failures' = failures + 1
    /\ backfill' = [backfill EXCEPT !.todo = @ \ {<<k, key>>}]
    /\ UNCHANGED <<objects, images, slot, uploads, upload, token, wipe>>

-----------------------------------------------------------------------------
(* scripts/wipe_project_data.py on the cabinet's project.                  *)

WipeKeys(k) ==
    LET key == images[k].ref
    IN  IF key = NoKey THEN {} ELSE {key, [key EXCEPT !.ext = "tif"]}

\* _gather_scope, before the operator confirms.
WipeScope ==
    LET rows == {k \in DOMAIN images : Live(k)}
    IN  /\ wipe.pc = "off"
        /\ wipe' = [pc |-> "scoped", rows |-> rows, keys |-> UNION {WipeKeys(k) : k \in rows}]
        /\ UNCHANGED <<objects, images, slot, uploads, upload, token, backfill, failures>>

\* The operator refuses, or _delete_db_rows raises (see ProjectWipe).
WipeGivenUp ==
    /\ wipe.pc = "scoped"
    /\ wipe' = [pc |-> "done", rows |-> {}, keys |-> {}]
    /\ UNCHANGED <<objects, images, slot, uploads, upload, token, backfill, failures>>

\* _delete_db_rows and the commit.
WipeRows ==
    /\ wipe.pc = "scoped"
    /\ wipe' = [wipe EXCEPT !.pc = "deleted"]
    /\ images' = [k \in DOMAIN images |->
                      IF k \in wipe.rows THEN [images[k] EXCEPT !.wiped = TRUE] ELSE images[k]]
    /\ UNCHANGED <<objects, slot, uploads, upload, token, backfill, failures>>

\* A slip: objects first.
WipeObjects_First(kept) ==
    /\ wipe.pc = "scoped"
    /\ objects' = objects \ (wipe.keys \ kept)
    /\ failures' = IF kept = {} THEN failures ELSE failures + 1
    /\ wipe' = [wipe EXCEPT !.keys = {}]
    /\ UNCHANGED <<images, slot, uploads, upload, token, backfill>>

\* _delete_s3_objects: what fails is kept for the report.
WipeObjects(kept) ==
    /\ wipe.pc = "deleted"
    /\ kept # {} => MayFail
    /\ objects' = objects \ (wipe.keys \ kept)
    /\ failures' = IF kept = {} THEN failures ELSE failures + 1
    /\ wipe' = [pc |-> "done", rows |-> {}, keys |-> {}]
    /\ UNCHANGED <<images, slot, uploads, upload, token, backfill>>

-----------------------------------------------------------------------------
\* What the uploader's thread does about a file without anything failing.
Uploads(f) ==
    \/ \E q \in Slots : Send(f, q)
    \/ Refresh(f)
    \/ RefusedAgain(f)

\* What the backend does next about a request.
Serves(q) ==
    \/ PutFindConvert(q)
    \/ CommitUpload(q)
    \/ CommitView(q)

Backfills ==
    \/ BackfillSelect
    \/ \E item \in backfill.todo :
           \/ BackfillConvert(item[1], item[2])
           \/ BackfillPassesOver(item[1], item[2])

IngestNext ==
    \/ TokenExpires
    \/ RerunUploader
    \/ \E f \in Files : \/ Uploads(f)
                        \/ RefreshFails(f)
                        \/ TimesOutUpload(f)
                        \/ IngestJson(f)
    \/ \E q \in Slots : \/ Serves(q)
                        \/ RaisesIn(q)
                        \/ \E k \in DOMAIN images : BeginView(q, k)
    \/ StartBackfill
    \/ Backfills
    \/ WipeScope
    \/ WipeGivenUp
    \/ WipeRows
    \/ \E kept \in SUBSET wipe.keys : WipeObjects(kept)

\* Threads and the script run, and the backend serves what it has begun; a
\* free slot comes to each thread, as the server accepts in turn.
IngestFairness ==
    /\ \A f \in Files : SF_ingestVars(Uploads(f))
    /\ \A q \in Slots : WF_ingestVars(Serves(q))
    /\ WF_ingestVars(Backfills)

IngestSpec == IngestInit /\ [][IngestNext]_ingestVars /\ IngestFairness

-----------------------------------------------------------------------------
Key == [n : 0 .. MaxKeys, ext : {"tif", "pdf", "none"}]

IngestTypeOK ==
    /\ objects \subseteq Key
    /\ images \in Seq([f : Files, ref : Key, last : 0 .. MaxKeys, wiped : BOOLEAN])
    /\ Len(images) <= MaxImages + MaxKeys + 1
    /\ slot \in [Slots -> [op : {"none", "upload", "view"}, f : Files \cup {"none"}, key : Key,
                           img : Nat, pc : {"free", "put", "commit"}, heard : BOOLEAN]]
    /\ uploads \in 0 .. MaxKeys
    /\ upload \in [Files -> [pc : {"queued", "again", "sent", "done"}, tries : 0 .. MaxTries,
                             result : {"none", "success", "failed"}]]
    /\ \A f \in Files : upload[f].pc # "done" => upload[f].tries < MaxTries
    /\ token \in {"good", "expired"}
    /\ backfill \in [pc : {"off", "batch", "done", "died"}, todo : SUBSET ((DOMAIN images) \X Key)]
    /\ wipe \in [pc : {"off", "scoped", "deleted", "done"}, rows : SUBSET (DOMAIN images),
                 keys : SUBSET Key]
    /\ failures \in 0 .. MaxFailures

\* A record never points at an object that is not in the bucket, whatever
\* fails half way, converts it meanwhile or wipes the project under it: an
\* object is put before the commit that names it and deleted after the one
\* that drops its record, and no two uploads share a key (upload_image,
\* _delete_s3_objects).
ReferencedObjectsExist ==
    \A k \in DOMAIN images :
        Live(k) /\ images[k].ref # NoKey => images[k].ref \in objects

\* What the uploader reports as a success is in the cabinet with an image,
\* until someone wipes it: the answer follows the commit (upload_one).
SuccessIsStored ==
    \A f \in Files :
        upload[f].result = "success" =>
            \E k \in DOMAIN images : images[k].f = f /\ images[k].ref # NoKey

\* Every file of a run comes to a result, with any number of threads, an
\* expired token, failing requests and lost answers (with_retries, main).
UploadsEnd ==
    \A f \in Files : upload[f].pc = "queued" ~> (upload[f].pc = "done" \/ uploads = MaxKeys)

\* The backfill script comes to its end as long as Pillow reads every TIFF
\* (the loop of main).
BackfillEnds ==
    backfill.pc = "batch" ~> backfill.pc \in {"done", "died"}

\* What the backfill's docstring says of running beside live traffic: where
\* it repoints a record, it is to the PDF of the file uploaded last.
BackfillIsSafe ==
    [][backfill'.todo # backfill.todo =>
           \A k \in DOMAIN images :
               images'[k].ref = images[k].ref \/ images'[k].ref.n = images[k].last]_ingestVars

=============================================================================
