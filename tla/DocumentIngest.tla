--------------------------- MODULE DocumentIngest ---------------------------
(***************************************************************************)
(* One document from upload to deletion: its row and pages in Postgres, its   *)
(* file and page images in R2, the chunks of its pages in Qdrant, and its job *)
(* in the BullMQ queue document-ingest.  No transaction spans the stores.     *)
(* Every delivery of the job starts over: it replaces the pages under new ids *)
(* and then the chunks.  The user may delete the document at any moment.      *)
(* What OCR finds is left out: a delivery that writes pages writes them all.  *)
(***************************************************************************)
EXTENDS Naturals

\* The queue's attempts; a stalled job is delivered once more.
MaxIngests == 3
Generation == 1..MaxIngests + 1

VARIABLES
    document,   \* the row: status, kind, r2Key, which delivery's pages, image listed
    docFile,    \* the uploaded file is in R2
    docImage,   \* the image of its page is in R2
    docChunks,  \* the chunks in Qdrant, by the pages they were made from
    uploadPc,   \* persistAndQueueDocument
    ingest,     \* the job: where it is, deliveries that threw, stalled, what it knows
    deletePc,   \* deleteUserDocument
    deleteKeys  \* the R2 keys it read before it deleted the row

documentVars ==
    <<document, docFile, docImage, docChunks, uploadPc, ingest, deletePc, deleteKeys>>

InIngest == {"begin", "fetch", "images", "pages", "purge", "embed", "upsert", "ready", "return"}

DocumentTypeOK ==
    /\ document \in [status : {"none", "uploading", "queued", "ocr_processing",
                               "embedding_processing", "ready", "failed", "deleted"},
                     kind : {"paged", "tabular"}, r2Key : BOOLEAN,
                     pages : {0} \cup Generation, listed : BOOLEAN]
    /\ docFile \in BOOLEAN /\ docImage \in BOOLEAN
    /\ docChunks \subseteq Generation
    /\ uploadPc \in {"create", "put", "queued", "add", "accepted", "broken"}
    /\ ingest \in [pc : {"none", "waiting", "catch", "gone", "spent"} \cup InIngest,
                   thrown : 0..MaxIngests, stalled : BOOLEAN,
                   wrote : {0} \cup Generation, shown : BOOLEAN, seen : {0} \cup Generation]
    /\ deletePc \in {"idle", "row", "file", "images", "chunks", "done"}
    /\ deleteKeys \in [file : BOOLEAN, image : BOOLEAN]

DocumentInit ==
    /\ document \in [status : {"none"}, kind : {"paged", "tabular"}, r2Key : {FALSE},
                     pages : {0}, listed : {FALSE}]
    /\ docFile = FALSE /\ docImage = FALSE
    /\ docChunks = {}
    /\ uploadPc = "create"
    /\ ingest = [pc |-> "none", thrown |-> 0, stalled |-> FALSE, wrote |-> 0,
                 shown |-> FALSE, seen |-> 0]
    /\ deletePc = "idle"
    /\ deleteKeys = [file |-> FALSE, image |-> FALSE]

RowExists == document.status \notin {"none", "deleted"}

-----------------------------------------------------------------------------
(* persistAndQueueDocument: nothing undoes a step when a later one fails.   *)

CreateDocument ==
    /\ uploadPc = "create"
    /\ document' = [document EXCEPT !.status = "uploading"]
    /\ uploadPc' = "put"
    /\ UNCHANGED <<docFile, docImage, docChunks, ingest, deletePc, deleteKeys>>

PutFile ==
    /\ uploadPc = "put"
    /\ docFile' = TRUE
    /\ uploadPc' = "queued"
    /\ UNCHANGED <<document, docImage, docChunks, ingest, deletePc, deleteKeys>>

MarkQueued ==
    /\ uploadPc = "queued"
    /\ RowExists
    /\ document' = [document EXCEPT !.status = "queued", !.r2Key = TRUE]
    /\ uploadPc' = "add"
    /\ UNCHANGED <<docFile, docImage, docChunks, ingest, deletePc, deleteKeys>>

AddIngestJob ==
    /\ uploadPc = "add"
    /\ ingest' = [ingest EXCEPT !.pc = "waiting"]
    /\ uploadPc' = "accepted"
    /\ UNCHANGED <<document, docFile, docImage, docChunks, deletePc, deleteKeys>>

\* A call of the upload fails, the row it updates is gone, or the API dies.
UploadBreaks ==
    /\ uploadPc \in {"put", "queued", "add"}
    /\ uploadPc' = "broken"
    /\ UNCHANGED <<document, docFile, docImage, docChunks, ingest, deletePc, deleteKeys>>

-----------------------------------------------------------------------------
(* processDocumentIngest and processTabularIngest.                         *)

IngestAt(from, to) ==
    /\ ingest.pc = from
    /\ ingest' = [ingest EXCEPT !.pc = to]

Deliver ==
    /\ IngestAt("waiting", "begin")
    /\ UNCHANGED <<document, docFile, docImage, docChunks, uploadPc, deletePc, deleteKeys>>

BeginIngest ==
    /\ IngestAt("begin", "fetch")
    /\ RowExists
    /\ document' = [document EXCEPT !.status = "ocr_processing"]
    /\ UNCHANGED <<docFile, docImage, docChunks, uploadPc, deletePc, deleteKeys>>

\* Tables are read by their MIME type and have no images.
FetchFile ==
    /\ IngestAt("fetch", IF document.kind = "tabular" THEN "pages" ELSE "images")
    /\ docFile
    /\ UNCHANGED <<document, docFile, docImage, docChunks, uploadPc, deletePc, deleteKeys>>

\* An image that cannot be stored is left out of its page.
StoreImages ==
    /\ ingest.pc = "images"
    /\ \/ docImage' = TRUE /\ ingest' = [ingest EXCEPT !.pc = "pages", !.shown = TRUE]
       \/ UNCHANGED docImage /\ ingest' = [ingest EXCEPT !.pc = "pages", !.shown = FALSE]
    /\ UNCHANGED <<document, docFile, docChunks, uploadPc, deletePc, deleteKeys>>

\* Pages get new ids; the chunks of a table are named by the document instead.
NextPages == IF document.kind = "tabular" THEN 1 ELSE ingest.wrote + 1

ReplacePages ==
    /\ ingest.pc = "pages"
    /\ RowExists
    /\ document' = [document EXCEPT !.pages = NextPages, !.listed = ingest.shown,
                                    !.status = "embedding_processing"]
    /\ ingest' = [ingest EXCEPT !.pc = "purge", !.wrote = NextPages]
    /\ UNCHANGED <<docFile, docImage, docChunks, uploadPc, deletePc, deleteKeys>>

\* Mutant of PurgeChunks: the chunks of earlier deliveries stay.
PurgeNothing ==
    /\ IngestAt("purge", "embed")
    /\ UNCHANGED <<document, docFile, docImage, docChunks, uploadPc, deletePc, deleteKeys>>

PurgeChunks ==
    /\ IngestAt("purge", "embed")
    /\ docChunks' = {}
    /\ UNCHANGED <<document, docFile, docImage, uploadPc, deletePc, deleteKeys>>

\* The pages are read back; a table's text is still at hand.
Embed ==
    /\ ingest.pc = "embed"
    /\ ingest' = [ingest EXCEPT !.pc = "upsert",
                                !.seen = IF document.kind = "tabular" THEN 1 ELSE document.pages]
    /\ UNCHANGED <<document, docFile, docImage, docChunks, uploadPc, deletePc, deleteKeys>>

UpsertChunks ==
    /\ IngestAt("upsert", "ready")
    /\ docChunks' = docChunks \cup ({ingest.seen} \ {0})
    /\ UNCHANGED <<document, docFile, docImage, uploadPc, deletePc, deleteKeys>>

MarkReady ==
    /\ IngestAt("ready", "return")
    /\ RowExists
    /\ document' = [document EXCEPT !.status = "ready"]
    /\ UNCHANGED <<docFile, docImage, docChunks, uploadPc, deletePc, deleteKeys>>

IngestReturns ==
    /\ IngestAt("return", "gone")
    /\ UNCHANGED <<document, docFile, docImage, docChunks, uploadPc, deletePc, deleteKeys>>

\* A call throws, before or after it took effect, or the row is gone.
IngestThrows ==
    /\ ingest.pc \in InIngest
    /\ ingest' = [ingest EXCEPT !.pc = "catch"]
    /\ UNCHANGED <<document, docFile, docImage, docChunks, uploadPc, deletePc, deleteKeys>>

\* The row is marked failed, if that update does not throw too.
CatchIngest ==
    /\ ingest.pc = "catch"
    /\ \/ RowExists /\ document' = [document EXCEPT !.status = "failed"]
       \/ UNCHANGED document
    /\ ingest' = [ingest EXCEPT !.thrown = @ + 1,
                                !.pc = IF ingest.thrown + 1 < MaxIngests THEN "waiting" ELSE "spent"]
    /\ UNCHANGED <<docFile, docImage, docChunks, uploadPc, deletePc, deleteKeys>>

\* The worker dies: the stalled job is delivered again, once.
IngestDies ==
    /\ ingest.pc \in InIngest \cup {"catch"}
    /\ ingest' = [ingest EXCEPT !.stalled = TRUE,
                                !.pc = IF ingest.stalled THEN "spent" ELSE "waiting"]
    /\ UNCHANGED <<document, docFile, docImage, docChunks, uploadPc, deletePc, deleteKeys>>

-----------------------------------------------------------------------------
(* deleteUserDocument: the row first, the other stores as well as it goes.  *)

ReadKeys ==
    /\ deletePc = "idle"
    /\ RowExists
    /\ deletePc' = "row"
    /\ deleteKeys' = [file |-> document.r2Key, image |-> document.listed]
    /\ UNCHANGED <<document, docFile, docImage, docChunks, uploadPc, ingest>>

\* Its pages go with it.
DeleteRow ==
    /\ deletePc = "row"
    /\ document' = [document EXCEPT !.status = "deleted", !.pages = 0, !.listed = FALSE]
    /\ deletePc' = "file"
    /\ UNCHANGED <<docFile, docImage, docChunks, uploadPc, ingest, deleteKeys>>

DeleteFile ==
    /\ deletePc = "file"
    /\ docFile' \in {docFile, docFile /\ ~deleteKeys.file}
    /\ deletePc' = "images"
    /\ UNCHANGED <<document, docImage, docChunks, uploadPc, ingest, deleteKeys>>

DeleteImages ==
    /\ deletePc = "images"
    /\ docImage' \in {docImage, docImage /\ ~deleteKeys.image}
    /\ deletePc' = "chunks"
    /\ UNCHANGED <<document, docFile, docChunks, uploadPc, ingest, deleteKeys>>

DeleteChunks ==
    /\ deletePc = "chunks"
    /\ docChunks' \in {docChunks, {}}
    /\ deletePc' = "done"
    /\ UNCHANGED <<document, docFile, docImage, uploadPc, ingest, deleteKeys>>

DocumentNext ==
    \/ CreateDocument \/ PutFile \/ MarkQueued \/ AddIngestJob \/ UploadBreaks
    \/ Deliver \/ BeginIngest \/ FetchFile \/ StoreImages \/ ReplacePages \/ PurgeChunks
    \/ Embed \/ UpsertChunks \/ MarkReady \/ IngestReturns
    \/ IngestThrows \/ CatchIngest \/ IngestDies
    \/ ReadKeys \/ DeleteRow \/ DeleteFile \/ DeleteImages \/ DeleteChunks

DocumentSpec == DocumentInit /\ [][DocumentNext]_documentVars

-----------------------------------------------------------------------------
(* Properties.                                                             *)

\* A document that chats may use has its file, its pages, the chunks of those
\* pages and no others, and every image its pages list, whatever deliveries of
\* its job failed, died or were repeated before.
ReadyIsComplete ==
    document.status = "ready" =>
        /\ docFile
        /\ document.pages # 0
        /\ docChunks = {document.pages}
        /\ document.listed => docImage
=============================================================================
