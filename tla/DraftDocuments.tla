----------------------------- MODULE DraftDocuments -----------------------------
(***************************************************************************)
(* The documents of one anonymous draft, from upload to deletion: the      *)
(* owner's handlers, the isolated readers that review a document under a   *)
(* lease, and the cleaners that delete the bytes of an unpaid draft.       *)
(*                                                                         *)
(* All documents are of one kind, so an upload supersedes the current one. *)
(* The retention periods end with the draft's own, cleanup is enabled, and *)
(* a claim takes every row it may.                                         *)
(***************************************************************************)
EXTENDS Naturals

CONSTANTS
  Document,   \* ids of uploads
  Reader,     \* calls of processPendingDocumentExtractions, which may overlap
  Cleaner,    \* calls of processUnpaidSourceRetention
  MaxRetries, \* bound on the owner's retries
  Nothing

ASSUME DraftDocumentsAssumption ==
  /\ Nothing \notin Document \cup Reader \cup Cleaner
  /\ MaxRetries \in Nat

VARIABLES
  draft,     \* ap_anonymous_drafts: state, whether expires_at is to come, a hold
  document,  \* ap_document_versions
  stored,    \* documents whose bytes are in storage
  undone,    \* documents whose upload handler took its bytes back
  owner,     \* the handler the owner's browser waits for
  retries,   \* retries so far
  job,       \* ap_document_processing_jobs
  reader,
  cleanup,   \* ap_unpaid_source_cleanup
  cleaner

ownerVars   == <<undone, owner, retries>>
readVars    == <<job, reader>>
cleanupVars == <<cleanup, cleaner>>
documentVars == <<draft, document, stored, ownerVars, readVars, cleanupVars>>

Missing == [state |-> "ABSENT", current |-> FALSE, ready |-> FALSE,
            parsed |-> FALSE, failure |-> FALSE, retention |-> "ACTIVE"]
NoJob   == [state |-> "NONE", attempts |-> 0, holder |-> Nothing, lease |-> FALSE, due |-> FALSE]
NoClean == [state |-> "NONE", holder |-> Nothing, lease |-> FALSE]
Resting == [at |-> "IDLE", batch |-> {}, document |-> Nothing]

DocumentInit ==
  /\ draft = [state |-> "IN_PROGRESS", live |-> TRUE, hold |-> FALSE]
  /\ document = [d \in Document |-> Missing]
  /\ stored = {} /\ undone = {}
  /\ owner = [at |-> "IDLE", document |-> Nothing]
  /\ retries = 0
  /\ job = [d \in Document |-> NoJob]
  /\ reader = [r \in Reader |-> Resting]
  /\ cleanup = [d \in Document |-> NoClean]
  /\ cleaner = [c \in Cleaner |-> Resting]

Editable == draft.live /\ draft.state \in {"IN_PROGRESS", "COMPLETE"}
Reviewable(d) == /\ draft.live /\ draft.state = "IN_PROGRESS"
                 /\ document[d].current /\ document[d].retention = "ACTIVE"
\* What finalization and payment ask of a document.
Readable(d) == /\ document[d].current /\ document[d].ready
               /\ document[d].parsed /\ ~document[d].failure

-------------------------------------------------------------------------------
(* The owner. *)
Waits(at, d) == owner' = [at |-> at, document |-> d]
Answered == Waits("IDLE", Nothing)

\* The upload handler stores first and registers later.
StoreUpload(d) ==
  /\ owner.at = "IDLE" /\ draft.live
  /\ document[d].state = "ABSENT" /\ d \notin stored \cup undone
  /\ stored' = stored \cup {d}
  /\ Waits("STORED", d)
  /\ UNCHANGED <<draft, document, undone, retries, readVars, cleanupVars>>

\* ap_register_anonymous_document with its queueing trigger; when it fails, or
\* its answer is lost, the handler takes the bytes back.
RegisterUpload ==
  LET d == owner.document IN
  /\ owner.at = "STORED"
  /\ \/ /\ Editable
        /\ document' = [e \in Document |->
             IF e = d THEN [Missing EXCEPT !.state = "QUARANTINED", !.current = TRUE]
             ELSE IF document[e].current
                  THEN [document[e] EXCEPT !.current = FALSE, !.state = "SUPERSEDED"]
             ELSE document[e]]
        /\ job' = [job EXCEPT ![d] = [NoJob EXCEPT !.state = "PENDING", !.due = TRUE]]
        /\ Answered \/ Waits("UNDO", d)
     \/ Waits("UNDO", d) /\ UNCHANGED <<document, job>>
  /\ UNCHANGED <<draft, stored, undone, retries, reader, cleanupVars>>

UndoUpload ==
  /\ owner.at = "UNDO"
  /\ \/ stored' = stored \ {owner.document} /\ undone' = undone \cup {owner.document}
     \/ UNCHANGED <<stored, undone>>
  /\ Answered
  /\ UNCHANGED <<draft, document, retries, readVars, cleanupVars>>

RemoveDocument(d) ==
  /\ Editable /\ document[d].current
  /\ document' = [document EXCEPT ![d] = [@ EXCEPT !.current = FALSE, !.state = "SUPERSEDED"]]
  /\ UNCHANGED <<draft, stored, ownerVars, readVars, cleanupVars>>

\* ap_retry_anonymous_document, and then a call of its own for the job.
RetryDocument(d) ==
  /\ owner.at = "IDLE" /\ retries < MaxRetries
  /\ draft.live /\ document[d].current /\ document[d].state = "FAILED"
  /\ document' = [document EXCEPT ![d] = [@ EXCEPT !.state = "QUARANTINED",
                                                    !.parsed = FALSE, !.failure = FALSE]]
  /\ retries' = retries + 1
  /\ Waits("QUEUE", d)
  /\ UNCHANGED <<draft, stored, undone, readVars, cleanupVars>>

QueueRetry ==
  LET d == owner.document IN
  /\ owner.at = "QUEUE"
  /\ job' = IF document[d].current /\ (job[d].state = "CLAIMED" => ~job[d].lease)
            THEN [job EXCEPT ![d] = [@ EXCEPT !.state = "PENDING", !.attempts = 0,
                                              !.due = TRUE]]
            ELSE job
  /\ Answered
  /\ UNCHANGED <<draft, document, stored, undone, retries, reader, cleanupVars>>

HandlerDies ==
  /\ owner.at # "IDLE"
  /\ Answered
  /\ UNCHANGED <<draft, document, stored, undone, retries, readVars, cleanupVars>>

\* The finalize handler, editing again, and the checkout that binds the draft.
DraftGoes(from, to) ==
  /\ draft.state = from
  /\ draft' = [draft EXCEPT !.state = to]
  /\ UNCHANGED <<document, stored, ownerVars, readVars, cleanupVars>>

FinalizeDraft ==
  draft.live /\ (\E d \in Document : Readable(d)) /\ DraftGoes("IN_PROGRESS", "COMPLETE")
EditDraft == draft.live /\ DraftGoes("COMPLETE", "IN_PROGRESS")
BuyDraft  == DraftGoes("COMPLETE", "LOCKED_TO_CHECKOUT")

-------------------------------------------------------------------------------
(* The readers. *)
ReaderAt(r, at) == reader[r].at = at
ReaderGoes(r, at) == reader' = [reader EXCEPT ![r].at = at]
Reads(r) == reader[r].document

\* Fault: a lease that lapsed is taken over without counting the attempts.
ClaimReadsForever(r) ==
  LET claimed == {d \in Document :
                   /\ Reviewable(d) /\ job[d].due
                   /\ job[d].state = "PENDING" \/ (job[d].state = "CLAIMED" /\ ~job[d].lease)} IN
  /\ reader[r].at = "IDLE"
  /\ job' = [d \in Document |->
       IF d \notin claimed THEN job[d]
       ELSE [job[d] EXCEPT !.state = "CLAIMED", !.attempts = @ + 1, !.holder = r, !.lease = TRUE]]
  /\ reader' = [reader EXCEPT ![r] = [at |-> "NEXT", batch |-> claimed, document |-> Nothing]]
  /\ UNCHANGED <<draft, document, stored, ownerVars, cleanupVars>>

\* ap_claim_document_processing: a third lease that lapsed is given up.
ClaimReads(r) ==
  LET spent(d)  == job[d].state = "CLAIMED" /\ job[d].attempts >= 3 /\ ~job[d].lease
      claimed == {d \in Document :
                   /\ Reviewable(d) /\ job[d].attempts < 3 /\ job[d].due
                   /\ job[d].state = "PENDING" \/ (job[d].state = "CLAIMED" /\ ~job[d].lease)} IN
  /\ ReaderAt(r, "IDLE")
  /\ job' = [d \in Document |->
       IF d \in claimed
       THEN [job[d] EXCEPT !.state = "CLAIMED", !.attempts = @ + 1, !.holder = r, !.lease = TRUE]
       ELSE IF spent(d) THEN [job[d] EXCEPT !.state = "FAILED"] ELSE job[d]]
  /\ reader' = [reader EXCEPT ![r] = [at |-> "NEXT", batch |-> claimed, document |-> Nothing]]
  /\ UNCHANGED <<draft, document, stored, ownerVars, cleanupVars>>

NextRead(r) ==
  /\ ReaderAt(r, "NEXT")
  /\ IF reader[r].batch = {} THEN reader' = [reader EXCEPT ![r] = Resting]
     ELSE \E d \in reader[r].batch :
            reader' = [reader EXCEPT ![r] = [at |-> "DOWNLOAD", document |-> d,
                                             batch |-> reader[r].batch \ {d}]]
  /\ UNCHANGED <<draft, document, stored, job, ownerVars, cleanupVars>>

Download(r) ==
  /\ ReaderAt(r, "DOWNLOAD")
  /\ \/ Reads(r) \in stored /\ ReaderGoes(r, "EXTRACTED")
     \/ ReaderGoes(r, "REFUSED")
  /\ UNCHANGED <<draft, document, stored, job, ownerVars, cleanupVars>>

\* persistAnonymousDocumentReview. A failed extraction is written whoever holds
\* the lease; a review of a document that has one changes nothing.
PersistReview(r) ==
  LET d == Reads(r) IN
  /\ ReaderAt(r, "EXTRACTED")
  /\ \/ /\ document' = IF ~document[d].current THEN document
                       ELSE [document EXCEPT ![d] =
                              [@ EXCEPT !.state = "FAILED", !.failure = TRUE]]
        /\ ReaderGoes(r, "REFUSED")
     \/ /\ Reviewable(d)
        /\ document' = IF document[d].ready THEN document
                       ELSE [document EXCEPT ![d] = [@ EXCEPT
                              !.state = "EXTRACTING", !.ready = TRUE,
                              !.parsed = TRUE, !.failure = FALSE]]
        /\ ReaderGoes(r, "REVIEWED")
     \/ UNCHANGED document /\ ReaderGoes(r, "REFUSED")
  /\ UNCHANGED <<draft, stored, job, ownerVars, cleanupVars>>

\* ap_complete_document_processing raises when the lease went to another, and
\* the reader's whole pass ends.
CompleteRead(r) ==
  LET d == Reads(r)
      next == IF ReaderAt(r, "REVIEWED") THEN "COMPLETED"
              ELSE IF job[d].attempts >= 3 THEN "FAILED" ELSE "PENDING" IN
  /\ reader[r].at \in {"REVIEWED", "REFUSED"}
  /\ IF job[d].state = "CLAIMED" /\ job[d].holder = r
     THEN /\ job' = [job EXCEPT ![d] = [@ EXCEPT !.state = next, !.holder = Nothing,
                                          !.lease = FALSE, !.due = FALSE]]
          /\ ReaderGoes(r, "NEXT")
     ELSE reader' = [reader EXCEPT ![r] = Resting] /\ UNCHANGED job
  /\ UNCHANGED <<draft, document, stored, ownerVars, cleanupVars>>

Read(r) == \/ ClaimReads(r) \/ NextRead(r) \/ Download(r)
           \/ PersistReview(r) \/ CompleteRead(r)

ReaderDies(r) ==
  /\ ~ReaderAt(r, "IDLE")
  /\ reader' = [reader EXCEPT ![r] = Resting]
  /\ UNCHANGED <<draft, document, stored, job, ownerVars, cleanupVars>>

-------------------------------------------------------------------------------
(* The cleaners. *)
CleanerAt(c, at) == cleaner[c].at = at
CleanerGoes(c, at) == cleaner' = [cleaner EXCEPT ![c].at = at]
Cleans(c) == cleaner[c].document
Authorized(d) == cleanup[d].state \in {"DELETE_AUTHORIZED", "COMPLETED"}

\* ap_unpaid_source_retention_eligible.
Eligible(d) ==
  /\ document[d].state # "ABSENT" /\ document[d].retention # "DELETED"
  /\ ~draft.live /\ ~draft.hold /\ draft.state # "LOCKED_TO_CHECKOUT"

\* Fault: only rows that were not authorized yet are claimed.
ClaimCleanupOnce(c) ==
  LET claimed == {d \in Document : Eligible(d) /\ ~cleanup[d].lease /\ ~Authorized(d)} IN
  /\ CleanerAt(c, "IDLE")
  /\ cleanup' = [d \in Document |->
       IF d \notin claimed THEN cleanup[d]
       ELSE [state |-> "LEASED", holder |-> c, lease |-> TRUE]]
  /\ cleaner' = [cleaner EXCEPT ![c] = [at |-> "NEXT", batch |-> claimed, document |-> Nothing]]
  /\ UNCHANGED <<draft, document, stored, ownerVars, readVars>>

ClaimCleanup(c) ==
  LET claimed == {d \in Document : Eligible(d) /\ ~cleanup[d].lease
                                     /\ cleanup[d].state # "COMPLETED"} IN
  /\ CleanerAt(c, "IDLE")
  /\ cleanup' = [d \in Document |->
       IF d \notin claimed THEN cleanup[d]
       ELSE [state |-> IF Authorized(d) THEN "DELETE_AUTHORIZED" ELSE "LEASED",
             holder |-> c, lease |-> TRUE]]
  /\ cleaner' = [cleaner EXCEPT ![c] = [at |-> "NEXT", batch |-> claimed, document |-> Nothing]]
  /\ UNCHANGED <<draft, document, stored, ownerVars, readVars>>

NextCleanup(c) ==
  /\ CleanerAt(c, "NEXT")
  /\ IF cleaner[c].batch = {} THEN cleaner' = [cleaner EXCEPT ![c] = Resting]
     ELSE \E d \in cleaner[c].batch :
            cleaner' = [cleaner EXCEPT ![c] = [at |-> "AUTHORIZE", document |-> d,
                                               batch |-> cleaner[c].batch \ {d}]]
  /\ UNCHANGED <<draft, document, stored, cleanup, ownerVars, readVars>>

\* ap_authorize_unpaid_source_delete.
AuthorizeDelete(c) ==
  LET d == Cleans(c) IN
  /\ CleanerAt(c, "AUTHORIZE")
  /\ IF cleanup[d].holder = c /\ cleanup[d].lease /\ Eligible(d)
     THEN /\ cleanup' = [cleanup EXCEPT ![d].state = "DELETE_AUTHORIZED"]
          /\ document' = [document EXCEPT ![d].retention = "DELETE_PENDING"]
          /\ draft' = [draft EXCEPT !.state = "EXPIRED"]
          /\ CleanerGoes(c, "REMOVE") \/ CleanerGoes(c, "NEXT")
     ELSE CleanerGoes(c, "NEXT") /\ UNCHANGED <<cleanup, document, draft>>
  /\ UNCHANGED <<stored, ownerVars, readVars>>

\* The storage call may remove the bytes and still answer with an error.
RemoveBytes(c) ==
  /\ CleanerAt(c, "REMOVE")
  /\ \/ stored' = stored \ {Cleans(c)} /\ CleanerGoes(c, "REMOVED")
     \/ stored' = stored \ {Cleans(c)} /\ CleanerGoes(c, "FAILED")
     \/ UNCHANGED stored /\ CleanerGoes(c, "FAILED")
  /\ UNCHANGED <<draft, document, cleanup, ownerVars, readVars>>

\* Fault: a deletion that failed is recorded like one that succeeded.
FinishAnyhow(c) ==
  LET d == Cleans(c) IN
  /\ cleaner[c].at \in {"REMOVED", "FAILED"}
  /\ cleanup[d].state = "DELETE_AUTHORIZED" /\ cleanup[d].holder = c
  /\ cleanup' = [cleanup EXCEPT ![d] = [NoClean EXCEPT !.state = "COMPLETED"]]
  /\ document' = [document EXCEPT ![d].retention = "DELETED"]
  /\ CleanerGoes(c, "NEXT")
  /\ UNCHANGED <<draft, stored, ownerVars, readVars>>

\* ap_finish_unpaid_source_delete asks for the token, not for a live lease, and
\* a failure extends the lease.
FinishDelete(c) ==
  LET d == Cleans(c)
      mine == cleanup[d].state = "DELETE_AUTHORIZED" /\ cleanup[d].holder = c IN
  /\ cleaner[c].at \in {"REMOVED", "FAILED"}
  /\ IF mine /\ CleanerAt(c, "REMOVED")
     THEN /\ cleanup' = [cleanup EXCEPT ![d] = [NoClean EXCEPT !.state = "COMPLETED"]]
          /\ document' = [document EXCEPT ![d].retention = "DELETED"]
     ELSE /\ cleanup' = IF mine THEN [cleanup EXCEPT ![d].lease = TRUE] ELSE cleanup
          /\ UNCHANGED document
  /\ CleanerGoes(c, "NEXT")
  /\ UNCHANGED <<draft, stored, ownerVars, readVars>>

Clean(c) == \/ ClaimCleanup(c) \/ NextCleanup(c) \/ AuthorizeDelete(c)
            \/ RemoveBytes(c) \/ FinishDelete(c)

\* With nothing left to clean, dying is returning.
CleanerDies(c) ==
  /\ ~CleanerAt(c, "IDLE")
  /\ ~(CleanerAt(c, "NEXT") /\ cleaner[c].batch = {})
  /\ cleaner' = [cleaner EXCEPT ![c] = Resting]
  /\ UNCHANGED <<draft, document, stored, cleanup, ownerVars, readVars>>

-------------------------------------------------------------------------------
(* Time, and the operator's legal hold, refused by ap_guard_unpaid_delete_hold *)
(* once a deletion was authorized.                                             *)
DraftExpires ==
  /\ draft.live
  /\ draft' = [draft EXCEPT !.live = FALSE]
  /\ UNCHANGED <<document, stored, ownerVars, readVars, cleanupVars>>

ReadLeaseLapses(d) ==
  /\ job[d].lease
  /\ job' = [job EXCEPT ![d].lease = FALSE]
  /\ UNCHANGED <<draft, document, stored, ownerVars, reader, cleanupVars>>

ReadComesDue(d) ==
  /\ job[d].state = "PENDING" /\ ~job[d].due
  /\ job' = [job EXCEPT ![d].due = TRUE]
  /\ UNCHANGED <<draft, document, stored, ownerVars, reader, cleanupVars>>

CleanupLeaseLapses(d) ==
  /\ cleanup[d].lease
  /\ cleanup' = [cleanup EXCEPT ![d].lease = FALSE]
  /\ UNCHANGED <<draft, document, stored, ownerVars, readVars, cleaner>>

ChangeHold ==
  /\ draft.hold \/ \A d \in Document : ~Authorized(d)
  /\ draft' = [draft EXCEPT !.hold = ~@]
  /\ UNCHANGED <<document, stored, ownerVars, readVars, cleanupVars>>

DocumentTime(d) == ReadLeaseLapses(d) \/ ReadComesDue(d) \/ CleanupLeaseLapses(d)

OwnerStep ==
  \/ \E d \in Document : StoreUpload(d) \/ RemoveDocument(d) \/ RetryDocument(d)
  \/ RegisterUpload \/ UndoUpload \/ QueueRetry \/ HandlerDies
  \/ FinalizeDraft \/ EditDraft \/ BuyDraft

DocumentNext ==
  \/ OwnerStep
  \/ \E r \in Reader : Read(r) \/ ReaderDies(r)
  \/ \E c \in Cleaner : Clean(c) \/ CleanerDies(c)
  \/ DraftExpires \/ ChangeHold
  \/ \E d \in Document : DocumentTime(d)

DocumentSpec == DocumentInit /\ [][DocumentNext]_documentVars

-------------------------------------------------------------------------------
DocumentTypeOK ==
  /\ draft \in [state : {"IN_PROGRESS", "COMPLETE", "LOCKED_TO_CHECKOUT", "EXPIRED"},
                live : BOOLEAN, hold : BOOLEAN]
  /\ document \in [Document ->
       [state : {"ABSENT", "QUARANTINED", "EXTRACTING", "FAILED", "SUPERSEDED"},
        current : BOOLEAN, ready : BOOLEAN, parsed : BOOLEAN, failure : BOOLEAN,
        retention : {"ACTIVE", "DELETE_PENDING", "DELETED"}]]
  /\ stored \in SUBSET Document
  /\ undone \in SUBSET Document
  /\ owner \in [at : {"IDLE", "STORED", "UNDO", "QUEUE"}, document : Document \cup {Nothing}]
  /\ retries \in 0 .. MaxRetries
  /\ job \in [Document -> [state : {"NONE", "PENDING", "CLAIMED", "COMPLETED", "FAILED"},
                           attempts : 0 .. 3, holder : Reader \cup {Nothing},
                           lease : BOOLEAN, due : BOOLEAN]]
  /\ reader \in [Reader ->
       [at : {"IDLE", "NEXT", "DOWNLOAD", "EXTRACTED", "REVIEWED", "REFUSED"},
        batch : SUBSET Document, document : Document \cup {Nothing}]]
  /\ cleanup \in [Document -> [state : {"NONE", "LEASED", "DELETE_AUTHORIZED", "COMPLETED"},
                               holder : Cleaner \cup {Nothing}, lease : BOOLEAN]]
  /\ cleaner \in [Cleaner ->
       [at : {"IDLE", "NEXT", "AUTHORIZE", "REMOVE", "REMOVED", "FAILED"},
        batch : SUBSET Document, document : Document \cup {Nothing}]]

\* While a legal hold is in force, or once the draft was bought, no cleaner has
\* taken the bytes of any of its documents, however late a storage call of an
\* earlier lease arrives. (An upload handler may: it undoes a registration whose
\* answer it lost.)
HeldBytesRemain ==
  draft.hold \/ draft.state = "LOCKED_TO_CHECKOUT" =>
    \A d \in Document : document[d].state # "ABSENT" => d \in stored \cup undone

\* A document is recorded as deleted only when its bytes are gone.
DeletedIsGone ==
  \A d \in Document : document[d].retention = "DELETED" => d \notin stored

\* A job completes only with a review, whichever of two readers records it.
CompletedIsReviewed ==
  \A d \in Document : job[d].state = "COMPLETED" => document[d].ready

DocumentsSafe == HeldBytesRemain /\ DeletedIsGone /\ CompletedIsReviewed

\* What a cleaner must carry out, through dead cleaners, lost answers and leases
\* that change hands.
DeletionOwed == \E d \in Document : cleanup[d].state = "DELETE_AUTHORIZED"

\* What a reader must end, as long as the draft may be reviewed.
ReadingOwed ==
  \E d \in Document : job[d].state \in {"PENDING", "CLAIMED"} /\ Reviewable(d)

===============================================================================
