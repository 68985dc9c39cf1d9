--------------------------- MODULE KnowledgeIngestion ---------------------------
(***************************************************************************)
(* One source of a brand's knowledge: the calls of ingest and retry that   *)
(* turn it into a READY document, the writers of its chunks, and the calls *)
(* that index it for the search.                                           *)
(*                                                                         *)
(* The chunks of a call are written together and the call fails with the   *)
(* first of them; the others are not stopped, and go on writing after the  *)
(* call has ended.  A document is found by the checksum of its text, so    *)
(* every call writes the same chunks.  Texts, titles, vectors and the      *)
(* order of hits are left out; UrlFetch has the way a URL is read.         *)
(***************************************************************************)
EXTENDS Naturals

CONSTANTS
  Calls,    \* slots for calls of ingest and retry
  Indexers, \* slots for calls of embedDocument
  Ordinals, \* chunks of the text
  MaxFaults \* bound on failed statements and deaths

VARIABLES
  document,  \* KnowledgeDocument.status, NONE before there is one
  chunks,    \* ordinals of the rows in knowledge_chunk
  embedded,  \* those with an embedding
  call,      \* calls at work: the next step, the status read, the writes outstanding
  indexer,   \* chunks a call of embedDocument has yet to embed
  abandoned, \* has a call been cut off between its claim and its last statement? (history)
  faults

vars == <<document, chunks, embedded, call, indexer, abandoned, faults>>

KnowledgeDocumentStatus == {"PENDING", "PROCESSING", "READY", "FAILED"}
Idle == [step |-> "idle", from |-> "NONE", todo |-> {}]
Owning == {"write", "ready", "fail"}

TypeOK ==
  /\ document \in KnowledgeDocumentStatus \cup {"NONE"}
  /\ chunks \subseteq Ordinals /\ embedded \subseteq chunks
  /\ call \in [Calls -> [step : {"idle", "claim", "late"} \cup Owning,
                         from : {"NONE", "PENDING", "FAILED"}, todo : SUBSET Ordinals]]
  /\ indexer \in [Indexers -> SUBSET Ordinals]
  /\ abandoned \in BOOLEAN /\ faults \in Nat

Init ==
  /\ document = "NONE" /\ chunks = {} /\ embedded = {}
  /\ call = [c \in Calls |-> Idle] /\ indexer = [i \in Indexers |-> {}]
  /\ abandoned = FALSE /\ faults = 0

At(c, step) == call[c].step = step
Goto(c, step) == call' = [call EXCEPT ![c].step = step]
Fault == faults < MaxFaults /\ faults' = faults + 1

\* A call that has ended leaves the writes it has not heard of.
Ended(c) == IF call[c].todo = {} THEN Idle ELSE [call[c] EXCEPT !.step = "late"]
Finish(c) == call' = [call EXCEPT ![c] = Ended(c)]

\* A status is changed only from the one expected.
transitionDocumentStatus(from, to) == document' = IF document = from THEN to ELSE document

-----------------------------------------------------------------------------
(* ingest and retry.                                                       *)

\* The document is created PENDING, or found by its checksum.
createOrGetDocument == document' = IF document = "NONE" THEN "PENDING" ELSE document

\* READY is the answer, and PROCESSING is refused as in progress.
ingest(c) ==
  /\ call[c] = Idle /\ document \in {"NONE", "PENDING", "FAILED"} /\ createOrGetDocument
  /\ call' = [call EXCEPT ![c] = [Idle EXCEPT !.step = "claim", !.from = document']]
  /\ UNCHANGED <<chunks, embedded, indexer, abandoned, faults>>

findFailedDocumentForRetry == document = "FAILED"

\* A FAILED document is retried with the text it keeps.
retry(c) ==
  /\ call[c] = Idle /\ findFailedDocumentForRetry
  /\ call' = [call EXCEPT ![c] = [Idle EXCEPT !.step = "claim", !.from = "FAILED"]]
  /\ UNCHANGED <<document, chunks, embedded, indexer, abandoned, faults>>

\* A slip: the claim is written without a look at what it replaces.
ClaimBlind(c) ==
  /\ At(c, "claim")
  /\ document' = "PROCESSING"
  /\ call' = [call EXCEPT ![c].step = "write", ![c].todo = Ordinals]
  /\ UNCHANGED <<chunks, embedded, indexer, abandoned, faults>>

\* The claim is outside the try: when it is rejected, or its answer lost, nothing is undone.
Claim(c) ==
  /\ At(c, "claim")
  /\ \/ /\ transitionDocumentStatus(call[c].from, "PROCESSING")
        /\ call' = [call EXCEPT ![c] = IF document = call[c].from
                                         THEN [@ EXCEPT !.step = "write", !.todo = Ordinals]
                                         ELSE Idle]
        /\ UNCHANGED <<abandoned, faults>>
     \/ /\ Fault /\ Finish(c)
        /\ \/ UNCHANGED <<document, abandoned>>
           \/ document = call[c].from /\ document' = "PROCESSING" /\ abandoned' = TRUE
  /\ UNCHANGED <<chunks, embedded, indexer>>

Remaining(c, o) == [call[c] EXCEPT !.todo = @ \ {o}]
Written(c, o) == IF At(c, "late") /\ call[c].todo = {o} THEN Idle ELSE Remaining(c, o)

\* A slip: a chunk is replaced by a new row.
replaceChunk(o) == chunks' = chunks \cup {o} /\ embedded' = embedded \ {o}

\* A chunk is created, or its text written again; its embedding stays.
upsertChunk(o) == chunks' = chunks \cup {o} /\ UNCHANGED embedded

\* One of the writers; the first failure ends the wait for the others.
addChunk(c, o) ==
  /\ o \in call[c].todo
  /\ \/ upsertChunk(o) /\ call' = [call EXCEPT ![c] = Written(c, o)] /\ UNCHANGED faults
     \/ /\ Fault /\ (upsertChunk(o) \/ UNCHANGED <<chunks, embedded>>)
        /\ call' = [call EXCEPT ![c] = IF At(c, "write")
                                         THEN [Remaining(c, o) EXCEPT !.step = "fail"]
                                         ELSE Written(c, o)]
  /\ UNCHANGED <<document, indexer, abandoned>>

\* A slip: one chunk written is enough.
AllWrittenEarly(c) ==
  /\ At(c, "write") /\ call[c].todo # Ordinals /\ Goto(c, "ready")
  /\ UNCHANGED <<document, chunks, embedded, indexer, abandoned, faults>>

AllWritten(c) ==
  /\ At(c, "write") /\ call[c].todo = {} /\ Goto(c, "ready")
  /\ UNCHANGED <<document, chunks, embedded, indexer, abandoned, faults>>

\* The document becomes READY and is read again; an error in either ends in the catch.
Ready(c) ==
  /\ At(c, "ready")
  /\ \/ /\ transitionDocumentStatus("PROCESSING", "READY") /\ UNCHANGED faults
        /\ IF document = "PROCESSING" THEN Finish(c) ELSE Goto(c, "fail")
     \/ /\ Fault /\ Goto(c, "fail")
        /\ UNCHANGED document \/ transitionDocumentStatus("PROCESSING", "READY")
  /\ UNCHANGED <<chunks, embedded, indexer, abandoned>>

\* A slip: the error is passed on and the document forgotten.
FailForgetful(c) ==
  /\ At(c, "fail") /\ Finish(c)
  /\ UNCHANGED <<document, chunks, embedded, indexer, abandoned, faults>>

\* The catch: a READY document is not failed any more.
Fail(c) ==
  /\ At(c, "fail") /\ Finish(c)
  /\ \/ transitionDocumentStatus("PROCESSING", "FAILED") /\ UNCHANGED <<abandoned, faults>>
     \/ Fault /\ abandoned' = TRUE /\ UNCHANGED document
  /\ UNCHANGED <<chunks, embedded, indexer>>

\* The process that serves a call dies, and its writers with it.
Die(c) ==
  /\ call[c] # Idle /\ Fault
  /\ call' = [call EXCEPT ![c] = Idle]
  /\ abandoned' = (abandoned \/ call[c].step \in Owning)
  /\ UNCHANGED <<document, chunks, embedded, indexer>>

-----------------------------------------------------------------------------
(* embedDocument and the search.                                           *)

\* The chunks there are, of a document in any status.
findDocumentChunks(i) ==
  /\ indexer[i] = {} /\ indexer' = [indexer EXCEPT ![i] = chunks]
  /\ UNCHANGED <<document, chunks, embedded, call, abandoned, faults>>

\* One after the other; an embedding of the wrong dimension or a failed request ends it.
setChunkEmbedding(i) ==
  /\ \/ \E o \in indexer[i] : /\ embedded' = embedded \cup {o}
                              /\ indexer' = [indexer EXCEPT ![i] = @ \ {o}]
     \/ indexer[i] # {} /\ indexer' = [indexer EXCEPT ![i] = {}] /\ UNCHANGED embedded
  /\ UNCHANGED <<document, chunks, call, abandoned, faults>>

\* What the search and the prompts can find.
hybridSearch == IF document = "READY" THEN embedded ELSE {}
findChunks == IF document = "READY" THEN chunks ELSE {}

-----------------------------------------------------------------------------
Work(c) == Claim(c) \/ (\E o \in Ordinals : addChunk(c, o)) \/ AllWritten(c) \/ Ready(c) \/ Fail(c)

Next ==
  \/ \E c \in Calls : ingest(c) \/ retry(c) \/ Work(c) \/ Die(c)
  \/ \E i \in Indexers : findDocumentChunks(i) \/ setChunkEmbedding(i)

\* A call that has begun goes on until it ends or is cut off.
Spec == Init /\ [][Next]_vars /\ \A c \in Calls : WF_vars(Work(c))

-----------------------------------------------------------------------------
\* One call at a time processes the document, whoever retries while late writers of an
\* earlier call are still at work (knowledge-ingestion.ts:147-191).
OneProcessor == \A c, d \in Calls : ({call[c].step, call[d].step} \subseteq Owning) => c = d

\* What the search and the prompts find is complete: a READY document has every chunk of
\* its text, though calls failed half-way before (knowledge-ingestion.ts:154-173).
ReadyIsComplete == document = "READY" => chunks = Ordinals

\* What has once been found stays found: neither a late writer nor a late failure takes a
\* chunk, its embedding or READY away (knowledge.ts:207-221, knowledge-ingestion.ts:184).
SearchNeverForgets ==
  [][hybridSearch \subseteq hybridSearch' /\ findChunks \subseteq findChunks']_vars

\* A document does not stay PROCESSING unless a call was cut off
\* (knowledge-ingestion.ts:182-191).
ProcessingEnds == document = "PROCESSING" ~> (document \in {"READY", "FAILED"} \/ abandoned)
=============================================================================
