--------------------------- MODULE KnowledgeBase ---------------------------
(***************************************************************************)
(* The knowledge base (services/platform/app/services/knowledge.py and the *)
(* handlers of api/routes.py that use it): documents are rows of the       *)
(* database, files of the artifact store and points of a Qdrant            *)
(* collection, and each of the three is changed in a step of its own.      *)
(*                                                                         *)
(* A call works through requests to Qdrant and the embedding provider, and *)
(* then changes the rows in one transaction.  A request may be refused,    *)
(* which raises KnowledgeIndexError; it may break, done or not done, which *)
(* raises an error of httpx; and the process may die.                      *)
(***************************************************************************)
EXTENDS Naturals, Sequences, FiniteSets, FiniteSetsExt

CONSTANTS
    Documents,      \* document ids
    Uploaded,       \* the documents that are indexed at the start
    Tokens,         \* Tokens[d]: number of words of document d
    Scope,          \* Scope[d]: "global" or "project"
    CHUNK_TOKENS,
    CHUNK_OVERLAP,
    Scenarios,      \* sequences of calls: who makes it, its kind and its document
    Limit,          \* limit of a search
    MaxFaults       \* bound: requests that are refused or break, and processes that die

Calls == UNION {DOMAIN s : s \in Scenarios}

VARIABLES
    do,           \* do[c]: who makes call c, its kind and its document or its scopes
    call,         \* call[c]: control point and locals
    collection,   \* "missing", "fits" or "other": another vector size
    points,       \* points of the collection: <<document, call, first token>>
    chunks,       \* rows of KnowledgeChunk
    status,       \* status[d]: status of the row of document d, "none" when there is no row
    files,        \* documents whose file exists
    history       \* history variables

vars == <<do, call, collection, points, chunks, status, files, history>>

Live == DOMAIN do
Writes(c) == do[c].kind \in {"upload", "reindex", "delete"}
Ended(c) == call[c].pc = "ended"
Working(c) == call[c].pc \notin {"absent", "idle", "ended"}

Of(rows, d) == {r \in rows : r[1] = d}

TypeOK ==
    /\ \A c \in Live : /\ call[c].pc \in {"idle", "artifact", "request", "create", "statement",
                                          "commit", "unlink", "lookup", "ended"}
                       /\ call[c].phase \in {"try", "undo", "missing"}
                       /\ call[c].found \subseteq Documents \X (Calls \cup {0}) \X Nat
                       /\ Cardinality(call[c].found) <= Limit
    /\ collection \in {"missing", "fits", "other"}
    /\ \A p \in points \cup chunks : p[1] \in Documents /\ p[2] \in Live \cup {0} /\ p[3] < Tokens[p[1]]
    /\ collection # "fits" => points = {}
    /\ \A d \in Documents : status[d] \in {"none", "indexed", "failed"}
    /\ files \subseteq Documents

-----------------------------------------------------------------------------
(* chunk_text: windows of CHUNK_TOKENS words that overlap by CHUNK_OVERLAP *)

Stride == IF CHUNK_TOKENS > CHUNK_OVERLAP THEN CHUNK_TOKENS - CHUNK_OVERLAP ELSE 1

\* A window is the last one when it reaches the end of the text.
Starts(n) == {s \in 0..(n - 1) : s % Stride = 0 /\ (s = 0 \/ s - Stride + CHUNK_TOKENS < n)}

Window(n, s) == s..(Min({s + CHUNK_TOKENS, n}) - 1)

ChunkRows(d, c) == {<<d, c, s>> : s \in Starts(Tokens[d])}

-----------------------------------------------------------------------------
Idle == [pc |-> "idle", phase |-> "try", todo |-> <<>>, loaded |-> "none", new |-> {}, seen |-> {},
         found |-> {}, gone |-> {}, alone |-> TRUE]
EndedCall(c) == [Idle EXCEPT !.pc = "ended", !.found = call[c].found, !.gone = call[c].gone]

Init ==
    /\ do \in Scenarios
    /\ call = [c \in Calls |-> IF c \in Live THEN Idle ELSE [Idle EXCEPT !.pc = "absent"]]
    /\ collection \in {"missing", "fits", "other"}
    /\ chunks = UNION {ChunkRows(d, 0) : d \in Uploaded}
    /\ points = IF collection = "fits" THEN chunks ELSE {}
    /\ status = [d \in Documents |-> IF d \in Uploaded THEN "indexed" ELSE "none"]
    /\ files = Uploaded
    /\ history = [faults |-> 0, other |-> collection = "other", raced |-> FALSE, deleted |-> {},
                 settled |-> [d \in Documents |-> collection = "fits" \/ d \notin Uploaded]]

MayCall(c) == call[c].pc = "idle" /\ \A e \in 1..(c - 1) : do[e].by = do[c].by => Ended(e)

\* The calls that change the document of call c while c is in progress.
Rivals(c) == {e \in Live \ {c} : Working(e) /\ Writes(e) /\ do[e].document = do[c].document}

\* Call c becomes the record r; calls that meet are no longer alone.
Begin(c, r) ==
    call' = [e \in Calls |-> IF e = c THEN [r EXCEPT !.alone = Rivals(c) = {}]
                             ELSE IF e \in Rivals(c) THEN [call[e] EXCEPT !.alone = FALSE]
                             ELSE call[e]]

Indexing == <<"ensure", "embed", "upsert">>
Removing == <<"ensure", "remove">>
Renewing == <<"ensure", "remove", "ensure", "embed", "upsert">>

\* upload_knowledge_document: save_upload, extract_text and chunk_rows; a text without
\* words is an error.
Upload(c) ==
    /\ MayCall(c) /\ do[c].kind = "upload"
    /\ LET d == do[c].document
           new == ChunkRows(d, c)
       IN /\ files' = files \cup {d}
          /\ Begin(c, [Idle EXCEPT !.pc = IF new = {} THEN "statement" ELSE "request", !.new = new,
                                   !.todo = Indexing])
    /\ UNCHANGED <<do, collection, points, chunks, status, history>>

\* save_upload removes a file that is too large and raises outside the try.
UploadTooLarge(c) ==
    /\ MayCall(c) /\ do[c].kind = "upload"
    /\ call' = [call EXCEPT ![c] = EndedCall(c)]
    /\ UNCHANGED <<do, collection, points, chunks, status, files, history>>

LoadDocument(c) ==
    /\ MayCall(c) /\ do[c].kind = "reindex" /\ status[do[c].document] # "none"
    /\ Begin(c, [Idle EXCEPT !.pc = "artifact", !.loaded = status[do[c].document]])
    /\ UNCHANGED <<do, collection, points, chunks, status, files, history>>

\* reindex_knowledge_document: is_file, extract_text and chunk_rows.
\* Mutant: the old vectors stay.
ReadArtifactKeepingPoints(c) ==
    /\ call[c].pc = "artifact"
    /\ LET d == do[c].document
           new == ChunkRows(d, c)
       IN call' = [call EXCEPT ![c] =
             IF d \notin files THEN [@ EXCEPT !.pc = "request", !.phase = "missing", !.todo = Removing]
             ELSE IF new = {} THEN [@ EXCEPT !.pc = "request", !.phase = "undo", !.todo = Removing]
             ELSE [@ EXCEPT !.pc = "request", !.new = new, !.todo = Indexing]]
    /\ UNCHANGED <<do, collection, points, chunks, status, files, history>>

ReadArtifact(c) ==
    /\ call[c].pc = "artifact"
    /\ LET d == do[c].document
           new == ChunkRows(d, c)
       IN call' = [call EXCEPT ![c] =
             IF d \notin files THEN [@ EXCEPT !.pc = "request", !.phase = "missing", !.todo = Removing]
             ELSE IF new = {} THEN [@ EXCEPT !.pc = "request", !.phase = "undo", !.todo = Removing]
             ELSE [@ EXCEPT !.pc = "request", !.new = new, !.todo = Renewing]]
    /\ UNCHANGED <<do, collection, points, chunks, status, files, history>>

Delete(c) ==
    /\ MayCall(c) /\ do[c].kind = "delete" /\ status[do[c].document] # "none"
    /\ Begin(c, [Idle EXCEPT !.pc = "request", !.todo = Removing])
    /\ UNCHANGED <<do, collection, points, chunks, status, files, history>>

\* A search remembers the documents that are already gone, for the property DeletedIsGone.
Search(c) ==
    /\ MayCall(c) /\ do[c].kind = "search"
    /\ call' = [call EXCEPT ![c] = [Idle EXCEPT !.pc = "request", !.todo = <<"ensure", "embed", "search">>,
                  !.gone = history.deleted]]
    /\ UNCHANGED <<do, collection, points, chunks, status, files, history>>

-----------------------------------------------------------------------------
(* Requests to Qdrant and to the embedding provider *)

NextRequest(c) == Head(call[c].todo)
Requesting(c, r) == call[c].pc = "request" /\ Head(call[c].todo) = r

\* The call after a request that succeeded.
Advanced(c) ==
    IF Len(call[c].todo) > 1 THEN [call[c] EXCEPT !.pc = "request", !.todo = Tail(@)]
    ELSE [call[c] EXCEPT !.todo = <<>>, !.pc = CASE do[c].kind = "search" -> "lookup"
                                                 [] do[c].kind = "upload" -> "commit"
                                                 [] OTHER -> "statement"]

\* The call after an error inside the try of upload or reindex: every exception is
\* caught, and reindex removes what it may have written.
Caught(c) ==
    IF do[c].kind = "upload" THEN [call[c] EXCEPT !.pc = "commit", !.new = {}, !.todo = <<>>]
    ELSE [call[c] EXCEPT !.pc = "request", !.phase = "undo", !.new = {}, !.todo = Removing]

InTry(c) == do[c].kind = "upload" \/ (do[c].kind = "reindex" /\ call[c].phase = "try")

\* Where the error is not caught the call ends: delete and search answer 502.
\* KnowledgeIndexError is suppressed where reindex cleans up.
Raised(c) ==
    IF InTry(c) THEN Caught(c)
    ELSE IF do[c].kind = "reindex" THEN [call[c] EXCEPT !.pc = "statement", !.todo = <<>>]
    ELSE EndedCall(c)

\* An error of httpx is not.
Broken(c) == IF InTry(c) THEN Caught(c) ELSE EndedCall(c)

\* ensure_collection looks, and creates the collection when it is missing.
EnsureCollection(c) ==
    /\ Requesting(c, "ensure")
    /\ call' = [call EXCEPT ![c] = CASE collection = "fits" -> Advanced(c)
                                     [] collection = "other" -> Raised(c)
                                     [] collection = "missing" -> [@ EXCEPT !.pc = "create"]]
    /\ UNCHANGED <<do, collection, points, chunks, status, files, history>>

\* The second of two calls that create it is refused.
CreateCollection(c) ==
    /\ call[c].pc = "create"
    /\ collection' = "fits"
    /\ call' = [call EXCEPT ![c] = IF collection = "missing" THEN Advanced(c) ELSE Raised(c)]
    /\ history' = [history EXCEPT !.raced = @ \/ collection = "fits"]
    /\ UNCHANGED <<do, points, chunks, status, files>>

\* embed_texts: the answer must hold a vector of the right size for each text.
EmbedTexts(c) ==
    /\ Requesting(c, "embed")
    /\ call' = [call EXCEPT ![c] = Advanced(c)]
    /\ UNCHANGED <<do, collection, points, chunks, status, files, history>>

\* The points after delete_document_vectors and after the PUT of upsert_chunks.
Removed(c) == points \ Of(points, do[c].document)
Upserted(c) == points \cup call[c].new

Effect(c) ==
    CASE NextRequest(c) = "remove" -> Removed(c)
      [] NextRequest(c) = "upsert" -> Upserted(c)
      [] OTHER -> points

DeleteDocumentVectors(c) ==
    /\ Requesting(c, "remove")
    /\ points' = Removed(c)
    /\ call' = [call EXCEPT ![c] = Advanced(c)]
    /\ UNCHANGED <<do, collection, chunks, status, files, history>>

UpsertChunks(c) ==
    /\ Requesting(c, "upsert")
    /\ points' = Upserted(c)
    /\ call' = [call EXCEPT ![c] = Advanced(c)]
    /\ UNCHANGED <<do, collection, chunks, status, files, history>>

\* search: the points in the scopes, cut to the limit after the scopes are put together.
Best(scopes) ==
    LET inScope == {p \in points : Scope[p[1]] \in scopes}
    IN kSubset(Min({Limit, Cardinality(inScope)}), inScope)

Query(c) ==
    /\ Requesting(c, "search")
    /\ \E matches \in Best(do[c].scopes) :
         call' = [call EXCEPT ![c] = [Advanced(c) EXCEPT !.found = matches]]
    /\ UNCHANGED <<do, collection, points, chunks, status, files, history>>

\* search_knowledge leaves out the matches without a row.
Lookup(c) ==
    /\ call[c].pc = "lookup"
    /\ call' = [call EXCEPT ![c] = [EndedCall(c) EXCEPT !.found = @ \cap chunks]]
    /\ UNCHANGED <<do, collection, points, chunks, status, files, history>>

MayFault == history.faults < MaxFaults

\* A call that ends without a commit leaves its document as it is.
Faulted(c, r) ==
    /\ call' = [call EXCEPT ![c] = r]
    /\ history' = [history EXCEPT !.faults = @ + 1,
           !.settled = IF Writes(c) /\ r.pc = "ended" THEN [@ EXCEPT ![do[c].document] = FALSE] ELSE @]

\* The answer has a status of 400 or more.
Refuse(c) ==
    /\ call[c].pc \in {"request", "create"} /\ MayFault
    /\ Faulted(c, Raised(c))
    /\ UNCHANGED <<do, collection, points, chunks, status, files>>

\* The connection breaks or times out, before the request is done or after.
Break(c) ==
    /\ call[c].pc \in {"request", "create"} /\ MayFault
    /\ Faulted(c, Broken(c))
    /\ \/ UNCHANGED <<collection, points>>
       \/ call[c].pc = "create" /\ collection' = "fits" /\ UNCHANGED points
       \/ call[c].pc = "request" /\ points' = Effect(c) /\ UNCHANGED collection
    /\ UNCHANGED <<do, chunks, status, files>>

\* The process dies, or the database fails.
Die(c) ==
    /\ Working(c) /\ MayFault
    /\ Faulted(c, EndedCall(c))
    /\ UNCHANGED <<do, collection, points, chunks, status, files>>

-----------------------------------------------------------------------------
(* Rows *)

\* DELETE of the rows of the document that are committed when it is executed.
DeleteChunks(c) ==
    /\ call[c].pc = "statement"
    /\ call' = [call EXCEPT ![c] = [@ EXCEPT !.pc = "commit", !.seen = Of(chunks, do[c].document)]]
    /\ UNCHANGED <<do, collection, points, chunks, status, files, history>>

Settle(c) == [history.settled EXCEPT ![do[c].document] = call[c].alone]

CommitUpload(c) ==
    /\ call[c].pc = "commit" /\ do[c].kind = "upload"
    /\ status' = [status EXCEPT ![do[c].document] = IF call[c].new = {} THEN "failed" ELSE "indexed"]
    /\ chunks' = chunks \cup call[c].new
    /\ call' = [call EXCEPT ![c] = EndedCall(c)]
    /\ history' = [history EXCEPT !.settled = Settle(c)]
    /\ UNCHANGED <<do, collection, points, files>>

\* The row of the document is written only if one of its columns differs from what was
\* loaded; then, a row that has been deleted meanwhile is an error and nothing is
\* committed.  A failed document may fail again with another error or with the same.
CommitReindex(c) ==
    /\ call[c].pc = "commit" /\ do[c].kind = "reindex"
    /\ call' = [call EXCEPT ![c] = EndedCall(c)]
    /\ LET d == do[c].document
           outcome == IF call[c].phase = "try" THEN "indexed" ELSE "failed"
           changed == outcome # call[c].loaded
       IN /\ \/ /\ status[d] = "none" /\ (changed \/ outcome = "failed")
                /\ UNCHANGED <<chunks, status>>
             \/ /\ status[d] = "none" => ~changed
                /\ chunks' = (chunks \ call[c].seen) \cup call[c].new
                /\ status' = IF changed THEN [status EXCEPT ![d] = outcome] ELSE status
          /\ history' = [history EXCEPT !.settled = Settle(c)]
    /\ UNCHANGED <<do, collection, points, files>>

CommitDelete(c) ==
    /\ call[c].pc = "commit" /\ do[c].kind = "delete"
    /\ chunks' = chunks \ call[c].seen
    /\ status' = [status EXCEPT ![do[c].document] = "none"]
    /\ call' = [call EXCEPT ![c].pc = "unlink"]
    /\ history' = [history EXCEPT !.settled = Settle(c)]
    /\ UNCHANGED <<do, collection, points, files>>

\* _delete_knowledge_artifact removes the directory of the document.
Unlink(c) ==
    /\ call[c].pc = "unlink"
    /\ files' = files \ {do[c].document}
    /\ call' = [call EXCEPT ![c] = EndedCall(c)]
    /\ history' = [history EXCEPT !.deleted = IF history.settled[do[c].document] /\ call[c].alone
                                               THEN @ \cup {do[c].document} ELSE @]
    /\ UNCHANGED <<do, collection, points, chunks, status>>

-----------------------------------------------------------------------------
Step(c) ==
    \/ Upload(c) \/ UploadTooLarge(c) \/ LoadDocument(c) \/ ReadArtifact(c) \/ Delete(c) \/ Search(c)
    \/ EnsureCollection(c) \/ CreateCollection(c) \/ EmbedTexts(c) \/ DeleteDocumentVectors(c)
    \/ UpsertChunks(c) \/ Query(c) \/ Lookup(c)
    \/ Refuse(c) \/ Break(c) \/ Die(c)
    \/ DeleteChunks(c) \/ CommitUpload(c) \/ CommitReindex(c) \/ CommitDelete(c) \/ Unlink(c)

Next == \E c \in Calls : Step(c)

Spec == Init /\ [][Next]_vars

-----------------------------------------------------------------------------
(* Properties *)

Quiet(d) == \A c \in Live : Working(c) /\ Writes(c) => do[c].document # d

\* Once the last call that changed an indexed document met no other and was not cut
\* off, the document can be found by every word of it: each word is in a window whose
\* row and whose point exist, and neither store holds anything else of the document.
\* This also holds for a reindexing that repairs what earlier calls left apart.
IndexedIsSearchable ==
    \A d \in Documents : status[d] = "indexed" /\ history.settled[d] /\ Quiet(d) =>
        /\ Of(chunks, d) = Of(points, d)
        /\ UNION {Window(Tokens[d], r[3]) : r \in Of(chunks, d)} = 0..(Tokens[d] - 1)

\* After a deletion that met no other call, nothing of the document is left in any of
\* the three stores, and a search that begins then does not answer with it.
DeletedIsGone ==
    /\ \A d \in history.deleted : Of(chunks, d) = {} /\ Of(points, d) = {} /\ d \notin files
    /\ \A c \in Live : \A d \in call[c].gone : Of(call[c].found, d) = {}

\* A document fails to be indexed only for a cause: no words, a fault, a collection of
\* another size, or calls that met on the document or when they created the collection.
FailedForCause ==
    \A d \in Documents : status[d] = "failed" =>
        \/ Tokens[d] = 0 \/ history.faults > 0 \/ history.other
        \/ history.raced \/ ~history.settled[d] \/ ~Quiet(d)

\* The three stores agree on a document, and its status tells the truth.
StoresAgree == IndexedIsSearchable /\ DeletedIsGone /\ FailedForCause
=============================================================================
