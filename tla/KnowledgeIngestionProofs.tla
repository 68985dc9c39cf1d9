------------------------ MODULE KnowledgeIngestionProofs ------------------------
(***************************************************************************)
(* However many calls ingest, retry and index one text, and whatever       *)
(* fails: one of them processes the document, READY has every chunk, and   *)
(* nothing the search has found is lost.                                   *)
(***************************************************************************)
EXTENDS KnowledgeIngestion, TLAPS

CallStates == [step : {"idle", "claim", "late"} \cup Owning,
               from : {"NONE", "PENDING", "FAILED"}, todo : SUBSET Ordinals]

Calling == \E c \in Calls : ingest(c) \/ retry(c) \/ Work(c) \/ Die(c)
Indexing == \E i \in Indexers : findDocumentChunks(i) \/ setChunkEmbedding(i)

-----------------------------------------------------------------------------
(* Type correctness.                                                       *)

\* An indexer embeds chunks that exist: no chunk is taken away.
IndexedExist == \A i \in Indexers : indexer[i] \subseteq chunks

TypeInv == TypeOK /\ IndexedExist

LEMMA TypeInit == Init => TypeInv
<1> SUFFICES ASSUME Init PROVE TypeInv
  OBVIOUS
<1>1. Idle \in CallStates
  BY DEF Idle, CallStates
<1>2. call \in [Calls -> CallStates] /\ indexer \in [Indexers -> SUBSET Ordinals]
  BY <1>1 DEF Init
<1> QED BY <1>2 DEF Init, TypeInv, IndexedExist, TypeOK, CallStates

\* What a call becomes in any of its moves is a call.
LEMMA CallType ==
  ASSUME TypeOK, NEW c \in Calls
  PROVE  /\ call[c] \in CallStates /\ Idle \in CallStates /\ Ended(c) \in CallStates
         /\ \A o \in Ordinals : Remaining(c, o) \in CallStates /\ Written(c, o) \in CallStates
         /\ \A step \in {"late", "ready", "fail"} :
              /\ [call[c] EXCEPT !.step = step] \in CallStates
              /\ \A o \in Ordinals : [Remaining(c, o) EXCEPT !.step = step] \in CallStates
         /\ [call[c] EXCEPT !.step = "write", !.todo = Ordinals] \in CallStates
<1>1. call[c] \in CallStates /\ Idle \in CallStates
  BY DEF TypeOK, CallStates, Idle
<1>2. \A o \in Ordinals : Remaining(c, o) \in CallStates
  BY <1>1 DEF Remaining, CallStates
<1>3. \A step \in {"late", "ready", "fail"} : \A s \in CallStates : [s EXCEPT !.step = step] \in CallStates
  BY DEF CallStates, Owning
<1>4. [call[c] EXCEPT !.step = "write", !.todo = Ordinals] \in CallStates
  BY <1>1 DEF CallStates, Owning
<1> QED BY <1>1, <1>2, <1>3, <1>4 DEF Ended, Written

LEMMA CallingType ==
  ASSUME TypeInv, Calling PROVE TypeInv'
<1> USE DEF TypeInv
<1>1. PICK c \in Calls : ingest(c) \/ retry(c) \/ Work(c) \/ Die(c)
  BY DEF Calling
<1>2. /\ document' \in KnowledgeDocumentStatus \cup {"NONE"} /\ abandoned' \in BOOLEAN
      /\ faults' \in Nat
  <2>1. document' \in KnowledgeDocumentStatus \cup {"NONE"}
    BY <1>1 DEF ingest, retry, Work, Die, Claim, addChunk, AllWritten, Ready, Fail, TypeOK,
       createOrGetDocument, transitionDocumentStatus, KnowledgeDocumentStatus
  <2>2. abandoned' \in BOOLEAN
    BY <1>1 DEF ingest, retry, Work, Die, Claim, addChunk, AllWritten, Ready, Fail, TypeOK
  <2>3. faults' \in Nat
    BY <1>1 DEF ingest, retry, Work, Die, Claim, addChunk, AllWritten, Ready, Fail, Fault, TypeOK
  <2> QED BY <2>1, <2>2, <2>3
<1>3. /\ chunks' \subseteq Ordinals /\ embedded' \subseteq chunks' /\ UNCHANGED indexer
      /\ chunks \subseteq chunks'
  <2>1. UNCHANGED <<chunks, embedded>> \/ \E o \in call[c].todo : upsertChunk(o)
    BY <1>1 DEF ingest, retry, Work, Die, Claim, addChunk, AllWritten, Ready, Fail
  <2>2. call[c].todo \subseteq Ordinals
    BY CallType DEF CallStates
  <2>3. UNCHANGED indexer
    BY <1>1 DEF ingest, retry, Work, Die, Claim, addChunk, AllWritten, Ready, Fail
  <2> QED BY <2>1, <2>2, <2>3 DEF TypeOK, upsertChunk
<1>4. call' \in [Calls -> CallStates]
  <2>0. call \in [Calls -> CallStates] /\ call[c].todo \subseteq Ordinals
    BY CallType DEF TypeOK, CallStates
  <2>1. \E s \in CallStates : call' = [call EXCEPT ![c] = s]
    <3>1. CASE ingest(c) \/ retry(c)
      <4>1. document \in {"NONE", "PENDING", "FAILED"} /\ (ingest(c) => document' \in {"PENDING", "FAILED"})
        BY <3>1 DEF ingest, retry, createOrGetDocument, findFailedDocumentForRetry
      <4>2. \A from \in {"PENDING", "FAILED"} :
              [Idle EXCEPT !.step = "claim", !.from = from] \in CallStates
        BY DEF Idle, CallStates
      <4> QED BY <3>1, <4>1, <4>2 DEF ingest, retry
    <3>2. CASE Claim(c)
      BY <3>2, CallType DEF Claim, Finish
    <3>3. CASE \E o \in Ordinals : addChunk(c, o)
      BY <3>3, CallType DEF addChunk
    <3>4. CASE AllWritten(c) \/ Ready(c) \/ Fail(c)
      BY <3>4, CallType DEF AllWritten, Ready, Fail, Goto, Finish
    <3>5. CASE Die(c)
      BY <3>5, CallType DEF Die
    <3> QED BY <1>1, <3>1, <3>2, <3>3, <3>4, <3>5 DEF Work
  <2> QED BY <2>0, <2>1
<1>5. indexer' \in [Indexers -> SUBSET Ordinals] /\ IndexedExist'
  BY <1>3 DEF TypeOK, IndexedExist
<1> QED BY <1>2, <1>3, <1>4, <1>5 DEF TypeOK, CallStates

LEMMA IndexingType ==
  ASSUME TypeInv, Indexing
  PROVE  TypeInv' /\ UNCHANGED <<document, chunks, call>> /\ embedded \subseteq embedded'
<1>1. PICK i \in Indexers : findDocumentChunks(i) \/ setChunkEmbedding(i)
  BY DEF Indexing
<1>2. UNCHANGED <<document, chunks, call, abandoned, faults>>
  BY <1>1 DEF findDocumentChunks, setChunkEmbedding
<1>3. indexer' \in [Indexers -> SUBSET Ordinals] /\ \A j \in Indexers : indexer'[j] \subseteq chunks
  BY <1>1 DEF findDocumentChunks, setChunkEmbedding, TypeInv, TypeOK, IndexedExist
<1>4. embedded \subseteq embedded' /\ embedded' \subseteq chunks
  BY <1>1 DEF findDocumentChunks, setChunkEmbedding, TypeInv, TypeOK, IndexedExist
<1> QED BY <1>2, <1>3, <1>4 DEF TypeInv, TypeOK, IndexedExist

LEMMA NextType == TypeInv /\ [Next]_vars => TypeInv'
<1> SUFFICES ASSUME TypeInv, [Next]_vars PROVE TypeInv'
  OBVIOUS
<1>1. CASE UNCHANGED vars
  BY <1>1 DEF vars, TypeInv, TypeOK, IndexedExist
<1> QED BY <1>1, CallingType, IndexingType DEF Next, Calling, Indexing

\* Every variable keeps its type, and only chunks that exist are embedded.
THEOREM TypeCorrect == Spec => []TypeOK
<1>1. Spec => []TypeInv
  BY TypeInit, NextType, PTL DEF Spec
<1>2. TypeInv => TypeOK
  BY DEF TypeInv
<1> QED BY <1>1, <1>2, PTL

-----------------------------------------------------------------------------
(* One call at a time.                                                     *)

Owns(c) == call[c].step \in Owning

\* A document that a call owns is PROCESSING, or READY when its success was not heard of.
OwnedIsTaken == \A c \in Calls : Owns(c) => document \in {"PROCESSING", "READY"}

\* What a step does to the document, and whom it makes the owner.
LEMMA OwnerSteps ==
  ASSUME TypeOK, OneProcessor, OwnedIsTaken, NEW c \in Calls,
         ingest(c) \/ retry(c) \/ Work(c) \/ Die(c)
  PROVE  /\ \A d \in Calls \ {c} : call'[d] = call[d]
         /\ Owns(c)' => \/ Owns(c) /\ document' \in {"PROCESSING", "READY"}
                        \/ /\ document \in {"NONE", "PENDING", "FAILED"}
                           /\ document' = "PROCESSING"
         /\ document \in {"PROCESSING", "READY"} =>
              document' \in {"PROCESSING", "READY"} \/ (Owns(c) /\ ~Owns(c)')
<1>1. call[c] \in CallStates /\ call \in [Calls -> CallStates]
  BY DEF TypeOK, CallStates
<1>2. \A d \in Calls \ {c} : call'[d] = call[d]
  BY <1>1 DEF ingest, retry, Work, Die, Claim, addChunk, AllWritten, Ready, Fail, Goto, Finish
<1>3. CASE ingest(c) \/ retry(c)
  <2>1. ~Owns(c)'
    BY <1>1, <1>3 DEF ingest, retry, Owns, Owning, Idle
  <2>2. document \notin {"PROCESSING", "READY"}
    BY <1>3 DEF ingest, retry, findFailedDocumentForRetry
  <2> QED BY <1>2, <2>1, <2>2
<1>4. CASE Claim(c)
  <2>1. call[c].from \notin {"PROCESSING", "READY"} /\ ~Owns(c)
    BY <1>1, <1>4 DEF CallStates, Claim, At, Owns, Owning
  <2>2. ~Owns(c)' \/ (document = call[c].from /\ document' = "PROCESSING")
    BY <1>1, <1>4 DEF Claim, Finish, Ended, Idle, Owns, Owning, transitionDocumentStatus, CallStates
  <2>3. document \in {"PROCESSING", "READY"} => document' = document
    BY <1>4, <2>1 DEF Claim, transitionDocumentStatus
  <2>4. call[c].from \in {"NONE", "PENDING", "FAILED"}
    BY <1>1 DEF CallStates
  <2> QED BY <1>2, <2>2, <2>3, <2>4
<1>5. CASE (\E o \in Ordinals : addChunk(c, o)) \/ AllWritten(c)
  <2>1. document' = document
    BY <1>5 DEF addChunk, AllWritten
  <2>2. Owns(c)' => Owns(c)
    <3>1. CASE \E o \in Ordinals : addChunk(c, o)
      <4>1. PICK o \in Ordinals : addChunk(c, o)
        BY <3>1
      <4>2. \/ call[c].step = "write"
            \/ call' = [call EXCEPT ![c] = Idle]
            \/ call' = [call EXCEPT ![c] = [call[c] EXCEPT !.todo = @ \ {o}]]
        BY <4>1 DEF addChunk, Written, Remaining, At
      <4> QED BY <1>1, <4>2 DEF Owns, Owning, Idle, CallStates
    <3>2. CASE AllWritten(c)
      BY <1>1, <3>2 DEF AllWritten, At, Owns, Owning
    <3> QED BY <1>5, <3>1, <3>2
  <2> QED BY <1>2, <2>1, <2>2 DEF OwnedIsTaken
<1>6. CASE Ready(c)
  <2>1. Owns(c)
    BY <1>6 DEF Ready, At, Owns, Owning
  <2>2. document \in {"PROCESSING", "READY"} /\ document' \in {"PROCESSING", "READY"}
    BY <1>6, <2>1 DEF Ready, OwnedIsTaken, transitionDocumentStatus
  <2> QED BY <1>2, <2>1, <2>2
<1>7. CASE Fail(c) \/ Die(c)
  <2>1. ~Owns(c)'
    BY <1>1, <1>7 DEF Fail, Die, Finish, Ended, Idle, Owns, Owning, CallStates
  <2>2. Fail(c) => Owns(c)
    BY DEF Fail, At, Owns, Owning
  <2>3. Die(c) => document' = document
    BY DEF Die
  <2> QED BY <1>2, <1>7, <2>1, <2>2, <2>3
<1> QED BY <1>3, <1>4, <1>5, <1>6, <1>7 DEF Work

LEMMA NextOwner ==
  ASSUME TypeInv, OneProcessor, OwnedIsTaken, [Next]_vars
  PROVE  OneProcessor' /\ OwnedIsTaken'
<1>1. ASSUME UNCHANGED <<document, call>> PROVE OneProcessor' /\ OwnedIsTaken'
  BY <1>1 DEF OneProcessor, OwnedIsTaken, Owns
<1>2. ASSUME NEW c \in Calls, ingest(c) \/ retry(c) \/ Work(c) \/ Die(c)
      PROVE  OneProcessor' /\ OwnedIsTaken'
  <2>1. /\ \A d \in Calls \ {c} : call'[d] = call[d]
        /\ Owns(c)' => \/ Owns(c) /\ document' \in {"PROCESSING", "READY"}
                       \/ /\ document \in {"NONE", "PENDING", "FAILED"}
                          /\ document' = "PROCESSING"
        /\ document \in {"PROCESSING", "READY"} =>
             document' \in {"PROCESSING", "READY"} \/ (Owns(c) /\ ~Owns(c)')
    BY <1>2, OwnerSteps DEF TypeInv
  <2>2. \A d \in Calls \ {c} : Owns(d)' <=> Owns(d)
    BY <2>1 DEF Owns
  <2>3. \A d, e \in Calls : Owns(d) /\ Owns(e) => d = e
    BY DEF OneProcessor, Owns
  <2>4. \A d \in Calls \ {c} : Owns(d)' => ~Owns(c)' /\ document' \in {"PROCESSING", "READY"}
    BY <2>1, <2>2, <2>3 DEF OwnedIsTaken
  <2>5. \A d, e \in Calls : Owns(d)' /\ Owns(e)' => d = e
    BY <2>2, <2>3, <2>4
  <2>6. OneProcessor'
    BY <2>5 DEF OneProcessor, Owns
  <2>7. OwnedIsTaken'
    BY <2>1, <2>4 DEF OwnedIsTaken
  <2> QED BY <2>6, <2>7
<1>3. Indexing => UNCHANGED <<document, call>>
  BY IndexingType
<1> QED BY <1>1, <1>2, <1>3 DEF Next, Indexing, vars

LEMMA InitOwner == Init => OneProcessor /\ OwnedIsTaken
BY DEF Init, OneProcessor, OwnedIsTaken, Owns, Owning, Idle

\* One call at a time processes the document, for any number of calls, late writers and
\* faults.
THEOREM OneProcessorAlways == Spec => []OneProcessor
<1>1. Spec => []TypeInv
  BY TypeInit, NextType, PTL DEF Spec
<1>2. TypeInv /\ OneProcessor /\ OwnedIsTaken /\ [Next]_vars => OneProcessor' /\ OwnedIsTaken'
  BY NextOwner
<1> QED BY <1>1, <1>2, InitOwner, PTL DEF Spec

\* Unless a call was cut off, a document that is PROCESSING has a call at work on it: what
\* ProcessingEnds rests on.
ProcessingIsOwned == document = "PROCESSING" /\ ~abandoned => \E c \in Calls : Owns(c)

LEMMA NextOwned ==
  ASSUME TypeInv, OneProcessor, OwnedIsTaken, ProcessingIsOwned, [Next]_vars
  PROVE  ProcessingIsOwned'
<1>1. ASSUME UNCHANGED <<document, call, abandoned>> PROVE ProcessingIsOwned'
  BY <1>1 DEF ProcessingIsOwned, Owns
<1>2. ASSUME NEW c \in Calls, ingest(c) \/ retry(c) \/ Work(c) \/ Die(c)
      PROVE  ProcessingIsOwned'
  <2>1. call[c] \in CallStates /\ call \in [Calls -> CallStates]
    BY DEF TypeInv, TypeOK, CallStates
  <2>2. \A d \in Calls \ {c} : Owns(d)' <=> Owns(d)
    BY <1>2, OwnerSteps DEF TypeInv, Owns
  \* The owner is another call, or c itself as before.
  <2>3. ASSUME document' = "PROCESSING" => document = "PROCESSING", ~abandoned' => ~abandoned,
               Owns(c) => Owns(c)'
        PROVE  ProcessingIsOwned'
    BY <2>2, <2>3 DEF ProcessingIsOwned
  <2>4. ASSUME Owns(c)' \/ document' # "PROCESSING" \/ abandoned' PROVE ProcessingIsOwned'
    BY <2>4 DEF ProcessingIsOwned
  <2>5. CASE ingest(c) \/ retry(c)
    BY <2>4, <2>5 DEF ingest, retry, createOrGetDocument, findFailedDocumentForRetry
  <2>6. CASE Claim(c)
    <3>1. CASE document = call[c].from /\ document' = "PROCESSING"
               /\ call' = [call EXCEPT ![c].step = "write", ![c].todo = Ordinals]
      BY <2>1, <2>4, <3>1 DEF Owns, Owning, CallStates
    <3>2. CASE abandoned'
      BY <2>4, <3>2
    <3>3. CASE document' = document /\ abandoned' = abandoned
      <4>1. ~Owns(c)
        BY <2>6 DEF Claim, At, Owns, Owning
      <4> QED BY <2>3, <3>3, <4>1
    <3>4. \/ /\ document = call[c].from /\ document' = "PROCESSING"
             /\ call' = [call EXCEPT ![c].step = "write", ![c].todo = Ordinals]
          \/ abandoned'
          \/ document' = document /\ abandoned' = abandoned
      BY <2>6 DEF Claim, transitionDocumentStatus
    <3> QED BY <3>1, <3>2, <3>3, <3>4
  <2>7. CASE \E o \in Ordinals : addChunk(c, o)
    <3>1. PICK o \in Ordinals : addChunk(c, o)
      BY <2>7
    <3>2. Remaining(c, o) \in CallStates /\ Remaining(c, o).step = call[c].step
      BY <2>1 DEF Remaining, CallStates
    <3>3. Owns(c) => Written(c, o) = Remaining(c, o)
      BY DEF Written, At, Owns, Owning
    <3>4. Owns(c) => Owns(c)'
      <4>1. CASE call' = [call EXCEPT ![c] = Written(c, o)]
        BY <2>1, <3>2, <3>3, <4>1 DEF Owns
      <4>2. CASE call' = [call EXCEPT ![c] = [Remaining(c, o) EXCEPT !.step = "fail"]]
        BY <2>1, <3>2, <4>2 DEF Owns, Owning, CallStates
      <4> QED BY <3>1, <4>1, <4>2 DEF addChunk
    <3> QED BY <2>3, <3>1, <3>4 DEF addChunk
  <2>8. CASE AllWritten(c)
    <3>1. Owns(c)'
      BY <2>1, <2>8 DEF AllWritten, Goto, Owns, Owning, CallStates
    <3> QED BY <2>4, <3>1
  <2>9. CASE Ready(c)
    <3>1. document' # "PROCESSING" \/ Goto(c, "fail")
      BY <2>9 DEF Ready, transitionDocumentStatus
    <3>2. Goto(c, "fail") => Owns(c)'
      BY <2>1 DEF Goto, Owns, Owning, CallStates
    <3> QED BY <2>4, <3>1, <3>2
  <2>10. CASE Fail(c)
    BY <2>4, <2>10 DEF Fail, transitionDocumentStatus
  <2>11. CASE Die(c)
    <3>1. document' = document /\ (abandoned' <=> abandoned \/ Owns(c))
      BY <2>11 DEF Die, Owns
    <3>2. CASE Owns(c)
      BY <2>4, <3>1, <3>2
    <3>3. CASE ~Owns(c)
      BY <2>3, <3>1, <3>3
    <3> QED BY <3>2, <3>3
  <2> QED BY <1>2, <2>5, <2>6, <2>7, <2>8, <2>9, <2>10, <2>11 DEF Work
<1>3. Indexing => UNCHANGED <<document, call, abandoned>>
  BY DEF Indexing, findDocumentChunks, setChunkEmbedding
<1> QED BY <1>1, <1>2, <1>3 DEF Next, Indexing, vars

\* A document stays PROCESSING only while a call is at work on it, however many late
\* writers and failed retries there are, unless a call was cut off.
THEOREM ProcessingIsOwnedAlways == Spec => []ProcessingIsOwned
<1>1. Spec => []TypeInv
  BY TypeInit, NextType, PTL DEF Spec
<1>2. TypeInv /\ OneProcessor /\ OwnedIsTaken /\ ProcessingIsOwned /\ [Next]_vars
        => OneProcessor' /\ OwnedIsTaken' /\ ProcessingIsOwned'
  BY NextOwner, NextOwned
<1>3. Init => ProcessingIsOwned
  BY DEF Init, ProcessingIsOwned
<1> QED BY <1>1, <1>2, <1>3, InitOwner, PTL DEF Spec

-----------------------------------------------------------------------------
(* What the search finds.                                                  *)

\* A call that has seen no failure has written what it no longer waits for.
WrittenExist ==
  \A c \in Calls :
    /\ call[c].step = "write" => Ordinals \subseteq chunks \cup call[c].todo
    /\ call[c].step = "ready" => Ordinals \subseteq chunks

\* A writer that fails ends the call that waits for it, and leaves one that does not.
LEMMA AddChunkMoves ==
  ASSUME TypeOK, NEW c \in Calls, NEW o \in Ordinals, addChunk(c, o)
  PROVE  \/ call'[c].step \in {"idle", "fail"}
         \/ /\ call'[c].step = call[c].step /\ call'[c].todo = call[c].todo \ {o}
            /\ upsertChunk(o) \/ call[c].step # "write"
<1>1. call[c] \in CallStates /\ Remaining(c, o) \in CallStates /\ call \in [Calls -> CallStates]
  BY CallType DEF TypeOK, CallStates
<1>2. Remaining(c, o).step = call[c].step /\ Remaining(c, o).todo = call[c].todo \ {o}
  BY <1>1 DEF Remaining, CallStates
<1>3. [Remaining(c, o) EXCEPT !.step = "fail"].step = "fail"
  BY <1>1 DEF CallStates
<1>4. Written(c, o) = Remaining(c, o) \/ Written(c, o).step = "idle"
  BY DEF Written, Idle
<1>5. \/ upsertChunk(o) /\ call'[c] = Written(c, o)
      \/ call'[c] = [Remaining(c, o) EXCEPT !.step = "fail"]
      \/ call[c].step # "write" /\ call'[c] = Written(c, o)
  BY <1>1 DEF addChunk, At
<1> QED BY <1>2, <1>3, <1>4, <1>5

\* The steps a call can be left in by its other moves.
LEMMA OtherMoves ==
  ASSUME TypeOK, NEW c \in Calls
  PROVE  /\ ingest(c) \/ retry(c) => call'[c].step = "claim"
         /\ Claim(c) => \/ call'[c].step \in {"idle", "late"}
                        \/ call'[c].step = "write" /\ call'[c].todo = Ordinals
         /\ AllWritten(c) => call'[c].step = "ready"
         /\ Ready(c) \/ Fail(c) \/ Die(c) => call'[c].step \in {"idle", "late", "fail"}
<1>1. call[c] \in CallStates /\ call \in [Calls -> CallStates]
  BY DEF TypeOK, CallStates
<1>2. Ended(c).step \in {"idle", "late"} /\ Idle.step = "idle"
  BY <1>1 DEF Ended, Idle, CallStates
<1>3. \A step : [call[c] EXCEPT !.step = step].step = step
  BY <1>1 DEF CallStates
<1>4. \A step : Goto(c, step) => call'[c].step = step
  BY <1>1, <1>3 DEF Goto
<1>5. Finish(c) => call'[c].step \in {"idle", "late"}
  BY <1>1, <1>2 DEF Finish
<1>6. ASSUME ingest(c) \/ retry(c) PROVE call'[c].step = "claim"
  <2>1. \A from : [Idle EXCEPT !.step = "claim", !.from = from].step = "claim"
    BY DEF Idle
  <2> QED BY <1>1, <1>6, <2>1 DEF ingest, retry
<1>7. ASSUME Claim(c)
      PROVE  \/ call'[c].step \in {"idle", "late"}
             \/ call'[c].step = "write" /\ call'[c].todo = Ordinals
  <2>1. LET s == [call[c] EXCEPT !.step = "write", !.todo = Ordinals]
        IN  s.step = "write" /\ s.todo = Ordinals
    BY <1>1 DEF CallStates
  <2>2. \/ Finish(c)
        \/ call' = [call EXCEPT ![c] = Idle]
        \/ call' = [call EXCEPT ![c] = [call[c] EXCEPT !.step = "write", !.todo = Ordinals]]
    BY <1>7 DEF Claim
  <2> QED BY <1>1, <1>2, <1>5, <2>1, <2>2
<1>8. Die(c) => call'[c].step = "idle"
  BY <1>1, <1>2 DEF Die
<1> QED BY <1>4, <1>5, <1>6, <1>7, <1>8 DEF AllWritten, Ready, Fail

LEMMA ChunksGrow ==
  ASSUME [Next]_vars PROVE chunks \subseteq chunks' /\ embedded \subseteq embedded'
<1>1. Calling => chunks \subseteq chunks' /\ embedded \subseteq embedded'
  BY DEF Calling, ingest, retry, Work, Die, Claim, addChunk, AllWritten, Ready, Fail, upsertChunk
<1>2. Indexing => chunks \subseteq chunks' /\ embedded \subseteq embedded'
  BY DEF Indexing, findDocumentChunks, setChunkEmbedding
<1> QED BY <1>1, <1>2 DEF Next, Calling, Indexing, vars

LEMMA NextWritten ==
  ASSUME TypeInv, WrittenExist, [Next]_vars PROVE WrittenExist'
<1>1. chunks \subseteq chunks'
  BY ChunksGrow
<1>2. ASSUME NEW d \in Calls, call'[d] = call[d]
      PROVE  /\ call'[d].step = "write" => Ordinals \subseteq chunks' \cup call'[d].todo
             /\ call'[d].step = "ready" => Ordinals \subseteq chunks'
  BY <1>1, <1>2 DEF WrittenExist
<1>3. ASSUME NEW c \in Calls, ingest(c) \/ retry(c) \/ Work(c) \/ Die(c)
      PROVE  WrittenExist'
  <2>1. call \in [Calls -> CallStates] /\ call[c] \in CallStates
    BY DEF TypeInv, TypeOK, CallStates
  <2>2. \A d \in Calls \ {c} : call'[d] = call[d]
    BY <1>3, <2>1 DEF ingest, retry, Work, Die, Claim, addChunk, AllWritten, Ready, Fail, Goto, Finish
  <2>3. call'[c].step = "write" => Ordinals \subseteq chunks' \cup call'[c].todo
    <3>1. ASSUME NEW o \in Ordinals, addChunk(c, o), call'[c].step = "write"
          PROVE  Ordinals \subseteq chunks' \cup call'[c].todo
      <4>1. call[c].step = "write" /\ call'[c].todo = call[c].todo \ {o} /\ upsertChunk(o)
        BY <3>1, AddChunkMoves DEF TypeInv
      <4> QED BY <4>1 DEF WrittenExist, upsertChunk
    <3> QED BY <1>3, <3>1, OtherMoves DEF Work, TypeInv
  <2>4. call'[c].step = "ready" => Ordinals \subseteq chunks'
    <3>1. CASE AllWritten(c)
      BY <1>1, <3>1 DEF AllWritten, At, WrittenExist
    <3>2. ASSUME NEW o \in Ordinals, addChunk(c, o), call'[c].step = "ready"
          PROVE  Ordinals \subseteq chunks'
      <4>1. call[c].step = "ready"
        BY <3>2, AddChunkMoves DEF TypeInv
      <4> QED BY <1>1, <4>1 DEF WrittenExist
    <3> QED BY <1>3, <3>1, <3>2, OtherMoves DEF Work, TypeInv
  <2> QED BY <1>2, <2>2, <2>3, <2>4 DEF WrittenExist
<1>4. ASSUME UNCHANGED call PROVE WrittenExist'
  BY <1>2, <1>4 DEF WrittenExist
<1>5. Indexing => UNCHANGED call
  BY IndexingType
<1> QED BY <1>3, <1>4, <1>5 DEF Next, Indexing, vars

\* A document becomes READY when a call has written every chunk, and stays READY.
LEMMA ReadySteps ==
  ASSUME TypeInv, WrittenExist, [Next]_vars
  PROVE  /\ document = "READY" => document' = "READY"
         /\ document' = "READY" => document = "READY" \/ Ordinals \subseteq chunks
<1>1. ASSUME NEW c \in Calls, ingest(c) \/ retry(c) \/ Work(c) \/ Die(c)
      PROVE  /\ document = "READY" => document' = "READY"
             /\ document' = "READY" => document = "READY" \/ Ordinals \subseteq chunks
  <2>1. CASE Ready(c)
    BY <2>1 DEF Ready, At, transitionDocumentStatus, WrittenExist
  <2>2. CASE Claim(c)
    <3>1. call[c].from # "READY"
      BY DEF TypeInv, TypeOK
    <3> QED BY <2>2, <3>1 DEF Claim, transitionDocumentStatus
  <2>3. CASE ingest(c) \/ retry(c) \/ (\E o \in Ordinals : addChunk(c, o)) \/ AllWritten(c) \/ Fail(c) \/ Die(c)
    BY <2>3 DEF ingest, createOrGetDocument, retry, addChunk, AllWritten, Fail, Die, transitionDocumentStatus
  <2> QED BY <1>1, <2>1, <2>2, <2>3 DEF Work
<1>2. Indexing => UNCHANGED document
  BY IndexingType
<1> QED BY <1>1, <1>2 DEF Next, Indexing, vars

LEMMA WrittenAlways == Spec => [](TypeInv /\ WrittenExist)
<1>1. Init => WrittenExist
  <2>1. Idle.step = "idle"
    BY DEF Idle
  <2> QED BY <2>1 DEF Init, WrittenExist
<1>2. TypeInv /\ WrittenExist /\ [Next]_vars => WrittenExist'
  BY NextWritten
<1> QED BY <1>1, <1>2, TypeInit, NextType, PTL DEF Spec

\* A READY document has every chunk of its text, for any text, calls and faults.
THEOREM ReadyIsCompleteAlways == Spec => []ReadyIsComplete
<1>1. Init => ReadyIsComplete
  BY DEF Init, ReadyIsComplete
<1>2. TypeInv /\ TypeInv' /\ WrittenExist /\ ReadyIsComplete /\ [Next]_vars => ReadyIsComplete'
  BY ReadySteps, ChunksGrow DEF TypeInv, TypeOK, ReadyIsComplete
<1> QED BY <1>1, <1>2, WrittenAlways, PTL DEF Spec

\* What the search and the prompts have once found stays found, whichever calls come late.
THEOREM SearchNeverForgetsEver == Spec => SearchNeverForgets
<1>1. TypeInv /\ WrittenExist /\ [Next]_vars =>
        [hybridSearch \subseteq hybridSearch' /\ findChunks \subseteq findChunks']_vars
  BY ReadySteps, ChunksGrow DEF hybridSearch, findChunks
<1>2. SearchNeverForgets <=>
        [][hybridSearch \subseteq hybridSearch' /\ findChunks \subseteq findChunks']_vars
  BY DEF SearchNeverForgets
<1> QED BY <1>1, <1>2, WrittenAlways, PTL DEF Spec
=============================================================================
