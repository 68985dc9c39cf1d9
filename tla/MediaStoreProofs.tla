---------------------------- MODULE MediaStoreProofs ----------------------------
(***************************************************************************)
(* However many files are uploaded by however many calls at once, and      *)
(* whatever fails: a FAILED row leaves no object behind, and what a        *)
(* production is made of stays READY.                                      *)
(***************************************************************************)
EXTENDS MediaStore, TLAPS

Rows == {NoRow} \cup [status : {"PENDING", "READY", "FAILED"}, extension : Extensions]
Steps == {"look", "put", "ready", "undo", "fail"}
Work == [step : Steps, asset : Assets, extension : Extensions]

Producing ==
  \/ MoveProduction \/ Transcribe \/ createTranscript
  \/ \E a \in Assets : setOutputAsset(a)
  \/ \E captions \in SUBSET Assets : createCaptionTrack(captions)

-----------------------------------------------------------------------------
(* Type correctness, and that a READY row is READY for ever.               *)

\* A change of status keeps the rows what they are, and no row that is READY loses it.
LEMMA UpdateKeepsReady ==
  ASSUME TypeOK, NEW a \in Assets, NEW to \in {"READY", "FAILED"},
         updateAssetStatus(a, "PENDING", to)
  PROVE  asset' \in [Assets -> Rows] /\ \A b \in Assets : READY(b) => READY(b)'
<1>1. asset \in [Assets -> Rows]
  BY DEF TypeOK, Rows
<1>2. asset[a].status = "PENDING" => [asset[a] EXCEPT !.status = to] \in Rows
  BY <1>1 DEF Rows, NoRow
<1>3. CASE asset[a].status = "PENDING"
  <2>1. asset' = [asset EXCEPT ![a] = [asset[a] EXCEPT !.status = to]]
    BY <1>3 DEF updateAssetStatus
  <2>2. \A b \in Assets : READY(b) => b # a
    BY <1>3 DEF READY
  <2> QED BY <1>1, <1>2, <1>3, <2>1, <2>2 DEF READY
<1>4. CASE asset[a].status # "PENDING"
  BY <1>1, <1>4 DEF updateAssetStatus, READY
<1> QED BY <1>3, <1>4

\* A call that is past its beginning works on a file, and keeps its type in every move.
LEMMA UploadType ==
  ASSUME TypeOK, NEW u \in Uploads, upload[u].step # "idle"
  PROVE  /\ upload[u] \in Work /\ Place(u) \in Key
         /\ Finish(u) => upload' \in [Uploads -> {Idle} \cup Work]
         /\ \A step \in Steps : Goto(u, step) => upload' \in [Uploads -> {Idle} \cup Work]
<1>1. upload \in [Uploads -> {Idle} \cup Work]
  BY DEF TypeOK, Work, Steps
<1>2. upload[u] \in Work
  BY <1>1 DEF Idle
<1>3. Place(u) \in Key
  BY <1>2 DEF Place, Key, Work
<1>4. Finish(u) => upload' \in [Uploads -> {Idle} \cup Work]
  BY <1>1 DEF Finish
<1>5. ASSUME NEW step \in Steps, Goto(u, step) PROVE upload' \in [Uploads -> {Idle} \cup Work]
  <2>1. [upload[u] EXCEPT !.step = step] \in Work
    BY <1>2 DEF Work
  <2> QED BY <1>1, <1>5, <2>1 DEF Goto
<1> QED BY <1>2, <1>3, <1>4, <1>5

LEMMA StepType ==
  ASSUME TypeOK, NEW u \in Uploads, Step(u)
  PROVE  TypeOK' /\ \A b \in Assets : READY(b) => READY(b)'
<1>1. UNCHANGED production
  BY DEF Step, createOrGetPendingAsset, Look, Put, Ready, Undo, Fail, Die
<1>2. faults' \in Nat
  BY DEF Step, createOrGetPendingAsset, Look, Put, Ready, Undo, Fail, Die, Fault, TypeOK
<1>3. CASE \E a \in Assets, e \in Extensions : createOrGetPendingAsset(u, a, e)
  <2>1. PICK a \in Assets, e \in Extensions : createOrGetPendingAsset(u, a, e)
    BY <1>3
  <2>2. [status |-> "PENDING", extension |-> e] \in Rows
    BY DEF Rows
  <2>3. asset' \in [Assets -> Rows]
    BY <2>1, <2>2 DEF createOrGetPendingAsset, TypeOK, Rows
  <2>4. \A b \in Assets : READY(b) => READY(b)'
    BY <2>1 DEF createOrGetPendingAsset, TypeOK, READY, NoRow
  <2>5. [step |-> "look", asset |-> a, extension |-> e] \in Work
    BY DEF Work, Steps
  <2>6. upload' \in [Uploads -> {Idle} \cup Work]
    BY <2>1, <2>5 DEF createOrGetPendingAsset, TypeOK, Work, Steps
  <2>7. UNCHANGED <<objects, leftovers>>
    BY <2>1 DEF createOrGetPendingAsset
  <2> QED BY <1>1, <1>2, <2>3, <2>4, <2>6, <2>7 DEF TypeOK, Rows, Work, Steps, production
<1>4. CASE Look(u) \/ Put(u) \/ Ready(u) \/ Undo(u) \/ Fail(u) \/ Die(u)
  <2>1. upload[u].step # "idle"
    BY <1>4 DEF Look, Put, Ready, Undo, Fail, Die, At, Idle, TypeOK
  <2>2. upload[u].asset \in Assets /\ Place(u) \in Key
    BY <2>1, UploadType DEF Work
  <2>3. asset' \in [Assets -> Rows] /\ \A b \in Assets : READY(b) => READY(b)'
    <3>1. \/ UNCHANGED asset
          \/ \E to \in {"READY", "FAILED"} : updateAssetStatus(upload[u].asset, "PENDING", to)
      BY <1>4 DEF Look, Put, Ready, Undo, Fail, Die
    <3>2. UNCHANGED asset => asset' \in [Assets -> Rows] /\ \A b \in Assets : READY(b) => READY(b)'
      BY DEF TypeOK, Rows, READY
    <3> QED BY <2>2, <3>1, <3>2, UpdateKeepsReady
  <2>4. upload' \in [Uploads -> {Idle} \cup Work]
    <3>1. Finish(u) \/ \E step \in Steps : Goto(u, step)
      BY <1>4 DEF Look, Put, Ready, Undo, Fail, Die, Steps
    <3> QED BY <2>1, <3>1, UploadType
  <2>5. objects' \subseteq Key /\ leftovers' \subseteq Key
    BY <1>4, <2>2 DEF Look, Put, Ready, Undo, Fail, Die, TypeOK
  <2> QED BY <1>1, <1>2, <2>3, <2>4, <2>5 DEF TypeOK, Rows, Work, Steps, production
<1> QED BY <1>3, <1>4 DEF Step

LEMMA ProducingType ==
  ASSUME TypeOK, Producing
  PROVE  TypeOK' /\ UNCHANGED files /\ \A b \in Assets : READY(b) => READY(b)'
<1>1. UNCHANGED <<files, faults>>
  BY DEF Producing, MoveProduction, Transcribe, createTranscript, setOutputAsset, createCaptionTrack
<1>2. composing' \in BOOLEAN
  BY DEF Producing, MoveProduction, Transcribe, createTranscript, setOutputAsset,
         createCaptionTrack, TypeOK
<1>3. output' \in Assets \cup {NoAsset} /\ hearing' \in Assets \cup {NoAsset}
  BY DEF Producing, MoveProduction, Transcribe, createTranscript, setOutputAsset,
         createCaptionTrack, TypeOK
<1>4. transcripts' \subseteq Assets /\ tracks' \subseteq Assets
  BY DEF Producing, MoveProduction, Transcribe, createTranscript, setOutputAsset,
         createCaptionTrack, TypeOK
<1> QED BY <1>1, <1>2, <1>3, <1>4 DEF TypeOK, files, READY

LEMMA TypeInit == Init => TypeOK
BY DEF Init, TypeOK, Key

LEMMA NextType ==
  ASSUME TypeOK, [Next]_vars
  PROVE  TypeOK' /\ \A b \in Assets : READY(b) => READY(b)'
<1>1. CASE \E u \in Uploads : Step(u)
  BY <1>1, StepType
<1>2. CASE Producing
  BY <1>2, ProducingType
<1>3. CASE UNCHANGED vars
  BY <1>3 DEF vars, files, production, TypeOK, READY
<1> QED BY <1>1, <1>2, <1>3 DEF Next, Producing

\* Every variable keeps its type.
THEOREM TypeCorrect == Spec => []TypeOK
<1>1. TypeOK /\ [Next]_vars => TypeOK'
  BY NextType
<1> QED BY <1>1, TypeInit, PTL DEF Spec

-----------------------------------------------------------------------------
(* Objects.                                                                *)

\* Someone answers for an object that no clean-up has left: its row is READY, or a call
\* that stores it is about to make it so or to delete it.
Held(k) ==
  \/ READY(k[1])
  \/ \E u \in Uploads : Place(u) = k /\ upload[u].step \in {"ready", "undo"}

ObjectsAreHeld == \A k \in objects \ leftovers : Held(k)

\* A step of one call leaves what another call holds.
LEMMA HeldByOther ==
  ASSUME TypeOK, NEW u \in Uploads, Step(u), NEW k \in Key, Held(k),
         upload[u].step \in {"ready", "undo"} => Place(u) # k
  PROVE  Held(k)'
<1>1. READY(k[1]) => READY(k[1])'
  BY StepType DEF Key
<1>2. \A v \in Uploads \ {u} : upload'[v] = upload[v]
  BY DEF TypeOK, Step, createOrGetPendingAsset, Look, Put, Ready, Undo, Fail, Die, Goto, Finish
<1>3. ASSUME NEW v \in Uploads, Place(v) = k, upload[v].step \in {"ready", "undo"} PROVE Held(k)'
  <2>1. upload'[v] = upload[v]
    BY <1>2, <1>3
  <2> QED BY <1>3, <2>1 DEF Held, Place
<1> QED BY <1>1, <1>3 DEF Held

\* A call that goes on holds its own object.
LEMMA HeldByOwn ==
  ASSUME TypeOK, NEW u \in Uploads, upload[u].step # "idle",
         NEW step \in {"ready", "undo"}, Goto(u, step), NEW k, k = Place(u)
  PROVE  Held(k)'
<1>1. upload[u] \in Work /\ upload'[u] = [upload[u] EXCEPT !.step = step]
  BY UploadType DEF Goto, TypeOK
<1>2. Place(u)' = Place(u) /\ upload'[u].step = step
  BY <1>1 DEF Place, Work
<1> QED BY <1>2 DEF Held, Place

LEMMA StepHolds ==
  ASSUME TypeOK, ObjectsAreHeld, NEW u \in Uploads, Step(u)
  PROVE  ObjectsAreHeld'
<1>0. SUFFICES ASSUME NEW k \in objects' \ leftovers' PROVE Held(k)'
  BY DEF ObjectsAreHeld
<1>1. k \in Key
  BY StepType DEF TypeOK
<1>2. CASE k \in objects \ leftovers /\ (upload[u].step \in {"ready", "undo"} => Place(u) # k)
  BY <1>1, <1>2, HeldByOther DEF ObjectsAreHeld
<1>3. ASSUME upload[u].step \in {"ready", "undo"}, Place(u) = k PROVE Held(k)'
  <2>1. CASE Ready(u)
    <3>1. upload[u] \in Work /\ k[1] = upload[u].asset
      BY <1>3, UploadType DEF Place
    <3>2. CASE asset[upload[u].asset].status = "PENDING" /\ Finish(u)
      <4>1. updateAssetStatus(upload[u].asset, "PENDING", "READY")
        BY <2>1, <3>1, <3>2, UploadType DEF Ready, Finish, Goto, Idle, TypeOK, Work, Steps
      <4>2. READY(k[1])'
        BY <3>1, <3>2, <4>1 DEF updateAssetStatus, READY, TypeOK, Work
      <4> QED BY <4>2 DEF Held
    <3>3. CASE Goto(u, "undo")
      BY <1>3, <3>3, HeldByOwn
    <3> QED BY <2>1, <3>2, <3>3 DEF Ready
  <2>2. CASE Undo(u) \/ Die(u)
    BY <1>0, <1>3, <2>2 DEF Undo, Die
  <2> QED BY <1>3, <2>1, <2>2 DEF Step, createOrGetPendingAsset, Look, Put, Fail, At, Idle
<1>4. ASSUME k \notin objects \ leftovers PROVE Held(k)'
  <2>1. Put(u) /\ k = Place(u)
    BY <1>0, <1>4 DEF Step, createOrGetPendingAsset, Look, Put, Ready, Undo, Fail, Die
  <2>2. upload[u].step # "idle" /\ \E step \in {"ready", "undo"} : Goto(u, step)
    BY <2>1 DEF Put, At
  <2> QED BY <2>1, <2>2, HeldByOwn
<1> QED BY <1>2, <1>3, <1>4

LEMMA NextHolds ==
  ASSUME TypeOK, ObjectsAreHeld, [Next]_vars PROVE ObjectsAreHeld'
<1>1. CASE \E u \in Uploads : Step(u)
  BY <1>1, StepHolds
<1>2. ASSUME UNCHANGED files PROVE ObjectsAreHeld'
  BY <1>2 DEF files, ObjectsAreHeld, Held, READY, Place
<1>3. Producing => UNCHANGED files
  BY ProducingType
<1>4. UNCHANGED vars => UNCHANGED files
  BY DEF vars
<1> QED BY <1>1, <1>2, <1>3, <1>4 DEF Next, Producing

\* A FAILED row that no call is at work on has no object in the storage, but for those a
\* clean-up could not delete or never reached, for any number of rows, calls and faults.
THEOREM FailedLeavesNothingAlways == Spec => []FailedLeavesNothing
<1>1. Init => ObjectsAreHeld
  BY DEF Init, ObjectsAreHeld
<1>2. TypeOK /\ ObjectsAreHeld /\ [Next]_vars => ObjectsAreHeld'
  BY NextHolds
<1>3. ASSUME ObjectsAreHeld PROVE FailedLeavesNothing
  <2>1. SUFFICES ASSUME NEW a \in Assets, asset[a].status = "FAILED",
                        \A u \in Uploads : upload[u].asset # a,
                        NEW e \in Extensions, <<a, e>> \in objects, <<a, e>> \notin leftovers
                 PROVE  FALSE
    BY DEF FailedLeavesNothing
  <2>2. Held(<<a, e>>)
    BY <1>3, <2>1 DEF ObjectsAreHeld
  <2>3. ~READY(a) /\ \A u \in Uploads : Place(u) # <<a, e>>
    BY <2>1 DEF READY, Place
  <2> QED BY <2>2, <2>3 DEF Held
<1> QED BY <1>1, <1>2, <1>3, TypeCorrect, PTL DEF Spec

-----------------------------------------------------------------------------
(* Productions.                                                            *)

LEMMA NextDerives ==
  ASSUME TypeOK, DerivedFromReady, [Next]_vars PROVE DerivedFromReady'
<1>1. \A b \in Assets : READY(b) => READY(b)'
  BY NextType
<1>2. \A a \in transcripts \cup tracks \cup ({output, hearing} \ {NoAsset}) : READY(a)'
  BY <1>1 DEF DerivedFromReady, TypeOK
<1>3. ASSUME UNCHANGED production PROVE DerivedFromReady'
  BY <1>2, <1>3 DEF production, DerivedFromReady
<1>4. ASSUME Producing PROVE DerivedFromReady'
  <2>1. CASE MoveProduction \/ \E a \in Assets : setOutputAsset(a)
    BY <1>1, <1>2, <2>1 DEF MoveProduction, setOutputAsset, DerivedFromReady
  <2>2. CASE Transcribe \/ createTranscript
    BY <1>1, <1>2, <2>2 DEF Transcribe, createTranscript, DerivedFromReady, TypeOK
  <2>3. CASE \E captions \in SUBSET Assets : createCaptionTrack(captions)
    BY <1>1, <1>2, <2>3 DEF createCaptionTrack, DerivedFromReady
  <2> QED BY <1>4, <2>1, <2>2, <2>3 DEF Producing
<1>5. ASSUME NEW u \in Uploads, Step(u) PROVE UNCHANGED production
  BY <1>5 DEF Step, createOrGetPendingAsset, Look, Put, Ready, Undo, Fail, Die
<1> QED BY <1>3, <1>4, <1>5 DEF Next, Producing, vars

\* The output, the transcripts and the caption tracks of a production are of READY rows,
\* and stay so, for any number of files and calls.
THEOREM DerivedFromReadyAlways == Spec => []DerivedFromReady
<1>1. Init => DerivedFromReady
  BY DEF Init, DerivedFromReady
<1>2. TypeOK /\ DerivedFromReady /\ [Next]_vars => DerivedFromReady'
  BY NextDerives
<1> QED BY <1>1, <1>2, TypeCorrect, PTL DEF Spec
=============================================================================
