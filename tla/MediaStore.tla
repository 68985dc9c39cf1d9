------------------------------- MODULE MediaStore -------------------------------
(***************************************************************************)
(* Files of a brand: a row in the database and an object in the storage,   *)
(* written in separate steps by several calls of store() at once, and what *)
(* a video production makes of READY rows: its output, the transcript of   *)
(* it and caption tracks.                                                  *)
(*                                                                         *)
(* A row belongs to the bytes of a file, its checksum; the object's key    *)
(* also has the extension of the name the file was uploaded under, and     *)
(* caption files have a place of their own.  Sizes, types and the text of  *)
(* captions are left out.                                                  *)
(***************************************************************************)
EXTENDS Naturals

CONSTANTS
  Assets,     \* checksums of one brand, a row each
  Known,      \* those whose bytes are a supported kind of media
  Extensions, \* extensions a file is stored under
  Captions,   \* those of caption files, .srt and .ass
  Uploads,    \* slots for calls of store()
  NoAsset, NoExtension,
  MaxFaults   \* bound on failed statements, failed storage requests and deaths

VARIABLES
  asset,      \* MediaAsset of a checksum: its status, the extension in its storageKey
  objects,    \* keys with an object in the storage
  upload,     \* calls at work: the next step, what they store and as what
  leftovers,  \* keys whose clean-up failed or was never reached (history)
  composing,  \* is the video production COMPOSING?
  output,     \* its outputAsset
  hearing,    \* the asset a transcription has asked the provider about
  transcripts,\* assets with a Transcript
  tracks,     \* assets in a CaptionTrack
  faults

files == <<asset, objects, upload, leftovers>>
production == <<composing, output, hearing, transcripts, tracks>>
vars == <<files, production, faults>>

NoRow == [status |-> "NONE", extension |-> NoExtension]
Idle == [step |-> "idle", asset |-> NoAsset, extension |-> NoExtension]
Key == Assets \X Extensions

TypeOK ==
  /\ asset \in [Assets -> {NoRow} \cup [status : {"PENDING", "READY", "FAILED"},
                                        extension : Extensions]]
  /\ objects \subseteq Key /\ leftovers \subseteq Key
  /\ upload \in [Uploads -> {Idle} \cup [step : {"look", "put", "ready", "undo", "fail"},
                                         asset : Assets, extension : Extensions]]
  /\ composing \in BOOLEAN
  /\ output \in Assets \cup {NoAsset} /\ hearing \in Assets \cup {NoAsset}
  /\ transcripts \subseteq Assets /\ tracks \subseteq Assets
  /\ faults \in Nat

Init ==
  /\ asset = [a \in Assets |-> NoRow] /\ objects = {} /\ leftovers = {}
  /\ upload = [u \in Uploads |-> Idle]
  /\ composing = TRUE /\ output = NoAsset /\ hearing = NoAsset
  /\ transcripts = {} /\ tracks = {}
  /\ faults = 0

READY(a) == asset[a].status = "READY"
Fault == faults < MaxFaults /\ faults' = faults + 1
At(u, step) == upload[u].step = step
Goto(u, step) == upload' = [upload EXCEPT ![u].step = step]
Finish(u) == upload' = [upload EXCEPT ![u] = Idle]
Place(u) == <<upload[u].asset, upload[u].extension>>

-----------------------------------------------------------------------------
(* store(), of an upload or of a serialized caption file.                  *)

\* The row is inserted PENDING, or the insert meets the one that exists, whatever its
\* extension.  A READY one is returned; any other is worked on again.
createOrGetPendingAsset(u, a, e) ==
  /\ upload[u] = Idle /\ ~READY(a)
  /\ asset' = IF asset[a] = NoRow
                THEN [asset EXCEPT ![a] = [status |-> "PENDING", extension |-> e]] ELSE asset
  /\ upload' = [upload EXCEPT ![u] = [step |-> "look", asset |-> a, extension |-> e]]
  /\ UNCHANGED <<objects, leftovers, production, faults>>

inspectMediaBytes(a) == a \in Known

\* Captions are stored in the same steps, but nobody looks into their bytes.
Accepted(u) == inspectMediaBytes(upload[u].asset) \/ upload[u].extension \in Captions

\* Unknown bytes are refused; then the storage is asked for the key.
Look(u) ==
  /\ At(u, "look")
  /\ \/ ~Accepted(u) /\ Goto(u, "undo") /\ UNCHANGED faults
     \/ /\ Accepted(u) /\ UNCHANGED faults
        /\ Goto(u, IF Place(u) \in objects THEN "ready" ELSE "put")
     \/ Fault /\ Goto(u, "undo")
  /\ UNCHANGED <<asset, objects, leftovers, production>>

\* S3 writes over an object, the local and the mock driver refuse to.
Put(u) ==
  /\ At(u, "put")
  /\ \/ objects' = objects \cup {Place(u)} /\ Goto(u, "ready") /\ UNCHANGED faults
     \/ Place(u) \in objects /\ Goto(u, "undo") /\ UNCHANGED <<objects, faults>>
     \/ Fault /\ Goto(u, "undo") /\ objects' \in {objects, objects \cup {Place(u)}}
  /\ UNCHANGED <<asset, leftovers, production>>

\* A slip: the status is written whatever it was.
updateAssetStatusBlind(a, from, to) ==
  asset' = [asset EXCEPT ![a].status = to]

updateAssetStatus(a, from, to) ==
  asset' = IF asset[a].status = from THEN [asset EXCEPT ![a].status = to] ELSE asset

\* The row becomes READY if it is still PENDING, and is read again; a rejected update is
\* an error, and so is a statement that fails, before or after its effect.
Ready(u) ==
  /\ At(u, "ready")
  /\ \/ /\ updateAssetStatus(upload[u].asset, "PENDING", "READY") /\ UNCHANGED faults
        /\ IF asset[upload[u].asset].status = "PENDING" THEN Finish(u) ELSE Goto(u, "undo")
     \/ /\ Fault /\ Goto(u, "undo")
        /\ UNCHANGED asset \/ updateAssetStatus(upload[u].asset, "PENDING", "READY")
  /\ UNCHANGED <<objects, leftovers, production>>

\* A slip: only the row is marked.
UndoNothing(u) ==
  /\ At(u, "undo") /\ Goto(u, "fail")
  /\ UNCHANGED <<asset, objects, leftovers, production, faults>>

\* The object is deleted whoever wrote it; a failure to is ignored.
Undo(u) ==
  /\ At(u, "undo") /\ Goto(u, "fail")
  /\ \/ objects' = objects \ {Place(u)} /\ UNCHANGED <<leftovers, faults>>
     \/ Fault /\ leftovers' = leftovers \cup {Place(u)} /\ UNCHANGED objects
  /\ UNCHANGED <<asset, production>>

Fail(u) ==
  /\ At(u, "fail") /\ Finish(u)
  /\ \/ updateAssetStatus(upload[u].asset, "PENDING", "FAILED") /\ UNCHANGED faults
     \/ Fault /\ UNCHANGED asset
  /\ UNCHANGED <<objects, leftovers, production>>

\* The process that serves the call dies.
Die(u) ==
  /\ upload[u] # Idle /\ Fault /\ Finish(u)
  /\ leftovers' = leftovers \cup {Place(u)}
  /\ UNCHANGED <<asset, objects, production>>

-----------------------------------------------------------------------------
(* What a production makes of READY rows.                                  *)

\* The production leaves COMPOSING, or comes back to it; VideoProduction has the moves.
MoveProduction ==
  /\ composing' = ~composing
  /\ UNCHANGED <<files, output, hearing, transcripts, tracks, faults>>

\* READY is looked for in one statement and COMPOSING in the next: no row leaves READY.
setOutputAsset(a) ==
  /\ READY(a) /\ composing /\ output' = a
  /\ UNCHANGED <<files, composing, hearing, transcripts, tracks, faults>>

\* The provider hears the output the production had when the call began.
Transcribe ==
  /\ hearing = NoAsset
  /\ composing /\ output # NoAsset /\ READY(output)
  /\ hearing' = output
  /\ UNCHANGED <<files, composing, output, transcripts, tracks, faults>>

\* The transcript is stored whatever the output is by now, or the provider has failed.
\* The captions service, which only tests call, stores one of any row.
createTranscript ==
  /\ hearing # NoAsset /\ hearing' = NoAsset
  /\ transcripts' \in {transcripts, transcripts \cup {hearing}}
  /\ UNCHANGED <<files, composing, output, tracks, faults>>

\* The rows of its files, those serialize() has stored or those a caller names, are counted
\* READY before the track is created.
createCaptionTrack(captions) ==
  /\ transcripts # {} /\ \A a \in captions : READY(a)
  /\ tracks' = tracks \cup captions
  /\ UNCHANGED <<files, composing, output, hearing, transcripts, faults>>

-----------------------------------------------------------------------------
Step(u) ==
  \/ \E a \in Assets, e \in Extensions : createOrGetPendingAsset(u, a, e)
  \/ Look(u) \/ Put(u) \/ Ready(u) \/ Undo(u) \/ Fail(u) \/ Die(u)

Next ==
  \/ \E u \in Uploads : Step(u)
  \/ MoveProduction \/ Transcribe \/ createTranscript
  \/ \E a \in Assets : setOutputAsset(a)
  \/ \E captions \in SUBSET Assets : createCaptionTrack(captions)

Spec == Init /\ [][Next]_vars

-----------------------------------------------------------------------------
\* A FAILED row that no call is at work on has no object in the storage, but for those a
\* clean-up could not delete or never reached (media.ts:152-157): whoever puts an object
\* late finds its update rejected and takes it away again.
FailedLeavesNothing ==
  \A a \in Assets :
    (asset[a].status = "FAILED" /\ \A u \in Uploads : upload[u].asset # a)
      => \A e \in Extensions : <<a, e>> \in objects => <<a, e>> \in leftovers

\* The output, the transcripts and the caption tracks of a production are of READY rows,
\* and stay so whichever call of store() fails later (captions.ts:68-78, media.ts:355-384).
DerivedFromReady ==
  \A a \in transcripts \cup tracks \cup ({output, hearing} \ {NoAsset}) : READY(a)
=============================================================================
