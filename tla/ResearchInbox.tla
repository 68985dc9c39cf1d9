------------------------------ MODULE ResearchInbox ------------------------------
(***************************************************************************)
(* The research inbox of one brand.  A submission is known by its kind,    *)
(* its URL and its content together; the item it leads to by its content   *)
(* alone, so submissions can share one.  Titles and summaries are left     *)
(* out; the page of a URL is what the provider answers.                    *)
(***************************************************************************)
CONSTANTS
  Calls,    \* slots for calls of ingest
  Urls, NoUrl,
  Contents, NoContent

VARIABLES
  inbox,   \* ResearchInboxItem.status of a submission, NONE before it is made
  sources, \* canonical URLs with a ResearchSource
  items,   \* contents with a ResearchItem, and whether it names a source
  call     \* calls at work: the next step, the submission and the status read

vars == <<inbox, sources, items, call>>

Submission == (Urls \cup {NoUrl}) \X Contents
Url(s) == s[1]
Content(s) == s[2]
ResearchInboxStatus == {"NEW", "PROCESSING", "READY", "FAILED"}
NoSubmission == <<NoUrl, NoContent>>
Working == {"source", "item", "ready", "fail"}
Idle == [step |-> "idle", submission |-> NoSubmission, from |-> "NONE"]

TypeOK ==
  /\ inbox \in [Submission -> ResearchInboxStatus \cup {"NONE"}]
  /\ sources \subseteq Urls
  /\ items \in [Contents -> {"NONE", "text", "url"}]
  /\ call \in [Calls -> {Idle} \cup [step : {"claim"} \cup Working,
                                     submission : Submission, from : {"NEW", "FAILED"}]]

Init ==
  /\ inbox = [s \in Submission |-> "NONE"]
  /\ sources = {} /\ items = [t \in Contents |-> "NONE"]
  /\ call = [c \in Calls |-> Idle]

At(c, step) == call[c].step = step
Goto(c, step) == call' = [call EXCEPT ![c].step = step]
Own(c) == call[c].submission
Finish(c) == call' = [call EXCEPT ![c] = Idle]

\* A status is changed only from the one expected.
transitionInboxStatus(s, from, to) ==
  inbox' = IF inbox[s] = from THEN [inbox EXCEPT ![s] = to] ELSE inbox

\* The submission is stored NEW or found.
createInboxItem(s) == inbox' = IF inbox[s] = "NONE" THEN [inbox EXCEPT ![s] = "NEW"] ELSE inbox

\* READY is answered with its item, which has to exist; PROCESSING is refused as in
\* progress.  A URL may turn out to be another page.
ingest(c, s) ==
  /\ call[c] = Idle /\ inbox[s] \in {"NONE", "NEW", "FAILED"} /\ createInboxItem(s)
  /\ call' = [call EXCEPT ![c] = [step |-> "claim", submission |-> s, from |-> inbox'[s]]]
  /\ UNCHANGED <<sources, items>>

Claim(c) ==
  /\ At(c, "claim") /\ transitionInboxStatus(Own(c), call[c].from, "PROCESSING")
  /\ IF inbox[Own(c)] = call[c].from THEN Goto(c, "source") ELSE Finish(c)
  /\ UNCHANGED <<sources, items>>

upsertSource(url) == sources' = sources \cup ({url} \ {NoUrl})

StoreSource(c) ==
  /\ At(c, "source")
  /\ \/ upsertSource(Url(Own(c))) /\ Goto(c, "item")
     \/ Goto(c, "fail") /\ UNCHANGED sources
  /\ UNCHANGED <<inbox, items>>

\* A slip: the submission is finished although the item was not stored.
StoreItemUnchecked(c) ==
  /\ At(c, "item") /\ Goto(c, "ready")
  /\ items' = items \/ items' = [items EXCEPT ![Content(Own(c))] = "text"]
  /\ UNCHANGED <<inbox, sources>>

\* An item of the same content stays as it is, with or without a source.
createItem(s) ==
  items' = IF items[Content(s)] # "NONE" THEN items
           ELSE [items EXCEPT ![Content(s)] = IF Url(s) = NoUrl THEN "text" ELSE "url"]

StoreItem(c) ==
  /\ At(c, "item")
  /\ \/ createItem(Own(c)) /\ Goto(c, "ready")
     \/ Goto(c, "fail") /\ UNCHANGED items
  /\ UNCHANGED <<inbox, sources>>

\* A rejected update, and a statement that fails before or after its effect, end in the
\* catch.
Ready(c) ==
  /\ At(c, "ready")
  /\ \/ /\ transitionInboxStatus(Own(c), "PROCESSING", "READY")
        /\ IF inbox[Own(c)] = "PROCESSING" THEN Finish(c) ELSE Goto(c, "fail")
     \/ /\ Goto(c, "fail")
        /\ UNCHANGED inbox \/ transitionInboxStatus(Own(c), "PROCESSING", "READY")
  /\ UNCHANGED <<sources, items>>

Fail(c) ==
  /\ At(c, "fail") /\ Finish(c)
  /\ UNCHANGED inbox \/ transitionInboxStatus(Own(c), "PROCESSING", "FAILED")
  /\ UNCHANGED <<sources, items>>

\* The process that serves the call dies.
Die(c) ==
  /\ call[c] # Idle /\ Finish(c)
  /\ UNCHANGED <<inbox, sources, items>>

Next ==
  \E c \in Calls :
    \/ \E s \in Submission : ingest(c, s)
    \/ Claim(c) \/ StoreSource(c) \/ StoreItem(c) \/ Ready(c) \/ Fail(c) \/ Die(c)

Spec == Init /\ [][Next]_vars

-----------------------------------------------------------------------------
\* A READY submission has the item of its content, though submissions that share it fail
\* and die, and one call at a time works on a submission (research.ts:60-72, 86).
ReadyHasItem ==
  /\ \A s \in Submission : inbox[s] = "READY" => items[Content(s)] # "NONE"
  /\ \A c, d \in Calls :
       ({call[c].step, call[d].step} \subseteq Working /\ Own(c) = Own(d)) => c = d
=============================================================================
