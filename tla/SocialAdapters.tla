----------------------------- MODULE SocialAdapters -----------------------------
(***************************************************************************)
(* The clients of the two networks a publication is posted to, and what a  *)
(* request that is cut off leaves behind: publish() and getStatus() of     *)
(* VkPublishingRuntimeClient and InstagramPublishingRuntimeClient.         *)
(*                                                                         *)
(* VK takes one request that carries the idempotency key.  Instagram takes *)
(* two, a container and its publication, and no key.  Texts, permalinks    *)
(* and the wording of errors are left out: every error is a throw.         *)
(***************************************************************************)
EXTENDS Naturals, Sequences

CONSTANTS
  Calls,   \* slots for calls of either client
  Keys,    \* idempotency keys of publications
  MaxPosts \* bound on the posts ever made

VARIABLES
  call,    \* calls at work, and the answer of one that has ended
  made,    \* the posts ever made, where and for which key; the id is the place
  present  \* ids of those not deleted since

vars == <<call, made, present>>

Platforms == {"VK", "INSTAGRAM"}
Post == DOMAIN made
NoJob == 0
NoCall == [step |-> "idle", platform |-> "VK", key |-> NoJob, job |-> NoJob]

\* An idle call keeps what the last one was about; "published" and "not found" are answers.
Steps == {"idle", "threw", "unknown", "container", "post", "published",
          "ask", "exists", "not found"}
Working == {"container", "post", "ask"}

TypeOK ==
  /\ call \in [Calls -> [step : Steps, platform : Platforms, key : Keys \cup {NoJob},
                         job : 0..MaxPosts]]
  /\ made \in Seq([platform : Platforms, key : Keys]) /\ Len(made) <= MaxPosts
  /\ present \subseteq Post

Init ==
  /\ call = [c \in Calls |-> NoCall]
  /\ made = <<>> /\ present = {}

At(c, step) == call[c].step = step
Goto(c, step) == call' = [call EXCEPT ![c].step = step]
Answer(c, step, job) == call' = [call EXCEPT ![c].step = step, ![c].job = job]

-----------------------------------------------------------------------------
(* publish().                                                              *)

\* A missing token, an empty text, an account id that is no number, media VK cannot take
\* or anything but one public image for Instagram is refused before the first request.
PublishVk(c, k) ==
  /\ call[c].step \notin Working
  /\ \E proper \in BOOLEAN :
       call' = [call EXCEPT ![c] = [step |-> IF proper THEN "post" ELSE "threw",
                                    platform |-> "VK", key |-> k, job |-> NoJob]]
  /\ UNCHANGED <<made, present>>

PublishInstagram(c, k) ==
  /\ call[c].step \notin Working
  /\ \E proper \in BOOLEAN :
       call' = [call EXCEPT ![c] = [step |-> IF proper THEN "container" ELSE "threw",
                                    platform |-> "INSTAGRAM", key |-> k, job |-> NoJob]]
  /\ UNCHANGED <<made, present>>

\* A container is no post; its id comes back or the request ends in a throw.
Container(c) ==
  /\ At(c, "container")
  /\ Goto(c, "post") \/ Goto(c, "threw")
  /\ UNCHANGED <<made, present>>

New(p) == p = Len(made) + 1
Told(c) == [platform |-> call[c].platform, key |-> call[c].key]

\* What the network does with a request: VK returns the post it made for the key before.
Creates(c, p) ==
  LET earlier == {q \in Post : made[q] = Told(c) /\ made[q].platform = "VK"} IN
  \/ p \in earlier /\ UNCHANGED <<made, present>>
  \/ earlier = {} /\ New(p) /\ made' = Append(made, Told(c)) /\ present' = present \cup {p}

\* A slip: a request that timed out is answered with the post seen last.
RequestHopeful(c) ==
  /\ At(c, "post")
  /\ \/ \E p \in Post \cup {NoJob} : Answer(c, "published", p) /\ UNCHANGED <<made, present>>
     \/ \E p \in 1..MaxPosts : Creates(c, p) /\ Answer(c, "published", p)

\* The request is answered with the post's id; or it is aborted after its time, answered
\* with an error, or with a result without an id, before or after the network has acted.
Request(c) ==
  /\ At(c, "post")
  /\ \/ Goto(c, "threw") /\ UNCHANGED <<made, present>>
     \/ \E p \in 1..MaxPosts :
          /\ Creates(c, p)
          /\ Answer(c, "published", p) \/ Goto(c, "threw")

-----------------------------------------------------------------------------
(* getStatus().                                                            *)

\* Another operation, no job id or one that cannot be read needs no request.
GetStatus(c, platform, p) ==
  /\ call[c].step \notin Working
  /\ p = NoJob \/ (p \in Post /\ made[p].platform = platform)
  /\ call' = [call EXCEPT ![c] = [step |-> IF p = NoJob THEN "unknown" ELSE "ask",
                                  platform |-> platform, key |-> NoJob, job |-> p]]
  /\ UNCHANGED <<made, present>>

\* PUBLISHED when the network shows a post with that id, NOT_FOUND when it shows another
\* or none.
Shown(c) == IF call[c].job \in present THEN "exists" ELSE "not found"

\* The network is asked; an error, and an answer that does not come in time, are throws.
Lookup(c) ==
  /\ At(c, "ask")
  /\ Goto(c, "threw") \/ Goto(c, Shown(c))
  /\ UNCHANGED <<made, present>>

\* Its author deletes a post.
Delete(p) ==
  /\ p \in present /\ present' = present \ {p}
  /\ UNCHANGED <<call, made>>

-----------------------------------------------------------------------------
Next ==
  \/ \E c \in Calls :
       \/ \E k \in Keys : PublishVk(c, k) \/ PublishInstagram(c, k)
       \/ Container(c) \/ Request(c) \/ Lookup(c)
       \/ \E platform \in Platforms, p \in {NoJob} \cup Post : GetStatus(c, platform, p)
  \/ \E p \in Post : Delete(p)

Spec == Init /\ [][Next]_vars

-----------------------------------------------------------------------------
\* PUBLISHED names a post that was made for this key on this platform, whatever other
\* calls were cut off before, and NOT_FOUND is said of a post that is gone and never of one
\* that could not be asked about: the investigation queues a publication again on it
\* (publishing.ts:192-236, 377-436).
AnswersAreTrue ==
  \A c \in Calls :
    /\ At(c, "published") =>
         /\ call[c].job \in Post
         /\ made[call[c].job] = [platform |-> call[c].platform, key |-> call[c].key]
    /\ At(c, "not found") => call[c].job \notin present
=============================================================================
