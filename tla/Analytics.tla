-------------------------------- MODULE Analytics --------------------------------
(***************************************************************************)
(* Snapshots of what a network reports of published posts, and the         *)
(* dashboard that adds them up: it reads the rows page by page while       *)
(* collections go on storing new ones, late ones among them.               *)
(*                                                                         *)
(* A row belongs to a publication and the time it was due at; rows of one  *)
(* time are ordered by their ids, here as their publications.  One metric  *)
(* stands for all, and of it only whether the network reports it.          *)
(* WorkflowRuns has when collections run.                                  *)
(***************************************************************************)
EXTENDS Integers, FiniteSets

CONSTANTS
  Calls,        \* slots for calls of collect
  Publications, \* PUBLISHED, numbered in the order of ids
  Instagram,    \* those on Instagram; the others are on VK
  Times,        \* when snapshots are due, in order
  PageSize

VARIABLES
  stored,   \* MetricSnapshot rows, of a time and a publication
  reported, \* those whose metric is not null
  call,     \* collections at work: the next step, the row they are about and the answer
  read,     \* the dashboard: rows read so far, the last of them, is it done?
  before    \* rows, and those with the metric, when it began to read (history)

rows == <<stored, reported>>
vars == <<rows, call, read, before>>

Row == Times \X Publications
NoCursor == <<-1, -1>>
Idle == [step |-> "idle", row |-> NoCursor, reported |-> FALSE]
NotReading == [step |-> "idle", from |-> 0, seen |-> {}, shown |-> {}, cursor |-> NoCursor]
NoRows == [stored |-> {}, reported |-> {}]

TypeOK ==
  /\ stored \subseteq Row /\ reported \subseteq stored
  /\ call \in [Calls -> {Idle} \cup
             [step : {"fetch", "insights", "upsert"}, row : Row, reported : BOOLEAN]]
  /\ read.step \in {"idle", "page", "done"} /\ read.seen \subseteq Row
  /\ read.shown \subseteq read.seen
  /\ before \in [stored : SUBSET Row, reported : SUBSET Row]

Init ==
  /\ stored = {} /\ reported = {}
  /\ call = [c \in Calls |-> Idle]
  /\ read = NotReading /\ before = NoRows

-----------------------------------------------------------------------------
(* collect().                                                              *)

\* Of a PUBLISHED publication, whose account has a credential.
Collect(c, r) ==
  /\ call[c] = Idle
  /\ call' = [call EXCEPT ![c] = [step |-> "fetch", row |-> r, reported |-> FALSE]]
  /\ UNCHANGED <<rows, read, before>>

Platforms == {"VK", "INSTAGRAM"}
On(platform) == IF platform = "INSTAGRAM" THEN Instagram ELSE Publications \ Instagram

\* The network does not answer in time, or with an error, another post or a value that is
\* no count: nothing is stored.
GiveUp(c) == call' = [call EXCEPT ![c] = Idle]

\* VK answers with the post and whatever metrics it shows of it.
fetchVk(c) ==
  /\ call[c].step = "fetch" /\ call[c].row[2] \in On("VK")
  /\ \/ \E any \in BOOLEAN : call' = [call EXCEPT ![c].step = "upsert", ![c].reported = any]
     \/ GiveUp(c)
  /\ UNCHANGED <<rows, read, before>>

\* Instagram is asked for the media and then for its insights; both must answer.
fetchInstagram(c) ==
  /\ \/ /\ call[c].step = "fetch" /\ call[c].row[2] \in On("INSTAGRAM")
        /\ \/ call' = [call EXCEPT ![c].step = "insights"]
           \/ GiveUp(c)
     \/ /\ call[c].step = "insights"
        /\ \/ \E any \in BOOLEAN : call' = [call EXCEPT ![c].step = "upsert", ![c].reported = any]
           \/ GiveUp(c)
  /\ UNCHANGED <<rows, read, before>>

\* One row for a publication and a time, however often it is collected; a metric that is
\* not reported this time keeps its value.
upsertSnapshot(c) ==
  /\ call[c].step = "upsert" /\ call' = [call EXCEPT ![c] = Idle]
  /\ LET r == call[c].row IN
     \/ /\ stored' = stored \cup {r}
        /\ reported' = IF call[c].reported THEN reported \cup {r} ELSE reported
     \/ UNCHANGED rows
  /\ UNCHANGED <<read, before>>

-----------------------------------------------------------------------------
(* The dashboard of a period that is open at the end.                      *)

After(r, cursor) == r[1] > cursor[1] \/ (r[1] = cursor[1] /\ r[2] > cursor[2])

Get(from) ==
  /\ read.step # "page"
  /\ read' = [NotReading EXCEPT !.step = "page", !.from = from]
  /\ before' = [stored |-> {r \in stored : r[1] >= from}, reported |-> reported]
  /\ UNCHANGED <<rows, call>>

\* The rows in order from the cursor on.
listSnapshots(page) ==
  LET rest == {r \in stored : r[1] >= read.from /\ After(r, read.cursor)} IN
  /\ page \subseteq rest
  /\ Cardinality(page) = IF Cardinality(rest) < PageSize THEN Cardinality(rest) ELSE PageSize
  /\ \A r \in page, q \in rest \ page : After(q, r)

\* A slip: a page as long as the limit is taken for the last.
PageLast ==
  /\ read.step = "page"
  /\ \E page \in SUBSET stored :
       /\ listSnapshots(page)
       /\ read' = [read EXCEPT !.seen = @ \cup page, !.shown = @ \cup (page \cap reported),
                              !.step = "done"]
  /\ UNCHANGED <<rows, call, before>>

\* A full page is followed by another.
Page ==
  /\ read.step = "page"
  /\ \E page \in SUBSET stored :
       /\ listSnapshots(page)
       /\ read' = IF Cardinality(page) = PageSize
                    THEN [read EXCEPT !.seen = @ \cup page, !.shown = @ \cup (page \cap reported),
                                      !.cursor = CHOOSE r \in page : \A q \in page \ {r} : After(r, q)]
                    ELSE [read EXCEPT !.seen = @ \cup page, !.shown = @ \cup (page \cap reported),
                              !.step = "done"]
  /\ UNCHANGED <<rows, call, before>>

\* The newest snapshot of each publication counts.
latestByPublication(seen) ==
  {r \in seen : \A q \in seen : q[2] = r[2] => ~After(q, r)}

\* What it shows of a platform, and in the same way of all, of a pillar and of a topic.
platformTotals(platform) ==
  LET counted == {r \in latestByPublication(read.seen) : r[2] \in On(platform)} IN
  [publications |-> Cardinality(counted), reported |-> counted \cap read.shown # {}]

Next ==
  \/ Page \/ \E t \in Times : Get(t)
  \/ \E c \in Calls : \/ \E r \in Row : Collect(c, r)
                     \/ fetchVk(c) \/ fetchInstagram(c) \/ upsertSnapshot(c)

Spec == Init /\ [][Next]_vars

-----------------------------------------------------------------------------
\* The dashboard counts each publication once, by a snapshot at least as new as the newest
\* there was when it began to read, however many pages it took and whatever was stored
\* meanwhile behind its cursor; and what a network has reported of that snapshot is shown,
\* though it was collected again without it (analytics-dashboard.ts:87-97, 128-133,
\* repositories/analytics.ts:39-65).
DashboardIsComplete ==
  read.step = "done" =>
    LET counted == latestByPublication(read.seen) IN
    /\ \A r \in before.stored : \E q \in counted : q[2] = r[2] /\ ~After(r, q)
    /\ \A p \in Platforms :
         /\ platformTotals(p).publications = Cardinality({r[2] : r \in counted} \cap On(p))
         /\ (\E r \in counted \cap before.reported : r[2] \in On(p)) => platformTotals(p).reported
=============================================================================
