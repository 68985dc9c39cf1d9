------------------------------- MODULE RateLimiter -------------------------------
(***************************************************************************)
(* One counter of the rate limiter: the row of a policy's scope and a      *)
(* subject's hash.  Processes read clocks of their own, so a call can come *)
(* with a window older than the row's.                                     *)
(***************************************************************************)
EXTENDS Naturals

CONSTANTS
  Processes,
  Limit,     \* calls a window allows
  LastWindow \* bound on the windows

VARIABLES
  clock,    \* the window each process's clock is in
  entry,    \* the row: its window and its count, of window 0 before there is one
  answer,   \* what each process was last told
  accepted  \* calls accepted while the row was of a window (history)

vars == <<clock, entry, answer, accepted>>

Window == 1..LastWindow

TypeOK ==
  /\ clock \in [Processes -> Window]
  /\ entry \in [window : 0..LastWindow, count : Nat]
  /\ answer \in [Processes -> {"none", "accepted", "refused"}]
  /\ accepted \in [Window -> Nat]

Init ==
  /\ clock = [p \in Processes |-> 1]
  /\ entry = [window |-> 0, count |-> 0]
  /\ answer = [p \in Processes |-> "none"]
  /\ accepted = [w \in Window |-> 0]

Tick(p) ==
  /\ clock[p] < LastWindow /\ clock' = [clock EXCEPT ![p] = @ + 1]
  /\ UNCHANGED <<entry, answer, accepted>>

\* A slip: a window that is not the row's is a new one.
upsertReset(window) ==
  IF entry.window # window THEN [window |-> window, count |-> 1]
  ELSE [entry EXCEPT !.count = @ + 1]

\* One statement: a newer window starts at one; a call of an older window counts against
\* the row's.
upsert(window) ==
  IF entry.window < window THEN [window |-> window, count |-> 1]
  ELSE [entry EXCEPT !.count = @ + 1]

\* A call beyond the limit is counted too; the count stops mattering at Limit + 2.
consume(p) ==
  /\ LET row == upsert(clock[p]) IN
     /\ row.count <= Limit + 2 /\ entry' = row
     /\ IF row.count <= Limit
          THEN /\ answer' = [answer EXCEPT ![p] = "accepted"]
               /\ accepted' = [accepted EXCEPT ![row.window] = @ + 1]
          ELSE answer' = [answer EXCEPT ![p] = "refused"] /\ UNCHANGED accepted
  /\ UNCHANGED clock

Next == \E p \in Processes : Tick(p) \/ consume(p)

Spec == Init /\ [][Next]_vars

-----------------------------------------------------------------------------
\* A window never grants more than the limit, and a process whose clock is behind does not
\* open an old window again (rate-limit.ts:26-41).
NoWindowIsOverspent == \A w \in Window : accepted[w] <= Limit
=============================================================================
