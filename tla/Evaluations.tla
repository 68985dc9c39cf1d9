------------------------------ MODULE Evaluations ------------------------------
(***************************************************************************)
(* One evaluation run of a suite of prompts' cases: it is started, results *)
(* are recorded for cases, and calls of finishRun() give the verdict.      *)
(* Meanwhile cases are added to the suite.  A recorder reads that the run  *)
(* is RUNNING before it writes, but not of which suite the case is; a      *)
(* finisher reads the run's results and the suite's cases in two           *)
(* statements and sets the verdict in a third.                             *)
(*                                                                         *)
(* Of a result only whether it passed matters; a case is its place in the  *)
(* order of names by which a page of them is read.                         *)
(***************************************************************************)
EXTENDS Naturals, FiniteSets

CONSTANTS
  Calls,   \* slots for calls of recordResult() and finishRun()
  Cases,   \* the cases the suite can have, in the order of their names
  Foreign, \* cases of other suites
  PageSize \* cases that one listing returns (fifty in the code)

VARIABLES
  cases,   \* the EvaluationCase rows of the suite
  run,     \* EvaluationRun.status, "none" before the row
  results, \* EvaluationResult by case, "none" where there is no row
  call,    \* calls at work: the next step and what they have read
  late     \* cases with a result written since a finishing call read them all (history)

AllCases == Cases \cup Foreign

vars == <<cases, run, results, call, late>>

EvaluationRunStatus == {"PENDING", "RUNNING", "PASSED", "FAILED"}
Result == {"passed", "failed"}
Idle == [step |-> "idle", case |-> 0, result |-> "none", found |-> {}, verdict |-> "none",
         required |-> {}]

TypeOK ==
  /\ cases \subseteq Cases /\ run \in EvaluationRunStatus \cup {"none"}
  /\ results \in [AllCases -> Result \cup {"none"}]
  /\ call \in [Calls ->
       [step : {"idle", "write", "list", "decide", "finished"}, case : AllCases \cup {0},
        result : Result \cup {"none"}, found : SUBSET AllCases,
        verdict : {"PASSED", "FAILED", "none"}, required : SUBSET Cases]]
  /\ late \in [Calls -> SUBSET AllCases]

Init ==
  /\ cases = {} /\ run = "none"
  /\ results = [k \in AllCases |-> "none"]
  /\ call = [c \in Calls |-> Idle] /\ late = [c \in Calls |-> {}]

At(c, step) == call[c].step = step
Goto(c, to) == call' = [call EXCEPT ![c] = to]

-----------------------------------------------------------------------------
createCase == \E k \in Cases : cases' = cases \cup {k} /\ UNCHANGED <<run, results, call, late>>

\* The first cases by name.
listCases == {k \in cases : Cardinality({j \in cases : j < k}) < PageSize}

\* A run is created and set RUNNING by two statements; a death between them leaves it PENDING.
createRun == run = "none" /\ run' = "PENDING" /\ UNCHANGED <<cases, results, call, late>>

transitionRun(from, to) == run = from /\ run' = to
startRun == transitionRun("PENDING", "RUNNING") /\ UNCHANGED <<cases, results, call, late>>

-----------------------------------------------------------------------------
\* The status is read; what happens to the run before the write is not looked at, nor is
\* the suite of the case: any case there is will do.
recordResult(c) ==
  /\ At(c, "idle") /\ run = "RUNNING"
  /\ \E k \in cases \cup Foreign, r \in Result :
       Goto(c, [Idle EXCEPT !.step = "write", !.case = k, !.result = r])
  /\ UNCHANGED <<cases, run, results, late>>

createResult(c) ==
  /\ At(c, "write") /\ Goto(c, Idle)
  /\ results' = [results EXCEPT ![call[c].case] = call[c].result]
  /\ late' = [d \in Calls |->
                IF At(d, "list") \/ At(d, "decide") \/ At(d, "finished")
                  THEN late[d] \cup {call[c].case} ELSE late[d]]
  /\ UNCHANGED <<cases, run>>

\* The run is read together with its results, of whatever case, which give the verdict.
findRun(c) ==
  LET found == {k \in AllCases : results[k] # "none"}
      verdict == IF \A k \in found : results[k] = "passed" THEN "PASSED" ELSE "FAILED"
  IN /\ At(c, "idle") /\ run = "RUNNING"
     /\ Goto(c, [Idle EXCEPT !.step = "list", !.found = found, !.verdict = verdict])
     /\ UNCHANGED <<cases, run, results, late>>

Judge(c) == Goto(c, [call[c] EXCEPT !.step = "decide", !.required = cases])

\* A slip: results are not counted.
JudgeUncounted(c) == At(c, "list") /\ Judge(c) /\ UNCHANGED <<cases, run, results, late>>

\* There must be as many results as cases on the page.
JudgeCounted(c) ==
  /\ At(c, "list") /\ Cardinality(call[c].found) = Cardinality(listCases)
  /\ Judge(c) /\ UNCHANGED <<cases, run, results, late>>

\* The verdict is set once; this call stays as it is, for the property.
finishRun(c) ==
  /\ At(c, "decide") /\ transitionRun("RUNNING", call[c].verdict)
  /\ Goto(c, [call[c] EXCEPT !.step = "finished"])
  /\ UNCHANGED <<cases, results, late>>

\* The count is wrong, another call has finished the run, or the process dies.
Abandon(c) ==
  /\ At(c, "write") \/ At(c, "list") \/ At(c, "decide")
  /\ Goto(c, Idle) /\ late' = [late EXCEPT ![c] = {}]
  /\ UNCHANGED <<cases, run, results>>

Next ==
  \/ createCase \/ createRun \/ startRun
  \/ \E c \in Calls :
       \/ recordResult(c) \/ createResult(c)
       \/ findRun(c) \/ JudgeCounted(c) \/ finishRun(c) \/ Abandon(c)

Spec == Init /\ [][Next]_vars

-----------------------------------------------------------------------------
\* A run keeps the verdict of the one call that finished it.  But for results written after
\* that call had read them, with PASSED no result has failed and with FAILED one has.  Of a
\* suite that fitted a page, no more cases are without a result than results of other
\* suites' cases were counted: none at all, where each result is of the suite
\* (evaluations.ts:51-77).
VerdictIsCounted ==
  \A c \in Calls : At(c, "finished") =>
    LET missing == {k \in call[c].required : results[k] = "none"} IN
    /\ run = call[c].verdict
    /\ run = "PASSED" => \A k \in AllCases \ late[c] : results[k] # "failed"
    /\ run = "FAILED" => late[c] # {} \/ \E k \in AllCases : results[k] = "failed"
    /\ Cardinality(call[c].required) <= PageSize
         => Cardinality(missing) <= Cardinality(call[c].found \cap Foreign)
=============================================================================
