------------------------------- MODULE Storyboards -------------------------------
(***************************************************************************)
(* Storyboards of one content project: calls of generate() that read the   *)
(* approved project and the recipe, ask the provider for beats, and store  *)
(* them under the next version, and calls of create() with beats of the    *)
(* caller's own; meanwhile the project moves on and a seed writes the      *)
(* recipe over.                                                            *)
(*                                                                         *)
(* Of beats only their visual jobs and their duration together matter, and *)
(* of a recipe what it allows of both.  Prompts and scripts are left out.  *)
(***************************************************************************)
EXTENDS Naturals, Sequences

CONSTANTS
  Calls,         \* slots for calls of generate() and create()
  Jobs,          \* visual jobs
  MaxDuration,   \* bound on the duration of a storyboard
  Recipes,       \* recipes there can be: their jobs, and the least and greatest duration
  MaxStoryboards \* bound on the storyboards stored

VARIABLES
  approved,   \* is the project APPROVED?
  recipe,     \* the recipe as it is now
  call,       \* calls at work: the next step, what they found, the beats, the latest version
  offered,    \* the recipes there have been since a call began (history)
  storyboards \* Storyboard rows in the order they were stored: their version, the operation
              \* that made them, and whether an offered recipe allows their beats

vars == <<approved, recipe, call, offered, storyboards>>

Beats == [jobs : SUBSET Jobs \ {{}}, duration : 1..MaxDuration]
NoBeats == [jobs |-> {}, duration |-> 0]
NoRecipe == [jobs |-> {}, min |-> 0, max |-> 0]
Idle == [by |-> "generate", step |-> "idle", found |-> {}, recipe |-> NoRecipe,
         beats |-> NoBeats, latest |-> 0]

TypeOK ==
  /\ approved \in BOOLEAN /\ recipe \in Recipes
  /\ call \in [Calls ->
       [by : {"generate", "create"}, step : {"idle", "ask", "parse", "latest", "insert"},
        found : SUBSET {"source", "recipe"}, recipe : Recipes \cup {NoRecipe},
        beats : Beats \cup {NoBeats}, latest : 0..MaxStoryboards]]
  /\ offered \in [Calls -> SUBSET Recipes]
  /\ storyboards \in Seq([version : 1..MaxStoryboards, by : {"generate", "create"},
                          allowed : BOOLEAN])

durationRange(r) == {d \in 1..MaxDuration : r.min <= d /\ d <= r.max}

\* Every job is one the recipe lists, and the beats last as long as it asks for.
parseGeneratedStoryboard(beats, r) ==
  beats.jobs \subseteq r.jobs /\ beats.duration \in durationRange(r)

Init ==
  /\ approved = TRUE /\ recipe \in Recipes
  /\ call = [c \in Calls |-> Idle]
  /\ offered = [c \in Calls |-> {}] /\ storyboards = <<>>

At(c, step) == call[c].step = step
Throw(c) == call' = [call EXCEPT ![c] = Idle] /\ offered' = [offered EXCEPT ![c] = {}]

-----------------------------------------------------------------------------
\* The project is approved, or leaves APPROVED; ContentProject has the moves.
MoveProject == approved' = ~approved /\ UNCHANGED <<recipe, call, offered, storyboards>>

\* The recipe of a key and a version is written over.
upsertRecipe ==
  /\ recipe' \in Recipes \ {recipe}
  /\ offered' = [c \in Calls |-> IF At(c, "idle") THEN {} ELSE offered[c] \cup {recipe'}]
  /\ UNCHANGED <<approved, call, storyboards>>

-----------------------------------------------------------------------------
Begin(c) ==
  /\ call[c] = Idle
  /\ call' = [call EXCEPT ![c].step = "ask"] /\ offered' = [offered EXCEPT ![c] = {recipe}]
  /\ UNCHANGED <<approved, recipe, storyboards>>

\* Any version of an APPROVED project is a source.  The recipe is looked for meanwhile.
findApprovedStoryboardSource(c) ==
  /\ At(c, "ask") /\ "source" \notin call[c].found /\ approved
  /\ call' = [call EXCEPT ![c].found = @ \cup {"source"}]
  /\ UNCHANGED <<approved, recipe, offered, storyboards>>

findActiveRecipe(c) ==
  /\ At(c, "ask") /\ "recipe" \notin call[c].found
  /\ call' = [call EXCEPT ![c].found = @ \cup {"recipe"}, ![c].recipe = recipe]
  /\ UNCHANGED <<approved, recipe, offered, storyboards>>

\* With both found the provider is asked; it answers with beats of its own choice.
generate(c) ==
  /\ At(c, "ask") /\ call[c].found = {"source", "recipe"}
  /\ \E beats \in Beats :
       call' = [call EXCEPT ![c].step = "parse", ![c].found = {}, ![c].beats = beats]
  /\ UNCHANGED <<approved, recipe, offered, storyboards>>

\* The source or the recipe is not there or has no script, or the provider fails.
Unavailable(c) == At(c, "ask") /\ Throw(c) /\ UNCHANGED <<approved, recipe, storyboards>>

Parse(c) ==
  /\ At(c, "parse")
  /\ IF parseGeneratedStoryboard(call[c].beats, call[c].recipe)
       THEN /\ call' = [call EXCEPT ![c].step = "latest", ![c].recipe = NoRecipe]
            /\ UNCHANGED offered
       ELSE Throw(c)
  /\ UNCHANGED <<approved, recipe, storyboards>>

\* create() stores the beats it is given, whatever the recipe and the project's status.
create(c) ==
  /\ call[c] = Idle
  /\ \E beats \in Beats :
       call' = [call EXCEPT ![c].by = "create", ![c].step = "latest", ![c].beats = beats]
  /\ offered' = [offered EXCEPT ![c] = {recipe}]
  /\ UNCHANGED <<approved, recipe, storyboards>>

\* The greatest version is read, whatever the project's status is by now.
readLatest(c) ==
  /\ At(c, "latest")
  /\ call' = [call EXCEPT ![c].step = "insert", ![c].latest = Len(storyboards)]
  /\ UNCHANGED <<approved, recipe, offered, storyboards>>

Row(c) == [version |-> call[c].latest + 1, by |-> call[c].by,
           allowed |-> \E r \in offered[c] : parseGeneratedStoryboard(call[c].beats, r)]
Store(c) ==
  Len(storyboards) < MaxStoryboards /\ storyboards' = Append(storyboards, Row(c))

\* A slip: the version is not unique.
createStoryboardTwice(c) ==
  At(c, "insert") /\ Throw(c) /\ Store(c) /\ UNCHANGED <<approved, recipe>>

\* The version is unique: of two calls that have read the same one, one fails.
createStoryboard(c) ==
  /\ At(c, "insert") /\ Throw(c)
  /\ \/ (\A i \in DOMAIN storyboards : storyboards[i].version # Row(c).version) /\ Store(c)
     \/ UNCHANGED storyboards
  /\ UNCHANGED <<approved, recipe>>

Next ==
  \/ MoveProject \/ upsertRecipe
  \/ \E c \in Calls :
       \/ Begin(c) \/ findApprovedStoryboardSource(c) \/ findActiveRecipe(c) \/ generate(c)
       \/ Unavailable(c) \/ Parse(c) \/ create(c) \/ readLatest(c) \/ createStoryboard(c)

Spec == Init /\ [][Next]_vars

-----------------------------------------------------------------------------
\* Storyboards of a project are numbered 1, 2, 3 in the order they were stored, however
\* many calls read the same latest version; and though the recipe is written over while
\* the provider works, a generated one is what the recipe allowed at some moment of its
\* making (video-planning.ts:49-62, storyboard-generation.ts:134-139).
StoryboardsAreNumbered ==
  \A i \in DOMAIN storyboards :
    /\ storyboards[i].version = i
    /\ storyboards[i].by = "generate" => storyboards[i].allowed
=============================================================================
