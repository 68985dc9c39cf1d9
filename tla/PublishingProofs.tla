-------------------------- MODULE PublishingProofs --------------------------
(***************************************************************************)
(* Theorems about Publishing, for every set of callers and keys, every     *)
(* provider behaviour and every combination of faults the constants allow. *)
(***************************************************************************)
EXTENDS Publishing, FiniteSetTheorems, TLAPS

-----------------------------------------------------------------------------
(* Type correctness.                                                       *)

\* A call that is neither idle nor looking for its attempt holds a key.
Keyed == Labels \ {"idle", "find"}
KeyHeld == \A c \in Callers : pc[c] \in Keyed => key[c] \in Keys

TypeInv == TypeOK /\ KeyHeld

LEMMA LabelType ==
  /\ {"idle", "claim"} \subseteq Labels
  /\ PublishLabels \subseteq Keyed
  /\ InvestigateLabels \ {"find"} \subseteq Keyed
  /\ "claim" \in Keyed
  /\ "find" \in Labels
  /\ Keyed \subseteq Labels
BY DEF Labels, Keyed, PublishLabels, InvestigateLabels

\* Continuing a call that holds its key, or ending one, keeps the locals typed.
LEMMA GotoType ==
  ASSUME TypeInv, NEW c \in Callers, NEW l \in Keyed \cup {"idle"},
         pc[c] \in Keyed \/ l = "idle", Goto(c, l)
  PROVE  /\ pc' \in [Callers -> Labels]
         /\ key' \in [Callers -> Keys \cup {NoKey}]
         /\ seen' \in [Callers -> [status : PublicationStatus, job : BOOLEAN]]
         /\ KeyHeld'
<1>1. CASE l = "idle"
  <2>1. Return(c) BY <1>1 DEF Goto
  <2>2. NotSeen \in [status : PublicationStatus, job : BOOLEAN]
    BY DEF NotSeen, PublicationStatus
  <2>3. "idle" \in Labels /\ "idle" \notin Keyed BY DEF Labels, Keyed
  <2> QED BY <2>1, <2>2, <2>3 DEF TypeInv, TypeOK, Return, KeyHeld
<1>2. CASE l # "idle"
  <2>1. pc[c] \in Keyed /\ l \in Labels BY <1>2, LabelType
  <2>2. key[c] \in Keys BY <2>1 DEF TypeInv, KeyHeld
  <2> QED BY <1>2, <2>1, <2>2 DEF TypeInv, TypeOK, Goto, KeyHeld
<1> QED BY <1>1, <1>2

\* Writing an attempt keeps the attempts typed.
LEMMA MarkType ==
  ASSUME TypeOK, NEW k \in Keys, NEW s \in AttemptStatus, Mark(k, s) \/ MarkWithJob(k, s)
  PROVE  attempts' \in [Keys -> Attempt]
BY DEF TypeOK, Mark, MarkWithJob, Attempt

LEMMA AttemptNumberType ==
  1 + Cardinality({j \in Keys : attempts[j].status # "NONE"}) \in Nat
<1>1. IsFiniteSet({j \in Keys : attempts[j].status # "NONE"})
  BY PublishingAssumption, FS_Subset
<1> QED BY <1>1, FS_CardinalityType

\* What publish() does after a load is one of its labels.
LEMMA LoadedLabel ==
  \A k : /\ Loaded(k) \in {"idle", "queueing", "starting", "acquire", "calling"}
        /\ Admit(k) \in {"idle", "acquire", "calling"}
BY DEF Loaded, Admit

LEMMA TypeInit == Init => TypeInv
<1> SUFFICES ASSUME Init PROVE TypeInv
  OBVIOUS
<1>1. legacyRecoveryStates \cup {"DRAFT"} \subseteq PublicationStatus
  BY DEF PublicationStatus
<1>2. NoAttempt \in Attempt /\ NotSeen \in [status : PublicationStatus, job : BOOLEAN]
  BY DEF NoAttempt, Attempt, AttemptStatus, NotSeen, PublicationStatus
<1>3. "idle" \in Labels /\ "idle" \notin Keyed
  BY DEF Labels, Keyed
<1> QED BY <1>1, <1>2, <1>3 DEF Init, TypeInv, TypeOK, KeyHeld

LEMMA TypeNext == TypeInv /\ [Next]_vars => TypeInv'
<1> SUFFICES ASSUME TypeInv, [Next]_vars PROVE TypeInv'
  OBVIOUS
<1> USE DEF TypeInv, pub, local
<1>s. {"QUEUED", "CANCELLED", "PUBLISHING", "PUBLISHED", "OUTCOME_UNKNOWN", "FAILED"}
         \subseteq PublicationStatus
  BY DEF PublicationStatus
<1>1. ASSUME Schedule PROVE TypeInv'
  BY <1>1, <1>s DEF Schedule, TypeOK, KeyHeld
<1>2. ASSUME Reschedule PROVE TypeInv'
  BY <1>2, <1>s DEF Reschedule, TypeOK, KeyHeld
<1>3. ASSUME Cancel PROVE TypeInv'
  BY <1>3, <1>s DEF Cancel, TypeOK, KeyHeld
<1>4. ASSUME Recover PROVE TypeInv'
  BY <1>4, <1>s DEF Recover, TypeOK, KeyHeld, Moves
<1>5. ASSUME BecomeDue PROVE TypeInv'
  BY <1>5, <1>s DEF BecomeDue, TypeOK, KeyHeld
<1>6. ASSUME SwitchCredential PROVE TypeInv'
  BY <1>6, <1>s DEF SwitchCredential, TypeOK, KeyHeld
<1>7. ASSUME NEW c \in Callers, BeginDispatch(c) PROVE TypeInv'
  BY <1>7, LabelType, PublishingAssumption DEF BeginDispatch, At, TypeOK, KeyHeld
<1>8. ASSUME NEW c \in Callers, NEW k \in Keys, BeginPublish(c, k) PROVE TypeInv'
  BY <1>8, LabelType, LoadedLabel DEF BeginPublish, At, TypeOK, KeyHeld, PublishLabels
<1>9. ASSUME NEW c \in Callers, BeginInvestigate(c) PROVE TypeInv'
  BY <1>9, LabelType DEF BeginInvestigate, At, TypeOK, KeyHeld, Keyed
<1>10. ASSUME NEW c \in Callers, Claim(c) PROVE TypeInv'
  <2>1. \E l \in {"load", "idle"} : Goto(c, l)
    BY <1>10 DEF Claim, Goto
  <2>2. pc[c] \in Keyed
    BY <1>10, LabelType DEF Claim, At, PublishLabels, InvestigateLabels
  <2>3. {"load", "idle"} \subseteq Keyed \cup {"idle"}
    BY LabelType DEF PublishLabels, InvestigateLabels
  <2> QED BY <1>10, <1>s, <2>1, <2>2, <2>3, GotoType DEF Claim, TypeOK, KeyHeld
<1>11. ASSUME NEW c \in Callers, Load(c) PROVE TypeInv'
  <2>1. \E l \in {"idle", "queueing", "starting", "acquire", "calling"} : Goto(c, l)
    BY <1>11, LoadedLabel DEF Load
  <2>2. pc[c] \in Keyed
    BY <1>11, LabelType DEF Load, At, PublishLabels, InvestigateLabels
  <2>3. {"idle", "queueing", "starting", "acquire", "calling"} \subseteq Keyed \cup {"idle"}
    BY LabelType DEF PublishLabels, InvestigateLabels
  <2> QED BY <1>11, <1>s, <2>1, <2>2, <2>3, GotoType DEF Load, TypeOK, KeyHeld
<1>12. ASSUME NEW c \in Callers, Queueing(c) PROVE TypeInv'
  <2>1. \E l \in {"load", "idle"} : Goto(c, l)
    BY <1>12 DEF Queueing, Goto
  <2>2. pc[c] \in Keyed
    BY <1>12, LabelType DEF Queueing, At, PublishLabels, InvestigateLabels
  <2>3. {"load", "idle"} \subseteq Keyed \cup {"idle"}
    BY LabelType DEF PublishLabels, InvestigateLabels
  <2> QED BY <1>12, <1>s, <2>1, <2>2, <2>3, GotoType DEF Queueing, TypeOK, KeyHeld, Moves
<1>13. ASSUME NEW c \in Callers, Starting(c) PROVE TypeInv'
  <2>1. \E l \in {"reload"} : Goto(c, l)
    BY <1>13 DEF Starting
  <2>2. pc[c] \in Keyed
    BY <1>13, LabelType DEF Starting, At, PublishLabels, InvestigateLabels
  <2>3. {"reload"} \subseteq Keyed \cup {"idle"}
    BY LabelType DEF PublishLabels, InvestigateLabels
  <2> QED BY <1>13, <1>s, <2>1, <2>2, <2>3, GotoType DEF Starting, TypeOK, KeyHeld, Moves
<1>14. ASSUME NEW c \in Callers, Reload(c) PROVE TypeInv'
  <2>1. \E l \in {"idle", "acquire", "calling"} : Goto(c, l)
    BY <1>14, LoadedLabel DEF Reload
  <2>2. pc[c] \in Keyed
    BY <1>14, LabelType DEF Reload, At, PublishLabels, InvestigateLabels
  <2>3. {"idle", "acquire", "calling"} \subseteq Keyed \cup {"idle"}
    BY LabelType DEF PublishLabels, InvestigateLabels
  <2> QED BY <1>14, <1>s, <2>1, <2>2, <2>3, GotoType DEF Reload, TypeOK, KeyHeld
<1>15. ASSUME NEW c \in Callers, AcquireAttempt(c) PROVE TypeInv'
  <2>1. \E l \in {"calling", "idle"} : Goto(c, l)
    BY <1>15 DEF AcquireAttempt
  <2>2. pc[c] \in Keyed
    BY <1>15, LabelType DEF AcquireAttempt, At, PublishLabels, InvestigateLabels
  <2>3. {"calling", "idle"} \subseteq Keyed \cup {"idle"}
    BY LabelType DEF PublishLabels, InvestigateLabels
  <2>4. attempts' \in [Keys -> Attempt]
    <3>1. [status |-> "STARTED", job |-> FALSE,
           number |-> 1 + Cardinality({j \in Keys : attempts[j].status # "NONE"})] \in Attempt
      BY AttemptNumberType DEF Attempt, AttemptStatus
    <3> QED BY <1>15, <3>1 DEF AcquireAttempt, TypeOK
  <2> QED BY <1>15, <1>s, <2>1, <2>2, <2>3, GotoType, <2>4 DEF AcquireAttempt, TypeOK, KeyHeld
<1>16. ASSUME NEW c \in Callers, CallProvider(c) PROVE TypeInv'
  <2>1. \E l \in {"recordSucceeded", "recordUnknown", "recordFailed"} : Goto(c, l)
    BY <1>16 DEF CallProvider
  <2>2. pc[c] \in Keyed
    BY <1>16, LabelType DEF CallProvider, At, PublishLabels, InvestigateLabels
  <2>3. {"recordSucceeded", "recordUnknown", "recordFailed"} \subseteq Keyed \cup {"idle"}
    BY LabelType DEF PublishLabels, InvestigateLabels
  <2>4. key[c] \in Keys
    BY <2>2 DEF KeyHeld
  <2> QED BY <1>16, <1>s, <2>1, <2>2, <2>3, GotoType, <2>4 DEF CallProvider, TypeOK, KeyHeld, Posted
<1>17. ASSUME NEW c \in Callers, RecordSucceeded(c) PROVE TypeInv'
  <2>1. \E l \in {"finalise"} : Goto(c, l)
    BY <1>17 DEF RecordSucceeded
  <2>2. pc[c] \in Keyed
    BY <1>17, LabelType DEF RecordSucceeded, At, PublishLabels, InvestigateLabels
  <2>3. {"finalise"} \subseteq Keyed \cup {"idle"}
    BY LabelType DEF PublishLabels, InvestigateLabels
  <2>4. attempts' \in [Keys -> Attempt]
    BY <1>17, <2>2, MarkType DEF RecordSucceeded, KeyHeld, AttemptStatus
  <2> QED BY <1>17, <1>s, <2>1, <2>2, <2>3, GotoType, <2>4 DEF RecordSucceeded, TypeOK, KeyHeld
<1>18. ASSUME NEW c \in Callers, Finalise(c) PROVE TypeInv'
  <2>1. \E l \in {"idle", "markUnknown"} : Goto(c, l)
    BY <1>18 DEF Finalise
  <2>2. pc[c] \in Keyed
    BY <1>18, LabelType DEF Finalise, At, PublishLabels, InvestigateLabels
  <2>3. {"idle", "markUnknown"} \subseteq Keyed \cup {"idle"}
    BY LabelType DEF PublishLabels, InvestigateLabels
  <2>4. key[c] \in Keys
    BY <2>2 DEF KeyHeld
  <2> QED BY <1>18, <1>s, <2>1, <2>2, <2>3, GotoType, <2>4 DEF Finalise, TypeOK, KeyHeld, Moves
<1>19. ASSUME NEW c \in Callers, RecordUnknown(c) PROVE TypeInv'
  <2>1. \E l \in {"finaliseUnknown"} : Goto(c, l)
    BY <1>19 DEF RecordUnknown
  <2>2. pc[c] \in Keyed
    BY <1>19, LabelType DEF RecordUnknown, At, PublishLabels, InvestigateLabels
  <2>3. {"finaliseUnknown"} \subseteq Keyed \cup {"idle"}
    BY LabelType DEF PublishLabels, InvestigateLabels
  <2>4. attempts' \in [Keys -> Attempt]
    BY <1>19, <2>2, MarkType DEF RecordUnknown, KeyHeld, AttemptStatus
  <2> QED BY <1>19, <1>s, <2>1, <2>2, <2>3, GotoType, <2>4 DEF RecordUnknown, TypeOK, KeyHeld
<1>20. ASSUME NEW c \in Callers, FinaliseUnknown(c) PROVE TypeInv'
  <2>1. \E l \in {"idle", "markUnknown"} : Goto(c, l)
    BY <1>20 DEF FinaliseUnknown
  <2>2. pc[c] \in Keyed
    BY <1>20, LabelType DEF FinaliseUnknown, At, PublishLabels, InvestigateLabels
  <2>3. {"idle", "markUnknown"} \subseteq Keyed \cup {"idle"}
    BY LabelType DEF PublishLabels, InvestigateLabels
  <2>4. key[c] \in Keys
    BY <2>2 DEF KeyHeld
  <2> QED BY <1>20, <1>s, <2>1, <2>2, <2>3, GotoType, <2>4 DEF FinaliseUnknown, TypeOK, KeyHeld, Moves
<1>21. ASSUME NEW c \in Callers, RecordFailed(c) PROVE TypeInv'
  <2>1. \E l \in {"finaliseFailed"} : Goto(c, l)
    BY <1>21 DEF RecordFailed
  <2>2. pc[c] \in Keyed
    BY <1>21, LabelType DEF RecordFailed, At, PublishLabels, InvestigateLabels
  <2>3. {"finaliseFailed"} \subseteq Keyed \cup {"idle"}
    BY LabelType DEF PublishLabels, InvestigateLabels
  <2>4. attempts' \in [Keys -> Attempt]
    BY <1>21, <2>2, MarkType DEF RecordFailed, KeyHeld, AttemptStatus
  <2> QED BY <1>21, <1>s, <2>1, <2>2, <2>3, GotoType, <2>4 DEF RecordFailed, TypeOK, KeyHeld
<1>22. ASSUME NEW c \in Callers, FinaliseFailed(c) PROVE TypeInv'
  <2>1. \E l \in {"idle"} : Goto(c, l)
    BY <1>22 DEF FinaliseFailed
  <2>2. pc[c] \in Keyed
    BY <1>22, LabelType DEF FinaliseFailed, At, PublishLabels, InvestigateLabels
  <2>3. {"idle"} \subseteq Keyed \cup {"idle"}
    BY LabelType DEF PublishLabels, InvestigateLabels
  <2>4. key[c] \in Keys
    BY <2>2 DEF KeyHeld
  <2> QED BY <1>22, <1>s, <2>1, <2>2, <2>3, GotoType, <2>4 DEF FinaliseFailed, TypeOK, KeyHeld, Moves
<1>23. ASSUME NEW c \in Callers, MarkUnknown(c) PROVE TypeInv'
  <2>1. \E l \in {"markAttempt", "idle"} : Goto(c, l)
    BY <1>23 DEF MarkUnknown
  <2>2. pc[c] \in Keyed
    BY <1>23, LabelType DEF MarkUnknown, At, PublishLabels, InvestigateLabels
  <2>3. {"markAttempt", "idle"} \subseteq Keyed \cup {"idle"}
    BY LabelType DEF PublishLabels, InvestigateLabels
  <2> QED BY <1>23, <1>s, <2>1, <2>2, <2>3, GotoType DEF MarkUnknown, TypeOK, KeyHeld
<1>24. ASSUME NEW c \in Callers, MarkAttempt(c) PROVE TypeInv'
  <2>1. \E l \in {"markFinal"} : Goto(c, l)
    BY <1>24 DEF MarkAttempt
  <2>2. pc[c] \in Keyed
    BY <1>24, LabelType DEF MarkAttempt, At, PublishLabels, InvestigateLabels
  <2>3. {"markFinal"} \subseteq Keyed \cup {"idle"}
    BY LabelType DEF PublishLabels, InvestigateLabels
  <2>4. attempts' \in [Keys -> Attempt]
    BY <1>24, <2>2, MarkType DEF MarkAttempt, KeyHeld, AttemptStatus
  <2> QED BY <1>24, <1>s, <2>1, <2>2, <2>3, GotoType, <2>4 DEF MarkAttempt, TypeOK, KeyHeld
<1>25. ASSUME NEW c \in Callers, MarkFinal(c) PROVE TypeInv'
  <2>1. \E l \in {"idle"} : Goto(c, l)
    BY <1>25 DEF MarkFinal
  <2>2. pc[c] \in Keyed
    BY <1>25, LabelType DEF MarkFinal, At, PublishLabels, InvestigateLabels
  <2>3. {"idle"} \subseteq Keyed \cup {"idle"}
    BY LabelType DEF PublishLabels, InvestigateLabels
  <2>4. key[c] \in Keys
    BY <2>2 DEF KeyHeld
  <2> QED BY <1>25, <1>s, <2>1, <2>2, <2>3, GotoType, <2>4 DEF MarkFinal, TypeOK, KeyHeld, Moves
<1>26. ASSUME NEW c \in Callers, FindAttempt(c) PROVE TypeInv'
  <2>1. CASE Return(c)
    <3>1. Goto(c, "idle") BY <2>1 DEF Goto
    <3> QED BY <1>26, <3>1, GotoType DEF FindAttempt, TypeOK, KeyHeld
  <2>2. ASSUME NEW k \in Keys,
               pc' = [pc EXCEPT ![c] = "ask"],
               key' = [key EXCEPT ![c] = k],
               seen' = [seen EXCEPT ![c].job = attempts[k].job],
               UNCHANGED <<pub, attempts, credential, posts>>
        PROVE  TypeInv'
    <3>1. "ask" \in Labels BY LabelType DEF InvestigateLabels
    <3>2. attempts[k].job \in BOOLEAN BY DEF TypeOK, Attempt
    <3> QED BY <2>2, <3>1, <3>2 DEF TypeOK, KeyHeld
  <2> QED BY <1>26, <2>1, <2>2 DEF FindAttempt
<1>27. ASSUME NEW c \in Callers, AskProvider(c) PROVE TypeInv'
  <2>1. \E l \in {"confirmAttempt", "rejectAttempt", "idle"} : Goto(c, l)
    BY <1>27 DEF AskProvider
  <2>2. pc[c] \in Keyed
    BY <1>27, LabelType DEF AskProvider, At, PublishLabels, InvestigateLabels
  <2>3. {"confirmAttempt", "rejectAttempt", "idle"} \subseteq Keyed \cup {"idle"}
    BY LabelType DEF PublishLabels, InvestigateLabels
  <2> QED BY <1>27, <1>s, <2>1, <2>2, <2>3, GotoType DEF AskProvider, TypeOK, KeyHeld
<1>28. ASSUME NEW c \in Callers, ConfirmAttempt(c) PROVE TypeInv'
  <2>1. \E l \in {"confirm"} : Goto(c, l)
    BY <1>28 DEF ConfirmAttempt
  <2>2. pc[c] \in Keyed
    BY <1>28, LabelType DEF ConfirmAttempt, At, PublishLabels, InvestigateLabels
  <2>3. {"confirm"} \subseteq Keyed \cup {"idle"}
    BY LabelType DEF PublishLabels, InvestigateLabels
  <2>4. attempts' \in [Keys -> Attempt]
    BY <1>28, <2>2, MarkType DEF ConfirmAttempt, KeyHeld, AttemptStatus
  <2> QED BY <1>28, <1>s, <2>1, <2>2, <2>3, GotoType, <2>4 DEF ConfirmAttempt, TypeOK, KeyHeld
<1>29. ASSUME NEW c \in Callers, Confirm(c) PROVE TypeInv'
  <2>1. \E l \in {"idle"} : Goto(c, l)
    BY <1>29 DEF Confirm
  <2>2. pc[c] \in Keyed
    BY <1>29, LabelType DEF Confirm, At, PublishLabels, InvestigateLabels
  <2>3. {"idle"} \subseteq Keyed \cup {"idle"}
    BY LabelType DEF PublishLabels, InvestigateLabels
  <2> QED BY <1>29, <1>s, <2>1, <2>2, <2>3, GotoType DEF Confirm, TypeOK, KeyHeld, Reconciles
<1>30. ASSUME NEW c \in Callers, RejectAttempt(c) PROVE TypeInv'
  <2>1. \E l \in {"requeue"} : Goto(c, l)
    BY <1>30 DEF RejectAttempt
  <2>2. pc[c] \in Keyed
    BY <1>30, LabelType DEF RejectAttempt, At, PublishLabels, InvestigateLabels
  <2>3. {"requeue"} \subseteq Keyed \cup {"idle"}
    BY LabelType DEF PublishLabels, InvestigateLabels
  <2>4. attempts' \in [Keys -> Attempt]
    BY <1>30, <2>2, MarkType DEF RejectAttempt, KeyHeld, AttemptStatus
  <2> QED BY <1>30, <1>s, <2>1, <2>2, <2>3, GotoType, <2>4 DEF RejectAttempt, TypeOK, KeyHeld
<1>31. ASSUME NEW c \in Callers, Requeue(c) PROVE TypeInv'
  <2>1. \E l \in {"idle"} : Goto(c, l)
    BY <1>31 DEF Requeue
  <2>2. pc[c] \in Keyed
    BY <1>31, LabelType DEF Requeue, At, PublishLabels, InvestigateLabels
  <2>3. {"idle"} \subseteq Keyed \cup {"idle"}
    BY LabelType DEF PublishLabels, InvestigateLabels
  <2> QED BY <1>31, <1>s, <2>1, <2>2, <2>3, GotoType DEF Requeue, TypeOK, KeyHeld, Reconciles
<1>32. ASSUME NEW c \in Callers, Abort(c) PROVE TypeInv'
  <2>1. Goto(c, "idle") BY <1>32 DEF Abort, Goto
  <2> QED BY <1>32, <2>1, GotoType DEF Abort, TypeOK, KeyHeld
<1>33. ASSUME NEW c \in Callers, PersistFails(c) PROVE TypeInv'
  <2>1. \E l \in {"markUnknown"} : Goto(c, l)
    BY <1>33 DEF PersistFails
  <2>2. pc[c] \in Keyed
    BY <1>33, LabelType DEF PersistFails, At, PublishLabels, InvestigateLabels
  <2>3. {"markUnknown"} \subseteq Keyed \cup {"idle"}
    BY LabelType DEF PublishLabels, InvestigateLabels
  <2> QED BY <1>33, <1>s, <2>1, <2>2, <2>3, GotoType DEF PersistFails, TypeOK, KeyHeld
<1>34. CASE UNCHANGED vars
  BY <1>34 DEF vars, TypeOK, KeyHeld
<1> QED
  BY <1>1, <1>2, <1>3, <1>4, <1>5, <1>6, <1>7, <1>8, <1>9, <1>10, <1>11, <1>12, <1>13, <1>14, <1>15, <1>16, <1>17, <1>18, <1>19, <1>20, <1>21, <1>22, <1>23, <1>24, <1>25, <1>26, <1>27, <1>28, <1>29, <1>30, <1>31, <1>32, <1>33, <1>34 DEF Next, Step

\* Every reachable state of Publishing is well typed.
THEOREM TypeCorrect == Spec => []TypeOK
<1>1. TypeInv => TypeOK BY DEF TypeInv
<1> QED BY <1>1, TypeInit, TypeNext, PTL DEF Spec

-----------------------------------------------------------------------------
(***************************************************************************)
(* A success on record is a post on the network, and a started attempt has *)
(* one owner.  SuccessIsReal and StartedAttemptHasOneOwner are not         *)
(* inductive: a call carries its evidence between the step that obtains it *)
(* and the step that records it, and what keeps a second owner out is that *)
(* nobody is at the provider for an attempt that does not exist yet.       *)
(***************************************************************************)

\* A call about to record a success knows of a post.
Evidence ==
  \A c \in Callers :
    pc[c] \in {"recordSucceeded", "finalise", "confirmAttempt", "confirm"}
      => posts[key[c]] > 0

\* A call that is at the provider has an attempt row.
Acquired ==
  \A c \in Callers :
    pc[c] \in {"calling", "recordSucceeded", "recordUnknown", "recordFailed"}
      => attempts[key[c]].status # "NONE"

RealInv == SuccessIsReal /\ Evidence
OwnerInv == StartedAttemptHasOneOwner /\ Acquired

LEMMA RealInit == Init => RealInv
BY DEF Init, RealInv, SuccessIsReal, Evidence, NoAttempt, legacyRecoveryStates

\* Every step keeps the evidence.
LEMMA RealNext == TypeInv /\ RealInv /\ [Next]_vars => RealInv'
<1> SUFFICES ASSUME TypeInv, RealInv, [Next]_vars PROVE RealInv'
  OBVIOUS
<1> USE DEF TypeInv, TypeOK, RealInv, SuccessIsReal, Evidence, pub, local
<1>1. ASSUME Schedule PROVE RealInv'
  BY <1>1 DEF Schedule
<1>2. ASSUME Reschedule PROVE RealInv'
  BY <1>2 DEF Reschedule
<1>3. ASSUME Cancel PROVE RealInv'
  BY <1>3 DEF Cancel
<1>4. ASSUME Recover PROVE RealInv'
  BY <1>4 DEF Recover, Moves
<1>5. ASSUME BecomeDue PROVE RealInv'
  BY <1>5 DEF BecomeDue
<1>6. ASSUME SwitchCredential PROVE RealInv'
  BY <1>6 DEF SwitchCredential
<1>7. ASSUME NEW c \in Callers, BeginDispatch(c) PROVE RealInv'
  BY <1>7 DEF BeginDispatch, At
<1>8. ASSUME NEW c \in Callers, NEW k \in Keys, BeginPublish(c, k) PROVE RealInv'
  BY <1>8, LoadedLabel DEF BeginPublish, At
<1>9. ASSUME NEW c \in Callers, BeginInvestigate(c) PROVE RealInv'
  BY <1>9 DEF BeginInvestigate, At
<1>10. ASSUME NEW c \in Callers, Claim(c) PROVE RealInv'
  BY <1>10 DEF Claim, At, Goto, Return
<1>11. ASSUME NEW c \in Callers, Load(c) PROVE RealInv'
  BY <1>11, LoadedLabel DEF Load, At, Goto, Return
<1>12. ASSUME NEW c \in Callers, Queueing(c) PROVE RealInv'
  BY <1>12 DEF Queueing, At, Goto, Return, Moves
<1>13. ASSUME NEW c \in Callers, Starting(c) PROVE RealInv'
  BY <1>13 DEF Starting, At, Goto, Return, Moves
<1>14. ASSUME NEW c \in Callers, Reload(c) PROVE RealInv'
  BY <1>14, LoadedLabel DEF Reload, At, Goto, Return
<1>15. ASSUME NEW c \in Callers, AcquireAttempt(c) PROVE RealInv'
  BY <1>15 DEF AcquireAttempt, At, Goto, Return, Attempt
<1>16. ASSUME NEW c \in Callers, CallProvider(c) PROVE RealInv'
  <2>1. key[c] \in Keys
    BY <1>16, LabelType DEF CallProvider, At, KeyHeld, PublishLabels, InvestigateLabels
  <2>2. \A j \in Keys : posts[j] > 0 => posts'[j] > 0
    BY <1>16, <2>1 DEF CallProvider, Posted
  <2>3. pc'[c] = "recordSucceeded" => posts'[key[c]] > 0
    BY <1>16, <2>1 DEF CallProvider, Posted, Goto, Return
  <2>4. /\ pc'[c] \in {"recordSucceeded", "recordUnknown", "recordFailed"}
        /\ \A d \in Callers \ {c} : pc'[d] = pc[d]
        /\ key' = key
        /\ UNCHANGED <<attempts, status>>
    BY <1>16 DEF CallProvider, Goto, Return
  <2>5. \A d \in Callers : pc[d] \in {"recordSucceeded", "finalise", "confirmAttempt", "confirm"}
                             => key[d] \in Keys
    BY LabelType DEF KeyHeld, PublishLabels, InvestigateLabels
  <2> QED BY <2>2, <2>3, <2>4, <2>5
<1>17. ASSUME NEW c \in Callers, RecordSucceeded(c) PROVE RealInv'
  <2>1. key[c] \in Keys
    BY <1>17, LabelType DEF RecordSucceeded, At, KeyHeld, PublishLabels, InvestigateLabels
  <2> QED BY <1>17, <2>1 DEF RecordSucceeded, At, Goto, Return, Mark, MarkWithJob, Attempt
<1>18. ASSUME NEW c \in Callers, Finalise(c) PROVE RealInv'
  <2>1. key[c] \in Keys
    BY <1>18, LabelType DEF Finalise, At, KeyHeld, PublishLabels, InvestigateLabels
  <2> QED BY <1>18, <2>1 DEF Finalise, At, Goto, Return, Moves
<1>19. ASSUME NEW c \in Callers, RecordUnknown(c) PROVE RealInv'
  BY <1>19 DEF RecordUnknown, At, Goto, Return, Mark, MarkWithJob, Attempt
<1>20. ASSUME NEW c \in Callers, FinaliseUnknown(c) PROVE RealInv'
  BY <1>20 DEF FinaliseUnknown, At, Goto, Return, Moves
<1>21. ASSUME NEW c \in Callers, RecordFailed(c) PROVE RealInv'
  BY <1>21 DEF RecordFailed, At, Goto, Return, Mark, MarkWithJob, Attempt
<1>22. ASSUME NEW c \in Callers, FinaliseFailed(c) PROVE RealInv'
  BY <1>22 DEF FinaliseFailed, At, Goto, Return, Moves
<1>23. ASSUME NEW c \in Callers, MarkUnknown(c) PROVE RealInv'
  BY <1>23 DEF MarkUnknown, At, Goto, Return
<1>24. ASSUME NEW c \in Callers, MarkAttempt(c) PROVE RealInv'
  BY <1>24 DEF MarkAttempt, At, Goto, Return, Mark, MarkWithJob, Attempt
<1>25. ASSUME NEW c \in Callers, MarkFinal(c) PROVE RealInv'
  BY <1>25 DEF MarkFinal, At, Goto, Return, Moves
<1>26. ASSUME NEW c \in Callers, FindAttempt(c) PROVE RealInv'
  BY <1>26 DEF FindAttempt, At, Goto, Return
<1>27. ASSUME NEW c \in Callers, AskProvider(c) PROVE RealInv'
  <2>1. key[c] \in Keys
    BY <1>27, LabelType DEF AskProvider, At, KeyHeld, PublishLabels, InvestigateLabels
  <2>2. pc'[c] = "confirmAttempt" => posts[key[c]] > 0
    BY <1>27, PublishingAssumption DEF AskProvider, Goto, Return, ProviderStatus
  <2> QED BY <1>27, <2>1, <2>2 DEF AskProvider, At, Goto, Return
<1>28. ASSUME NEW c \in Callers, ConfirmAttempt(c) PROVE RealInv'
  <2>1. key[c] \in Keys
    BY <1>28, LabelType DEF ConfirmAttempt, At, KeyHeld, PublishLabels, InvestigateLabels
  <2> QED BY <1>28, <2>1 DEF ConfirmAttempt, At, Goto, Return, Mark, MarkWithJob, Attempt
<1>29. ASSUME NEW c \in Callers, Confirm(c) PROVE RealInv'
  <2>1. key[c] \in Keys
    BY <1>29, LabelType DEF Confirm, At, KeyHeld, PublishLabels, InvestigateLabels
  <2> QED BY <1>29, <2>1 DEF Confirm, At, Goto, Return, Reconciles
<1>30. ASSUME NEW c \in Callers, RejectAttempt(c) PROVE RealInv'
  BY <1>30 DEF RejectAttempt, At, Goto, Return, Mark, MarkWithJob, Attempt
<1>31. ASSUME NEW c \in Callers, Requeue(c) PROVE RealInv'
  BY <1>31 DEF Requeue, At, Goto, Return, Reconciles
<1>32. ASSUME NEW c \in Callers, Abort(c) PROVE RealInv'
  BY <1>32 DEF Abort, At, Goto, Return
<1>33. ASSUME NEW c \in Callers, PersistFails(c) PROVE RealInv'
  BY <1>33 DEF PersistFails, At, Goto, Return
<1>34. CASE UNCHANGED vars
  BY <1>34 DEF vars
<1> QED
  BY <1>1, <1>2, <1>3, <1>4, <1>5, <1>6, <1>7, <1>8, <1>9, <1>10, <1>11, <1>12, <1>13, <1>14, <1>15, <1>16, <1>17, <1>18, <1>19, <1>20, <1>21, <1>22, <1>23, <1>24, <1>25, <1>26, <1>27, <1>28, <1>29, <1>30, <1>31, <1>32, <1>33, <1>34 DEF Next, Step

LEMMA OwnerInit == Init => OwnerInv
BY DEF Init, OwnerInv, StartedAttemptHasOneOwner, AtProvider, Acquired, NoAttempt

\* Every step keeps the ownership.
LEMMA OwnerNext == TypeInv /\ OwnerInv /\ [Next]_vars => OwnerInv'
<1> SUFFICES ASSUME TypeInv, OwnerInv, [Next]_vars PROVE OwnerInv'
  OBVIOUS
<1>k. \A d \in Callers : pc[d] \in {"calling", "recordSucceeded", "recordUnknown", "recordFailed"}
                           => key[d] \in Keys
  BY LabelType DEF TypeInv, KeyHeld, PublishLabels, InvestigateLabels
<1> USE DEF TypeInv, TypeOK, OwnerInv, StartedAttemptHasOneOwner, AtProvider, Acquired, pub, local
<1>1. ASSUME Schedule PROVE OwnerInv'
  BY <1>1 DEF Schedule
<1>2. ASSUME Reschedule PROVE OwnerInv'
  BY <1>2 DEF Reschedule
<1>3. ASSUME Cancel PROVE OwnerInv'
  BY <1>3 DEF Cancel
<1>4. ASSUME Recover PROVE OwnerInv'
  BY <1>4 DEF Recover, Moves
<1>5. ASSUME BecomeDue PROVE OwnerInv'
  BY <1>5 DEF BecomeDue
<1>6. ASSUME SwitchCredential PROVE OwnerInv'
  BY <1>6 DEF SwitchCredential
<1>7. ASSUME NEW c \in Callers, BeginDispatch(c) PROVE OwnerInv'
  BY <1>7 DEF BeginDispatch, At
<1>8. ASSUME NEW c \in Callers, NEW k \in Keys, BeginPublish(c, k) PROVE OwnerInv'
  BY <1>8 DEF BeginPublish, At, Loaded, Admit
<1>9. ASSUME NEW c \in Callers, BeginInvestigate(c) PROVE OwnerInv'
  BY <1>9 DEF BeginInvestigate, At
<1>10. ASSUME NEW c \in Callers, Claim(c) PROVE OwnerInv'
  BY <1>10 DEF Claim, At, Goto, Return
<1>11. ASSUME NEW c \in Callers, Load(c) PROVE OwnerInv'
  BY <1>11 DEF Load, At, Goto, Return, Loaded, Admit
<1>12. ASSUME NEW c \in Callers, Queueing(c) PROVE OwnerInv'
  BY <1>12 DEF Queueing, At, Goto, Return, Moves
<1>13. ASSUME NEW c \in Callers, Starting(c) PROVE OwnerInv'
  BY <1>13 DEF Starting, At, Goto, Return, Moves
<1>14. ASSUME NEW c \in Callers, Reload(c) PROVE OwnerInv'
  BY <1>14 DEF Reload, At, Goto, Return, Loaded, Admit
<1>15. ASSUME NEW c \in Callers, AcquireAttempt(c) PROVE OwnerInv'
  <2>1. key[c] \in Keys
    BY <1>15, LabelType DEF AcquireAttempt, At, KeyHeld, PublishLabels, InvestigateLabels
  <2>2. CASE attempts[key[c]].status = "NONE"
    <3>1. \A j \in Keys : attempts'[j].status = IF j = key[c] THEN "STARTED" ELSE attempts[j].status
      BY <1>15, <2>1, <2>2 DEF AcquireAttempt
    <3>2. Goto(c, "calling")
      BY <1>15, <2>2 DEF AcquireAttempt
    <3> QED BY <1>15, <1>k, <2>1, <2>2, <3>1, <3>2 DEF AcquireAttempt, At, Goto, Return
  <2>3. CASE attempts[key[c]].status # "NONE"
    BY <1>15, <2>1, <2>3 DEF AcquireAttempt, At, Goto, Return
  <2> QED BY <2>2, <2>3
<1>16. ASSUME NEW c \in Callers, CallProvider(c) PROVE OwnerInv'
  <2>1. key[c] \in Keys
    BY <1>16, LabelType DEF CallProvider, At, KeyHeld, PublishLabels, InvestigateLabels
  <2> QED BY <1>16, <2>1 DEF CallProvider, At, Goto, Return, Posted
<1>17. ASSUME NEW c \in Callers, RecordSucceeded(c) PROVE OwnerInv'
  <2>1. key[c] \in Keys
    BY <1>17, LabelType DEF RecordSucceeded, At, KeyHeld, PublishLabels, InvestigateLabels
  <2>2. \A j \in Keys : attempts'[j].status = IF j = key[c] THEN "SUCCEEDED" ELSE attempts[j].status
    BY <1>17, <2>1 DEF RecordSucceeded, MarkWithJob, Attempt
  <2> QED BY <1>17, <1>k, <2>1, <2>2 DEF RecordSucceeded, At, Goto, Return
<1>18. ASSUME NEW c \in Callers, Finalise(c) PROVE OwnerInv'
  BY <1>18 DEF Finalise, At, Goto, Return, Moves
<1>19. ASSUME NEW c \in Callers, RecordUnknown(c) PROVE OwnerInv'
  <2>1. key[c] \in Keys
    BY <1>19, LabelType DEF RecordUnknown, At, KeyHeld, PublishLabels, InvestigateLabels
  <2>2. \A j \in Keys : attempts'[j].status = IF j = key[c] THEN "OUTCOME_UNKNOWN" ELSE attempts[j].status
    BY <1>19, <2>1 DEF RecordUnknown, MarkWithJob, Mark, Attempt
  <2> QED BY <1>19, <1>k, <2>1, <2>2 DEF RecordUnknown, At, Goto, Return
<1>20. ASSUME NEW c \in Callers, FinaliseUnknown(c) PROVE OwnerInv'
  BY <1>20 DEF FinaliseUnknown, At, Goto, Return, Moves
<1>21. ASSUME NEW c \in Callers, RecordFailed(c) PROVE OwnerInv'
  BY <1>21 DEF RecordFailed, At, Goto, Return, Mark, MarkWithJob, Attempt
<1>22. ASSUME NEW c \in Callers, FinaliseFailed(c) PROVE OwnerInv'
  BY <1>22 DEF FinaliseFailed, At, Goto, Return, Moves
<1>23. ASSUME NEW c \in Callers, MarkUnknown(c) PROVE OwnerInv'
  BY <1>23 DEF MarkUnknown, At, Goto, Return
<1>24. ASSUME NEW c \in Callers, MarkAttempt(c) PROVE OwnerInv'
  BY <1>24 DEF MarkAttempt, At, Goto, Return, Mark, MarkWithJob, Attempt
<1>25. ASSUME NEW c \in Callers, MarkFinal(c) PROVE OwnerInv'
  BY <1>25 DEF MarkFinal, At, Goto, Return, Moves
<1>26. ASSUME NEW c \in Callers, FindAttempt(c) PROVE OwnerInv'
  BY <1>26 DEF FindAttempt, At, Goto, Return
<1>27. ASSUME NEW c \in Callers, AskProvider(c) PROVE OwnerInv'
  BY <1>27 DEF AskProvider, At, Goto, Return, ProviderStatus
<1>28. ASSUME NEW c \in Callers, ConfirmAttempt(c) PROVE OwnerInv'
  BY <1>28 DEF ConfirmAttempt, At, Goto, Return, Mark, MarkWithJob, Attempt
<1>29. ASSUME NEW c \in Callers, Confirm(c) PROVE OwnerInv'
  BY <1>29 DEF Confirm, At, Goto, Return, Reconciles
<1>30. ASSUME NEW c \in Callers, RejectAttempt(c) PROVE OwnerInv'
  BY <1>30 DEF RejectAttempt, At, Goto, Return, Mark, MarkWithJob, Attempt
<1>31. ASSUME NEW c \in Callers, Requeue(c) PROVE OwnerInv'
  BY <1>31 DEF Requeue, At, Goto, Return, Reconciles
<1>32. ASSUME NEW c \in Callers, Abort(c) PROVE OwnerInv'
  BY <1>32 DEF Abort, At, Goto, Return
<1>33. ASSUME NEW c \in Callers, PersistFails(c) PROVE OwnerInv'
  BY <1>33 DEF PersistFails, At, Goto, Return
<1>34. CASE UNCHANGED vars
  BY <1>34 DEF vars
<1> QED
  BY <1>1, <1>2, <1>3, <1>4, <1>5, <1>6, <1>7, <1>8, <1>9, <1>10, <1>11, <1>12, <1>13, <1>14, <1>15, <1>16, <1>17, <1>18, <1>19, <1>20, <1>21, <1>22, <1>23, <1>24, <1>25, <1>26, <1>27, <1>28, <1>29, <1>30, <1>31, <1>32, <1>33, <1>34 DEF Next, Step

\* No interleaving of publishers and investigations, with any keys, crashes, lost
\* statements or provider answers, records a success without a post.
THEOREM SuccessIsRealAlways == Spec => []SuccessIsReal
<1>1. RealInv => SuccessIsReal BY DEF RealInv
<1> QED BY <1>1, TypeInit, TypeNext, RealInit, RealNext, PTL DEF Spec

\* createOrGetAttempt gives a started attempt to one call, however many call it.
THEOREM StartedAttemptHasOneOwnerAlways == Spec => []StartedAttemptHasOneOwner
<1>1. OwnerInv => StartedAttemptHasOneOwner BY DEF OwnerInv
<1> QED BY <1>1, TypeInit, TypeNext, OwnerInit, OwnerNext, PTL DEF Spec
=============================================================================
