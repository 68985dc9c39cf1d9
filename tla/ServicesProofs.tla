----------------------------- MODULE ServicesProofs -----------------------------
(***************************************************************************)
(* Theorems about the services of MCServices, for every value of its       *)
(* constants: any numbers of slots, of tokens, posts, windows, rows and    *)
(* cases.  Each service has an inductive invariant over its own variables; *)
(* a step of another service leaves them alone.  Knowledge ingestion has   *)
(* its theorems in KnowledgeIngestionProofs.                               *)
(***************************************************************************)
EXTENDS MCServices, FiniteSetTheorems, TLAPS

-----------------------------------------------------------------------------
(* A step of the whole is a step of each service, or leaves it as it is.   *)

LEMMA Steps ==
  ASSUME [ServicesNext]_allVars
  PROVE  /\ [Accounts!Next]_accountVars /\ [Adapters!Next]_adapterVars
         /\ [Actors!Next]_actorVars /\ [Limiter!Next]_limiterVars
         /\ [Inbox!Next]_inboxVars /\ [Fetches!Next]_fetchVars
         /\ [Dashboard!Next]_dashboardVars /\ [Hooks!Next]_hookVars
         /\ [Planning!Next]_planVars /\ [Trials!Next]_trialVars
<1>1. CASE UNCHANGED allVars
  BY <1>1 DEF allVars
<1>2. CASE ServicesNext
  BY <1>2 DEF ServicesNext, Accounting, Adapting, Learning, Admitting, Limiting, Submitting,
              Fetching, Measuring, Notifying, Storing, Drafting, Judging, OtherThanKnowledge
<1> QED BY <1>1, <1>2

-----------------------------------------------------------------------------
(* Accounts.                                                               *)

\* The tokens that calls have received and not stored yet: the platform accepts them, no
\* two calls have the same one, and nobody else knows them.
Received(r) == IF Accounts!At(r, "store") THEN refresh[r].new ELSE 0
Fresh == {t \in good : t # token.token /\ \A r \in Two : refresh[r].used # t}
ReceivedInv ==
  /\ \A c \in One : connect[c].token # 0 => connect[c].token \in Fresh
  /\ \A r \in Two : Received(r) # 0 => Received(r) \in Fresh
  /\ \A c, d \in One : connect[c].token # 0 /\ connect[c].token = connect[d].token => c = d
  /\ \A c \in One, r \in Two : connect[c].token # 0 => connect[c].token # Received(r)
  /\ \A r, q \in Two : Received(r) # 0 /\ Received(r) = Received(q) => r = q

\* Tokens are numbered as they are issued.
IssuedInv ==
  /\ token.token \in 0..issued
  /\ \A c \in One : connect[c].token \in 0..issued
  /\ \A r \in Two : refresh[r].used \in 0..issued /\ refresh[r].new \in 0..issued
  /\ \A r \in Two : Accounts!At(r, "ask") => refresh[r].new = 0

LateInv ==
  status = "DISCONNECTED" => \A r \in Two : refresh[r] # Accounts!NoRefresh => r \in late

AccountInv ==
  Accounts!TypeOK /\ IssuedInv /\ ReceivedInv /\ Accounts!StoredTokenIsGood /\ LateInv

Credential == {Accounts!NoCredential} \cup [stored : {TRUE}, token : Accounts!Token, due : BOOLEAN]
Refresh == [step : {"idle", "ask", "store", "error", "expire"},
            used : Accounts!Token, new : Accounts!Token]
Connect == [step : {"idle", "store"}, token : Accounts!Token]

LEMMA AccountTypes ==
  ASSUME Accounts!TypeOK
  PROVE  /\ token \in Credential /\ token.token \in Accounts!Token
         /\ refresh \in [Two -> Refresh] /\ connect \in [One -> Connect]
         /\ issued \in Nat /\ issued <= MaxTokens /\ MaxTokens \in Nat /\ good \subseteq 1..issued
         /\ Accounts!NoCredential \in Credential /\ Accounts!NoCredential.token = 0
         /\ Accounts!NoRefresh \in Refresh /\ Accounts!NoConnect \in Connect
         /\ Accounts!NoRefresh.step = "idle" /\ Accounts!NoRefresh.used = 0
         /\ Accounts!NoRefresh.new = 0 /\ Accounts!NoConnect.token = 0 /\ 0 \in Accounts!Token
<1>1. MaxTokens \in Nat /\ 0 \in Accounts!Token /\ Accounts!NoToken = 0
  BY ServicesAssumption DEF Accounts!Token, Accounts!NoToken
<1>2. /\ token \in Credential
      /\ refresh \in [Two -> Refresh] /\ connect \in [One -> Connect]
      /\ issued \in Accounts!Token /\ good \subseteq 1..issued
  BY DEF Accounts!TypeOK, Credential, Refresh, Connect
<1>3. issued \in Nat /\ issued <= MaxTokens
  BY <1>1, <1>2 DEF Accounts!Token
<1>4. Accounts!NoCredential \in Credential /\ Accounts!NoCredential.token = 0
  BY <1>1 DEF Credential, Accounts!NoCredential
<1>5. token.token \in Accounts!Token
  BY <1>1, <1>2, <1>4 DEF Credential
<1>6. /\ Accounts!NoRefresh \in Refresh /\ Accounts!NoConnect \in Connect
      /\ Accounts!NoRefresh.step = "idle" /\ Accounts!NoRefresh.used = 0
      /\ Accounts!NoRefresh.new = 0 /\ Accounts!NoConnect.token = 0
  BY <1>1 DEF Refresh, Connect, Accounts!NoRefresh, Accounts!NoConnect
<1> QED BY <1>1, <1>2, <1>3, <1>4, <1>5, <1>6

LEMMA AccountInit == Accounts!Init => AccountInv
<1> SUFFICES ASSUME Accounts!Init PROVE AccountInv
  OBVIOUS
<1>1. /\ token.token = 0 /\ issued = 0
      /\ \A c \in One : connect[c].token = 0
      /\ \A r \in Two : /\ refresh[r].used = 0 /\ refresh[r].new = 0 /\ refresh[r].step = "idle"
                        /\ refresh[r] = Accounts!NoRefresh
  BY DEF Accounts!Init, Accounts!NoCredential, Accounts!NoConnect, Accounts!NoRefresh,
         Accounts!NoToken
<1>2. Accounts!TypeOK
  <2>1. 0 \in Accounts!Token
    BY ServicesAssumption DEF Accounts!Token
  <2>2. Accounts!NoRefresh \in [step : {"idle", "ask", "store", "error", "expire"},
                               used : Accounts!Token, new : Accounts!Token]
    BY <2>1 DEF Accounts!NoRefresh, Accounts!NoToken
  <2>3. Accounts!NoConnect \in [step : {"idle", "store"}, token : Accounts!Token]
    BY <2>1 DEF Accounts!NoConnect, Accounts!NoToken
  <2> QED BY <2>1, <2>2, <2>3 DEF Accounts!Init, Accounts!TypeOK
<1>3. IssuedInv
  BY <1>1 DEF IssuedInv, Accounts!At
<1>4. ReceivedInv
  BY <1>1 DEF ReceivedInv, Received, Accounts!At
<1>5. Accounts!StoredTokenIsGood
  BY <1>1 DEF Accounts!StoredTokenIsGood, Accounts!NoToken
<1>6. LateInv
  BY <1>1 DEF LateInv
<1> QED BY <1>2, <1>3, <1>4, <1>5, <1>6 DEF AccountInv

\* What holds of a step that only ends or marks a call, or changes a credential's due date.
LEMMA AccountEnds ==
  ASSUME AccountInv, Accounts!TypeOK', token'.token = token.token \/ token'.token = 0,
         issued' = issued, good' = good,
         \A c \in One : connect'[c].token \in {connect[c].token, 0},
         \A r \in Two :
           \/ refresh'[r] = refresh[r]
           \/ /\ refresh'[r].used \in {refresh[r].used, 0} /\ refresh'[r].new \in 0..issued
              /\ refresh'[r].step # "ask" /\ Received(r)' = 0
              /\ Received(r) # 0 => lost',
         lost => lost', LateInv'
  PROVE  AccountInv'
<1>1. IssuedInv'
  BY AccountTypes DEF AccountInv, IssuedInv, Accounts!At
<1>2. \A r \in Two : Received(r)' \in {Received(r), 0}
  BY DEF Received, Accounts!At
<1>3. \A t \in Fresh : t # 0 => t \in Fresh'
  BY DEF Fresh, AccountInv
<1>4. ReceivedInv'
  BY <1>2, <1>3 DEF AccountInv, ReceivedInv
<1>5. Accounts!StoredTokenIsGood'
  <2>1. CASE token'.token # token.token
    BY <2>1 DEF Accounts!StoredTokenIsGood, Accounts!NoToken
  <2>2. CASE lost \/ token.token \in good \cup {0}
    BY <2>2 DEF Accounts!StoredTokenIsGood, Accounts!NoToken
  <2>3. ASSUME NEW r \in Two, Accounts!At(r, "store"), refresh[r].used = token.token,
               refresh[r].new # 0, token'.token = token.token
        PROVE  Accounts!StoredTokenIsGood'
    BY <2>3 DEF Accounts!StoredTokenIsGood, Accounts!NoToken, Accounts!At, Received
  <2> QED BY <2>1, <2>2, <2>3 DEF AccountInv, Accounts!StoredTokenIsGood, Accounts!NoToken
<1> QED BY <1>1, <1>4, <1>5 DEF AccountInv

LEMMA AccountNext ==
  ASSUME AccountInv, [Accounts!Next]_accountVars
  PROVE  AccountInv' /\ (\/ status # "DISCONNECTED" \/ status' = "DISCONNECTED"
                         \/ \E c \in One : connect[c] = Accounts!NoConnect
                                            /\ connect'[c] # Accounts!NoConnect
                         \/ \E r \in late : refresh'[r] = Accounts!NoRefresh)
<1> DEFINE Renewed == \/ status # "DISCONNECTED" \/ status' = "DISCONNECTED"
                      \/ \E c \in One : connect[c] = Accounts!NoConnect
                                         /\ connect'[c] # Accounts!NoConnect
                      \/ \E r \in late : refresh'[r] = Accounts!NoRefresh
<1>types. /\ token \in Credential /\ token.token \in Accounts!Token
      /\ refresh \in [Two -> Refresh] /\ connect \in [One -> Connect]
      /\ issued \in Nat /\ issued <= MaxTokens /\ MaxTokens \in Nat /\ good \subseteq 1..issued
      /\ Accounts!NoCredential \in Credential /\ Accounts!NoCredential.token = 0
      /\ Accounts!NoRefresh \in Refresh /\ Accounts!NoConnect \in Connect
      /\ Accounts!NoRefresh.step = "idle" /\ Accounts!NoRefresh.used = 0
      /\ Accounts!NoRefresh.new = 0 /\ Accounts!NoConnect.token = 0 /\ 0 \in Accounts!Token
  BY AccountTypes DEF AccountInv
<1>kept. issued \in Accounts!Token
  BY DEF AccountInv, Accounts!TypeOK
<1>1. ASSUME NEW c \in One, NEW t \in Accounts!Token, Accounts!createSocialAccount(c, t)
      PROVE  AccountInv' /\ Renewed
  <2> DEFINE N == [step |-> "store", token |-> t]
  <2>1. N \in Connect /\ N.token = t /\ N.step = "store" /\ N # Accounts!NoConnect
    BY DEF Connect, Accounts!NoConnect
  <2>2. connect' = [connect EXCEPT ![c] = N]
    BY <1>1 DEF Accounts!createSocialAccount
  <2> HIDE DEF N
  <2>3. connect' \in [One -> Connect] /\ connect'[c].token = t
        /\ \A d \in One : d # c => connect'[d] = connect[d]
    BY <1>types, <2>1, <2>2
  <2>4. /\ issued' \in Accounts!Token /\ issued <= issued' /\ good \subseteq good'
        /\ good' \subseteq 1..issued' /\ (t = 0 \/ (t = issued + 1 /\ t \in good' /\ issued' = t))
    <3>1. CASE t = 0 /\ UNCHANGED <<issued, good>>
      BY <3>1, <1>types, <1>kept
    <3>2. CASE t = issued + 1 /\ t \in Accounts!Token /\ issued' = t /\ good' = good \cup {t}
      BY <3>2, <1>types DEF Accounts!Token
    <3> QED BY <1>1, <3>1, <3>2 DEF Accounts!createSocialAccount, Accounts!Granted, Accounts!NoToken
  <2>5. UNCHANGED <<token, refresh, lost, late>> /\ status' = "CONNECTED"
    BY <1>1 DEF Accounts!createSocialAccount
  <2>6. Accounts!TypeOK'
    BY <2>3, <2>4, <2>5 DEF AccountInv, Accounts!TypeOK, Connect, Accounts!SocialAccountStatus
  <2>7. IssuedInv'
    BY <1>types, <2>3, <2>4, <2>5 DEF AccountInv, IssuedInv, Accounts!At, Accounts!Token
  <2>8. Fresh \subseteq Fresh' /\ (t # 0 => t \in Fresh') /\ \A r \in Two : Received(r)' = Received(r)
    <3>1. \A n \in 0..issued : n = issued + 1 => FALSE
      BY <1>types
    <3>2. t # 0 => t # token.token /\ \A r \in Two : refresh[r].used # t
      BY <3>1, <2>4 DEF AccountInv, IssuedInv
    <3> QED BY <3>2, <2>4, <2>5 DEF Fresh, Received, Accounts!At
  <2>9. t # 0 => /\ \A d \in One : connect[d].token # t
                 /\ \A r \in Two : Received(r) # t
    BY <1>types, <2>4 DEF AccountInv, IssuedInv, Received, Accounts!At
  <2>10. ReceivedInv'
    BY <2>3, <2>5, <2>8, <2>9 DEF AccountInv, ReceivedInv
  <2>11. Accounts!StoredTokenIsGood'
    BY <2>4, <2>5 DEF AccountInv, Accounts!StoredTokenIsGood, Accounts!At
  <2>12. LateInv'
    BY <2>5 DEF LateInv
  <2> QED BY <1>1, <2>1, <2>2, <2>3, <2>6, <2>7, <2>10, <2>11, <2>12, <1>types
          DEF AccountInv, Accounts!createSocialAccount
<1>2. ASSUME NEW c \in One, Accounts!upsertCredential(c)
      PROVE  AccountInv' /\ Renewed
  <2>1. PICK due \in BOOLEAN : token' = Accounts!Written(connect[c].token, due)
    BY <1>2 DEF Accounts!upsertCredential
  <2>2. connect[c] \in Connect /\ connect[c].token \in Accounts!Token
    BY <1>types DEF Connect
  <2>3. /\ token' \in Credential
        /\ token'.token = IF connect[c].token # 0 THEN connect[c].token ELSE token.token
    BY <1>types, <2>1, <2>2 DEF Accounts!Written, Credential, Accounts!NoToken
  <2>4. /\ connect' \in [One -> Connect] /\ connect'[c].token = 0
        /\ \A d \in One : d # c => connect'[d] = connect[d]
    BY <1>2, <1>types DEF Accounts!upsertCredential
  <2>5. UNCHANGED <<status, refresh, issued, good, lost, late>>
    BY <1>2 DEF Accounts!upsertCredential
  <2>6. Accounts!TypeOK'
    BY <2>3, <2>4, <2>5 DEF AccountInv, Accounts!TypeOK, Connect, Credential
  <2>7. IssuedInv'
    BY <1>types, <2>2, <2>3, <2>4, <2>5 DEF AccountInv, IssuedInv, Accounts!At
  <2>8. /\ \A u \in Fresh : u # connect[c].token => u \in Fresh'
        /\ \A r \in Two : Received(r)' = Received(r)
    BY <2>3, <2>5 DEF Fresh, Received, Accounts!At
  <2>9. ReceivedInv'
    BY <2>4, <2>5, <2>8 DEF AccountInv, ReceivedInv
  <2>10. Accounts!StoredTokenIsGood'
    <3>1. CASE connect[c].token # 0
      BY <3>1, <2>3, <2>5 DEF AccountInv, ReceivedInv, Fresh, Accounts!StoredTokenIsGood
    <3>2. CASE connect[c].token = 0
      BY <3>2, <2>3, <2>5 DEF AccountInv, Accounts!StoredTokenIsGood, Accounts!At
    <3> QED BY <3>1, <3>2
  <2> QED BY <2>5, <2>6, <2>7, <2>9, <2>10 DEF AccountInv, LateInv
<1>3. ASSUME NEW c \in One, Accounts!DieConnecting(c)
      PROVE  AccountInv' /\ Renewed
  <2>1. /\ connect' \in [One -> Connect] /\ connect'[c].token = 0
        /\ \A d \in One : d # c => connect'[d] = connect[d]
    BY <1>3, <1>types DEF Accounts!DieConnecting
  <2>2. UNCHANGED <<status, token, refresh, issued, good, lost, late>>
    BY <1>3 DEF Accounts!DieConnecting
  <2>3. Accounts!TypeOK'
    BY <2>1, <2>2 DEF AccountInv, Accounts!TypeOK, Connect
  <2> QED BY <2>1, <2>2, <2>3, AccountEnds DEF AccountInv, LateInv
<1>4. ASSUME Accounts!disconnectSocialAccount
      PROVE  AccountInv' /\ Renewed
  <2>1. /\ token' = Accounts!NoCredential /\ status' = "DISCONNECTED"
        /\ late' = {r \in Two : refresh[r] # Accounts!NoRefresh}
        /\ UNCHANGED <<refresh, connect, issued, good, lost>>
    BY <1>4 DEF Accounts!disconnectSocialAccount
  <2>2. Accounts!TypeOK'
    BY <2>1 DEF AccountInv, Accounts!TypeOK, Accounts!SocialAccountStatus
  <2>3. LateInv'
    BY <2>1 DEF LateInv
  <2> QED BY <1>types, <2>1, <2>2, <2>3, AccountEnds
<1>5. ASSUME Accounts!Expire
      PROVE  AccountInv' /\ Renewed
  <2>1. token' \in Credential /\ token'.token = token.token
    BY <1>5, <1>types DEF Accounts!Expire, Credential, Accounts!NoCredential
  <2>2. UNCHANGED <<status, refresh, connect, issued, good, lost, late>>
    BY <1>5 DEF Accounts!Expire
  <2>3. Accounts!TypeOK'
    BY <2>1, <2>2 DEF AccountInv, Accounts!TypeOK, Credential
  <2>4. LateInv'
    BY <2>2 DEF AccountInv, LateInv
  <2>5. AccountInv'
    BY <2>1, <2>2, <2>3, <2>4, AccountEnds
  <2> QED BY <2>2, <2>5
<1>6. ASSUME NEW r \in Two, Accounts!Begin(r)
      PROVE  AccountInv' /\ Renewed
  <2>1. /\ status \notin {"NONE", "DISCONNECTED"} /\ refresh[r] = Accounts!NoRefresh
        /\ late' = late \ {r} /\ UNCHANGED <<status, token, connect, issued, good, lost>>
    BY <1>6 DEF Accounts!Begin
  <2>2. LateInv' /\ Renewed
    BY <2>1 DEF LateInv
  <2>3. /\ refresh' \in [Two -> Refresh] /\ \A q \in Two : q # r => refresh'[q] = refresh[q]
        /\ refresh'[r].used \in {0, token.token} /\ refresh'[r].new = 0
    <3>1. CASE Accounts!Goto(r, "expire")
      BY <3>1, <1>types, <2>1 DEF Accounts!Goto, Refresh
    <3>2. ASSUME refresh' = [refresh EXCEPT ![r] = [step |-> "ask", used |-> token.token,
                                                    new |-> Accounts!NoToken]]
          PROVE  /\ refresh' \in [Two -> Refresh] /\ \A q \in Two : q # r => refresh'[q] = refresh[q]
                 /\ refresh'[r].used \in {0, token.token} /\ refresh'[r].new = 0
      <4> DEFINE asking == [step |-> "ask", used |-> token.token, new |-> Accounts!NoToken]
      <4>1. asking \in Refresh /\ asking.used = token.token /\ asking.new = 0
        BY <1>types DEF Refresh, Accounts!NoToken
      <4>2. refresh' = [refresh EXCEPT ![r] = asking]
        BY <3>2
      <4> HIDE DEF asking
      <4> QED BY <1>types, <4>1, <4>2
    <3> QED BY <1>6, <3>1, <3>2 DEF Accounts!Begin
  <2>4. Accounts!TypeOK'
    BY <2>1, <2>3 DEF AccountInv, Accounts!TypeOK, Refresh
  <2>5. IssuedInv'
    BY <1>types, <2>1, <2>3 DEF AccountInv, IssuedInv, Accounts!At
  <2>6. \A q \in Two : Received(q)' = Received(q)
    BY <1>types, <2>1, <2>3 DEF Received, Accounts!At
  <2>7. \A u \in Fresh : u # 0 => u \in Fresh'
    BY <2>1, <2>3 DEF Fresh
  <2>8. ReceivedInv'
    BY <2>1, <2>6, <2>7 DEF AccountInv, ReceivedInv
  <2>9. Accounts!StoredTokenIsGood'
    <3>1. CASE lost \/ token.token \in good \cup {Accounts!NoToken}
      BY <3>1, <2>1 DEF Accounts!StoredTokenIsGood
    <3>2. ASSUME NEW q \in Two, Accounts!At(q, "store"), refresh[q].used = token.token,
                 refresh[q].new # Accounts!NoToken
          PROVE  Accounts!StoredTokenIsGood'
      BY <3>2, <1>types, <2>1, <2>3 DEF Accounts!StoredTokenIsGood, Accounts!At
    <3> QED BY <3>1, <3>2 DEF AccountInv, Accounts!StoredTokenIsGood
  <2> QED BY <2>2, <2>4, <2>5, <2>8, <2>9 DEF AccountInv
<1>7. ASSUME NEW r \in Two, Accounts!Ask(r)
      PROVE  AccountInv' /\ Renewed
  <2> DEFINE used == refresh[r].used
             next == issued + 1
  <2>1. /\ Accounts!At(r, "ask") /\ UNCHANGED <<status, token, connect, late>>
        /\ refresh[r].new = 0 /\ refresh[r] \in Refresh /\ used \in 0..issued
        /\ Received(r) = 0
    BY <1>7, <1>types DEF Accounts!Ask, AccountInv, IssuedInv, Received, Accounts!At
  <2>2. LateInv' /\ Renewed
    <3>1. refresh[r] # Accounts!NoRefresh
      BY <2>1, <1>types DEF Accounts!At
    <3>2. \A q \in Two : q # r => refresh'[q] = refresh[q]
      BY <1>7, <1>types DEF Accounts!Ask, Accounts!Goto
    <3> QED BY <2>1, <3>1, <3>2 DEF AccountInv, LateInv
  <2>3. ASSUME NEW step \in {"error", "store"}, Accounts!Goto(r, step),
               issued' = issued, good' = good, lost' = lost
        PROVE  AccountInv'
    <3>1. /\ refresh' \in [Two -> Refresh] /\ \A q \in Two : q # r => refresh'[q] = refresh[q]
          /\ refresh'[r].used = used /\ refresh'[r].new = 0 /\ refresh'[r].step = step
      BY <2>1, <2>3, <1>types DEF Accounts!Goto, Refresh
    <3>2. Accounts!TypeOK'
      BY <2>1, <2>3, <3>1 DEF AccountInv, Accounts!TypeOK, Refresh
    <3>3. Received(r)' = 0
      BY <3>1 DEF Received, Accounts!At
    <3>4. \A q \in Two :
             \/ refresh'[q] = refresh[q]
             \/ /\ refresh'[q].used \in {refresh[q].used, 0} /\ refresh'[q].new \in 0..issued
                /\ refresh'[q].step # "ask" /\ Received(q)' = 0
                /\ Received(q) # 0 => lost'
      BY <1>types, <2>1, <2>3, <3>1, <3>3
    <3> QED BY <2>1, <2>2, <2>3, <3>2, <3>4, AccountEnds
  <2>4. ASSUME used \in good, issued < MaxTokens, issued' = next, good' = (good \ {used}) \cup {next},
               \/ /\ refresh' = [refresh EXCEPT ![r].step = "store", ![r].new = next]
                  /\ UNCHANGED lost
               \/ Accounts!Goto(r, "error") /\ lost' = TRUE
        PROVE  AccountInv'
    <3>1. /\ next \in Nat /\ next \in Accounts!Token /\ next \notin 0..issued /\ next # 0
          /\ 0..issued \subseteq 0..next /\ good' \subseteq 1..next /\ next \in good'
          /\ next \in 0..next
      BY <1>types, <2>4 DEF Accounts!Token
    <3> HIDE DEF next
    <3>2. /\ refresh' \in [Two -> Refresh] /\ \A q \in Two : q # r => refresh'[q] = refresh[q]
          /\ refresh'[r].used = used
          /\ \/ refresh'[r].step = "store" /\ refresh'[r].new = next /\ lost' = lost
             \/ refresh'[r].step = "error" /\ refresh'[r].new = 0 /\ lost' = TRUE
      BY <2>1, <2>4, <3>1, <1>types DEF Accounts!Goto, Refresh
    <3>3. Accounts!TypeOK'
      BY <2>1, <2>4, <3>1, <3>2 DEF AccountInv, Accounts!TypeOK, Refresh
    <3>4. IssuedInv'
      BY <2>1, <2>4, <3>1, <3>2 DEF AccountInv, IssuedInv, Accounts!At
    <3>5. /\ \A q \in Two : q # r => Received(q)' = Received(q)
          /\ Received(r)' \in {0, next}
      BY <3>2 DEF Received, Accounts!At
    <3>6. next \in Fresh'
      BY <2>1, <2>4, <3>1, <3>2 DEF AccountInv, IssuedInv, Fresh
    <3>7. Fresh \subseteq Fresh'
      BY <2>1, <2>4, <3>2 DEF Fresh
    <3>8. \A q \in Two : Received(q) \in 0..issued
      BY <1>types DEF AccountInv, IssuedInv, Received
    <3>9. ReceivedInv'
      <4>1. \A c \in One : connect[c].token \in 0..issued
        BY DEF AccountInv, IssuedInv
      <4> QED BY <2>1, <3>1, <3>5, <3>6, <3>7, <3>8, <4>1 DEF AccountInv, ReceivedInv
    <3>10. Accounts!StoredTokenIsGood'
      <4>1. CASE lost
        BY <4>1, <3>2 DEF Accounts!StoredTokenIsGood
      <4>2. CASE token.token = used
        BY <4>2, <2>1, <3>1, <3>2 DEF Accounts!StoredTokenIsGood, Accounts!At, Accounts!NoToken
      <4>3. CASE token.token # used /\ token.token \in good \cup {Accounts!NoToken}
        BY <4>3, <2>1, <2>4 DEF Accounts!StoredTokenIsGood
      <4>4. ASSUME NEW q \in Two, Accounts!At(q, "store"), refresh[q].used = token.token,
                   refresh[q].new # Accounts!NoToken
            PROVE  Accounts!StoredTokenIsGood'
        BY <4>4, <2>1, <3>2 DEF Accounts!StoredTokenIsGood, Accounts!At
      <4> QED BY <4>1, <4>2, <4>3, <4>4 DEF AccountInv, Accounts!StoredTokenIsGood
    <3> QED BY <2>2, <3>3, <3>4, <3>9, <3>10 DEF AccountInv
  <2> QED BY <1>7, <2>2, <2>3, <2>4 DEF Accounts!Ask
<1>8. ASSUME NEW r \in Two, Accounts!Store(r)
      PROVE  AccountInv' /\ Renewed
  <2> DEFINE new == refresh[r].new
  <2>1. /\ Accounts!At(r, "store") /\ UNCHANGED <<connect, issued, good>>
        /\ refresh[r] \in Refresh /\ new \in Accounts!Token /\ Received(r) = new
        /\ refresh[r] # Accounts!NoRefresh /\ new \in 0..issued
    BY <1>8, <1>types DEF Accounts!Store, Refresh, Accounts!At, Received, AccountInv, IssuedInv
  <2>2. ASSUME Accounts!replaceCredentialAndSetStatus(new), Accounts!Finish(r),
               late' = late \ {r}, lost' = lost
        PROVE  AccountInv' /\ Renewed
    <3>1. /\ refresh' \in [Two -> Refresh] /\ refresh'[r] = Accounts!NoRefresh
          /\ \A q \in Two : q # r => refresh'[q] = refresh[q]
      BY <2>2, <1>types DEF Accounts!Finish
    <3>2. /\ token' \in Credential /\ status' = "CONNECTED"
          /\ token'.token = IF new # 0 THEN new ELSE token.token
      BY <1>types, <2>1, <2>2
         DEF Accounts!replaceCredentialAndSetStatus, Accounts!Written, Credential,
           Accounts!NoToken
    <3>3. Accounts!TypeOK'
      BY <2>1, <2>2, <3>1, <3>2 DEF AccountInv, Accounts!TypeOK, Refresh, Credential,
           Accounts!SocialAccountStatus
    <3>4. IssuedInv'
      BY <1>types, <2>1, <3>1, <3>2 DEF AccountInv, IssuedInv, Accounts!At
    <3>5. /\ \A q \in Two : q # r => Received(q)' = Received(q)
          /\ Received(r)' = 0
      BY <1>types, <3>1 DEF Received, Accounts!At
    <3>6. \A u \in Fresh : u # 0 /\ u # new => u \in Fresh'
      BY <1>types, <2>1, <3>1, <3>2 DEF Fresh
    <3>7. ReceivedInv'
      BY <2>1, <3>5, <3>6 DEF AccountInv, ReceivedInv
    <3>8. Accounts!StoredTokenIsGood'
      <4>1. CASE new # 0
        BY <4>1, <2>1, <3>2 DEF AccountInv, ReceivedInv, Fresh, Accounts!StoredTokenIsGood
      <4>2. CASE new = 0
        BY <4>2, <2>1, <2>2, <3>1, <3>2 DEF AccountInv, Accounts!StoredTokenIsGood, Accounts!At,
             Accounts!NoToken
      <4> QED BY <4>1, <4>2
    <3>9. LateInv'
      BY <3>2 DEF LateInv
    <3>10. Renewed
      BY <2>1, <3>1 DEF AccountInv, LateInv
    <3> QED BY <3>3, <3>4, <3>7, <3>8, <3>9, <3>10 DEF AccountInv
  <2>3. ASSUME Accounts!Goto(r, "error"), lost' = (lost \/ new # Accounts!NoToken),
               UNCHANGED <<token, status, late>>
        PROVE  AccountInv' /\ Renewed
    <3>1. /\ refresh' \in [Two -> Refresh] /\ refresh'[r].step = "error"
          /\ refresh'[r].used = refresh[r].used /\ refresh'[r].new = new
          /\ \A q \in Two : q # r => refresh'[q] = refresh[q]
      BY <2>1, <2>3, <1>types DEF Accounts!Goto, Refresh
    <3>2. lost' \in BOOLEAN
      BY <2>3
    <3>3. Accounts!TypeOK'
      BY <2>1, <2>3, <3>1, <3>2 DEF AccountInv, Accounts!TypeOK, Refresh
    <3>4. Received(r)' = 0
      BY <3>1 DEF Received, Accounts!At
    <3>5. LateInv'
      BY <2>1, <2>3, <3>1 DEF AccountInv, LateInv
    <3>6. (lost => lost') /\ (Received(r) # 0 => lost')
      BY <2>1, <2>3 DEF Accounts!NoToken
    <3>7. \A q \in Two :
             \/ refresh'[q] = refresh[q]
             \/ /\ refresh'[q].used \in {refresh[q].used, 0} /\ refresh'[q].new \in 0..issued
                /\ refresh'[q].step # "ask" /\ Received(q)' = 0
                /\ Received(q) # 0 => lost'
      BY <2>1, <3>1, <3>4, <3>6
    <3> QED BY <2>1, <2>3, <3>3, <3>5, <3>6, <3>7, AccountEnds
  <2> QED BY <1>8, <2>2, <2>3 DEF Accounts!Store
<1>9. ASSUME NEW r \in Two, Accounts!MarkAccount(r)
      PROVE  AccountInv' /\ Renewed
  <2>1. /\ refresh[r].step \in {"error", "expire"} /\ refresh[r] # Accounts!NoRefresh
        /\ status' \in {"ERROR", "EXPIRED"} /\ late' = late \ {r}
        /\ UNCHANGED <<token, connect, issued, good, lost>>
    BY <1>9, <1>types DEF Accounts!MarkAccount, Accounts!At, Accounts!updateSocialAccountStatus
  <2>2. /\ refresh' \in [Two -> Refresh] /\ refresh'[r] = Accounts!NoRefresh
        /\ \A q \in Two : q # r => refresh'[q] = refresh[q]
    BY <1>9, <1>types DEF Accounts!MarkAccount, Accounts!Finish
  <2>3. Accounts!TypeOK'
    BY <2>1, <2>2 DEF AccountInv, Accounts!TypeOK, Refresh, Accounts!SocialAccountStatus
  <2>4. LateInv'
    BY <2>1 DEF LateInv
  <2>5. Received(r) = 0 /\ Received(r)' = 0
    BY <1>types, <2>1, <2>2 DEF Received, Accounts!At
  <2>6. Renewed
    BY <2>1, <2>2 DEF AccountInv, LateInv
  <2>7. \A q \in Two :
           \/ refresh'[q] = refresh[q]
           \/ /\ refresh'[q].used \in {refresh[q].used, 0} /\ refresh'[q].new \in 0..issued
              /\ refresh'[q].step # "ask" /\ Received(q)' = 0
              /\ Received(q) # 0 => lost'
    BY <1>types, <2>2, <2>5
  <2> QED BY <2>1, <2>3, <2>4, <2>6, <2>7, AccountEnds
<1>10. ASSUME NEW r \in Two, Accounts!Die(r)
       PROVE  AccountInv' /\ Renewed
  <2>1. /\ refresh[r] # Accounts!NoRefresh /\ late' = late \ {r}
        /\ lost' = (lost \/ refresh[r].new # Accounts!NoToken)
        /\ UNCHANGED <<status, token, connect, issued, good>>
    BY <1>10 DEF Accounts!Die
  <2>2. /\ refresh' \in [Two -> Refresh] /\ refresh'[r] = Accounts!NoRefresh
        /\ \A q \in Two : q # r => refresh'[q] = refresh[q]
    BY <1>10, <1>types DEF Accounts!Die, Accounts!Finish
  <2>3. lost' \in BOOLEAN
    BY <2>1
  <2>4. Accounts!TypeOK'
    BY <2>1, <2>2, <2>3 DEF AccountInv, Accounts!TypeOK, Refresh
  <2>5. LateInv'
    BY <2>1, <2>2 DEF AccountInv, LateInv
  <2>6. (lost => lost') /\ (Received(r) # 0 => lost') /\ Received(r)' = 0
    BY <1>types, <2>1, <2>2 DEF Received, Accounts!At, Accounts!NoToken
  <2>7. \A q \in Two :
           \/ refresh'[q] = refresh[q]
           \/ /\ refresh'[q].used \in {refresh[q].used, 0} /\ refresh'[q].new \in 0..issued
              /\ refresh'[q].step # "ask" /\ Received(q)' = 0
              /\ Received(q) # 0 => lost'
    BY <1>types, <2>2, <2>6
  <2> QED BY <2>1, <2>4, <2>5, <2>6, <2>7, AccountEnds
<1>11. CASE UNCHANGED accountVars
  <2>1. Accounts!TypeOK' /\ LateInv' /\ Renewed
    BY <1>11 DEF accountVars, AccountInv, Accounts!TypeOK, LateInv
  <2>2. AccountInv'
    BY <1>11, <2>1, AccountEnds DEF accountVars
  <2> QED BY <2>1, <2>2
<1>12. CASE Accounts!Next
  <2>1. CASE \E c \in One : \/ \E t \in Accounts!Token : Accounts!createSocialAccount(c, t)
                            \/ Accounts!upsertCredential(c) \/ Accounts!DieConnecting(c)
    BY <2>1, <1>1, <1>2, <1>3
  <2>2. CASE Accounts!disconnectSocialAccount \/ Accounts!Expire
    BY <2>2, <1>4, <1>5
  <2>3. CASE \E r \in Two : \/ Accounts!Begin(r) \/ Accounts!Ask(r) \/ Accounts!Store(r)
                            \/ Accounts!MarkAccount(r) \/ Accounts!Die(r)
    BY <2>3, <1>6, <1>7, <1>8, <1>9, <1>10
  <2> QED BY <1>12, <2>1, <2>2, <2>3 DEF Accounts!Next
<1> QED BY <1>11, <1>12 DEF Renewed

LEMMA AccountInvAlways == ServicesSpec => []AccountInv
<1>1. ServicesInit => AccountInv
  BY AccountInit DEF ServicesInit
<1>2. AccountInv /\ [ServicesNext]_allVars => AccountInv'
  BY Steps, AccountNext
<1> QED BY <1>1, <1>2, PTL DEF ServicesSpec

\* Two refreshes of one rotating token never leave the used one behind
\* (social-token-refresh.ts:82-96): the tokens that calls have received are good, and all
\* different, until they are stored or lost.
THEOREM StoredTokenIsGoodAlways == ServicesSpec => []StoredTokenIsGood
<1>1. AccountInv => StoredTokenIsGood
  BY DEF AccountInv, StoredTokenIsGood
<1> QED BY <1>1, AccountInvAlways, PTL

\* A disconnected account is connected again by its user, or by a refresh that was already
\* at work (social-token-refresh.ts:53-56).
THEOREM OnlyLateRefreshesReconnectAlways == ServicesSpec => OnlyLateRefreshesReconnect
<1>1. AccountInv /\ [ServicesNext]_allVars
        => [(status = "DISCONNECTED" /\ status' # "DISCONNECTED")
             => \/ \E c \in One : connect[c] = Accounts!NoConnect
                                   /\ connect'[c] # Accounts!NoConnect
                \/ \E r \in late : refresh'[r] = Accounts!NoRefresh]_(Accounts!vars)
  BY Steps, AccountNext
<1> QED BY <1>1, AccountInvAlways, PTL DEF ServicesSpec, OnlyLateRefreshesReconnect,
           Accounts!OnlyLateRefreshesReconnect

-----------------------------------------------------------------------------
(* Adapters.                                                               *)

Request == [step : Adapters!Steps, platform : Adapters!Platforms,
            key : Keys \cup {Adapters!NoJob}, job : 0..MaxPosts]
Posted == [platform : Adapters!Platforms, key : Keys]

\* What is asked about is a post that was made, and what is posted has its key.
AnswerOf(r, posts, there) ==
  /\ r.step \in {"container", "post"} => r.key \in Keys
  /\ r.step \in {"ask", "exists", "not found", "published"} => r.job \in DOMAIN posts
  /\ r.step = "published" => posts[r.job] = [platform |-> r.platform, key |-> r.key]
  /\ r.step = "not found" => r.job \notin there

AdapterTypes == request \in [Two -> Request] /\ made \in Seq(Posted) /\ Len(made) <= MaxPosts
                /\ present \subseteq 1..Len(made)

AdapterInv == AdapterTypes /\ \A c \in Two : AnswerOf(request[c], made, present)

LEMMA AdapterInit == Adapters!Init => AdapterInv
<1> SUFFICES ASSUME Adapters!Init PROVE AdapterInv
  OBVIOUS
<1>1. Adapters!NoCall \in Request /\ Adapters!NoCall.step = "idle"
  BY ServicesAssumption DEF Adapters!NoCall, Request, Adapters!Steps, Adapters!Platforms,
       Adapters!NoJob
<1>2. request = [c \in Two |-> Adapters!NoCall] /\ made = <<>> /\ present = {}
  BY DEF Adapters!Init
<1>3. AdapterTypes
  BY <1>1, <1>2, ServicesAssumption DEF AdapterTypes
<1> QED BY <1>1, <1>2, <1>3 DEF AdapterInv, AnswerOf

\* What holds of a step of one call.
LEMMA AdapterKeeps ==
  ASSUME AdapterInv, NEW c \in Two, NEW to \in Request, request' = [request EXCEPT ![c] = to],
         \/ UNCHANGED <<made, present>>
         \/ /\ Len(made) < MaxPosts
            /\ \E post \in Posted : made' = Append(made, post)
            /\ present' = present \cup {Len(made) + 1},
         AnswerOf(to, made', present')
  PROVE  AdapterInv'
<1> DEFINE n == Len(made) + 1
<1>1. /\ request \in [Two -> Request] /\ made \in Seq(Posted) /\ Len(made) \in Nat
      /\ present \subseteq 1..Len(made) /\ Len(made) <= MaxPosts /\ MaxPosts \in Nat
      /\ DOMAIN made = 1..Len(made)
  BY ServicesAssumption DEF AdapterInv, AdapterTypes
<1>2. /\ request' \in [Two -> Request] /\ request'[c] = to
      /\ \A d \in Two : d # c => request'[d] = request[d]
  BY <1>1
<1>3. /\ made' \in Seq(Posted) /\ Len(made') <= MaxPosts /\ present' \subseteq 1..Len(made')
      /\ DOMAIN made \subseteq DOMAIN made' /\ \A i \in DOMAIN made : made'[i] = made[i]
      /\ present' \cap DOMAIN made \subseteq present
  <2>1. CASE UNCHANGED <<made, present>>
    BY <1>1, <2>1
  <2>2. ASSUME NEW post \in Posted, made' = Append(made, post), Len(made) < MaxPosts,
               present' = present \cup {n}
        PROVE  /\ made' \in Seq(Posted) /\ Len(made') <= MaxPosts /\ present' \subseteq 1..Len(made')
               /\ DOMAIN made \subseteq DOMAIN made' /\ \A i \in DOMAIN made : made'[i] = made[i]
               /\ present' \cap DOMAIN made \subseteq present
    <3> HIDE DEF n
    <3>0. made \in Seq(Posted) /\ made' = Append(made, post) /\ n = Len(made) + 1
      BY <1>1, <2>2 DEF n
    <3>1. /\ made' \in Seq(Posted) /\ Len(made') = n /\ DOMAIN made' = 1..n
          /\ \A i \in 1..Len(made) : made'[i] = made[i]
      BY <3>0
    <3>2. /\ n \in Nat /\ n <= MaxPosts /\ n \notin 1..Len(made) /\ n \in 1..n
          /\ 1..Len(made) \subseteq 1..n
      <4>1. Len(made) \in Nat /\ Len(made) < MaxPosts /\ MaxPosts \in Nat /\ n = Len(made) + 1
        BY <1>1, <2>2 DEF n
      <4> QED BY <4>1
    <3>3. present' = present \cup {n}
      BY <2>2 DEF n
    <3> QED BY <1>1, <3>1, <3>2, <3>3
  <2> QED BY <2>1, <2>2
<1>4. ASSUME NEW d \in Two
      PROVE  AnswerOf(request[d], made, present)'
  <2>1. CASE d = c
    BY <1>2, <2>1
  <2>2. CASE d # c
    BY <1>2, <1>3, <2>2 DEF AdapterInv, AnswerOf
  <2> QED BY <2>1, <2>2
<1> QED BY <1>2, <1>3, <1>4 DEF AdapterInv, AdapterTypes

LEMMA AdapterNext ==
  ASSUME AdapterInv, [Adapters!Next]_adapterVars
  PROVE  AdapterInv'
<1>types. /\ request \in [Two -> Request] /\ made \in Seq(Posted) /\ Len(made) \in Nat
      /\ DOMAIN made = 1..Len(made) /\ Len(made) <= MaxPosts /\ MaxPosts \in Nat
  BY ServicesAssumption DEF AdapterInv, AdapterTypes
<1>p. \A p \in DOMAIN made : p \in 0..MaxPosts
  BY <1>types
<1>n. Adapters!NoJob \in 0..MaxPosts /\ Adapters!NoJob \in Keys \cup {Adapters!NoJob}
  BY <1>types DEF Adapters!NoJob
<1>1. ASSUME NEW c \in Two, NEW step \in {"threw", "post", "container"},
             NEW platform \in Adapters!Platforms, NEW k \in Keys,
             request' = [request EXCEPT ![c] = [step |-> step, platform |-> platform, key |-> k,
                                                job |-> Adapters!NoJob]],
             UNCHANGED <<made, present>>
      PROVE  AdapterInv'
  <2> DEFINE to == [step |-> step, platform |-> platform, key |-> k, job |-> Adapters!NoJob]
  <2>1. to \in Request /\ to.step = step /\ to.key = k
    BY <1>n DEF Request, Adapters!Steps
  <2>2. request' = [request EXCEPT ![c] = to]
    BY <1>1
  <2> HIDE DEF to
  <2> QED BY <1>1, <2>1, <2>2, AdapterKeeps DEF AnswerOf
<1>2. ASSUME NEW c \in Two, NEW step \in Adapters!Steps, Adapters!Goto(c, step),
             UNCHANGED <<made, present>>,
             AnswerOf([request[c] EXCEPT !.step = step], made, present)
      PROVE  AdapterInv'
  <2> DEFINE to == [request[c] EXCEPT !.step = step]
  <2>1. to \in Request /\ request' = [request EXCEPT ![c] = to]
    BY <1>types, <1>2 DEF Request, Adapters!Goto
  <2>2. AnswerOf(to, made', present')
    BY <1>2
  <2> HIDE DEF to
  <2> QED BY <1>2, <2>1, <2>2, AdapterKeeps
<1>3. ASSUME NEW c \in Two, Adapters!Container(c)
      PROVE  AdapterInv'
  <2>1. /\ request[c].step = "container" /\ UNCHANGED <<made, present>>
        /\ Adapters!Goto(c, "post") \/ Adapters!Goto(c, "threw")
    BY <1>3 DEF Adapters!Container, Adapters!At
  <2>2. AnswerOf(request[c], made, present) /\ request[c] \in Request
    BY <1>types DEF AdapterInv
  <2>3. \A step \in {"post", "threw"} : AnswerOf([request[c] EXCEPT !.step = step], made, present)
    BY <2>1, <2>2 DEF AnswerOf, Request
  <2> QED BY <2>1, <2>3, <1>2 DEF Adapters!Steps
<1>4. ASSUME NEW c \in Two, Adapters!Request(c)
      PROVE  AdapterInv'
  <2>1. /\ request[c].step = "post" /\ AnswerOf(request[c], made, present)
        /\ request[c] \in Request /\ request[c].key \in Keys
    BY <1>4, <1>types DEF Adapters!Request, Adapters!At, AdapterInv, AnswerOf
  <2>2. CASE Adapters!Goto(c, "threw") /\ UNCHANGED <<made, present>>
    <3>1. AnswerOf([request[c] EXCEPT !.step = "threw"], made, present)
      BY <2>1 DEF AnswerOf, Request
    <3> QED BY <2>2, <3>1, <1>2 DEF Adapters!Steps
  <2>3. ASSUME NEW p \in 1..MaxPosts, Adapters!Creates(c, p),
               Adapters!Answer(c, "published", p) \/ Adapters!Goto(c, "threw")
        PROVE  AdapterInv'
    <3> DEFINE told == Adapters!Told(c)
    <3>1. told = [platform |-> request[c].platform, key |-> request[c].key] /\ told \in Posted
      BY <2>1 DEF Adapters!Told, Request, Posted
    <3> HIDE DEF told
    <3>2. /\ p \in DOMAIN made' /\ made'[p] = told
          /\ \/ UNCHANGED <<made, present>>
             \/ /\ Len(made) < MaxPosts
                /\ \E post \in Posted : made' = Append(made, post)
                /\ present' = present \cup {Len(made) + 1}
      <4>1. CASE p \in DOMAIN made /\ made[p] = told /\ UNCHANGED <<made, present>>
        BY <4>1
      <4>2. CASE p = Len(made) + 1 /\ made' = Append(made, told) /\ present' = present \cup {p}
        <5>1. made' \in Seq(Posted) /\ Len(made') = p /\ made'[p] = told /\ p \in DOMAIN made'
          BY <1>types, <3>1, <4>2
        <5>2. Len(made) < MaxPosts
          BY <1>types, <4>2
        <5> QED BY <3>1, <4>2, <5>1, <5>2
      <4> QED BY <2>3, <4>1, <4>2 DEF Adapters!Creates, Adapters!New, Adapters!Post, told
    <3> DEFINE posted == [request[c] EXCEPT !.step = "published", !.job = p]
               thrown == [request[c] EXCEPT !.step = "threw"]
    <3>3. request' = [request EXCEPT ![c] = posted] \/ request' = [request EXCEPT ![c] = thrown]
      BY <2>3, <1>types DEF Adapters!Answer, Adapters!Goto
    <3>4. p \in 0..MaxPosts
      BY <1>types
    <3>5. /\ posted \in Request /\ posted.step = "published" /\ posted.job = p
          /\ posted.platform = request[c].platform /\ posted.key = request[c].key
          /\ thrown \in Request /\ thrown.step = "threw"
      BY <2>1, <3>4 DEF Request, Adapters!Steps
    <3> HIDE DEF posted, thrown
    <3>6. AnswerOf(posted, made', present') /\ AnswerOf(thrown, made', present')
      BY <3>1, <3>2, <3>5 DEF AnswerOf
    <3> QED BY <3>2, <3>3, <3>5, <3>6, AdapterKeeps
  <2> QED BY <1>4, <2>2, <2>3 DEF Adapters!Request
<1>5. ASSUME NEW c \in Two, Adapters!Lookup(c)
      PROVE  AdapterInv'
  <2>1. /\ request[c].step = "ask" /\ UNCHANGED <<made, present>>
        /\ Adapters!Goto(c, "threw") \/ Adapters!Goto(c, Adapters!Shown(c))
    BY <1>5 DEF Adapters!Lookup, Adapters!At
  <2>2. AnswerOf(request[c], made, present) /\ request[c] \in Request
    BY <1>types DEF AdapterInv
  <2>3. AnswerOf([request[c] EXCEPT !.step = "threw"], made, present)
    BY <2>1, <2>2 DEF AnswerOf, Request
  <2>4. /\ AnswerOf([request[c] EXCEPT !.step = Adapters!Shown(c)], made, present)
        /\ Adapters!Shown(c) \in {"exists", "not found"}
    BY <2>1, <2>2 DEF AnswerOf, Request, Adapters!Shown
  <2> QED BY <2>1, <2>3, <2>4, <1>2 DEF Adapters!Steps
<1>6. ASSUME NEW c \in Two, NEW platform \in Adapters!Platforms,
             NEW p \in {Adapters!NoJob} \cup Adapters!Post, Adapters!GetStatus(c, platform, p)
      PROVE  AdapterInv'
  <2> DEFINE to == [step |-> IF p = Adapters!NoJob THEN "unknown" ELSE "ask",
                    platform |-> platform, key |-> Adapters!NoJob, job |-> p]
  <2>1. request' = [request EXCEPT ![c] = to] /\ UNCHANGED <<made, present>>
    BY <1>6 DEF Adapters!GetStatus
  <2>2. /\ to \in Request /\ to.step \in {"unknown", "ask"} /\ to.job = p
        /\ (to.step = "ask" => p \in DOMAIN made)
    BY <1>n, <1>p DEF Request, Adapters!Steps, Adapters!Post
  <2> HIDE DEF to
  <2> QED BY <2>1, <2>2, AdapterKeeps DEF AnswerOf
<1>7. ASSUME NEW p \in Adapters!Post, Adapters!Delete(p)
      PROVE  AdapterInv'
  BY <1>7 DEF Adapters!Delete, AdapterInv, AdapterTypes, AnswerOf
<1>8. CASE UNCHANGED adapterVars
  BY <1>8 DEF adapterVars, AdapterInv, AdapterTypes, AnswerOf
<1>9. ASSUME NEW c \in Two, NEW k \in Keys, Adapters!PublishVk(c, k) \/ Adapters!PublishInstagram(c, k)
      PROVE  AdapterInv'
  BY <1>9, <1>1 DEF Adapters!PublishVk, Adapters!PublishInstagram, Adapters!Platforms
<1> QED BY <1>3, <1>4, <1>5, <1>6, <1>7, <1>8, <1>9 DEF Adapters!Next

\* What a client of VK or Instagram answers of a post is true of it (providers'
\* publishing.ts:192-236, 377-436): posts are never unmade, and one that was deleted does
\* not come back.
THEOREM AnswersAreTrueAlways == ServicesSpec => []AnswersAreTrue
<1>1. ServicesInit => AdapterInv
  BY AdapterInit DEF ServicesInit
<1>2. AdapterInv /\ [ServicesNext]_allVars => AdapterInv'
  BY Steps, AdapterNext
<1>3. AdapterInv => AnswersAreTrue
  BY DEF AdapterInv, AnswerOf, AnswersAreTrue, Adapters!AnswersAreTrue, Adapters!At, Adapters!Post
<1> QED BY <1>1, <1>2, <1>3, PTL DEF ServicesSpec

-----------------------------------------------------------------------------
(* Actors.                                                                 *)

Caller ==
  [step : {"idle", "assert brand", "organization", "membership", "brand", "access", "act"},
   kind : {"service", "brandless", "webhook"} \cup Actors!FromTool,
   need : Asked \cup Actors!Permission, permissions : SUBSET Actors!Permission]

\* What a call on its way in may still miss, by the checks it has passed.
MayMiss(a) ==
  CASE a.step = "assert brand" /\ a.kind \notin {"tool", "get_brand"} -> {"brand"}
    [] a.step = "assert brand" /\ a.kind \in {"tool", "get_brand"} ->
         {"organization", "member", "brand", a.need}
    [] a.step = "organization" /\ a.kind \notin Actors!Brandless ->
         {"organization", "member", "brand", a.need}
    [] a.step = "organization" /\ a.kind \in Actors!Brandless -> {"organization", "member", a.need}
    [] a.step = "membership" /\ a.kind \notin Actors!Brandless -> {"member", "brand", a.need}
    [] a.step = "membership" /\ a.kind \in Actors!Brandless -> {"member", a.need}
    [] a.step = "brand" -> {"brand", a.need}
    [] a.step = "access" -> {a.need}
    [] a.step = "act" -> {}
    [] a.step = "idle" -> {}

\* The permissions resolved for a call were its user's since it began, and a tool's
\* process has the one it needs.
WayIn(a, m) ==
  /\ m \cap Actors!Facts = {} /\ m \subseteq MayMiss(a)
  /\ a.step \in {"brand", "access"} => a.permissions \cap m = {}
  /\ a.kind \in Actors!FromTool /\ a.step # "idle"
       => session.step = "on" /\ a.need \in session.permissions

\* What is true while the process starts is remembered, and what it was started with was
\* true then.
ProcessInv ==
  /\ session.step \in {"off", "organization", "membership", "on"}
  /\ session.scopes \subseteq DOMAIN Actors!scopePermission
  /\ Actors!Starting => Actors!Standing \cup session.scopes \subseteq started
  /\ session.step = "membership" => "organization" \in started
  /\ session.step = "on" =>
       /\ {"organization", "member"} \subseteq started
       /\ \A p \in session.permissions :
            /\ p \in started
            /\ \E s \in DOMAIN Actors!scopePermission :
                 Actors!scopePermission[s] = p /\ s \in started

Session == [step : {"off", "organization", "membership", "on"},
            scopes : SUBSET {"READ", "WRITE", "APPROVE", "ADMIN"}, permissions : SUBSET Actors!Permission]

ActorTypes ==
  /\ membership \in MembershipRoles \cup {"NONE"} /\ key \in Scopes \cup {{}}
  /\ admission \in [One -> Caller] /\ DOMAIN missing = One /\ missing = [c \in One |-> missing[c]]
  /\ session \in Session

ActorInv == ActorTypes /\ ProcessInv /\ \A c \in One : WayIn(admission[c], missing[c])

LEMMA RolePermissions ==
  /\ \A m \in MembershipRoles \cup {"NONE"} : Actors!organizationPermissions[m] \subseteq Actors!Permission
  /\ Actors!brandPermissions["NONE"] = {}
  /\ DOMAIN Actors!scopePermission = {"READ", "WRITE", "APPROVE", "ADMIN"}
<1>1. \A m \in {"OWNER", "ADMIN", "EDITOR", "REVIEWER", "VIEWER", "NONE"} :
         Actors!organizationPermissions[m] \subseteq Actors!Permission
  BY DEF Actors!organizationPermissions, Actors!Permission
<1>2. Actors!brandPermissions["NONE"] = {}
  BY DEF Actors!brandPermissions
<1>3. DOMAIN Actors!scopePermission = {"READ", "WRITE", "APPROVE", "ADMIN"}
  BY DEF Actors!scopePermission
<1> QED BY <1>1, <1>2, <1>3, ServicesAssumption

LEMMA ActorInit == Actors!Init => ActorInv
<1> SUFFICES ASSUME Actors!Init PROVE ActorInv
  OBVIOUS
<1>1. /\ membership \in MembershipRoles /\ key = {} /\ session = Actors!NoSession /\ started = {}
      /\ admission = [c \in One |-> Actors!NoCall] /\ missing = [c \in One |-> {}]
  BY DEF Actors!Init
<1>2. Actors!NoCall \in Caller /\ Actors!NoCall.step = "idle" /\ Actors!NoCall.kind = "service"
  BY DEF Actors!NoCall, Caller, Actors!Permission
<1>3. Actors!NoSession \in Session /\ Actors!NoSession.step = "off" /\ Actors!NoSession.scopes = {}
  BY DEF Actors!NoSession, Session
<1>4. ActorTypes
  BY <1>1, <1>2, <1>3 DEF ActorTypes
<1>5. ProcessInv
  BY <1>1, <1>3 DEF ProcessInv, Actors!Starting
<1>6. \A c \in One : WayIn(admission[c], missing[c])
  BY <1>1, <1>2 DEF WayIn
<1> QED BY <1>4, <1>5, <1>6 DEF ActorInv

\* What holds of a step of one call.
LEMMA ActorKeeps ==
  ASSUME ActorInv, NEW c \in One, NEW to \in Caller, NEW m,
         admission' = [admission EXCEPT ![c] = to], missing' = [missing EXCEPT ![c] = m],
         UNCHANGED <<organization, membership, brand, access, key, credential, session, started>>,
         WayIn(to, m)
  PROVE  ActorInv'
<1>1. /\ admission \in [One -> Caller] /\ missing = [d \in One |-> missing[d]]
  BY DEF ActorInv, ActorTypes
<1>2. /\ admission' \in [One -> Caller] /\ admission'[c] = to
      /\ \A d \in One : d # c => admission'[d] = admission[d]
  BY <1>1
<1>3. /\ missing' = [d \in One |-> missing'[d]] /\ missing'[c] = m /\ DOMAIN missing' = One
      /\ \A d \in One : d # c => missing'[d] = missing[d]
  BY <1>1
<1>4. ActorTypes'
  BY <1>2, <1>3 DEF ActorInv, ActorTypes
<1>5. ProcessInv' /\ Actors!Facts' = Actors!Facts
  BY DEF ActorInv, ProcessInv, Actors!Starting, Actors!Standing, Actors!Facts
<1>6. ASSUME NEW d \in One
      PROVE  WayIn(admission[d], missing[d])'
  <2>1. CASE d = c
    BY <1>2, <1>3, <1>5, <2>1 DEF WayIn, MayMiss
  <2>2. CASE d # c
    BY <1>2, <1>3, <1>5, <2>2 DEF ActorInv, WayIn, MayMiss
  <2> QED BY <2>1, <2>2
<1> QED BY <1>4, <1>5, <1>6 DEF ActorInv

\* What holds of a step of the process, and of a change of rows.
LEMMA SessionKeeps ==
  ASSUME ActorInv, session' \in Session, ProcessInv',
         UNCHANGED <<organization, membership, brand, access, key, credential, admission, missing>>,
         session.step # "on" \/ \A c \in One : admission[c].kind \notin Actors!FromTool
  PROVE  ActorInv'
<1>1. ActorTypes' /\ Actors!Facts' = Actors!Facts
  BY DEF ActorInv, ActorTypes, Actors!Facts, Actors!Standing
<1>2. ASSUME NEW c \in One
      PROVE  WayIn(admission[c], missing[c])'
  BY <1>1 DEF ActorInv, WayIn, MayMiss
<1> QED BY <1>1, <1>2 DEF ActorInv

LEMMA RowsKeep ==
  ASSUME ActorInv, Actors!Remember, UNCHANGED <<session, admission>>,
         membership' \in MembershipRoles \cup {"NONE"}, key' \in Scopes \cup {{}}
  PROVE  ActorInv'
<1>1. /\ started' = IF Actors!Starting THEN started \cup Actors!Standing' ELSE started
      /\ missing' = [c \in One |-> missing[c] \ Actors!Facts']
  BY DEF Actors!Remember
<1>2. ActorTypes'
  BY <1>1 DEF ActorInv, ActorTypes
<1>3. ProcessInv'
  <2>1. Actors!Starting' = Actors!Starting
    BY DEF Actors!Starting
  <2>2. Actors!Starting => Actors!Standing' \cup session.scopes \subseteq started'
    BY <1>1 DEF ActorInv, ProcessInv
  <2>3. started \subseteq started'
    BY <1>1
  <2> QED BY <2>1, <2>2, <2>3 DEF ActorInv, ProcessInv
<1>4. ASSUME NEW c \in One
      PROVE  WayIn(admission[c], missing[c])'
  <2>1. missing'[c] = missing[c] \ Actors!Facts'
    BY <1>1
  <2>2. MayMiss(admission[c])' = MayMiss(admission[c])
    BY DEF MayMiss
  <2> QED BY <2>1, <2>2 DEF ActorInv, WayIn
<1> QED BY <1>2, <1>3, <1>4 DEF ActorInv

\* A call begins with what is not true yet of all it needs.
LEMMA ActorBegins ==
  ASSUME ActorInv, NEW c \in One, NEW operation, NEW step, Actors!Begin(c, operation, step),
         operation.kind \in {"service", "brandless", "webhook"} \cup Actors!FromTool,
         operation.need \in Asked \cup Actors!Permission,
         \/ step = "organization" /\ operation.kind \in {"service", "brandless", "list_brands"}
         \/ /\ step = "assert brand"
            /\ operation.kind \in {"tool", "get_brand", "create_content_project", "webhook"},
         operation.kind = "webhook" => organization /\ credential,
         operation.kind \in Actors!FromTool
           => session.step = "on" /\ operation.need \in session.permissions
  PROVE  ActorInv'
<1> DEFINE to == [step |-> step, kind |-> operation.kind, need |-> operation.need,
                  permissions |-> {}]
           m == Actors!Needs(operation) \ Actors!Facts
<1>1. /\ admission' = [admission EXCEPT ![c] = to] /\ missing' = [missing EXCEPT ![c] = m]
      /\ UNCHANGED <<organization, membership, brand, access, key, credential, session, started>>
  BY DEF Actors!Begin, Actors!rows
<1>2. /\ to \in Caller /\ to.step = step /\ to.kind = operation.kind /\ to.need = operation.need
  BY DEF Caller
<1>3. m \subseteq MayMiss(to)
  <2>1. CASE operation.kind = "webhook"
    <3>1. {"organization", "credential"} \subseteq Actors!Facts
      BY <2>1 DEF Actors!Facts, Actors!Standing
    <3>2. Actors!Needs(operation) = {"organization", "credential", "brand"}
      BY <2>1 DEF Actors!Needs
    <3> QED BY <1>2, <2>1, <3>1, <3>2 DEF MayMiss
  <2>2. CASE operation.kind = "create_content_project"
    <3>1. Actors!Needs(operation) = {"brand"}
      BY <2>2 DEF Actors!Needs
    <3> QED BY <1>2, <2>2, <3>1 DEF MayMiss
  <2>3. CASE operation.kind \in {"service", "tool", "get_brand"}
    <3>1. Actors!Needs(operation) = {"organization", "member", "brand", operation.need}
      BY <2>3 DEF Actors!Needs
    <3> QED BY <1>2, <2>3, <3>1 DEF MayMiss, Actors!Brandless
  <2>4. CASE operation.kind \in {"list_brands", "brandless"}
    <3>1. Actors!Needs(operation) = {"organization", "member", operation.need}
      BY <2>4 DEF Actors!Needs
    <3> QED BY <1>2, <2>4, <3>1 DEF MayMiss, Actors!Brandless
  <2> QED BY <2>1, <2>2, <2>3, <2>4 DEF Actors!FromTool
<1>4. m \cap Actors!Facts = {}
  OBVIOUS
<1> HIDE DEF m, to
<1>5. WayIn(to, m)
  BY <1>2, <1>3, <1>4 DEF WayIn
<1> QED BY <1>1, <1>2, <1>5, ActorKeeps

LEMMA ActorNext ==
  ASSUME ActorInv, [Actors!Next]_actorVars
  PROVE  ActorInv'
<1>types. ActorTypes
  BY DEF ActorInv
<1>1. CASE Actors!Administer \/ Actors!createKey \/ Actors!revokeApiKey
  <2>1. /\ Actors!Remember /\ UNCHANGED <<session, admission>>
        /\ membership' \in MembershipRoles \cup {"NONE"} /\ key' \in Scopes \cup {{}}
    BY <1>1, <1>types DEF Actors!Administer, Actors!createKey, Actors!revokeApiKey, ActorTypes
  <2> QED BY <2>1, RowsKeep
<1>2. CASE Actors!findActiveApiKey
  <2> DEFINE to == [step |-> "organization", scopes |-> key, permissions |-> {}]
  <2>1. /\ session' = to /\ started' = Actors!Standing /\ session.step = "off"
        /\ UNCHANGED <<organization, membership, brand, access, key, credential, admission, missing>>
    BY <1>2 DEF Actors!findActiveApiKey, Actors!rows, Actors!NoSession
  <2>2. key \subseteq {"READ", "WRITE", "APPROVE", "ADMIN"}
    BY <1>types, ServicesAssumption DEF ActorTypes
  <2>3. to \in Session /\ to.step = "organization" /\ to.scopes = key
    BY <2>2 DEF Session
  <2> HIDE DEF to
  <2>4. ProcessInv'
    <3>1. Actors!Standing' = Actors!Standing /\ key \subseteq Actors!Standing
      BY <2>1 DEF Actors!Standing
    <3> QED BY <2>1, <2>2, <2>3, <3>1, RolePermissions DEF ProcessInv
  <2> QED BY <2>1, <2>3, <2>4, SessionKeeps
<1>3. ASSUME Actors!NoProcess, UNCHANGED <<organization, membership, brand, access, key, credential,
                                           admission, missing>>,
             session.step # "on" \/ \A c \in One : admission[c].kind \notin Actors!FromTool
      PROVE  ActorInv'
  <2>1. /\ session' \in Session /\ session'.step = "off" /\ session'.scopes = {}
    BY <1>3 DEF Actors!NoProcess, Actors!NoSession, Session
  <2>2. ProcessInv'
    BY <2>1 DEF ProcessInv, Actors!Starting
  <2> QED BY <1>3, <2>1, <2>2, SessionKeeps
<1>4. CASE Actors!sessionOrganization
  <2>1. /\ session.step = "organization"
        /\ UNCHANGED <<organization, membership, brand, access, key, credential, admission, missing>>
        /\ \/ /\ organization /\ session' = [session EXCEPT !.step = "membership"]
              /\ started' = started
           \/ Actors!NoProcess
    BY <1>4 DEF Actors!sessionOrganization, Actors!rows
  <2>2. CASE organization /\ session' = [session EXCEPT !.step = "membership"] /\ started' = started
    <3>1. /\ session' \in Session /\ session'.step = "membership"
          /\ session'.scopes = session.scopes
      BY <1>types, <2>2 DEF ActorTypes, Session
    <3>2. Actors!Standing' = Actors!Standing /\ "organization" \in Actors!Standing
      BY <2>1, <2>2 DEF Actors!Standing
    <3>3. ProcessInv'
      BY <2>1, <2>2, <3>1, <3>2 DEF ActorInv, ProcessInv, Actors!Starting
    <3> QED BY <2>1, <3>1, <3>3, SessionKeeps
  <2> QED BY <2>1, <2>2, <1>3
<1>5. CASE Actors!authenticate
  <2> DEFINE granted == Actors!organizationPermissions[membership]
                          \cap {Actors!scopePermission[s] : s \in session.scopes}
  <2>1. /\ session.step = "membership"
        /\ UNCHANGED <<organization, membership, brand, access, key, credential, admission, missing>>
        /\ \/ Actors!NoProcess
           \/ /\ membership # "NONE" /\ started' = started
              /\ session' = [session EXCEPT !.step = "on", !.permissions = granted]
    BY <1>5 DEF Actors!authenticate, Actors!rows
  <2>2. CASE /\ membership # "NONE" /\ started' = started
             /\ session' = [session EXCEPT !.step = "on", !.permissions = granted]
    <3>1. granted \in SUBSET Actors!Permission
      BY <1>types, RolePermissions DEF ActorTypes
    <3>2. /\ session' \in Session /\ session'.step = "on"
          /\ session'.scopes = session.scopes /\ session'.permissions = granted
      BY <1>types, <2>2, <3>1 DEF ActorTypes, Session
    <3>3. /\ "member" \in Actors!Standing
          /\ Actors!organizationPermissions[membership] \subseteq Actors!Standing
      BY <2>2 DEF Actors!Standing
    <3>4. Actors!Standing \cup session.scopes \subseteq started /\ "organization" \in started
      BY <2>1 DEF ActorInv, ProcessInv, Actors!Starting
    <3>5. \A p \in granted : /\ p \in started
                             /\ \E s \in DOMAIN Actors!scopePermission :
                                  Actors!scopePermission[s] = p /\ s \in started
      BY <3>3, <3>4 DEF ActorInv, ProcessInv
    <3> HIDE DEF granted
    <3>6. ProcessInv'
      BY <2>2, <3>2, <3>3, <3>4, <3>5 DEF ActorInv, ProcessInv, Actors!Starting
    <3> QED BY <2>1, <3>2, <3>6, SessionKeeps
  <2> QED BY <2>1, <2>2, <1>3
<1>6. CASE Actors!StopProcess
  BY <1>6, <1>3 DEF Actors!StopProcess, Actors!rows
\* A call that passes a check, or ends.
<1>7. ASSUME NEW c \in One, Actors!Leave(c), UNCHANGED <<Actors!rows, session, started>>
      PROVE  ActorInv'
  <2>1. /\ Actors!NoCall \in Caller /\ Actors!NoCall.step = "idle"
        /\ WayIn(Actors!NoCall, {})
    BY DEF Actors!NoCall, Caller, Actors!Permission, WayIn
  <2>2. /\ admission' = [admission EXCEPT ![c] = Actors!NoCall]
        /\ missing' = [missing EXCEPT ![c] = {}]
        /\ UNCHANGED <<organization, membership, brand, access, key, credential, session, started>>
    BY <1>7 DEF Actors!Leave, Actors!rows
  <2> QED BY <2>1, <2>2, ActorKeeps
<1>8. ASSUME NEW c \in One, NEW step, NEW granted, Actors!Pass(c, granted, step),
             UNCHANGED <<Actors!rows, session, started>>,
             granted => /\ [admission[c] EXCEPT !.step = step] \in Caller
                        /\ WayIn([admission[c] EXCEPT !.step = step], missing[c])
      PROVE  ActorInv'
  <2>1. CASE Actors!Goto(c, step) /\ UNCHANGED missing /\ granted
    <3> DEFINE to == [admission[c] EXCEPT !.step = step]
    <3>1. /\ admission' = [admission EXCEPT ![c] = to]
          /\ missing' = [missing EXCEPT ![c] = missing[c]]
          /\ UNCHANGED <<organization, membership, brand, access, key, credential, session, started>>
      BY <1>8, <1>types, <2>1 DEF Actors!Goto, ActorTypes, Actors!rows
    <3>2. to \in Caller /\ WayIn(to, missing[c])
      BY <1>8, <2>1
    <3> HIDE DEF to
    <3> QED BY <3>1, <3>2, ActorKeeps
  <2> QED BY <1>7, <1>8, <2>1 DEF Actors!Pass
<1>9. ASSUME NEW c \in One, Actors!At(c, "assert brand"), Actors!assertBrand(c)
      PROVE  ActorInv'
  <2> DEFINE a == admission[c]
             step == IF a.kind \in {"tool", "get_brand"} THEN "organization" ELSE "act"
             to == [a EXCEPT !.step = step]
  <2>1. a \in Caller /\ a.step = "assert brand" /\ WayIn(a, missing[c])
    BY <1>9, <1>types DEF ActorTypes, Actors!At, ActorInv
  <2>2. /\ to \in Caller /\ to.step = step /\ to.kind = a.kind /\ to.need = a.need
    BY <2>1 DEF Caller
  <2>3. brand => "brand" \notin missing[c]
    BY <2>1 DEF WayIn, Actors!Facts
  <2>4. brand => WayIn(to, missing[c])
    <3> SUFFICES ASSUME brand PROVE WayIn(to, missing[c])
      OBVIOUS
    <3> HIDE DEF to
    <3>1. missing[c] \subseteq MayMiss(to)
      <4>1. CASE a.kind \notin {"tool", "get_brand"}
        <5>1. MayMiss(a) = {"brand"}
          BY <2>1, <4>1 DEF MayMiss
        <5>2. MayMiss(to) = {}
          BY <2>2, <4>1 DEF MayMiss
        <5> QED BY <2>1, <2>3, <5>1, <5>2 DEF WayIn
      <4>2. CASE a.kind = "tool"
        <5>1. MayMiss(a) = {"organization", "member", "brand", a.need}
          BY <2>1, <4>2 DEF MayMiss
        <5>2. to.step = "organization" /\ to.kind \notin Actors!Brandless
          BY <2>2, <4>2 DEF Actors!Brandless
        <5>3. MayMiss(to) = {"organization", "member", "brand", to.need}
          BY <5>2 DEF MayMiss
        <5> QED BY <2>1, <2>2, <5>1, <5>3 DEF WayIn
      <4>3. CASE a.kind = "get_brand"
        <5>1. MayMiss(a) = {"organization", "member", "brand", a.need}
          BY <2>1, <4>3 DEF MayMiss
        <5>2. to.step = "organization" /\ to.kind \in Actors!Brandless
          BY <2>2, <4>3 DEF Actors!Brandless
        <5>3. MayMiss(to) = {"organization", "member", to.need}
          BY <5>2 DEF MayMiss
        <5> QED BY <2>1, <2>2, <2>3, <5>1, <5>3 DEF WayIn
      <4> QED BY <4>1, <4>2, <4>3
    <3>2. to.step \notin {"brand", "access", "idle"}
      BY <2>2
    <3> QED BY <2>1, <2>2, <3>1, <3>2 DEF WayIn
  <2> QED BY <1>8, <1>9, <2>2, <2>4 DEF Actors!assertBrand
<1>10. ASSUME NEW c \in One, Actors!isOrganizationActive(c)
       PROVE  ActorInv'
  <2> DEFINE a == admission[c]
             to == [a EXCEPT !.step = "membership"]
  <2>1. a \in Caller /\ a.step = "organization" /\ WayIn(a, missing[c])
    BY <1>10, <1>types DEF ActorTypes, Actors!At, ActorInv, Actors!isOrganizationActive
  <2>2. /\ to \in Caller /\ to.step = "membership" /\ to.kind = a.kind /\ to.need = a.need
    BY <2>1 DEF Caller
  <2>3. organization => "organization" \notin missing[c]
    BY <2>1 DEF WayIn, Actors!Facts, Actors!Standing
  <2>4. MayMiss(a) \subseteq MayMiss(to) \cup {"organization"}
    BY <2>1, <2>2 DEF MayMiss
  <2>5. organization => WayIn(to, missing[c])
    BY <2>1, <2>2, <2>3, <2>4 DEF WayIn
  <2> QED BY <1>8, <1>10, <2>2, <2>5 DEF Actors!isOrganizationActive
<1>11. ASSUME NEW c \in One, Actors!findActiveMembership(c)
       PROVE  ActorInv'
  <2> DEFINE a == admission[c]
             step == IF a.kind \in Actors!Brandless THEN "access" ELSE "brand"
             granted == Actors!organizationPermissions[membership]
             to == [a EXCEPT !.step = step, !.permissions = granted]
  <2>1. /\ a \in Caller /\ a.step = "membership" /\ WayIn(a, missing[c])
        /\ UNCHANGED <<Actors!rows, session, started>>
    BY <1>11, <1>types DEF ActorTypes, Actors!At, ActorInv, Actors!findActiveMembership
  <2>2. granted \subseteq Actors!Permission /\ granted \cap missing[c] = {}
    BY <1>types, <2>1, RolePermissions DEF ActorTypes, WayIn, Actors!Facts, Actors!Standing
  <2> HIDE DEF granted
  <2>3. /\ to \in Caller /\ to.step = step /\ to.kind = a.kind /\ to.need = a.need
        /\ to.permissions = granted
    BY <2>1, <2>2 DEF Caller
  <2>4. CASE membership # "NONE" /\ UNCHANGED missing /\ admission' = [admission EXCEPT ![c] = to]
    <3>1. "member" \notin missing[c]
      BY <2>1, <2>4 DEF WayIn, Actors!Facts, Actors!Standing
    <3>2. MayMiss(a) \subseteq MayMiss(to) \cup {"member"}
      BY <2>1, <2>3 DEF MayMiss
    <3> HIDE DEF to
    <3>3. WayIn(to, missing[c])
      BY <2>1, <2>2, <2>3, <3>1, <3>2 DEF WayIn
    <3>4. missing' = [missing EXCEPT ![c] = missing[c]]
      BY <1>types, <2>4 DEF ActorTypes
    <3> QED BY <2>1, <2>3, <2>4, <3>3, <3>4, ActorKeeps DEF Actors!rows
  <2>5. CASE Actors!Leave(c)
    BY <1>7, <2>1, <2>5
  <2>6. \/ Actors!Leave(c)
        \/ membership # "NONE" /\ UNCHANGED missing /\ admission' = [admission EXCEPT ![c] = to]
    BY <1>11, <1>types DEF Actors!findActiveMembership, ActorTypes, granted
  <2> QED BY <2>4, <2>5, <2>6
<1>12. ASSUME NEW c \in One, Actors!findBrandInOrganization(c)
       PROVE  ActorInv'
  <2> DEFINE a == admission[c]
             to == [a EXCEPT !.step = "access"]
  <2>1. a \in Caller /\ a.step = "brand" /\ WayIn(a, missing[c])
    BY <1>12, <1>types DEF ActorTypes, Actors!At, ActorInv, Actors!findBrandInOrganization
  <2>2. /\ to \in Caller /\ to.step = "access" /\ to.kind = a.kind /\ to.need = a.need
        /\ to.permissions = a.permissions
    BY <2>1 DEF Caller
  <2>3. brand => "brand" \notin missing[c]
    BY <2>1 DEF WayIn, Actors!Facts
  <2>4. MayMiss(a) = {"brand", a.need} /\ MayMiss(to) = {a.need}
    BY <2>1, <2>2 DEF MayMiss
  <2>5. brand => WayIn(to, missing[c])
    BY <2>1, <2>2, <2>3, <2>4 DEF WayIn
  <2> QED BY <1>8, <1>12, <2>2, <2>5 DEF Actors!findBrandInOrganization
<1>13. ASSUME NEW c \in One, Actors!findBrandAccess(c)
       PROVE  ActorInv'
  <2> DEFINE a == admission[c]
             role == IF a.kind \in Actors!Brandless THEN "NONE" ELSE access
             granted == a.need \in a.permissions \cup Actors!brandPermissions[role]
             to == [a EXCEPT !.step = "act"]
  <2>1. /\ a \in Caller /\ a.step = "access" /\ WayIn(a, missing[c])
        /\ Actors!Pass(c, granted, "act") /\ UNCHANGED <<Actors!rows, session, started>>
    BY <1>13, <1>types DEF ActorTypes, Actors!At, ActorInv, Actors!findBrandAccess
  <2>2. /\ to \in Caller /\ to.step = "act" /\ to.kind = a.kind /\ to.need = a.need
    BY <2>1 DEF Caller
  <2>3. granted => a.need \notin missing[c]
    <3>1. Actors!brandPermissions[role] \subseteq Actors!Facts
      BY RolePermissions DEF Actors!Facts
    <3> QED BY <2>1, <3>1 DEF WayIn
  <2>4. MayMiss(a) = {a.need} /\ MayMiss(to) = {}
    BY <2>1, <2>2 DEF MayMiss
  <2>5. granted => WayIn(to, missing[c])
    BY <2>1, <2>2, <2>3, <2>4 DEF WayIn
  <2> HIDE DEF granted
  <2> QED BY <1>8, <2>1, <2>2, <2>5
<1>14. ASSUME NEW c \in One, NEW kind \in {"service", "brandless"}, NEW p \in Asked,
              Actors!BeginService(c, kind, p)
       PROVE  ActorInv'
  <2> DEFINE operation == [kind |-> kind, need |-> p]
  <2>1. operation.kind = kind /\ operation.need = p /\ Actors!Begin(c, operation, "organization")
    BY <1>14 DEF Actors!BeginService
  <2> HIDE DEF operation
  <2> QED BY <2>1, ActorBegins DEF Actors!FromTool
<1>15. ASSUME NEW c \in One, NEW t \in DOMAIN Actors!Tools, Actors!executeMcpBrandTool(c, t)
       PROVE  ActorInv'
  <2> DEFINE operation == Actors!ToolOperation(t)
             step == IF t = "list_brands" THEN "organization" ELSE "assert brand"
  <2>1. /\ Actors!Begin(c, operation, step) /\ session.step = "on"
        /\ Actors!Tools[t] \in session.permissions
    BY <1>15 DEF Actors!executeMcpBrandTool
  <2>2. /\ operation.kind \in Actors!FromTool /\ operation.need = Actors!Tools[t]
        /\ t = "list_brands" <=> operation.kind = "list_brands"
    BY DEF Actors!ToolOperation, Actors!FromTool
  <2>3. operation.need \in Actors!Permission
    BY <1>types, <2>1, <2>2 DEF ActorTypes, Session
  <2> HIDE DEF operation
  <2>4. CASE t = "list_brands"
    BY <2>1, <2>2, <2>3, <2>4, ActorBegins
  <2>5. CASE t # "list_brands"
    BY <2>1, <2>2, <2>3, <2>5, ActorBegins DEF Actors!FromTool
  <2> QED BY <2>4, <2>5
<1>16. ASSUME NEW c \in One, Actors!findActiveCredential(c)
       PROVE  ActorInv'
  <2> DEFINE operation == [kind |-> "webhook", need |-> "brand:read"]
  <2>1. /\ operation.kind = "webhook" /\ operation.need \in Actors!Permission
        /\ Actors!Begin(c, operation, "assert brand") /\ organization /\ credential
    BY <1>16 DEF Actors!findActiveCredential, Actors!Permission
  <2> HIDE DEF operation
  <2> QED BY <2>1, ActorBegins DEF Actors!FromTool
<1>17. ASSUME NEW c \in One, Actors!Act(c)
       PROVE  ActorInv'
  BY <1>7, <1>17 DEF Actors!Act
<1>18. CASE UNCHANGED actorVars
  BY <1>18, <1>types, SessionKeeps DEF actorVars, ActorTypes, ActorInv, ProcessInv, Actors!Starting,
       Actors!Standing, WayIn, MayMiss, Actors!Facts
<1> QED BY <1>1, <1>2, <1>4, <1>5, <1>6, <1>9, <1>10, <1>11, <1>12, <1>13, <1>14, <1>15, <1>16,
           <1>17, <1>18 DEF Actors!Next, Actors!assertBrand

\* An operation begins only with what was granted to its caller while it was on its way in
\* (tenant-context.ts:36-65, mcp-auth.ts:63-85): each check takes away what a call may
\* still miss, and what was granted at some moment stays granted for it.
THEOREM EffectsAreGrantedAlways == ServicesSpec => []EffectsAreGranted
<1>1. ServicesInit => ActorInv
  BY ActorInit DEF ServicesInit
<1>2. ActorInv /\ [ServicesNext]_allVars => ActorInv'
  BY Steps, ActorNext
<1>3. ActorInv => EffectsAreGranted
  <2> SUFFICES ASSUME ActorInv, NEW c \in One, Actors!At(c, "act")
               PROVE  /\ missing[c] = {}
                      /\ admission[c].kind \in Actors!FromTool =>
                           /\ {"organization", "member", admission[c].need} \subseteq started
                           /\ \E s \in DOMAIN Actors!scopePermission :
                                Actors!scopePermission[s] = admission[c].need /\ s \in started
    BY DEF EffectsAreGranted, Actors!EffectsAreGranted
  <2>1. WayIn(admission[c], missing[c]) /\ MayMiss(admission[c]) = {}
    BY DEF ActorInv, Actors!At, MayMiss
  <2> QED BY <2>1 DEF ActorInv, ProcessInv, WayIn, Actors!At
<1> QED BY <1>1, <1>2, <1>3, PTL DEF ServicesSpec


-----------------------------------------------------------------------------
(* Limiter.                                                                *)

\* Nothing is accepted in a window the row has not come to yet, and in the row's own at
\* most what the row has counted.
LimiterInv ==
  /\ Limiter!TypeOK
  /\ \A w \in Limiter!Window :
       /\ accepted[w] <= Limit
       /\ w > entry.window => accepted[w] = 0
       /\ w = entry.window => accepted[w] <= entry.count

LEMMA LimiterInit == Limiter!Init => LimiterInv
BY ServicesAssumption DEF Limiter!Init, LimiterInv, Limiter!TypeOK, Limiter!Window

LEMMA LimiterNext == LimiterInv /\ [Limiter!Next]_limiterVars => LimiterInv'
<1> SUFFICES ASSUME LimiterInv, [Limiter!Next]_limiterVars PROVE LimiterInv'
  OBVIOUS
<1> USE ServicesAssumption
<1>1. ASSUME NEW p \in Three, Limiter!Tick(p) PROVE LimiterInv'
  BY <1>1 DEF Limiter!Tick, LimiterInv, Limiter!TypeOK, Limiter!Window
<1>2. ASSUME NEW p \in Three, Limiter!consume(p) PROVE LimiterInv'
  <2> DEFINE row == Limiter!upsert(clock[p])
  <2>0. /\ clock[p] \in 1..LastWindow /\ entry.window \in 0..LastWindow /\ entry.count \in Nat
        /\ entry = [window |-> entry.window, count |-> entry.count]
    BY DEF LimiterInv, Limiter!TypeOK, Limiter!Window
  <2>1. /\ row \in [window : 0..LastWindow, count : Nat] /\ entry' = row
        /\ row.window \in 1..LastWindow /\ entry.window <= row.window
        /\ row.window = entry.window => row.count = entry.count + 1
        /\ row.window # entry.window => row.count = 1
    <3>1. CASE entry.window < clock[p]
      <4>1. row = [window |-> clock[p], count |-> 1]
        BY <3>1 DEF Limiter!upsert
      <4> QED BY <1>2, <2>0, <3>1, <4>1 DEF Limiter!consume
    <3>2. CASE ~(entry.window < clock[p])
      <4>1. row = [window |-> entry.window, count |-> entry.count + 1]
        BY <2>0, <3>2 DEF Limiter!upsert
      <4> QED BY <1>2, <2>0, <3>2, <4>1 DEF Limiter!consume
    <3> QED BY <3>1, <3>2
  <2>2. UNCHANGED clock
    BY <1>2 DEF Limiter!consume
  <2>3. CASE row.count <= Limit
    <3>1. /\ answer' = [answer EXCEPT ![p] = "accepted"]
          /\ accepted' = [accepted EXCEPT ![row.window] = @ + 1]
      BY <1>2, <2>3 DEF Limiter!consume
    <3> HIDE DEF row
    <3>2. Limiter!TypeOK'
      <4>1. answer' \in [Three -> {"none", "accepted", "refused"}]
        BY <3>1 DEF LimiterInv, Limiter!TypeOK
      <4>2. accepted' \in [Limiter!Window -> Nat]
        <5>1. accepted \in [Limiter!Window -> Nat]
          BY DEF LimiterInv, Limiter!TypeOK
        <5>2. \A w \in Limiter!Window : accepted[w] + 1 \in Nat
          BY <5>1
        <5> QED BY <3>1, <5>1, <5>2
      <4> QED BY <2>1, <2>2, <4>1, <4>2 DEF LimiterInv, Limiter!TypeOK
    <3>3. accepted[row.window] \in Nat /\ accepted[row.window] + 1 <= row.count
      <4>1. accepted[row.window] \in Nat
        BY <2>1 DEF LimiterInv, Limiter!TypeOK, Limiter!Window
      <4>2. CASE row.window = entry.window
        BY <2>0, <2>1, <4>1, <4>2 DEF LimiterInv, Limiter!Window
      <4>3. CASE row.window # entry.window
        BY <2>0, <2>1, <4>1, <4>3 DEF LimiterInv, Limiter!Window
      <4> QED BY <4>2, <4>3
    <3>4. \A w \in Limiter!Window : accepted'[w] =
            IF w = row.window THEN accepted[w] + 1 ELSE accepted[w]
      BY <2>1, <3>1 DEF LimiterInv, Limiter!TypeOK
    <3>5. ASSUME NEW w \in Limiter!Window
          PROVE  /\ accepted'[w] <= Limit
                 /\ w > entry'.window => accepted'[w] = 0
                 /\ w = entry'.window => accepted'[w] <= entry'.count
      <4>1. CASE w = row.window
        BY <2>1, <2>3, <3>3, <3>4, <4>1
      <4>2. CASE w # row.window
        BY <2>0, <2>1, <3>4, <4>2 DEF LimiterInv, Limiter!Window
      <4> QED BY <4>1, <4>2
    <3> QED BY <3>2, <3>5 DEF LimiterInv
  <2>4. CASE ~(row.count <= Limit)
    <3>1. /\ answer' = [answer EXCEPT ![p] = "refused"] /\ UNCHANGED accepted
      BY <1>2, <2>4 DEF Limiter!consume
    <3> HIDE DEF row
    <3> QED BY <2>1, <2>2, <3>1 DEF LimiterInv, Limiter!TypeOK, Limiter!Window
  <2> QED BY <2>3, <2>4
<1>3. CASE UNCHANGED limiterVars
  BY <1>3 DEF limiterVars, LimiterInv, Limiter!TypeOK
<1> QED BY <1>1, <1>2, <1>3 DEF Limiter!Next

\* For every limit and any number of processes and windows, no window grants more calls
\* than the limit, in whatever order processes with clocks of their own come to it.
THEOREM NoWindowIsOverspentAlways == ServicesSpec => []NoWindowIsOverspent
<1>1. ServicesInit => LimiterInv
  BY LimiterInit DEF ServicesInit
<1>2. LimiterInv /\ [ServicesNext]_allVars => LimiterInv'
  BY LimiterNext, Steps
<1>3. LimiterInv => NoWindowIsOverspent
  BY DEF LimiterInv, NoWindowIsOverspent, Limiter!NoWindowIsOverspent
<1> QED BY <1>1, <1>2, <1>3, PTL DEF ServicesSpec

-----------------------------------------------------------------------------
(* Inbox.                                                                  *)

\* A submission somebody works on is PROCESSING, or already READY when its last update
\* failed after its effect; it has its item before it can be READY.
InboxInv ==
  /\ Inbox!TypeOK
  /\ \A s \in Inbox!Submission : inbox[s] = "READY" => items[Inbox!Content(s)] # "NONE"
  /\ \A c \in Three : Inbox!At(c, "ready") => items[Inbox!Content(Inbox!Own(c))] # "NONE"
  /\ \A c \in Three : submission[c].step \in Inbox!Working =>
       \/ inbox[Inbox!Own(c)] = "PROCESSING"
       \/ inbox[Inbox!Own(c)] = "READY" /\ Inbox!At(c, "fail")
  /\ \A c, d \in Three : ({submission[c].step, submission[d].step} \subseteq Inbox!Working
                          /\ Inbox!Own(c) = Inbox!Own(d)) => c = d

LEMMA InboxInit == Inbox!Init => InboxInv
BY DEF Inbox!Init, InboxInv, Inbox!TypeOK, Inbox!At, Inbox!Own, Inbox!Idle, Inbox!Working,
       Inbox!ResearchInboxStatus

\* A call past its beginning works on a submission, and another call's record is its own.
LEMMA InboxMoves ==
  ASSUME InboxInv, NEW c \in Three, submission[c].step # "idle"
  PROVE  /\ Inbox!Own(c) \in Inbox!Submission /\ Inbox!Content(Inbox!Own(c)) \in Contents
         /\ submission[c].step \in {"claim"} \cup Inbox!Working
         /\ submission[c].from \in {"NEW", "FAILED"}
         /\ \A step \in Inbox!Working : Inbox!Goto(c, step) =>
              /\ submission' \in [Three -> {Inbox!Idle} \cup
                     [step : {"claim"} \cup Inbox!Working,
                      submission : Inbox!Submission, from : {"NEW", "FAILED"}]]
              /\ submission'[c].step = step /\ submission'[c].submission = submission[c].submission
         /\ Inbox!Finish(c) =>
              /\ submission' \in [Three -> {Inbox!Idle} \cup
                     [step : {"claim"} \cup Inbox!Working,
                      submission : Inbox!Submission, from : {"NEW", "FAILED"}]]
              /\ submission'[c] = Inbox!Idle
         /\ \A step : Inbox!Goto(c, step) \/ Inbox!Finish(c) =>
              \A d \in Three \ {c} : submission'[d] = submission[d]
<1> DEFINE Busy == [step : {"claim"} \cup Inbox!Working,
                    submission : Inbox!Submission, from : {"NEW", "FAILED"}]
<1>1. submission \in [Three -> {Inbox!Idle} \cup Busy]
  BY DEF InboxInv, Inbox!TypeOK
<1>2. submission[c] \in Busy
  BY <1>1 DEF Inbox!Idle
<1>3. Inbox!Own(c) \in Inbox!Submission /\ Inbox!Content(Inbox!Own(c)) \in Contents
  BY <1>2 DEF Inbox!Own, Inbox!Submission, Inbox!Content
<1>4. ASSUME NEW step \in Inbox!Working, Inbox!Goto(c, step)
      PROVE  /\ submission' \in [Three -> {Inbox!Idle} \cup Busy]
             /\ submission'[c].step = step /\ submission'[c].submission = submission[c].submission
  <2>1. [submission[c] EXCEPT !.step = step] \in Busy
    BY <1>2
  <2>2. submission' = [submission EXCEPT ![c] = [submission[c] EXCEPT !.step = step]]
    BY <1>4 DEF Inbox!Goto
  <2>3. submission'[c] = [submission[c] EXCEPT !.step = step]
    BY <1>1, <2>2
  <2> HIDE DEF Busy
  <2>4. submission' \in [Three -> {Inbox!Idle} \cup Busy]
    BY <1>1, <2>1, <2>2
  <2> QED BY <1>2, <2>3, <2>4 DEF Busy
<1>5. Inbox!Finish(c) => /\ submission' \in [Three -> {Inbox!Idle} \cup Busy]
                         /\ submission'[c] = Inbox!Idle
  <2> HIDE DEF Busy
  <2> QED BY <1>1 DEF Inbox!Finish
<1>6. \A step : Inbox!Goto(c, step) \/ Inbox!Finish(c) =>
        \A d \in Three \ {c} : submission'[d] = submission[d]
  BY <1>1 DEF Inbox!Goto, Inbox!Finish
<1> QED BY <1>2, <1>3, <1>4, <1>5, <1>6

\* What holds of a step of one call that touches no other submission.
LEMMA InboxKeeps ==
  ASSUME InboxInv, NEW c \in Three, Inbox!Own(c) \in Inbox!Submission, Inbox!TypeOK',
         \A d \in Three \ {c} : submission'[d] = submission[d],
         submission'[c].step \in Inbox!Working => submission'[c].submission = Inbox!Own(c),
         \A s \in Inbox!Submission \ {Inbox!Own(c)} : inbox'[s] = inbox[s],
         \A t \in Contents : items[t] # "NONE" => items'[t] # "NONE",
         \/ submission[c].step \in Inbox!Working
         \/ inbox[Inbox!Own(c)] \in {"NEW", "FAILED"},
         inbox'[Inbox!Own(c)] = "READY" => items'[Inbox!Content(Inbox!Own(c))] # "NONE",
         submission'[c].step = "ready" => items'[Inbox!Content(Inbox!Own(c))] # "NONE",
         submission'[c].step \in Inbox!Working =>
           \/ inbox'[Inbox!Own(c)] = "PROCESSING"
           \/ inbox'[Inbox!Own(c)] = "READY" /\ submission'[c].step = "fail"
  PROVE  InboxInv'
<1>0. "ready" \in Inbox!Working
  BY DEF Inbox!Working
<1>1. \A s \in Inbox!Submission : Inbox!Content(s) \in Contents
  BY DEF Inbox!Submission, Inbox!Content
<1>2. ASSUME NEW d \in Three \ {c}, submission[d].step \in Inbox!Working
      PROVE  Inbox!Own(d) \in Inbox!Submission /\ Inbox!Own(d) # Inbox!Own(c)
  <2>1. Inbox!Own(d) \in Inbox!Submission
    BY <1>2, InboxMoves DEF Inbox!Working
  <2>2. inbox[Inbox!Own(d)] \in {"PROCESSING", "READY"}
    BY <1>2 DEF InboxInv
  <2>3. CASE submission[c].step \in Inbox!Working
    BY <1>2, <2>1, <2>3 DEF InboxInv
  <2> QED BY <2>1, <2>2, <2>3
<1>3. \A s \in Inbox!Submission : inbox'[s] = "READY" => items'[Inbox!Content(s)] # "NONE"
  BY <1>1 DEF InboxInv
<1>4. ASSUME NEW d \in Three, Inbox!At(d, "ready")'
      PROVE  items'[Inbox!Content(Inbox!Own(d)')] # "NONE"
  <2>1. CASE d = c
    BY <1>0, <1>4, <2>1 DEF Inbox!At, Inbox!Own
  <2>2. CASE d # c
    <3>1. submission'[d] = submission[d] /\ submission[d].step \in Inbox!Working
      BY <1>0, <1>4, <2>2 DEF Inbox!At
    <3>2. Inbox!Own(d) \in Inbox!Submission
      BY <1>2, <2>2, <3>1
    <3> QED BY <1>1, <1>4, <3>1, <3>2 DEF InboxInv, Inbox!At, Inbox!Own
  <2> QED BY <2>1, <2>2
<1>5. ASSUME NEW d \in Three, submission'[d].step \in Inbox!Working
      PROVE  \/ inbox'[Inbox!Own(d)'] = "PROCESSING"
             \/ inbox'[Inbox!Own(d)'] = "READY" /\ Inbox!At(d, "fail")'
  <2>1. CASE d = c
    BY <1>5, <2>1 DEF Inbox!At, Inbox!Own
  <2>2. CASE d # c
    BY <1>2, <1>5, <2>2 DEF InboxInv, Inbox!At, Inbox!Own
  <2> QED BY <2>1, <2>2
<1>6. ASSUME NEW d \in Three, NEW e \in Three, Inbox!Own(d)' = Inbox!Own(e)',
             {submission'[d].step, submission'[e].step} \subseteq Inbox!Working
      PROVE  d = e
  <2>1. CASE d # c /\ e # c
    BY <1>6, <2>1 DEF InboxInv, Inbox!Own
  <2>2. CASE d = c \/ e = c
    BY <1>2, <1>6, <2>2 DEF Inbox!Own
  <2> QED BY <2>1, <2>2
<1> QED BY <1>3, <1>4, <1>5, <1>6 DEF InboxInv

\* A call ends without a change.
LEMMA InboxEnds ==
  ASSUME InboxInv, NEW c \in Three, submission[c].step # "idle", Inbox!Finish(c),
         UNCHANGED <<inbox, sources, items>>
  PROVE  InboxInv'
<1>1. /\ submission'[c] = Inbox!Idle
      /\ \A d \in Three \ {c} : submission'[d] = submission[d]
      /\ Inbox!TypeOK'
  BY InboxMoves DEF InboxInv, Inbox!TypeOK
<1>2. \A d \in Three : submission'[d].step \in Inbox!Working => d # c
  BY <1>1 DEF Inbox!Idle, Inbox!Working
<1>3. "ready" \in Inbox!Working
  BY DEF Inbox!Working
<1> QED BY <1>1, <1>2, <1>3 DEF InboxInv, Inbox!At, Inbox!Own

LEMMA InboxNext == InboxInv /\ [Inbox!Next]_inboxVars => InboxInv'
<1> SUFFICES ASSUME InboxInv, [Inbox!Next]_inboxVars PROVE InboxInv'
  OBVIOUS
<1> DEFINE Busy == [step : {"claim"} \cup Inbox!Working,
                    submission : Inbox!Submission, from : {"NEW", "FAILED"}]
<1>0. /\ inbox \in [Inbox!Submission -> Inbox!ResearchInboxStatus \cup {"NONE"}]
      /\ sources \subseteq Urls /\ items \in [Contents -> {"NONE", "text", "url"}]
      /\ submission \in [Three -> {Inbox!Idle} \cup Busy]
      /\ \A s \in Inbox!Submission : Inbox!Content(s) \in Contents
      /\ {"NEW", "PROCESSING", "READY", "FAILED"} = Inbox!ResearchInboxStatus
  BY DEF InboxInv, Inbox!TypeOK, Inbox!ResearchInboxStatus, Inbox!Submission, Inbox!Content
<1>1. ASSUME NEW c \in Three, NEW s \in Inbox!Submission, Inbox!ingest(c, s) PROVE InboxInv'
  <2>1. /\ inbox' \in [Inbox!Submission -> Inbox!ResearchInboxStatus \cup {"NONE"}]
        /\ inbox'[s] \in {"NEW", "FAILED"}
        /\ \A r \in Inbox!Submission \ {s} : inbox'[r] = inbox[r]
        /\ inbox[s] \in {"NONE", "NEW", "FAILED"}
    BY <1>0, <1>1 DEF Inbox!ingest, Inbox!createInboxItem
  <2>2. /\ submission'[c] = [step |-> "claim", submission |-> s, from |-> inbox'[s]]
        /\ submission'[c] \in Busy
        /\ submission' \in [Three -> {Inbox!Idle} \cup Busy]
        /\ \A d \in Three \ {c} : submission'[d] = submission[d]
    <3>1. [step |-> "claim", submission |-> s, from |-> inbox'[s]] \in Busy
      BY <2>1
    <3> HIDE DEF Busy
    <3> QED BY <1>0, <1>1, <3>1 DEF Inbox!ingest
  <2>3. Inbox!TypeOK'
    BY <1>0, <1>1, <2>1, <2>2 DEF Inbox!TypeOK, Inbox!ingest
  <2>4. \A d \in Three : submission'[d].step \in Inbox!Working => d # c
    BY <2>2 DEF Inbox!Working
  <2>5. UNCHANGED items
    BY <1>1 DEF Inbox!ingest
  <2>6. \A d \in Three : submission[d].step \in Inbox!Working =>
          Inbox!Own(d) \in Inbox!Submission /\ Inbox!Own(d) # s
    BY <2>1, InboxMoves DEF InboxInv, Inbox!Working
  <2>7. \A r \in Inbox!Submission : inbox'[r] = "READY" => items'[Inbox!Content(r)] # "NONE"
    BY <2>1, <2>5 DEF InboxInv
  <2>8. \A d \in Three : Inbox!At(d, "ready")' => items'[Inbox!Content(Inbox!Own(d)')] # "NONE"
    BY <2>2, <2>4, <2>5 DEF InboxInv, Inbox!At, Inbox!Own, Inbox!Working
  <2>9. \A d \in Three : submission'[d].step \in Inbox!Working =>
          \/ inbox'[Inbox!Own(d)'] = "PROCESSING"
          \/ inbox'[Inbox!Own(d)'] = "READY" /\ Inbox!At(d, "fail")'
    BY <2>1, <2>2, <2>4, <2>6 DEF InboxInv, Inbox!At, Inbox!Own
  <2>10. \A d, e \in Three : ({submission'[d].step, submission'[e].step} \subseteq Inbox!Working
                             /\ Inbox!Own(d)' = Inbox!Own(e)') => d = e
    BY <2>2, <2>4 DEF InboxInv, Inbox!Own
  <2> QED BY <2>3, <2>7, <2>8, <2>9, <2>10 DEF InboxInv
<1>2. ASSUME NEW c \in Three, Inbox!Claim(c) PROVE InboxInv'
  <2>1. submission[c].step = "claim" /\ "source" \in Inbox!Working /\ ~("claim" \in Inbox!Working)
    BY <1>2 DEF Inbox!Claim, Inbox!At, Inbox!Working
  <2>2. Inbox!Own(c) \in Inbox!Submission /\ submission[c].from \in {"NEW", "FAILED"}
    BY <2>1, InboxMoves
  <2>3. CASE inbox[Inbox!Own(c)] = submission[c].from
    <3>1. /\ inbox' = [inbox EXCEPT ![Inbox!Own(c)] = "PROCESSING"]
          /\ Inbox!Goto(c, "source") /\ UNCHANGED <<sources, items>>
      BY <1>2, <2>3 DEF Inbox!Claim, Inbox!transitionInboxStatus
    <3>2. /\ submission' \in [Three -> {Inbox!Idle} \cup Busy]
          /\ submission'[c].step = "source" /\ submission'[c].submission = Inbox!Own(c)
          /\ \A d \in Three \ {c} : submission'[d] = submission[d]
      BY <2>1, <3>1, InboxMoves DEF Inbox!Own
    <3>3. Inbox!TypeOK'
      BY <1>0, <2>2, <3>1, <3>2 DEF Inbox!TypeOK
    <3>4. /\ inbox'[Inbox!Own(c)] = "PROCESSING"
          /\ \A s \in Inbox!Submission \ {Inbox!Own(c)} : inbox'[s] = inbox[s]
      BY <1>0, <2>2, <3>1
    <3> HIDE DEF Busy
    <3> QED BY <2>2, <2>3, <3>1, <3>2, <3>3, <3>4, InboxKeeps
  <2>4. CASE inbox[Inbox!Own(c)] # submission[c].from
    <3>1. UNCHANGED <<inbox, sources, items>> /\ Inbox!Finish(c)
      BY <1>2, <2>4 DEF Inbox!Claim, Inbox!transitionInboxStatus
    <3> QED BY <2>1, <3>1, InboxEnds
  <2> QED BY <2>3, <2>4
<1>3. ASSUME NEW c \in Three, Inbox!StoreSource(c) PROVE InboxInv'
  <2>1. /\ submission[c].step = "source" /\ submission[c].step \in Inbox!Working
        /\ {"item", "fail"} \subseteq Inbox!Working
    BY <1>3 DEF Inbox!StoreSource, Inbox!At, Inbox!Working
  <2>2. Inbox!Own(c) \in Inbox!Submission /\ inbox[Inbox!Own(c)] = "PROCESSING"
    BY <2>1, InboxMoves DEF InboxInv, Inbox!At
  <2>3. PICK step \in {"item", "fail"} : Inbox!Goto(c, step)
    BY <1>3 DEF Inbox!StoreSource
  <2>4. /\ submission' \in [Three -> {Inbox!Idle} \cup Busy]
        /\ submission'[c].step = step /\ submission'[c].submission = Inbox!Own(c)
        /\ \A d \in Three \ {c} : submission'[d] = submission[d]
    BY <2>1, <2>3, InboxMoves DEF Inbox!Own
  <2>5. UNCHANGED <<inbox, items>> /\ sources' \subseteq Urls
    BY <1>0, <1>3, <2>2 DEF Inbox!StoreSource, Inbox!upsertSource, Inbox!Url, Inbox!Submission
  <2>6. Inbox!TypeOK'
    BY <1>0, <2>4, <2>5 DEF Inbox!TypeOK
  <2> HIDE DEF Busy
  <2> QED BY <2>1, <2>2, <2>4, <2>5, <2>6, InboxKeeps
<1>4. ASSUME NEW c \in Three, Inbox!StoreItem(c) PROVE InboxInv'
  <2>1. /\ submission[c].step = "item" /\ submission[c].step \in Inbox!Working
        /\ {"ready", "fail"} \subseteq Inbox!Working
    BY <1>4 DEF Inbox!StoreItem, Inbox!At, Inbox!Working
  <2>2. /\ Inbox!Own(c) \in Inbox!Submission /\ Inbox!Content(Inbox!Own(c)) \in Contents
        /\ inbox[Inbox!Own(c)] = "PROCESSING"
    BY <2>1, InboxMoves DEF InboxInv, Inbox!At
  <2>3. PICK step \in {"ready", "fail"} :
          /\ Inbox!Goto(c, step)
          /\ \/ step = "ready" /\ Inbox!createItem(Inbox!Own(c))
             \/ step = "fail" /\ UNCHANGED items
    BY <1>4 DEF Inbox!StoreItem
  <2>4. /\ submission' \in [Three -> {Inbox!Idle} \cup Busy]
        /\ submission'[c].step = step /\ submission'[c].submission = Inbox!Own(c)
        /\ \A d \in Three \ {c} : submission'[d] = submission[d]
    BY <2>1, <2>3, InboxMoves DEF Inbox!Own
  <2>5. UNCHANGED <<inbox, sources>>
    BY <1>4 DEF Inbox!StoreItem
  <2>6. /\ items' \in [Contents -> {"NONE", "text", "url"}]
        /\ \A t \in Contents : items[t] # "NONE" => items'[t] # "NONE"
        /\ step = "ready" => items'[Inbox!Content(Inbox!Own(c))] # "NONE"
    BY <1>0, <2>2, <2>3 DEF Inbox!createItem
  <2>7. Inbox!TypeOK'
    BY <1>0, <2>4, <2>5, <2>6 DEF Inbox!TypeOK
  <2> HIDE DEF Busy
  <2> QED BY <2>1, <2>2, <2>4, <2>5, <2>6, <2>7, InboxKeeps
<1>5. ASSUME NEW c \in Three, Inbox!Ready(c) PROVE InboxInv'
  <2>1. /\ submission[c].step = "ready" /\ submission[c].step \in Inbox!Working
        /\ "fail" \in Inbox!Working
    BY <1>5 DEF Inbox!Ready, Inbox!At, Inbox!Working
  <2>2. /\ Inbox!Own(c) \in Inbox!Submission /\ inbox[Inbox!Own(c)] = "PROCESSING"
        /\ items[Inbox!Content(Inbox!Own(c))] # "NONE"
    BY <2>1, InboxMoves DEF InboxInv, Inbox!At
  <2>3. /\ UNCHANGED <<sources, items>>
        /\ inbox' = inbox \/ inbox' = [inbox EXCEPT ![Inbox!Own(c)] = "READY"]
        /\ \/ Inbox!Finish(c)
           \/ Inbox!Goto(c, "fail")
    BY <1>5, <2>2 DEF Inbox!Ready, Inbox!transitionInboxStatus
  <2>4. /\ submission' \in [Three -> {Inbox!Idle} \cup Busy]
        /\ \/ submission'[c] = Inbox!Idle
           \/ submission'[c].step = "fail" /\ submission'[c].submission = Inbox!Own(c)
        /\ \A d \in Three \ {c} : submission'[d] = submission[d]
    BY <2>1, <2>3, InboxMoves DEF Inbox!Own
  <2>5. /\ inbox' \in [Inbox!Submission -> Inbox!ResearchInboxStatus \cup {"NONE"}]
        /\ inbox'[Inbox!Own(c)] \in {"PROCESSING", "READY"}
        /\ \A s \in Inbox!Submission \ {Inbox!Own(c)} : inbox'[s] = inbox[s]
    BY <1>0, <2>2, <2>3
  <2>6. Inbox!TypeOK'
    BY <1>0, <2>3, <2>4, <2>5 DEF Inbox!TypeOK
  <2>7. Inbox!Idle.step \notin Inbox!Working
    BY DEF Inbox!Idle, Inbox!Working
  <2> HIDE DEF Busy
  <2> QED BY <2>1, <2>2, <2>3, <2>4, <2>5, <2>6, <2>7, InboxKeeps DEF Inbox!Working
<1>6. ASSUME NEW c \in Three, Inbox!Fail(c) PROVE InboxInv'
  <2>1. submission[c].step = "fail" /\ submission[c].step \in Inbox!Working
    BY <1>6 DEF Inbox!Fail, Inbox!At, Inbox!Working
  <2>2. Inbox!Own(c) \in Inbox!Submission
    BY <2>1, InboxMoves
  <2>3. /\ UNCHANGED <<sources, items>> /\ Inbox!Finish(c)
        /\ inbox' = inbox \/ inbox' = [inbox EXCEPT ![Inbox!Own(c)] = "FAILED"]
    BY <1>6 DEF Inbox!Fail, Inbox!transitionInboxStatus
  <2>4. /\ submission' \in [Three -> {Inbox!Idle} \cup Busy]
        /\ submission'[c] = Inbox!Idle
        /\ \A d \in Three \ {c} : submission'[d] = submission[d]
    BY <2>1, <2>3, InboxMoves
  <2>5. /\ inbox' \in [Inbox!Submission -> Inbox!ResearchInboxStatus \cup {"NONE"}]
        /\ inbox'[Inbox!Own(c)] = "READY" => inbox[Inbox!Own(c)] = "READY"
        /\ \A s \in Inbox!Submission \ {Inbox!Own(c)} : inbox'[s] = inbox[s]
    BY <1>0, <2>2, <2>3
  <2>6. Inbox!TypeOK'
    BY <1>0, <2>3, <2>4, <2>5 DEF Inbox!TypeOK
  <2>7. Inbox!Idle.step \notin Inbox!Working
    BY DEF Inbox!Idle, Inbox!Working
  <2>8. inbox'[Inbox!Own(c)] = "READY" => items'[Inbox!Content(Inbox!Own(c))] # "NONE"
    BY <2>2, <2>3, <2>5 DEF InboxInv
  <2> HIDE DEF Busy
  <2> QED BY <2>1, <2>2, <2>3, <2>4, <2>5, <2>6, <2>7, <2>8, InboxKeeps DEF Inbox!Working
<1>7. ASSUME NEW c \in Three, Inbox!Die(c) PROVE InboxInv'
  <2>1. submission[c].step # "idle"
    BY <1>0, <1>7 DEF Inbox!Die, Inbox!Working
  <2> QED BY <1>7, <2>1, InboxEnds DEF Inbox!Die
<1>8. CASE UNCHANGED inboxVars
  BY <1>8 DEF inboxVars, InboxInv, Inbox!TypeOK, Inbox!At, Inbox!Own
<1> QED BY <1>1, <1>2, <1>3, <1>4, <1>5, <1>6, <1>7, <1>8 DEF Inbox!Next

\* A READY submission has its item, and one call at a time works on a submission, for any
\* number of submissions, calls and deaths.
THEOREM ReadyHasItemAlways == ServicesSpec => []ReadyHasItem
<1>1. ServicesInit => InboxInv
  BY InboxInit DEF ServicesInit
<1>2. InboxInv /\ [ServicesNext]_allVars => InboxInv'
  BY InboxNext, Steps
<1>3. InboxInv => ReadyHasItem
  BY DEF InboxInv, ReadyHasItem, Inbox!ReadyHasItem
<1> QED BY <1>1, <1>2, <1>3, PTL DEF ServicesSpec

-----------------------------------------------------------------------------
(* Fetches.                                                                *)

\* An address that is about to be asked was found public, whatever its name resolves to
\* by now; a call has sent as many requests as it has followed redirects.
FetchCall == [step : {"idle", "look up", "request"}, host : Hosts \cup {Fetches!Idle.host},
              address : Public \cup Private \cup {Fetches!NoAddress}, left : Nat]
FetchInv ==
  /\ dns \in [Hosts -> SUBSET (Public \cup Private)]
  /\ fetch \in [One -> FetchCall] /\ requests \in [One -> Nat]
  /\ contacted \subseteq Public
  /\ \A f \in One :
       /\ requests[f] <= MaxRedirects + 1
       /\ fetch[f].step # "idle" => /\ fetch[f].host \in Hosts
                                    /\ requests[f] + fetch[f].left = MaxRedirects
       /\ fetch[f].step = "request" => fetch[f].address \in Public

LEMMA FetchIdle ==
  Fetches!Idle \in FetchCall /\ Fetches!Idle.step = "idle" /\ MaxRedirects \in Nat
BY ServicesAssumption DEF Fetches!Idle, FetchCall

LEMMA FetchInit == Fetches!Init => FetchInv
BY FetchIdle DEF Fetches!Init, FetchInv

\* What holds of a step that makes a call what it may be.
LEMMA FetchKeeps ==
  ASSUME FetchInv, NEW f \in One, NEW new \in FetchCall, NEW n \in Nat,
         fetch' = [fetch EXCEPT ![f] = new], requests' = [requests EXCEPT ![f] = n],
         n <= MaxRedirects + 1,
         new.step # "idle" => new.host \in Hosts /\ n + new.left = MaxRedirects,
         new.step = "request" => new.address \in Public,
         UNCHANGED dns, contacted' \subseteq Public
  PROVE  FetchInv'
<1>1. fetch \in [One -> FetchCall] /\ requests \in [One -> Nat]
  BY DEF FetchInv
<1>2. fetch' \in [One -> FetchCall] /\ requests' \in [One -> Nat]
  BY <1>1
<1>3. \A g \in One : /\ fetch'[g] = IF g = f THEN new ELSE fetch[g]
                     /\ requests'[g] = IF g = f THEN n ELSE requests[g]
  BY <1>1
<1>4. ASSUME NEW g \in One
      PROVE  /\ requests'[g] <= MaxRedirects + 1
             /\ fetch'[g].step # "idle" => /\ fetch'[g].host \in Hosts
                                           /\ requests'[g] + fetch'[g].left = MaxRedirects
             /\ fetch'[g].step = "request" => fetch'[g].address \in Public
  <2>1. CASE g = f
    BY <1>3, <2>1
  <2>2. CASE g # f
    <3>1. fetch'[g] = fetch[g] /\ requests'[g] = requests[g]
      BY <1>3, <2>2
    <3> QED BY <3>1 DEF FetchInv
  <2> QED BY <2>1, <2>2
<1> QED BY <1>2, <1>4 DEF FetchInv

LEMMA FetchNext == FetchInv /\ [Fetches!Next]_fetchVars => FetchInv'
<1> SUFFICES ASSUME FetchInv, [Fetches!Next]_fetchVars PROVE FetchInv'
  OBVIOUS
<1>0. /\ Fetches!Idle \in FetchCall /\ Fetches!Idle.step = "idle" /\ MaxRedirects \in Nat
      /\ fetch \in [One -> FetchCall] /\ requests \in [One -> Nat] /\ contacted \subseteq Public
      /\ \A f \in One : requests[f] <= MaxRedirects + 1
  BY FetchIdle DEF FetchInv
<1>b. \A f \in One : requests = [requests EXCEPT ![f] = requests[f]]
  BY <1>0
<1>c. MaxRedirects \in Nat
  BY FetchIdle
<1>1. CASE Fetches!Change
  BY <1>1 DEF Fetches!Change, Fetches!Resolves, FetchInv
<1>2. ASSUME NEW f \in One, NEW h \in Hosts, Fetches!Begin(f, h) PROVE FetchInv'
  <2> DEFINE new == [step |-> "look up", host |-> h, address |-> Fetches!NoAddress,
                     left |-> MaxRedirects]
  <2>1. /\ new \in FetchCall /\ new.step = "look up" /\ new.host \in Hosts
        /\ new.left = MaxRedirects
    BY <1>0 DEF FetchCall
  <2>2. fetch' = [fetch EXCEPT ![f] = new] /\ requests' = [requests EXCEPT ![f] = 0]
        /\ UNCHANGED <<dns, contacted>>
    BY <1>2 DEF Fetches!Begin
  <2> HIDE DEF new
  <2>3. /\ new.step # "idle" => new.host \in Hosts /\ 0 + new.left = MaxRedirects
        /\ 0 <= MaxRedirects + 1
    <3>1. new.left = MaxRedirects /\ new.host \in Hosts
      BY <2>1
    <3> QED BY <1>c, <3>1
  <2> QED BY <1>0, <2>1, <2>2, <2>3, FetchKeeps
<1>3. ASSUME NEW f \in One, Fetches!resolveSafeKnowledgeUrl(f) PROVE FetchInv'
  <2>1. /\ fetch[f].step = "look up" /\ fetch[f].host \in Hosts /\ fetch[f] \in FetchCall
        /\ requests[f] + fetch[f].left = MaxRedirects /\ requests[f] \in Nat
        /\ UNCHANGED <<dns, contacted, requests>>
    BY <1>0, <1>3 DEF Fetches!resolveSafeKnowledgeUrl, FetchInv
  <2>2. requests' = [requests EXCEPT ![f] = requests[f]]
    BY <1>b, <2>1
  <2>3. CASE fetch' = [fetch EXCEPT ![f] = Fetches!Idle]
    BY <1>0, <2>1, <2>2, <2>3, FetchKeeps
  <2>4. ASSUME NEW a \in Public,
               fetch' = [fetch EXCEPT ![f].step = "request", ![f].address = a]
        PROVE  FetchInv'
    <3> DEFINE new == [fetch[f] EXCEPT !.step = "request", !.address = a]
    <3>1. fetch' = [fetch EXCEPT ![f] = new]
      BY <2>4
    <3>2. /\ new \in FetchCall /\ new.host = fetch[f].host /\ new.left = fetch[f].left
          /\ new.address = a
      BY <2>1 DEF FetchCall
    <3> HIDE DEF new
    <3> QED BY <1>0, <2>1, <2>2, <3>1, <3>2, FetchKeeps
  <2>5. \/ fetch' = [fetch EXCEPT ![f] = Fetches!Idle]
        \/ \E a \in Public : fetch' = [fetch EXCEPT ![f].step = "request", ![f].address = a]
    <3>1. dns[fetch[f].host] \subseteq Public \cup Private
      BY <2>1 DEF FetchInv
    <3> QED BY <1>3, <3>1 DEF Fetches!resolveSafeKnowledgeUrl, Fetches!isPrivateIpv4
  <2> QED BY <2>3, <2>4, <2>5
<1>4. ASSUME NEW f \in One, Fetches!requestPinnedText(f) PROVE FetchInv'
  <2>1. /\ fetch[f].step = "request" /\ fetch[f].address \in Public /\ fetch[f].left \in Nat
        /\ requests[f] + fetch[f].left = MaxRedirects /\ requests[f] \in Nat
    BY <1>0, <1>4 DEF Fetches!requestPinnedText, FetchInv, FetchCall
  <2>2. /\ contacted' \subseteq Public
        /\ requests' = [requests EXCEPT ![f] = requests[f] + 1]
        /\ UNCHANGED dns
    BY <1>0, <1>4, <2>1 DEF Fetches!requestPinnedText
  <2>3. requests[f] + 1 \in Nat /\ requests[f] + 1 <= MaxRedirects + 1
    BY <1>0, <2>1
  <2>4. CASE fetch' = [fetch EXCEPT ![f] = Fetches!Idle]
    BY <1>0, <2>2, <2>3, <2>4, FetchKeeps
  <2>5. ASSUME NEW h \in Hosts, fetch' = [fetch EXCEPT ![f] = Fetches!Redirected(f, h)],
               fetch[f].left # 0
        PROVE  FetchInv'
    <3> DEFINE left == fetch[f].left - 1
               new  == Fetches!Redirected(f, h)
    <3>1. left \in Nat /\ requests[f] + 1 + left = MaxRedirects
      <4>1. fetch[f].left \in Nat /\ requests[f] + fetch[f].left = MaxRedirects /\ requests[f] \in Nat
        BY <2>1
      <4>2. fetch[f].left # 0
        BY <2>5
      <4> QED BY <1>c, <4>1, <4>2
    <3>2. new = [step |-> "look up", host |-> h, address |-> Fetches!NoAddress, left |-> left]
      BY <2>5, Zenon DEF Fetches!Redirected
    <3> HIDE DEF left, new
    <3>3. /\ new \in FetchCall /\ new.step = "look up" /\ new.host \in Hosts /\ new.left = left
      BY <3>1, <3>2 DEF FetchCall
    <3>4. fetch' = [fetch EXCEPT ![f] = new]
      BY <2>5 DEF new
    <3>5. requests[f] + 1 + new.left = MaxRedirects
      BY <3>1, <3>3
    <3> QED BY <2>2, <2>3, <3>3, <3>4, <3>5, FetchKeeps
  <2>6. ASSUME NEW h \in Hosts, fetch[f].left = 0
        PROVE  Fetches!Redirected(f, h) = Fetches!Idle
    BY <2>6 DEF Fetches!Redirected
  <2> QED BY <1>4, <2>4, <2>5, <2>6 DEF Fetches!requestPinnedText
<1>5. CASE UNCHANGED fetchVars
  BY <1>5 DEF fetchVars, FetchInv
<1> QED BY <1>1, <1>2, <1>3, <1>4, <1>5 DEF Fetches!Next

\* No request goes to an address that is not public, and a call sends at most one request
\* more than it may follow redirects, for any names, addresses and redirects.
THEOREM OnlyPublicIsContactedAlways == ServicesSpec => []OnlyPublicIsContacted
<1>1. ServicesInit => FetchInv
  BY FetchInit DEF ServicesInit
<1>2. FetchInv /\ [ServicesNext]_allVars => FetchInv'
  BY FetchNext, Steps
<1>3. FetchInv => OnlyPublicIsContacted
  BY DEF FetchInv, OnlyPublicIsContacted, Fetches!OnlyPublicIsContacted
<1> QED BY <1>1, <1>2, <1>3, PTL DEF ServicesSpec
-----------------------------------------------------------------------------
(* Dashboard.                                                              *)

Row == Dashboard!Row
Collecting == [step : {"idle", "fetch", "insights", "upsert"},
               row : Row \cup {Dashboard!NoCursor}, reported : BOOLEAN]
Reading == [step : {"idle", "page", "done"}, from : Times \cup {0},
            seen : SUBSET Row, shown : SUBSET Row, cursor : Row \cup {Dashboard!NoCursor}]

\* A row there was before the dashboard began to read has been seen or comes after its
\* cursor, and what was reported of a row it has seen is shown.
Complete(r) ==
  /\ before.stored \subseteq stored /\ before.reported \subseteq reported
  /\ r.seen \subseteq stored /\ r.seen \cap before.reported \subseteq r.shown
  /\ r.step = "page" => \A q \in before.stored :
                          q[1] >= r.from /\ (q \in r.seen \/ Dashboard!After(q, r.cursor))
  /\ r.step = "done" => before.stored \subseteq r.seen

DashboardTypes ==
  /\ stored \subseteq Row /\ reported \subseteq Row /\ IsFiniteSet(stored)
  /\ collection \in [One -> Collecting]
  /\ \A c \in One : collection[c].step # "idle" => collection[c].row \in Row
  /\ read \in Reading /\ before \in [stored : SUBSET Row, reported : SUBSET Row]

DashboardInv == DashboardTypes /\ Complete(read)

\* Rows are in a strict order.
LEMMA RowsInOrder ==
  /\ \A r \in Row : r = <<r[1], r[2]>> /\ r[1] \in Nat /\ r[2] \in Publications /\ r[2] \in Nat
  /\ \A r, q \in Row : r = q \/ Dashboard!After(r, q) \/ Dashboard!After(q, r)
  /\ \A r, q \in Row : Dashboard!After(r, q) => r # q /\ ~Dashboard!After(q, r)
  /\ \A r, q, s \in Row : Dashboard!After(r, q) /\ Dashboard!After(q, s) => Dashboard!After(r, s)
  /\ \A r \in Row : Dashboard!After(r, Dashboard!NoCursor)
<1>1. \A r \in Row : r = <<r[1], r[2]>> /\ r[1] \in Nat /\ r[2] \in Publications /\ r[2] \in Nat
  <2>1. Times \subseteq Nat /\ Publications \subseteq Nat
    BY ServicesAssumption
  <2> SUFFICES ASSUME NEW t \in Times, NEW p \in Publications
               PROVE  LET r == <<t, p>> IN r = <<r[1], r[2]>> /\ r[1] \in Nat
                                           /\ r[2] \in Publications /\ r[2] \in Nat
    BY DEF Row, Dashboard!Row
  <2> QED BY <2>1
<1>2. \A r, q \in Row : r = q \/ Dashboard!After(r, q) \/ Dashboard!After(q, r)
  BY <1>1 DEF Dashboard!After
<1>3. \A r, q \in Row : Dashboard!After(r, q) => r # q /\ ~Dashboard!After(q, r)
  BY <1>1 DEF Dashboard!After
<1>4. \A r, q, s \in Row : Dashboard!After(r, q) /\ Dashboard!After(q, s) => Dashboard!After(r, s)
  BY <1>1 DEF Dashboard!After
<1>5. \A r \in Row : Dashboard!After(r, Dashboard!NoCursor)
  BY <1>1 DEF Dashboard!After, Dashboard!NoCursor
<1> QED BY <1>1, <1>2, <1>3, <1>4, <1>5

\* Of finitely many rows one is the last: the rows after it are the fewest.
LEMMA LastRow ==
  ASSUME NEW page \in SUBSET Row, IsFiniteSet(page), page # {}
  PROVE  \E last \in page : \A q \in page : ~Dashboard!After(q, last)
<1> DEFINE Later(r) == {q \in page : Dashboard!After(q, r)}
           Choices == {Later(r) : r \in page}
<1>1. IsWellFoundedOn(StrictSubsetOrdering(page), SUBSET page)
  BY FS_StrictSubsetOrderingWellFounded, FS_FiniteSubsetsOfFinite
<1>2. Choices \subseteq SUBSET page /\ Choices # {}
  OBVIOUS
<1> HIDE DEF Choices
<1>3. PICK least \in Choices : \A other \in Choices :
                                  <<other, least>> \notin StrictSubsetOrdering(page)
  BY <1>1, <1>2, WFMin
<1>4. PICK last \in page : least = Later(last)
  BY DEF Choices
<1>5. ASSUME NEW q \in page, Dashboard!After(q, last)
      PROVE  FALSE
  <2>1. Later(q) \in Choices
    BY DEF Choices
  <2>2. Later(q) \subseteq Later(last) /\ q \in Later(last) /\ q \notin Later(q)
    BY <1>5, RowsInOrder
  <2>3. <<Later(q), Later(last)>> \in StrictSubsetOrdering(page)
    BY <2>2 DEF StrictSubsetOrdering
  <2> QED BY <1>3, <1>4, <2>1, <2>3
<1> QED BY <1>5

LEMMA CardinalityOfRows == \A S : Dashboard!Cardinality(S) = Cardinality(S)
BY Zenon DEF Dashboard!Cardinality, Cardinality

LEMMA DashboardInit == Dashboard!Init => DashboardInv
<1> SUFFICES ASSUME Dashboard!Init PROVE DashboardInv
  OBVIOUS
<1>1. /\ stored = {} /\ reported = {} /\ read = Dashboard!NotReading
      /\ collection = [c \in One |-> Dashboard!Idle] /\ before = Dashboard!NoRows
  BY DEF Dashboard!Init
<1>2. /\ Dashboard!Idle \in Collecting /\ Dashboard!Idle.step = "idle"
      /\ Dashboard!NotReading \in Reading /\ Dashboard!NotReading.step = "idle"
      /\ Dashboard!NotReading.seen = {} /\ Dashboard!NotReading.shown = {}
      /\ Dashboard!NoRows \in [stored : SUBSET Row, reported : SUBSET Row]
      /\ Dashboard!NoRows.stored = {} /\ Dashboard!NoRows.reported = {}
  BY DEF Dashboard!Idle, Dashboard!NotReading, Dashboard!NoRows, Collecting, Reading
<1>3. DashboardTypes
  BY <1>1, <1>2, FS_EmptySet DEF DashboardTypes
<1> QED BY <1>1, <1>2, <1>3 DEF DashboardInv, Complete

LEMMA DashboardNext ==
  ASSUME DashboardInv, [Dashboard!Next]_dashboardVars
  PROVE  DashboardInv'
<1>types. DashboardTypes /\ Complete(read)
  BY DEF DashboardInv
<1>1. ASSUME NEW c \in One, NEW to \in Collecting, collection' = [collection EXCEPT ![c] = to],
             to.step # "idle" => to.row \in Row,
             \/ UNCHANGED <<stored, reported>>
             \/ \E r \in Row : /\ stored' = stored \cup {r}
                               /\ reported' \in {reported, reported \cup {r}},
             UNCHANGED <<read, before>>
      PROVE  DashboardInv'
  <2>1. /\ collection' \in [One -> Collecting]
        /\ \A d \in One : collection'[d].step # "idle" => collection'[d].row \in Row
    BY <1>1, <1>types DEF DashboardTypes
  <2>2. /\ stored' \subseteq Row /\ reported' \subseteq Row /\ IsFiniteSet(stored')
        /\ stored \subseteq stored' /\ reported \subseteq reported'
    BY <1>1, <1>types, FS_AddElement DEF DashboardTypes
  <2>3. DashboardTypes'
    BY <1>1, <1>types, <2>1, <2>2 DEF DashboardTypes
  <2>4. Complete(read)'
    BY <1>1, <1>types, <2>2 DEF Complete, Dashboard!After
  <2> QED BY <2>3, <2>4 DEF DashboardInv
<1>2. ASSUME NEW c \in One, NEW r \in Row, Dashboard!Collect(c, r)
      PROVE  DashboardInv'
  <2> DEFINE to == [step |-> "fetch", row |-> r, reported |-> FALSE]
  <2>1. to \in Collecting /\ to.row = r
    BY DEF Collecting
  <2>2. /\ collection' = [collection EXCEPT ![c] = to]
        /\ UNCHANGED <<stored, reported>> /\ UNCHANGED <<read, before>>
    BY <1>2 DEF Dashboard!Collect, Dashboard!rows
  <2> HIDE DEF to
  <2> QED BY <2>1, <2>2, <1>1
<1>3. ASSUME NEW c \in One, Dashboard!GiveUp(c), UNCHANGED <<stored, reported>>,
             UNCHANGED <<read, before>>
      PROVE  DashboardInv'
  <2>1. Dashboard!Idle \in Collecting /\ Dashboard!Idle.step = "idle"
    BY DEF Collecting, Dashboard!Idle
  <2> QED BY <1>1, <1>3, <2>1 DEF Dashboard!GiveUp
<1>4. ASSUME NEW c \in One, collection[c].step # "idle", NEW step \in {"insights", "upsert"},
             NEW any \in BOOLEAN,
             collection' = [collection EXCEPT ![c] = [collection[c] EXCEPT !.step = step,
                                                                          !.reported = any]],
             UNCHANGED <<stored, reported>>, UNCHANGED <<read, before>>
      PROVE  DashboardInv'
  <2> DEFINE to == [collection[c] EXCEPT !.step = step, !.reported = any]
  <2>1. to \in Collecting /\ to.row = collection[c].row
    BY <1>types DEF DashboardTypes, Collecting
  <2>2. collection[c].row \in Row /\ collection' = [collection EXCEPT ![c] = to]
    BY <1>4, <1>types DEF DashboardTypes
  <2> HIDE DEF to
  <2> QED BY <1>1, <1>4, <2>1, <2>2
<1>5. ASSUME NEW c \in One, Dashboard!fetchVk(c) \/ Dashboard!fetchInstagram(c)
      PROVE  DashboardInv'
  <2>1. /\ collection[c].step # "idle" /\ UNCHANGED <<stored, reported>>
        /\ UNCHANGED <<read, before>>
        /\ \/ Dashboard!GiveUp(c)
           \/ \E any \in BOOLEAN :
                collection' = [collection EXCEPT ![c].step = "upsert", ![c].reported = any]
           \/ collection' = [collection EXCEPT ![c].step = "insights"]
    BY <1>5, Zenon DEF Dashboard!fetchVk, Dashboard!fetchInstagram, Dashboard!rows
  <2>2. collection[c] \in Collecting /\ collection \in [One -> Collecting]
    BY <1>types DEF DashboardTypes
  <2>3. ASSUME NEW any \in BOOLEAN,
               collection' = [collection EXCEPT ![c].step = "upsert", ![c].reported = any]
        PROVE  DashboardInv'
    <3>1. collection' = [collection EXCEPT ![c] = [collection[c] EXCEPT !.step = "upsert",
                                                                       !.reported = any]]
      BY <2>2, <2>3
    <3> QED BY <1>4, <2>1, <3>1
  <2>4. CASE collection' = [collection EXCEPT ![c].step = "insights"]
    <3> DEFINE any == collection[c].reported
    <3>1. any \in BOOLEAN
      BY <2>2 DEF Collecting
    <3>2. [collection[c] EXCEPT !.step = "insights"]
            = [collection[c] EXCEPT !.step = "insights", !.reported = any]
      BY <2>2 DEF Collecting
    <3>3. collection' = [collection EXCEPT ![c] = [collection[c] EXCEPT !.step = "insights",
                                                                       !.reported = any]]
      BY <2>2, <2>4, <3>2
    <3> HIDE DEF any
    <3> QED BY <1>4, <2>1, <3>1, <3>3
  <2> QED BY <1>3, <2>1, <2>3, <2>4
<1>6. ASSUME NEW c \in One, Dashboard!upsertSnapshot(c)
      PROVE  DashboardInv'
  <2>1. /\ collection[c].step = "upsert" /\ Dashboard!GiveUp(c) /\ UNCHANGED <<read, before>>
        /\ \/ UNCHANGED <<stored, reported>>
           \/ /\ stored' = stored \cup {collection[c].row}
              /\ reported' \in {reported, reported \cup {collection[c].row}}
    BY <1>6 DEF Dashboard!upsertSnapshot, Dashboard!GiveUp, Dashboard!rows
  <2>2. collection[c].row \in Row
    BY <1>types, <2>1 DEF DashboardTypes
  <2>3. Dashboard!Idle \in Collecting /\ Dashboard!Idle.step = "idle"
    BY DEF Collecting, Dashboard!Idle
  <2> QED BY <1>1, <2>1, <2>2, <2>3 DEF Dashboard!GiveUp
<1>7. ASSUME NEW from \in Times, Dashboard!Get(from)
      PROVE  DashboardInv'
  <2> DEFINE to == [Dashboard!NotReading EXCEPT !.step = "page", !.from = from]
             old == [stored |-> {r \in stored : r[1] >= from}, reported |-> reported]
  <2>1. read' = to /\ before' = old /\ UNCHANGED <<stored, reported, collection>>
    BY <1>7 DEF Dashboard!Get, Dashboard!rows
  <2>2. /\ to \in Reading /\ to.step = "page" /\ to.from = from /\ to.seen = {}
        /\ to.cursor = Dashboard!NoCursor
    BY DEF Reading, Dashboard!NotReading
  <2>3. /\ old.stored \subseteq stored /\ old.reported = reported
        /\ \A q \in old.stored : q[1] >= from
    OBVIOUS
  <2> HIDE DEF to, old
  <2>4. before' \in [stored : SUBSET Row, reported : SUBSET Row]
    BY <1>types, <2>1, <2>3 DEF DashboardTypes, old
  <2>5. DashboardTypes'
    BY <1>types, <2>1, <2>2, <2>4 DEF DashboardTypes
  <2>6. \A q \in stored : Dashboard!After(q, Dashboard!NoCursor)
    BY <1>types, RowsInOrder DEF DashboardTypes
  <2>7. Complete(read)'
    BY <2>1, <2>2, <2>3, <2>6 DEF Complete, Dashboard!After
  <2> QED BY <2>5, <2>7 DEF DashboardInv
<1>8. ASSUME Dashboard!Page
      PROVE  DashboardInv'
  <2> DEFINE rest == {r \in stored : r[1] >= read.from /\ Dashboard!After(r, read.cursor)}
  <2>1. PICK page \in SUBSET stored :
          /\ Dashboard!listSnapshots(page)
          /\ read' = IF Dashboard!Cardinality(page) = SnapshotPage
                       THEN [read EXCEPT !.seen = @ \cup page,
                                         !.shown = @ \cup (page \cap reported),
                                         !.cursor = CHOOSE r \in page :
                                                      \A q \in page \ {r} : Dashboard!After(r, q)]
                       ELSE [read EXCEPT !.seen = @ \cup page,
                                         !.shown = @ \cup (page \cap reported),
                                         !.step = "done"]
    BY <1>8 DEF Dashboard!Page
  <2>2. /\ read.step = "page" /\ read \in Reading /\ page \subseteq Row /\ IsFiniteSet(page)
        /\ IsFiniteSet(stored) /\ UNCHANGED <<stored, reported, collection, before>>
    BY <1>8, <1>types, FS_Subset DEF Dashboard!Page, Dashboard!rows, DashboardTypes
  <2>3. /\ page \subseteq rest /\ rest \subseteq stored /\ IsFiniteSet(rest)
        /\ Cardinality(page) = IF Cardinality(rest) < SnapshotPage THEN Cardinality(rest)
                                                               ELSE SnapshotPage
        /\ \A r \in page, q \in rest \ page : Dashboard!After(q, r)
    BY <2>1, <2>2, CardinalityOfRows, FS_Subset DEF Dashboard!listSnapshots
  <2>4. \A q \in before.stored : q \in read.seen \/ q \in rest
    BY <1>types, <2>2 DEF Complete
  <2>5. CASE Cardinality(page) = SnapshotPage
    <3> DEFINE cursor == CHOOSE r \in page : \A q \in page \ {r} : Dashboard!After(r, q)
               to == [read EXCEPT !.seen = @ \cup page, !.shown = @ \cup (page \cap reported),
                                  !.cursor = cursor]
    <3>1. page # {}
      BY <2>5, ServicesAssumption, FS_EmptySet
    <3>2. \E r \in page : \A q \in page \ {r} : Dashboard!After(r, q)
      BY <2>2, <3>1, LastRow, RowsInOrder
    <3>3. cursor \in page
      BY <3>2
    <3>4. read' = to
      BY <2>1, <2>5, CardinalityOfRows
    <3> HIDE DEF cursor
    <3>5. /\ to \in Reading /\ to.step = "page" /\ to.from = read.from /\ to.cursor = cursor
          /\ to.seen = read.seen \cup page /\ to.shown = read.shown \cup (page \cap reported)
      BY <2>2, <3>3 DEF Reading
    <3> HIDE DEF to
    <3>6. \A q \in before.stored : q \in to.seen \/ Dashboard!After(q, to.cursor)
      BY <2>3, <2>4, <3>3, <3>5
    <3>7. DashboardTypes'
      BY <1>types, <2>2, <3>4, <3>5 DEF DashboardTypes
    <3>8. Complete(read)'
      BY <1>types, <2>2, <3>4, <3>5, <3>6 DEF Complete, Dashboard!After
    <3> QED BY <3>7, <3>8 DEF DashboardInv
  <2>6. CASE Cardinality(page) # SnapshotPage
    <3> DEFINE to == [read EXCEPT !.seen = @ \cup page, !.shown = @ \cup (page \cap reported),
                                  !.step = "done"]
    <3>1. page = rest
      BY <2>3, <2>6, FS_Subset
    <3>2. read' = to
      BY <2>1, <2>6, CardinalityOfRows
    <3>3. /\ to \in Reading /\ to.step = "done"
          /\ to.seen = read.seen \cup page /\ to.shown = read.shown \cup (page \cap reported)
      BY <2>2 DEF Reading
    <3> HIDE DEF to
    <3>4. DashboardTypes'
      BY <1>types, <2>2, <3>2, <3>3 DEF DashboardTypes
    <3>5. Complete(read)'
      BY <1>types, <2>2, <2>4, <3>1, <3>2, <3>3 DEF Complete
    <3> QED BY <3>4, <3>5 DEF DashboardInv
  <2> QED BY <2>5, <2>6
<1>9. CASE UNCHANGED dashboardVars
  BY <1>9 DEF dashboardVars, DashboardInv, DashboardTypes, Complete, Dashboard!After
<1> QED BY <1>2, <1>5, <1>6, <1>7, <1>8, <1>9 DEF Dashboard!Next, Row

\* Of the rows seen the latest of a publication is counted, once.
LEMMA LatestOfEach ==
  ASSUME NEW seen \in SUBSET Row, IsFiniteSet(seen)
  PROVE  LET counted == Dashboard!latestByPublication(seen) IN
         /\ counted \subseteq seen /\ IsFiniteSet(counted)
         /\ \A r \in seen : \E q \in counted : q[2] = r[2] /\ ~Dashboard!After(r, q)
         /\ \A r, q \in counted : r[2] = q[2] => r = q
<1> DEFINE counted == Dashboard!latestByPublication(seen)
<1>1. counted \subseteq seen
  BY DEF Dashboard!latestByPublication
<1>2. IsFiniteSet(counted)
  BY <1>1, FS_Subset
<1>3. ASSUME NEW r \in seen
      PROVE  \E q \in counted : q[2] = r[2] /\ ~Dashboard!After(r, q)
  <2> DEFINE same == {q \in seen : q[2] = r[2]}
  <2>1. same \in SUBSET seen /\ same \in SUBSET Row /\ same # {} /\ IsFiniteSet(same)
    BY FS_Subset
  <2>2. PICK last \in same : \A q \in same : ~Dashboard!After(q, last)
    BY <2>1, LastRow
  <2>3. last \in counted
    BY <2>2 DEF Dashboard!latestByPublication
  <2> QED BY <2>2, <2>3
<1>4. ASSUME NEW r \in counted, NEW q \in counted, r[2] = q[2]
      PROVE  r = q
  <2>1. ~Dashboard!After(r, q) /\ ~Dashboard!After(q, r)
    BY <1>4 DEF Dashboard!latestByPublication
  <2> QED BY <1>1, <2>1, RowsInOrder
<1> QED BY <1>1, <1>2, <1>3, <1>4

\* The dashboard counts each publication once, by a snapshot at least as new as the newest
\* there was when it began to read (analytics-dashboard.ts:87-133): rows come after its
\* cursor until they are seen, and the last page is all the rest.
THEOREM DashboardIsCompleteAlways == ServicesSpec => []DashboardIsComplete
<1>1. ServicesInit => DashboardInv
  BY DashboardInit DEF ServicesInit
<1>2. DashboardInv /\ [ServicesNext]_allVars => DashboardInv'
  BY Steps, DashboardNext
<1>3. ASSUME DashboardInv, read.step = "done"
      PROVE  LET counted == Dashboard!latestByPublication(read.seen) IN
             /\ \A r \in before.stored : \E q \in counted : q[2] = r[2] /\ ~Dashboard!After(r, q)
             /\ \A p \in Dashboard!Platforms :
                  /\ Cardinality({r \in counted : r[2] \in Dashboard!On(p)})
                       = Cardinality({r[2] : r \in counted} \cap Dashboard!On(p))
                  /\ (\E r \in counted \cap before.reported : r[2] \in Dashboard!On(p))
                       => {r \in counted : r[2] \in Dashboard!On(p)} \cap read.shown # {}
  <2> DEFINE counted == Dashboard!latestByPublication(read.seen)
  <2>1. /\ read.seen \in SUBSET Row /\ IsFiniteSet(read.seen) /\ before.stored \subseteq read.seen
        /\ read.seen \cap before.reported \subseteq read.shown
    <3>1. read.seen \subseteq stored /\ IsFiniteSet(stored) /\ read.seen \in SUBSET Row
      BY <1>3 DEF DashboardInv, DashboardTypes, Complete, Reading
    <3> QED BY <1>3, <3>1, FS_Subset DEF DashboardInv, Complete
  <2>2. /\ counted \subseteq read.seen /\ IsFiniteSet(counted)
        /\ \A r \in read.seen : \E q \in counted : q[2] = r[2] /\ ~Dashboard!After(r, q)
        /\ \A r, q \in counted : r[2] = q[2] => r = q
    BY <2>1, LatestOfEach
  <2> HIDE DEF counted
  <2>3. ASSUME NEW p \in Dashboard!Platforms
        PROVE  Cardinality({r \in counted : r[2] \in Dashboard!On(p)})
                 = Cardinality({r[2] : r \in counted} \cap Dashboard!On(p))
    <3> DEFINE ours == {r \in counted : r[2] \in Dashboard!On(p)}
               posts == {r[2] : r \in counted} \cap Dashboard!On(p)
               f == [r \in ours |-> r[2]]
    <3>1. IsFiniteSet(ours)
      BY <2>2, FS_Subset
    <3>2. f \in Injection(ours, posts)
      BY <2>2 DEF Injection, IsInjective
    <3>3. f \in Surjection(ours, posts)
      BY DEF Surjection
    <3>4. ExistsBijection(ours, posts)
      BY <3>2, <3>3 DEF ExistsBijection, Bijection
    <3> QED BY <3>1, <3>4, FS_Bijection
  <2> QED BY <2>1, <2>2, <2>3 DEF counted
<1>4. DashboardInv => DashboardIsComplete
  BY <1>3, CardinalityOfRows
     DEF DashboardIsComplete, Dashboard!DashboardIsComplete, Dashboard!platformTotals
<1> QED BY <1>1, <1>2, <1>4, PTL DEF ServicesSpec


-----------------------------------------------------------------------------
(* Hooks.                                                                  *)

\* A delivery is worked on from PENDING with no attempt; what came of its request decides
\* its status, and nobody works on it after.
HookInv ==
  /\ Hooks!TypeOK
  /\ \A d \in Hooks!Delivery :
       /\ work[d].step \in {"deliver", "good", "bad"} =>
            delivery[d] = [status |-> "PENDING", attempts |-> 0]
       /\ work[d].step \in {"rest", "create", "deliver", "bad"} => d \notin answered
       /\ work[d].step = "good" => d \in received \cap answered
       /\ delivery[d].status \in {"DELIVERED", "FAILED"} => work[d].step = "over"
       /\ delivery[d].status = "DELIVERED" => d \in received \cap answered
       /\ delivery[d].status = "FAILED" => d \notin answered

HookStep == {"rest", "create", "deliver", "good", "bad", "over"}
HookWork == [step : HookStep, secret : Secrets \cup {0}]
HookRow  == {Hooks!None} \cup [status : {"PENDING", "DELIVERED", "FAILED"}, attempts : 0..1]

LEMMA HookInit == Hooks!Init => HookInv
BY DEF Hooks!Init, HookInv, Hooks!TypeOK, Hooks!None, Hooks!Rest

\* What holds of a step of the work on one delivery.
LEMMA HookKeeps ==
  ASSUME HookInv, NEW d \in Hooks!Delivery, NEW step \in HookStep, Hooks!Goto(d, step),
         NEW row \in HookRow, delivery' = [delivery EXCEPT ![d] = row],
         received' \subseteq Hooks!Delivery, answered' \subseteq Hooks!Delivery, UNCHANGED endpoint,
         \A e \in Hooks!Delivery \ {d} : (e \in received' <=> e \in received)
                                         /\ (e \in answered' <=> e \in answered),
         /\ step \in {"deliver", "good", "bad"} => row = [status |-> "PENDING", attempts |-> 0]
         /\ step \in {"rest", "create", "deliver", "bad"} => d \notin answered'
         /\ step = "good" => d \in received' \cap answered'
         /\ row.status \in {"DELIVERED", "FAILED"} => step = "over"
         /\ row.status = "DELIVERED" => d \in received' \cap answered'
         /\ row.status = "FAILED" => d \notin answered'
  PROVE  HookInv'
<1>1. work \in [Hooks!Delivery -> HookWork] /\ delivery \in [Hooks!Delivery -> HookRow]
  BY DEF HookInv, Hooks!TypeOK, HookWork, HookStep, HookRow
<1>2. work' = [work EXCEPT ![d] = [work[d] EXCEPT !.step = step]]
  BY DEF Hooks!Goto
<1>3. [work[d] EXCEPT !.step = step] \in HookWork /\ [work[d] EXCEPT !.step = step].step = step
  BY <1>1 DEF HookWork
<1>4. work' \in [Hooks!Delivery -> HookWork] /\ delivery' \in [Hooks!Delivery -> HookRow]
  BY <1>1, <1>2, <1>3
<1>5. /\ work'[d].step = step /\ delivery'[d] = row
      /\ \A e \in Hooks!Delivery \ {d} : work'[e] = work[e] /\ delivery'[e] = delivery[e]
  BY <1>1, <1>2, <1>3
<1>6. Hooks!TypeOK'
  BY <1>4 DEF HookInv, Hooks!TypeOK, HookWork, HookStep, HookRow
<1>7. ASSUME NEW e \in Hooks!Delivery
      PROVE  /\ work'[e].step \in {"deliver", "good", "bad"} =>
                  delivery'[e] = [status |-> "PENDING", attempts |-> 0]
             /\ work'[e].step \in {"rest", "create", "deliver", "bad"} => e \notin answered'
             /\ work'[e].step = "good" => e \in received' \cap answered'
             /\ delivery'[e].status \in {"DELIVERED", "FAILED"} => work'[e].step = "over"
             /\ delivery'[e].status = "DELIVERED" => e \in received' \cap answered'
             /\ delivery'[e].status = "FAILED" => e \notin answered'
  <2>1. CASE e = d
    BY <1>5, <2>1
  <2>2. CASE e # d
    BY <1>5, <2>2 DEF HookInv
  <2> QED BY <2>1, <2>2
<1> QED BY <1>6, <1>7 DEF HookInv

LEMMA HookNext == HookInv /\ [Hooks!Next]_hookVars => HookInv'
<1> SUFFICES ASSUME HookInv, [Hooks!Next]_hookVars PROVE HookInv'
  OBVIOUS
<1>0. /\ work \in [Hooks!Delivery -> HookWork] /\ delivery \in [Hooks!Delivery -> HookRow]
      /\ received \subseteq Hooks!Delivery /\ answered \subseteq Hooks!Delivery
      /\ endpoint \in [Endpoints -> [secret : Secrets \cup {0}, active : BOOLEAN]]
  BY DEF HookInv, Hooks!TypeOK, HookWork, HookStep, HookRow
<1>1. ASSUME NEW e \in Endpoints, NEW secret \in Secrets, Hooks!configure(e, secret) PROVE HookInv'
  BY <1>1 DEF Hooks!configure, Hooks!createWebhookEndpoint, HookInv, Hooks!TypeOK
<1>2. ASSUME NEW m \in Emissions, Hooks!emit(m) PROVE HookInv'
  <2>1. \A d \in Hooks!Delivery : d[1] \in Emissions /\ d[2] \in Endpoints /\ d = <<d[1], d[2]>>
    BY DEF Hooks!Delivery
  <2>2. \A d \in Hooks!Delivery : d[1] = m => work[d] = Hooks!Rest
    BY <1>2, <2>1 DEF Hooks!emit
  <2>3. /\ work' \in [Hooks!Delivery -> HookWork]
        /\ \A d \in Hooks!Delivery : \/ work'[d] = work[d]
                                     \/ d[1] = m /\ work'[d].step \in {"create", "over"}
    BY <1>0, <1>2, <2>1 DEF Hooks!emit, HookWork, HookStep
  <2>4. UNCHANGED <<endpoint, delivery, received, answered>>
    BY <1>2 DEF Hooks!emit
  <2>5. Hooks!TypeOK'
    BY <2>3, <2>4 DEF HookInv, Hooks!TypeOK, HookWork, HookStep
  <2>6. ASSUME NEW d \in Hooks!Delivery, d[1] = m, work'[d].step \in {"create", "over"}
        PROVE  d \notin answered /\ delivery[d].status \notin {"DELIVERED", "FAILED"}
    BY <2>2, <2>6 DEF HookInv, Hooks!Rest
  <2> QED BY <2>3, <2>4, <2>5, <2>6 DEF HookInv
<1>3. ASSUME NEW d \in Hooks!Delivery, Hooks!createDelivery(d) PROVE HookInv'
  <2>1. /\ work[d].step = "create" /\ d \notin answered
        /\ delivery[d].status \notin {"DELIVERED", "FAILED"} /\ delivery[d] \in HookRow
        /\ delivery = [delivery EXCEPT ![d] = delivery[d]]
        /\ UNCHANGED <<endpoint, received, answered>>
    BY <1>0, <1>3 DEF Hooks!createDelivery, HookInv
  <2> DEFINE row == [status |-> "PENDING", attempts |-> 0]
  <2>2. row \in HookRow /\ row.status = "PENDING"
    BY DEF HookRow
  <2>3. CASE delivery' = [delivery EXCEPT ![d] = row] /\ Hooks!Goto(d, "deliver")
    <3>1. "deliver" \in HookStep
      BY DEF HookStep
    <3> QED BY <1>0, <2>1, <2>2, <2>3, <3>1, HookKeeps
  <2>4. CASE Hooks!Goto(d, "over") /\ UNCHANGED delivery
    <3>1. "over" \in HookStep
      BY DEF HookStep
    <3> QED BY <1>0, <2>1, <2>4, <3>1, HookKeeps
  <2> QED BY <1>3, <2>3, <2>4 DEF Hooks!createDelivery
<1>4. ASSUME NEW d \in Hooks!Delivery, Hooks!Deliver(d) PROVE HookInv'
  <2>1. /\ work[d].step = "deliver" /\ d \notin answered
        /\ delivery[d] = [status |-> "PENDING", attempts |-> 0] /\ delivery[d] \in HookRow
        /\ delivery' = [delivery EXCEPT ![d] = delivery[d]]
        /\ UNCHANGED endpoint
    BY <1>0, <1>4 DEF Hooks!Deliver, HookInv
  <2>2. PICK step \in {"good", "bad", "over"} :
          /\ Hooks!Goto(d, step)
          /\ received' \in {received, received \cup {d}}
          /\ answered' \in {answered, answered \cup {d}}
          /\ step = "good" => d \in received' \cap answered'
          /\ step = "bad" => answered' = answered
    BY <1>4 DEF Hooks!Deliver
  <2>3. step \in HookStep
    BY DEF HookStep
  <2>4. /\ received' \subseteq Hooks!Delivery /\ answered' \subseteq Hooks!Delivery
        /\ \A e \in Hooks!Delivery \ {d} : (e \in received' <=> e \in received)
                                           /\ (e \in answered' <=> e \in answered)
    BY <1>0, <2>2
  <2> QED BY <2>1, <2>2, <2>3, <2>4, HookKeeps
<1>5. ASSUME NEW d \in Hooks!Delivery, Hooks!updateDelivery(d) PROVE HookInv'
  <2>1. /\ work[d].step \in {"good", "bad"} /\ Hooks!Goto(d, "over")
        /\ delivery[d] = [status |-> "PENDING", attempts |-> 0] /\ delivery[d] \in HookRow
        /\ work[d].step = "good" => d \in received \cap answered
        /\ work[d].step = "bad" => d \notin answered
        /\ delivery = [delivery EXCEPT ![d] = delivery[d]]
        /\ UNCHANGED <<endpoint, received, answered>>
    BY <1>0, <1>5 DEF Hooks!updateDelivery, HookInv
  <2>2. "over" \in HookStep
    BY DEF HookStep
  <2>3. CASE UNCHANGED delivery
    BY <1>0, <2>1, <2>2, <2>3, HookKeeps
  <2>4. CASE ~UNCHANGED delivery
    <3> DEFINE row == [status |-> IF work[d].step = "good" THEN "DELIVERED" ELSE "FAILED",
                       attempts |-> 1]
    <3>1. row \in HookRow /\ row.status = IF work[d].step = "good" THEN "DELIVERED" ELSE "FAILED"
      BY DEF HookRow
    <3>2. delivery' = [delivery EXCEPT ![d] = row]
      BY <1>5, <2>1, <2>4 DEF Hooks!updateDelivery
    <3> HIDE DEF row
    <3> QED BY <1>0, <2>1, <2>2, <3>1, <3>2, HookKeeps
  <2> QED BY <2>3, <2>4
<1>6. CASE UNCHANGED hookVars
  BY <1>6 DEF hookVars, HookInv, Hooks!TypeOK
<1> QED BY <1>1, <1>2, <1>3, <1>4, <1>5, <1>6 DEF Hooks!Next

\* DELIVERED is said of what was accepted and acknowledged and FAILED of what was not, for
\* any number of endpoints, emissions and secrets.
THEOREM DeliveriesAreTrueAlways == ServicesSpec => []DeliveriesAreTrue
<1>1. ServicesInit => HookInv
  BY HookInit DEF ServicesInit
<1>2. HookInv /\ [ServicesNext]_allVars => HookInv'
  BY HookNext, Steps
<1>3. HookInv => DeliveriesAreTrue
  BY DEF HookInv, DeliveriesAreTrue, Hooks!DeliveriesAreTrue
<1> QED BY <1>1, <1>2, <1>3, PTL DEF ServicesSpec
-----------------------------------------------------------------------------
(* Media: the theorems of MediaStoreProofs, in the instance.               *)

MediaResults == INSTANCE MediaStoreProofs WITH
  Uploads <- Three, MaxFaults <- MediaFaults, faults <- failures

LEMMA MediaSteps == ServicesSpec => Media!Spec
<1>1. ServicesInit => Media!Init
  BY DEF ServicesInit
<1>2. [ServicesNext]_allVars => [Media!Next]_(Media!vars)
  BY DEF ServicesNext, Accounting, Adapting, Learning, Admitting, Limiting, Submitting, Fetching,
         Measuring, Notifying, Storing, Drafting, Judging, OtherThanKnowledge, allVars, mediaVars,
         Media!vars, Media!files, Media!production
<1> QED BY <1>1, <1>2, PTL DEF ServicesSpec, Media!Spec

\* Media and MediaResults are instances of the same module with the same values.
LEMMA SameMedia == Media!Spec => MediaResults!Spec
<1>1. Media!Init => MediaResults!Init
  BY DEF Media!Init, MediaResults!Init, Media!NoRow, MediaResults!NoRow, Media!Idle,
         MediaResults!Idle
<1>2. Media!Next => MediaResults!Next
  BY DEF Media!Next, MediaResults!Next, Media!Step, MediaResults!Step,
         Media!createOrGetPendingAsset, MediaResults!createOrGetPendingAsset,
         Media!Look, MediaResults!Look, Media!Put, MediaResults!Put,
         Media!Ready, MediaResults!Ready, Media!Undo, MediaResults!Undo,
         Media!Fail, MediaResults!Fail, Media!Die, MediaResults!Die,
         Media!Accepted, MediaResults!Accepted,
         Media!inspectMediaBytes, MediaResults!inspectMediaBytes,
         Media!updateAssetStatus, MediaResults!updateAssetStatus,
         Media!At, MediaResults!At, Media!Goto, MediaResults!Goto,
         Media!Finish, MediaResults!Finish, Media!Place, MediaResults!Place,
         Media!Fault, MediaResults!Fault, Media!READY, MediaResults!READY,
         Media!MoveProduction, MediaResults!MoveProduction,
         Media!Transcribe, MediaResults!Transcribe,
         Media!createTranscript, MediaResults!createTranscript,
         Media!setOutputAsset, MediaResults!setOutputAsset,
         Media!createCaptionTrack, MediaResults!createCaptionTrack,
         Media!NoRow, MediaResults!NoRow, Media!Idle, MediaResults!Idle,
         Media!vars, MediaResults!vars, Media!files, MediaResults!files,
         Media!production, MediaResults!production
<1>3. [Media!Next]_(Media!vars) => [MediaResults!Next]_(MediaResults!vars)
  BY <1>2 DEF Media!vars, MediaResults!vars, Media!files, MediaResults!files,
              Media!production, MediaResults!production
<1> QED BY <1>1, <1>3, PTL DEF MediaResults!Spec, Media!Spec

\* What a production is made of stays READY (captions.ts:68-78, media.ts:355-384).
THEOREM DerivedFromReadyAlways == ServicesSpec => []DerivedFromReady
<1>1. MediaResults!Spec => []MediaResults!DerivedFromReady
  BY MediaResults!DerivedFromReadyAlways
<1>2. MediaResults!DerivedFromReady => DerivedFromReady
  BY DEF DerivedFromReady, Media!DerivedFromReady, MediaResults!DerivedFromReady,
         Media!READY, MediaResults!READY
<1> QED BY <1>1, <1>2, SameMedia, MediaSteps, PTL

\* A FAILED file leaves no object behind, but for what a clean-up could not delete
\* (media.ts:152-157).
THEOREM FailedLeavesNothingAlways == ServicesSpec => []FailedLeavesNothing
<1>1. MediaResults!Spec => []MediaResults!FailedLeavesNothing
  BY MediaResults!FailedLeavesNothingAlways
<1>2. MediaResults!FailedLeavesNothing => FailedLeavesNothing
  BY DEF FailedLeavesNothing, Media!FailedLeavesNothing, MediaResults!FailedLeavesNothing,
         Media!Place, MediaResults!Place
<1> QED BY <1>1, <1>2, SameMedia, MediaSteps, PTL

-----------------------------------------------------------------------------
(* Planning.                                                               *)

PlanCall ==
  [by : {"generate", "create"}, step : {"idle", "ask", "parse", "latest", "insert"},
   found : SUBSET {"source", "recipe"},
   recipe : Recipes \cup {Planning!NoRecipe},
   beats : Planning!Beats \cup {Planning!NoBeats}, latest : 0..MaxStoryboards]
Board == [version : 1..MaxStoryboards, by : {"generate", "create"}, allowed : BOOLEAN]

\* What a call is about to parse by, and what it has parsed, was offered while it worked.
Offered(c) ==
  /\ planning[c].step # "idle" => recipe \in offered[c]
  /\ planning[c].step = "parse" \/ (planning[c].step = "ask" /\ "recipe" \in planning[c].found)
       => planning[c].recipe \in offered[c]
  /\ planning[c].step \in {"latest", "insert"} /\ planning[c].by = "generate"
       => \E r \in offered[c] : Planning!parseGeneratedStoryboard(planning[c].beats, r)

PlanInv ==
  /\ Planning!TypeOK
  /\ \A c \in Two : Offered(c) /\ planning[c].latest <= Len(storyboards)
  /\ Planning!StoryboardsAreNumbered

LEMMA PlanTypes ==
  Planning!TypeOK <=>
    /\ approved \in BOOLEAN /\ planning \in [Two -> PlanCall]
    /\ recipe \in Recipes
    /\ offered \in [Two -> SUBSET Recipes]
    /\ storyboards \in Seq(Board)
BY DEF Planning!TypeOK, PlanCall, Board

LEMMA PlanInit == Planning!Init => PlanInv
<1> SUFFICES ASSUME Planning!Init PROVE PlanInv
  OBVIOUS
<1>1. Planning!Idle \in PlanCall /\ Planning!Idle.step = "idle" /\ Planning!Idle.latest = 0
  BY ServicesAssumption DEF PlanCall, Planning!Idle
<1>2. Planning!TypeOK
  BY <1>1, PlanTypes DEF Planning!Init
<1>3. \A c \in Two : Offered(c) /\ planning[c].latest <= Len(storyboards)
  BY <1>1 DEF Planning!Init, Offered
<1>4. Planning!StoryboardsAreNumbered
  BY DEF Planning!Init, Planning!StoryboardsAreNumbered
<1> QED BY <1>2, <1>3, <1>4 DEF PlanInv

\* What holds of a step of one call that stores nothing.
LEMMA PlanKeeps ==
  ASSUME PlanInv, NEW c \in Two, NEW to \in PlanCall, planning' = [planning EXCEPT ![c] = to],
         NEW past \in SUBSET Recipes,
         offered' = [offered EXCEPT ![c] = past],
         UNCHANGED <<approved, recipe, storyboards>>, to.latest <= Len(storyboards),
         to.step # "idle" => recipe \in past,
         to.step = "parse" \/ (to.step = "ask" /\ "recipe" \in to.found) => to.recipe \in past,
         to.step \in {"latest", "insert"} /\ to.by = "generate"
           => \E r \in past : Planning!parseGeneratedStoryboard(to.beats, r)
  PROVE  PlanInv'
<1>1. /\ planning \in [Two -> PlanCall]
      /\ offered \in [Two -> SUBSET Recipes]
  BY PlanTypes DEF PlanInv
<1>2. /\ planning' \in [Two -> PlanCall] /\ planning'[c] = to
      /\ \A d \in Two : d # c => planning'[d] = planning[d]
      /\ offered' \in [Two -> SUBSET Recipes]
      /\ offered'[c] = past /\ \A d \in Two : d # c => offered'[d] = offered[d]
  BY <1>1
<1>3. Planning!TypeOK'
  BY <1>2, PlanTypes DEF PlanInv, Planning!TypeOK, PlanCall
<1>4. ASSUME NEW d \in Two
      PROVE  Offered(d)' /\ planning'[d].latest <= Len(storyboards')
  <2>1. CASE d = c
    BY <1>2, <2>1 DEF Offered, Planning!parseGeneratedStoryboard, Planning!durationRange
  <2>2. CASE d # c
    BY <1>2, <2>2 DEF PlanInv, Offered, Planning!parseGeneratedStoryboard, Planning!durationRange
  <2> QED BY <2>1, <2>2
<1>5. Planning!StoryboardsAreNumbered'
  BY DEF PlanInv, Planning!StoryboardsAreNumbered
<1> QED BY <1>3, <1>4, <1>5 DEF PlanInv

LEMMA PlanNext ==
  ASSUME PlanInv, [Planning!Next]_planVars
  PROVE  PlanInv'
<1>types. /\ approved \in BOOLEAN /\ planning \in [Two -> PlanCall]
      /\ recipe \in Recipes
      /\ offered \in [Two -> SUBSET Recipes]
      /\ storyboards \in Seq(Board) /\ Len(storyboards) \in Nat
      /\ Planning!Idle \in PlanCall /\ Planning!Idle.step = "idle" /\ Planning!Idle.latest = 0
      /\ Planning!Idle.found = {} /\ Planning!Idle.by = "generate"
  BY PlanTypes, ServicesAssumption DEF PlanInv, PlanCall, Planning!Idle
<1>z. 0 <= Len(storyboards) /\ {} \in SUBSET Recipes
  BY <1>types
<1>1. CASE Planning!MoveProject
  <2>1. UNCHANGED <<recipe, planning, offered, storyboards>> /\ approved' \in BOOLEAN
    BY <1>1 DEF Planning!MoveProject
  <2> QED BY <2>1 DEF PlanInv, Planning!TypeOK, Offered, Planning!StoryboardsAreNumbered,
                      Planning!parseGeneratedStoryboard, Planning!durationRange
<1>2. CASE Planning!upsertRecipe
  <2>1. /\ recipe' \in Recipes
        /\ UNCHANGED <<approved, planning, storyboards>>
        /\ offered' = [c \in Two |-> IF planning[c].step = "idle" THEN {}
                                     ELSE offered[c] \cup {recipe'}]
    BY <1>2 DEF Planning!upsertRecipe, Planning!At
  <2>2. offered' \in [Two -> SUBSET Recipes]
    BY <1>types, <2>1
  <2>3. Planning!TypeOK'
    BY <2>1, <2>2 DEF PlanInv, Planning!TypeOK
  <2>4. ASSUME NEW c \in Two
        PROVE  Offered(c)' /\ planning'[c].latest <= Len(storyboards')
    BY <2>1 DEF PlanInv, Offered, Planning!parseGeneratedStoryboard, Planning!durationRange
  <2>5. Planning!StoryboardsAreNumbered'
    BY <2>1 DEF PlanInv, Planning!StoryboardsAreNumbered
  <2> QED BY <2>3, <2>4, <2>5 DEF PlanInv
<1>3. ASSUME NEW c \in Two, Planning!Begin(c)
      PROVE  PlanInv'
  <2> DEFINE to == [Planning!Idle EXCEPT !.step = "ask"]
  <2>1. /\ planning' = [planning EXCEPT ![c] = to]
        /\ offered' = [offered EXCEPT ![c] = {recipe}]
        /\ UNCHANGED <<approved, recipe, storyboards>>
    BY <1>3, <1>types DEF Planning!Begin
  <2>2. /\ to \in PlanCall /\ to.step = "ask" /\ to.found = {} /\ to.latest = 0
        /\ {recipe} \in SUBSET Recipes
    BY <1>types DEF PlanCall
  <2> HIDE DEF to
  <2> QED BY <1>z, <2>1, <2>2, PlanKeeps
<1>4. ASSUME NEW c \in Two, Planning!findApprovedStoryboardSource(c)
      PROVE  PlanInv'
  <2> DEFINE to == [planning[c] EXCEPT !.found = @ \cup {"source"}]
  <2>1. /\ planning' = [planning EXCEPT ![c] = to] /\ planning[c].step = "ask"
        /\ offered' = [offered EXCEPT ![c] = offered[c]]
        /\ UNCHANGED <<approved, recipe, storyboards>>
    BY <1>4, <1>types DEF Planning!findApprovedStoryboardSource, Planning!At
  <2>2. /\ to \in PlanCall /\ to.step = "ask" /\ to.latest = planning[c].latest
        /\ to.recipe = planning[c].recipe
        /\ ("recipe" \in to.found => "recipe" \in planning[c].found)
        /\ offered[c] \in SUBSET Recipes
    BY <1>types, <2>1 DEF PlanCall
  <2>3. Offered(c) /\ planning[c].latest <= Len(storyboards)
    BY DEF PlanInv
  <2> HIDE DEF to
  <2> QED BY <2>1, <2>2, <2>3, PlanKeeps DEF Offered
<1>5. ASSUME NEW c \in Two, Planning!findActiveRecipe(c)
      PROVE  PlanInv'
  <2> DEFINE to == [planning[c] EXCEPT !.found = @ \cup {"recipe"}, !.recipe = recipe]
  <2>1. /\ planning' = [planning EXCEPT ![c] = to] /\ planning[c].step = "ask"
        /\ offered' = [offered EXCEPT ![c] = offered[c]]
        /\ UNCHANGED <<approved, recipe, storyboards>>
    BY <1>5, <1>types DEF Planning!findActiveRecipe, Planning!At
  <2>2. /\ to \in PlanCall /\ to.step = "ask" /\ to.latest = planning[c].latest
        /\ to.recipe = recipe
        /\ offered[c] \in SUBSET Recipes
    BY <1>types, <2>1 DEF PlanCall
  <2>3. Offered(c) /\ planning[c].latest <= Len(storyboards)
    BY DEF PlanInv
  <2> HIDE DEF to
  <2> QED BY <2>1, <2>2, <2>3, PlanKeeps DEF Offered
<1>6. ASSUME NEW c \in Two, Planning!generate(c)
      PROVE  PlanInv'
  <2>1. PICK beats \in Planning!Beats :
          planning' = [planning EXCEPT ![c].step = "parse", ![c].found = {}, ![c].beats = beats]
    BY <1>6 DEF Planning!generate
  <2> DEFINE to == [planning[c] EXCEPT !.step = "parse", !.found = {}, !.beats = beats]
  <2>2. /\ planning' = [planning EXCEPT ![c] = to] /\ planning[c].step = "ask"
        /\ "recipe" \in planning[c].found
        /\ offered' = [offered EXCEPT ![c] = offered[c]]
        /\ UNCHANGED <<approved, recipe, storyboards>>
    BY <1>6, <1>types, <2>1 DEF Planning!generate, Planning!At
  <2>3. /\ to \in PlanCall /\ to.step = "parse" /\ to.latest = planning[c].latest
        /\ to.recipe = planning[c].recipe
        /\ offered[c] \in SUBSET Recipes
    BY <1>types, <2>1 DEF PlanCall
  <2>4. Offered(c) /\ planning[c].latest <= Len(storyboards)
    BY DEF PlanInv
  <2> HIDE DEF to
  <2> QED BY <2>2, <2>3, <2>4, PlanKeeps DEF Offered
<1>7. ASSUME NEW c \in Two, Planning!Throw(c), UNCHANGED <<approved, recipe, storyboards>>
      PROVE  PlanInv'
  <2>1. /\ planning' = [planning EXCEPT ![c] = Planning!Idle]
        /\ offered' = [offered EXCEPT ![c] = {}]
    BY <1>7 DEF Planning!Throw
  <2>2. Planning!Idle \in PlanCall /\ Planning!Idle.step = "idle" /\ Planning!Idle.latest = 0
    BY <1>types
  <2> QED BY <1>7, <1>z, <2>1, <2>2, PlanKeeps
<1>8. ASSUME NEW c \in Two, Planning!Parse(c)
      PROVE  PlanInv'
  <2> DEFINE to == [planning[c] EXCEPT !.step = "latest", !.recipe = Planning!NoRecipe]
  <2>1. CASE Planning!Throw(c)
    BY <1>7, <1>8, <2>1 DEF Planning!Parse
  <2>2. CASE ~Planning!Throw(c)
    <3>1. /\ planning' = [planning EXCEPT ![c] = to] /\ planning[c].step = "parse"
          /\ offered' = [offered EXCEPT ![c] = offered[c]]
          /\ Planning!parseGeneratedStoryboard(planning[c].beats, planning[c].recipe)
          /\ UNCHANGED <<approved, recipe, storyboards>>
      BY <1>8, <1>types, <2>2 DEF Planning!Parse, Planning!At
    <3>2. /\ to \in PlanCall /\ to.step = "latest" /\ to.latest = planning[c].latest
          /\ to.beats = planning[c].beats
          /\ offered[c] \in SUBSET Recipes
      BY <1>types DEF PlanCall
    <3>3. Offered(c) /\ planning[c].latest <= Len(storyboards)
      BY DEF PlanInv
    <3> HIDE DEF to
    <3> QED BY <3>1, <3>2, <3>3, PlanKeeps DEF Offered
  <2> QED BY <2>1, <2>2
<1>9. ASSUME NEW c \in Two, Planning!create(c)
      PROVE  PlanInv'
  <2>1. PICK beats \in Planning!Beats :
          planning' = [planning EXCEPT ![c].by = "create", ![c].step = "latest",
                                       ![c].beats = beats]
    BY <1>9 DEF Planning!create
  <2> DEFINE to == [Planning!Idle EXCEPT !.by = "create", !.step = "latest", !.beats = beats]
  <2>2. /\ planning' = [planning EXCEPT ![c] = to]
        /\ offered' = [offered EXCEPT ![c] = {recipe}]
        /\ UNCHANGED <<approved, recipe, storyboards>>
    BY <1>9, <1>types, <2>1 DEF Planning!create
  <2>3. /\ to \in PlanCall /\ to.by = "create" /\ to.step = "latest" /\ to.latest = 0
        /\ {recipe} \in SUBSET Recipes
    BY <1>types, <2>1 DEF PlanCall
  <2> HIDE DEF to
  <2> QED BY <1>z, <2>2, <2>3, PlanKeeps
<1>10. ASSUME NEW c \in Two, Planning!readLatest(c)
       PROVE  PlanInv'
  <2> DEFINE n == Len(storyboards)
             to == [planning[c] EXCEPT !.step = "insert", !.latest = n]
  <2>1. /\ planning' = [planning EXCEPT ![c] = to] /\ planning[c].step = "latest"
        /\ offered' = [offered EXCEPT ![c] = offered[c]]
        /\ UNCHANGED <<approved, recipe, storyboards>>
    BY <1>10, <1>types DEF Planning!readLatest, Planning!At
  <2>2. n \in 0..MaxStoryboards
    <3>1. n \in Nat /\ \A i \in 1..n : i \in 1..MaxStoryboards
      <4>1. \A i \in 1..n : storyboards[i].version = i
        BY <1>types DEF PlanInv, Planning!StoryboardsAreNumbered
      <4>2. \A i \in 1..n : storyboards[i] \in Board
        BY <1>types
      <4> QED BY <1>types, <4>1, <4>2 DEF Board
    <3>2. CASE n = 0
      BY <3>2, ServicesAssumption
    <3>3. CASE n # 0
      BY <3>1, <3>3, ServicesAssumption
    <3> QED BY <3>2, <3>3
  <2>3. n <= Len(storyboards)
    BY <1>types
  <2> HIDE DEF n
  <2>4. /\ to \in PlanCall /\ to.step = "insert" /\ to.latest = n
        /\ to.beats = planning[c].beats /\ to.by = planning[c].by
        /\ offered[c] \in SUBSET Recipes
    BY <1>types, <2>2 DEF PlanCall
  <2>5. Offered(c)
    BY DEF PlanInv
  <2> HIDE DEF to
  <2> QED BY <2>1, <2>3, <2>4, <2>5, PlanKeeps DEF Offered
<1>11. ASSUME NEW c \in Two, Planning!createStoryboard(c)
       PROVE  PlanInv'
  <2>1. CASE UNCHANGED storyboards
    BY <1>7, <1>11, <2>1 DEF Planning!createStoryboard
  <2>2. CASE /\ \A i \in DOMAIN storyboards : storyboards[i].version # Planning!Row(c).version
             /\ Planning!Store(c)
    <3> DEFINE row == Planning!Row(c)
               next == planning[c].latest + 1
    <3>1. /\ planning[c] \in PlanCall /\ planning[c].latest \in 0..MaxStoryboards
          /\ planning[c].step = "insert" /\ planning[c].latest <= Len(storyboards)
          /\ Len(storyboards) < MaxStoryboards
      BY <1>11, <1>types, <2>2 DEF PlanCall, PlanInv, Planning!createStoryboard, Planning!Store,
           Planning!At
    <3>2. next \in 1..MaxStoryboards /\ next \in 1..(Len(storyboards) + 1)
      BY <1>types, <3>1, ServicesAssumption
    <3> HIDE DEF next
    <3>3. /\ row.version = next /\ row.by = planning[c].by /\ row.by \in {"generate", "create"}
          /\ row.allowed = (\E r \in offered[c] :
                              Planning!parseGeneratedStoryboard(planning[c].beats, r))
      BY <3>1 DEF Planning!Row, next, PlanCall
    <3>4. row \in Board
      BY <3>1, <3>2 DEF Planning!Row, next, PlanCall, Board
    <3>5. /\ \A i \in DOMAIN storyboards : storyboards[i].version # row.version
          /\ storyboards' = Append(storyboards, row)
      BY <2>2 DEF Planning!Store
    <3> HIDE DEF row
    <3>6. row.by = "generate" => row.allowed
      BY <3>1, <3>3 DEF PlanInv, Offered
    <3>7. next = Len(storyboards) + 1
      BY <1>types, <3>2, <3>3, <3>5 DEF PlanInv, Planning!StoryboardsAreNumbered
    <3>8. /\ storyboards' \in Seq(Board) /\ Len(storyboards') = Len(storyboards) + 1
          /\ storyboards'[Len(storyboards) + 1] = row
          /\ \A i \in 1..Len(storyboards) : storyboards'[i] = storyboards[i]
      BY <1>types, <3>4, <3>5
    <3>9. Planning!StoryboardsAreNumbered'
      <4> SUFFICES ASSUME NEW i \in 1..(Len(storyboards) + 1)
                   PROVE  /\ storyboards'[i].version = i
                          /\ storyboards'[i].by = "generate" => storyboards'[i].allowed
        BY <1>types, <3>8 DEF Planning!StoryboardsAreNumbered
      <4>1. CASE i = Len(storyboards) + 1
        BY <3>3, <3>6, <3>7, <3>8, <4>1
      <4>2. CASE i \in 1..Len(storyboards)
        BY <1>types, <3>8, <4>2 DEF PlanInv, Planning!StoryboardsAreNumbered
      <4> QED BY <1>types, <4>1, <4>2
    <3>10. /\ planning' \in [Two -> PlanCall] /\ planning'[c] = Planning!Idle
           /\ \A d \in Two : d # c => planning'[d] = planning[d]
           /\ offered' \in [Two -> SUBSET Recipes]
           /\ \A d \in Two : d # c => offered'[d] = offered[d]
           /\ UNCHANGED <<approved, recipe>>
      BY <1>11, <1>types DEF Planning!createStoryboard, Planning!Throw
    <3>11. Planning!TypeOK'
      BY <1>types, <3>8, <3>10 DEF Planning!TypeOK, PlanCall, Board
    <3>12. ASSUME NEW d \in Two
           PROVE  Offered(d)' /\ planning'[d].latest <= Len(storyboards')
      <4>1. CASE d = c
        BY <1>types, <3>8, <3>10, <4>1 DEF Offered
      <4>2. CASE d # c
        <5>1. Offered(d)'
          BY <3>10, <4>2 DEF PlanInv, Offered, Planning!parseGeneratedStoryboard,
               Planning!durationRange
        <5>2. planning[d].latest \in Nat /\ planning[d].latest <= Len(storyboards)
          BY <1>types DEF PlanInv, PlanCall
        <5> QED BY <1>types, <3>8, <3>10, <4>2, <5>1, <5>2
      <4> QED BY <4>1, <4>2
    <3> QED BY <3>9, <3>11, <3>12 DEF PlanInv
  <2> QED BY <1>11, <2>1, <2>2 DEF Planning!createStoryboard
<1>12. CASE UNCHANGED planVars
  BY <1>12 DEF planVars, PlanInv, Planning!TypeOK, Offered, Planning!StoryboardsAreNumbered,
       Planning!parseGeneratedStoryboard, Planning!durationRange
<1> QED BY <1>1, <1>2, <1>3, <1>4, <1>5, <1>6, <1>7, <1>8, <1>9, <1>10, <1>11, <1>12
        DEF Planning!Next, Planning!Unavailable

\* Storyboards are numbered in the order they were stored, and each generated one fits a
\* recipe there was while it was made (video-planning.ts:49-62): an unused number that is
\* at most one more than the latest is the next.
THEOREM StoryboardsAreNumberedAlways == ServicesSpec => []StoryboardsAreNumbered
<1>1. ServicesInit => PlanInv
  BY PlanInit DEF ServicesInit
<1>2. PlanInv /\ [ServicesNext]_allVars => PlanInv'
  BY Steps, PlanNext
<1>3. PlanInv => StoryboardsAreNumbered
  BY DEF PlanInv, StoryboardsAreNumbered
<1> QED BY <1>1, <1>2, <1>3, PTL DEF ServicesSpec

-----------------------------------------------------------------------------
(* Trials.                                                                 *)

Reads == {"list", "decide", "finished"}
Judgement == [step : {"idle", "write"} \cup Reads, case : Trials!AllCases \cup {0},
              result : Trials!Result \cup {"none"}, found : SUBSET Trials!AllCases,
              verdict : {"PASSED", "FAILED", "none"}, required : SUBSET Cases]

\* A result of the suite is of a case it has, and so is one that is about to be written.
Recordable == cases \cup OtherCases
ResultsOfCases ==
  /\ \A k \in Cases : results[k] # "none" => k \in cases
  /\ \A c \in Two : Trials!At(c, "write") =>
       judging[c].case \in Recordable /\ judging[c].result # "none"

\* The verdict is of the results a finisher has found, but for those written since.
VerdictOf(found, verdict, since) ==
  /\ found \subseteq Recordable /\ verdict \in {"PASSED", "FAILED"}
  /\ \A k \in found : results[k] # "none"
  /\ \A k \in Trials!AllCases \ (found \cup since) : results[k] = "none"
  /\ verdict = "PASSED" => \A k \in found \ since : results[k] = "passed"
  /\ verdict = "FAILED" => since # {} \/ \E k \in found : results[k] = "failed"

\* When the suite fits a page, a finisher that has counted lacks no more results of it
\* than it has found of other suites' cases.
Counted(found, required) ==
  Cardinality(required) <= CasePage
    => Cardinality(required \ found) <= Cardinality(found \cap OtherCases)

VerdictInv ==
  \A c \in Two :
    /\ judging[c].step \notin Reads => behind[c] = {}
    /\ judging[c].step \in Reads => VerdictOf(judging[c].found, judging[c].verdict, behind[c])
    /\ judging[c].step \in {"decide", "finished"}
         => Counted(judging[c].found, judging[c].required)
    /\ judging[c].step = "finished" => run = judging[c].verdict

TrialInv == Trials!TypeOK /\ ResultsOfCases /\ VerdictInv

LEMMA TrialInit == Trials!Init => TrialInv
<1> USE DEF Trials!AllCases, Recordable
<1> SUFFICES ASSUME Trials!Init PROVE TrialInv
  OBVIOUS
<1>1. Trials!TypeOK
  BY DEF Trials!Init, Trials!TypeOK, Trials!Idle
<1>2. ResultsOfCases
  BY DEF Trials!Init, Trials!Idle, ResultsOfCases, Trials!At
<1>3. VerdictInv
  BY DEF Trials!Init, Trials!Idle, VerdictInv, Reads
<1> QED BY <1>1, <1>2, <1>3 DEF TrialInv

\* The Cardinality that Evaluations extends is the one the library's theorems are about.
LEMMA CardinalityOfCases == \A S : Trials!Cardinality(S) = Cardinality(S)
BY Zenon DEF Trials!Cardinality, Cardinality

\* A suite that fits a page is listed whole.
LEMMA PageOfCases ==
  ASSUME cases \subseteq Cases, Cardinality(cases) <= CasePage
  PROVE  IsFiniteSet(cases) /\ Trials!listCases = cases
<1>1. IsFiniteSet(cases) /\ Cardinality(cases) \in Nat
  BY ServicesAssumption, FS_Subset, FS_CardinalityType
<1>2. ASSUME NEW k \in cases
      PROVE  Cardinality({j \in cases : j < k}) < CasePage
  <2> DEFINE below == {j \in cases : j < k}
  <2>1. below \in SUBSET cases /\ k \notin below
    BY <1>2, ServicesAssumption
  <2>2. IsFiniteSet(below) /\ Cardinality(below) <= Cardinality(cases)
        /\ (Cardinality(cases) = Cardinality(below) => cases = below)
    BY <1>1, <2>1, FS_Subset
  <2>3. Cardinality(below) \in Nat
    BY <2>2, FS_CardinalityType
  <2> QED BY <1>1, <2>1, <2>2, <2>3, ServicesAssumption
<1>3. Trials!listCases \subseteq cases
  BY DEF Trials!listCases
<1>4. cases \subseteq Trials!listCases
  <2> SUFFICES ASSUME NEW k \in cases PROVE k \in Trials!listCases
    OBVIOUS
  <2>1. Trials!Cardinality({j \in cases : j < k}) < CasePage
    BY <1>2, CardinalityOfCases
  <2> QED BY <2>1, Zenon DEF Trials!listCases
<1> QED BY <1>1, <1>3, <1>4

\* As many results as cases: what is missing of these is foreign among those.
LEMMA CountingCases ==
  ASSUME NEW found \in SUBSET Recordable, cases \subseteq Cases,
         Cardinality(cases) <= CasePage, Cardinality(found) = Cardinality(Trials!listCases)
  PROVE  Cardinality(cases \ found) <= Cardinality(found \cap OtherCases)
<1>1. IsFiniteSet(cases) /\ Trials!listCases = cases
  BY PageOfCases
<1>2. IsFiniteSet(found)
  BY <1>1, ServicesAssumption, FS_Union, FS_Subset DEF Recordable
<1>3. /\ Cardinality(cases \ found) = Cardinality(cases) - Cardinality(cases \cap found)
      /\ Cardinality(found \ cases) = Cardinality(found) - Cardinality(found \cap cases)
  BY <1>1, <1>2, FS_Difference
<1>4. cases \cap found = found \cap cases
  OBVIOUS
<1>5. found \ cases = found \cap OtherCases
  BY ServicesAssumption DEF Recordable
<1>6. Cardinality(found \cap cases) \in Nat /\ Cardinality(cases) \in Nat
  BY <1>1, <1>2, FS_Intersection, FS_CardinalityType
<1>7. Cardinality(cases \ found) = Cardinality(found \ cases)
  BY <1>1, <1>3, <1>4, <1>6
<1>8. IsFiniteSet(found \ cases)
  BY <1>2, FS_Subset
<1>9. Cardinality(found \ cases) \in Nat
  BY <1>8, FS_CardinalityType
<1> QED BY <1>5, <1>7, <1>9

LEMMA TrialNext ==
  ASSUME TrialInv, [Trials!Next]_trialVars
  PROVE  TrialInv'
<1> USE DEF Trials!AllCases, Recordable
<1>types. /\ cases \subseteq Cases /\ results \in [Trials!AllCases -> Trials!Result \cup {"none"}]
      /\ judging \in [Two -> Judgement] /\ behind \in [Two -> SUBSET Trials!AllCases]
      /\ run \in Trials!EvaluationRunStatus \cup {"none"} /\ Trials!Idle \in Judgement
      /\ Trials!Idle.step = "idle"
  BY DEF TrialInv, Trials!TypeOK, Judgement, Reads, Trials!Idle
<1>1. CASE Trials!createCase
  <2>1. PICK k \in Cases : cases' = cases \cup {k}
    BY <1>1 DEF Trials!createCase
  <2>2. UNCHANGED <<run, results, judging, behind>>
    BY <1>1 DEF Trials!createCase
  <2>3. Trials!TypeOK'
    BY <2>1, <2>2 DEF TrialInv, Trials!TypeOK
  <2>4. ResultsOfCases'
    BY <2>1, <2>2 DEF TrialInv, ResultsOfCases, Trials!At
  <2>5. VerdictInv'
    BY <2>1, <2>2 DEF TrialInv, VerdictInv, VerdictOf, Counted
  <2> QED BY <2>3, <2>4, <2>5 DEF TrialInv
<1>2. CASE Trials!createRun \/ Trials!startRun
  <2>1. /\ run \in {"none", "PENDING"} /\ run' \in {"PENDING", "RUNNING"}
        /\ UNCHANGED <<cases, results, judging, behind>>
    BY <1>2 DEF Trials!createRun, Trials!startRun, Trials!transitionRun
  <2>2. Trials!TypeOK'
    BY <2>1 DEF TrialInv, Trials!TypeOK, Trials!EvaluationRunStatus
  <2>3. ResultsOfCases'
    BY <2>1 DEF TrialInv, ResultsOfCases, Trials!At
  <2>4. VerdictInv'
    BY <2>1 DEF TrialInv, VerdictInv, VerdictOf, Counted, Reads
  <2> QED BY <2>2, <2>3, <2>4 DEF TrialInv
\* Of a call that begins, goes on or ends while results stay as they are.
<1>3. ASSUME NEW c \in Two, NEW to \in Judgement, Trials!Goto(c, to),
             NEW after \in SUBSET Trials!AllCases, behind' = [behind EXCEPT ![c] = after],
             cases' = cases, results' = results,
             run' = run \/ (run = "RUNNING" /\ run' \in Trials!EvaluationRunStatus),
             to.step = "write" => to.case \in Recordable /\ to.result # "none",
             to.step \notin Reads => after = {},
             to.step \in Reads => VerdictOf(to.found, to.verdict, after),
             to.step \in {"decide", "finished"} => Counted(to.found, to.required),
             to.step = "finished" => run' = to.verdict
      PROVE  TrialInv'
  <2>1. /\ judging' \in [Two -> Judgement] /\ judging'[c] = to
        /\ \A d \in Two : d # c => judging'[d] = judging[d]
        /\ behind' \in [Two -> SUBSET Trials!AllCases] /\ behind'[c] = after
        /\ \A d \in Two : d # c => behind'[d] = behind[d]
    BY <1>types, <1>3 DEF Trials!Goto
  <2>2. Trials!TypeOK'
    BY <1>types, <1>3, <2>1 DEF Trials!TypeOK, Judgement, Reads
  <2>3. ResultsOfCases'
    BY <1>3, <2>1 DEF TrialInv, ResultsOfCases, Trials!At
  <2>4. ASSUME NEW d \in Two
        PROVE  /\ judging'[d].step \notin Reads => behind'[d] = {}
               /\ judging'[d].step \in Reads
                    => VerdictOf(judging[d].found, judging[d].verdict, behind[d])'
               /\ judging'[d].step \in {"decide", "finished"}
                    => Counted(judging[d].found, judging[d].required)'
               /\ judging'[d].step = "finished" => run' = judging'[d].verdict
    <3>1. CASE d = c
      BY <1>3, <2>1, <3>1 DEF VerdictOf, Counted
    <3>2. CASE d # c
      <4>1. judging'[d] = judging[d] /\ behind'[d] = behind[d]
        BY <2>1, <3>2
      <4>2. /\ judging[d].step \notin Reads => behind[d] = {}
            /\ judging[d].step \in Reads
                 => VerdictOf(judging[d].found, judging[d].verdict, behind[d])'
        BY <1>3, <4>1 DEF TrialInv, VerdictInv, VerdictOf
      <4>3. judging[d].step \in {"decide", "finished"}
              => Counted(judging[d].found, judging[d].required)'
        BY <4>1 DEF TrialInv, VerdictInv, Counted
      <4>4. judging[d].step = "finished" => run' = judging[d].verdict
        BY <1>3 DEF TrialInv, VerdictInv, VerdictOf, Reads
      <4> QED BY <4>1, <4>2, <4>3, <4>4
    <3> QED BY <3>1, <3>2
  <2>5. VerdictInv'
    BY <2>4 DEF VerdictInv
  <2> QED BY <2>2, <2>3, <2>5 DEF TrialInv
<1>4. ASSUME NEW c \in Two, Trials!recordResult(c)
      PROVE  TrialInv'
  <2>1. PICK k \in Recordable, r \in Trials!Result :
          Trials!Goto(c, [Trials!Idle EXCEPT !.step = "write", !.case = k, !.result = r])
    BY <1>4 DEF Trials!recordResult, Recordable
  <2> DEFINE to == [Trials!Idle EXCEPT !.step = "write", !.case = k, !.result = r]
  <2>2. /\ to \in Judgement /\ to.step = "write" /\ to.case \in Recordable
        /\ to.result # "none"
    BY <1>types, <2>1 DEF Judgement, Reads, Trials!Idle, Trials!Result
  <2>3. /\ behind' = [behind EXCEPT ![c] = {}] /\ UNCHANGED <<cases, run, results>>
        /\ {} \in SUBSET Trials!AllCases /\ Trials!Goto(c, to)
    BY <1>4, <1>types, <2>1 DEF Trials!recordResult, TrialInv, VerdictInv, Trials!At, Reads
  <2> HIDE DEF to
  <2> QED BY <2>2, <2>3, <1>3 DEF Reads
<1>5. ASSUME NEW c \in Two, Trials!createResult(c)
      PROVE  TrialInv'
  <2> DEFINE k == judging[c].case
  <2>1. /\ Trials!At(c, "write") /\ k \in Recordable /\ k \in Trials!AllCases
        /\ judging[c].result # "none"
        /\ judging[c].result \in Trials!Result \cup {"none"} /\ behind[c] = {}
    BY <1>5, <1>types
       DEF Trials!createResult, TrialInv, ResultsOfCases, VerdictInv, Trials!At, Reads,
         Judgement
  <2>2. /\ judging' \in [Two -> Judgement] /\ judging'[c] = Trials!Idle
        /\ \A d \in Two : d # c => judging'[d] = judging[d]
        /\ results' \in [Trials!AllCases -> Trials!Result \cup {"none"}]
        /\ \A j \in Trials!AllCases : j # k => results'[j] = results[j]
        /\ UNCHANGED <<cases, run>>
    BY <1>5, <1>types, <2>1 DEF Trials!createResult, Trials!Goto
  <2>3. /\ behind' \in [Two -> SUBSET Trials!AllCases]
        /\ \A d \in Two : behind'[d] = IF judging[d].step \in Reads THEN behind[d] \cup {k}
                                       ELSE behind[d]
    BY <1>5, <1>types, <2>1 DEF Trials!createResult, Trials!At, Reads
  <2>4. Trials!TypeOK'
    BY <1>types, <2>2, <2>3 DEF Trials!TypeOK, Judgement, Reads
  <2>5. ResultsOfCases'
    <3>1. \A j \in Cases : results'[j] # "none" => j \in cases
      BY <2>1, <2>2, ServicesAssumption DEF TrialInv, ResultsOfCases
    <3>2. \A d \in Two : judging'[d].step = "write" =>
            judging'[d].case \in Recordable /\ judging'[d].result # "none"
      BY <1>types, <2>2 DEF TrialInv, ResultsOfCases, Trials!At
    <3> QED BY <2>2, <3>1, <3>2 DEF ResultsOfCases, Trials!At
  <2>6. ASSUME NEW d \in Two
        PROVE  /\ judging'[d].step \notin Reads => behind'[d] = {}
               /\ judging'[d].step \in Reads
                    => VerdictOf(judging[d].found, judging[d].verdict, behind[d])'
               /\ judging'[d].step \in {"decide", "finished"}
                    => Counted(judging[d].found, judging[d].required)'
               /\ judging'[d].step = "finished" => run' = judging'[d].verdict
    <3>1. CASE d = c
      BY <1>types, <2>1, <2>2, <2>3, <3>1 DEF Reads, Trials!At
    <3>2. CASE d # c /\ judging[d].step \notin Reads
      BY <2>2, <2>3, <3>2 DEF TrialInv, VerdictInv, Reads
    <3>3. CASE d # c /\ judging[d].step \in Reads
      <4>1. judging'[d] = judging[d] /\ behind'[d] = behind[d] \cup {k}
        BY <2>2, <2>3, <3>3
      <4>2. VerdictOf(judging[d].found, judging[d].verdict, behind[d])
        BY <3>3 DEF TrialInv, VerdictInv
      <4>3. VerdictOf(judging[d].found, judging[d].verdict, behind[d])'
        <5>1. k \in Trials!AllCases /\ k \in behind'[d]
          BY <2>1, <4>1
        <5>2. \A j \in Trials!AllCases \ {k} : results'[j] = results[j]
          BY <2>2
        <5>3. judging[d].found \subseteq Trials!AllCases
          BY <1>types, <4>2 DEF VerdictOf
        <5>4. /\ \A j \in judging[d].found : results'[j] # "none"
              /\ results'[k] # "none"
          BY <1>5, <1>types, <2>1, <4>2, <5>2, <5>3 DEF VerdictOf, Trials!createResult
        <5>5. \A j \in Trials!AllCases \ (judging[d].found \cup behind'[d]) : results'[j] = "none"
          BY <4>1, <4>2, <5>2 DEF VerdictOf
        <5>6. judging[d].verdict = "PASSED"
                => \A j \in judging[d].found \ behind'[d] : results'[j] = "passed"
          BY <4>1, <4>2, <5>2, <5>3 DEF VerdictOf
        <5> QED BY <2>2, <4>1, <4>2, <5>1, <5>4, <5>5, <5>6 DEF VerdictOf
      <4> QED BY <2>2, <3>3, <4>1, <4>3 DEF TrialInv, VerdictInv, Counted
    <3> QED BY <3>1, <3>2, <3>3
  <2>7. VerdictInv'
    BY <2>6 DEF VerdictInv
  <2> QED BY <2>4, <2>5, <2>7 DEF TrialInv
<1>6. ASSUME NEW c \in Two, Trials!findRun(c)
      PROVE  TrialInv'
  <2> DEFINE found == {k \in Trials!AllCases : results[k] # "none"}
             verdict == IF \A k \in found : results[k] = "passed" THEN "PASSED" ELSE "FAILED"
             to == [Trials!Idle EXCEPT !.step = "list", !.found = found, !.verdict = verdict]
  <2>1. /\ Trials!Goto(c, to) /\ behind' = [behind EXCEPT ![c] = {}] /\ {} \in SUBSET Trials!AllCases
        /\ UNCHANGED <<cases, run, results>>
    BY <1>6, <1>types DEF Trials!findRun, TrialInv, VerdictInv, Trials!At, Reads
  <2>2. /\ to \in Judgement /\ to.step = "list" /\ to.found = found /\ to.verdict = verdict
    BY <1>types DEF Judgement, Reads, Trials!Idle
  <2>3. VerdictOf(found, verdict, {})
    BY <1>types DEF VerdictOf, TrialInv, ResultsOfCases, Trials!Result
  <2> HIDE DEF found, verdict, to
  <2> QED BY <2>1, <2>2, <2>3, <1>3 DEF Reads
<1>7. ASSUME NEW c \in Two, Trials!JudgeCounted(c)
      PROVE  TrialInv'
  <2> DEFINE to == [judging[c] EXCEPT !.step = "decide", !.required = cases]
  <2>1. /\ Trials!Goto(c, to)
        /\ UNCHANGED <<cases, run, results, behind>> /\ judging[c].step = "list"
        /\ Cardinality(judging[c].found) = Cardinality(Trials!listCases)
    BY <1>7, CardinalityOfCases, Zenon DEF Trials!JudgeCounted, Trials!Judge, Trials!At
  <2>6. behind' = [behind EXCEPT ![c] = behind[c]]
    BY <1>types, <2>1
  <2>2. /\ to \in Judgement /\ to.step = "decide" /\ to.found = judging[c].found
        /\ to.verdict = judging[c].verdict /\ to.required = cases
    BY <1>types DEF Judgement, Reads
  <2>3. VerdictOf(to.found, to.verdict, behind[c]) /\ to.found \subseteq Recordable
    BY <2>1, <2>2 DEF TrialInv, VerdictInv, Reads, VerdictOf
  <2>4. Counted(to.found, to.required)
    <3> HIDE DEF to
    <3> QED BY <1>types, <2>1, <2>2, <2>3, CountingCases DEF Counted
  <2>5. behind[c] \in SUBSET Trials!AllCases
    BY <1>types
  <2> HIDE DEF to
  <2> QED BY <2>1, <2>6, <2>2, <2>3, <2>4, <2>5, <1>3 DEF Reads
<1>8. ASSUME NEW c \in Two, Trials!finishRun(c)
      PROVE  TrialInv'
  <2> DEFINE to == [judging[c] EXCEPT !.step = "finished"]
  <2>1. /\ Trials!Goto(c, to) /\ behind' = [behind EXCEPT ![c] = behind[c]]
        /\ UNCHANGED <<cases, results>> /\ judging[c].step = "decide"
        /\ run = "RUNNING" /\ run' = judging[c].verdict
    BY <1>8, <1>types DEF Trials!finishRun, Trials!transitionRun, Trials!At
  <2>2. /\ to \in Judgement /\ to.step = "finished" /\ to.found = judging[c].found
        /\ to.verdict = judging[c].verdict /\ to.required = judging[c].required
    BY <1>types DEF Judgement, Reads
  <2>3. VerdictOf(to.found, to.verdict, behind[c]) /\ Counted(to.found, to.required)
    BY <2>1, <2>2 DEF TrialInv, VerdictInv, Reads
  <2>4. behind[c] \in SUBSET Trials!AllCases /\ run' \in Trials!EvaluationRunStatus
    BY <1>types, <2>1, <2>2, <2>3 DEF VerdictOf, Trials!EvaluationRunStatus
  <2> HIDE DEF to
  <2> QED BY <2>1, <2>2, <2>3, <2>4, <1>3 DEF Reads
<1>9. ASSUME NEW c \in Two, Trials!Abandon(c)
      PROVE  TrialInv'
  <2>1. /\ Trials!Goto(c, Trials!Idle) /\ behind' = [behind EXCEPT ![c] = {}]
        /\ UNCHANGED <<cases, run, results>> /\ {} \in SUBSET Trials!AllCases
    BY <1>9 DEF Trials!Abandon
  <2> QED BY <1>types, <2>1, <1>3 DEF Reads
<1>10. CASE UNCHANGED trialVars
  <2>1. UNCHANGED <<cases, run, results, judging, behind>>
    BY <1>10 DEF trialVars
  <2>2. Trials!TypeOK'
    BY <2>1 DEF TrialInv, Trials!TypeOK
  <2>3. ResultsOfCases'
    BY <2>1 DEF TrialInv, ResultsOfCases, Trials!At
  <2>4. VerdictInv'
    BY <2>1 DEF TrialInv, VerdictInv, VerdictOf, Counted
  <2> QED BY <2>2, <2>3, <2>4 DEF TrialInv
<1> QED BY <1>1, <1>2, <1>4, <1>5, <1>6, <1>7, <1>8, <1>9, <1>10 DEF Trials!Next

\* A run keeps the verdict of the one call that finished it, and that verdict is of its
\* results (evaluations.ts:51-77).  Of a suite that fits a page it lacks no more cases than
\* results of other suites were counted; where all are of the suite, as many results as
\* cases are a result of each.
THEOREM VerdictIsCountedAlways == ServicesSpec => []VerdictIsCounted
<1> USE DEF Trials!AllCases, Recordable
<1>1. ServicesInit => TrialInv
  BY TrialInit DEF ServicesInit
<1>2. TrialInv /\ [ServicesNext]_allVars => TrialInv'
  BY Steps, TrialNext
<1>3. TrialInv => VerdictIsCounted
  <2> SUFFICES ASSUME TrialInv, NEW c \in Two, judging[c].step = "finished"
               PROVE  LET lacking == {k \in judging[c].required : results[k] = "none"} IN
                      /\ run = judging[c].verdict
                      /\ run = "PASSED"
                           => \A k \in Trials!AllCases \ behind[c] : results[k] # "failed"
                      /\ run = "FAILED"
                           => behind[c] # {} \/ \E k \in Trials!AllCases : results[k] = "failed"
                      /\ Cardinality(judging[c].required) <= CasePage
                           => Cardinality(lacking) <= Cardinality(judging[c].found \cap OtherCases)
    BY CardinalityOfCases DEF VerdictIsCounted, Trials!VerdictIsCounted, Trials!At
  <2> DEFINE required == judging[c].required
             found == judging[c].found
             lacking == {k \in required : results[k] = "none"}
  <2>1. /\ run = judging[c].verdict /\ Counted(found, required)
        /\ VerdictOf(found, judging[c].verdict, behind[c])
        /\ required \subseteq Cases /\ found \subseteq Trials!AllCases
    BY DEF TrialInv, VerdictInv, Reads, Trials!TypeOK
  <2>2. lacking \subseteq required \ found
    BY <2>1 DEF VerdictOf
  <2>3. IsFiniteSet(required \ found) /\ Cardinality(lacking) <= Cardinality(required \ found)
    BY <2>1, <2>2, ServicesAssumption, FS_Subset
  <2>4. IsFiniteSet(lacking) /\ IsFiniteSet(found \cap OtherCases)
    BY <2>2, <2>3, ServicesAssumption, FS_Subset, FS_Intersection
  <2>5. /\ Cardinality(lacking) \in Nat /\ Cardinality(required \ found) \in Nat
        /\ Cardinality(found \cap OtherCases) \in Nat
    BY <2>3, <2>4, FS_CardinalityType
  <2>6. Cardinality(required) <= CasePage
          => Cardinality(lacking) <= Cardinality(found \cap OtherCases)
    BY <2>1, <2>3, <2>5 DEF Counted
  <2>7. run = "PASSED" => \A k \in Trials!AllCases \ behind[c] : results[k] # "failed"
    BY <2>1 DEF VerdictOf
  <2>8. run = "FAILED" => behind[c] # {} \/ \E k \in Trials!AllCases : results[k] = "failed"
    BY <2>1 DEF VerdictOf
  <2> QED BY <2>1, <2>6, <2>7, <2>8
<1> QED BY <1>1, <1>2, <1>3, PTL DEF ServicesSpec

=============================================================================
