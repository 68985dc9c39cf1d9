----------------------------- MODULE SocialAccounts -----------------------------
(***************************************************************************)
(* One social account and its credential: connected in two statements,     *)
(* disconnected in one transaction, and renewed by calls of refreshIfDue   *)
(* that ask the platform in between.                                       *)
(*                                                                         *)
(* The platform may rotate refresh tokens: a token is then good for one    *)
(* use.  Access tokens, scopes, the encryption of what is stored and the   *)
(* audit log are left out; a token that cannot be decrypted is a refresh   *)
(* that fails.                                                             *)
(***************************************************************************)
EXTENDS Naturals

CONSTANTS
  Refreshes, \* slots for calls of refreshIfDue
  Connects,  \* slots for calls of connectAccount
  MaxTokens  \* bound on the refresh tokens the platform issues

VARIABLES
  status,     \* SocialAccount.status, NONE before it is first connected
  credential, \* SocialCredential: is there one, its refresh token, is it due?
  refresh,    \* refreshes at work: the next step, the token used, the token received
  connect,    \* connects at work: do they still have a grant to store, and its token
  issued,     \* how many refresh tokens the platform has issued
  good,       \* those it still accepts
  lost,       \* has a token been used whose successor never reached the database? (history)
  late        \* refreshes at work when the account was last disconnected (history)

vars == <<status, credential, refresh, connect, issued, good, lost, late>>

NoToken == 0
Token == 0..MaxTokens
NoCredential == [stored |-> FALSE, token |-> NoToken, due |-> FALSE]
NoRefresh == [step |-> "idle", used |-> NoToken, new |-> NoToken]
NoConnect == [step |-> "idle", token |-> NoToken]
SocialAccountStatus == {"CONNECTED", "EXPIRED", "DISCONNECTED", "ERROR"}

TypeOK ==
  /\ status \in SocialAccountStatus \cup {"NONE"}
  /\ credential \in {NoCredential} \cup [stored : {TRUE}, token : Token, due : BOOLEAN]
  /\ refresh \in [Refreshes -> [step : {"idle", "ask", "store", "error", "expire"},
                                used : Token, new : Token]]
  /\ connect \in [Connects -> [step : {"idle", "store"}, token : Token]]
  /\ issued \in Token /\ good \subseteq 1..issued
  /\ lost \in BOOLEAN /\ late \subseteq Refreshes

Init ==
  /\ status = "NONE" /\ credential = NoCredential
  /\ refresh = [r \in Refreshes |-> NoRefresh]
  /\ connect = [c \in Connects |-> NoConnect]
  /\ issued = 0 /\ good = {} /\ lost = FALSE /\ late = {}

At(r, step) == refresh[r].step = step
Goto(r, step) == refresh' = [refresh EXCEPT ![r].step = step]
Finish(r) == refresh' = [refresh EXCEPT ![r] = NoRefresh]

\* What the platform grants a user comes with a refresh token or without.
Granted(t) ==
  \/ t = NoToken /\ UNCHANGED <<issued, good>>
  \/ t = issued + 1 /\ t \in Token /\ issued' = t /\ good' = good \cup {t}

-----------------------------------------------------------------------------
(* connectAccount and disconnectAccount.                                   *)

\* The account is created, or an earlier one is CONNECTED again.
createSocialAccount(c, t) ==
  /\ connect[c] = NoConnect
  /\ Granted(t)
  /\ status' = "CONNECTED"
  /\ connect' = [connect EXCEPT ![c] = [step |-> "store", token |-> t]]
  /\ UNCHANGED <<credential, refresh, lost, late>>

\* What is not given is not written: an earlier refresh token and expiry stay.
Written(t, due) ==
  [stored |-> TRUE, token |-> IF t # NoToken THEN t ELSE credential.token, due |-> due]

upsertCredential(c) ==
  /\ connect[c].step = "store"
  /\ \E due \in BOOLEAN : credential' = Written(connect[c].token, due)
  /\ connect' = [connect EXCEPT ![c] = NoConnect]
  /\ UNCHANGED <<status, refresh, issued, good, lost, late>>

disconnectSocialAccount ==
  /\ status # "NONE"
  /\ credential' = NoCredential /\ status' = "DISCONNECTED"
  /\ late' = {r \in Refreshes : refresh[r] # NoRefresh}
  /\ UNCHANGED <<refresh, connect, issued, good, lost>>

-----------------------------------------------------------------------------
(* refreshIfDue.                                                           *)

\* The credential comes within the window of its expiry.
Expire ==
  /\ credential.stored /\ ~credential.due
  /\ credential' = [credential EXCEPT !.due = TRUE]
  /\ UNCHANGED <<status, refresh, connect, issued, good, lost, late>>

\* A slip: the status is not looked at.
BeginAny(r) ==
  /\ refresh[r] = NoRefresh /\ status # "NONE"
  /\ \/ credential.token = NoToken /\ Goto(r, "expire")
     \/ /\ credential.token # NoToken /\ credential.due
        /\ refresh' = [refresh EXCEPT ![r] = [step |-> "ask", used |-> credential.token,
                                              new |-> NoToken]]
  /\ late' = late \ {r}
  /\ UNCHANGED <<status, credential, connect, issued, good, lost>>

\* The account and its credential are read: a disconnected account is refused, one
\* without a refresh token is to be marked, and one that is not due is left alone.
Begin(r) ==
  /\ refresh[r] = NoRefresh /\ status \notin {"NONE", "DISCONNECTED"}
  /\ \/ credential.token = NoToken /\ Goto(r, "expire")
     \/ /\ credential.token # NoToken /\ credential.due
        /\ refresh' = [refresh EXCEPT ![r] = [step |-> "ask", used |-> credential.token,
                                              new |-> NoToken]]
  /\ late' = late \ {r}
  /\ UNCHANGED <<status, credential, connect, issued, good, lost>>

\* The platform renews a token it accepts, in its place or with a successor; the answer
\* may not arrive, and the platform may refuse for reasons of its own.
Ask(r) ==
  /\ At(r, "ask")
  /\ LET t == refresh[r].used IN
     \/ Goto(r, "error") /\ UNCHANGED <<issued, good, lost>>
     \/ t \in good /\ Goto(r, "store") /\ UNCHANGED <<issued, good, lost>>
     \/ /\ t \in good /\ issued < MaxTokens
        /\ issued' = issued + 1 /\ good' = (good \ {t}) \cup {issued + 1}
        /\ \/ /\ refresh' = [refresh EXCEPT ![r].step = "store", ![r].new = issued + 1]
              /\ UNCHANGED lost
           \/ Goto(r, "error") /\ lost' = TRUE
  /\ UNCHANGED <<status, credential, connect, late>>

\* A slip: only the access token is replaced.
replaceCredentialKeepingToken(new) ==
  credential' = Written(NoToken, FALSE) /\ status' = "CONNECTED"

\* One transaction writes the credential, or creates it again, and the status, whatever
\* they are by now.
replaceCredentialAndSetStatus(new) ==
  credential' = Written(new, FALSE) /\ status' = "CONNECTED"

\* What the platform answered is stored; when that fails the tokens received are gone.
Store(r) ==
  /\ At(r, "store")
  /\ \/ /\ replaceCredentialAndSetStatus(refresh[r].new)
        /\ Finish(r) /\ late' = late \ {r} /\ UNCHANGED lost
     \/ /\ Goto(r, "error") /\ lost' = (lost \/ refresh[r].new # NoToken)
        /\ UNCHANGED <<credential, status, late>>
  /\ UNCHANGED <<connect, issued, good>>

updateSocialAccountStatus(new) == status' = new

\* Every failure but a refused scope marks the account, whatever its status is by now.
MarkAccount(r) ==
  /\ \/ At(r, "error") /\ updateSocialAccountStatus("ERROR")
     \/ At(r, "expire") /\ updateSocialAccountStatus("EXPIRED")
  /\ Finish(r) /\ late' = late \ {r}
  /\ UNCHANGED <<credential, connect, issued, good, lost>>

\* The process that serves a refresh or a connect dies.
Die(r) ==
  /\ refresh[r] # NoRefresh
  /\ Finish(r) /\ late' = late \ {r}
  /\ lost' = (lost \/ refresh[r].new # NoToken)
  /\ UNCHANGED <<status, credential, connect, issued, good>>

DieConnecting(c) ==
  /\ connect[c] # NoConnect
  /\ connect' = [connect EXCEPT ![c] = NoConnect]
  /\ UNCHANGED <<status, credential, refresh, issued, good, lost, late>>

-----------------------------------------------------------------------------
Next ==
  \/ \E c \in Connects : \/ \E t \in Token : createSocialAccount(c, t)
                         \/ upsertCredential(c) \/ DieConnecting(c)
  \/ disconnectSocialAccount \/ Expire
  \/ \E r \in Refreshes : \/ Begin(r) \/ Ask(r) \/ Store(r) \/ MarkAccount(r) \/ Die(r)

Spec == Init /\ [][Next]_vars

-----------------------------------------------------------------------------
\* The refresh token in the database is one the platform accepts, unless a refresh has
\* used it and is about to store its successor, or a successor was lost on its way: two
\* refreshes of one rotating token never leave the used one behind
\* (social-token-refresh.ts:82-96, publishing.ts:259-303).
StoredTokenIsGood ==
  \/ lost \/ credential.token \in good \cup {NoToken}
  \/ \E r \in Refreshes : /\ At(r, "store") /\ refresh[r].used = credential.token
                          /\ refresh[r].new # NoToken

\* A disconnected account is connected again by its user only, or overwritten by a refresh
\* that was already at work (social-token-refresh.ts:53-56).
OnlyLateRefreshesReconnect ==
  [][(status = "DISCONNECTED" /\ status' # "DISCONNECTED")
       => \/ \E c \in Connects : connect[c] = NoConnect /\ connect'[c] # NoConnect
          \/ \E r \in late : refresh'[r] = NoRefresh]_vars
=============================================================================
