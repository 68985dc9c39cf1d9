-------------------------------- MODULE UrlFetch --------------------------------
(***************************************************************************)
(* How a page is read for the knowledge base: fetchText() follows a few    *)
(* redirects, and looks every name up itself.  What a name resolves to     *)
(* changes at any moment.  Sizes and encodings are one more way to fail.   *)
(***************************************************************************)
EXTENDS Naturals

CONSTANTS
  Fetches,      \* slots for calls of fetchText
  Hosts,        \* names in URLs of an acceptable form
  Public, Private, \* IPv4 addresses
  MaxRedirects

VARIABLES
  dns,       \* the addresses of each name
  fetch,     \* calls at work: the next step, the name, the address to ask, the redirects left
  contacted, \* addresses a request was sent to (history)
  requests   \* requests a call has sent (history)

vars == <<dns, fetch, contacted, requests>>

NoAddress == "no address"
Idle == [step |-> "idle", host |-> CHOOSE h \in Hosts : TRUE, address |-> NoAddress, left |-> 0]

Init ==
  /\ dns \in [Hosts -> SUBSET (Public \cup Private)]
  /\ fetch = [f \in Fetches |-> Idle]
  /\ contacted = {} /\ requests = [f \in Fetches |-> 0]

Resolves(h) ==
  \E addresses \in SUBSET (Public \cup Private) : dns' = [dns EXCEPT ![h] = addresses]

Change ==
  /\ \E h \in Hosts : Resolves(h)
  /\ UNCHANGED <<fetch, contacted, requests>>

Begin(f, h) ==
  /\ fetch[f] = Idle
  /\ fetch' = [fetch EXCEPT ![f] = [step |-> "look up", host |-> h, address |-> NoAddress,
                                    left |-> MaxRedirects]]
  /\ requests' = [requests EXCEPT ![f] = 0]
  /\ UNCHANGED <<dns, contacted>>

\* Loopback, link-local, shared, multicast and other ranges that are not public.
isPrivateIpv4(address) == address \in Private

\* A slip: one public address is enough.
resolveSafeLax(f) ==
  /\ fetch[f].step = "look up"
  /\ LET found == dns[fetch[f].host] IN
     IF \A a \in found : isPrivateIpv4(a) THEN fetch' = [fetch EXCEPT ![f] = Idle]
     ELSE \E a \in found : fetch' = [fetch EXCEPT ![f].step = "request", ![f].address = a]
  /\ UNCHANGED <<dns, contacted, requests>>

\* A name is refused unless all its addresses are public; the first is kept.
resolveSafeKnowledgeUrl(f) ==
  /\ fetch[f].step = "look up"
  /\ LET found == dns[fetch[f].host] IN
     IF found = {} \/ \E a \in found : isPrivateIpv4(a) THEN fetch' = [fetch EXCEPT ![f] = Idle]
     ELSE \E a \in found : fetch' = [fetch EXCEPT ![f].step = "request", ![f].address = a]
  /\ UNCHANGED <<dns, contacted, requests>>

\* A redirect is looked up again while there are some left.
Redirected(f, h) ==
  IF fetch[f].left = 0 THEN Idle
  ELSE [step |-> "look up", host |-> h, address |-> NoAddress, left |-> fetch[f].left - 1]

\* The request goes to the address that was looked at.  Any answer but a redirect, and a
\* timeout, end the call.
requestPinnedText(f) ==
  /\ fetch[f].step = "request"
  /\ contacted' = contacted \cup {fetch[f].address}
  /\ requests' = [requests EXCEPT ![f] = @ + 1]
  /\ \/ \E h \in Hosts : fetch' = [fetch EXCEPT ![f] = Redirected(f, h)]
     \/ fetch' = [fetch EXCEPT ![f] = Idle]
  /\ UNCHANGED dns

Next ==
  \/ Change
  \/ \E f \in Fetches : \/ \E h \in Hosts : Begin(f, h)
                        \/ resolveSafeKnowledgeUrl(f) \/ requestPinnedText(f)

Spec == Init /\ [][Next]_vars

-----------------------------------------------------------------------------
\* Whatever names resolve to by now, no request goes to an address that is not public, and
\* a call sends at most four (knowledge-url.ts:30-37, 102-108, 128-137).
OnlyPublicIsContacted ==
  /\ contacted \subseteq Public
  /\ \A f \in Fetches : requests[f] <= MaxRedirects + 1
=============================================================================
