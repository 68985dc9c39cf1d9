--------------------------------- MODULE Access ---------------------------------
(***************************************************************************)
(* The way into every operation: who may do what in an organization and    *)
(* one of its brands.  A call of the web application resolves its actor in *)
(* four statements before the operation's own; a call of an MCP tool first *)
(* passes the permissions its process was started with; a call of an       *)
(* inbound webhook passes its credential.  Roles are given and taken at    *)
(* any moment in between.                                                  *)
(*                                                                         *)
(* One organization, one user, one brand, one API key and one webhook      *)
(* credential.  A session, a bearer token or a signature that is not good  *)
(* ends the call before it reaches the database.                           *)
(***************************************************************************)
CONSTANTS
  Calls,          \* slots for calls
  MembershipRoles,\* roles the user is given in the organization
  BrandRoles,     \* roles the user is given in the brand
  Scopes,         \* sets of scopes keys are created with
  Asked           \* permissions that operations ask for

VARIABLES
  organization, \* is it ACTIVE?
  membership,   \* role of the user's ACTIVE membership, or NONE
  brand,        \* is it ACTIVE, and not deleted?
  access,       \* role of the user's BrandAccess, or NONE
  key,          \* scopes of the API key, empty when there is none or it is revoked or expired
  credential,   \* is the inbound webhook credential not disabled?
  session,      \* the MCP process: the next step of its start, its key's scopes, its permissions
  call,         \* calls at work: the next step, the operation, the permissions resolved
  started,      \* what was true at some moment of the process's start (history)
  missing       \* what a call needs and was never true since it began (history)

rows == <<organization, membership, brand, access, key, credential>>
history == <<started, missing>>
vars == <<rows, session, call, history>>

Permission == {"brand:manage", "brand:read", "content:review", "content:write"}

organizationPermissions ==
  [OWNER |-> Permission, ADMIN |-> Permission, EDITOR |-> {"brand:read", "content:write"},
   REVIEWER |-> {"brand:read", "content:review"}, VIEWER |-> {"brand:read"}, NONE |-> {}]

brandPermissions ==
  [MANAGE |-> Permission, EDIT |-> {"brand:read", "content:write"},
   REVIEW |-> {"brand:read", "content:review"}, VIEW |-> {"brand:read"}, NONE |-> {}]

scopePermission == [READ |-> "brand:read", WRITE |-> "content:write",
                    APPROVE |-> "content:review", ADMIN |-> "brand:manage"]

\* The permission each tool requires at the edge.
Tools ==
  [list_brands |-> "brand:read", get_brand |-> "brand:read", search_knowledge |-> "brand:read",
   add_research_item |-> "content:write", list_content_opportunities |-> "brand:read",
   create_content_project |-> "content:write", get_content_project |-> "brand:read",
   generate_content_draft |-> "content:write", request_content_review |-> "content:write",
   get_publication_calendar |-> "brand:read", get_analytics_summary |-> "brand:read"]

\* Tools that differ in nothing but their service are one operation.
ToolOperation(t) ==
  [kind |-> IF t \in {"list_brands", "get_brand", "create_content_project"} THEN t ELSE "tool",
   need |-> Tools[t]]
FromTool == {"list_brands", "get_brand", "tool", "create_content_project"}
Brandless == {"list_brands", "get_brand", "brandless"}

NoCall == [step |-> "idle", kind |-> "service", need |-> "brand:read", permissions |-> {}]
NoSession == [step |-> "off", scopes |-> {}, permissions |-> {}]

Init ==
  /\ organization = TRUE /\ membership \in MembershipRoles /\ brand = TRUE /\ access = "NONE"
  /\ key = {} /\ credential = TRUE
  /\ session = NoSession /\ call = [c \in Calls |-> NoCall]
  /\ started = {} /\ missing = [c \in Calls |-> {}]

\* What is true now, of the user in the organization and of everything.
Standing ==
  organizationPermissions[membership] \cup key
    \cup (IF organization THEN {"organization"} ELSE {})
    \cup (IF membership # "NONE" THEN {"member"} ELSE {})
Facts == Standing \cup brandPermissions[access] \cup (IF brand THEN {"brand"} ELSE {})
                  \cup (IF credential THEN {"credential"} ELSE {})

At(c, step) == call[c].step = step
Goto(c, step) == call' = [call EXCEPT ![c].step = step]
Leave(c) == call' = [call EXCEPT ![c] = NoCall] /\ missing' = [missing EXCEPT ![c] = {}]
Pass(c, granted, step) == IF granted THEN Goto(c, step) /\ UNCHANGED missing ELSE Leave(c)

\* What an operation needs: who, where, and may they?
Needs(operation) ==
  CASE operation.kind \in {"service", "tool", "get_brand"} ->
         {"organization", "member", "brand", operation.need}
    [] operation.kind \in {"list_brands", "brandless"} -> {"organization", "member", operation.need}
    [] operation.kind = "create_content_project" -> {"brand"}
    [] operation.kind = "webhook" -> {"organization", "credential", "brand"}

-----------------------------------------------------------------------------
(* Rows change: createOrganizationWithOwner, grantBrandAccess, createKey   *)
(* and revoke, or an administrator's hand in the database.                 *)

Starting == session.step \in {"organization", "membership"}
Remember ==
  /\ started' = IF Starting THEN started \cup Standing' ELSE started
  /\ missing' = [c \in Calls |-> missing[c] \ Facts']

Administer ==
  /\ \/ organization' = ~organization /\ UNCHANGED <<membership, brand, access, credential>>
     \/ /\ membership' \in MembershipRoles \cup {"NONE"}
        /\ UNCHANGED <<organization, brand, access, credential>>
     \/ brand' = ~brand /\ UNCHANGED <<organization, membership, access, credential>>
     \/ /\ access' \in BrandRoles \cup {"NONE"}
        /\ UNCHANGED <<organization, membership, brand, credential>>
     \/ credential' = ~credential /\ UNCHANGED <<organization, membership, brand, access>>
  /\ UNCHANGED <<key, session, call>>
  /\ rows' # rows /\ Remember

\* A key is created after its actor is resolved as one who manages the organization.
createKey ==
  /\ key = {}
  /\ \E c \in Calls : At(c, "act") /\ call[c].kind = "brandless" /\ call[c].need = "brand:manage"
  /\ key' \in Scopes
  /\ UNCHANGED <<organization, membership, brand, access, credential, session, call>>
  /\ Remember

revokeApiKey ==
  /\ key # {} /\ key' = {}
  /\ UNCHANGED <<organization, membership, brand, access, credential, session, call>>
  /\ Remember

-----------------------------------------------------------------------------
(* The MCP process starts: the key is read and its actor resolved, without *)
(* a brand; what comes of it is frozen until the process ends.             *)

NoProcess == session' = NoSession /\ started' = {}

findActiveApiKey ==
  /\ session = NoSession /\ key \cap {"READ", "ADMIN"} # {}
  /\ session' = [step |-> "organization", scopes |-> key, permissions |-> {}]
  /\ started' = Standing
  /\ UNCHANGED <<rows, call, missing>>

sessionOrganization ==
  /\ session.step = "organization"
  /\ IF organization THEN session' = [session EXCEPT !.step = "membership"] /\ UNCHANGED started
     ELSE NoProcess
  /\ UNCHANGED <<rows, call, missing>>

authenticate ==
  /\ session.step = "membership"
  /\ IF membership = "NONE" THEN NoProcess
     ELSE /\ session' = [session EXCEPT !.step = "on",
                           !.permissions = organizationPermissions[membership]
                                             \cap {scopePermission[s] : s \in session.scopes}]
          /\ UNCHANGED started
  /\ UNCHANGED <<rows, call, missing>>

StopProcess ==
  /\ session.step = "on" /\ NoProcess
  /\ \A c \in Calls : call[c].kind \notin FromTool
  /\ UNCHANGED <<rows, call, missing>>

-----------------------------------------------------------------------------
(* Calls.                                                                  *)

Begin(c, operation, step) ==
  /\ call[c] = NoCall
  /\ call' = [call EXCEPT ![c] = [step |-> step, kind |-> operation.kind, need |-> operation.need,
                                  permissions |-> {}]]
  /\ missing' = [missing EXCEPT ![c] = Needs(operation) \ Facts]
  /\ UNCHANGED <<rows, session, started>>

\* An action of the web application, or of a service at all: the actor is resolved, in a
\* brand or in the organization alone.
BeginService(c, kind, need) == Begin(c, [kind |-> kind, need |-> need], "organization")

\* A tool: the process's permissions are asked, then the brand.
executeMcpBrandTool(c, t) ==
  /\ session.step = "on" /\ Tools[t] \in session.permissions
  /\ Begin(c, ToolOperation(t), IF t = "list_brands" THEN "organization" ELSE "assert brand")

\* create_content_project goes on with what the process has, an inbound webhook with its
\* credential; the other tools name the actor to a service, which resolves it, and
\* get_brand asks it for the list of brands.
assertBrand(c) ==
  /\ At(c, "assert brand")
  /\ Pass(c, brand, IF call[c].kind \in {"tool", "get_brand"} THEN "organization" ELSE "act")
  /\ UNCHANGED <<rows, session, started>>

isOrganizationActive(c) ==
  /\ At(c, "organization") /\ Pass(c, organization, "membership")
  /\ UNCHANGED <<rows, session, started>>

findActiveMembership(c) ==
  /\ At(c, "membership")
  /\ IF membership = "NONE" THEN Leave(c)
     ELSE /\ call' = [call EXCEPT ![c].step =
                             IF call[c].kind \in Brandless THEN "access" ELSE "brand",
                                  ![c].permissions = organizationPermissions[membership]]
          /\ UNCHANGED missing
  /\ UNCHANGED <<rows, session, started>>

findBrandInOrganization(c) ==
  /\ At(c, "brand") /\ Pass(c, brand, "access")
  /\ UNCHANGED <<rows, session, started>>

\* A slip: a role in the brand stands for every permission.
findBrandAccessLax(c) ==
  /\ At(c, "access") /\ Pass(c, call[c].need \in call[c].permissions \/ access # "NONE", "act")
  /\ UNCHANGED <<rows, session, started>>

\* The role in the brand, when there is one, adds to it; requirePermission asks for what
\* the operation needs.
findBrandAccess(c) ==
  /\ At(c, "access")
  /\ LET role == IF call[c].kind \in Brandless THEN "NONE" ELSE access IN
     Pass(c, call[c].need \in call[c].permissions \cup brandPermissions[role], "act")
  /\ UNCHANGED <<rows, session, started>>

\* An inbound webhook: its credential, of an active organization, then the brand.
findActiveCredential(c) ==
  /\ organization /\ credential
  /\ Begin(c, [kind |-> "webhook", need |-> "brand:read"], "assert brand")

\* The operation itself; the other modules have it.
Act(c) ==
  /\ At(c, "act") /\ Leave(c)
  /\ UNCHANGED <<rows, session, started>>

Next ==
  \/ Administer \/ createKey \/ revokeApiKey
  \/ findActiveApiKey \/ sessionOrganization \/ authenticate \/ StopProcess
  \/ \E c \in Calls :
       \/ \E kind \in {"service", "brandless"}, p \in Asked : BeginService(c, kind, p)
       \/ \E t \in DOMAIN Tools : executeMcpBrandTool(c, t)
       \/ assertBrand(c) \/ isOrganizationActive(c) \/ findActiveMembership(c)
       \/ findBrandInOrganization(c) \/ findBrandAccess(c) \/ findActiveCredential(c) \/ Act(c)

Spec == Init /\ [][Next]_vars

-----------------------------------------------------------------------------
\* An operation begins only with what was granted to its caller while it was on its way
\* in, however rows change between the statements: the brand was active; its user was a
\* member of the active organization and had a role with the permission it needs; a tool's
\* key had the scope when the process was started.  create_content_project answers for
\* the moment the process was started instead (tenant-context.ts:36-65,
\* mcp-auth.ts:63-85).
EffectsAreGranted ==
  \A c \in Calls : At(c, "act") =>
    /\ missing[c] = {}
    /\ call[c].kind \in FromTool =>
         /\ {"organization", "member", call[c].need} \subseteq started
         /\ \E s \in DOMAIN scopePermission : scopePermission[s] = call[c].need /\ s \in started
=============================================================================
