CONSTANTS
  One = {s1}
  Two = {s1, s2}
  Three = {s1, s2, s3}
  MaxTokens = 3
  Keys = {k1, k2}
  MaxPosts = 2
  \* A role with every permission and one with the least, and keys that can and cannot
  \* start a process.
  MembershipRoles = {"ADMIN", "VIEWER"}
  BrandRoles = {"EDIT"}
  Scopes = {{"READ", "WRITE"}, {"ADMIN"}}
  Asked = {"brand:read", "content:write", "brand:manage"}
  Limit = 2
  LastWindow = 3
  Urls = {u1}
  NoUrl = NoUrl
  Contents = {t1}
  NoContent = NoContent
  Hosts = {h1, h2}
  Public = {a1}
  Private = {a2}
  MaxRedirects = 3
  \* Four rows are two full pages, and some are late.
  Publications = {1, 2}
  Instagram = {2}
  Times = {1, 2}
  SnapshotPage = 2
  Endpoints = {e1, e2}
  Emissions = {m1}
  Secrets = {1, 2}
  Assets = {text}
  Known = {}
  Extensions = {jpg, srt}
  Captions = {srt}
  NoAsset = NoAsset
  NoExtension = NoExtension
  MediaFaults = 1
  Jobs = {proof, action}
  MaxDuration = 2
  MaxStoryboards = 2
  \* Three cases do not fit a page.
  Cases = {1, 2, 3}
  OtherCases = {9}
  CasePage = 2
  Calls = {s1, s2, s3}
  Indexers = {s1}
  Ordinals = {1, 2}
  MaxFaults = 3
SPECIFICATION ServicesSpec
CHECK_DEADLOCK FALSE
INVARIANTS
  StoredTokenIsGood AnswersAreTrue OneProcessor ReadyIsComplete EffectsAreGranted
  NoWindowIsOverspent ReadyHasItem OnlyPublicIsContacted DashboardIsComplete DeliveriesAreTrue
  FailedLeavesNothing DerivedFromReady StoryboardsAreNumbered VerdictIsCounted
PROPERTIES
  OnlyLateRefreshesReconnect SearchNeverForgets ProcessingEnds
