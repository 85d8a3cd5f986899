CONSTANTS
  Req = {r1, r2}
  id1 = id1
  id2 = id2
  page = page
  away = away
  site = site
  abroad = abroad
  None = None
  Url = {id1, id2, page, away}
  ClientIds = {id1, id2, away}
  OriginOf <- MCOriginOf
  Permitted = {id1, id2}
  PrivateHost = {away}
  MaxRedirects = 1
  MaxBytes = 2
  HasCache = TRUE
SPECIFICATION FairSpec
CHECK_DEADLOCK FALSE
INVARIANTS DocumentIsTheClients TypeOK FetchesOnlyCheckedUrls
PROPERTIES EveryResolutionEnds
