----------------------------- MODULE ClientPolicy -----------------------------
(***************************************************************************)
(* Which clients the authorization server serves, and with which redirect  *)
(* URIs.  A client_id is recognised, in this order, as                     *)
(*   - registered in the host's clientStore,                               *)
(*   - this server's own /register assertion: the id is the sealed list of *)
(*     redirect URIs, nothing is stored,                                   *)
(*   - a Client ID Metadata Document (CIMD), fetched at each use,          *)
(*   - unknown, and then public when the configuration admits it.          *)
(* /authorize (authorize.ts) and /token, /revoke (clientauth.ts) each walk *)
(* this list on their own.                                                 *)
(***************************************************************************)
CONSTANTS
  Client, Redirect,
  Registered,            \* ids clientStore.get resolves
  RegisteredRedirects,   \* redirectUris of a registered client
  Confidential,          \* registered with a token endpoint auth method
  CimdClient,            \* CIMD-shaped ids (none when options.cimd is off)
  CimdRedirects,         \* redirect_uris of the document, when it resolves
  Allowlist,             \* the URIs isAllowedRedirectUri accepts
  AllowUnregistered,     \* allowUnregisteredClients
  RequireRegistered      \* requireRegisteredClients

ASSUME ClientPolicyAssumption ==
  /\ Registered \subseteq Client
  /\ Confidential \subseteq Registered
  /\ CimdClient \subseteq Client
  /\ RegisteredRedirects \in [Registered -> SUBSET Redirect]
  /\ CimdRedirects \in [CimdClient -> SUBSET Redirect]
  /\ Allowlist \subseteq Redirect
  /\ AllowUnregistered \in BOOLEAN
  /\ RequireRegistered \in BOOLEAN

(***************************************************************************)
(* The ids /register has sealed, each with the URIs it was given.          *)
(***************************************************************************)
VARIABLE assertions

Asserted(c) == c \in DOMAIN assertions

(***************************************************************************)
(* resolveAuthorizeClient and redirectAllowed: a client with a list of its *)
(* own is held to it; only an unknown one falls back to the allowlist.     *)
(* fetched says whether the CIMD document could be resolved this time.     *)
(***************************************************************************)
RedirectAllowed(c, uri, fetched) ==
  \/ c \in Registered /\ uri \in RegisteredRedirects[c]
  \/ /\ c \notin Registered
     /\ AllowUnregistered
     /\ \/ Asserted(c) /\ uri \in assertions[c]
        \/ ~Asserted(c) /\ c \in CimdClient /\ fetched /\ uri \in CimdRedirects[c]
        \/ ~Asserted(c) /\ c \notin CimdClient /\ ~RequireRegistered /\ uri \in Allowlist

(***************************************************************************)
(* firstClientAuthError: a registered client proves itself by its own      *)
(* method (proved: the right method with the right secret), any other is   *)
(* public and only has to be one this server would have authorized.        *)
(***************************************************************************)
Authenticates(c, proved, fetched) ==
  \/ c \in Registered /\ (c \in Confidential => proved)
  \/ /\ c \notin Registered
     /\ AllowUnregistered
     /\ RequireRegistered => Asserted(c) \/ (c \in CimdClient /\ fetched)

(* Fault: /register seals what it was asked to. *)
UnfilteredUris(uris) == uris

\* resolveRegisterRedirectUris
RegisterUris(uris) == uris \cap Allowlist

(***************************************************************************)
(* POST /register: the requested URIs are filtered by the allowlist, and   *)
(* what is left, if anything, is sealed into a new client_id.              *)
(***************************************************************************)
Register(c, uris) ==
  /\ AllowUnregistered
  /\ c \notin Registered \cup CimdClient \cup DOMAIN assertions
  /\ RegisterUris(uris) # {}
  /\ assertions' = [d \in DOMAIN assertions \cup {c} |->
                      IF d = c THEN RegisterUris(uris) ELSE assertions[d]]

=============================================================================
