-------------------------------- MODULE Auth --------------------------------
(***************************************************************************)
(* The authentication code as a whole: the client's token flow, the         *)
(* resource server's bearer validation and the machine credentials.  In the *)
(* code they share no state (every call works on the structures its caller  *)
(* passes, and lonejson keeps nothing between calls), so a behaviour is one *)
(* application using one of them: the scene.                                *)
(***************************************************************************)
EXTENDS TokenFlow, Bearer, M2m

CONSTANT Scenes  \* the parts in use, a subset of {"flow", "bearer", "m2m"}

VARIABLE scene

authVars == <<scene, clock, flowVars, bearerVars, m2mVars>>

Init ==
  /\ scene \in Scenes
  /\ TimeInit /\ FlowInit /\ BearerInit /\ M2mInit

Next ==
  /\ UNCHANGED scene
  /\ \/ scene = "flow" /\ FlowNext /\ UNCHANGED <<bearerVars, m2mVars>>
     \/ scene = "bearer" /\ BearerNext /\ UNCHANGED <<flowVars, m2mVars>>
     \/ scene = "m2m" /\ M2mNext /\ UNCHANGED <<clock, flowVars, bearerVars>>

Spec == Init /\ [][Next]_authVars

----------------------------------------------------------------------------
(* lonejson_oauth2_token_flow_ensure and the calls that fill a flow: what   *)
(* the client believes of its tokens is what the token endpoint knows.  The *)
(* access token is one the endpoint issued, its expiry is never later than  *)
(* the endpoint's, and READY with a known expiry means a token still alive. *)
(* When no answer was lost, the refresh token is the endpoint's current     *)
(* one: rotation, answers without a refresh token, retries and failed       *)
(* updates never leave an old one behind.  A code is redeemed with the      *)
(* verifier of the login it belongs to, also when redirects of an older     *)
(* login arrive late or twice.                                              *)
FlowTracksServer ==
  /\ flow.access # 0 =>
       /\ flow.access <= Len(endpoint.issued)
       /\ flow.expires # NoExpiry => flow.expires <= endpoint.issued[flow.access]
  /\ result.state = "READY" /\ flow.expires # NoExpiry =>
       endpoint.issued[result.token] > result.at
  /\ Idle /\ ~undelivered => flow.refresh = endpoint.refresh
  /\ request.grant = "code" => request.secret = request.verifier

(* lonejson_oidc_jwks_cache_select_bearer_key and the refreshes that fill   *)
(* the cache: the key an accepted token was signed with is in a key set the *)
(* policy's jwks_uri serves now, or stopped serving less than a ttl ago.    *)
(* The ttl is that of the policy the cache was filled under, which need not *)
(* be that of the validation: only issuer and jwks_uri are compared.        *)
AcceptedKeyIsRecent ==
  bearer.done /\ bearer.failure = "NONE" =>
    LET u == bearer.policy.jwks_uri IN
    \E n \in Documents, q \in Policies :
      /\ q.issuer = bearer.policy.issuer /\ q.jwks_uri = u
      /\ \E i \in DOMAIN Body(u, n).keys :
           Body(u, n).keys[i].material = bearer.presented.token.signer
      /\ \/ published[u] = n
         \/ n < published[u] /\ retired[u][n] > clock - q.ttl

(* lonejson_oidc_validate_bearer_token over a cache that is refreshed while *)
(* issuers rotate their keys: an accepted token was minted by the issuer of *)
(* the policy for this use and is in date, and the key it was signed with   *)
(* was published by that issuer less than a ttl ago, whatever blocking and  *)
(* streamed refreshes ran in between, in whichever order they ended.  In    *)
(* return, such a token is not refused while its key is in a fresh cache,   *)
(* and only a token with the issuer's signature fails for its claims.       *)
AcceptedIsGenuine ==
  /\ AcceptedKeyIsRecent
  /\ bearer.done =>
      LET m == bearer.presented.minted
          p == bearer.policy
          InDate == clock < m.until + bearer.skew /\ m.from <= clock + bearer.skew
          Recent == \/ published[p.jwks_uri] = m.key
                    \/ /\ m.key < published[p.jwks_uri]
                       /\ retired[p.jwks_uri][m.key] > clock - p.ttl
          InCache == /\ validate_policy(p, clock) /\ matches_policy(p, clock)
                     /\ \E i \in DOMAIN cache.keys : cache.keys[i].material = <<m.by, m.key>>
      IN /\ bearer.failure = "NONE" => m.by = p.issuer /\ m.fit /\ InDate /\ Recent
         /\ m.by = p.issuer /\ m.fit /\ InDate /\ InCache => bearer.failure = "NONE"
         /\ bearer.failure \in {"ISSUER_MISMATCH", "AUDIENCE_MISMATCH", "EXPIRED_TOKEN",
                                "NOT_YET_VALID", "CLAIMS_INVALID"} => m.by = p.issuer

(* What a header shows of a credential that was handed out.                 *)
Proves(c, header, mode) ==
  \/ /\ mode = "BASIC" /\ header.scheme = "Basic"
     /\ header.id = c.secrets.client_id /\ header.secret = c.secrets.client_secret
  \/ mode = "BEARER" /\ header.scheme = "Bearer" /\ header.secret = c.secrets.api_key

Honoured(header, mode) ==
  {c \in issued :
     /\ header.secret # NoSecret /\ Proves(c, header, mode)
     /\ \E i \in DOMAIN store.credentials :
          /\ store.credentials[i].client_id = c.secrets.client_id
          /\ ~store.credentials[i].revoked}

(* lonejson_m2m_verify_authorization and the calls that make its records: a *)
(* header is accepted exactly when it proves, in a mode the caller allows,  *)
(* a credential that was handed out and whose record is in the store and    *)
(* not revoked, and it is accepted with that credential's client and claim. *)
(* A good header may still be refused with a failure that names no verdict  *)
(* on it (an unreadable store, no memory), or when no digest can be         *)
(* computed.  A credential from an invitation carries the invitation's      *)
(* claim.                                                                   *)
M2mExact ==
  /\ \A c \in issued : c.invitation # NoSecret =>
       \E v \in invited : v.secret = c.invitation /\ v.claim = c.secrets.claim
  /\ auth.done =>
       LET allowed == IF auth.modes = {} THEN AuthModes ELSE auth.modes
       IN /\ auth.failure = "NONE" =>
               /\ auth.mode \in allowed
               /\ \E c \in Honoured(auth.header, auth.mode) :
                    auth.client_id = c.secrets.client_id /\ auth.claim = c.secrets.claim
          /\ auth.failure \in {"INVALID_SIGNATURE", "MISSING_CREDENTIALS"} /\ ~auth.starved =>
               \A mode \in allowed : Honoured(auth.header, mode) = {}
=============================================================================
