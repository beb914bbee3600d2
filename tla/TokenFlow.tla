----------------------------- MODULE TokenFlow -----------------------------
(***************************************************************************)
(* The client side of OAuth2/OIDC in src/src/impl/40_auth_api.h: a token    *)
(* flow that is filled by a login with an authorization code and PKCE or by *)
(* client credentials, kept alive by lonejson_oauth2_token_flow_ensure with *)
(* refresh and retry, copied to and from the application's storage, and     *)
(* ended by a revocation.  The token endpoint, the browser and the HTTP     *)
(* provider are external: a request may be refused, deferred, answered with *)
(* text the client does not accept, or its answer may never arrive.         *)
(***************************************************************************)
EXTENDS AuthTime, Sequences, SequencesExt

CONSTANTS
  Lifetimes,        \* lifetimes the endpoint gives its access tokens
  Skews,            \* refresh_skew_seconds of the callers
  DefaultSkew,      \* LONEJSON__OAUTH2_DEFAULT_TOKEN_FLOW_REFRESH_SKEW_SECONDS
  DefaultRetries,   \* LONEJSON__OAUTH2_DEFAULT_TOKEN_FLOW_RETRIES
  MaxTokens,        \* bound on the access tokens issued
  MaxLogins,        \* bound on the logins begun
  MaxFlowTime       \* bound on the clock

ASSUME FlowAssumption ==
  /\ Lifetimes \subseteq Nat /\ Skews \subseteq Int
  /\ DefaultSkew \in Nat /\ DefaultRetries \in Nat
  /\ MaxTokens \in Nat /\ MaxLogins \in Nat /\ MaxFlowTime \in Nat

VARIABLES
  flow,        \* lonejson_oauth2_token_flow: token numbers, 0 for NULL
  stored,      \* the application's copy of it
  request,     \* the token request in progress
  result,      \* the lonejson_oauth2_token_flow_result of the last call, if it
               \* was ensure; for READY also its time and the token found
  login,       \* the login under way: its state and its PKCE verifier
  code,        \* the code the last accepted callback carried, 0 for NULL
  endpoint,    \* external: the expiry of each access token it issued, its
               \* current refresh token, and whether it rotates it
  spent,       \* external: codes already redeemed
  undelivered  \* an answer with tokens did not become part of the flow

flowVars == <<flow, stored, request, result, login, code, endpoint,
              spent, undelivered>>

NoExpiry == -1
EmptyFlow == [access |-> 0, refresh |-> 0, expires |-> NoExpiry]
NoTokens == [access |-> 0, refresh |-> 0, expires_in |-> NoExpiry]
NoRequest == [grant |-> "none", answer |-> "none"]
NoLogin == [state |-> 0, verifier |-> 0]
NoResult == [state |-> "none", at |-> 0, token |-> 0]

Idle == request.grant = "none"

(* The answer under way tells of a change of the refresh token.             *)
InFlight ==
  /\ request.answer \in {"granted", "unreadable"}
  /\ request.grant = "revoke" \/ request.tokens.refresh # 0

FlowInit ==
  /\ flow = EmptyFlow /\ stored = EmptyFlow
  /\ request = NoRequest /\ result = NoResult
  /\ login = NoLogin /\ code = 0
  /\ \E r \in BOOLEAN : endpoint = [issued |-> <<>>, refresh |-> 0, renewals |-> 0, rotates |-> r]
  /\ spent = {}
  /\ undelivered = FALSE

----------------------------------------------------------------------------
(* lonejson_oauth2_token_flow_is_expired.                                   *)
EffectiveSkew(skew) ==
  IF skew = 0 THEN DefaultSkew ELSE IF skew < 0 THEN 0 ELSE skew

is_expired(f, now, skew) ==
  \/ f.access = 0
  \/ /\ f.expires # NoExpiry
     /\ \/ now > Int64Max - EffectiveSkew(skew)
        \/ f.expires <= now + EffectiveSkew(skew)

(* Variant: an answer without a refresh token forgets the old one.          *)
Updated_DropsRefresh(f, r, now) ==
  [access  |-> r.access,
   refresh |-> r.refresh,
   expires |-> IF r.expires_in # NoExpiry THEN now + r.expires_in ELSE NoExpiry]

(* lonejson_oauth2_token_flow_update_response: the flow after a response,   *)
(* or the old one when the expiry does not fit or memory runs out.  The     *)
(* endpoint sends no empty refresh_token, which would replace the old one.  *)
Updated(f, r, now) ==
  [access  |-> r.access,
   refresh |-> IF r.refresh # 0 THEN r.refresh ELSE f.refresh,
   expires |-> IF r.expires_in # NoExpiry THEN now + r.expires_in ELSE NoExpiry]

update_response(f, r, now) ==
  IF r.expires_in # NoExpiry /\ r.expires_in > Int64Max - now THEN {f}
  ELSE {f, Updated(f, r, now)}

(* lonejson_oidc_authorization_callback_parse_query: the code of a query,   *)
(* 0 when it is refused.                                                    *)
Param(query, key) == {i \in DOMAIN query : query[i].key = key}

callback_parse_query(query, expected) ==
  LET wellFormed == \A i \in DOMAIN query : query[i].escaped
      single == \A key \in {"code", "state", "error"} : \A i, j \in Param(query, key) : i = j
  IN IF /\ wellFormed /\ single
        /\ Param(query, "error") = {}
        /\ \E i \in Param(query, "state") : query[i].val = expected
        /\ Param(query, "code") # {}
     THEN query[CHOOSE i \in Param(query, "code") : TRUE].val
     ELSE 0

----------------------------------------------------------------------------
(* The calls the application makes.                                         *)

(* lonejson_oidc_pkce_generate and lonejson_oidc_authorization_url: a fresh *)
(* verifier and state; an older login is given up.                          *)
BeginLogin ==
  /\ Idle /\ login.state < MaxLogins
  /\ login' = [state |-> login.state + 1, verifier |-> login.state + 1]
  /\ code' = 0
  /\ UNCHANGED <<flow, stored, request, endpoint, spent, undelivered>>
  /\ result' = NoResult

(* The redirect reaches the application, perhaps not for the first time.    *)
Callback(query) ==
  /\ Idle /\ login.state # 0
  /\ code' = callback_parse_query(query, login.state)
  /\ UNCHANGED <<flow, stored, request, login, endpoint, spent, undelivered>>
  /\ result' = NoResult

Send(grant, secret, verifier, retries) ==
  request' = [grant |-> grant, secret |-> secret, verifier |-> verifier,
              now |-> clock, retries |-> retries, attempts |-> 1,
              answer |-> "awaited", tokens |-> NoTokens]

(* lonejson_oidc_authorization_code_token_request.                          *)
RedeemCode ==
  /\ Idle /\ code # 0
  /\ Send("code", code, login.verifier, 0)
  /\ code' = 0
  /\ UNCHANGED <<flow, stored, login, endpoint, spent, undelivered>>
  /\ result' = NoResult

(* lonejson_oauth2_client_credentials_request.                              *)
ClientCredentials ==
  /\ Idle
  /\ Send("client", 0, 0, 0)
  /\ UNCHANGED <<flow, stored, login, code, endpoint, spent, undelivered>>
  /\ result' = NoResult

(* lonejson_oauth2_revoke_token_request.                                    *)
Revoke ==
  /\ Idle /\ flow.refresh # 0
  /\ Send("revoke", flow.refresh, 0, 0)
  /\ UNCHANGED <<flow, stored, login, code, endpoint, spent, undelivered>>
  /\ result' = NoResult

(* The first part of lonejson_oauth2_token_flow_ensure: ready, out of its   *)
(* hands, refused because the policy names no endpoint or client, or a      *)
(* refresh request with the time of the call.                               *)
Ensure(skew, disableRefresh, disableRetry, named) ==
  /\ Idle
  /\ IF ~is_expired(flow, clock, skew)
     THEN /\ result' = [state |-> "READY", at |-> clock, token |-> flow.access]
          /\ UNCHANGED request
     ELSE IF disableRefresh \/ flow.refresh = 0
     THEN /\ result' = [NoResult EXCEPT !.state = "NEEDS_INTERACTION"]
          /\ UNCHANGED request
     ELSE IF ~named
     THEN /\ result' = [NoResult EXCEPT !.state = "FAILED"]
          /\ UNCHANGED request
     ELSE /\ result' = [NoResult EXCEPT !.state = "FAILED"]
          /\ Send("refresh", flow.refresh, 0, IF disableRetry THEN 0 ELSE DefaultRetries)
  /\ UNCHANGED <<flow, stored, login, code, endpoint, spent, undelivered>>

(* lonejson_oauth2_token_flow_assign, to the application's storage and,     *)
(* after a crash, back from it.                                             *)
Store ==
  /\ Idle /\ stored' = flow
  /\ UNCHANGED <<flow, request, login, code, endpoint, spent, undelivered>>
  /\ result' = NoResult

Restart ==
  /\ flow' = stored
  /\ request' = NoRequest /\ result' = NoResult /\ code' = 0
  /\ undelivered' = (undelivered \/ stored.refresh # flow.refresh \/ InFlight)
  /\ UNCHANGED <<stored, login, endpoint, spent>>

----------------------------------------------------------------------------
(* The browser and the token endpoint.                                      *)

(* The user approves or denies a login; the redirect carries its state.     *)
Redirects(state) ==
  LET P(key, val, escaped) == [key |-> key, val |-> val, escaped |-> escaped]
      stateParam == P("state", state, TRUE)
  IN {<<P("code", state, TRUE), stateParam>>,
      <<P("error", 1, TRUE), stateParam>>,
      <<P("code", state, TRUE), stateParam, P("code", state, TRUE)>>,
      <<P("code", state, FALSE), stateParam>>,
      <<P("code", 0, TRUE), stateParam>>}

Awaited == request.answer = "awaited"

Granted ==
  CASE request.grant = "client" -> TRUE
    [] request.grant = "code" -> /\ request.secret = request.verifier
                                 /\ request.secret \notin spent
    [] request.grant = "refresh" -> request.secret = endpoint.refresh

(* The endpoint grants the request: a new access token and, for a login or  *)
(* when it rotates, a new refresh token.  The answer may leave out          *)
(* expires_in, and may be one the client does not accept.                   *)
Grant(lifetime, says, acceptable) ==
  /\ Awaited /\ request.grant # "revoke" /\ Granted
  /\ Len(endpoint.issued) < MaxTokens
  /\ LET renews == request.grant = "code" \/ (request.grant = "refresh" /\ endpoint.rotates)
         refresh == IF renews THEN endpoint.renewals + 1 ELSE 0
     IN /\ endpoint' = [endpoint EXCEPT
                          !.issued = Append(@, clock + lifetime),
                          !.refresh = IF renews THEN refresh ELSE @,
                          !.renewals = IF renews THEN refresh ELSE @]
        /\ request' = [request EXCEPT
              !.answer = IF acceptable THEN "granted" ELSE "unreadable",
              !.tokens = [access |-> Len(endpoint.issued) + 1, refresh |-> refresh,
                          expires_in |-> IF says THEN lifetime ELSE NoExpiry]]
  /\ spent' = IF request.grant = "code" THEN spent \union {request.secret} ELSE spent
  /\ UNCHANGED <<flow, stored, result, login, code, undelivered>>

(* A revocation succeeds whether or not the token was still good.           *)
GrantRevocation ==
  /\ Awaited /\ request.grant = "revoke"
  /\ endpoint' = [endpoint EXCEPT !.refresh = IF @ = request.secret THEN 0 ELSE @]
  /\ request' = [request EXCEPT !.answer = "granted"]
  /\ UNCHANGED <<flow, stored, result, login, code, spent, undelivered>>

(* 4xx, 429 or 5xx before the grant; a transport failure before it.         *)
Refuse ==
  /\ Awaited
  /\ \/ request.grant # "revoke" /\ ~Granted /\ request' = [request EXCEPT !.answer = "refused"]
     \/ request' = [request EXCEPT !.answer = "busy"]
     \/ request' = [request EXCEPT !.answer = "cut"]
     \/ request' = [request EXCEPT !.answer = "failed"]
  /\ UNCHANGED <<flow, stored, result, login, code, endpoint, spent, undelivered>>

(* The answer was sent and is lost on its way.                              *)
LoseAnswer ==
  /\ request.answer \in {"granted", "unreadable"}
  /\ \E a \in {"cut", "failed"} : request' = [request EXCEPT !.answer = a, !.tokens = NoTokens]
  /\ undelivered' = (undelivered \/ InFlight)
  /\ UNCHANGED <<flow, stored, result, login, code, endpoint, spent>>

----------------------------------------------------------------------------
(* The return of the HTTP provider.                                         *)
Retryable(answer) == answer \in {"busy", "cut"}

(* A further turn of the loop of ensure.                                    *)
Retry ==
  /\ request.grant = "refresh" /\ Retryable(request.answer)
  /\ request.attempts <= request.retries
  /\ request' = [request EXCEPT !.attempts = @ + 1, !.answer = "awaited"]
  /\ UNCHANGED <<flow, stored, result, login, code, endpoint, spent, undelivered>>

GivesUp ==
  \/ request.answer \in {"refused", "failed", "unreadable"}
  \/ /\ Retryable(request.answer)
     /\ request.grant = "refresh" => request.attempts > request.retries

Return(state) ==
  /\ request' = NoRequest
  /\ result' = IF request.grant = "refresh"
               THEN [NoResult EXCEPT !.state = state] ELSE NoResult

(* The call returns with an error and leaves the flow as it was.            *)
Fail ==
  /\ GivesUp
  /\ Return("FAILED")
  /\ undelivered' = (undelivered \/ InFlight)
  /\ UNCHANGED <<flow, stored, login, code, endpoint, spent>>

(* An answer with tokens is made part of the flow, with the time taken      *)
(* before the request.                                                      *)
TokenAnswer ==
  /\ request.answer = "granted" /\ request.grant # "revoke"
  /\ \E f \in update_response(flow, request.tokens, request.now) :
       /\ flow' = f
       /\ Return(IF f = flow THEN "FAILED" ELSE "REFRESHED")
       /\ undelivered' = IF f = flow THEN undelivered \/ InFlight
                         ELSE undelivered /\ ~InFlight
  /\ UNCHANGED <<stored, login, code, endpoint, spent>>

(* A revoked flow is cleaned up by its owner.                               *)
RevocationAnswer ==
  /\ request.answer = "granted" /\ request.grant = "revoke"
  /\ flow' = EmptyFlow /\ Return("none")
  /\ UNCHANGED <<stored, login, code, endpoint, spent, undelivered>>

FlowNext ==
  \/ Tick(MaxFlowTime) /\ UNCHANGED flowVars
  \/ /\ UNCHANGED clock
     /\ \/ BeginLogin \/ RedeemCode \/ ClientCredentials \/ Revoke \/ Store \/ Restart
        \/ \E s \in 1..login.state : \E q \in Redirects(s) : Callback(q)
        \/ \E skew \in Skews, noRefresh, noRetry, named \in BOOLEAN :
             Ensure(skew, noRefresh, noRetry, named)
        \/ \E l \in Lifetimes, says, acceptable \in BOOLEAN : Grant(l, says, acceptable)
        \/ GrantRevocation \/ Refuse \/ LoseAnswer
        \/ Retry \/ Fail \/ TokenAnswer \/ RevocationAnswer
=============================================================================
