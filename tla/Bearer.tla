------------------------------- MODULE Bearer -------------------------------
(***************************************************************************)
(* The resource-server side of src/src/impl/40_auth_api.h: the cache of an  *)
(* issuer's signing keys, filled by a blocking refresh or by a transfer     *)
(* that arrives in chunks, and the validation of bearer tokens against it.  *)
(* Issuers (who rotate their keys), clock and transport are external.       *)
(***************************************************************************)
EXTENDS AuthTime, Jwt

CONSTANTS
  Policies,     \* lonejson_oidc_jwks_cache_policy without now:
                \* [issuer, jwks_uri, https, ttl, max]
  Contexts,     \* lonejson_oidc_jwks_cache_parse objects
  Body(_, _),   \* what jwks_uri serves as its n-th document: [json, keys, len]
  Documents,    \* numbers of the documents; key sets 1, 2, .. and other pages
  Unanswered,   \* a document number: nothing received yet
  Tokens,       \* Authorization headers presented: [form, token, minted]
  ClaimPolicy(_), \* the claim policy a caller uses with a cache policy, without now
  ClaimSkews,   \* its allowed_clock_skew
  MaxKeyTime    \* bound on the clock

ASSUME BearerAssumption ==
  /\ MaxKeyTime \in Nat /\ ClaimSkews \subseteq Int
  /\ \A p \in Policies : p.ttl \in Int /\ p.max \in Nat
  /\ 1 \in Documents /\ Documents \subseteq Nat
  /\ \A p \in Policies, n \in Documents : DOMAIN Body(p.jwks_uri, n).keys \subseteq Nat

VARIABLES
  published,  \* external: the number of the key set each jwks_uri serves
  retired,    \* external: when it last stopped serving each key set before
  cache,      \* lonejson_oidc_jwks_cache
  ctx,        \* the streaming refreshes
  fetch,      \* the blocking refresh under way
  bearer      \* lonejson_oidc_bearer_validation of the last call, with its arguments

bearerVars == <<published, retired, cache, ctx, fetch, bearer>>

Uris == {p.jwks_uri : p \in Policies}
EmptyCache == [has_jwks |-> FALSE]
NoContext == [live |-> FALSE]
NoFetch == [live |-> FALSE]
NoBearer == [done |-> FALSE]

BearerInit ==
  /\ published = [u \in Uris |-> 1] /\ retired = [u \in Uris |-> <<>>]
  /\ cache = EmptyCache /\ ctx = [c \in Contexts |-> NoContext]
  /\ fetch = NoFetch /\ bearer = NoBearer

----------------------------------------------------------------------------
validate_policy(policy, now) ==
  /\ policy.ttl > 0 /\ now >= 0
  /\ ~(now > 0 /\ policy.ttl > Int64Max - now)
  /\ policy.https

(* Variant: any fresh cache will do.                                        *)
matches_policy_AnyIssuer(policy, now) == cache.has_jwks /\ now < cache.expires_at

matches_policy(policy, now) ==
  /\ cache.has_jwks
  /\ cache.issuer = policy.issuer /\ cache.jwks_uri = policy.jwks_uri
  /\ now < cache.expires_at

(* lonejson_oidc_jwks_cache_update_json: the set of (status, cache) pairs;  *)
(* only the last step touches the cache.                                    *)
update_json(policy, now, body) ==
  {[ok |-> FALSE, cache |-> cache]} \union
    IF /\ validate_policy(policy, now)
       /\ body.len <= policy.max
       /\ jwks_parse_json(body)
    THEN {[ok |-> TRUE,
           cache |-> [has_jwks |-> TRUE, issuer |-> policy.issuer,
                      jwks_uri |-> policy.jwks_uri, keys |-> body.keys,
                      expires_at |-> now + policy.ttl]]}
    ELSE {}

(* The application is free to call: no blocking refresh is under way.  A     *)
(* result is read and cleaned up before anything else happens.              *)
Calls == ~fetch.live /\ UNCHANGED bearer

----------------------------------------------------------------------------
(* An issuer replaces its key set by the next one.                          *)
Rotate(u) ==
  /\ published[u] + 1 \in Documents /\ Body(u, published[u] + 1).json
  /\ published' = [published EXCEPT ![u] = @ + 1]
  /\ retired' = [retired EXCEPT ![u] = Append(@, clock)]
  /\ UNCHANGED <<cache, ctx, fetch, bearer>>

(* The answer of jwks_uri at this moment: its key set or another page.      *)
Answers(u) == {published[u]} \union {n \in Documents : ~jwks_parse_json(Body(u, n))}

----------------------------------------------------------------------------
(* lonejson_oidc_jwks_cache_refresh: request, answer, return.               *)
Refresh(policy) ==
  /\ Calls
  /\ validate_policy(policy, clock)
  /\ fetch' = [live |-> TRUE, policy |-> policy, now |-> clock, body |-> Unanswered]
  /\ UNCHANGED <<published, retired, cache, ctx>>

RefreshAnswered ==
  /\ fetch.live /\ fetch.body = Unanswered
  /\ \E n \in Answers(fetch.policy.jwks_uri) : fetch' = [fetch EXCEPT !.body = n]
  /\ UNCHANGED <<published, retired, cache, ctx, bearer>>

(* Also after a transport failure or a status other than 2xx.               *)
RefreshReturns ==
  /\ fetch.live /\ fetch' = NoFetch
  /\ \/ UNCHANGED cache
     \/ /\ fetch.body # Unanswered
        /\ \E r \in update_json(fetch.policy, fetch.now,
                                Body(fetch.policy.jwks_uri, fetch.body)) :
              cache' = r.cache
  /\ UNCHANGED <<published, retired, ctx, bearer>>

----------------------------------------------------------------------------
(* lonejson_oidc_jwks_cache_parse_init: the policy, its time included, is    *)
(* copied; a policy that is refused leaves a live context with an error.    *)
parse_init(c, policy) ==
  /\ Calls
  /\ \E err \in BOOLEAN :
       /\ ~validate_policy(policy, clock) => err
       /\ ctx' = [ctx EXCEPT ![c] = [live |-> TRUE, policy |-> policy, now |-> clock,
                                     body |-> Unanswered, len |-> 0, error |-> err]]
  /\ UNCHANGED <<published, retired, cache, fetch>>

(* The server answers the transfer that belongs to the context.             *)
TransferAnswered(c) ==
  /\ ctx[c].live /\ ctx[c].body = Unanswered
  /\ \E n \in Answers(ctx[c].policy.jwks_uri) : ctx' = [ctx EXCEPT ![c].body = n]
  /\ UNCHANGED <<published, retired, cache, fetch, bearer>>

(* lonejson_oidc_jwks_cache_write_callback with the next chunk; after an    *)
(* error curl gives the transfer up.                                        *)
write_callback(c) ==
  /\ Calls
  /\ ctx[c].live /\ ctx[c].body # Unanswered /\ ~ctx[c].error
  /\ ctx[c].len < Body(ctx[c].policy.jwks_uri, ctx[c].body).len
  /\ \/ /\ ctx[c].len < ctx[c].policy.max
        /\ ctx' = [ctx EXCEPT ![c].len = @ + 1]
     \/ ctx' = [ctx EXCEPT ![c].error = TRUE]
  /\ UNCHANGED <<published, retired, cache, fetch>>

(* What has arrived of a body: a part of a document is not a document.      *)
Received(x) ==
  IF x.body = Unanswered THEN [json |-> FALSE, keys |-> <<>>, len |-> 0]
  ELSE LET b == Body(x.policy.jwks_uri, x.body)
       IN [json |-> b.json /\ x.len = b.len, keys |-> b.keys, len |-> x.len]

(* lonejson_oidc_jwks_cache_parse_finish; nothing prevents a second call.   *)
parse_finish(c) ==
  /\ Calls
  /\ ctx[c].live
  /\ IF ctx[c].error THEN UNCHANGED <<cache, ctx>>
     ELSE \E r \in update_json(ctx[c].policy, ctx[c].now, Received(ctx[c])) :
            /\ cache' = r.cache
            /\ ctx' = [ctx EXCEPT ![c].error = ~r.ok]
  /\ UNCHANGED <<published, retired, fetch>>

parse_cleanup(c) ==
  /\ Calls
  /\ ctx[c].live /\ ctx' = [ctx EXCEPT ![c] = NoContext]
  /\ UNCHANGED <<published, retired, cache, fetch>>

cache_cleanup ==
  /\ Calls
  /\ cache' = EmptyCache
  /\ UNCHANGED <<published, retired, ctx, fetch>>

----------------------------------------------------------------------------
(* lonejson_oidc_authorization_bearer_token: no credential, another scheme  *)
(* or trailing data, or one bearer token.                                   *)
authorization_bearer_token(presented) ==
  CASE presented.form = "missing" -> "MISSING_CREDENTIALS"
    [] presented.form = "other" -> "MALFORMED_TOKEN"
    [] presented.form = "bearer" -> "NONE"

(* lonejson_oidc_validate_bearer_token: the failure, NONE when accepted; a  *)
(* call that runs out of memory, which refuses any token, is left out.      *)
Decoded == [h \in Tokens |-> jwt_decode_compact(h.token)]

validate_bearer_token(presented, policy, claimPolicy) ==
  LET d == Decoded[presented]
      kid == Value(d.header, "kid")
      fits == select_bearer_key(cache.keys, kid, Value(d.header, "alg"))
  IN IF authorization_bearer_token(presented) # "NONE" THEN authorization_bearer_token(presented)
     ELSE IF ~d.ok THEN "MALFORMED_TOKEN"
     ELSE IF kid = Absent THEN "KEY_NOT_FOUND"
     ELSE IF ~(validate_policy(policy, clock) /\ matches_policy(policy, clock))
          THEN "CACHE_UNAVAILABLE"
     ELSE IF fits = {} THEN "KEY_NOT_FOUND"
     ELSE IF ~validate_signature(presented.token, d.header, cache.keys[Min(fits)])
          THEN "INVALID_SIGNATURE"
     ELSE IF ~validate_claims(d.header, d.claims, claimPolicy)
          THEN classify_claim_failure(d.claims, claimPolicy)
     ELSE "NONE"

Validate(presented, policy, skew) ==
  /\ ~fetch.live
  /\ bearer' = [done |-> TRUE, policy |-> policy, skew |-> skew, presented |-> presented,
                failure |-> validate_bearer_token(presented, policy,
                              [ClaimPolicy(policy) EXCEPT !.skew = skew, !.now = clock])]
  /\ UNCHANGED <<published, retired, cache, ctx, fetch>>

(* lonejson_oidc_bearer_validation_cleanup.                                 *)
bearer_validation_cleanup ==
  /\ bearer' = NoBearer
  /\ UNCHANGED <<published, retired, cache, ctx, fetch>>

BearerNext ==
  \/ bearer.done /\ bearer_validation_cleanup /\ UNCHANGED clock
  \/ ~bearer.done /\ Tick(MaxKeyTime) /\ UNCHANGED bearerVars
  \/ /\ ~bearer.done /\ UNCHANGED clock
     /\ \/ \E u \in Uris : Rotate(u)
        \/ \E p \in Policies : Refresh(p)
        \/ RefreshAnswered \/ RefreshReturns
        \/ \E c \in Contexts, p \in Policies : parse_init(c, p)
        \/ \E c \in Contexts : \/ TransferAnswered(c) \/ write_callback(c)
                               \/ parse_finish(c) \/ parse_cleanup(c)
        \/ cache_cleanup
        \/ \E h \in Tokens, p \in Policies, s \in ClaimSkews : Validate(h, p, s)
=============================================================================
