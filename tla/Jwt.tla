-------------------------------- MODULE Jwt --------------------------------
(***************************************************************************)
(* The pure part of the authentication code (src/src/impl/40_auth_api.h):  *)
(* what a compact JWT decodes to, which JWK of a key set a bearer token     *)
(* selects, and the signature and claim checks.  A JSON document of a token *)
(* is its sequence of members, in document order; strings are abstract      *)
(* values, and a string that is a list of words (scope) is its set of words.*)
(***************************************************************************)
EXTENDS Integers, Sequences, SequencesExt

CONSTANT
    Absent  \* a member, parameter or policy entry that is not there


(* Members of the two documents by the kind of value they must have.  An    *)
(* unregistered member is skipped whatever it holds.                        *)
StringMembers(mode) ==
    IF mode = "header" THEN {"alg", "kid", "typ", "x5t", "x5t#S256"}
    ELSE {"iss", "sub", "nonce", "azp", "scope"}

ArrayMembers(mode) == IF mode = "header" THEN {"crit", "x5c"} ELSE {"scp", "aud"}

DateMembers(mode) == IF mode = "header" THEN {} ELSE {"exp", "nbf", "iat"}

Registered(mode) ==
    StringMembers(mode) \union ArrayMembers(mode) \union DateMembers(mode)

(* aud and scp of the claims may also be a single string; one flag covers   *)
(* both spellings, so that either after the other is a duplicate.           *)
WellTyped(mode, m) ==
    \/ m.type = "string" /\ m.name \in StringMembers(mode)
    \/ m.type = "string" /\ mode = "claims" /\ m.name \in ArrayMembers(mode)
    \/ /\ m.type = "array" /\ m.name \in ArrayMembers(mode)
       /\ \A i \in DOMAIN m.val : m.val[i].type = "string"
    \/ m.type = "integer" /\ m.name \in DateMembers(mode) /\ m.val >= 0

MemberValue(m) ==
    CASE m.type = "array" -> [i \in DOMAIN m.val |-> m.val[i].val]
      [] m.type = "string" /\ m.name \in {"scp", "aud"} -> <<m.val>>
      [] OTHER -> m.val

(* One member of the document: the callbacks string_begin .. number_end of  *)
(* the visitor.  got maps each registered member seen to its value.         *)
VisitMember(mode, state, m) ==
    IF ~state.ok \/ m.name \notin Registered(mode) THEN state
    ELSE IF m.name \in DOMAIN state.got \/ ~WellTyped(mode, m)
         THEN [ok |-> FALSE, got |-> <<>>]
         ELSE [state EXCEPT !.got =
                  [n \in DOMAIN @ \union {m.name} |->
                      IF n = m.name THEN MemberValue(m) ELSE @[n]]]

parse_decoded_json(mode, doc) ==
    IF doc.root # "object" THEN [ok |-> FALSE, got |-> <<>>]
    ELSE FoldLeft(LAMBDA s, m : VisitMember(mode, s, m),
                  [ok |-> TRUE, got |-> <<>>], doc.members)

Value(got, name) == IF name \in DOMAIN got THEN got[name] ELSE Absent

(* The whole decode: three base64url segments within the limits, then the   *)
(* header, its certificate members and the claims; any failure empties both *)
(* outputs.                                                                 *)
jwt_decode_compact(token) ==
    LET h == parse_decoded_json("header", token.header)
        c == parse_decoded_json("claims", token.payload)
    IN IF token.segments /\ h.ok /\ token.certificates /\ c.ok
       THEN [ok |-> TRUE, header |-> h.got, claims |-> c.got]
       ELSE [ok |-> FALSE, header |-> <<>>, claims |-> <<>>]

(* ---- keys ------------------------------------------------------------- *)
(* A parsed JWK Set is accepted when it has a key and every key is complete *)
(* for its type (jwk.complete); otherwise nothing of it is kept.            *)
jwks_parse_json(body) ==
    /\ body.json
    /\ body.keys # <<>>
    /\ \A i \in DOMAIN body.keys : body.keys[i].complete

KtyOfAlg(alg) ==
    CASE alg \in {"RS256", "PS256"} -> "RSA"
      [] alg = "ES256" -> "EC"
      [] alg = "EdDSA" -> "OKP"
      [] OTHER -> Absent

match_filter(value, filter) == filter = Absent \/ value = filter

match_optional_declared(value, required) ==
    required = Absent \/ value = Absent \/ value = required

(* Where a key set has a key that fits; the first one is taken.             *)
select_bearer_key(keys, kid, alg) ==
    {i \in DOMAIN keys : /\ match_filter(keys[i].kid, kid)
                         /\ match_filter(keys[i].kty, KtyOfAlg(alg))
                         /\ match_optional_declared(keys[i].alg, alg)
                         /\ match_optional_declared(keys[i].use, "sig")}

(* The auth provider is external: it accepts a signature made with the      *)
(* private half of the key it is handed, under an algorithm of its type.    *)
verify_jws(token, alg, jwk) ==
    token.signer = jwk.material /\ KtyOfAlg(alg) = jwk.kty

validate_signature(token, header, jwk) ==
    /\ Value(header, "alg") \notin {Absent, "none"}
    /\ match_optional_declared(jwk.alg, Value(header, "alg"))
    /\ match_optional_declared(jwk.kid, Value(header, "kid"))
    /\ match_optional_declared(jwk.use, "sig")
    /\ jwk.key_ops = {} \/ "verify" \in jwk.key_ops
    /\ verify_jws(token, Value(header, "alg"), jwk)

(* ---- claims ----------------------------------------------------------- *)
Audiences(claims) ==
    IF "aud" \in DOMAIN claims THEN ToSet(claims["aud"]) ELSE {}

AudienceCount(claims) ==
    IF "aud" \in DOMAIN claims THEN Len(claims["aud"]) ELSE 0

Scopes(claims) ==
    (IF "scope" \in DOMAIN claims THEN claims["scope"] ELSE {})
      \union (IF "scp" \in DOMAIN claims THEN UNION ToSet(claims["scp"]) ELSE {})

at_least_delta(later, earlier, delta) ==
    later >= earlier /\ delta >= 0 /\ later - earlier >= delta

Expired(claims, policy) ==
    /\ "exp" \in DOMAIN claims
    /\ at_least_delta(policy.now, claims["exp"], policy.skew)

NotYet(claims, name, policy) ==
    /\ name \in DOMAIN claims
    /\ policy.now < claims[name]
    /\ claims[name] - policy.now > policy.skew

PolicyComplete(policy) ==
    /\ policy.algs # {} /\ policy.issuers # {} /\ policy.audiences # {}
    /\ policy.skew >= 0

HasRequired(claims, name) ==
    IF name = "scp" THEN name \in DOMAIN claims /\ claims[name] # <<>>
    ELSE IF name = "aud" THEN AudienceCount(claims) # 0
    ELSE name \in Registered("claims") /\ name \in DOMAIN claims

validate_claims(header, claims, policy) ==
    /\ PolicyComplete(policy) /\ policy.now >= 0
    /\ Value(header, "alg") \in policy.algs \ {"none"}
    /\ Value(claims, "iss") \in policy.issuers
    /\ Audiences(claims) \intersect policy.audiences # {}
    /\ policy.allAudiences => Audiences(claims) \subseteq policy.audiences
    /\ match_filter(Value(claims, "nonce"), policy.nonce)
    /\ match_filter(Value(claims, "azp"), policy.azp)
    /\ policy.azpWhenMany /\ AudienceCount(claims) > 1 => Value(claims, "azp") # Absent
    /\ Value(header, "crit") # Absent => ToSet(header["crit"]) \subseteq policy.crit
    /\ policy.scopes \subseteq Scopes(claims)
    /\ \A n \in policy.required : HasRequired(claims, n)
    /\ ~Expired(claims, policy)
    /\ ~NotYet(claims, "nbf", policy)
    /\ ~NotYet(claims, "iat", policy)

(* The failure reported is found by a second pass over the claims, which    *)
(* looks at the issuer, the audience and the dates only.                    *)
classify_claim_failure(claims, policy) ==
    IF ~PolicyComplete(policy) THEN "CLAIMS_INVALID"
    ELSE IF Value(claims, "iss") \notin policy.issuers THEN "ISSUER_MISMATCH"
    ELSE IF Audiences(claims) \intersect policy.audiences = {} THEN "AUDIENCE_MISMATCH"
    ELSE IF Expired(claims, policy) THEN "EXPIRED_TOKEN"
    ELSE IF NotYet(claims, "nbf", policy) \/ NotYet(claims, "iat", policy) THEN "NOT_YET_VALID"
    ELSE "CLAIMS_INVALID"
=============================================================================
