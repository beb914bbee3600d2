------------------------------- MODULE MCAuth -------------------------------
(***************************************************************************)
(* An instance of Auth for TLC: two issuers whose first keys have the same  *)
(* kid, one of which rotates; key set pages that are too long or have a key *)
(* that is not complete; bearer tokens as minted and as altered.            *)
(***************************************************************************)
EXTENDS Auth

MCSkews == {-1, 0, 3}

MCPolicies ==
  {[issuer |-> u, jwks_uri |-> u, https |-> TRUE, ttl |-> 2, max |-> 2] : u \in {"a", "b"}}
    \union {[issuer |-> "a", jwks_uri |-> "a", https |-> FALSE, ttl |-> 2, max |-> 2]}

Key(u, n) == [kid |-> n, kty |-> "RSA", alg |-> Absent, use |-> "sig", key_ops |-> {},
              material |-> <<u, n>>, complete |-> TRUE]

MCBody(u, n) ==
  CASE n = 1 -> [json |-> TRUE, len |-> 2,
                 keys |-> <<[Key(u, 1) EXCEPT !.use = "enc", !.material = <<u, 9>>], Key(u, 1)>>]
    [] n = 2 /\ u = "a" -> [json |-> TRUE, len |-> 1, keys |-> <<Key(u, 2)>>]
    [] n = 3 /\ u = "a" -> [json |-> FALSE, len |-> 3, keys |-> <<>>]
    [] n = 4 /\ u = "a" -> [json |-> TRUE, len |-> 1,
                            keys |-> <<Key(u, 9), [Key(u, 2) EXCEPT !.complete = FALSE]>>]
    [] OTHER -> [json |-> FALSE, len |-> 0, keys |-> <<>>]

MCClaimPolicy(p) ==
  [algs |-> {"RS256", "none"}, issuers |-> {p.issuer}, audiences |-> {"api"},
   allAudiences |-> FALSE, nonce |-> Absent, azp |-> Absent, azpWhenMany |-> TRUE,
   crit |-> {}, scopes |-> {"read"}, required |-> {"exp"}, skew |-> 0, now |-> 0]

(* Members of a token's documents.                                          *)
S(n, v) == [name |-> n, type |-> "string", val |-> v]
D(n, v) == [name |-> n, type |-> "integer", val |-> v]
L(n, vs) == [name |-> n, type |-> "array", val |-> vs]

JWT(header, payload, signer) ==
  [segments |-> TRUE, certificates |-> TRUE, signer |-> signer,
   header |-> [root |-> "object", members |-> header],
   payload |-> [root |-> "object", members |-> payload]]

Header(key) == <<S("alg", "RS256"), S("kid", key)>>
Payload(iss, exp) ==
  <<S("iss", iss), S("aud", "api"), D("exp", exp), S("scope", {"read", "write"})>>

Fit(by, key, from, until) ==
  [by |-> by, key |-> key, from |-> from, until |-> until, fit |-> TRUE]
Unfit(by, key) == [by |-> by, key |-> key, from |-> 0, until |-> 2, fit |-> FALSE]

Presented(token, minted) == [form |-> "bearer", token |-> token, minted |-> minted]

Good == JWT(Header(1), Payload("a", 2), <<"a", 1>>)

(* Tokens an issuer minted.                                                 *)
Genuine ==
  {Presented(JWT(Header(1), Payload(u, e), <<u, 1>>), Fit(u, 1, 0, e)) : u \in {"a", "b"}, e \in {1, 3}}
  \union {
   Presented(JWT(Header(2), Payload("a", 3), <<"a", 2>>), Fit("a", 2, 0, 3)),
   \* other members, audience as a list, scp for scope, not valid before 1
   Presented(JWT(Header(1),
                 <<S("iss", "a"), L("aud", <<S("", "api"), S("", "other")>>), D("exp", 3), D("nbf", 1),
                   S("azp", "client"), L("scp", <<S("", {"read"}), S("", {"write"})>>), D("x", 7)>>,
                 <<"a", 1>>),
             Fit("a", 1, 1, 3)),
   \* for another audience, without the scope, several audiences and no azp
   Presented(JWT(Header(1), <<S("iss", "a"), S("aud", "other"), D("exp", 2), S("scope", {"read"})>>,
                 <<"a", 1>>), Unfit("a", 1)),
   Presented(JWT(Header(1), <<S("iss", "a"), S("aud", "api"), D("exp", 2), S("scope", {"write"})>>,
                 <<"a", 1>>), Unfit("a", 1)),
   Presented(JWT(Header(1), <<S("iss", "a"), L("aud", <<S("", "api"), S("", "other")>>), D("exp", 2),
                              S("scope", {"read"})>>, <<"a", 1>>), Unfit("a", 1)),
   \* no expiry, a critical header the policy does not know, no kid
   Presented(JWT(Header(1), <<S("iss", "a"), S("aud", "api"), S("scope", {"read"})>>, <<"a", 1>>),
             Unfit("a", 1)),
   Presented(JWT(Append(Header(1), L("crit", <<S("", "b64")>>)), Payload("a", 2), <<"a", 1>>),
             Unfit("a", 1)),
   Presented(JWT(<<S("alg", "RS256")>>, Payload("a", 2), <<"a", 1>>), Unfit("a", 1)),
   \* the same member twice, a date as a string, a list of something else
   Presented(JWT(Header(1), Append(Payload("a", 2), S("aud", "api")), <<"a", 1>>), Unfit("a", 1)),
   Presented(JWT(Header(1), <<S("iss", "a"), S("aud", "api"), S("exp", 2)>>, <<"a", 1>>), Unfit("a", 1)),
   Presented(JWT(Header(1), <<S("iss", "a"), L("aud", <<D("", 1)>>), D("exp", 2)>>, <<"a", 1>>),
             Unfit("a", 1))}

(* Tokens no issuer minted, and headers without a token.                    *)
Forged ==
  {Presented([Good EXCEPT !.signer = s], Unfit("nobody", 1)) : s \in {<<"a", 9>>, <<"nobody", 1>>}}
  \union {
   \* signed by one issuer in the name of the other
   Presented([Good EXCEPT !.signer = <<"b", 1>>], Unfit("b", 1)),
   Presented([Good EXCEPT !.header.members = <<S("alg", "none"), S("kid", 1)>>], Unfit("nobody", 1)),
   Presented([Good EXCEPT !.header.members = <<S("alg", "ES256"), S("kid", 1)>>], Unfit("nobody", 1)),
   Presented([Good EXCEPT !.header.members = <<S("alg", "HS256"), S("kid", 1)>>], Unfit("nobody", 1)),
   Presented([Good EXCEPT !.segments = FALSE], Unfit("nobody", 1)),
   Presented([Good EXCEPT !.payload.root = "array"], Unfit("nobody", 1)),
   [Presented(Good, Unfit("nobody", 1)) EXCEPT !.form = "missing"],
   [Presented(Good, Unfit("nobody", 1)) EXCEPT !.form = "other"]}

MCTokens == Genuine \union Forged
=============================================================================
