-------------------------------- MODULE M2m --------------------------------
(***************************************************************************)
(* Machine-to-machine credentials of src/src/impl/40_auth_api.h.  lonejson  *)
(* keeps no credential itself: it makes the record of a credential or of an *)
(* invitation (signup), the application keeps the records in a JSON store   *)
(* and passes it to every verification.  Random bytes and SHA-256 come from *)
(* the auth provider and are external: random values are distinct numbers,  *)
(* and the digest of a salt and a secret is the pair of them.               *)
(***************************************************************************)
EXTENDS Integers, Sequences, FiniteSets, SequencesExt

CONSTANTS
  Claims,       \* claims a credential can carry
  NoClaim,      \* a claim text that is not JSON
  MaxRecords,   \* bound on the records in each of the two lists of the store
  MaxIssued,    \* bound on the credentials generated
  MaxInvited    \* bound on the invitations generated

ASSUME M2mAssumption == MaxRecords \in Nat /\ MaxIssued \in Nat /\ MaxInvited \in Nat

VARIABLES
  store,    \* the application's store: [credentials, signups]
  drawn,    \* external: random values drawn so far
  issued,   \* the credentials handed out, with the invitation they came from
  invited,  \* the invitations handed out
  auth      \* lonejson_m2m_authentication of the last verification, with its arguments

m2mVars == <<store, drawn, issued, invited, auth>>

AuthModes == {"BASIC", "BEARER"}
NoSecret == 0
NoAuth == [done |-> FALSE]

M2mInit ==
  /\ store = [credentials |-> <<>>, signups |-> <<>>]
  /\ drawn = 0 /\ issued = {} /\ invited = {}
  /\ auth = NoAuth

----------------------------------------------------------------------------
Digest(salt, secret) == <<salt, secret>>

verify_hash(salt, digest, secret) == secret # NoSecret /\ digest = Digest(salt, secret)

modes_or_default(modes) == IF modes = {} THEN AuthModes ELSE modes

(* lonejson_m2m_credential_generate: the random values it draws, in order,  *)
(* for the modes asked for.                                                 *)
Draws(modes) ==
  <<"client_id">>
    \o (IF "BASIC" \in modes THEN <<"client_secret">> ELSE <<>>)
    \o (IF "BEARER" \in modes THEN <<"api_key">> ELSE <<>>)
    \o (IF "BASIC" \in modes THEN <<"secret_salt">> ELSE <<>>)
    \o (IF "BEARER" \in modes THEN <<"api_key_salt">> ELSE <<>>)

Drawn(modes, name) ==
  IF Contains(Draws(modes), name)
  THEN drawn + CHOOSE i \in DOMAIN Draws(modes) : Draws(modes)[i] = name
  ELSE NoSecret

Secrets(modes, claim) ==
  [client_id |-> Drawn(modes, "client_id"), client_secret |-> Drawn(modes, "client_secret"),
   api_key |-> Drawn(modes, "api_key"), claim |-> claim]

build_record_json(modes, claim) ==
  LET s == Secrets(modes, claim)
  IN [client_id |-> s.client_id, revoked |-> FALSE, claim |-> claim,
      secret_salt |-> Drawn(modes, "secret_salt"),
      secret_hash |-> Digest(Drawn(modes, "secret_salt"), s.client_secret),
      api_key_salt |-> Drawn(modes, "api_key_salt"),
      api_key_hash |-> Digest(Drawn(modes, "api_key_salt"), s.api_key)]

(* The credential goes to the client and the record, if nothing fails in    *)
(* between, into the store.                                                 *)
Hand(modes, claim, invitation) ==
  /\ Cardinality(issued) < MaxIssued
  /\ issued' = issued \union {[secrets |-> Secrets(modes, claim), invitation |-> invitation]}
  /\ drawn' = drawn + Len(Draws(modes))
  /\ \/ UNCHANGED store
     \/ /\ Len(store.credentials) < MaxRecords
        /\ store' = [store EXCEPT !.credentials = Append(@, build_record_json(modes, claim))]

credential_generate(modes, claim) ==
  /\ claim # NoClaim
  /\ Hand(modes_or_default(modes), claim, NoSecret)
  /\ UNCHANGED <<invited, auth>>

----------------------------------------------------------------------------
(* lonejson_m2m_signup_generate: an identifier, a secret and a salt.        *)
signup_generate(claim) ==
  /\ claim # NoClaim
  /\ Cardinality(invited) < MaxInvited /\ Len(store.signups) < MaxRecords
  /\ drawn' = drawn + 3
  /\ invited' = invited \union {[signup_id |-> drawn + 1, secret |-> drawn + 2, claim |-> claim]}
  /\ store' = [store EXCEPT !.signups =
       Append(@, [signup_id |-> drawn + 1, revoked |-> FALSE, claim |-> claim,
                  secret_salt |-> drawn + 3, secret_hash |-> Digest(drawn + 3, drawn + 2)])]
  /\ UNCHANGED <<issued, auth>>

(* lonejson_m2m_signup_complete: the first invitation that fits, for any    *)
(* identifier when none is given.  The invitation stays as it is.           *)
SignupFits(signup, id, secret) ==
  /\ ~signup.revoked
  /\ id = NoSecret \/ signup.signup_id = id
  /\ verify_hash(signup.secret_salt, signup.secret_hash, secret)

signup_complete(id, secret, modes) ==
  LET fits == {i \in DOMAIN store.signups : SignupFits(store.signups[i], id, secret)}
  IN /\ fits # {}
     /\ Hand(modes_or_default(modes), store.signups[Min(fits)].claim, secret)
     /\ UNCHANGED <<invited, auth>>

----------------------------------------------------------------------------
(* The application's own changes of the store.                              *)
RevokeCredential(i) ==
  /\ ~store.credentials[i].revoked
  /\ store' = [store EXCEPT !.credentials[i].revoked = TRUE]
  /\ UNCHANGED <<drawn, issued, invited, auth>>

RemoveCredential(i) ==
  /\ store' = [store EXCEPT !.credentials = RemoveAt(@, i)]
  /\ UNCHANGED <<drawn, issued, invited, auth>>

RevokeSignup(i) ==
  /\ ~store.signups[i].revoked
  /\ store' = [store EXCEPT !.signups[i].revoked = TRUE]
  /\ UNCHANGED <<drawn, issued, invited, auth>>

----------------------------------------------------------------------------
(* lonejson_m2m_verify_authorization.  A header is a scheme with its        *)
(* decoded credentials; basic_decode and extract_bearer refuse the scheme   *)
(* of the other and what they cannot decode.                                *)
basic_decode(header) == header.scheme = "Basic" /\ header.id # NoSecret /\ header.secret # NoSecret

extract_bearer(header) == header.scheme = "Bearer" /\ header.secret # NoSecret

BasicFits(record, header) ==
  /\ ~record.revoked
  /\ record.client_id = header.id
  /\ record.secret_salt # NoSecret
  /\ verify_hash(record.secret_salt, record.secret_hash, header.secret)

(* Variant: a revoked key still opens.                                      *)
BearerFits_Revoked(record, header) ==
  /\ record.api_key_salt # NoSecret
  /\ verify_hash(record.api_key_salt, record.api_key_hash, header.secret)

BearerFits(record, header) ==
  /\ ~record.revoked
  /\ record.api_key_salt # NoSecret
  /\ verify_hash(record.api_key_salt, record.api_key_hash, header.secret)

(* The records that fit, by the mode they fit in: basic is tried first.     *)
Fitting(header, modes) ==
  LET basic == {i \in DOMAIN store.credentials :
                  /\ "BASIC" \in modes /\ basic_decode(header)
                  /\ BasicFits(store.credentials[i], header)}
      key == {i \in DOMAIN store.credentials :
                /\ "BEARER" \in modes /\ extract_bearer(header)
                /\ BearerFits(store.credentials[i], header)}
  IN IF basic # {} THEN [mode |-> "BASIC", records |-> basic]
                   ELSE [mode |-> "BEARER", records |-> key]

(* A store that cannot be read, or memory that runs out, is a failure of    *)
(* its own; a digest that cannot be computed (starved) is not told from one *)
(* that differs.                                                            *)
verify_authorization(header, modes) ==
  LET fit == Fitting(header, modes_or_default(modes))
      Outcome(failure, starved) ==
        [done |-> TRUE, header |-> header, modes |-> modes, starved |-> starved, failure |-> failure]
      refusal == IF header.scheme = "none" THEN "MISSING_CREDENTIALS" ELSE "INVALID_SIGNATURE"
      record == store.credentials[Min(fit.records)]
      accepted == [done |-> TRUE, header |-> header, modes |-> modes, starved |-> FALSE,
                   failure |-> "NONE", client_id |-> record.client_id,
                   claim |-> record.claim, mode |-> fit.mode]
  IN /\ auth' \in {Outcome("CACHE_UNAVAILABLE", FALSE)} \union
                  IF fit.records = {} THEN {Outcome(refusal, FALSE)}
                  ELSE {accepted, Outcome("CLAIMS_INVALID", FALSE), Outcome(refusal, TRUE)}
     /\ UNCHANGED <<store, drawn, issued, invited>>

authentication_cleanup ==
  /\ auth.done /\ auth' = NoAuth
  /\ UNCHANGED <<store, drawn, issued, invited>>

(* What callers send: what they were given, in either scheme, a guess, or   *)
(* nothing that can be decoded.                                             *)
Known ==
  {NoSecret, drawn + 1}
    \union (UNION {{c.secrets.client_secret, c.secrets.api_key} : c \in issued})
    \union {v.secret : v \in invited}

Headers ==
  {[scheme |-> "none", id |-> NoSecret, secret |-> NoSecret]}
    \union [scheme : {"Bearer"}, id : {NoSecret}, secret : Known]
    \union [scheme : {"Basic"}, id : {c.secrets.client_id : c \in issued}, secret : Known]

M2mNext ==
  \/ authentication_cleanup
  \/ /\ ~auth.done
     /\ \/ \E modes \in SUBSET AuthModes, claim \in Claims \union {NoClaim} :
             credential_generate(modes, claim)
        \/ \E claim \in Claims \union {NoClaim} : signup_generate(claim)
        \/ \E id \in {NoSecret} \union {v.signup_id : v \in invited}, secret \in Known,
              modes \in SUBSET AuthModes : signup_complete(id, secret, modes)
        \/ \E i \in DOMAIN store.credentials : RevokeCredential(i) \/ RemoveCredential(i)
        \/ \E i \in DOMAIN store.signups : RevokeSignup(i)
        \/ \E h \in Headers, modes \in SUBSET AuthModes : verify_authorization(h, modes)
=============================================================================
