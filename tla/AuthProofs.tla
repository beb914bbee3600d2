----------------------------- MODULE AuthProofs -----------------------------
(***************************************************************************)
(* Proofs about Auth: the token flow tracks the token endpoint, machine    *)
(* credentials are verified exactly, and a bearer token is accepted with a *)
(* recent key of its issuer only, for any lifetimes, skews, retries,       *)
(* claims, key sets and bounds.                                            *)
(***************************************************************************)
EXTENDS Auth, SequenceTheorems, WellFoundedInduction, TLAPS

(***************************************************************************)
(* The token flow.                                                         *)
(***************************************************************************)
FlowRecords == [access : Nat, refresh : Nat, expires : Int]

Grants == [access : Nat, refresh : Nat, expires_in : Int]

AnswerKinds == {"awaited", "granted", "unreadable", "refused", "busy", "cut", "failed"}

Requests ==
  [grant : {"code", "client", "revoke", "refresh"}, secret : Nat, verifier : Nat, now : Nat,
   retries : Nat, attempts : Nat, answer : AnswerKinds, tokens : Grants]

Endpoints == [issued : Seq(Nat), refresh : Nat, renewals : Nat, rotates : BOOLEAN]

FlowTypeOK ==
  /\ clock \in Nat
  /\ flow \in FlowRecords /\ stored \in FlowRecords
  /\ (Idle /\ request = NoRequest) \/ (~Idle /\ request \in Requests)
  /\ login \in [state : Nat, verifier : Nat] /\ code \in Nat
  /\ endpoint \in Endpoints
  /\ undelivered \in BOOLEAN

\* What a flow says of its access token is what the endpoint knows.
Backed(f) ==
  f.access # 0 =>
    /\ f.access <= Len(endpoint.issued)
    /\ f.expires # NoExpiry => f.expires <= endpoint.issued[f.access]

Answered == request.answer \in {"granted", "unreadable"}

\* So does an answer under way, counted from the time of the request.
AnswerBacked ==
  /\ ~Idle => request.now <= clock
  /\ Answered /\ request.grant # "revoke" =>
       /\ request.tokens.access \in 1..Len(endpoint.issued)
       /\ request.tokens.expires_in # NoExpiry =>
            /\ request.tokens.expires_in \in Nat
            /\ request.now + request.tokens.expires_in
                 <= endpoint.issued[request.tokens.access]

\* READY is about the flow as it is.
ReadyInv ==
  result.state = "READY" =>
    /\ Idle /\ result.token = flow.access /\ flow.access # 0 /\ result.at \in Nat
    /\ flow.expires # NoExpiry => flow.expires > result.at

\* Where the endpoint's refresh token is: in the flow, or in an answer.
RefreshInv ==
  /\ ~undelivered /\ ~InFlight => flow.refresh = endpoint.refresh
  /\ Answered /\ request.grant = "revoke" /\ ~undelivered => endpoint.refresh = 0
  /\ Answered /\ request.grant # "revoke" /\ request.tokens.refresh # 0 =>
       endpoint.refresh = request.tokens.refresh
  /\ request.grant = "revoke" => request.secret = flow.refresh

\* A code waits for, and is sent with, the verifier of its own login.
LoginInv ==
  /\ login.verifier = login.state
  /\ code # 0 => code = login.verifier
  /\ request.grant = "code" => request.secret = request.verifier

FlowInv ==
  /\ FlowTypeOK
  /\ Backed(flow) /\ Backed(stored)
  /\ AnswerBacked
  /\ ReadyInv
  /\ RefreshInv
  /\ LoginInv

USE FlowAssumption, TimeAssumption
    DEF Idle, NoRequest, NoResult, NoExpiry, EmptyFlow, NoTokens, NoLogin

\* The records a request and an endpoint become.
LEMMA RequestTyped ==
  ASSUME NEW r \in Requests, NEW a \in AnswerKinds, NEW t \in Grants
  PROVE  /\ [r EXCEPT !.answer = a] \in Requests
         /\ [r EXCEPT !.answer = a, !.tokens = t] \in Requests
         /\ [r EXCEPT !.attempts = @ + 1, !.answer = a] \in Requests
<1>1. r.attempts + 1 \in Nat
  BY DEF Requests
<1> DEFINE n == r.attempts + 1
<1> HIDE DEF n
<1>2. [r EXCEPT !.attempts = n, !.answer = a] \in Requests
  BY <1>1 DEF Requests, n
<1>3. [r EXCEPT !.answer = a] \in Requests /\ [r EXCEPT !.answer = a, !.tokens = t] \in Requests
  BY DEF Requests
<1> QED
  BY <1>2, <1>3 DEF n

LEMMA FlowInitial == TimeInit /\ FlowInit => FlowInv
<1> SUFFICES ASSUME TimeInit, FlowInit PROVE FlowInv
  OBVIOUS
<1>0. NoExpiry \in Int
  OBVIOUS
<1>1. EmptyFlow \in FlowRecords
  BY <1>0 DEF FlowRecords
<1>2. PICK r \in BOOLEAN : endpoint = [issued |-> <<>>, refresh |-> 0, renewals |-> 0, rotates |-> r]
  BY DEF FlowInit
<1>3. <<>> \in Seq(Nat)
  OBVIOUS
<1>4. endpoint \in Endpoints /\ endpoint.refresh = 0
  BY <1>2, <1>3 DEF Endpoints
<1>5. FlowTypeOK
  BY <1>1, <1>4 DEF TimeInit, FlowInit, FlowTypeOK
<1> QED
  BY <1>4, <1>5 DEF TimeInit, FlowInit, FlowInv, Backed, AnswerBacked, Answered, ReadyInv,
                    RefreshInv, InFlight, LoginInv

LEMMA BeginLoginFlow ==
  ASSUME FlowInv, UNCHANGED clock, BeginLogin
  PROVE  FlowInv'
<1>1. FlowTypeOK'
  BY DEF FlowInv, FlowTypeOK, FlowRecords, Grants, AnswerKinds, Requests, Endpoints, BeginLogin
<1>2. (Backed(flow) /\ Backed(stored))'
  BY DEF FlowInv, FlowTypeOK, FlowRecords, Requests, Grants, Endpoints, Backed, AnswerBacked, Answered, BeginLogin
<1>3. AnswerBacked'
  BY DEF FlowInv, FlowTypeOK, Requests, Grants, Endpoints, AnswerBacked, Answered, BeginLogin
<1>4. ReadyInv'
  BY DEF FlowInv, FlowTypeOK, FlowRecords, ReadyInv, BeginLogin
<1>5. RefreshInv'
  BY DEF FlowInv, FlowTypeOK, FlowRecords, Requests, Endpoints, Grants, RefreshInv, InFlight, Answered, BeginLogin
<1>6. LoginInv'
  BY DEF FlowInv, FlowTypeOK, Requests, LoginInv, BeginLogin
<1> QED
  BY <1>1, <1>2, <1>3, <1>4, <1>5, <1>6 DEF FlowInv

LEMMA RedeemCodeFlow ==
  ASSUME FlowInv, UNCHANGED clock, RedeemCode
  PROVE  FlowInv'
<1>1. FlowTypeOK'
  BY DEF FlowInv, FlowTypeOK, FlowRecords, Grants, AnswerKinds, Requests, Endpoints, RedeemCode, Send
<1>2. (Backed(flow) /\ Backed(stored))'
  BY DEF FlowInv, FlowTypeOK, FlowRecords, Requests, Grants, Endpoints, Backed, AnswerBacked, Answered, RedeemCode, Send
<1>3. AnswerBacked'
  BY DEF FlowInv, FlowTypeOK, Requests, Grants, Endpoints, AnswerBacked, Answered, RedeemCode, Send
<1>4. ReadyInv'
  BY DEF FlowInv, FlowTypeOK, FlowRecords, ReadyInv, RedeemCode, Send
<1>5. RefreshInv'
  BY DEF FlowInv, FlowTypeOK, FlowRecords, Requests, Endpoints, Grants, RefreshInv, InFlight, Answered, RedeemCode, Send
<1>6. LoginInv'
  BY DEF FlowInv, FlowTypeOK, Requests, LoginInv, RedeemCode, Send
<1> QED
  BY <1>1, <1>2, <1>3, <1>4, <1>5, <1>6 DEF FlowInv

LEMMA ClientCredentialsFlow ==
  ASSUME FlowInv, UNCHANGED clock, ClientCredentials
  PROVE  FlowInv'
<1>1. FlowTypeOK'
  BY DEF FlowInv, FlowTypeOK, FlowRecords, Grants, AnswerKinds, Requests, Endpoints, ClientCredentials, Send
<1>2. (Backed(flow) /\ Backed(stored))'
  BY DEF FlowInv, FlowTypeOK, FlowRecords, Requests, Grants, Endpoints, Backed, AnswerBacked, Answered, ClientCredentials, Send
<1>3. AnswerBacked'
  BY DEF FlowInv, FlowTypeOK, Requests, Grants, Endpoints, AnswerBacked, Answered, ClientCredentials, Send
<1>4. ReadyInv'
  BY DEF FlowInv, FlowTypeOK, FlowRecords, ReadyInv, ClientCredentials, Send
<1>5. RefreshInv'
  BY DEF FlowInv, FlowTypeOK, FlowRecords, Requests, Endpoints, Grants, RefreshInv, InFlight, Answered, ClientCredentials, Send
<1>6. LoginInv'
  BY DEF FlowInv, FlowTypeOK, Requests, LoginInv, ClientCredentials, Send
<1> QED
  BY <1>1, <1>2, <1>3, <1>4, <1>5, <1>6 DEF FlowInv

LEMMA RevokeFlow ==
  ASSUME FlowInv, UNCHANGED clock, Revoke
  PROVE  FlowInv'
<1>1. FlowTypeOK'
  BY DEF FlowInv, FlowTypeOK, FlowRecords, Grants, AnswerKinds, Requests, Endpoints, Revoke, Send
<1>2. (Backed(flow) /\ Backed(stored))'
  BY DEF FlowInv, FlowTypeOK, FlowRecords, Requests, Grants, Endpoints, Backed, AnswerBacked, Answered, Revoke, Send
<1>3. AnswerBacked'
  BY DEF FlowInv, FlowTypeOK, Requests, Grants, Endpoints, AnswerBacked, Answered, Revoke, Send
<1>4. ReadyInv'
  BY DEF FlowInv, FlowTypeOK, FlowRecords, ReadyInv, Revoke, Send
<1>5. RefreshInv'
  BY DEF FlowInv, FlowTypeOK, FlowRecords, Requests, Endpoints, Grants, RefreshInv, InFlight, Answered, Revoke, Send
<1>6. LoginInv'
  BY DEF FlowInv, FlowTypeOK, Requests, LoginInv, Revoke, Send
<1> QED
  BY <1>1, <1>2, <1>3, <1>4, <1>5, <1>6 DEF FlowInv

LEMMA StoreFlow ==
  ASSUME FlowInv, UNCHANGED clock, Store
  PROVE  FlowInv'
<1>1. FlowTypeOK'
  BY DEF FlowInv, FlowTypeOK, FlowRecords, Grants, AnswerKinds, Requests, Endpoints, Store
<1>2. (Backed(flow) /\ Backed(stored))'
  BY DEF FlowInv, FlowTypeOK, FlowRecords, Requests, Grants, Endpoints, Backed, AnswerBacked, Answered, Store
<1>3. AnswerBacked'
  BY DEF FlowInv, FlowTypeOK, Requests, Grants, Endpoints, AnswerBacked, Answered, Store
<1>4. ReadyInv'
  BY DEF FlowInv, FlowTypeOK, FlowRecords, ReadyInv, Store
<1>5. RefreshInv'
  BY DEF FlowInv, FlowTypeOK, FlowRecords, Requests, Endpoints, Grants, RefreshInv, InFlight, Answered, Store
<1>6. LoginInv'
  BY DEF FlowInv, FlowTypeOK, Requests, LoginInv, Store
<1> QED
  BY <1>1, <1>2, <1>3, <1>4, <1>5, <1>6 DEF FlowInv

LEMMA RestartFlow ==
  ASSUME FlowInv, UNCHANGED clock, Restart
  PROVE  FlowInv'
<1>1. FlowTypeOK'
  BY DEF FlowInv, FlowTypeOK, FlowRecords, Grants, AnswerKinds, Requests, Endpoints, Restart
<1>2. (Backed(flow) /\ Backed(stored))'
  BY DEF FlowInv, FlowTypeOK, FlowRecords, Requests, Grants, Endpoints, Backed, AnswerBacked, Answered, Restart
<1>3. AnswerBacked'
  BY DEF FlowInv, FlowTypeOK, Requests, Grants, Endpoints, AnswerBacked, Answered, Restart
<1>4. ReadyInv'
  BY DEF FlowInv, FlowTypeOK, FlowRecords, ReadyInv, Restart
<1>5. RefreshInv'
  BY DEF FlowInv, FlowTypeOK, FlowRecords, Requests, Endpoints, Grants, RefreshInv, InFlight, Answered, Restart
<1>6. LoginInv'
  BY DEF FlowInv, FlowTypeOK, Requests, LoginInv, Restart
<1> QED
  BY <1>1, <1>2, <1>3, <1>4, <1>5, <1>6 DEF FlowInv

\* A redirect of login s gives the code of s, and only to the login of state s.
LEMMA CallbackCode ==
  ASSUME NEW e \in Nat, NEW s \in 1..e, NEW q \in Redirects(s)
  PROVE  /\ callback_parse_query(q, e) \in Nat
         /\ callback_parse_query(q, e) # 0 => callback_parse_query(q, e) = e
<1> DEFINE P(key, val, escaped) == [key |-> key, val |-> val, escaped |-> escaped]
<1>1. q \in {<<P("code", s, TRUE), P("state", s, TRUE)>>,
             <<P("error", 1, TRUE), P("state", s, TRUE)>>,
             <<P("code", s, TRUE), P("state", s, TRUE), P("code", s, TRUE)>>,
             <<P("code", s, FALSE), P("state", s, TRUE)>>,
             <<P("code", 0, TRUE), P("state", s, TRUE)>>}
  BY DEF Redirects
<1>2. \A i \in DOMAIN q : q[i].key = "state" => q[i].val = s
  BY <1>1
<1>3. \A i \in DOMAIN q : q[i].key = "code" => q[i].val \in {0, s}
  BY <1>1
<1>4. CASE callback_parse_query(q, e) = 0
  BY <1>4
<1>5. CASE callback_parse_query(q, e) # 0
  <2> DEFINE k == CHOOSE i \in Param(q, "code") : TRUE
  <2>1. /\ \E i \in Param(q, "state") : q[i].val = e
        /\ Param(q, "code") # {}
        /\ callback_parse_query(q, e) = q[k].val
    BY <1>5 DEF callback_parse_query
  <2>2. k \in Param(q, "code")
    BY <2>1
  <2>3. q[k].val \in {0, s}
    BY <2>2, <1>3 DEF Param
  <2>4. s = e
    BY <2>1, <1>2 DEF Param
  <2> QED
    BY <1>5, <2>1, <2>3, <2>4
<1> QED
  BY <1>4, <1>5

LEMMA CallbackFlow ==
  ASSUME FlowInv, UNCHANGED clock, NEW s \in 1..login.state, NEW q \in Redirects(s), Callback(q)
  PROVE  FlowInv'
<1>0. code' \in Nat /\ (code' # 0 => code' = login.state)
  BY CallbackCode DEF Callback, FlowInv, FlowTypeOK
<1>1. FlowTypeOK'
  BY <1>0 DEF FlowInv, FlowTypeOK, Callback
<1>2. (Backed(flow) /\ Backed(stored))'
  BY DEF FlowInv, FlowTypeOK, FlowRecords, Requests, Grants, Endpoints, Backed, AnswerBacked, Answered, Callback
<1>3. AnswerBacked'
  BY DEF FlowInv, FlowTypeOK, Requests, Grants, Endpoints, AnswerBacked, Answered, Callback
<1>4. ReadyInv'
  BY DEF FlowInv, FlowTypeOK, FlowRecords, ReadyInv, Callback
<1>5. RefreshInv'
  BY DEF FlowInv, FlowTypeOK, FlowRecords, Requests, Endpoints, Grants, RefreshInv, InFlight, Answered, Callback
<1>6. LoginInv'
  BY <1>0 DEF FlowInv, LoginInv, Callback
<1> QED
  BY <1>1, <1>2, <1>3, <1>4, <1>5, <1>6 DEF FlowInv

LEMMA EnsureFlow ==
  ASSUME FlowInv, UNCHANGED clock, NEW skew \in Skews, NEW noRefresh \in BOOLEAN, NEW noRetry \in BOOLEAN,
         NEW named \in BOOLEAN, Ensure(skew, noRefresh, noRetry, named)
  PROVE  FlowInv'
<1>0. \/ UNCHANGED request
      \/ /\ request' \in Requests /\ request'.answer = "awaited" /\ request'.grant = "refresh"
         /\ request'.now = clock
  <2>1. CASE UNCHANGED request
    BY <2>1
  <2>2. CASE Send("refresh", flow.refresh, 0, IF noRetry THEN 0 ELSE DefaultRetries)
    <3>1. (IF noRetry THEN 0 ELSE DefaultRetries) \in Nat
      OBVIOUS
    <3>2. NoTokens \in Grants /\ flow.refresh \in Nat /\ clock \in Nat
      BY DEF Grants, FlowInv, FlowTypeOK, FlowRecords
    <3> HIDE DEF NoTokens
    <3> QED
      BY <2>2, <3>1, <3>2 DEF Send, Requests, AnswerKinds
  <2> QED
    BY <2>1, <2>2 DEF Ensure
<1>1. FlowTypeOK'
  BY <1>0 DEF FlowInv, FlowTypeOK, Ensure, Requests
<1>2. (Backed(flow) /\ Backed(stored))'
  BY DEF FlowInv, FlowTypeOK, FlowRecords, Requests, Grants, Endpoints, Backed, AnswerBacked, Answered, Ensure, Send, is_expired, EffectiveSkew
<1>3. AnswerBacked'
  BY <1>0 DEF FlowInv, FlowTypeOK, AnswerBacked, Answered, Ensure
<1>4. ReadyInv'
  BY DEF FlowInv, FlowTypeOK, FlowRecords, ReadyInv, Ensure, Send, is_expired, EffectiveSkew
<1>5. RefreshInv'
  BY <1>0 DEF FlowInv, FlowTypeOK, RefreshInv, InFlight, Answered, Ensure
<1>6. LoginInv'
  BY <1>0 DEF FlowInv, FlowTypeOK, LoginInv, Ensure
<1> QED
  BY <1>1, <1>2, <1>3, <1>4, <1>5, <1>6 DEF FlowInv

LEMMA GrantFlow ==
  ASSUME FlowInv, UNCHANGED clock, NEW l \in Lifetimes, NEW says \in BOOLEAN,
         NEW acceptable \in BOOLEAN, Grant(l, says, acceptable)
  PROVE  FlowInv'
<1> DEFINE renews == request.grant = "code" \/ (request.grant = "refresh" /\ endpoint.rotates)
           fresh == IF renews THEN endpoint.renewals + 1 ELSE 0
           current == IF renews THEN fresh ELSE endpoint.refresh
           renewals == IF renews THEN fresh ELSE endpoint.renewals
           answer == IF acceptable THEN "granted" ELSE "unreadable"
           token == Len(endpoint.issued) + 1
           saying == IF says THEN l ELSE NoExpiry
           tokens == [access |-> token, refresh |-> fresh, expires_in |-> saying]
           until == clock + l
           tape == Append(endpoint.issued, until)
<1>1. ~Idle /\ request \in Requests /\ endpoint \in Endpoints /\ clock \in Nat
  BY DEF FlowInv, FlowTypeOK, Grant, Awaited
<1>2. /\ endpoint.issued \in Seq(Nat) /\ endpoint.refresh \in Nat /\ endpoint.renewals \in Nat
      /\ endpoint.rotates \in BOOLEAN
  BY <1>1 DEF Endpoints
<1>3. /\ fresh \in Nat /\ current \in Nat /\ renewals \in Nat /\ answer \in AnswerKinds
      /\ token \in Nat /\ saying \in Int /\ until \in Nat /\ l \in Nat
      /\ ~renews => fresh = 0
  BY <1>1, <1>2 DEF AnswerKinds
<1>4. endpoint' = [endpoint EXCEPT !.issued = tape, !.refresh = current, !.renewals = renewals]
  BY DEF Grant
<1>5. request' = [request EXCEPT !.answer = answer, !.tokens = tokens]
  BY DEF Grant
<1>6. /\ tape \in Seq(Nat) /\ Len(tape) = token /\ tape[token] = until
      /\ \A i \in 1..Len(endpoint.issued) : tape[i] = endpoint.issued[i]
  BY <1>2, <1>3
<1>7. tokens \in Grants /\ answer \in {"granted", "unreadable"}
  BY <1>3 DEF Grants
<1>8. /\ request.answer = "awaited" /\ request.grant # "revoke"
      /\ UNCHANGED <<flow, stored, result, login, code, undelivered>>
  BY DEF Grant, Awaited
<1>9. /\ tokens.access = token /\ tokens.refresh = fresh /\ tokens.expires_in = saying
      /\ saying # NoExpiry => saying = l
  OBVIOUS
<1> HIDE DEF renews, fresh, current, renewals, answer, token, saying, tokens, until, tape
<1>10. /\ endpoint' \in Endpoints /\ endpoint'.issued = tape /\ endpoint'.refresh = current
  BY <1>1, <1>3, <1>4, <1>6 DEF Endpoints
<1>11. request' \in Requests
  BY <1>1, <1>3, <1>5, <1>7, RequestTyped
<1>12. /\ request'.grant = request.grant /\ request'.answer = answer /\ request'.tokens = tokens
       /\ request'.now = request.now /\ request'.secret = request.secret
       /\ request'.verifier = request.verifier
  BY <1>1, <1>5 DEF Requests
<1>13. FlowTypeOK'
  BY <1>1, <1>8, <1>10, <1>11, <1>12 DEF FlowInv, FlowTypeOK
<1>14. \A f \in FlowRecords : Backed(f) => Backed(f)'
  <2> SUFFICES ASSUME NEW f \in FlowRecords, f.access # 0, f.access <= Len(endpoint.issued),
                      f.expires # NoExpiry => f.expires <= endpoint.issued[f.access]
               PROVE  /\ f.access <= Len(tape)
                      /\ f.expires # NoExpiry => f.expires <= tape[f.access]
    BY <1>10 DEF Backed
  <2>1. f.access \in 1..Len(endpoint.issued)
    BY <1>2 DEF FlowRecords
  <2>2. Len(tape) = Len(endpoint.issued) + 1 /\ Len(endpoint.issued) \in Nat
    BY <1>2, <1>6 DEF token
  <2> QED
    BY <2>1, <2>2, <1>6
<1>15. (Backed(flow) /\ Backed(stored))'
  <2>1. flow \in FlowRecords /\ stored \in FlowRecords /\ Backed(flow) /\ Backed(stored)
    BY DEF FlowInv, FlowTypeOK
  <2> QED
    BY <1>8, <1>14, <2>1 DEF Backed
<1>16. AnswerBacked'
  <2>1. request.now <= clock /\ request.now \in Nat
    BY <1>1 DEF FlowInv, AnswerBacked, Requests
  <2>2. token \in 1..Len(tape)
    BY <1>2, <1>3, <1>6 DEF token
  <2>3. saying # NoExpiry => saying \in Nat /\ request.now + saying <= until
    BY <1>1, <1>3, <1>9, <2>1 DEF until
  <2> QED
    BY <1>6, <1>9, <1>10, <1>12, <2>1, <2>2, <2>3 DEF AnswerBacked, Answered
<1>17. ReadyInv'
  BY <1>8, <1>12 DEF FlowInv, ReadyInv
<1>18. RefreshInv'
  <2>1. ~undelivered => flow.refresh = endpoint.refresh
    BY <1>8 DEF FlowInv, RefreshInv, InFlight
  <2>2. fresh # 0 => current = fresh
    BY <1>3 DEF current
  <2>3. fresh = 0 => current = endpoint.refresh
    BY <1>2 DEF current, fresh
  <2> QED
    BY <1>7, <1>8, <1>9, <1>10, <1>12, <2>1, <2>2, <2>3 DEF RefreshInv, InFlight, Answered
<1>19. LoginInv'
  BY <1>8, <1>12 DEF FlowInv, LoginInv
<1> QED
  BY <1>13, <1>15, <1>16, <1>17, <1>18, <1>19 DEF FlowInv

LEMMA GrantRevocationFlow ==
  ASSUME FlowInv, UNCHANGED clock, GrantRevocation
  PROVE  FlowInv'
<1>1. FlowTypeOK'
  BY DEF FlowInv, FlowTypeOK, FlowRecords, Grants, AnswerKinds, Requests, Endpoints, GrantRevocation, Awaited
<1>2. (Backed(flow) /\ Backed(stored))'
  BY DEF FlowInv, FlowTypeOK, FlowRecords, Requests, Grants, Endpoints, Backed, AnswerBacked, Answered, GrantRevocation, Awaited
<1>3. AnswerBacked'
  BY DEF FlowInv, FlowTypeOK, Requests, Grants, Endpoints, AnswerBacked, Answered, GrantRevocation, Awaited
<1>4. ReadyInv'
  BY DEF FlowInv, FlowTypeOK, FlowRecords, ReadyInv, GrantRevocation, Awaited
<1>5. RefreshInv'
  BY DEF FlowInv, FlowTypeOK, FlowRecords, Requests, Endpoints, Grants, RefreshInv, InFlight, Answered, GrantRevocation, Awaited
<1>6. LoginInv'
  BY DEF FlowInv, FlowTypeOK, Requests, LoginInv, GrantRevocation, Awaited
<1> QED
  BY <1>1, <1>2, <1>3, <1>4, <1>5, <1>6 DEF FlowInv

LEMMA RefuseFlow ==
  ASSUME FlowInv, UNCHANGED clock, Refuse
  PROVE  FlowInv'
<1>0. ~Idle /\ request \in Requests
  BY DEF FlowInv, FlowTypeOK, Refuse, Awaited
<1>a. PICK a \in AnswerKinds : request' = [request EXCEPT !.answer = a]
  BY DEF Refuse, AnswerKinds
<1>b. NoTokens \in Grants
  BY DEF Grants
<1>c. request' \in Requests
  BY <1>0, <1>a, <1>b, RequestTyped
<1>d. request'.grant = request.grant
  BY <1>0, <1>a DEF Requests
<1>1. FlowTypeOK'
  BY <1>0, <1>c, <1>d DEF FlowInv, FlowTypeOK, Refuse
<1>2. (Backed(flow) /\ Backed(stored))'
  BY DEF FlowInv, FlowTypeOK, FlowRecords, Requests, Grants, Endpoints, Backed, AnswerBacked, Answered, Refuse, Awaited
<1>3. AnswerBacked'
  BY DEF FlowInv, FlowTypeOK, Requests, Grants, Endpoints, AnswerBacked, Answered, Refuse, Awaited
<1>4. ReadyInv'
  BY DEF FlowInv, FlowTypeOK, FlowRecords, ReadyInv, Refuse, Awaited
<1>5. RefreshInv'
  BY DEF FlowInv, FlowTypeOK, FlowRecords, Requests, Endpoints, Grants, RefreshInv, InFlight, Answered, Refuse, Awaited
<1>6. LoginInv'
  BY DEF FlowInv, FlowTypeOK, Requests, LoginInv, Refuse, Awaited
<1> QED
  BY <1>1, <1>2, <1>3, <1>4, <1>5, <1>6 DEF FlowInv

LEMMA LoseAnswerFlow ==
  ASSUME FlowInv, UNCHANGED clock, LoseAnswer
  PROVE  FlowInv'
<1>0. ~Idle /\ request \in Requests
  BY DEF FlowInv, FlowTypeOK, LoseAnswer
<1>a. PICK a \in AnswerKinds : request' = [request EXCEPT !.answer = a, !.tokens = NoTokens]
  BY DEF LoseAnswer, AnswerKinds
<1>b. NoTokens \in Grants
  BY DEF Grants
<1>c. request' \in Requests
  BY <1>0, <1>a, <1>b, RequestTyped
<1>d. request'.grant = request.grant
  BY <1>0, <1>a DEF Requests
<1>1. FlowTypeOK'
  BY <1>0, <1>c, <1>d DEF FlowInv, FlowTypeOK, LoseAnswer
<1>2. (Backed(flow) /\ Backed(stored))'
  BY DEF FlowInv, FlowTypeOK, FlowRecords, Requests, Grants, Endpoints, Backed, AnswerBacked, Answered, LoseAnswer
<1>3. AnswerBacked'
  BY DEF FlowInv, FlowTypeOK, Requests, Grants, Endpoints, AnswerBacked, Answered, LoseAnswer
<1>4. ReadyInv'
  BY DEF FlowInv, FlowTypeOK, FlowRecords, ReadyInv, LoseAnswer
<1>5. RefreshInv'
  BY DEF FlowInv, FlowTypeOK, FlowRecords, Requests, Endpoints, Grants, RefreshInv, InFlight, Answered, LoseAnswer
<1>6. LoginInv'
  BY DEF FlowInv, FlowTypeOK, Requests, LoginInv, LoseAnswer
<1> QED
  BY <1>1, <1>2, <1>3, <1>4, <1>5, <1>6 DEF FlowInv

LEMMA RetryFlow ==
  ASSUME FlowInv, UNCHANGED clock, Retry
  PROVE  FlowInv'
<1>0. ~Idle /\ request \in Requests
  BY DEF FlowInv, FlowTypeOK, Retry
<1>b. NoTokens \in Grants /\ "awaited" \in AnswerKinds
  BY DEF Grants, AnswerKinds
<1>c. request' \in Requests
  BY <1>0, <1>b, RequestTyped DEF Retry
<1>d. request'.grant = request.grant
  BY <1>0 DEF Requests, Retry
<1>1. FlowTypeOK'
  BY <1>0, <1>c, <1>d DEF FlowInv, FlowTypeOK, Retry
<1>2. (Backed(flow) /\ Backed(stored))'
  BY DEF FlowInv, FlowTypeOK, FlowRecords, Requests, Grants, Endpoints, Backed, AnswerBacked, Answered, Retry, Retryable
<1>3. AnswerBacked'
  BY DEF FlowInv, FlowTypeOK, Requests, Grants, Endpoints, AnswerBacked, Answered, Retry, Retryable
<1>4. ReadyInv'
  BY DEF FlowInv, FlowTypeOK, FlowRecords, ReadyInv, Retry, Retryable
<1>5. RefreshInv'
  BY DEF FlowInv, FlowTypeOK, FlowRecords, Requests, Endpoints, Grants, RefreshInv, InFlight, Answered, Retry, Retryable
<1>6. LoginInv'
  BY DEF FlowInv, FlowTypeOK, Requests, LoginInv, Retry, Retryable
<1> QED
  BY <1>1, <1>2, <1>3, <1>4, <1>5, <1>6 DEF FlowInv

LEMMA FailFlow ==
  ASSUME FlowInv, UNCHANGED clock, Fail
  PROVE  FlowInv'
<1>1. FlowTypeOK'
  BY DEF FlowInv, FlowTypeOK, FlowRecords, Grants, AnswerKinds, Requests, Endpoints, Fail, GivesUp, Return, Retryable
<1>2. (Backed(flow) /\ Backed(stored))'
  BY DEF FlowInv, FlowTypeOK, FlowRecords, Requests, Grants, Endpoints, Backed, AnswerBacked, Answered, Fail, GivesUp, Return, Retryable
<1>3. AnswerBacked'
  BY DEF FlowInv, FlowTypeOK, Requests, Grants, Endpoints, AnswerBacked, Answered, Fail, GivesUp, Return, Retryable
<1>4. ReadyInv'
  BY DEF FlowInv, FlowTypeOK, FlowRecords, ReadyInv, Fail, GivesUp, Return, Retryable
<1>5. RefreshInv'
  BY DEF FlowInv, FlowTypeOK, FlowRecords, Requests, Endpoints, Grants, RefreshInv, InFlight, Answered, Fail, GivesUp, Return, Retryable
<1>6. LoginInv'
  BY DEF FlowInv, FlowTypeOK, Requests, LoginInv, Fail, GivesUp, Return, Retryable
<1> QED
  BY <1>1, <1>2, <1>3, <1>4, <1>5, <1>6 DEF FlowInv

LEMMA TokenAnswerFlow ==
  ASSUME FlowInv, UNCHANGED clock, TokenAnswer
  PROVE  FlowInv'
<1> DEFINE t == request.tokens
<1>1. PICK f \in update_response(flow, t, request.now) :
        /\ flow' = f
        /\ Return(IF f = flow THEN "FAILED" ELSE "REFRESHED")
        /\ undelivered' = IF f = flow THEN undelivered \/ InFlight ELSE undelivered /\ ~InFlight
  BY DEF TokenAnswer
<1>2. /\ request.answer = "granted" /\ request.grant # "revoke"
      /\ UNCHANGED <<stored, login, code, endpoint, spent>>
      /\ request' = NoRequest
  BY <1>1 DEF TokenAnswer, Return
<1>3. /\ ~Idle /\ request \in Requests /\ endpoint \in Endpoints /\ flow \in FlowRecords
      /\ stored \in FlowRecords /\ undelivered \in BOOLEAN
  BY <1>2 DEF FlowInv, FlowTypeOK
<1>4. /\ t \in Grants /\ request.now \in Nat /\ t.access \in Nat /\ t.refresh \in Nat
      /\ t.expires_in \in Int
  BY <1>3 DEF Requests, Grants
<1>5. InFlight <=> t.refresh # 0
  BY <1>2 DEF InFlight
<1>6. /\ t.access \in 1..Len(endpoint.issued)
      /\ t.expires_in # NoExpiry => /\ t.expires_in \in Nat
                                    /\ request.now + t.expires_in <= endpoint.issued[t.access]
  BY <1>2 DEF FlowInv, AnswerBacked, Answered
<1>7. result'.state \in {"FAILED", "REFRESHED", "none"}
  BY <1>1 DEF Return
<1>8. f = flow \/ f = Updated(flow, t, request.now)
  BY DEF update_response
<1> HIDE DEF t
<1>9. f \in FlowRecords /\ Backed(f)
  <2>1. CASE f = flow
    BY <1>3, <2>1 DEF FlowInv
  <2>2. CASE f = Updated(flow, t, request.now)
    <3> DEFINE refresh == IF t.refresh # 0 THEN t.refresh ELSE flow.refresh
               expires == IF t.expires_in # NoExpiry THEN request.now + t.expires_in ELSE NoExpiry
    <3>1. refresh \in Nat /\ expires \in Int
      BY <1>3, <1>4 DEF FlowRecords
    <3>2. expires # NoExpiry => expires <= endpoint.issued[t.access]
      BY <1>6
    <3>3. f = [access |-> t.access, refresh |-> refresh, expires |-> expires]
      BY <2>2 DEF Updated
    <3> HIDE DEF refresh, expires
    <3>4. t.access <= Len(endpoint.issued)
      BY <1>6
    <3>5. f.access = t.access /\ f.expires = expires
      BY <3>3
    <3>6. Backed(f)
      BY <3>2, <3>4, <3>5 DEF Backed
    <3>7. f \in FlowRecords
      BY <1>4, <3>1, <3>3 DEF FlowRecords
    <3> QED
      BY <3>6, <3>7
  <2> QED
    BY <1>8, <2>1, <2>2
<1>10. FlowTypeOK'
  <2>1. undelivered' \in BOOLEAN
    BY <1>1, <1>3 DEF InFlight
  <2> QED
    BY <1>1, <1>2, <1>9, <2>1 DEF FlowInv, FlowTypeOK
<1>11. (Backed(flow) /\ Backed(stored))'
  BY <1>1, <1>2, <1>9 DEF FlowInv, Backed
<1>12. AnswerBacked'
  BY <1>2 DEF AnswerBacked, Answered
<1>13. ReadyInv'
  BY <1>7 DEF ReadyInv
<1>14. RefreshInv'
  <2>1. ~InFlight /\ ~undelivered => flow.refresh = endpoint.refresh
    BY DEF FlowInv, RefreshInv
  <2>2. InFlight => endpoint.refresh = t.refresh
    BY <1>2, <1>5 DEF FlowInv, RefreshInv, Answered, t
  <2>3. ~undelivered' => flow'.refresh = endpoint.refresh
    <3>1. CASE f = flow
      BY <1>1, <2>1, <3>1
    <3>2. CASE f # flow
      <4>1. f.refresh = IF t.refresh # 0 THEN t.refresh ELSE flow.refresh
        BY <1>8, <3>2 DEF Updated
      <4>2. CASE InFlight
        BY <1>1, <1>5, <2>2, <4>1, <4>2
      <4>3. CASE ~InFlight
        BY <1>1, <1>5, <2>1, <3>2, <4>1, <4>3
      <4> QED
        BY <4>2, <4>3
    <3> QED
      BY <3>1, <3>2
  <2> QED
    BY <1>2, <2>3 DEF RefreshInv, InFlight, Answered
<1>15. LoginInv'
  BY <1>2 DEF FlowInv, LoginInv
<1> QED
  BY <1>10, <1>11, <1>12, <1>13, <1>14, <1>15 DEF FlowInv

LEMMA RevocationAnswerFlow ==
  ASSUME FlowInv, UNCHANGED clock, RevocationAnswer
  PROVE  FlowInv'
<1>1. FlowTypeOK'
  BY DEF FlowInv, FlowTypeOK, FlowRecords, Grants, AnswerKinds, Requests, Endpoints, RevocationAnswer, Return
<1>2. (Backed(flow) /\ Backed(stored))'
  BY DEF FlowInv, FlowTypeOK, FlowRecords, Requests, Grants, Endpoints, Backed, AnswerBacked, Answered, RevocationAnswer, Return
<1>3. AnswerBacked'
  BY DEF FlowInv, FlowTypeOK, Requests, Grants, Endpoints, AnswerBacked, Answered, RevocationAnswer, Return
<1>4. ReadyInv'
  BY DEF FlowInv, FlowTypeOK, FlowRecords, ReadyInv, RevocationAnswer, Return
<1>5. RefreshInv'
  BY DEF FlowInv, FlowTypeOK, FlowRecords, Requests, Endpoints, Grants, RefreshInv, InFlight, Answered, RevocationAnswer, Return
<1>6. LoginInv'
  BY DEF FlowInv, FlowTypeOK, Requests, LoginInv, RevocationAnswer, Return
<1> QED
  BY <1>1, <1>2, <1>3, <1>4, <1>5, <1>6 DEF FlowInv

\* The clock of a bearer scene, and time itself, change nothing of the flow.
LEMMA TimeFlow ==
  ASSUME FlowInv, UNCHANGED flowVars, clock' \in Nat, clock <= clock'
  PROVE  FlowInv'
BY DEF FlowInv, FlowTypeOK, Backed, AnswerBacked, Answered, ReadyInv, RefreshInv, InFlight,
       LoginInv, flowVars, Requests

LEMMA FlowStep ==
  ASSUME FlowInv, FlowNext
  PROVE  FlowInv'
<1>1. CASE Tick(MaxFlowTime) /\ UNCHANGED flowVars
  BY <1>1, TimeFlow DEF Tick, FlowInv, FlowTypeOK
<1>2. CASE /\ UNCHANGED clock
           /\ \/ BeginLogin \/ RedeemCode \/ ClientCredentials \/ Revoke \/ Store \/ Restart
  BY <1>2, BeginLoginFlow, RedeemCodeFlow, ClientCredentialsFlow, RevokeFlow, StoreFlow, RestartFlow
<1>3. CASE UNCHANGED clock /\ \E s \in 1..login.state : \E q \in Redirects(s) : Callback(q)
  BY <1>3, CallbackFlow
<1>4. CASE /\ UNCHANGED clock
           /\ \E skew \in Skews, noRefresh, noRetry, named \in BOOLEAN :
                Ensure(skew, noRefresh, noRetry, named)
  BY <1>4, EnsureFlow
<1>5. CASE /\ UNCHANGED clock
           /\ \E l \in Lifetimes, says, acceptable \in BOOLEAN : Grant(l, says, acceptable)
  BY <1>5, GrantFlow
<1>6. CASE /\ UNCHANGED clock
           /\ \/ GrantRevocation \/ Refuse \/ LoseAnswer
              \/ Retry \/ Fail \/ TokenAnswer \/ RevocationAnswer
  BY <1>6, GrantRevocationFlow, RefuseFlow, LoseAnswerFlow, RetryFlow, FailFlow, TokenAnswerFlow,
     RevocationAnswerFlow
<1> QED
  BY <1>1, <1>2, <1>3, <1>4, <1>5, <1>6 DEF FlowNext

LEMMA FlowInvTracks == FlowInv => FlowTracksServer
<1> SUFFICES ASSUME FlowInv PROVE FlowTracksServer
  OBVIOUS
<1>1. result.state = "READY" /\ flow.expires # NoExpiry => endpoint.issued[result.token] > result.at
  <2> SUFFICES ASSUME result.state = "READY", flow.expires # NoExpiry
               PROVE  endpoint.issued[flow.access] > result.at
    BY DEF FlowInv, ReadyInv
  <2>1. /\ flow.access \in 1..Len(endpoint.issued) /\ endpoint.issued \in Seq(Nat)
        /\ flow.expires \in Int
    BY DEF FlowInv, FlowTypeOK, FlowRecords, Endpoints, ReadyInv, Backed
  <2>2. endpoint.issued[flow.access] \in Nat
    BY <2>1
  <2> QED
    BY <2>1, <2>2 DEF FlowInv, ReadyInv, Backed
<1>2. Idle /\ ~undelivered => flow.refresh = endpoint.refresh
  BY DEF FlowInv, FlowTypeOK, RefreshInv, InFlight
<1> QED
  BY <1>1, <1>2 DEF FlowInv, Backed, LoginInv, FlowTracksServer

LEMMA FlowInductive ==
  ASSUME FlowInv, [Next]_authVars
  PROVE  FlowInv'
<1>0. clock \in Nat
  BY DEF FlowInv, FlowTypeOK
<1>1. CASE scene = "flow" /\ FlowNext
  BY <1>1, FlowStep
<1>2. CASE scene = "bearer" /\ BearerNext /\ UNCHANGED flowVars
  <2>1. UNCHANGED clock \/ Tick(MaxKeyTime)
    BY <1>2 DEF BearerNext
  <2> QED
    BY <1>0, <1>2, <2>1, TimeFlow DEF Tick
<1>3. CASE UNCHANGED <<clock, flowVars>>
  BY <1>0, <1>3, TimeFlow
<1> QED
  BY <1>1, <1>2, <1>3 DEF Next, authVars

(* lonejson_oauth2_token_flow_ensure and the calls that fill a flow: what   *)
(* the client believes of its tokens is what the token endpoint knows, over *)
(* lost answers, retries, rotation, restarts and late redirects, for any    *)
(* lifetimes, skews, number of retries and length of the run.               *)
THEOREM FlowFollowsServer == Spec => []FlowTracksServer
<1>1. Init => FlowInv
  BY FlowInitial DEF Init
<1>2. FlowInv /\ [Next]_authVars => FlowInv'
  BY FlowInductive
<1> QED
  BY <1>1, <1>2, FlowInvTracks, PTL DEF Spec

(***************************************************************************)
(* Machine credentials.                                                    *)
(***************************************************************************)
AnyClaim == Claims \union {NoClaim}

Pairs == Nat \X Nat

CredentialRecords ==
  [client_id : Nat, revoked : BOOLEAN, claim : AnyClaim, secret_salt : Nat, secret_hash : Pairs,
   api_key_salt : Nat, api_key_hash : Pairs]

SignupRecords ==
  [signup_id : Nat, revoked : BOOLEAN, claim : AnyClaim, secret_salt : Nat, secret_hash : Pairs]

HandedOut ==
  [secrets : [client_id : Nat, client_secret : Nat, api_key : Nat, claim : AnyClaim],
   invitation : Nat]

Invitations == [signup_id : Nat, secret : Nat, claim : AnyClaim]

M2mTypeOK ==
  /\ drawn \in Nat
  /\ store \in [credentials : Seq(CredentialRecords), signups : Seq(SignupRecords)]
  /\ issued \subseteq HandedOut
  /\ invited \subseteq Invitations

\* Client identifiers were drawn, once each; an invitation's claim is kept.
IssuedInv ==
  /\ \A c \in issued : c.secrets.client_id \in 1..drawn
  /\ \A c, d \in issued : c.secrets.client_id = d.secrets.client_id => c = d
  /\ \A c \in issued : c.invitation # NoSecret =>
       \E v \in invited : v.secret = c.invitation /\ v.claim = c.secrets.claim

\* A record in the store tells of the credential it was made with.
Describes(r, c) ==
  /\ r.client_id = c.secrets.client_id /\ r.claim = c.secrets.claim
  /\ r.secret_hash = Digest(r.secret_salt, c.secrets.client_secret)
  /\ r.api_key_hash = Digest(r.api_key_salt, c.secrets.api_key)
  /\ c.secrets.client_secret # NoSecret => r.secret_salt # NoSecret
  /\ c.secrets.api_key # NoSecret => r.api_key_salt # NoSecret

RecordsInv ==
  \A i \in DOMAIN store.credentials : \E c \in issued : Describes(store.credentials[i], c)

\* A signup record tells of the invitation it was made with.
Invites(r, v) == r.claim = v.claim /\ r.secret_hash = Digest(r.secret_salt, v.secret)

SignupsInv ==
  \A i \in DOMAIN store.signups : \E v \in invited : Invites(store.signups[i], v)

\* The second half of M2mExact: the last verification was exact.
VerifiedExactly ==
  auth.done =>
    LET allowed == IF auth.modes = {} THEN AuthModes ELSE auth.modes
    IN /\ auth.failure = "NONE" =>
            /\ auth.mode \in allowed
            /\ \E c \in Honoured(auth.header, auth.mode) :
                 auth.client_id = c.secrets.client_id /\ auth.claim = c.secrets.claim
       /\ auth.failure \in {"INVALID_SIGNATURE", "MISSING_CREDENTIALS"} /\ ~auth.starved =>
            \A mode \in allowed : Honoured(auth.header, mode) = {}

M2mInv ==
  /\ M2mTypeOK
  /\ IssuedInv
  /\ RecordsInv
  /\ SignupsInv
  /\ VerifiedExactly

LEMMA M2mInitial == M2mInit => M2mInv
BY DEF M2mInit, M2mInv, M2mTypeOK, IssuedInv, RecordsInv, SignupsInv, VerifiedExactly, NoAuth

LEMMA M2mStutter ==
  ASSUME M2mInv, UNCHANGED m2mVars
  PROVE  M2mInv'
BY DEF m2mVars, M2mInv, M2mTypeOK, IssuedInv, RecordsInv, SignupsInv, VerifiedExactly, Honoured

\* The first of the records that fit is one of them.
LEMMA MinIsMember ==
  ASSUME NEW S \in SUBSET Nat, S # {}
  PROVE  Min(S) \in S
<1> DEFINE R == OpToRel(<, Nat)
<1>1. \E x \in S : \A y \in S : ~(<<y, x>> \in R)
  <2>1. IsWellFoundedOn(R, Nat)
    BY NatLessThanWellFounded
  <2> HIDE DEF R
  <2> QED
    BY <2>1, WFMin
<1>2. \A x, y \in Nat : y < x => <<y, x>> \in R
  BY DEF OpToRel
<1>3. \E x \in S : \A y \in S : x <= y
  <2> HIDE DEF R
  <2>1. PICK x \in S : \A y \in S : ~(<<y, x>> \in R)
    BY <1>1
  <2>2. ASSUME NEW y \in S PROVE x <= y
    <3>1. ~(<<y, x>> \in R) /\ x \in Nat /\ y \in Nat
      BY <2>1
    <3>2. ~(y < x)
      BY <1>2, <3>1
    <3> QED
      BY <3>1, <3>2
  <2> QED
    BY <2>2
<1> QED
  BY <1>3 DEF Min

----------------------------------------------------------------------------
\* Which random values are drawn, and where.
DrawNames == {"client_id", "client_secret", "api_key", "secret_salt", "api_key_salt"}

LEMMA ContainsConcat ==
  ASSUME NEW s \in Seq(DrawNames), NEW t \in Seq(DrawNames), NEW e
  PROVE  /\ s \o t \in Seq(DrawNames)
         /\ Contains(s \o t, e) <=> Contains(s, e) \/ Contains(t, e)
<1>1. /\ s \o t \in Seq(DrawNames) /\ Len(s \o t) = Len(s) + Len(t)
      /\ Len(s) \in Nat /\ Len(t) \in Nat
      /\ \A i \in 1..Len(s) : (s \o t)[i] = s[i]
      /\ \A i \in 1..Len(t) : (s \o t)[Len(s) + i] = t[i]
  BY ConcatProperties
<1>2. ASSUME NEW i \in 1..Len(s \o t), (s \o t)[i] = e
      PROVE  Contains(s, e) \/ Contains(t, e)
  <2>1. CASE i <= Len(s)
    BY <1>1, <1>2, <2>1 DEF Contains
  <2>2. CASE i > Len(s)
    <3>1. i - Len(s) \in 1..Len(t) /\ i = Len(s) + (i - Len(s))
      BY <1>1, <2>2
    <3>2. t[i - Len(s)] = e
      BY <1>1, <1>2, <3>1
    <3> QED
      BY <3>1, <3>2 DEF Contains
  <2> QED
    BY <1>1, <2>1, <2>2
<1>3. ASSUME NEW i \in 1..Len(s), s[i] = e
      PROVE  Contains(s \o t, e)
  BY <1>1, <1>3 DEF Contains
<1>4. ASSUME NEW i \in 1..Len(t), t[i] = e
      PROVE  Contains(s \o t, e)
  <2>1. Len(s) + i \in 1..Len(s \o t) /\ (s \o t)[Len(s) + i] = e
    BY <1>1, <1>4
  <2> QED
    BY <2>1 DEF Contains
<1>5. Contains(s \o t, e) => Contains(s, e) \/ Contains(t, e)
  BY <1>2 DEF Contains
<1>6. Contains(s, e) \/ Contains(t, e) => Contains(s \o t, e)
  BY <1>3, <1>4 DEF Contains
<1> QED
  BY <1>1, <1>5, <1>6

\* The sequence of x alone, and none at all.
Single(x) ==
  /\ <<x>> \in Seq(DrawNames)
  /\ \A e : Contains(<<x>>, e) <=> e = x

None ==
  /\ <<>> \in Seq(DrawNames)
  /\ \A e : ~Contains(<<>>, e)

LEMMA ContainsNone == None
<1>1. <<>> \in Seq(DrawNames) /\ 1..Len(<<>>) = {}
  OBVIOUS
<1> QED
  BY <1>1 DEF None, Contains

LEMMA ContainsSingle ==
  ASSUME NEW x \in DrawNames
  PROVE  Single(x)
<1>1. Len(<<x>>) = 1
  OBVIOUS
<1>2. <<x>>[1] = x
  OBVIOUS
<1>3. <<x>> \in Seq(DrawNames)
  OBVIOUS
<1>4. ASSUME NEW e PROVE Contains(<<x>>, e) <=> e = x
  <2> DEFINE t == <<x>>
  <2> HIDE DEF t
  <2>1. Contains(t, e) <=> \E i \in 1..1 : t[i] = e
    BY <1>1 DEF Contains, t
  <2>2. 1 \in 1..1 /\ \A i \in 1..1 : i = 1
    OBVIOUS
  <2>3. t[1] = x
    BY <1>2 DEF t
  <2>4. Contains(t, e) <=> e = x
    BY <2>1, <2>2, <2>3
  <2> QED
    BY <2>4 DEF t
<1> QED
  BY <1>3, <1>4 DEF Single

LEMMA DrawsHave ==
  ASSUME NEW modes
  PROVE  /\ Draws(modes) \in Seq(DrawNames)
         /\ Contains(Draws(modes), "client_id")
         /\ Contains(Draws(modes), "client_secret") => Contains(Draws(modes), "secret_salt")
         /\ Contains(Draws(modes), "api_key") => Contains(Draws(modes), "api_key_salt")
<1> DEFINE a == <<"client_id">>
           b == IF "BASIC" \in modes THEN <<"client_secret">> ELSE <<>>
           c == IF "BEARER" \in modes THEN <<"api_key">> ELSE <<>>
           d == IF "BASIC" \in modes THEN <<"secret_salt">> ELSE <<>>
           k == IF "BEARER" \in modes THEN <<"api_key_salt">> ELSE <<>>
<1>0. Draws(modes) = a \o b \o c \o d \o k
  BY DEF Draws
<1>1. a \in Seq(DrawNames) /\ \A e : Contains(a, e) <=> e = "client_id"
  <2>1. Single("client_id") /\ None
    BY ContainsSingle, ContainsNone DEF DrawNames
  <2> QED
    BY <2>1 DEF Single, None
<1>2. b \in Seq(DrawNames) /\ \A e : Contains(b, e) <=> "BASIC" \in modes /\ e = "client_secret"
  <2>1. Single("client_secret") /\ None
    BY ContainsSingle, ContainsNone DEF DrawNames
  <2> QED
    BY <2>1 DEF Single, None
<1>3. c \in Seq(DrawNames) /\ \A e : Contains(c, e) <=> "BEARER" \in modes /\ e = "api_key"
  <2>1. Single("api_key") /\ None
    BY ContainsSingle, ContainsNone DEF DrawNames
  <2> QED
    BY <2>1 DEF Single, None
<1>4. d \in Seq(DrawNames) /\ \A e : Contains(d, e) <=> "BASIC" \in modes /\ e = "secret_salt"
  <2>1. Single("secret_salt") /\ None
    BY ContainsSingle, ContainsNone DEF DrawNames
  <2> QED
    BY <2>1 DEF Single, None
<1>5. k \in Seq(DrawNames) /\ \A e : Contains(k, e) <=> "BEARER" \in modes /\ e = "api_key_salt"
  <2>1. Single("api_key_salt") /\ None
    BY ContainsSingle, ContainsNone DEF DrawNames
  <2> QED
    BY <2>1 DEF Single, None
<1> HIDE DEF a, b, c, d, k
<1>6. a \o b \in Seq(DrawNames) /\ \A e : Contains(a \o b, e) <=> Contains(a, e) \/ Contains(b, e)
  BY <1>1, <1>2, ContainsConcat
<1>7. /\ a \o b \o c \in Seq(DrawNames)
      /\ \A e : Contains(a \o b \o c, e) <=> Contains(a \o b, e) \/ Contains(c, e)
  BY <1>6, <1>3, ContainsConcat
<1>8. /\ a \o b \o c \o d \in Seq(DrawNames)
      /\ \A e : Contains(a \o b \o c \o d, e) <=> Contains(a \o b \o c, e) \/ Contains(d, e)
  BY <1>7, <1>4, ContainsConcat
<1>9. /\ a \o b \o c \o d \o k \in Seq(DrawNames)
      /\ \A e : Contains(a \o b \o c \o d \o k, e)
                  <=> Contains(a \o b \o c \o d, e) \/ Contains(k, e)
  BY <1>8, <1>5, ContainsConcat
<1> DEFINE all == a \o b \o c \o d \o k
<1>10. \A e : Contains(all, e) <=> \/ Contains(a, e) \/ Contains(b, e) \/ Contains(c, e)
                                   \/ Contains(d, e) \/ Contains(k, e)
  BY <1>6, <1>7, <1>8, <1>9
<1> HIDE DEF all
<1>11. Contains(all, "client_id")
  BY <1>1, <1>10
<1>12. Contains(all, "client_secret") => Contains(all, "secret_salt")
  <2>1. Contains(all, "client_secret") => "BASIC" \in modes
    <3>1. ~Contains(a, "client_secret")
      BY <1>1
    <3>2. Contains(b, "client_secret") => "BASIC" \in modes
      BY <1>2
    <3>3. Contains(c, "client_secret") => "BASIC" \in modes
      BY <1>3
    <3>4. ~Contains(d, "client_secret") /\ ~Contains(k, "client_secret")
      BY <1>4, <1>5
    <3> QED
      BY <1>10, <3>1, <3>2, <3>3, <3>4
  <2>2. "BASIC" \in modes => Contains(d, "secret_salt")
    BY <1>4
  <2> QED
    BY <1>10, <2>1, <2>2
<1>13. Contains(all, "api_key") => Contains(all, "api_key_salt")
  <2>1. Contains(all, "api_key") => "BEARER" \in modes
    <3>1. ~Contains(a, "api_key")
      BY <1>1
    <3>2. Contains(b, "api_key") => "BEARER" \in modes
      BY <1>2
    <3>3. Contains(c, "api_key") => "BEARER" \in modes
      BY <1>3
    <3>4. ~Contains(d, "api_key") /\ ~Contains(k, "api_key")
      BY <1>4, <1>5
    <3> QED
      BY <1>10, <3>1, <3>2, <3>3, <3>4
  <2>2. "BEARER" \in modes => Contains(k, "api_key_salt")
    BY <1>5
  <2> QED
    BY <1>10, <2>1, <2>2
<1> QED
  BY <1>0, <1>9, <1>11, <1>12, <1>13 DEF all

\* What is drawn for a name is a new number, or nothing.
LEMMA DrawnValues ==
  ASSUME drawn \in Nat, NEW modes, NEW name
  PROVE  /\ Drawn(modes, name) \in Nat
         /\ Contains(Draws(modes), name) =>
              Drawn(modes, name) \in (drawn + 1)..(drawn + Len(Draws(modes)))
         /\ ~Contains(Draws(modes), name) => Drawn(modes, name) = NoSecret
<1>1. Draws(modes) \in Seq(DrawNames)
  BY DrawsHave
<1>2. CASE Contains(Draws(modes), name)
  <2> DEFINE i == CHOOSE i \in DOMAIN Draws(modes) : Draws(modes)[i] = name
  <2>1. i \in DOMAIN Draws(modes)
    BY <1>1, <1>2 DEF Contains
  <2>2. i \in 1..Len(Draws(modes)) /\ Len(Draws(modes)) \in Nat
    BY <1>1, <2>1
  <2>3. Drawn(modes, name) = drawn + i
    BY <1>2 DEF Drawn
  <2> HIDE DEF i
  <2> QED
    BY <1>2, <2>2, <2>3
<1>3. CASE ~Contains(Draws(modes), name)
  BY <1>3 DEF Drawn, NoSecret
<1> QED
  BY <1>2, <1>3

\* A new credential and its record.
Credential(modes, claim, invitation) ==
  [secrets |-> Secrets(modes, claim), invitation |-> invitation]

NewPair(c, r, n, claim, invitation) ==
  /\ c \in HandedOut /\ r \in CredentialRecords /\ Describes(r, c)
  /\ c.secrets.client_id \in (drawn + 1)..(drawn + n)
  /\ c.secrets.claim = claim /\ c.invitation = invitation

LEMMA NewCredential ==
  ASSUME drawn \in Nat, NEW modes, NEW claim \in AnyClaim, NEW invitation \in Nat
  PROVE  NewPair(Credential(modes, claim, invitation), build_record_json(modes, claim),
                 Len(Draws(modes)), claim, invitation)
<1> DEFINE id == Drawn(modes, "client_id")
           secret == Drawn(modes, "client_secret")
           key == Drawn(modes, "api_key")
           salt == Drawn(modes, "secret_salt")
           keySalt == Drawn(modes, "api_key_salt")
           c == Credential(modes, claim, invitation)
           r == build_record_json(modes, claim)
<1>1. id \in Nat /\ secret \in Nat /\ key \in Nat /\ salt \in Nat /\ keySalt \in Nat
  BY DrawnValues
<1>2. id \in (drawn + 1)..(drawn + Len(Draws(modes)))
  BY DrawnValues, DrawsHave
<1>3. secret # NoSecret => salt # NoSecret
  <2>1. secret # NoSecret => Contains(Draws(modes), "secret_salt")
    BY DrawnValues, DrawsHave
  <2>2. Contains(Draws(modes), "secret_salt") => salt \in (drawn + 1)..(drawn + Len(Draws(modes)))
    BY DrawnValues
  <2> QED
    BY <1>1, <2>1, <2>2 DEF NoSecret
<1>4. key # NoSecret => keySalt # NoSecret
  <2>1. key # NoSecret => Contains(Draws(modes), "api_key_salt")
    BY DrawnValues, DrawsHave
  <2>2. Contains(Draws(modes), "api_key_salt") => keySalt \in (drawn + 1)..(drawn + Len(Draws(modes)))
    BY DrawnValues
  <2> QED
    BY <1>1, <2>1, <2>2 DEF NoSecret
<1>5. c = [secrets |-> [client_id |-> id, client_secret |-> secret, api_key |-> key,
                        claim |-> claim],
           invitation |-> invitation]
  BY DEF Credential, Secrets
<1>6. r = [client_id |-> id, revoked |-> FALSE, claim |-> claim, secret_salt |-> salt,
           secret_hash |-> <<salt, secret>>, api_key_salt |-> keySalt,
           api_key_hash |-> <<keySalt, key>>]
  BY DEF build_record_json, Secrets, Digest
<1> HIDE DEF id, secret, key, salt, keySalt, c, r
<1>7. c \in HandedOut
  BY <1>1, <1>5 DEF HandedOut
<1>8. r \in CredentialRecords
  BY <1>1, <1>6 DEF CredentialRecords, Pairs
<1>9. /\ c.secrets.client_id = id /\ c.secrets.client_secret = secret /\ c.secrets.api_key = key
      /\ c.secrets.claim = claim /\ c.invitation = invitation
  BY <1>5
<1>10. /\ r.client_id = id /\ r.claim = claim /\ r.secret_salt = salt
       /\ r.secret_hash = <<salt, secret>> /\ r.api_key_salt = keySalt
       /\ r.api_key_hash = <<keySalt, key>>
  BY <1>6
<1>11. Describes(r, c)
  BY <1>3, <1>4, <1>9, <1>10 DEF Describes, Digest
<1> QED
  BY <1>2, <1>7, <1>8, <1>9, <1>11 DEF NewPair, c, r

LEMMA HandM2m ==
  ASSUME M2mInv, ~auth.done, NEW modes, NEW claim \in AnyClaim, NEW invitation \in Nat,
         invitation # NoSecret => \E v \in invited : v.secret = invitation /\ v.claim = claim,
         Hand(modes, claim, invitation), UNCHANGED <<invited, auth>>
  PROVE  M2mInv'
<1> DEFINE c == Credential(modes, claim, invitation)
           r == build_record_json(modes, claim)
           n == Len(Draws(modes))
<1>1. /\ drawn \in Nat /\ issued \subseteq HandedOut /\ invited \subseteq Invitations
      /\ store \in [credentials : Seq(CredentialRecords), signups : Seq(SignupRecords)]
  BY DEF M2mInv, M2mTypeOK
<1>2. n \in Nat
  BY DrawsHave
<1>3. /\ c \in HandedOut /\ r \in CredentialRecords /\ Describes(r, c)
      /\ c.secrets.client_id \in (drawn + 1)..(drawn + n)
      /\ c.secrets.claim = claim /\ c.invitation = invitation
  <2>1. NewPair(c, r, n, claim, invitation)
    BY <1>1, NewCredential
  <2> HIDE DEF c, r, n
  <2> QED
    BY <2>1 DEF NewPair
<1>4. issued' = issued \union {c} /\ drawn' = drawn + n
  BY DEF Hand, Credential
<1>5. \/ UNCHANGED store
      \/ store' = [store EXCEPT !.credentials = Append(@, r)]
  BY DEF Hand
<1> HIDE DEF c, r, n
<1>6. store' \in [credentials : Seq(CredentialRecords), signups : Seq(SignupRecords)]
  <2>1. Append(store.credentials, r) \in Seq(CredentialRecords)
    BY <1>1, <1>3
  <2> DEFINE t == Append(store.credentials, r)
  <2>2. UNCHANGED store \/ store' = [store EXCEPT !.credentials = t]
    BY <1>5
  <2> HIDE DEF t
  <2>3. t \in Seq(CredentialRecords)
    BY <2>1 DEF t
  <2> QED
    BY <1>1, <2>2, <2>3
<1>7. M2mTypeOK'
  BY <1>1, <1>2, <1>3, <1>4, <1>6 DEF M2mTypeOK
<1>8. IssuedInv'
  <2>1. \A d \in issued' : d = c \/ d \in issued
    BY <1>4
  <2>2. \A d \in issued : d.secrets.client_id \in 1..drawn
    BY DEF M2mInv, IssuedInv
  <2>3. \A d \in issued' : d.secrets.client_id \in 1..drawn'
    BY <1>1, <1>2, <1>3, <1>4, <2>1, <2>2
  <2>4. \A d \in issued : d.secrets.client_id # c.secrets.client_id
    BY <1>1, <1>3, <2>2
  <2>5. \A d, e \in issued' : d.secrets.client_id = e.secrets.client_id => d = e
    BY <2>1, <2>4 DEF M2mInv, IssuedInv
  <2>6. \A d \in issued' : d.invitation # NoSecret =>
           \E v \in invited' : v.secret = d.invitation /\ v.claim = d.secrets.claim
    BY <1>3, <2>1 DEF M2mInv, IssuedInv
  <2> QED
    BY <2>3, <2>5, <2>6 DEF IssuedInv
<1>9. RecordsInv'
  <2>1. CASE UNCHANGED store
    BY <1>4, <2>1 DEF M2mInv, RecordsInv
  <2>2. CASE store' = [store EXCEPT !.credentials = Append(@, r)]
    <3> DEFINE old == store.credentials
    <3>1. old \in Seq(CredentialRecords) /\ store'.credentials = Append(old, r)
      BY <1>1, <2>2
    <3>2. SUFFICES ASSUME NEW i \in DOMAIN Append(old, r)
                   PROVE  \E d \in issued' : Describes(Append(old, r)[i], d)
      BY <3>1 DEF RecordsInv
    <3>3. CASE i = Len(old) + 1
      <4>1. Append(old, r)[i] = r
        BY <1>3, <3>1, <3>3
      <4> QED
        BY <1>3, <1>4, <4>1
    <3>4. CASE i # Len(old) + 1
      <4>1. i \in DOMAIN old /\ Append(old, r)[i] = old[i]
        BY <1>3, <3>1, <3>4
      <4> QED
        BY <1>4, <4>1 DEF M2mInv, RecordsInv
    <3> QED
      BY <3>3, <3>4
  <2> QED
    BY <1>5, <2>1, <2>2
<1>10. SignupsInv'
  <2>1. store'.signups = store.signups
    BY <1>1, <1>5
  <2> QED
    BY <2>1 DEF M2mInv, SignupsInv
<1>11. VerifiedExactly'
  BY DEF VerifiedExactly
<1> QED
  BY <1>7, <1>8, <1>9, <1>10, <1>11 DEF M2mInv

LEMMA CredentialGenerateM2m ==
  ASSUME M2mInv, ~auth.done, NEW modes \in SUBSET AuthModes, NEW claim \in AnyClaim,
         credential_generate(modes, claim)
  PROVE  M2mInv'
<1>1. Hand(modes_or_default(modes), claim, NoSecret) /\ UNCHANGED <<invited, auth>>
  BY DEF credential_generate
<1>2. NoSecret \in Nat
  BY DEF NoSecret
<1> QED
  BY <1>1, <1>2, HandM2m

LEMMA SignupCompleteM2m ==
  ASSUME M2mInv, ~auth.done, NEW id, NEW secret \in Nat, NEW modes \in SUBSET AuthModes,
         signup_complete(id, secret, modes)
  PROVE  M2mInv'
<1> DEFINE fits == {i \in DOMAIN store.signups : SignupFits(store.signups[i], id, secret)}
           k == Min(fits)
           r == store.signups[k]
<1>1. /\ fits # {}
      /\ Hand(modes_or_default(modes), r.claim, secret)
      /\ UNCHANGED <<invited, auth>>
  BY DEF signup_complete
<1>2. store.signups \in Seq(SignupRecords)
  BY DEF M2mInv, M2mTypeOK
<1>3. fits \in SUBSET Nat
  BY <1>2
<1>4. k \in fits
  <2> HIDE DEF fits
  <2> QED
    BY <1>1, <1>3, MinIsMember
<1>5. k \in DOMAIN store.signups /\ SignupFits(r, id, secret)
  BY <1>4
<1> HIDE DEF fits, k
<1>6. r \in SignupRecords
  BY <1>2, <1>5
<1>7. r.claim \in AnyClaim /\ r.secret_salt \in Nat
  BY <1>6 DEF SignupRecords
<1>8. PICK v \in invited : Invites(r, v)
  BY <1>5 DEF M2mInv, SignupsInv
<1>9. r.secret_hash = <<r.secret_salt, secret>> /\ r.secret_hash = <<r.secret_salt, v.secret>>
  BY <1>5, <1>8 DEF SignupFits, verify_hash, Invites, Digest
<1>10. v.secret = secret /\ v.claim = r.claim
  BY <1>8, <1>9 DEF Invites
<1>11. \E w \in invited : w.secret = secret /\ w.claim = r.claim
  BY <1>10
<1> HIDE DEF r
<1> QED
  BY <1>1, <1>7, <1>11, HandM2m

LEMMA SignupGenerateM2m ==
  ASSUME M2mInv, ~auth.done, NEW claim \in AnyClaim, signup_generate(claim)
  PROVE  M2mInv'
<1> DEFINE v == [signup_id |-> drawn + 1, secret |-> drawn + 2, claim |-> claim]
           r == [signup_id |-> drawn + 1, revoked |-> FALSE, claim |-> claim,
                 secret_salt |-> drawn + 3, secret_hash |-> Digest(drawn + 3, drawn + 2)]
<1>1. /\ drawn \in Nat /\ issued \subseteq HandedOut /\ invited \subseteq Invitations
      /\ store \in [credentials : Seq(CredentialRecords), signups : Seq(SignupRecords)]
  BY DEF M2mInv, M2mTypeOK
<1>2. drawn + 1 \in Nat /\ drawn + 2 \in Nat /\ drawn + 3 \in Nat
  BY <1>1
<1>3. v \in Invitations
  BY <1>2 DEF Invitations
<1>4. r \in SignupRecords
  BY <1>2 DEF SignupRecords, Digest, Pairs
<1>5. Invites(r, v)
  BY DEF Invites
<1>6. /\ drawn' = drawn + 3 /\ invited' = invited \union {v}
      /\ store' = [store EXCEPT !.signups = Append(@, r)]
      /\ UNCHANGED <<issued, auth>>
  BY DEF signup_generate
<1> HIDE DEF v, r
<1>7. store' \in [credentials : Seq(CredentialRecords), signups : Seq(SignupRecords)]
  <2>1. Append(store.signups, r) \in Seq(SignupRecords)
    BY <1>1, <1>4
  <2> DEFINE t == Append(store.signups, r)
  <2>2. store' = [store EXCEPT !.signups = t]
    BY <1>6
  <2> HIDE DEF t
  <2>3. t \in Seq(SignupRecords)
    BY <2>1 DEF t
  <2> QED
    BY <1>1, <2>2, <2>3
<1>8. M2mTypeOK'
  BY <1>1, <1>2, <1>3, <1>6, <1>7 DEF M2mTypeOK
<1>9. IssuedInv'
  <2>1. \A c \in issued : c.secrets.client_id \in 1..drawn'
    BY <1>1, <1>6 DEF M2mInv, IssuedInv
  <2> QED
    BY <1>6, <2>1 DEF M2mInv, IssuedInv
<1>10. RecordsInv'
  <2>1. store'.credentials = store.credentials
    BY <1>1, <1>6
  <2> QED
    BY <1>6, <2>1 DEF M2mInv, RecordsInv
<1>11. SignupsInv'
  <2> DEFINE old == store.signups
  <2>1. old \in Seq(SignupRecords) /\ store'.signups = Append(old, r)
    BY <1>1, <1>6
  <2>2. SUFFICES ASSUME NEW i \in DOMAIN Append(old, r)
                 PROVE  \E w \in invited' : Invites(Append(old, r)[i], w)
    BY <2>1 DEF SignupsInv
  <2>3. CASE i = Len(old) + 1
    <3>1. Append(old, r)[i] = r
      BY <1>4, <2>1, <2>3
    <3> QED
      BY <1>5, <1>6, <3>1
  <2>4. CASE i # Len(old) + 1
    <3>1. i \in DOMAIN old /\ Append(old, r)[i] = old[i]
      BY <1>4, <2>1, <2>4
    <3> QED
      BY <1>6, <3>1 DEF M2mInv, SignupsInv
  <2> QED
    BY <2>3, <2>4
<1>12. VerifiedExactly'
  BY <1>6 DEF VerifiedExactly
<1> QED
  BY <1>8, <1>9, <1>10, <1>11, <1>12 DEF M2mInv

\* Removing an element of a sequence brings in no other.
LEMMA RemoveAtElements ==
  ASSUME NEW S, NEW s \in Seq(S), NEW i \in DOMAIN s
  PROVE  /\ RemoveAt(s, i) \in Seq(S)
         /\ \A j \in DOMAIN RemoveAt(s, i) : \E k \in DOMAIN s : RemoveAt(s, i)[j] = s[k]
<1> DEFINE n == Len(s)
           a == SubSeq(s, 1, i - 1)
           b == SubSeq(s, i + 1, n)
<1>1. i \in 1..n /\ n \in Nat /\ DOMAIN s = 1..n
  OBVIOUS
<1>2. a \in Seq(S) /\ Len(a) = i - 1 /\ \A j \in 1..(i - 1) : a[j] = s[j]
  BY <1>1
<1>3. b \in Seq(S) /\ Len(b) = n - i /\ \A j \in 1..(n - i) : b[j] = s[i + j]
  <2>1. CASE i < n
    <3>1. /\ b \in Seq(S) /\ Len(b) = n - (i + 1) + 1
          /\ \A j \in 1..(n - (i + 1) + 1) : b[j] = s[(i + 1) + j - 1]
      BY <1>1, <2>1, SubSeqProperties
    <3> QED
      BY <1>1, <3>1
  <2>2. CASE i = n
    BY <1>1, <2>2
  <2> QED
    BY <1>1, <2>1, <2>2
<1> HIDE DEF a, b, n
<1>a. /\ a \o b \in Seq(S) /\ Len(a \o b) = Len(a) + Len(b)
      /\ \A j \in 1..Len(a) : (a \o b)[j] = a[j]
      /\ \A j \in 1..Len(b) : (a \o b)[Len(a) + j] = b[j]
  <2>1. a \in Seq(S) /\ b \in Seq(S)
    BY <1>2, <1>3
  <2> QED
    BY <2>1, ConcatProperties
<1>4. /\ a \o b \in Seq(S) /\ Len(a \o b) = (i - 1) + (n - i)
      /\ \A j \in 1..(i - 1) : (a \o b)[j] = a[j]
      /\ \A j \in 1..(n - i) : (a \o b)[(i - 1) + j] = b[j]
  BY <1>a, <1>2, <1>3
<1>5. ASSUME NEW j \in 1..((i - 1) + (n - i)) PROVE \E k \in DOMAIN s : (a \o b)[j] = s[k]
  <2>1. CASE j < i
    <3>1. j \in 1..(i - 1) /\ j \in DOMAIN s
      BY <1>1, <2>1
    <3>2. (a \o b)[j] = s[j]
      BY <1>2, <1>4, <3>1
    <3> QED
      BY <3>1, <3>2
  <2>2. CASE ~(j < i)
    <3>1. j - (i - 1) \in 1..(n - i) /\ j = (i - 1) + (j - (i - 1))
      BY <1>1, <2>2
    <3>2. (a \o b)[j] = b[j - (i - 1)]
      BY <1>2, <1>3, <1>4, <3>1
    <3>3. b[j - (i - 1)] = s[i + (j - (i - 1))] /\ i + (j - (i - 1)) \in DOMAIN s
      BY <1>1, <1>3, <3>1
    <3> QED
      BY <3>2, <3>3
  <2> QED
    BY <2>1, <2>2
<1>6. RemoveAt(s, i) = a \o b
  BY DEF RemoveAt, a, b, n
<1>7. DOMAIN (a \o b) = 1..((i - 1) + (n - i))
  BY <1>4
<1> QED
  BY <1>4, <1>5, <1>6, <1>7

LEMMA RevokeCredentialM2m ==
  ASSUME M2mInv, ~auth.done, NEW i \in DOMAIN store.credentials, RevokeCredential(i)
  PROVE  M2mInv'
<1> DEFINE old == store.credentials
           new == [old EXCEPT ![i].revoked = TRUE]
           r == [old[i] EXCEPT !.revoked = TRUE]
<1>1. /\ store \in [credentials : Seq(CredentialRecords), signups : Seq(SignupRecords)]
      /\ old \in Seq(CredentialRecords)
  BY DEF M2mInv, M2mTypeOK
<1>2. store' = [store EXCEPT !.credentials = new] /\ UNCHANGED <<drawn, issued, invited, auth>>
  BY DEF RevokeCredential
<1>3. old[i] \in CredentialRecords
  BY <1>1
<1>4. r \in CredentialRecords
  BY <1>3 DEF CredentialRecords
<1>5. \A c : Describes(old[i], c) => Describes(r, c)
  BY <1>3 DEF CredentialRecords, Describes
<1>6. /\ new \in Seq(CredentialRecords) /\ DOMAIN new = DOMAIN old
      /\ \A j \in DOMAIN old : new[j] = IF j = i THEN r ELSE old[j]
  <2>1. new = [old EXCEPT ![i] = r]
    OBVIOUS
  <2>2. i \in 1..Len(old) /\ DOMAIN old = 1..Len(old)
    BY <1>1
  <2> HIDE DEF new, r, old
  <2>3. new \in Seq(CredentialRecords)
    BY <1>1, <1>4, <2>1, <2>2, ExceptSeq
  <2> QED
    BY <1>1, <2>1, <2>2, <2>3
<1> HIDE DEF new, r
<1>7. /\ store' \in [credentials : Seq(CredentialRecords), signups : Seq(SignupRecords)]
      /\ store'.credentials = new /\ store'.signups = store.signups
  BY <1>1, <1>2, <1>6
<1>8. RecordsInv'
  <2> SUFFICES ASSUME NEW j \in DOMAIN new PROVE \E c \in issued : Describes(new[j], c)
    BY <1>2, <1>7 DEF RecordsInv
  <2>1. PICK c \in issued : Describes(old[j], c)
    BY <1>6 DEF M2mInv, RecordsInv
  <2> QED
    BY <1>5, <1>6, <2>1
<1> QED
  BY <1>2, <1>7, <1>8 DEF M2mInv, M2mTypeOK, IssuedInv, SignupsInv, VerifiedExactly

LEMMA RemoveCredentialM2m ==
  ASSUME M2mInv, ~auth.done, NEW i \in DOMAIN store.credentials, RemoveCredential(i)
  PROVE  M2mInv'
<1> DEFINE old == store.credentials
           new == RemoveAt(old, i)
<1>1. /\ store \in [credentials : Seq(CredentialRecords), signups : Seq(SignupRecords)]
      /\ old \in Seq(CredentialRecords)
  BY DEF M2mInv, M2mTypeOK
<1>2. store' = [store EXCEPT !.credentials = new] /\ UNCHANGED <<drawn, issued, invited, auth>>
  BY DEF RemoveCredential
<1>3. new \in Seq(CredentialRecords) /\ \A j \in DOMAIN new : \E k \in DOMAIN old : new[j] = old[k]
  BY <1>1, RemoveAtElements
<1> HIDE DEF new
<1>4. /\ store' \in [credentials : Seq(CredentialRecords), signups : Seq(SignupRecords)]
      /\ store'.credentials = new /\ store'.signups = store.signups
  BY <1>1, <1>2, <1>3
<1>5. RecordsInv'
  <2> SUFFICES ASSUME NEW j \in DOMAIN new PROVE \E c \in issued : Describes(new[j], c)
    BY <1>2, <1>4 DEF RecordsInv
  <2>1. PICK k \in DOMAIN old : new[j] = old[k]
    BY <1>3
  <2> QED
    BY <2>1 DEF M2mInv, RecordsInv
<1> QED
  BY <1>2, <1>4, <1>5 DEF M2mInv, M2mTypeOK, IssuedInv, SignupsInv, VerifiedExactly

LEMMA RevokeSignupM2m ==
  ASSUME M2mInv, ~auth.done, NEW i \in DOMAIN store.signups, RevokeSignup(i)
  PROVE  M2mInv'
<1> DEFINE old == store.signups
           new == [old EXCEPT ![i].revoked = TRUE]
           r == [old[i] EXCEPT !.revoked = TRUE]
<1>1. /\ store \in [credentials : Seq(CredentialRecords), signups : Seq(SignupRecords)]
      /\ old \in Seq(SignupRecords)
  BY DEF M2mInv, M2mTypeOK
<1>2. store' = [store EXCEPT !.signups = new] /\ UNCHANGED <<drawn, issued, invited, auth>>
  BY DEF RevokeSignup
<1>3. old[i] \in SignupRecords
  BY <1>1
<1>4. r \in SignupRecords
  BY <1>3 DEF SignupRecords
<1>5. \A v : Invites(old[i], v) => Invites(r, v)
  BY <1>3 DEF SignupRecords, Invites
<1>6. /\ new \in Seq(SignupRecords) /\ DOMAIN new = DOMAIN old
      /\ \A j \in DOMAIN old : new[j] = IF j = i THEN r ELSE old[j]
  <2>1. new = [old EXCEPT ![i] = r]
    OBVIOUS
  <2>2. i \in 1..Len(old) /\ DOMAIN old = 1..Len(old)
    BY <1>1
  <2> HIDE DEF new, r, old
  <2>3. new \in Seq(SignupRecords)
    BY <1>1, <1>4, <2>1, <2>2, ExceptSeq
  <2> QED
    BY <1>1, <2>1, <2>2, <2>3
<1> HIDE DEF new, r
<1>7. /\ store' \in [credentials : Seq(CredentialRecords), signups : Seq(SignupRecords)]
      /\ store'.signups = new /\ store'.credentials = store.credentials
  BY <1>1, <1>2, <1>6
<1>8. SignupsInv'
  <2> SUFFICES ASSUME NEW j \in DOMAIN new PROVE \E v \in invited : Invites(new[j], v)
    BY <1>2, <1>7 DEF SignupsInv
  <2>1. PICK v \in invited : Invites(old[j], v)
    BY <1>6 DEF M2mInv, SignupsInv
  <2> QED
    BY <1>5, <1>6, <2>1
<1> QED
  BY <1>2, <1>7, <1>8 DEF M2mInv, M2mTypeOK, IssuedInv, RecordsInv, VerifiedExactly

----------------------------------------------------------------------------
\* The verification: a record that fits proves a credential that is honoured.
LEMMA FittingHonoured ==
  ASSUME M2mInv, NEW h, NEW modes, NEW i \in Fitting(h, modes).records
  PROVE  /\ i \in DOMAIN store.credentials
         /\ Fitting(h, modes).mode \in modes
         /\ \E c \in Honoured(h, Fitting(h, modes).mode) :
              /\ store.credentials[i].client_id = c.secrets.client_id
              /\ store.credentials[i].claim = c.secrets.claim
<1> DEFINE r == store.credentials[i]
           mode == Fitting(h, modes).mode
<1>1. /\ i \in DOMAIN store.credentials
      /\ \/ mode = "BASIC" /\ "BASIC" \in modes /\ basic_decode(h) /\ BasicFits(r, h)
         \/ mode = "BEARER" /\ "BEARER" \in modes /\ extract_bearer(h) /\ BearerFits(r, h)
  BY DEF Fitting
<1>2. PICK c \in issued : Describes(r, c)
  BY <1>1 DEF M2mInv, RecordsInv
<1> HIDE DEF mode
<1>3. ~r.revoked /\ h.secret # NoSecret
  BY <1>1 DEF BasicFits, BearerFits, basic_decode, extract_bearer
<1>4. Proves(c, h, mode)
  <2>1. CASE mode = "BASIC" /\ basic_decode(h) /\ BasicFits(r, h)
    <3>1. /\ r.secret_hash = <<r.secret_salt, c.secrets.client_secret>>
          /\ r.secret_hash = <<r.secret_salt, h.secret>>
      BY <1>2, <2>1 DEF Describes, BasicFits, verify_hash, Digest
    <3>2. c.secrets.client_secret = h.secret
      BY <3>1
    <3>3. h.id = c.secrets.client_id /\ h.scheme = "Basic"
      BY <1>2, <2>1 DEF Describes, BasicFits, basic_decode
    <3> QED
      BY <2>1, <3>2, <3>3 DEF Proves
  <2>2. CASE mode = "BEARER" /\ extract_bearer(h) /\ BearerFits(r, h)
    <3>1. /\ r.api_key_hash = <<r.api_key_salt, c.secrets.api_key>>
          /\ r.api_key_hash = <<r.api_key_salt, h.secret>>
      BY <1>2, <2>2 DEF Describes, BearerFits, verify_hash, Digest
    <3>2. c.secrets.api_key = h.secret
      BY <3>1
    <3> QED
      BY <2>2, <3>2 DEF Proves, extract_bearer
  <2> QED
    BY <1>1, <2>1, <2>2
<1>5. r.client_id = c.secrets.client_id /\ r.claim = c.secrets.claim
  BY <1>2 DEF Describes
<1>6. c \in Honoured(h, mode)
  BY <1>1, <1>3, <1>4, <1>5 DEF Honoured
<1> QED
  BY <1>1, <1>5, <1>6 DEF mode

\* And an honoured credential has a record that fits.
LEMMA HonouredFits ==
  ASSUME M2mInv, NEW h, NEW modes, NEW mode \in modes, NEW c \in Honoured(h, mode)
  PROVE  Fitting(h, modes).records # {}
<1>1. PICK i \in DOMAIN store.credentials :
        store.credentials[i].client_id = c.secrets.client_id /\ ~store.credentials[i].revoked
  BY DEF Honoured
<1>2. c \in issued /\ h.secret # NoSecret /\ Proves(c, h, mode)
  BY DEF Honoured
<1> DEFINE r == store.credentials[i]
<1>3. PICK d \in issued : Describes(r, d)
  BY DEF M2mInv, RecordsInv
<1>4. d.secrets.client_id = c.secrets.client_id
  BY <1>1, <1>3 DEF Describes
<1>5. d = c
  BY <1>2, <1>4 DEF M2mInv, IssuedInv
<1>6. Describes(r, c)
  BY <1>3, <1>5
<1>7. c.secrets.client_id # NoSecret
  <2>1. c.secrets.client_id \in 1..drawn
    BY <1>2 DEF M2mInv, IssuedInv
  <2> QED
    BY <2>1 DEF NoSecret
<1>8. CASE mode = "BASIC"
  <2>1. /\ h.scheme = "Basic" /\ h.id = c.secrets.client_id /\ h.secret = c.secrets.client_secret
    BY <1>2, <1>8 DEF Proves
  <2>2. "BASIC" \in modes /\ basic_decode(h)
    BY <1>2, <1>7, <1>8, <2>1 DEF basic_decode
  <2>3. BasicFits(r, h)
    BY <1>1, <1>2, <1>6, <2>1 DEF BasicFits, Describes, verify_hash
  <2> QED
    BY <2>2, <2>3 DEF Fitting
<1>9. CASE mode = "BEARER"
  <2>1. h.scheme = "Bearer" /\ h.secret = c.secrets.api_key
    BY <1>2, <1>9 DEF Proves
  <2>2. "BEARER" \in modes /\ extract_bearer(h)
    BY <1>2, <1>9, <2>1 DEF extract_bearer
  <2>3. BearerFits(r, h)
    BY <1>1, <1>2, <1>6, <2>1 DEF BearerFits, Describes, verify_hash
  <2> QED
    BY <2>2, <2>3 DEF Fitting
<1> QED
  BY <1>2, <1>8, <1>9 DEF Proves

LEMMA VerifyM2m ==
  ASSUME M2mInv, NEW h, NEW modes, verify_authorization(h, modes)
  PROVE  M2mInv'
<1> DEFINE allowed == modes_or_default(modes)
           fit == Fitting(h, allowed)
           Outcome(failure, starved) ==
             [done |-> TRUE, header |-> h, modes |-> modes, starved |-> starved, failure |-> failure]
           refusal == IF h.scheme = "none" THEN "MISSING_CREDENTIALS" ELSE "INVALID_SIGNATURE"
           record == store.credentials[Min(fit.records)]
           accepted == [done |-> TRUE, header |-> h, modes |-> modes, starved |-> FALSE,
                        failure |-> "NONE", client_id |-> record.client_id,
                        claim |-> record.claim, mode |-> fit.mode]
<1>1. UNCHANGED <<store, drawn, issued, invited>>
  BY DEF verify_authorization
<1>2. \/ auth' = Outcome("CACHE_UNAVAILABLE", FALSE)
      \/ fit.records = {} /\ auth' = Outcome(refusal, FALSE)
      \/ /\ fit.records # {}
         /\ \/ auth' = accepted
            \/ auth' = Outcome("CLAIMS_INVALID", FALSE)
            \/ auth' = Outcome(refusal, TRUE)
  BY DEF verify_authorization
<1>3. allowed = IF modes = {} THEN AuthModes ELSE modes
  BY DEF modes_or_default
<1>4. \A m : Honoured(h, m)' = Honoured(h, m)
  BY <1>1 DEF Honoured, Proves
<1>5. fit.records = {} => \A m \in allowed : Honoured(h, m) = {}
  BY HonouredFits
<1>6. fit.records # {} =>
        /\ fit.mode \in allowed
        /\ \E c \in Honoured(h, fit.mode) :
             record.client_id = c.secrets.client_id /\ record.claim = c.secrets.claim
  <2> SUFFICES ASSUME fit.records # {}
               PROVE  /\ fit.mode \in allowed
                      /\ \E c \in Honoured(h, fit.mode) :
                           record.client_id = c.secrets.client_id /\ record.claim = c.secrets.claim
    OBVIOUS
  <2>1. fit.records \in SUBSET Nat
    <3>1. fit.records \subseteq DOMAIN store.credentials
      BY DEF Fitting
    <3>2. store.credentials \in Seq(CredentialRecords)
      BY DEF M2mInv, M2mTypeOK
    <3> HIDE DEF fit
    <3> QED
      BY <3>1, <3>2
  <2>2. Min(fit.records) \in fit.records
    <3> DEFINE all == fit.records
    <3> HIDE DEF fit, all
    <3>1. all \in SUBSET Nat /\ all # {}
      BY <2>1 DEF all
    <3>2. Min(all) \in all
      BY <3>1, MinIsMember
    <3> QED
      BY <3>2 DEF all
  <2> QED
    BY <2>2, FittingHonoured
<1> HIDE DEF allowed, fit, record
<1>7. VerifiedExactly'
  <2>7. CASE auth' = accepted /\ fit.records # {}
    <3>1. /\ auth'.failure = "NONE" /\ auth'.header = h /\ auth'.modes = modes
          /\ auth'.mode = fit.mode /\ auth'.client_id = record.client_id
          /\ auth'.claim = record.claim
      BY <2>7
    <3>2. PICK c \in Honoured(h, fit.mode) :
            record.client_id = c.secrets.client_id /\ record.claim = c.secrets.claim
      BY <1>6, <2>7
    <3>3. Honoured(auth.header, auth.mode)' = Honoured(h, fit.mode)
      BY <1>1, <3>1 DEF Honoured, Proves
    <3> HIDE DEF accepted
    <3> QED
      BY <1>3, <1>6, <2>7, <3>1, <3>2, <3>3 DEF VerifiedExactly
  <2>8. CASE auth' = Outcome("CACHE_UNAVAILABLE", FALSE) \/ auth' = Outcome("CLAIMS_INVALID", FALSE)
    <3>1. auth'.failure \in {"CACHE_UNAVAILABLE", "CLAIMS_INVALID"}
      BY <2>8
    <3> QED
      BY <3>1 DEF VerifiedExactly
  <2>9. CASE auth' = Outcome(refusal, TRUE)
    <3>1. auth'.failure = refusal /\ auth'.starved
      BY <2>9
    <3>2. refusal # "NONE"
      OBVIOUS
    <3> HIDE DEF refusal
    <3> QED
      BY <3>1, <3>2 DEF VerifiedExactly
  <2>10. CASE auth' = Outcome(refusal, FALSE) /\ fit.records = {}
    <3>1. auth'.failure = refusal /\ auth'.header = h /\ auth'.modes = modes
      BY <2>10
    <3>2. refusal # "NONE"
      OBVIOUS
    <3> HIDE DEF refusal
    <3> QED
      BY <1>3, <1>4, <1>5, <2>10, <3>1, <3>2 DEF VerifiedExactly
  <2> QED
    BY <1>2, <2>7, <2>8, <2>9, <2>10
<1> QED
  BY <1>1, <1>7 DEF M2mInv, M2mTypeOK, IssuedInv, RecordsInv, SignupsInv

LEMMA M2mStep ==
  ASSUME M2mInv, M2mNext
  PROVE  M2mInv'
<1>1. CASE authentication_cleanup
  BY <1>1 DEF authentication_cleanup, NoAuth, M2mInv, M2mTypeOK, IssuedInv, RecordsInv, SignupsInv,
              VerifiedExactly
<1>2. CASE ~auth.done /\ \E modes \in SUBSET AuthModes, claim \in Claims \union {NoClaim} :
                            credential_generate(modes, claim)
  BY <1>2, CredentialGenerateM2m DEF AnyClaim
<1>3. CASE ~auth.done /\ \E claim \in Claims \union {NoClaim} : signup_generate(claim)
  BY <1>3, SignupGenerateM2m DEF AnyClaim
<1>4. CASE ~auth.done /\ \E id \in {NoSecret} \union {v.signup_id : v \in invited}, secret \in Known,
                            modes \in SUBSET AuthModes : signup_complete(id, secret, modes)
  <2>1. Known \subseteq Nat
    <3>1. /\ drawn \in Nat
          /\ \A c \in issued : c.secrets.client_secret \in Nat /\ c.secrets.api_key \in Nat
          /\ \A v \in invited : v.secret \in Nat
      BY DEF M2mInv, M2mTypeOK, HandedOut, Invitations
    <3>2. UNION {{c.secrets.client_secret, c.secrets.api_key} : c \in issued} \subseteq Nat
      BY <3>1
    <3>3. {v.secret : v \in invited} \subseteq Nat
      BY <3>1
    <3>4. {NoSecret, drawn + 1} \subseteq Nat
      BY <3>1 DEF NoSecret
    <3> DEFINE A == {NoSecret, drawn + 1}
               B == UNION {{c.secrets.client_secret, c.secrets.api_key} : c \in issued}
               C == {v.secret : v \in invited}
    <3>5. Known = A \union B \union C
      BY DEF Known
    <3> HIDE DEF A, B, C
    <3>6. A \subseteq Nat /\ B \subseteq Nat /\ C \subseteq Nat
      BY <3>2, <3>3, <3>4 DEF A, B, C
    <3> QED
      BY <3>5, <3>6
  <2> QED
    BY <1>4, <2>1, SignupCompleteM2m
<1>5. CASE ~auth.done /\ \E i \in DOMAIN store.credentials : RevokeCredential(i) \/ RemoveCredential(i)
  BY <1>5, RevokeCredentialM2m, RemoveCredentialM2m
<1>6. CASE ~auth.done /\ \E i \in DOMAIN store.signups : RevokeSignup(i)
  BY <1>6, RevokeSignupM2m
<1>7. CASE ~auth.done /\ \E h \in Headers, modes \in SUBSET AuthModes : verify_authorization(h, modes)
  BY <1>7, VerifyM2m
<1> QED
  BY <1>1, <1>2, <1>3, <1>4, <1>5, <1>6, <1>7 DEF M2mNext

(* lonejson_m2m_verify_authorization over the records the generating calls  *)
(* make: a header is accepted exactly when it proves a credential that was  *)
(* handed out and is still in the store, with its claim, for any number of  *)
(* credentials, invitations, records, claims and calls.                     *)
THEOREM CredentialsAreExact == Spec => []M2mExact
<1>1. Init => M2mInv
  BY M2mInitial DEF Init
<1>2. M2mInv /\ [Next]_authVars => M2mInv'
  <2> SUFFICES ASSUME M2mInv, [Next]_authVars PROVE M2mInv'
    OBVIOUS
  <2>1. M2mNext \/ UNCHANGED m2mVars
    BY DEF Next, authVars
  <2> QED
    BY <2>1, M2mStep, M2mStutter
<1>3. M2mInv => M2mExact
  BY DEF M2mInv, IssuedInv, VerifiedExactly, M2mExact
<1> QED
  BY <1>1, <1>2, <1>3, PTL DEF Spec

(***************************************************************************)
(* Bearer validation.                                                      *)
(***************************************************************************)
Fetches == [live : {TRUE}, policy : Policies, now : Nat, body : Documents \union {Unanswered}]

Transfers ==
  [live : {TRUE}, policy : Policies, now : Nat, body : Documents \union {Unanswered},
   len : Nat, error : BOOLEAN]

\* The history of an issuer: each key set but the one published was retired.
KeyTypeOK ==
  /\ clock \in Nat
  /\ published \in [Uris -> Documents] /\ retired \in [Uris -> Seq(Nat)]
  /\ \A u \in Uris : published[u] >= 1 /\ Len(retired[u]) = published[u] - 1
  /\ fetch \in Fetches \union {NoFetch}
  /\ ctx \in [Contexts -> Transfers \union {NoContext}]

\* Document n was served by u at some time after since.
Served(u, n, since) ==
  /\ n \in Documents /\ n >= 1 /\ since \in Int /\ since <= clock
  /\ n <= published[u] /\ (n < published[u] => retired[u][n] >= since)

\* The answer a refresh has got was served after the refresh began, unless it
\* is no key set.
AnswerServed(r) ==
  r.live =>
    /\ r.now <= clock
    /\ \/ r.body = Unanswered
       \/ ~jwks_parse_json(Body(r.policy.jwks_uri, r.body))
       \/ Served(r.policy.jwks_uri, r.body, r.now)

\* The cache holds a key set served no earlier than a ttl before it expires.
CacheInv ==
  cache.has_jwks =>
    \E n \in Documents, q \in Policies :
      /\ cache.issuer = q.issuer /\ cache.jwks_uri = q.jwks_uri
      /\ cache.keys = Body(q.jwks_uri, n).keys
      /\ cache.expires_at \in Int
      /\ Served(q.jwks_uri, n, cache.expires_at - q.ttl)

KeyInv ==
  /\ KeyTypeOK
  /\ AnswerServed(fetch)
  /\ \A c \in Contexts : AnswerServed(ctx[c])
  /\ CacheInv
  /\ AcceptedKeyIsRecent
  /\ bearer.done => scene = "bearer"

LEMMA KeyInitial == TimeInit /\ BearerInit => KeyInv
<1> SUFFICES ASSUME TimeInit, BearerInit PROVE KeyInv
  OBVIOUS
<1>1. KeyTypeOK
  <2>1. <<>> \in Seq(Nat) /\ Len(<<>>) = 0 /\ 1 \in Documents
    BY BearerAssumption
  <2> QED
    BY <2>1 DEF TimeInit, BearerInit, KeyTypeOK
<1>2. /\ fetch.live = FALSE /\ cache.has_jwks = FALSE /\ bearer.done = FALSE
      /\ \A c \in Contexts : ctx[c].live = FALSE
  BY DEF BearerInit, NoFetch, NoContext, EmptyCache, NoBearer
<1> QED
  BY <1>1, <1>2 DEF KeyInv, AnswerServed, CacheInv, AcceptedKeyIsRecent

\* What was served stays served, over rotations and time.
LEMMA RotationKeeps ==
  ASSUME KeyTypeOK, NEW v \in Uris, Rotate(v), UNCHANGED clock,
         NEW u \in Uris, NEW n, NEW since, Served(u, n, since)
  PROVE  Served(u, n, since)'
<1>1. /\ published' = [published EXCEPT ![v] = @ + 1]
      /\ retired' = [retired EXCEPT ![v] = Append(@, clock)]
  BY DEF Rotate
<1>2. /\ published \in [Uris -> Documents] /\ retired \in [Uris -> Seq(Nat)] /\ clock \in Nat
      /\ published[u] >= 1 /\ Len(retired[u]) = published[u] - 1 /\ published[u] \in Nat
  BY BearerAssumption DEF KeyTypeOK
<1>3. /\ n \in Nat /\ n >= 1 /\ since \in Int /\ since <= clock /\ n <= published[u]
      /\ n < published[u] => retired[u][n] >= since
  BY BearerAssumption DEF Served
<1>4. CASE u # v
  <2>1. published'[u] = published[u] /\ retired'[u] = retired[u]
    BY <1>1, <1>2, <1>4
  <2> QED
    BY <2>1 DEF Served
<1>5. CASE u = v
  <2> DEFINE old == retired[u]
  <2>1. published'[u] = published[u] + 1 /\ retired'[u] = Append(old, clock)
    BY <1>1, <1>2, <1>5
  <2>2. old \in Seq(Nat) /\ Len(old) \in Nat
    BY <1>2
  <2> HIDE DEF old
  <2>3. /\ \A i \in 1..Len(old) : Append(old, clock)[i] = old[i]
        /\ Append(old, clock)[Len(old) + 1] = clock
    BY <1>2, <2>2
  <2>4. n <= published'[u]
    BY <1>2, <1>3, <2>1
  <2>5. n < published'[u] => retired'[u][n] >= since
    <3>1. CASE n < published[u]
      <4>1. n \in 1..Len(old)
        BY <1>2, <1>3, <3>1 DEF old
      <4> QED
        BY <1>3, <2>1, <2>3, <3>1, <4>1 DEF old
    <3>2. CASE ~(n < published[u])
      <4>1. n = Len(old) + 1
        BY <1>2, <1>3, <3>2 DEF old
      <4> QED
        BY <1>2, <1>3, <2>1, <2>3, <4>1
    <3> QED
      BY <3>1, <3>2
  <2> QED
    BY <2>4, <2>5 DEF Served
<1> QED
  BY <1>4, <1>5

LEMMA TimeKeeps ==
  ASSUME clock \in Nat, clock' \in Nat, clock <= clock', UNCHANGED <<published, retired>>,
         NEW u, NEW n, NEW since, Served(u, n, since)
  PROVE  Served(u, n, since)'
BY DEF Served

\* What a step does not change of the refreshes and the cache stays true,
\* whatever it does to the history.
Kept ==
  /\ clock' \in Nat /\ clock <= clock'
  /\ \A u \in Uris : \A n, since : Served(u, n, since) => Served(u, n, since)'

LEMMA PolicyUri ==
  ASSUME NEW p \in Policies
  PROVE  p.jwks_uri \in Uris
BY DEF Uris

LEMMA FetchKept ==
  ASSUME KeyInv, Kept, UNCHANGED fetch
  PROVE  AnswerServed(fetch)'
<1>1. CASE fetch.live
  <2>1. fetch \in Fetches
    BY <1>1 DEF KeyInv, KeyTypeOK, NoFetch
  <2>2. fetch.policy.jwks_uri \in Uris /\ fetch.now \in Nat
    BY <2>1, PolicyUri DEF Fetches
  <2>3. AnswerServed(fetch)
    BY DEF KeyInv
  <2>4. clock \in Nat
    BY DEF KeyInv, KeyTypeOK
  <2> DEFINE u == fetch.policy.jwks_uri
             n == fetch.body
             since == fetch.now
  <2>5. Served(u, n, since) => /\ n \in Documents /\ n >= 1 /\ since \in Int /\ since <= clock'
                               /\ n <= published'[u] /\ (n < published'[u] => retired'[u][n] >= since)
    BY <2>2 DEF Kept, Served
  <2> QED
    BY <1>1, <2>2, <2>3, <2>4, <2>5 DEF AnswerServed, Kept, Served
<1>2. CASE ~fetch.live
  BY <1>2 DEF AnswerServed
<1> QED
  BY <1>1, <1>2

LEMMA ContextKept ==
  ASSUME KeyInv, Kept, NEW c \in Contexts, ctx'[c] = ctx[c]
  PROVE  AnswerServed(ctx[c])'
<1>1. CASE ctx[c].live
  <2>1. ctx[c] \in Transfers
    BY <1>1 DEF KeyInv, KeyTypeOK, NoContext
  <2>2. ctx[c].policy.jwks_uri \in Uris /\ ctx[c].now \in Nat
    BY <2>1, PolicyUri DEF Transfers
  <2>3. AnswerServed(ctx[c])
    BY DEF KeyInv
  <2>4. clock \in Nat
    BY DEF KeyInv, KeyTypeOK
  <2> DEFINE u == ctx[c].policy.jwks_uri
             n == ctx[c].body
             since == ctx[c].now
  <2>5. Served(u, n, since) => /\ n \in Documents /\ n >= 1 /\ since \in Int /\ since <= clock'
                               /\ n <= published'[u] /\ (n < published'[u] => retired'[u][n] >= since)
    BY <2>2 DEF Kept, Served
  <2> QED
    BY <1>1, <2>2, <2>3, <2>4, <2>5 DEF AnswerServed, Kept, Served
<1>2. CASE ~ctx[c].live
  BY <1>2 DEF AnswerServed
<1> QED
  BY <1>1, <1>2

LEMMA CacheKept ==
  ASSUME KeyInv, Kept, UNCHANGED cache
  PROVE  CacheInv'
<1>1. CASE cache.has_jwks
  <2>1. PICK n \in Documents, q \in Policies :
          /\ cache.issuer = q.issuer /\ cache.jwks_uri = q.jwks_uri
          /\ cache.keys = Body(q.jwks_uri, n).keys
          /\ cache.expires_at \in Int
          /\ Served(q.jwks_uri, n, cache.expires_at - q.ttl)
    BY <1>1 DEF KeyInv, CacheInv
  <2> DEFINE u == q.jwks_uri
             since == cache.expires_at - q.ttl
  <2>2. u \in Uris
    BY PolicyUri
  <2>3. /\ n \in Documents /\ n >= 1 /\ since \in Int /\ since <= clock'
        /\ n <= published'[u] /\ (n < published'[u] => retired'[u][n] >= since)
    BY <2>1, <2>2 DEF Kept, Served
  <2> QED
    BY <2>1, <2>3 DEF CacheInv, Served
<1>2. CASE ~cache.has_jwks
  BY <1>2 DEF CacheInv
<1> QED
  BY <1>1, <1>2

LEMMA StillKept ==
  ASSUME KeyInv, clock' \in Nat, clock <= clock', UNCHANGED <<published, retired>>
  PROVE  Kept
BY DEF Kept, Served, KeyInv, KeyTypeOK

\* A step outside the bearer scene, or that ends a validation.
LEMMA TimeKey ==
  ASSUME KeyInv, clock' \in Nat, clock <= clock', UNCHANGED <<published, retired, cache, ctx, fetch>>,
         ~bearer'.done
  PROVE  KeyInv'
<1>1. Kept
  BY StillKept
<1>2. KeyTypeOK'
  BY DEF KeyInv, KeyTypeOK
<1>3. AnswerServed(fetch)' /\ CacheInv'
  BY <1>1, FetchKept, CacheKept
<1>4. \A c \in Contexts : AnswerServed(ctx[c])'
  BY <1>1, ContextKept
<1> QED
  BY <1>2, <1>3, <1>4 DEF KeyInv, AcceptedKeyIsRecent

LEMMA RotateKey ==
  ASSUME KeyInv, ~bearer.done, UNCHANGED clock, NEW v \in Uris, Rotate(v)
  PROVE  KeyInv'
<1>1. UNCHANGED <<cache, ctx, fetch, bearer>>
  BY DEF Rotate
<1>2. KeyTypeOK
  BY DEF KeyInv
<1>3. Kept
  <2>1. clock \in Nat
    BY <1>2 DEF KeyTypeOK
  <2>2. \A u \in Uris : \A n, since : Served(u, n, since) => Served(u, n, since)'
    BY <1>2, RotationKeeps
  <2> QED
    BY <2>1, <2>2 DEF Kept
<1>4. KeyTypeOK'
  <2>1. /\ published' = [published EXCEPT ![v] = @ + 1] /\ published[v] + 1 \in Documents
        /\ retired' = [retired EXCEPT ![v] = Append(@, clock)]
    BY DEF Rotate
  <2>2. published' \in [Uris -> Documents]
    BY <1>2, <2>1 DEF KeyTypeOK
  <2>3. /\ retired[v] \in Seq(Nat) /\ clock \in Nat /\ published[v] \in Nat
        /\ published[v] >= 1 /\ Len(retired[v]) = published[v] - 1
    BY <1>2, BearerAssumption DEF KeyTypeOK
  <2>4. Append(retired[v], clock) \in Seq(Nat) /\ Len(Append(retired[v], clock)) = Len(retired[v]) + 1
    BY <2>3
  <2>5. retired' \in [Uris -> Seq(Nat)]
    BY <1>2, <2>1, <2>4 DEF KeyTypeOK
  <2>6. ASSUME NEW u \in Uris PROVE published'[u] >= 1 /\ Len(retired'[u]) = published'[u] - 1
    <3>1. CASE u = v
      <4>1. published'[u] = published[v] + 1 /\ retired'[u] = Append(retired[v], clock)
        BY <1>2, <2>1, <3>1 DEF KeyTypeOK
      <4> QED
        BY <2>3, <2>4, <4>1
    <3>2. CASE u # v
      <4>1. published'[u] = published[u] /\ retired'[u] = retired[u]
        BY <1>2, <2>1, <3>2 DEF KeyTypeOK
      <4> QED
        BY <1>2, <4>1 DEF KeyTypeOK
    <3> QED
      BY <3>1, <3>2
  <2> QED
    BY <1>1, <1>2, <2>2, <2>5, <2>6 DEF KeyTypeOK
<1>5. AnswerServed(fetch)' /\ CacheInv'
  BY <1>1, <1>3, FetchKept, CacheKept
<1>6. \A c \in Contexts : AnswerServed(ctx[c])'
  BY <1>1, <1>3, ContextKept
<1> QED
  BY <1>1, <1>4, <1>5, <1>6 DEF KeyInv, AcceptedKeyIsRecent

\* A refresh begins, gets its answer or ends: the history and the validation
\* stand still.
Refreshes == UNCHANGED <<clock, published, retired, bearer>> /\ ~bearer.done

LEMMA RefreshesKeep ==
  ASSUME KeyInv, Refreshes
  PROVE  Kept /\ ~bearer'.done
BY StillKept DEF Refreshes, KeyInv, KeyTypeOK

LEMMA AnswerIsServed ==
  ASSUME KeyInv, NEW p \in Policies, NEW now \in Nat, now <= clock, NEW n \in Answers(p.jwks_uri)
  PROVE  /\ n \in Documents
         /\ ~jwks_parse_json(Body(p.jwks_uri, n)) \/ Served(p.jwks_uri, n, now)
<1> DEFINE u == p.jwks_uri
<1>1. u \in Uris
  BY PolicyUri
<1>2. clock \in Nat /\ published[u] \in Documents /\ published[u] \in Nat /\ published[u] >= 1
  BY <1>1, BearerAssumption DEF KeyInv, KeyTypeOK
<1>3. CASE n = published[u]
  BY <1>2, <1>3 DEF Served
<1>4. CASE n \in Documents /\ ~jwks_parse_json(Body(u, n))
  BY <1>4
<1> QED
  BY <1>3, <1>4 DEF Answers

LEMMA RefreshKey ==
  ASSUME KeyInv, ~bearer.done, UNCHANGED clock, NEW p \in Policies, Refresh(p)
  PROVE  KeyInv'
<1>1. Refreshes /\ UNCHANGED <<cache, ctx>>
  BY DEF Refreshes, Refresh, Calls
<1>2. Kept /\ ~bearer'.done
  BY <1>1, RefreshesKeep
<1>3. fetch' = [live |-> TRUE, policy |-> p, now |-> clock, body |-> Unanswered] /\ clock \in Nat
  BY DEF Refresh, KeyInv, KeyTypeOK
<1>4. KeyTypeOK'
  <2>1. fetch' \in Fetches
    BY <1>3 DEF Fetches
  <2> QED
    BY <1>1, <2>1 DEF KeyInv, KeyTypeOK, Refreshes
<1>5. AnswerServed(fetch)'
  BY <1>1, <1>3 DEF AnswerServed, Refreshes
<1>6. \A c \in Contexts : AnswerServed(ctx[c])'
  BY <1>1, <1>2, ContextKept
<1> QED
  BY <1>1, <1>2, <1>4, <1>5, <1>6, CacheKept DEF KeyInv, AcceptedKeyIsRecent

LEMMA RefreshAnsweredKey ==
  ASSUME KeyInv, ~bearer.done, UNCHANGED clock, RefreshAnswered
  PROVE  KeyInv'
<1>1. Refreshes /\ UNCHANGED <<cache, ctx>>
  BY DEF Refreshes, RefreshAnswered
<1>2. Kept /\ ~bearer'.done
  BY <1>1, RefreshesKeep
<1>3. fetch.live /\ fetch \in Fetches
  BY DEF RefreshAnswered, KeyInv, KeyTypeOK, NoFetch
<1>4. PICK n \in Answers(fetch.policy.jwks_uri) : fetch' = [fetch EXCEPT !.body = n]
  BY DEF RefreshAnswered
<1>5. fetch.policy \in Policies /\ fetch.now \in Nat /\ fetch.now <= clock
  BY <1>3 DEF Fetches, KeyInv, AnswerServed
<1>6. /\ n \in Documents
      /\ ~jwks_parse_json(Body(fetch.policy.jwks_uri, n)) \/ Served(fetch.policy.jwks_uri, n, fetch.now)
  BY <1>5, AnswerIsServed
<1>7. /\ fetch' \in Fetches /\ fetch'.policy = fetch.policy /\ fetch'.now = fetch.now
      /\ fetch'.body = n
  BY <1>3, <1>4, <1>6 DEF Fetches
<1>8. KeyTypeOK'
  BY <1>1, <1>7 DEF KeyInv, KeyTypeOK, Refreshes
<1>9. AnswerServed(fetch)'
  BY <1>1, <1>5, <1>6, <1>7 DEF AnswerServed, Served, Refreshes
<1>10. \A c \in Contexts : AnswerServed(ctx[c])'
  BY <1>1, <1>2, ContextKept
<1> QED
  BY <1>1, <1>2, <1>8, <1>9, <1>10, CacheKept DEF KeyInv, AcceptedKeyIsRecent

\* lonejson_oidc_jwks_cache_update_json with what arrived of a document.
LEMMA UpdateKeepsCache ==
  ASSUME KeyInv, Refreshes, NEW p \in Policies, NEW now \in Nat, now <= clock, NEW n, NEW body,
         jwks_parse_json(body) => /\ body.keys = Body(p.jwks_uri, n).keys
                                  /\ Served(p.jwks_uri, n, now),
         NEW r \in update_json(p, now, body), cache' = r.cache
  PROVE  CacheInv' /\ r.ok \in BOOLEAN
<1>1. CASE r = [ok |-> FALSE, cache |-> cache]
  BY <1>1, CacheKept, RefreshesKeep
<1>2. CASE /\ jwks_parse_json(body)
           /\ r = [ok |-> TRUE,
                   cache |-> [has_jwks |-> TRUE, issuer |-> p.issuer, jwks_uri |-> p.jwks_uri,
                              keys |-> body.keys, expires_at |-> now + p.ttl]]
  <2>1. /\ cache'.has_jwks /\ cache'.issuer = p.issuer /\ cache'.jwks_uri = p.jwks_uri
        /\ cache'.keys = Body(p.jwks_uri, n).keys /\ cache'.expires_at = now + p.ttl
    BY <1>2
  <2>2. p.ttl \in Int /\ now + p.ttl \in Int /\ (now + p.ttl) - p.ttl = now
    BY BearerAssumption
  <2>3. Served(p.jwks_uri, n, now)
    BY <1>2
  <2>4. n \in Documents
    BY <2>3 DEF Served
  <2>5. cache'.expires_at \in Int /\ cache'.expires_at - p.ttl = now
    BY <2>1, <2>2
  <2>6. /\ n \in Documents /\ n >= 1 /\ now \in Int /\ now <= clock'
        /\ n <= published'[p.jwks_uri]
        /\ (n < published'[p.jwks_uri] => retired'[p.jwks_uri][n] >= now)
    BY <2>3 DEF Served, Refreshes
  <2> QED
    BY <1>2, <2>1, <2>4, <2>5, <2>6 DEF CacheInv, Served
<1> QED
  BY <1>1, <1>2 DEF update_json

LEMMA RefreshReturnsKey ==
  ASSUME KeyInv, ~bearer.done, UNCHANGED clock, RefreshReturns
  PROVE  KeyInv'
<1>1. Refreshes /\ UNCHANGED ctx /\ fetch' = NoFetch
  BY DEF Refreshes, RefreshReturns
<1>2. Kept /\ ~bearer'.done
  BY <1>1, RefreshesKeep
<1>3. fetch.live /\ fetch \in Fetches
  BY DEF RefreshReturns, KeyInv, KeyTypeOK, NoFetch
<1>4. fetch.policy \in Policies /\ fetch.now \in Nat /\ fetch.now <= clock
  BY <1>3 DEF Fetches, KeyInv, AnswerServed
<1>5. CacheInv'
  <2>1. CASE UNCHANGED cache
    BY <1>2, <2>1, CacheKept
  <2>2. CASE /\ fetch.body # Unanswered
             /\ \E r \in update_json(fetch.policy, fetch.now,
                                     Body(fetch.policy.jwks_uri, fetch.body)) : cache' = r.cache
    <3> DEFINE body == Body(fetch.policy.jwks_uri, fetch.body)
    <3>1. jwks_parse_json(body) => Served(fetch.policy.jwks_uri, fetch.body, fetch.now)
      BY <1>3, <2>2 DEF KeyInv, AnswerServed
    <3>2. PICK r \in update_json(fetch.policy, fetch.now, body) : cache' = r.cache
      BY <2>2
    <3>3. body.keys = Body(fetch.policy.jwks_uri, fetch.body).keys
      OBVIOUS
    <3> HIDE DEF body
    <3> QED
      BY <1>1, <1>4, <3>1, <3>2, <3>3, UpdateKeepsCache
  <2> QED
    BY <2>1, <2>2 DEF RefreshReturns
<1>6. KeyTypeOK'
  BY <1>1 DEF KeyInv, KeyTypeOK, Refreshes
<1>7. AnswerServed(fetch)'
  BY <1>1 DEF AnswerServed, NoFetch
<1>8. \A c \in Contexts : AnswerServed(ctx[c])'
  BY <1>1, <1>2, ContextKept
<1> QED
  BY <1>2, <1>5, <1>6, <1>7, <1>8 DEF KeyInv, AcceptedKeyIsRecent

\* A step of one streamed refresh that leaves the cache alone or updates it.
LEMMA TransferKey ==
  ASSUME KeyInv, Refreshes, UNCHANGED fetch, CacheInv', NEW c \in Contexts,
         NEW x \in Transfers \union {NoContext}, ctx' = [ctx EXCEPT ![c] = x], AnswerServed(x)
  PROVE  KeyInv'
<1>1. Kept /\ ~bearer'.done
  BY RefreshesKeep
<1>2. ctx \in [Contexts -> Transfers \union {NoContext}]
  BY DEF KeyInv, KeyTypeOK
<1>3. ctx' \in [Contexts -> Transfers \union {NoContext}]
  BY <1>2
<1>4. KeyTypeOK'
  BY <1>3 DEF KeyInv, KeyTypeOK, Refreshes
<1>5. ASSUME NEW d \in Contexts PROVE AnswerServed(ctx[d])'
  <2>1. CASE d = c
    <3>1. ctx'[d] = x
      BY <1>2, <2>1
    <3> QED
      BY <3>1 DEF AnswerServed, Served, Refreshes
  <2>2. CASE d # c
    <3>1. ctx'[d] = ctx[d]
      BY <1>2, <2>2
    <3> QED
      BY <1>1, <3>1, ContextKept
  <2> QED
    BY <2>1, <2>2
<1>6. AnswerServed(fetch)'
  BY <1>1, FetchKept
<1> QED
  BY <1>1, <1>4, <1>5, <1>6 DEF KeyInv, AcceptedKeyIsRecent

LEMMA ParseInitKey ==
  ASSUME KeyInv, ~bearer.done, UNCHANGED clock, NEW c \in Contexts, NEW p \in Policies,
         parse_init(c, p)
  PROVE  KeyInv'
<1>1. Refreshes /\ UNCHANGED <<cache, fetch>>
  BY DEF Refreshes, parse_init, Calls
<1>2. PICK err \in BOOLEAN :
        ctx' = [ctx EXCEPT ![c] = [live |-> TRUE, policy |-> p, now |-> clock,
                                   body |-> Unanswered, len |-> 0, error |-> err]]
  BY DEF parse_init
<1> DEFINE x == [live |-> TRUE, policy |-> p, now |-> clock, body |-> Unanswered, len |-> 0,
                 error |-> err]
<1>3. x \in Transfers
  BY DEF Transfers, KeyInv, KeyTypeOK
<1>4. AnswerServed(x)
  BY DEF AnswerServed, KeyInv, KeyTypeOK
<1>5. ctx' = [ctx EXCEPT ![c] = x]
  BY <1>2
<1>6. CacheInv'
  BY <1>1, RefreshesKeep, CacheKept
<1> HIDE DEF x
<1> QED
  BY <1>1, <1>3, <1>4, <1>5, <1>6, TransferKey

\* The context of a streamed refresh that is under way.
LEMMA TransferTyped ==
  ASSUME KeyInv, NEW c \in Contexts, ctx[c].live
  PROVE  /\ ctx[c] \in Transfers /\ ctx[c].policy \in Policies /\ ctx[c].now \in Nat
         /\ ctx[c].now <= clock /\ AnswerServed(ctx[c]) /\ ctx[c].len \in Nat
<1>1. ctx[c] \in Transfers /\ AnswerServed(ctx[c])
  BY DEF KeyInv, KeyTypeOK, NoContext
<1>2. ctx[c].policy \in Policies /\ ctx[c].now \in Nat /\ ctx[c].len \in Nat
  BY <1>1 DEF Transfers
<1>3. ctx[c].now <= clock
  BY <1>1 DEF AnswerServed
<1> QED
  BY <1>1, <1>2, <1>3

LEMMA TransferAnsweredKey ==
  ASSUME KeyInv, ~bearer.done, UNCHANGED clock, NEW c \in Contexts, TransferAnswered(c)
  PROVE  KeyInv'
<1>1. Refreshes /\ UNCHANGED <<cache, fetch>> /\ ctx[c].live
  BY DEF Refreshes, TransferAnswered
<1>2. PICK n \in Answers(ctx[c].policy.jwks_uri) : ctx' = [ctx EXCEPT ![c].body = n]
  BY DEF TransferAnswered
<1>3. /\ ctx[c] \in Transfers /\ ctx[c].policy \in Policies /\ ctx[c].now \in Nat
      /\ ctx[c].now <= clock
  BY <1>1, TransferTyped
<1>4. /\ n \in Documents
      /\ ~jwks_parse_json(Body(ctx[c].policy.jwks_uri, n)) \/ Served(ctx[c].policy.jwks_uri, n, ctx[c].now)
  BY <1>3, AnswerIsServed
<1> DEFINE x == [ctx[c] EXCEPT !.body = n]
<1>5. x \in Transfers /\ x.policy = ctx[c].policy /\ x.now = ctx[c].now /\ x.body = n
  BY <1>3, <1>4 DEF Transfers
<1>6. ctx' = [ctx EXCEPT ![c] = x]
  BY <1>2
<1> HIDE DEF x
<1>7. AnswerServed(x)
  BY <1>3, <1>4, <1>5 DEF AnswerServed
<1>8. CacheInv'
  BY <1>1, RefreshesKeep, CacheKept
<1> QED
  BY <1>1, <1>5, <1>6, <1>7, <1>8, TransferKey

LEMMA WriteCallbackKey ==
  ASSUME KeyInv, ~bearer.done, UNCHANGED clock, NEW c \in Contexts, write_callback(c)
  PROVE  KeyInv'
<1>1. Refreshes /\ UNCHANGED <<cache, fetch>> /\ ctx[c].live
  BY DEF Refreshes, write_callback, Calls
<1>2. ctx[c] \in Transfers /\ AnswerServed(ctx[c]) /\ ctx[c].len \in Nat
  BY <1>1, TransferTyped
<1>3. CacheInv'
  BY <1>1, RefreshesKeep, CacheKept
<1>4. ASSUME NEW x \in {[ctx[c] EXCEPT !.len = @ + 1], [ctx[c] EXCEPT !.error = TRUE]},
             ctx' = [ctx EXCEPT ![c] = x]
      PROVE  KeyInv'
  <2>1. /\ x \in Transfers /\ x.live = ctx[c].live /\ x.policy = ctx[c].policy
        /\ x.now = ctx[c].now /\ x.body = ctx[c].body
    <3>1. CASE x = [ctx[c] EXCEPT !.len = @ + 1]
      <4> DEFINE m == ctx[c].len + 1
      <4>1. m \in Nat /\ x = [ctx[c] EXCEPT !.len = m]
        BY <1>2, <3>1
      <4> HIDE DEF m
      <4> QED
        BY <1>2, <4>1 DEF Transfers
    <3>2. CASE x = [ctx[c] EXCEPT !.error = TRUE]
      BY <1>2, <3>2 DEF Transfers
    <3> QED
      BY <1>4, <3>1, <3>2
  <2>2. AnswerServed(x)
    BY <1>2, <2>1 DEF AnswerServed
  <2> QED
    BY <1>1, <1>3, <1>4, <2>1, <2>2, TransferKey
<1>5. \/ ctx' = [ctx EXCEPT ![c] = [ctx[c] EXCEPT !.len = @ + 1]]
      \/ ctx' = [ctx EXCEPT ![c] = [ctx[c] EXCEPT !.error = TRUE]]
  BY DEF write_callback
<1> QED
  BY <1>4, <1>5

LEMMA ParseFinishKey ==
  ASSUME KeyInv, ~bearer.done, UNCHANGED clock, NEW c \in Contexts, parse_finish(c)
  PROVE  KeyInv'
<1>1. Refreshes /\ UNCHANGED fetch /\ ctx[c].live
  BY DEF Refreshes, parse_finish, Calls
<1>2. /\ ctx[c] \in Transfers /\ ctx[c].policy \in Policies /\ ctx[c].now \in Nat
      /\ ctx[c].now <= clock /\ AnswerServed(ctx[c])
  BY <1>1, TransferTyped
<1>3. CASE UNCHANGED <<cache, ctx>>
  <2>1. ctx' = [ctx EXCEPT ![c] = ctx[c]]
    BY <1>3 DEF KeyInv, KeyTypeOK
  <2>2. CacheInv'
    BY <1>1, <1>3, RefreshesKeep, CacheKept
  <2> QED
    BY <1>1, <1>2, <2>1, <2>2, TransferKey
<1>4. CASE \E r \in update_json(ctx[c].policy, ctx[c].now, Received(ctx[c])) :
             cache' = r.cache /\ ctx' = [ctx EXCEPT ![c].error = ~r.ok]
  <2> DEFINE body == Received(ctx[c])
  <2>1. PICK r \in update_json(ctx[c].policy, ctx[c].now, body) :
          cache' = r.cache /\ ctx' = [ctx EXCEPT ![c].error = ~r.ok]
    BY <1>4
  <2>2. jwks_parse_json(body) =>
          /\ body.keys = Body(ctx[c].policy.jwks_uri, ctx[c].body).keys
          /\ Served(ctx[c].policy.jwks_uri, ctx[c].body, ctx[c].now)
    <3> SUFFICES ASSUME jwks_parse_json(body)
                 PROVE  /\ body.keys = Body(ctx[c].policy.jwks_uri, ctx[c].body).keys
                        /\ Served(ctx[c].policy.jwks_uri, ctx[c].body, ctx[c].now)
      OBVIOUS
    <3>1. ctx[c].body # Unanswered
      BY DEF jwks_parse_json, Received
    <3>2. /\ body.keys = Body(ctx[c].policy.jwks_uri, ctx[c].body).keys
          /\ body.json => Body(ctx[c].policy.jwks_uri, ctx[c].body).json
      BY <3>1 DEF Received
    <3>3. jwks_parse_json(Body(ctx[c].policy.jwks_uri, ctx[c].body))
      <4> HIDE DEF body
      <4> QED
        BY <3>2 DEF jwks_parse_json
    <3> QED
      BY <1>1, <1>2, <3>1, <3>2, <3>3 DEF AnswerServed
  <2> HIDE DEF body
  <2>3. CacheInv' /\ r.ok \in BOOLEAN
    BY <1>1, <1>2, <2>1, <2>2, UpdateKeepsCache
  <2> DEFINE x == [ctx[c] EXCEPT !.error = ~r.ok]
  <2>4. /\ x \in Transfers /\ x.live = ctx[c].live /\ x.policy = ctx[c].policy
        /\ x.now = ctx[c].now /\ x.body = ctx[c].body
    BY <1>2, <2>3 DEF Transfers
  <2>5. ctx' = [ctx EXCEPT ![c] = x]
    BY <2>1
  <2> HIDE DEF x
  <2>6. AnswerServed(x)
    BY <1>2, <2>4 DEF AnswerServed
  <2> QED
    BY <1>1, <2>3, <2>4, <2>5, <2>6, TransferKey
<1> QED
  BY <1>3, <1>4 DEF parse_finish

LEMMA CleanupsKey ==
  ASSUME KeyInv, ~bearer.done, UNCHANGED clock,
         cache_cleanup \/ \E c \in Contexts : parse_cleanup(c)
  PROVE  KeyInv'
<1>1. CASE cache_cleanup
  <2>1. Refreshes /\ UNCHANGED <<ctx, fetch>> /\ cache' = EmptyCache
    BY <1>1 DEF Refreshes, cache_cleanup, Calls
  <2>2. Kept /\ ~bearer'.done
    BY <2>1, RefreshesKeep
  <2>3. CacheInv'
    BY <2>1 DEF CacheInv, EmptyCache
  <2>4. KeyTypeOK'
    BY <2>1 DEF KeyInv, KeyTypeOK, Refreshes
  <2>5. AnswerServed(fetch)' /\ \A c \in Contexts : AnswerServed(ctx[c])'
    BY <2>1, <2>2, FetchKept, ContextKept
  <2> QED
    BY <2>2, <2>3, <2>4, <2>5 DEF KeyInv, AcceptedKeyIsRecent
<1>2. ASSUME NEW c \in Contexts, parse_cleanup(c) PROVE KeyInv'
  <2>1. Refreshes /\ UNCHANGED <<cache, fetch>> /\ ctx' = [ctx EXCEPT ![c] = NoContext]
    BY <1>2 DEF Refreshes, parse_cleanup, Calls
  <2>2. AnswerServed(NoContext)
    BY DEF AnswerServed, NoContext
  <2>3. CacheInv'
    BY <2>1, RefreshesKeep, CacheKept
  <2> QED
    BY <2>1, <2>2, <2>3, TransferKey
<1> QED
  BY <1>1, <1>2

\* A token is accepted only with a key of a cache that fits the policy.
LEMMA AcceptedWithKey ==
  ASSUME NEW h, NEW p, NEW claimPolicy, validate_bearer_token(h, p, claimPolicy) = "NONE",
         cache.has_jwks => DOMAIN cache.keys \subseteq Nat
  PROVE  /\ matches_policy(p, clock)
         /\ \E i \in DOMAIN cache.keys : cache.keys[i].material = h.token.signer
<1> DEFINE d == Decoded[h]
           kid == Value(d.header, "kid")
           fits == select_bearer_key(cache.keys, kid, Value(d.header, "alg"))
<1>1. /\ matches_policy(p, clock) /\ fits # {}
      /\ validate_signature(h.token, d.header, cache.keys[Min(fits)])
  BY DEF validate_bearer_token
<1>2. fits \subseteq DOMAIN cache.keys
  BY DEF select_bearer_key
<1> HIDE DEF fits
<1>3. cache.has_jwks
  BY <1>1 DEF matches_policy
<1>4. Min(fits) \in fits
  <2>1. fits \in SUBSET Nat
    BY <1>2, <1>3
  <2> QED
    BY <1>1, <2>1, MinIsMember
<1>5. h.token.signer = cache.keys[Min(fits)].material
  BY <1>1 DEF validate_signature, verify_jws
<1> QED
  BY <1>1, <1>2, <1>4, <1>5

LEMMA ValidateKey ==
  ASSUME KeyInv, scene' = "bearer", UNCHANGED clock, NEW h \in Tokens, NEW p \in Policies,
         NEW s \in ClaimSkews, Validate(h, p, s)
  PROVE  KeyInv'
<1> DEFINE claimPolicy == [ClaimPolicy(p) EXCEPT !.skew = s, !.now = clock]
<1>1. /\ UNCHANGED <<published, retired, cache, ctx, fetch>>
      /\ bearer' = [done |-> TRUE, policy |-> p, skew |-> s, presented |-> h,
                    failure |-> validate_bearer_token(h, p, claimPolicy)]
  BY DEF Validate
<1>2. KeyTypeOK' /\ CacheInv' /\ AnswerServed(fetch)' /\ \A c \in Contexts : AnswerServed(ctx[c])'
  <2>1. Kept
    BY <1>1, StillKept DEF KeyInv, KeyTypeOK
  <2>2. KeyTypeOK'
    BY <1>1 DEF KeyInv, KeyTypeOK
  <2> QED
    BY <1>1, <2>1, <2>2, FetchKept, ContextKept, CacheKept
<1>3. bearer'.policy = p /\ bearer'.presented = h
      /\ bearer'.failure = validate_bearer_token(h, p, claimPolicy)
  BY <1>1
<1> HIDE DEF claimPolicy
<1>4. AcceptedKeyIsRecent'
  <2> SUFFICES ASSUME bearer'.failure = "NONE"
               PROVE  \E n \in Documents, q \in Policies :
                        /\ q.issuer = p.issuer /\ q.jwks_uri = p.jwks_uri
                        /\ \E i \in DOMAIN Body(p.jwks_uri, n).keys :
                             Body(p.jwks_uri, n).keys[i].material = h.token.signer
                        /\ \/ published[p.jwks_uri] = n
                           \/ n < published[p.jwks_uri] /\ retired[p.jwks_uri][n] > clock - q.ttl
    BY <1>1, <1>3 DEF AcceptedKeyIsRecent
  <2>1. cache.has_jwks => DOMAIN cache.keys \subseteq Nat
    BY BearerAssumption DEF KeyInv, CacheInv
  <2>2. /\ matches_policy(p, clock)
        /\ \E i \in DOMAIN cache.keys : cache.keys[i].material = h.token.signer
    BY <1>3, <2>1, AcceptedWithKey
  <2>3. /\ cache.has_jwks /\ cache.issuer = p.issuer /\ cache.jwks_uri = p.jwks_uri
        /\ clock < cache.expires_at
    BY <2>2 DEF matches_policy
  <2>4. PICK n \in Documents, q \in Policies :
          /\ cache.issuer = q.issuer /\ cache.jwks_uri = q.jwks_uri
          /\ cache.keys = Body(q.jwks_uri, n).keys
          /\ cache.expires_at \in Int
          /\ Served(q.jwks_uri, n, cache.expires_at - q.ttl)
    BY <2>3 DEF KeyInv, CacheInv
  <2> DEFINE u == p.jwks_uri
  <2>5. u \in Uris /\ q.jwks_uri = u /\ q.issuer = p.issuer
    BY <2>3, <2>4, PolicyUri
  <2>6. published[u] = n \/ (n < published[u] /\ retired[u][n] > clock - q.ttl)
    <3>1. /\ n \in Nat /\ n >= 1 /\ n <= published[u]
          /\ (n < published[u] => retired[u][n] >= cache.expires_at - q.ttl)
      BY <2>4, <2>5, BearerAssumption DEF Served
    <3>2. /\ published[u] \in Nat /\ retired[u] \in Seq(Nat) /\ clock \in Nat
          /\ Len(retired[u]) = published[u] - 1 /\ q.ttl \in Int
      BY <2>5, BearerAssumption DEF KeyInv, KeyTypeOK
    <3>3. CASE n < published[u]
      <4>1. n \in 1..Len(retired[u])
        BY <3>1, <3>2, <3>3
      <4> DEFINE old == retired[u]
                 e == cache.expires_at
                 t == q.ttl
      <4>2. old \in Seq(Nat) /\ n \in 1..Len(old)
        BY <3>2, <4>1
      <4>3. old[n] \in Nat
        <5> HIDE DEF old
        <5> QED
          BY <4>2
      <4>4. /\ old[n] >= e - t /\ clock < e /\ e \in Int /\ t \in Int /\ clock \in Nat
        BY <2>3, <2>4, <3>1, <3>2, <3>3
      <4>5. old[n] > clock - t
        <5> HIDE DEF old, e, t
        <5> QED
          BY <4>3, <4>4
      <4> QED
        BY <3>3, <4>5
    <3>4. CASE ~(n < published[u])
      BY <3>1, <3>2, <3>4
    <3> QED
      BY <3>3, <3>4
  <2>7. \E i \in DOMAIN Body(u, n).keys : Body(u, n).keys[i].material = h.token.signer
    BY <2>2, <2>4, <2>5
  <2> QED
    BY <2>5, <2>6, <2>7
<1> QED
  BY <1>2, <1>4 DEF KeyInv

LEMMA BearerStep ==
  ASSUME KeyInv, scene = "bearer", UNCHANGED scene, BearerNext
  PROVE  KeyInv'
<1>0. clock \in Nat
  BY DEF KeyInv, KeyTypeOK
<1>1. CASE bearer_validation_cleanup /\ UNCHANGED clock
  BY <1>0, <1>1, TimeKey DEF bearer_validation_cleanup, NoBearer
<1>2. CASE ~bearer.done /\ Tick(MaxKeyTime) /\ UNCHANGED bearerVars
  BY <1>0, <1>2, TimeKey DEF Tick, bearerVars
<1>3. CASE ~bearer.done /\ UNCHANGED clock /\ \E u \in Uris : Rotate(u)
  BY <1>3, RotateKey
<1>4. CASE ~bearer.done /\ UNCHANGED clock /\ \E p \in Policies : Refresh(p)
  BY <1>4, RefreshKey
<1>5. CASE ~bearer.done /\ UNCHANGED clock /\ (RefreshAnswered \/ RefreshReturns)
  BY <1>5, RefreshAnsweredKey, RefreshReturnsKey
<1>6. CASE ~bearer.done /\ UNCHANGED clock /\ \E c \in Contexts, p \in Policies : parse_init(c, p)
  BY <1>6, ParseInitKey
<1>7. CASE /\ ~bearer.done /\ UNCHANGED clock
           /\ \E c \in Contexts : TransferAnswered(c) \/ write_callback(c) \/ parse_finish(c)
  BY <1>7, TransferAnsweredKey, WriteCallbackKey, ParseFinishKey
<1>8. CASE /\ ~bearer.done /\ UNCHANGED clock
           /\ cache_cleanup \/ \E c \in Contexts : parse_cleanup(c)
  BY <1>8, CleanupsKey
<1>9. CASE /\ ~bearer.done /\ UNCHANGED clock
           /\ \E h \in Tokens, p \in Policies, s \in ClaimSkews : Validate(h, p, s)
  BY <1>9, ValidateKey
<1> QED
  BY <1>1, <1>2, <1>3, <1>4, <1>5, <1>6, <1>7, <1>8, <1>9 DEF BearerNext

LEMMA KeyInductive ==
  ASSUME KeyInv, [Next]_authVars
  PROVE  KeyInv'
<1>0. clock \in Nat
  BY DEF KeyInv, KeyTypeOK
<1>1. CASE scene = "bearer" /\ UNCHANGED scene /\ BearerNext
  BY <1>1, BearerStep
<1>2. CASE scene = "flow" /\ UNCHANGED scene /\ FlowNext /\ UNCHANGED bearerVars
  <2>1. UNCHANGED clock \/ Tick(MaxFlowTime)
    BY <1>2 DEF FlowNext
  <2>2. ~bearer.done
    BY <1>2 DEF KeyInv
  <2> QED
    BY <1>0, <1>2, <2>1, <2>2, TimeKey DEF Tick, bearerVars
<1>3. CASE UNCHANGED <<scene, clock, bearerVars>>
  BY <1>3 DEF KeyInv, KeyTypeOK, AnswerServed, CacheInv, Served, AcceptedKeyIsRecent, bearerVars
<1> QED
  BY <1>1, <1>2, <1>3 DEF Next, authVars

(* lonejson_oidc_validate_bearer_token over a cache that is filled by       *)
(* refreshes that overlap, fail, return late and in any order while issuers *)
(* rotate their keys: the key that verified an accepted token is one the    *)
(* policy's issuer publishes or published less than a ttl ago, for any      *)
(* policies, documents, tokens and contexts.                                *)
THEOREM AcceptedKeysAreRecent == Spec => []AcceptedKeyIsRecent
<1>1. Init => KeyInv
  BY KeyInitial DEF Init
<1>2. KeyInv /\ [Next]_authVars => KeyInv'
  BY KeyInductive
<1>3. KeyInv => AcceptedKeyIsRecent
  BY DEF KeyInv
<1> QED
  BY <1>1, <1>2, <1>3, PTL DEF Spec

=============================================================================
