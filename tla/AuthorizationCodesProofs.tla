----------------------- MODULE AuthorizationCodesProofs -----------------------
(***************************************************************************)
(* Proofs about AuthorizationCodes.                                         *)
(***************************************************************************)
EXTENDS AuthorizationCodes, TLAPS

USE CodesAssumption, SentinelAssumption

-----------------------------------------------------------------------------
(* What the variables hold.                                                 *)

\* What a thread is doing when it serves a submission ...
LEMMA SubmissionType ==
  ASSUME TypeOK, NEW p \in Threads, Submitting(p)
  PROVE  /\ thread[p] \in Submissions
         /\ thread[p].session \in Sessions /\ thread[p].of \in Requests
         /\ thread[p].decision \in Decisions /\ thread[p].flag \in BOOLEAN
         /\ thread[p].step \notin {"get", "remove"}
<1>1. thread[p] \in Submissions
  BY DEF TypeOK, Submitting, Redemptions
<1> QED BY <1>1 DEF Submissions

\* ... and when it serves a token request.
LEMMA RedemptionType ==
  ASSUME TypeOK, NEW p \in Threads, Redeeming(p)
  PROVE  /\ thread[p] \in Redemptions
         /\ thread[p].code \in Codes /\ thread[p].client \in Clients
         /\ thread[p].redirect \in Redirects \cup {None}
         /\ thread[p].auth \in Authentications \cup {None}
<1>1. thread[p] \in Redemptions
  BY DEF TypeOK, Redeeming, Submissions
<1> QED BY <1>1 DEF Redemptions

\* A request, when it was made.
LEMMA RequestType ==
  ASSUME TypeOK, NEW q \in Requests, request[q] # None
  PROVE  /\ request[q] \in RequestObjects
         /\ request[q].session \in Sessions /\ request[q].client \in Clients
         /\ request[q].redirect \in Redirects \cup {None}
         /\ request[q].parameter \in Decisions \cup {None}
         /\ request[q].approved \in BOOLEAN
<1>1. request[q] \in RequestObjects
  BY DEF TypeOK
<1> QED BY <1>1 DEF RequestObjects

\* A code, when it was issued.
LEMMA CodeType ==
  ASSUME TypeOK, NEW c \in Codes
  PROVE  /\ issued[c] # None =>
              /\ issued[c] \in Authentications
              /\ issued[c].of \in Requests /\ issued[c].client \in Clients
              /\ issued[c].session \in Sessions
         /\ codeStore[c] # None =>
              /\ codeStore[c] \in StoredCodes
              /\ codeStore[c].auth \in Authentications
              /\ codeStore[c].expires \in Nat
<1>1. issued[c] # None => issued[c] \in Authentications
  BY DEF TypeOK
<1>2. codeStore[c] # None => codeStore[c] \in StoredCodes
  BY DEF TypeOK
<1> QED BY <1>1, <1>2 DEF Authentications, StoredCodes

\* A thread is idle, or serves the one or the other.
LEMMA Serving ==
  ASSUME TypeOK, NEW p \in Threads
  PROVE  /\ At(p, "get") \/ At(p, "remove") <=> Redeeming(p)
         /\ \A step \in {"setApprovalParameters", "getApprovalParameters",
                         "updateAfterApproval", "isApproved", "setApproved", "answer",
                         "setComplete"} : At(p, step) => Submitting(p)
         /\ Submitting(p) => ~Redeeming(p)
         /\ thread[p] # None => Submitting(p) \/ Redeeming(p)
BY DEF At, Redeeming, Submitting

-----------------------------------------------------------------------------
(* authorize.                                                               *)

LEMMA AuthorizeOK ==
  ASSUME IInv, NEW s \in Sessions, NEW q \in Requests, NEW client \in Clients,
         NEW redirect \in Redirects \cup {None}, Authorize(s, q, client, redirect)
  PROVE  IInv'
<1> DEFINE y == [session |-> s, client |-> client, redirect |-> redirect,
                 parameter |-> None, approved |-> FALSE]
<1>1. /\ y \in RequestObjects /\ y # None
      /\ y.session = s /\ y.parameter = None /\ y.approved = FALSE
      /\ request[q] = None
      /\ request' = [request EXCEPT ![q] = y]
      /\ session' = [session EXCEPT ![s] = q]
      /\ UNCHANGED <<codeServices, now, codeStore, thread, issued, said, decided, redeemed>>
  <2>1. y \in RequestObjects
    BY DEF RequestObjects
  <2> QED BY <2>1 DEF Authorize
<1> HIDE DEF y
<1>2. TypeOK'
  BY <1>1 DEF IInv, TypeOK
<1>3. /\ request'[q] = y
      /\ \A r \in Requests \ {q} : request'[r] = request[r]
      /\ session'[s] = q
      /\ \A t \in Sessions \ {s} : session'[t] = session[t] /\ session[t] \in Requests \cup {None}
  BY <1>1 DEF IInv, TypeOK
<1>4. SessionsHoldRequests'
  BY <1>1, <1>3 DEF IInv, SessionsHoldRequests
<1>5. RequestsSaid'
  BY <1>1, <1>3 DEF IInv, RequestsSaid, Decisions
<1>6. SubmissionsSaid'
  BY <1>1, <1>3, SubmissionType DEF IInv, SubmissionsSaid, Submitting
<1>7. CodesStored'
  BY <1>1, <1>3, CodeType DEF IInv, CodesStored
<1>8. RedemptionsKnow'
  BY <1>1 DEF IInv, RedemptionsKnow, Redeeming, Found
<1>9. NoCodeWithoutApproval'
  BY <1>1, <1>3, CodeType DEF IInv, NoCodeWithoutApproval, CodesStored
<1> QED BY <1>2, <1>4, <1>5, <1>6, <1>7, <1>8, <1>9 DEF IInv

LEMMA AuthorizeRefusedOK ==
  ASSUME IInv, NEW s \in Sessions, NEW client \in Clients,
         NEW redirect \in Redirects \cup {None}, AuthorizeRefused(s, client, redirect)
  PROVE  IInv'
<1>1. /\ session' = [session EXCEPT ![s] = None]
      /\ UNCHANGED <<codeServices, now, request, codeStore, thread, issued, said, decided,
                     redeemed>>
  BY DEF AuthorizeRefused
<1>2. TypeOK'
  BY <1>1 DEF IInv, TypeOK
<1>3. SessionsHoldRequests'
  BY <1>1 DEF IInv, TypeOK, SessionsHoldRequests
<1> QED BY <1>1, <1>2, <1>3 DEF IInv, RequestsSaid, SubmissionsSaid, Submitting, CodesStored,
     RedemptionsKnow, Redeeming, Found, NoCodeWithoutApproval

-----------------------------------------------------------------------------
(* approveOrDeny.                                                           *)

LEMMA SubmitOK ==
  ASSUME IInv, NEW p \in Threads, NEW s \in Sessions, NEW decision \in Decisions,
         Submit(p, s, decision)
  PROVE  IInv'
<1> DEFINE y == [step |-> "setApprovalParameters", session |-> s, of |-> session[s],
                 decision |-> decision, flag |-> FALSE]
<1>1. session[s] # None /\ session[s] \in Requests
  BY DEF Submit, IInv, TypeOK
<1>2. /\ y \in Submissions /\ y # None
      /\ y.step \notin {"get", "remove"} /\ y.session = s /\ y.of = session[s]
      /\ y.decision = decision /\ y.flag = FALSE
      /\ thread' = [thread EXCEPT ![p] = y]
      /\ said' = [said EXCEPT ![session[s]] = @ \cup {decision}]
      /\ UNCHANGED <<codeServices, now, session, request, codeStore, issued, decided, redeemed>>
  <2>1. y \in Submissions
    BY <1>1 DEF Submissions
  <2> QED BY <2>1 DEF Submit
<1> HIDE DEF y
<1>3. /\ thread'[p] = y /\ \A x \in Threads \ {p} : thread'[x] = thread[x]
      /\ decision \in said'[session[s]]
      /\ \A q \in Requests : said[q] \subseteq said'[q]
  BY <1>1, <1>2 DEF IInv, TypeOK
<1>4. TypeOK'
  <2>1. said' \in [Requests -> SUBSET Decisions]
    BY <1>1, <1>2 DEF IInv, TypeOK
  <2> QED BY <1>2, <2>1 DEF IInv, TypeOK
<1>5. SessionsHoldRequests'
  BY <1>2 DEF IInv, SessionsHoldRequests
<1>6. RequestsSaid'
  BY <1>2, <1>3 DEF IInv, RequestsSaid
<1>7. SubmissionsSaid'
  BY <1>1, <1>2, <1>3, SubmissionType DEF IInv, SubmissionsSaid, Submitting, SessionsHoldRequests
<1>8. CodesStored'
  BY <1>2 DEF IInv, CodesStored
<1>9. RedemptionsKnow'
  BY <1>2, <1>3 DEF IInv, RedemptionsKnow, Redeeming, Found
<1>10. NoCodeWithoutApproval'
  BY <1>2, <1>3, CodeType DEF IInv, NoCodeWithoutApproval
<1> QED BY <1>4, <1>5, <1>6, <1>7, <1>8, <1>9, <1>10 DEF IInv

\* One access to the request: its session and client stay, and the submission goes
\* on with the same request and the same answer.
LEMMA SubmissionGoesOn ==
  ASSUME IInv, NEW p \in Threads, Submitting(p), NEW y \in Submissions,
         thread' = [thread EXCEPT ![p] = y],
         y.of = thread[p].of, y.session = thread[p].session, y.decision = thread[p].decision,
         y.flag => "true" \in said[y.of],
         \A q \in Requests :
           /\ request'[q] = None <=> request[q] = None
           /\ request[q] # None =>
                /\ request'[q].session = request[q].session
                /\ request'[q].client = request[q].client,
         UNCHANGED <<codeServices, now, session, codeStore, issued, said, redeemed>>
  PROVE  /\ SessionsHoldRequests' /\ SubmissionsSaid' /\ CodesStored'
         /\ RedemptionsKnow' /\ NoCodeWithoutApproval'
<1>1. /\ thread'[p] = y /\ \A x \in Threads \ {p} : thread'[x] = thread[x]
      /\ y # None /\ y.step \notin {"get", "remove"}
  BY DEF IInv, TypeOK, Submissions
<1>2. SessionsHoldRequests'
  <2>1. \A s \in Sessions : session[s] # None => session[s] \in Requests
    BY DEF IInv, TypeOK
  <2> QED BY <2>1 DEF IInv, SessionsHoldRequests
<1>3. SubmissionsSaid'
  BY <1>1, SubmissionType DEF IInv, SubmissionsSaid, Submitting
<1>4. CodesStored'
  BY CodeType DEF IInv, CodesStored
<1>5. RedemptionsKnow'
  BY <1>1 DEF IInv, RedemptionsKnow, Redeeming, Found
<1>6. NoCodeWithoutApproval'
  BY CodeType DEF IInv, NoCodeWithoutApproval, CodesStored
<1> QED BY <1>2, <1>3, <1>4, <1>5, <1>6

LEMMA SetApprovalParametersOK ==
  ASSUME IInv, NEW p \in Threads, SetApprovalParameters(p)
  PROVE  IInv'
<1> DEFINE q == thread[p].of
           r == [request[q] EXCEPT !.parameter = thread[p].decision]
           y == [thread[p] EXCEPT !.step = "getApprovalParameters"]
<1>1. /\ Submitting(p) /\ thread[p] \in Submissions /\ q \in Requests
      /\ thread[p].decision \in Decisions
  BY SubmissionType, Serving DEF SetApprovalParameters, IInv
<1>2. /\ request[q] # None /\ request[q] \in RequestObjects
      /\ thread[p].decision = "true" => "true" \in said[q]
      /\ thread[p].flag => "true" \in said[q]
  BY <1>1, RequestType DEF IInv, SubmissionsSaid
<1>3. /\ y \in Submissions /\ y.of = thread[p].of /\ y.session = thread[p].session
      /\ y.decision = thread[p].decision /\ y.flag = thread[p].flag
      /\ thread' = [thread EXCEPT ![p] = y]
  BY <1>1 DEF SetApprovalParameters, Goto, Submissions
<1>4. /\ r \in RequestObjects /\ r # None
      /\ r.session = request[q].session /\ r.client = request[q].client
      /\ r.parameter = thread[p].decision /\ r.approved = request[q].approved
  BY <1>1, <1>2 DEF RequestObjects
<1>5. /\ request' = [request EXCEPT ![q] = r]
      /\ UNCHANGED <<codeServices, now, session, codeStore, issued, said, decided, redeemed>>
  BY DEF SetApprovalParameters
<1> HIDE DEF q, r, y
<1>6. request'[q] = r /\ \A x \in Requests \ {q} : request'[x] = request[x]
  BY <1>1, <1>5 DEF IInv, TypeOK
<1>7. TypeOK'
  BY <1>1, <1>3, <1>4, <1>5 DEF IInv, TypeOK
<1>8. RequestsSaid'
  BY <1>1, <1>2, <1>4, <1>5, <1>6 DEF IInv, RequestsSaid
<1>9. /\ SessionsHoldRequests' /\ SubmissionsSaid' /\ CodesStored'
      /\ RedemptionsKnow' /\ NoCodeWithoutApproval'
  BY <1>1, <1>2, <1>3, <1>4, <1>5, <1>6, SubmissionGoesOn DEF q
<1> QED BY <1>7, <1>8, <1>9 DEF IInv

LEMMA GetApprovalParametersOK ==
  ASSUME IInv, NEW p \in Threads, GetApprovalParameters(p)
  PROVE  IInv'
<1> DEFINE q == thread[p].of
           flag == request[q].parameter = "true"
           y == [thread[p] EXCEPT !.step = "updateAfterApproval", !.flag = flag]
<1>1. Submitting(p) /\ thread[p] \in Submissions /\ q \in Requests
  BY SubmissionType, Serving DEF GetApprovalParameters, IInv
<1>2. request[q] # None /\ (flag => "true" \in said[q])
  BY <1>1 DEF IInv, SubmissionsSaid, RequestsSaid
<1>3. /\ y \in Submissions /\ y.of = thread[p].of /\ y.session = thread[p].session
      /\ y.decision = thread[p].decision /\ (y.flag <=> flag)
  <2>1. flag \in BOOLEAN /\ "updateAfterApproval" \in {"setApprovalParameters",
           "getApprovalParameters", "updateAfterApproval",
           "isApproved", "setApproved", "answer", "setComplete"}
    OBVIOUS
  <2> HIDE DEF flag
  <2> QED BY <1>1, <2>1, Zenon DEF Submissions
<1>4. /\ thread' = [thread EXCEPT ![p] = y]
      /\ UNCHANGED <<codeServices, now, session, request, codeStore, issued, said, decided, redeemed>>
  BY Zenon DEF GetApprovalParameters
<1> HIDE DEF q, flag, y
<1>5. TypeOK'
  BY <1>3, <1>4 DEF IInv, TypeOK
<1>6. RequestsSaid'
  BY <1>4 DEF IInv, RequestsSaid
<1>7. /\ SessionsHoldRequests' /\ SubmissionsSaid' /\ CodesStored'
      /\ RedemptionsKnow' /\ NoCodeWithoutApproval'
  BY <1>1, <1>2, <1>3, <1>4, SubmissionGoesOn DEF q
<1> QED BY <1>5, <1>6, <1>7 DEF IInv

LEMMA SetApprovedOK ==
  ASSUME IInv, NEW p \in Threads, NEW step \in {"updateAfterApproval", "setApproved"},
         NEW next \in {"isApproved", "answer"}, SetApproved(p, step, next)
  PROVE  IInv'
<1> DEFINE q == thread[p].of
           r == [request[q] EXCEPT !.approved = thread[p].flag]
           y == [thread[p] EXCEPT !.step = next]
<1>1. /\ Submitting(p) /\ thread[p] \in Submissions /\ q \in Requests
      /\ thread[p].flag \in BOOLEAN
  BY SubmissionType, Serving DEF SetApproved, IInv
<1>2. /\ request[q] # None /\ request[q] \in RequestObjects
      /\ thread[p].flag => "true" \in said[q]
  BY <1>1, RequestType DEF IInv, SubmissionsSaid
<1>3. /\ y \in Submissions /\ y.of = thread[p].of /\ y.session = thread[p].session
      /\ y.decision = thread[p].decision /\ y.flag = thread[p].flag
      /\ thread' = [thread EXCEPT ![p] = y]
  BY <1>1 DEF SetApproved, Goto, Submissions
<1>4. /\ r \in RequestObjects /\ r # None
      /\ r.session = request[q].session /\ r.client = request[q].client
      /\ r.parameter = request[q].parameter /\ r.approved = thread[p].flag
  BY <1>1, <1>2 DEF RequestObjects
<1>5. /\ request' = [request EXCEPT ![q] = r]
      /\ UNCHANGED <<codeServices, now, session, codeStore, issued, said, decided, redeemed>>
  BY DEF SetApproved
<1> HIDE DEF q, r, y
<1>6. request'[q] = r /\ \A x \in Requests \ {q} : request'[x] = request[x]
  BY <1>1, <1>5 DEF IInv, TypeOK
<1>7. TypeOK'
  BY <1>1, <1>3, <1>4, <1>5 DEF IInv, TypeOK
<1>8. RequestsSaid'
  BY <1>1, <1>2, <1>4, <1>5, <1>6 DEF IInv, RequestsSaid
<1>9. /\ SessionsHoldRequests' /\ SubmissionsSaid' /\ CodesStored'
      /\ RedemptionsKnow' /\ NoCodeWithoutApproval'
  BY <1>1, <1>2, <1>3, <1>4, <1>5, <1>6, SubmissionGoesOn DEF q
<1> QED BY <1>7, <1>8, <1>9 DEF IInv

LEMMA IsApprovedOK ==
  ASSUME IInv, NEW p \in Threads, IsApproved(p)
  PROVE  IInv'
<1> DEFINE q == thread[p].of
           flag == request[q].approved
           y == [thread[p] EXCEPT !.step = "setApproved", !.flag = flag]
<1>1. Submitting(p) /\ thread[p] \in Submissions /\ q \in Requests
  BY SubmissionType, Serving DEF IsApproved, IInv
<1>2. request[q] # None /\ flag \in BOOLEAN /\ (flag => "true" \in said[q])
  BY <1>1, RequestType DEF IInv, SubmissionsSaid, RequestsSaid
<1>3. /\ y \in Submissions /\ y.of = thread[p].of /\ y.session = thread[p].session
      /\ y.decision = thread[p].decision /\ (y.flag <=> flag)
  <2>1. "setApproved" \in {"setApprovalParameters", "getApprovalParameters",
           "updateAfterApproval", "isApproved", "setApproved", "answer", "setComplete"}
    OBVIOUS
  <2> HIDE DEF flag
  <2> QED BY <1>1, <1>2, <2>1, Zenon DEF Submissions
<1>4. /\ thread' = [thread EXCEPT ![p] = y]
      /\ UNCHANGED <<codeServices, now, session, request, codeStore, issued, said, decided, redeemed>>
  BY Zenon DEF IsApproved
<1> HIDE DEF q, flag, y
<1>5. TypeOK'
  BY <1>3, <1>4 DEF IInv, TypeOK
<1>6. RequestsSaid'
  BY <1>4 DEF IInv, RequestsSaid
<1>7. /\ SessionsHoldRequests' /\ SubmissionsSaid' /\ CodesStored'
      /\ RedemptionsKnow' /\ NoCodeWithoutApproval'
  BY <1>1, <1>2, <1>3, <1>4, SubmissionGoesOn DEF q
<1> QED BY <1>5, <1>6, <1>7 DEF IInv

LEMMA DenyOK ==
  ASSUME IInv, NEW p \in Threads, Deny(p)
  PROVE  IInv'
<1> DEFINE q == thread[p].of
           y == [thread[p] EXCEPT !.step = "setComplete"]
<1>1. Submitting(p) /\ thread[p] \in Submissions /\ q \in Requests
  BY SubmissionType, Serving DEF Deny, IInv
<1>2. request[q] # None /\ (thread[p].flag => "true" \in said[q])
  BY <1>1 DEF IInv, SubmissionsSaid
<1>3. /\ y \in Submissions /\ y.of = thread[p].of /\ y.session = thread[p].session
      /\ y.decision = thread[p].decision /\ y.flag = thread[p].flag
      /\ thread' = [thread EXCEPT ![p] = y]
  BY <1>1 DEF Deny, Goto, Submissions
<1>4. /\ decided' = [decided EXCEPT ![q] = "denied"]
      /\ UNCHANGED <<codeServices, now, session, request, codeStore, issued, said, redeemed>>
  BY DEF Deny
<1> HIDE DEF q, y
<1>5. TypeOK'
  BY <1>1, <1>3, <1>4 DEF IInv, TypeOK
<1>6. RequestsSaid'
  BY <1>1, <1>2, <1>4 DEF IInv, TypeOK, RequestsSaid
<1>7. /\ SessionsHoldRequests' /\ SubmissionsSaid' /\ CodesStored'
      /\ RedemptionsKnow' /\ NoCodeWithoutApproval'
  BY <1>1, <1>2, <1>3, <1>4, SubmissionGoesOn DEF q
<1> QED BY <1>5, <1>6, <1>7 DEF IInv

LEMMA SetCompleteOK ==
  ASSUME IInv, NEW p \in Threads, SetComplete(p)
  PROVE  IInv'
<1>1. Submitting(p) /\ thread[p].session \in Sessions
  BY SubmissionType, Serving DEF SetComplete, IInv
<1>2. /\ session' = [session EXCEPT ![thread[p].session] = None]
      /\ thread' = [thread EXCEPT ![p] = None]
      /\ UNCHANGED <<codeServices, now, request, codeStore, issued, said, decided, redeemed>>
  BY DEF SetComplete, Idle
<1>3. TypeOK'
  BY <1>1, <1>2 DEF IInv, TypeOK
<1>4. \A x \in Threads : thread'[x] # None => thread'[x] = thread[x]
  BY <1>2 DEF IInv, TypeOK
<1>5. SessionsHoldRequests'
  BY <1>1, <1>2 DEF IInv, TypeOK, SessionsHoldRequests
<1>6. SubmissionsSaid'
  BY <1>2, <1>4 DEF IInv, SubmissionsSaid, Submitting
<1>7. RedemptionsKnow'
  BY <1>2, <1>4 DEF IInv, RedemptionsKnow, Redeeming, Found
<1> QED BY <1>2, <1>3, <1>5, <1>6, <1>7 DEF IInv, RequestsSaid, CodesStored, NoCodeWithoutApproval

LEMMA GenerateCodeOK ==
  ASSUME IInv, NEW p \in Threads, NEW c \in Codes, GenerateCode(p, c)
  PROVE  IInv'
<1> DEFINE q == thread[p].of
           auth == [of |-> q, session |-> request[q].session, client |-> request[q].client,
                    redirect |-> request[q].redirect, decision |-> thread[p].decision]
           code == [auth |-> auth, expires |-> now + TimeToLive]
           y == [thread[p] EXCEPT !.step = "setComplete"]
<1>1. /\ Submitting(p) /\ thread[p] \in Submissions /\ q \in Requests
      /\ thread[p].decision \in Decisions
  BY SubmissionType, Serving DEF GenerateCode, IInv
<1>2. request[q] # None /\ request[q].approved /\ "true" \in said[q]
  BY <1>1 DEF GenerateCode, IInv, SubmissionsSaid, RequestsSaid
<1>3. /\ y \in Submissions /\ y.of = thread[p].of /\ y.session = thread[p].session
      /\ y.decision = thread[p].decision /\ y.flag = thread[p].flag
      /\ thread' = [thread EXCEPT ![p] = y]
  BY <1>1 DEF GenerateCode, Goto, Submissions
<1>4. /\ auth \in Authentications /\ auth # None
      /\ auth.of = q /\ auth.session = request[q].session /\ auth.client = request[q].client
  <2>1. auth \in Authentications
    BY <1>1, <1>2, RequestType DEF IInv, Authentications
  <2> QED BY <2>1
<1>5. /\ issued[c] = None
      /\ issued' = [issued EXCEPT ![c] = auth]
      /\ codeStore' = [codeStore EXCEPT ![c] = code]
      /\ decided' = [decided EXCEPT ![q] = "approved"]
      /\ UNCHANGED <<codeServices, now, session, request, said, redeemed>>
  BY DEF GenerateCode
<1> HIDE DEF auth
<1>6. code \in StoredCodes /\ code # None /\ code.auth = auth
  <2>1. code \in StoredCodes
    BY <1>4 DEF IInv, TypeOK, StoredCodes
  <2> QED BY <2>1
<1> HIDE DEF q, code, y
<1>7. TypeOK'
  <2>1. issued' \in [Codes -> Authentications \cup {None}]
    BY <1>4, <1>5 DEF IInv, TypeOK
  <2>2. codeStore' \in [Codes -> StoredCodes \cup {None}]
    BY <1>5, <1>6 DEF IInv, TypeOK
  <2> QED BY <1>1, <1>3, <1>5, <2>1, <2>2 DEF IInv, TypeOK
<1>8. /\ thread'[p] = y /\ \A x \in Threads \ {p} : thread'[x] = thread[x]
      /\ y # None /\ y.step \notin {"get", "remove"}
  BY <1>1, <1>3, SubmissionType DEF IInv, TypeOK, Submissions
<1>9. /\ issued'[c] = auth /\ codeStore'[c] = code
      /\ \A d \in Codes \ {c} : issued'[d] = issued[d] /\ codeStore'[d] = codeStore[d]
  BY <1>5 DEF IInv, TypeOK
<1>10. SessionsHoldRequests'
  BY <1>5 DEF IInv, SessionsHoldRequests
<1>11. RequestsSaid'
  BY <1>1, <1>2, <1>5 DEF IInv, TypeOK, RequestsSaid
<1>12. SubmissionsSaid'
  BY <1>1, <1>2, <1>3, <1>5, <1>8, SubmissionType DEF IInv, SubmissionsSaid, Submitting
<1>13. CodesStored'
  BY <1>2, <1>4, <1>5, <1>6, <1>9 DEF IInv, CodesStored
<1>14. RedemptionsKnow'
  <2>1. \A d \in Codes \ {c} : Found(d)' <=> Found(d)
    BY <1>5, <1>9 DEF Found
  <2>2. \A x \in Threads : Redeeming(x)' =>
          /\ Redeeming(x) /\ thread'[x] = thread[x]
          /\ thread[x].code \in Codes \ {c}
    BY <1>5, <1>8, RedemptionType DEF IInv, RedemptionsKnow, Redeeming
  <2>3. \A x \in Threads : Redeeming(x)' => issued'[thread[x].code] = issued[thread[x].code]
    BY <1>9, <2>2
  <2> QED BY <2>1, <2>2, <2>3 DEF IInv, RedemptionsKnow
<1>15. NoCodeWithoutApproval'
  BY <1>1, <1>2, <1>4, <1>5, <1>9 DEF IInv, NoCodeWithoutApproval
<1> QED BY <1>7, <1>10, <1>11, <1>12, <1>13, <1>14, <1>15 DEF IInv

-----------------------------------------------------------------------------
(* The token request.                                                       *)

LEMMA RedeemOK ==
  ASSUME IInv, NEW p \in Threads, NEW c \in Codes, NEW client \in Clients,
         NEW redirect \in Redirects \cup {None}, Redeem(p, c, client, redirect)
  PROVE  IInv'
<1> DEFINE y == [step |-> "get", code |-> c, client |-> client, redirect |-> redirect,
                 auth |-> None]
<1>1. /\ y \in Redemptions /\ y # None
      /\ y.step = "get" /\ y.code = c /\ y.auth = None
      /\ issued[c] # None
      /\ thread' = [thread EXCEPT ![p] = y]
      /\ UNCHANGED <<codeServices, now, session, request, codeStore, issued, said, decided,
                     redeemed>>
  <2>1. y \in Redemptions
    BY DEF Redemptions
  <2> QED BY <2>1 DEF Redeem
<1> HIDE DEF y
<1>2. thread'[p] = y /\ \A x \in Threads \ {p} : thread'[x] = thread[x]
  BY <1>1 DEF IInv, TypeOK
<1>3. TypeOK'
  BY <1>1 DEF IInv, TypeOK
<1>4. SubmissionsSaid'
  BY <1>1, <1>2 DEF IInv, SubmissionsSaid, Submitting
<1>5. RedemptionsKnow'
  BY <1>1, <1>2 DEF IInv, RedemptionsKnow, Redeeming, Found
<1> QED BY <1>1, <1>3, <1>4, <1>5 DEF IInv, SessionsHoldRequests, RequestsSaid, CodesStored,
     NoCodeWithoutApproval

\* What get makes of the token request.
LEMMA GetStep ==
  ASSUME IInv, NEW p \in Threads, Get(p)
  PROVE  LET c == thread[p].code
             auth == IF Found(c) THEN codeStore[c].auth ELSE None
             y == [thread[p] EXCEPT !.step = "remove", !.auth = auth]
         IN /\ thread[p] \in Redemptions /\ c \in Codes /\ thread[p].step = "get"
            /\ issued[c] # None
            /\ Found(c) => auth = issued[c]
            /\ y \in Redemptions /\ y # None
            /\ y.step = "remove" /\ y.code = c /\ y.client = thread[p].client
            /\ y.redirect = thread[p].redirect /\ y.auth = auth
            /\ thread' = [thread EXCEPT ![p] = y]
            /\ thread'[p] = y /\ \A x \in Threads \ {p} : thread'[x] = thread[x]
            /\ UNCHANGED <<codeServices, now, session, request, codeStore, issued, said,
                           decided, redeemed>>
<1> DEFINE c == thread[p].code
           auth == IF Found(c) THEN codeStore[c].auth ELSE None
           y == [thread[p] EXCEPT !.step = "remove", !.auth = auth]
<1>1. thread[p] \in Redemptions /\ c \in Codes /\ issued[c] # None /\ thread[p].step = "get"
  BY RedemptionType, Serving DEF Get, At, IInv, RedemptionsKnow
<1>2. auth \in Authentications \cup {None} /\ (Found(c) => auth = issued[c])
  BY <1>1, CodeType DEF IInv, CodesStored, Found
<1>3. /\ y \in Redemptions
      /\ y.step = "remove" /\ y.code = c /\ y.client = thread[p].client
      /\ y.redirect = thread[p].redirect /\ y.auth = auth
  <2>1. "remove" \in {"get", "remove"}
    OBVIOUS
  <2> HIDE DEF auth, c
  <2> QED BY <1>1, <1>2, <2>1, Zenon DEF Redemptions, c
<1>4. /\ thread' = [thread EXCEPT ![p] = y]
      /\ UNCHANGED <<codeServices, now, session, request, codeStore, issued, said,
                     decided, redeemed>>
  BY Zenon DEF Get
<1>5. y # None
  <2> HIDE DEF y
  <2> QED BY <1>3
<1>6. thread'[p] = y /\ \A x \in Threads \ {p} : thread'[x] = thread[x]
  <2> HIDE DEF y
  <2> QED BY <1>4 DEF IInv, TypeOK
<1> HIDE DEF c, auth, y
<1>7. /\ thread[p] \in Redemptions /\ c \in Codes /\ thread[p].step = "get"
      /\ issued[c] # None
      /\ Found(c) => auth = issued[c]
      /\ y \in Redemptions /\ y # None
      /\ y.step = "remove" /\ y.code = c /\ y.client = thread[p].client
      /\ y.redirect = thread[p].redirect /\ y.auth = auth
      /\ thread' = [thread EXCEPT ![p] = y]
      /\ thread'[p] = y /\ \A x \in Threads \ {p} : thread'[x] = thread[x]
      /\ UNCHANGED <<codeServices, now, session, request, codeStore, issued, said,
                     decided, redeemed>>
  BY <1>1, <1>2, <1>3, <1>4, <1>5, <1>6
<1> QED BY <1>7, Zenon DEF c, auth, y

LEMMA GetOK ==
  ASSUME IInv, NEW p \in Threads, Get(p)
  PROVE  IInv'
<1> DEFINE c == thread[p].code
           auth == IF Found(c) THEN codeStore[c].auth ELSE None
           y == [thread[p] EXCEPT !.step = "remove", !.auth = auth]
<1>1. /\ c \in Codes /\ issued[c] # None
      /\ y \in Redemptions /\ y # None
      /\ y.step = "remove" /\ y.code = c /\ y.auth = auth
      /\ thread' = [thread EXCEPT ![p] = y]
      /\ thread'[p] = y /\ \A x \in Threads \ {p} : thread'[x] = thread[x]
      /\ UNCHANGED <<codeServices, now, session, request, codeStore, issued, said,
                     decided, redeemed>>
  BY GetStep, Zenon
<1>2. Found(c) => auth = issued[c]
  BY GetStep, Zenon
<1>3. auth = None => ~Found(c)
  BY <1>1, <1>2
<1>4. auth # None => auth = issued[c]
  BY <1>2
<1> HIDE DEF c, auth, y
<1>5. TypeOK'
  BY <1>1 DEF IInv, TypeOK
<1>6. SubmissionsSaid'
  BY <1>1 DEF IInv, SubmissionsSaid, Submitting
<1>7. RedemptionsKnow'
  BY <1>1, <1>3, <1>4 DEF IInv, RedemptionsKnow, Redeeming, Found
<1> QED BY <1>1, <1>5, <1>6, <1>7 DEF IInv, SessionsHoldRequests, RequestsSaid, CodesStored,
     NoCodeWithoutApproval

\* The store loses the code, if anything, and the client has redeemed it once more, if
\* it was accepted.
LEMMA RemoveStep ==
  ASSUME IInv, NEW p \in Threads, Remove(p)
  PROVE  LET c == thread[p].code
         IN /\ thread[p] \in Redemptions /\ c \in Codes /\ thread[p].client \in Clients
            /\ thread[p].step = "remove" /\ issued[c] # None
            /\ thread[p].auth # None => codeStore'[c] = None /\ thread[p].auth = issued[c]
            /\ codeStore'[c] = codeStore[c] \/ codeStore'[c] = None
            /\ \A d \in Codes \ {c} : codeStore'[d] = codeStore[d]
            /\ codeStore' \in [Codes -> StoredCodes \cup {None}]
            /\ redeemed' \in [Codes -> [Clients -> Nat]]
            /\ \A d \in Codes, client \in Clients :
                 redeemed'[d][client] =
                   IF Accepted(thread[p]) /\ d = c /\ client = thread[p].client
                   THEN redeemed[d][client] + 1 ELSE redeemed[d][client]
            /\ thread' = [thread EXCEPT ![p] = None]
            /\ thread'[p] = None /\ \A x \in Threads \ {p} : thread'[x] = thread[x]
            /\ UNCHANGED <<codeServices, now, session, request, issued, said, decided>>
<1> DEFINE o == thread[p]
           c == thread[p].code
<1>1. /\ thread[p] \in Redemptions /\ c \in Codes /\ thread[p].client \in Clients
      /\ thread[p].step = "remove" /\ issued[c] # None
      /\ thread[p].auth # None => thread[p].auth = issued[c]
  BY RedemptionType, Serving DEF Remove, At, IInv, RedemptionsKnow
<1>2. /\ codeStore' = Removed(o)
      /\ redeemed' = IF Accepted(o) THEN [redeemed EXCEPT ![o.code][o.client] = @ + 1]
                                    ELSE redeemed
      /\ thread' = [thread EXCEPT ![p] = None]
      /\ UNCHANGED <<codeServices, now, session, request, issued, said, decided>>
  BY DEF Remove, Idle
<1>3. /\ codeStore' \in [Codes -> StoredCodes \cup {None}]
      /\ thread[p].auth # None => codeStore'[c] = None
      /\ codeStore'[c] = codeStore[c] \/ codeStore'[c] = None
      /\ \A d \in Codes \ {c} : codeStore'[d] = codeStore[d]
  BY <1>1, <1>2 DEF Removed, IInv, TypeOK
<1>4. /\ redeemed' \in [Codes -> [Clients -> Nat]]
      /\ \A d \in Codes, client \in Clients :
           redeemed'[d][client] =
             IF Accepted(thread[p]) /\ d = c /\ client = thread[p].client
             THEN redeemed[d][client] + 1 ELSE redeemed[d][client]
  BY <1>1, <1>2 DEF IInv, TypeOK
<1>5. thread'[p] = None /\ \A x \in Threads \ {p} : thread'[x] = thread[x]
  BY <1>2 DEF IInv, TypeOK
<1> QED BY <1>1, <1>2, <1>3, <1>4, <1>5

LEMMA RemoveOK ==
  ASSUME IInv, NEW p \in Threads, Remove(p)
  PROVE  IInv'
<1> DEFINE c == thread[p].code
<1>1. /\ c \in Codes /\ issued[c] # None
      /\ thread[p].auth # None => codeStore'[c] = None
      /\ codeStore'[c] = codeStore[c] \/ codeStore'[c] = None
      /\ \A d \in Codes \ {c} : codeStore'[d] = codeStore[d]
      /\ codeStore' \in [Codes -> StoredCodes \cup {None}]
      /\ redeemed' \in [Codes -> [Clients -> Nat]]
      /\ thread' = [thread EXCEPT ![p] = None]
      /\ thread'[p] = None /\ \A x \in Threads \ {p} : thread'[x] = thread[x]
      /\ UNCHANGED <<codeServices, now, session, request, issued, said, decided>>
  BY RemoveStep
<1>2. \A d \in Codes, client \in Clients : redeemed'[d][client] > 0 =>
        redeemed[d][client] > 0 \/ (d = c /\ thread[p].auth # None)
  BY RemoveStep DEF Accepted
<1>3. \A d \in Codes : codeStore'[d] # None => codeStore'[d] = codeStore[d]
  BY <1>1
<1>4. \A d \in Codes : Found(d)' => Found(d)
  BY <1>1, <1>3 DEF Found
<1> HIDE DEF c
<1>5. TypeOK'
  BY <1>1 DEF IInv, TypeOK
<1>6. SubmissionsSaid'
  BY <1>1 DEF IInv, SubmissionsSaid, Submitting
<1>7. CodesStored'
  BY <1>1, <1>2, <1>3 DEF IInv, CodesStored
<1>8. RedemptionsKnow'
  BY <1>1, <1>4, RedemptionType DEF IInv, RedemptionsKnow, Redeeming
<1> QED BY <1>1, <1>5, <1>6, <1>7, <1>8 DEF IInv, SessionsHoldRequests, RequestsSaid,
     NoCodeWithoutApproval

\* Codes expire.
LEMMA TickOK ==
  ASSUME IInv, Tick
  PROVE  IInv' /\ \A c \in Codes : Found(c)' => Found(c)
<1>1. /\ now \in Nat /\ now' = now + 1
      /\ UNCHANGED <<codeServices, session, request, codeStore, thread, issued, said, decided,
                     redeemed>>
  BY DEF Tick, IInv, TypeOK
<1>2. \A c \in Codes : Found(c)' => Found(c)
  BY <1>1, CodeType DEF Found, IInv
<1>3. TypeOK'
  BY <1>1 DEF IInv, TypeOK
<1>4. RedemptionsKnow'
  BY <1>1, <1>2, RedemptionType DEF IInv, RedemptionsKnow, Redeeming
<1> QED BY <1>1, <1>2, <1>3, <1>4 DEF IInv, SessionsHoldRequests, RequestsSaid, SubmissionsSaid,
     Submitting, CodesStored, NoCodeWithoutApproval

-----------------------------------------------------------------------------
(* The invariant.                                                           *)

LEMMA InitOK == Init => IInv
<1> SUFFICES ASSUME Init PROVE IInv
  OBVIOUS
<1>1. TypeOK
  BY DEF Init, TypeOK
<1> QED BY <1>1 DEF Init, IInv, SessionsHoldRequests, RequestsSaid, SubmissionsSaid, Submitting,
     CodesStored, RedemptionsKnow, Redeeming, NoCodeWithoutApproval

LEMMA StepOK ==
  ASSUME IInv, NEW p \in Threads, Step(p)
  PROVE  IInv'
<1>1. CASE SetApprovalParameters(p)
  BY <1>1, SetApprovalParametersOK
<1>2. CASE GetApprovalParameters(p)
  BY <1>2, GetApprovalParametersOK
<1>3. CASE SetApproved(p, "updateAfterApproval", "isApproved")
  BY <1>3, SetApprovedOK
<1>4. CASE IsApproved(p)
  BY <1>4, IsApprovedOK
<1>5. CASE SetApproved(p, "setApproved", "answer")
  BY <1>5, SetApprovedOK
<1>6. CASE Deny(p)
  BY <1>6, DenyOK
<1>7. CASE \E c \in Codes : GenerateCode(p, c)
  BY <1>7, GenerateCodeOK
<1>8. CASE SetComplete(p)
  BY <1>8, SetCompleteOK
<1>9. CASE Get(p)
  BY <1>9, GetOK
<1>10. CASE Remove(p)
  BY <1>10, RemoveOK
<1> QED BY <1>1, <1>2, <1>3, <1>4, <1>5, <1>6, <1>7, <1>8, <1>9, <1>10 DEF Step

LEMMA NextOK == IInv /\ [Next]_vars => IInv'
<1> SUFFICES ASSUME IInv, [Next]_vars PROVE IInv'
  OBVIOUS
<1>1. CASE UNCHANGED vars
  BY <1>1 DEF vars, IInv, TypeOK, SessionsHoldRequests, RequestsSaid, SubmissionsSaid, Submitting,
     CodesStored, RedemptionsKnow, Redeeming, Found, NoCodeWithoutApproval
<1>2. CASE \E s \in Sessions, client \in Clients, redirect \in Redirects \cup {None} :
             \/ \E q \in Requests : Authorize(s, q, client, redirect)
             \/ AuthorizeRefused(s, client, redirect)
  BY <1>2, AuthorizeOK, AuthorizeRefusedOK
<1>3. CASE \E p \in Threads, s \in Sessions, decision \in Decisions : Submit(p, s, decision)
  BY <1>3, SubmitOK
<1>4. CASE \E p \in Threads, c \in Codes, client \in Clients, redirect \in Redirects \cup {None} :
             Redeem(p, c, client, redirect)
  BY <1>4, RedeemOK
<1>5. CASE \E p \in Threads : Step(p)
  BY <1>5, StepOK
<1>6. CASE Tick
  BY <1>6, TickOK
<1> QED BY <1>1, <1>2, <1>3, <1>4, <1>5, <1>6 DEF Next

\* The parts of IInv hold in every state, however many threads, sessions, requests and
\* codes there are and whichever store is wired.
THEOREM CodesInvariant == Spec => []IInv
  BY InitOK, NextOK, PTL DEF Spec

\* Type correctness: a submission's flag is a BOOLEAN whatever the request held when it
\* was read, and no code stands for anything but an authentication.
THEOREM TypeCorrect == Spec => []TypeOK
<1>1. IInv => TypeOK
  BY DEF IInv
<1> QED BY <1>1, CodesInvariant, PTL

\* generateCode: a code stands for what was asked in its session, and somebody has
\* said yes to it, however the submissions of a session overlap.
THEOREM CodesApproved == Spec => []NoCodeWithoutApproval
<1>1. IInv => NoCodeWithoutApproval
  BY DEF IInv
<1> QED BY <1>1, CodesInvariant, PTL

\* consumeAuthorizationCode: a code that is gone, removed or expired, never comes back.
THEOREM GoneForGood == Spec => UsedUpStaysUsedUp
<1>1. IInv /\ [Next]_vars
        => [\A c \in Codes : issued[c] # None /\ ~Found(c) => ~Found(c)']_vars
  <2> SUFFICES ASSUME IInv, Next, NEW c \in Codes, issued[c] # None, Found(c)'
               PROVE  Found(c)
    OBVIOUS
  <2>1. CASE Tick
    BY <2>1, TickOK
  <2>2. CASE UNCHANGED <<codeServices, now, codeStore>>
    BY <2>2 DEF Found
  <2>3. CASE \E p \in Threads, d \in Codes : GenerateCode(p, d)
    <3>1. PICK p \in Threads, d \in Codes : GenerateCode(p, d)
      BY <2>3
    <3>2. c # d /\ codeStore'[c] = codeStore[c] /\ UNCHANGED <<codeServices, now>>
      BY <3>1 DEF GenerateCode, IInv, TypeOK
    <3> QED BY <3>2 DEF Found
  <2>4. CASE \E p \in Threads : Remove(p)
    <3>1. PICK p \in Threads : Remove(p)
      BY <2>4
    <3>2. codeStore'[c] = codeStore[c] \/ codeStore'[c] = None
      BY <3>1, RemoveStep
    <3>3. UNCHANGED <<codeServices, now>>
      BY <3>1 DEF Remove
    <3> QED BY <3>2, <3>3 DEF Found
  <2> QED BY <2>1, <2>2, <2>3, <2>4 DEF Next, Step, Authorize, AuthorizeRefused, Submit,
       SetApprovalParameters, GetApprovalParameters, SetApproved, IsApproved, Deny, SetComplete,
       Redeem, Get
<1> QED BY <1>1, CodesInvariant, PTL DEF Spec, UsedUpStaysUsedUp

-----------------------------------------------------------------------------
(* One thread.                                                              *)

\* A submission that goes on to its next step, and what it carries.
LEMMA GotoFields ==
  ASSUME TypeOK, NEW p \in Threads, Submitting(p),
         NEW step \in {"getApprovalParameters", "isApproved", "answer", "setComplete"},
         Goto(p, step)
  PROVE  /\ thread'[p] # None /\ thread'[p].step = step
         /\ thread'[p].session = thread[p].session /\ thread'[p].of = thread[p].of
         /\ thread'[p].decision = thread[p].decision /\ thread'[p].flag = thread[p].flag
<1> DEFINE y == [thread[p] EXCEPT !.step = step]
<1>1. /\ y \in Submissions
      /\ y.step = step /\ y.session = thread[p].session /\ y.of = thread[p].of
      /\ y.decision = thread[p].decision /\ y.flag = thread[p].flag
  BY SubmissionType DEF Submissions
<1>2. thread' = [thread EXCEPT ![p] = y]
  BY DEF Goto
<1> HIDE DEF y
<1>3. thread'[p] = y
  BY <1>2 DEF TypeOK
<1> QED BY <1>1, <1>3

LEMMA FlagFields ==
  ASSUME TypeOK, NEW p \in Threads, Submitting(p),
         NEW step \in {"updateAfterApproval", "setApproved"}, NEW flag \in BOOLEAN,
         thread' = [thread EXCEPT ![p] = [@ EXCEPT !.step = step, !.flag = flag]]
  PROVE  /\ thread'[p] # None /\ thread'[p].step = step
         /\ thread'[p].session = thread[p].session /\ thread'[p].of = thread[p].of
         /\ thread'[p].decision = thread[p].decision /\ thread'[p].flag = flag
<1> DEFINE y == [thread[p] EXCEPT !.step = step, !.flag = flag]
<1>1. /\ y \in Submissions
      /\ y.step = step /\ y.session = thread[p].session /\ y.of = thread[p].of
      /\ y.decision = thread[p].decision /\ y.flag = flag
  <2>1. step \in {"setApprovalParameters", "getApprovalParameters", "updateAfterApproval",
                  "isApproved", "setApproved", "answer", "setComplete"}
    OBVIOUS
  <2> QED BY <2>1, SubmissionType, Zenon DEF Submissions
<1>2. thread' = [thread EXCEPT ![p] = y]
  BY Zenon
<1> HIDE DEF y
<1>3. thread'[p] = y
  BY <1>2 DEF TypeOK
<1> QED BY <1>1, <1>3

\* authorize does not touch the request of a submission.
LEMMA OneThreadAuthorize ==
  ASSUME OneThreadInv, NEW s \in Sessions, NEW q \in Requests, NEW client \in Clients,
         NEW redirect \in Redirects \cup {None}, Authorize(s, q, client, redirect)
  PROVE  DecisionKept' /\ DecidedOnce' /\ DecisionHonoured'
<1>1. /\ request[q] = None
      /\ \A r \in Requests \ {q} : request'[r] = request[r]
      /\ session'[s] = q /\ \A t \in Sessions \ {s} : session'[t] = session[t]
      /\ UNCHANGED <<thread, decided, issued>>
  BY DEF Authorize, OneThreadInv, IInv, TypeOK
<1>2. \A p \in Threads : Submitting(p) => thread[p].of \in Requests \ {q}
  BY <1>1, SubmissionType DEF OneThreadInv, IInv, SubmissionsSaid
<1>3. DecisionKept'
  BY <1>1, <1>2 DEF OneThreadInv, DecisionKept, Submitting
<1>4. DecidedOnce'
  BY <1>1 DEF OneThreadInv, IInv, RequestsSaid, DecidedOnce, Submitting, At
<1> QED BY <1>1, <1>3, <1>4 DEF OneThreadInv, DecisionHonoured

LEMMA OneThreadAuthorizeRefused ==
  ASSUME OneThreadInv, NEW s \in Sessions, NEW client \in Clients,
         NEW redirect \in Redirects \cup {None}, AuthorizeRefused(s, client, redirect)
  PROVE  DecisionKept' /\ DecidedOnce' /\ DecisionHonoured'
<1>1. /\ \A t \in Sessions : session'[t] = session[t] \/ session'[t] = None
      /\ UNCHANGED <<request, thread, decided, issued>>
  BY DEF AuthorizeRefused, OneThreadInv, IInv, TypeOK
<1> QED BY <1>1 DEF OneThreadInv, DecisionKept, DecidedOnce, DecisionHonoured, Submitting, At

LEMMA OneThreadSubmit ==
  ASSUME OneThread, OneThreadInv, NEW p \in Threads, NEW s \in Sessions,
         NEW decision \in Decisions, Submit(p, s, decision)
  PROVE  DecisionKept' /\ DecidedOnce' /\ DecisionHonoured'
<1> DEFINE y == [step |-> "setApprovalParameters", session |-> s, of |-> session[s],
                 decision |-> decision, flag |-> FALSE]
<1>1. /\ thread[p] = None /\ session[s] # None
      /\ thread'[p] = y
      /\ UNCHANGED <<session, request, decided, issued>>
  BY DEF Submit, OneThreadInv, IInv, TypeOK
<1>2. y.step = "setApprovalParameters" /\ y.of = session[s]
  OBVIOUS
<1> HIDE DEF y
<1>3. \A x \in Threads : x = p
  BY DEF OneThread
<1>4. \A t \in Sessions : session[t] # None => decided[session[t]] = None
  BY <1>1, <1>3 DEF OneThreadInv, DecidedOnce, At
<1>5. DecisionKept'
  BY <1>1, <1>2, <1>3 DEF DecisionKept
<1>6. DecidedOnce'
  BY <1>1, <1>2, <1>3, <1>4 DEF DecidedOnce
<1> QED BY <1>1, <1>5, <1>6 DEF OneThreadInv, DecisionHonoured

LEMMA OneThreadSetApprovalParameters ==
  ASSUME OneThread, OneThreadInv, NEW p \in Threads, SetApprovalParameters(p)
  PROVE  DecisionKept' /\ DecidedOnce' /\ DecisionHonoured'
<1> DEFINE q == thread[p].of
<1>1. /\ Submitting(p) /\ q \in Requests /\ request[q] # None /\ request[q] \in RequestObjects
      /\ thread[p].step = "setApprovalParameters"
  BY SubmissionType, RequestType, Serving
     DEF SetApprovalParameters, At, OneThreadInv, IInv, SubmissionsSaid
<1>2. request'[q].parameter = thread[p].decision
  BY <1>1 DEF SetApprovalParameters, OneThreadInv, IInv, TypeOK, RequestObjects
<1>3. /\ thread'[p] # None /\ thread'[p].step = "getApprovalParameters"
      /\ thread'[p].of = q /\ thread'[p].decision = thread[p].decision
  BY <1>1, GotoFields DEF SetApprovalParameters, OneThreadInv, IInv
<1>4. UNCHANGED <<session, decided, issued>>
  BY DEF SetApprovalParameters
<1> HIDE DEF q
<1>5. \A x \in Threads : x = p
  BY DEF OneThread
<1>6. DecisionKept'
  BY <1>2, <1>3, <1>5 DEF DecisionKept
<1>7. DecidedOnce'
  BY <1>1, <1>3, <1>4, <1>5 DEF OneThreadInv, DecidedOnce, At, q
<1> QED BY <1>4, <1>6, <1>7 DEF OneThreadInv, DecisionHonoured

LEMMA OneThreadGetApprovalParameters ==
  ASSUME OneThread, OneThreadInv, NEW p \in Threads, GetApprovalParameters(p)
  PROVE  DecisionKept' /\ DecidedOnce' /\ DecisionHonoured'
<1> DEFINE q == thread[p].of
           flag == request[q].parameter = "true"
<1>1. /\ Submitting(p) /\ thread[p].step = "getApprovalParameters"
      /\ request[q].parameter = thread[p].decision
  BY Serving DEF GetApprovalParameters, At, OneThreadInv, IInv, DecisionKept
<1>2. flag \in BOOLEAN /\ (flag <=> thread[p].decision = "true")
  BY <1>1
<1>3. thread' = [thread EXCEPT ![p] =
        [@ EXCEPT !.step = "updateAfterApproval", !.flag = flag]]
  BY Zenon DEF GetApprovalParameters
<1>4. UNCHANGED <<session, request, decided, issued>>
  BY Zenon DEF GetApprovalParameters
<1> HIDE DEF q, flag
<1>5. /\ thread'[p] # None /\ thread'[p].step = "updateAfterApproval"
      /\ thread'[p].of = thread[p].of /\ thread'[p].decision = thread[p].decision
      /\ thread'[p].flag = flag
  <2>1. "updateAfterApproval" \in {"updateAfterApproval", "setApproved"}
    OBVIOUS
  <2> QED BY <1>1, <1>2, <1>3, <2>1, FlagFields, Zenon DEF OneThreadInv, IInv
<1>6. \A x \in Threads : x = p
  BY DEF OneThread
<1>7. DecisionKept'
  BY <1>2, <1>5, <1>6 DEF DecisionKept
<1>8. DecidedOnce'
  BY <1>1, <1>4, <1>5, <1>6 DEF OneThreadInv, DecidedOnce, At
<1> QED BY <1>4, <1>7, <1>8 DEF OneThreadInv, DecisionHonoured

LEMMA OneThreadSetApproved ==
  ASSUME OneThread, OneThreadInv, NEW p \in Threads,
         NEW step \in {"updateAfterApproval", "setApproved"},
         NEW next \in {"isApproved", "answer"}, SetApproved(p, step, next)
  PROVE  DecisionKept' /\ DecidedOnce' /\ DecisionHonoured'
<1> DEFINE q == thread[p].of
<1>1. /\ Submitting(p) /\ q \in Requests /\ request[q] # None /\ request[q] \in RequestObjects
      /\ thread[p].step = step /\ (thread[p].flag <=> thread[p].decision = "true")
  BY SubmissionType, RequestType, Serving
     DEF SetApproved, At, OneThreadInv, IInv, SubmissionsSaid, DecisionKept
<1>2. request'[q].approved = thread[p].flag
  BY <1>1 DEF SetApproved, OneThreadInv, IInv, TypeOK, RequestObjects
<1>3. /\ thread'[p] # None /\ thread'[p].step = next
      /\ thread'[p].of = q /\ thread'[p].decision = thread[p].decision
  BY <1>1, GotoFields DEF SetApproved, OneThreadInv, IInv
<1>4. UNCHANGED <<session, decided, issued>>
  BY DEF SetApproved
<1> HIDE DEF q
<1>5. \A x \in Threads : x = p
  BY DEF OneThread
<1>6. DecisionKept'
  BY <1>1, <1>2, <1>3, <1>5 DEF DecisionKept
<1>7. DecidedOnce'
  BY <1>1, <1>3, <1>4, <1>5 DEF OneThreadInv, DecidedOnce, At, q
<1> QED BY <1>4, <1>6, <1>7 DEF OneThreadInv, DecisionHonoured

LEMMA OneThreadIsApproved ==
  ASSUME OneThread, OneThreadInv, NEW p \in Threads, IsApproved(p)
  PROVE  DecisionKept' /\ DecidedOnce' /\ DecisionHonoured'
<1> DEFINE flag == request[thread[p].of].approved
<1>1. /\ Submitting(p) /\ thread[p].step = "isApproved"
      /\ flag \in BOOLEAN /\ (flag <=> thread[p].decision = "true")
  BY Serving, SubmissionType, RequestType
     DEF IsApproved, At, OneThreadInv, IInv, SubmissionsSaid, DecisionKept
<1>2. thread' = [thread EXCEPT ![p] = [@ EXCEPT !.step = "setApproved", !.flag = flag]]
  BY Zenon DEF IsApproved
<1>3. UNCHANGED <<session, request, decided, issued>>
  BY Zenon DEF IsApproved
<1> HIDE DEF flag
<1>4. /\ thread'[p] # None /\ thread'[p].step = "setApproved"
      /\ thread'[p].of = thread[p].of /\ thread'[p].decision = thread[p].decision
      /\ thread'[p].flag = flag
  <2>1. "setApproved" \in {"updateAfterApproval", "setApproved"}
    OBVIOUS
  <2> QED BY <1>1, <1>2, <2>1, FlagFields, Zenon DEF OneThreadInv, IInv
<1>5. \A x \in Threads : x = p
  BY DEF OneThread
<1>6. DecisionKept'
  BY <1>1, <1>4, <1>5 DEF DecisionKept
<1>7. DecidedOnce'
  BY <1>1, <1>3, <1>4, <1>5 DEF OneThreadInv, DecidedOnce, At
<1> QED BY <1>3, <1>6, <1>7 DEF OneThreadInv, DecisionHonoured

\* What the answer finds when it is a submission's turn to decide: the session's own
\* request, not decided before, and approved if the user has said so.
LEMMA Answering ==
  ASSUME OneThread, OneThreadInv, NEW p \in Threads, At(p, "answer")
  PROVE  /\ Submitting(p) /\ thread[p].of \in Requests /\ request[thread[p].of] # None
         /\ request[thread[p].of].session = thread[p].session
         /\ decided[thread[p].of] = None
         /\ request[thread[p].of].approved <=> thread[p].decision = "true"
         /\ \A s \in Sessions : session[s] # None =>
              /\ decided[session[s]] = None
              /\ session[s] = thread[p].of => s = thread[p].session
<1>1. Submitting(p) /\ thread[p].step = "answer" /\ \A x \in Threads : x = p
  BY Serving DEF At, OneThread, OneThreadInv, IInv
<1>2. /\ thread[p].of \in Requests /\ request[thread[p].of] # None
      /\ request[thread[p].of].session = thread[p].session
  BY <1>1, SubmissionType DEF OneThreadInv, IInv, SubmissionsSaid
<1> QED BY <1>1, <1>2
     DEF OneThreadInv, IInv, SessionsHoldRequests, DecisionKept, DecidedOnce, At

\* A decision: whichever it is, the request is on its way out of the session.
LEMMA OneThreadDecides ==
  ASSUME OneThread, OneThreadInv, NEW p \in Threads, At(p, "answer"), Goto(p, "setComplete"),
         NEW outcome \in {"approved", "denied"},
         decided' = [decided EXCEPT ![thread[p].of] = outcome],
         UNCHANGED <<session, request>>
  PROVE  DecisionKept' /\ DecidedOnce'
<1>1. /\ Submitting(p) /\ thread[p].of \in Requests
      /\ \A s \in Sessions : session[s] # None =>
           /\ decided[session[s]] = None
           /\ session[s] = thread[p].of => s = thread[p].session
  BY Answering
<1>2. /\ thread'[p] # None /\ thread'[p].step = "setComplete"
      /\ thread'[p].session = thread[p].session
  BY <1>1, GotoFields DEF OneThreadInv, IInv
<1>3. \A x \in Threads : x = p
  BY DEF OneThread
<1>4. \A q \in Requests \ {thread[p].of} : decided'[q] = decided[q]
  BY DEF OneThreadInv, IInv, TypeOK
<1>5. \A s \in Sessions : session[s] \in Requests \cup {None}
  BY DEF OneThreadInv, IInv, TypeOK
<1>6. DecisionKept'
  BY <1>2, <1>3 DEF DecisionKept
<1>7. DecidedOnce'
  <2>1. \A x \in Threads : ~(Submitting(x)' /\ thread'[x].step # "setComplete")
    BY <1>2, <1>3
  <2>2. \A s \in Sessions : session'[s] # None /\ decided'[session'[s]] # None =>
          s = thread[p].session
    BY <1>1, <1>4, <1>5
  <2> QED BY <1>2, <2>1, <2>2 DEF DecidedOnce, At
<1> QED BY <1>6, <1>7

LEMMA OneThreadDeny ==
  ASSUME OneThread, OneThreadInv, NEW p \in Threads, Deny(p)
  PROVE  DecisionKept' /\ DecidedOnce' /\ DecisionHonoured'
<1>1. DecisionKept' /\ DecidedOnce'
  BY OneThreadDecides DEF Deny
<1>2. UNCHANGED issued
  BY DEF Deny
<1> QED BY <1>1, <1>2 DEF OneThreadInv, DecisionHonoured

LEMMA OneThreadGenerateCode ==
  ASSUME OneThread, OneThreadInv, NEW p \in Threads, NEW c \in Codes, GenerateCode(p, c)
  PROVE  DecisionKept' /\ DecidedOnce' /\ DecisionHonoured'
<1>1. DecisionKept' /\ DecidedOnce'
  BY OneThreadDecides DEF GenerateCode
<1>2. thread[p].decision = "true"
  BY Answering DEF GenerateCode
<1>3. /\ issued'[c].decision = thread[p].decision
      /\ \A d \in Codes \ {c} : issued'[d] = issued[d]
  BY DEF GenerateCode, OneThreadInv, IInv, TypeOK
<1> QED BY <1>1, <1>2, <1>3 DEF OneThreadInv, DecisionHonoured

LEMMA OneThreadSetComplete ==
  ASSUME OneThread, OneThreadInv, NEW p \in Threads, SetComplete(p)
  PROVE  DecisionKept' /\ DecidedOnce' /\ DecisionHonoured'
<1>1. /\ At(p, "setComplete") /\ thread'[p] = None
      /\ thread[p].session \in Sessions
      /\ session' = [session EXCEPT ![thread[p].session] = None]
      /\ UNCHANGED <<request, decided, issued>>
  BY SubmissionType, Serving DEF SetComplete, Idle, OneThreadInv, IInv, TypeOK
<1>2. \A x \in Threads : x = p
  BY DEF OneThread
<1>3. DecisionKept'
  BY <1>1, <1>2 DEF DecisionKept, Submitting
<1>4. DecidedOnce'
  <2>1. \A s \in Sessions : session'[s] # None => s # thread[p].session /\ session'[s] = session[s]
    BY <1>1 DEF OneThreadInv, IInv, TypeOK
  <2>2. \A s \in Sessions : session'[s] # None => decided'[session'[s]] = None
    BY <1>1, <1>2, <2>1 DEF OneThreadInv, DecidedOnce
  <2> QED BY <1>1, <1>2, <2>2 DEF DecidedOnce, Submitting
<1> QED BY <1>1, <1>3, <1>4 DEF OneThreadInv, DecisionHonoured

\* A token request that begins, goes on or ends: there is no submission meanwhile.
LEMMA OneThreadRedemption ==
  ASSUME OneThread, OneThreadInv, NEW p \in Threads,
         \/ Get(p) \/ Remove(p)
         \/ \E c \in Codes, client \in Clients, redirect \in Redirects \cup {None} :
              Redeem(p, c, client, redirect)
  PROVE  DecisionKept' /\ DecidedOnce' /\ DecisionHonoured'
<1>1. /\ ~Submitting(p) /\ ~Submitting(p)'
      /\ UNCHANGED <<session, request, decided, issued>>
  <2>1. CASE Get(p)
    <3> DEFINE c == thread[p].code
               auth == IF Found(c) THEN codeStore[c].auth ELSE None
               y == [thread[p] EXCEPT !.step = "remove", !.auth = auth]
    <3>0. IInv
      BY DEF OneThreadInv
    <3>1. thread[p].step = "get" /\ y.step = "remove" /\ thread'[p] = y
      BY <2>1, <3>0, GetStep, Zenon
    <3> HIDE DEF y
    <3>2. UNCHANGED <<session, request, decided, issued>>
      BY <2>1, Zenon DEF Get
    <3> QED BY <3>1, <3>2 DEF Submitting
  <2>2. CASE Remove(p)
    BY <2>2, RemoveStep DEF OneThreadInv, Submitting
  <2>3. CASE \E c \in Codes, client \in Clients, redirect \in Redirects \cup {None} :
               Redeem(p, c, client, redirect)
    <3>1. PICK c \in Codes, client \in Clients, redirect \in Redirects \cup {None} :
            Redeem(p, c, client, redirect)
      BY <2>3
    <3>2. thread[p] = None /\ thread'[p].step = "get"
      BY <3>1 DEF Redeem, OneThreadInv, IInv, TypeOK
    <3>3. UNCHANGED <<session, request, decided, issued>>
      BY <3>1 DEF Redeem
    <3> QED BY <3>2, <3>3 DEF Submitting
  <2> QED BY <2>1, <2>2, <2>3
<1>2. \A x \in Threads : x = p
  BY DEF OneThread
<1>3. ~At(p, "setComplete")
  BY <1>1 DEF At, Submitting
<1>4. DecisionKept'
  BY <1>1, <1>2 DEF DecisionKept
<1>5. DecidedOnce'
  BY <1>1, <1>2, <1>3 DEF OneThreadInv, DecidedOnce
<1> QED BY <1>1, <1>4, <1>5 DEF OneThreadInv, DecisionHonoured

LEMMA OneThreadInitOK == Init => OneThreadInv
<1> SUFFICES ASSUME Init PROVE OneThreadInv
  OBVIOUS
<1>1. IInv
  BY InitOK
<1> QED BY <1>1 DEF Init, OneThreadInv, DecisionKept, DecidedOnce, DecisionHonoured, Submitting

LEMMA OneThreadStepOK ==
  ASSUME OneThread, OneThreadInv, NEW p \in Threads, Step(p)
  PROVE  DecisionKept' /\ DecidedOnce' /\ DecisionHonoured'
<1>1. CASE SetApprovalParameters(p)
  BY <1>1, OneThreadSetApprovalParameters
<1>2. CASE GetApprovalParameters(p)
  BY <1>2, OneThreadGetApprovalParameters
<1>3. CASE SetApproved(p, "updateAfterApproval", "isApproved")
  BY <1>3, OneThreadSetApproved
<1>4. CASE IsApproved(p)
  BY <1>4, OneThreadIsApproved
<1>5. CASE SetApproved(p, "setApproved", "answer")
  BY <1>5, OneThreadSetApproved
<1>6. CASE Deny(p)
  BY <1>6, OneThreadDeny
<1>7. CASE \E c \in Codes : GenerateCode(p, c)
  BY <1>7, OneThreadGenerateCode
<1>8. CASE SetComplete(p)
  BY <1>8, OneThreadSetComplete
<1>9. CASE Get(p) \/ Remove(p)
  BY <1>9, OneThreadRedemption
<1> QED BY <1>1, <1>2, <1>3, <1>4, <1>5, <1>6, <1>7, <1>8, <1>9 DEF Step

LEMMA OneThreadNextOK ==
  ASSUME OneThread, OneThreadInv, [Next]_vars
  PROVE  OneThreadInv'
<1>1. IInv'
  BY NextOK DEF OneThreadInv
<1>2. DecisionKept' /\ DecidedOnce' /\ DecisionHonoured'
  <2>1. CASE UNCHANGED vars \/ Tick
    BY <2>1 DEF vars, Tick, OneThreadInv, DecisionKept, DecidedOnce, DecisionHonoured,
       Submitting, At
  <2>2. CASE \E s \in Sessions, client \in Clients, redirect \in Redirects \cup {None} :
               \/ \E q \in Requests : Authorize(s, q, client, redirect)
               \/ AuthorizeRefused(s, client, redirect)
    BY <2>2, OneThreadAuthorize, OneThreadAuthorizeRefused
  <2>3. CASE \E p \in Threads, s \in Sessions, decision \in Decisions : Submit(p, s, decision)
    BY <2>3, OneThreadSubmit
  <2>4. CASE \E p \in Threads, c \in Codes, client \in Clients,
               redirect \in Redirects \cup {None} : Redeem(p, c, client, redirect)
    BY <2>4, OneThreadRedemption
  <2>5. CASE \E p \in Threads : Step(p)
    BY <2>5, OneThreadStepOK
  <2> QED BY <2>1, <2>2, <2>3, <2>4, <2>5 DEF Next
<1> QED BY <1>1, <1>2 DEF OneThreadInv

THEOREM OneThreadInvariant ==
  ASSUME OneThread
  PROVE  Spec => []OneThreadInv
<1>1. OneThreadInv /\ [Next]_vars => OneThreadInv'
  BY OneThreadNextOK
<1> QED BY <1>1, OneThreadInitOK, PTL DEF Spec

\* DefaultUserApprovalHandler: when submissions do not overlap, only one that said yes
\* gets a code.
THEOREM DecisionsHonoured ==
  ASSUME OneThread
  PROVE  Spec => []DecisionHonoured
<1>1. OneThreadInv => DecisionHonoured
  BY DEF OneThreadInv
<1> QED BY <1>1, OneThreadInvariant, PTL

-----------------------------------------------------------------------------
(* The grant is implemented by one thread.                                  *)

\* A thread that neither had nor has a code in its hands, and one that does what it will.
LEMMA GotSame ==
  ASSUME NEW p \in Threads, \A x \in Threads \ {p} : thread'[x] = thread[x],
         NEW c \in Codes, p \notin Got(c), p \notin Got(c)'
  PROVE  /\ Got(c)' = Got(c)
         /\ UNCHANGED redeemed => Redeemers(c)' = Redeemers(c)
<1>1. Got(c)' = Got(c) /\ \A x \in Got(c) : thread'[x] = thread[x]
  BY DEF Got, At
<1>2. {x \in Got(c)' : Accepted(thread'[x])} = {x \in Got(c) : Accepted(thread[x])}
  BY <1>1 DEF Accepted
<1>3. {thread'[x].client : x \in {x \in Got(c)' : Accepted(thread'[x])}}
        = {thread[x].client : x \in {x \in Got(c) : Accepted(thread[x])}}
  BY <1>1, <1>2
<1> QED BY <1>1, <1>3 DEF Redeemers, Accepted

\* A client that redeems a code alone is the one.
LEMMA TheOneIs == ASSUME NEW x PROVE TheOne({x}) = x /\ TheOne({}) = None
BY DEF TheOne

\* What a step leaves of the codes when it keeps to other things.
LEMMA CodesLeftAlone ==
  ASSUME NEW p \in Threads, \A x \in Threads \ {p} : thread'[x] = thread[x],
         \A c \in Codes : p \notin Got(c) /\ p \notin Got(c)',
         UNCHANGED <<codeServices, now, codeStore, redeemed>>
  PROVE  UNCHANGED <<Valid, Redeemer>>
<1>1. \A c \in Codes : Got(c)' = Got(c) /\ Redeemers(c)' = Redeemers(c)
  BY GotSame
<1>2. \A c \in Codes : Found(c)' <=> Found(c)
  BY DEF Found
<1>3. Valid' = Valid
  BY <1>1, <1>2 DEF Valid
<1>4. Redeemer' = Redeemer
  BY <1>1 DEF Redeemer
<1> QED BY <1>3, <1>4

LEMMA AskerLeftAlone ==
  ASSUME \A q \in Requests :
           /\ request'[q] = None <=> request[q] = None
           /\ request[q] # None => request'[q].client = request[q].client
  PROVE  Asker' = Asker
BY DEF Asker

LEMMA OriginLeftAlone ==
  ASSUME UNCHANGED issued
  PROVE  Origin' = Origin
BY DEF Origin

LEMMA RefinedAuthorize ==
  ASSUME IInv, NEW s \in Sessions, NEW q \in Requests, NEW client \in Clients,
         NEW redirect \in Redirects \cup {None}, Authorize(s, q, client, redirect)
  PROVE  Grant!Ask(q, client)
<1>1. /\ request[q] = None /\ request'[q] # None /\ request'[q].client = client
      /\ \A r \in Requests \ {q} : request'[r] = request[r]
  <2> DEFINE y == [session |-> s, client |-> client, redirect |-> redirect,
                   parameter |-> None, approved |-> FALSE]
  <2>1. y \in RequestObjects /\ y.client = client
    BY DEF RequestObjects
  <2>2. request[q] = None /\ request' = [request EXCEPT ![q] = y]
    BY DEF Authorize
  <2> HIDE DEF y
  <2> QED BY <2>1, <2>2 DEF IInv, TypeOK
<1>2. UNCHANGED <<codeServices, now, codeStore, thread, issued, decided, redeemed>>
  BY DEF Authorize
<1>3. Asker[q] = None /\ Asker' = [Asker EXCEPT ![q] = client]
  BY <1>1 DEF Asker
<1>4. UNCHANGED <<Origin, Valid, Redeemer>>
  BY <1>2 DEF Origin, Valid, Redeemer, Redeemers, Found, Got, At, Accepted
<1> QED BY <1>2, <1>3, <1>4 DEF Grant!Ask

\* The steps of a submission that decide nothing, and a token request that begins.
LEMMA RefinedQuietly ==
  ASSUME IInv, NEW p \in Threads,
         \/ \E s \in Sessions, decision \in Decisions : Submit(p, s, decision)
         \/ SetApprovalParameters(p) \/ GetApprovalParameters(p)
         \/ SetApproved(p, "updateAfterApproval", "isApproved")
         \/ IsApproved(p)
         \/ SetApproved(p, "setApproved", "answer")
         \/ SetComplete(p)
         \/ \E c \in Codes, client \in Clients, redirect \in Redirects \cup {None} :
              Redeem(p, c, client, redirect)
  PROVE  UNCHANGED Grant!vars
<1>1. ~At(p, "remove")
  BY Zenon DEF Submit, SetApprovalParameters, GetApprovalParameters, SetApproved, IsApproved,
     SetComplete, Redeem, At
<1>2. \A x \in Threads \ {p} : thread'[x] = thread[x]
  BY Zenon DEF Submit, SetApprovalParameters, GetApprovalParameters, SetApproved, IsApproved,
     SetComplete, Redeem, Goto, Idle, IInv, TypeOK
<1>3. ~At(p, "remove")'
  <2>1. CASE \E s \in Sessions, decision \in Decisions : Submit(p, s, decision)
    <3>1. PICK s \in Sessions, decision \in Decisions : Submit(p, s, decision)
      BY <2>1
    <3>2. thread'[p].step = "setApprovalParameters"
      BY <3>1 DEF Submit, IInv, TypeOK
    <3> QED BY <3>2 DEF At
  <2>2. CASE SetApprovalParameters(p) \/ SetApproved(p, "updateAfterApproval", "isApproved")
             \/ SetApproved(p, "setApproved", "answer")
    <3>1. Submitting(p)
      BY <2>2, Serving DEF SetApprovalParameters, SetApproved, IInv
    <3>2. \E step \in {"getApprovalParameters", "isApproved", "answer"} : Goto(p, step)
      BY <2>2 DEF SetApprovalParameters, SetApproved
    <3> QED BY <3>1, <3>2, GotoFields DEF At, IInv
  <2>3. CASE GetApprovalParameters(p)
    <3> DEFINE flag == request[thread[p].of].parameter = "true"
    <3>1. Submitting(p)
      BY <2>3, Serving, Zenon DEF GetApprovalParameters, IInv
    <3>2. flag \in BOOLEAN /\ "updateAfterApproval" \in {"updateAfterApproval", "setApproved"}
      OBVIOUS
    <3>3. thread' = [thread EXCEPT ![p] =
            [@ EXCEPT !.step = "updateAfterApproval", !.flag = flag]]
      BY <2>3, Zenon DEF GetApprovalParameters
    <3> HIDE DEF flag
    <3>4. thread'[p].step = "updateAfterApproval"
      BY <3>1, <3>2, <3>3, FlagFields, Zenon DEF IInv
    <3> QED BY <3>4 DEF At
  <2>4. CASE IsApproved(p)
    <3> DEFINE flag == request[thread[p].of].approved
    <3>1. Submitting(p)
      BY <2>4, Serving, Zenon DEF IsApproved, IInv
    <3>2. flag \in BOOLEAN /\ "setApproved" \in {"updateAfterApproval", "setApproved"}
      BY <3>1, SubmissionType, RequestType DEF IInv, SubmissionsSaid
    <3>3. thread' = [thread EXCEPT ![p] = [@ EXCEPT !.step = "setApproved", !.flag = flag]]
      BY <2>4, Zenon DEF IsApproved
    <3> HIDE DEF flag
    <3>4. thread'[p].step = "setApproved"
      BY <3>1, <3>2, <3>3, FlagFields, Zenon DEF IInv
    <3> QED BY <3>4 DEF At
  <2>5. CASE SetComplete(p)
    BY <2>5 DEF SetComplete, Idle, At, IInv, TypeOK
  <2>6. CASE \E c \in Codes, client \in Clients, redirect \in Redirects \cup {None} :
               Redeem(p, c, client, redirect)
    <3>1. PICK c \in Codes, client \in Clients, redirect \in Redirects \cup {None} :
            Redeem(p, c, client, redirect)
      BY <2>6
    <3>2. thread'[p].step = "get"
      BY <3>1 DEF Redeem, IInv, TypeOK
    <3> QED BY <3>2 DEF At
  <2> QED BY <2>1, <2>2, <2>3, <2>4, <2>5, <2>6
<1>4. UNCHANGED <<codeServices, now, codeStore, issued, decided, redeemed>>
  BY Zenon DEF Submit, SetApprovalParameters, GetApprovalParameters, SetApproved, IsApproved,
     SetComplete, Redeem
<1>5. \A q \in Requests :
        /\ request'[q] = None <=> request[q] = None
        /\ request[q] # None => request'[q].client = request[q].client
  <2>1. CASE UNCHANGED request
    BY <2>1
  <2>2. CASE SetApprovalParameters(p) \/ SetApproved(p, "updateAfterApproval", "isApproved")
             \/ SetApproved(p, "setApproved", "answer")
    <3> DEFINE q == thread[p].of
    <3>1. /\ q \in Requests /\ request[q] \in RequestObjects
          /\ thread[p].decision \in Decisions /\ thread[p].flag \in BOOLEAN
      BY <2>2, Serving, SubmissionType, RequestType
         DEF SetApprovalParameters, SetApproved, IInv, SubmissionsSaid
    <3>2. \/ request' = [request EXCEPT ![q].parameter = thread[p].decision]
          \/ request' = [request EXCEPT ![q].approved = thread[p].flag]
      BY <2>2 DEF SetApprovalParameters, SetApproved
    <3>3. request'[q] \in RequestObjects /\ request'[q].client = request[q].client
      <4>1. \/ request'[q] = [request[q] EXCEPT !.parameter = thread[p].decision]
            \/ request'[q] = [request[q] EXCEPT !.approved = thread[p].flag]
        BY <3>1, <3>2 DEF IInv, TypeOK
      <4> HIDE DEF q
      <4> QED BY <3>1, <4>1 DEF RequestObjects
    <3>4. \A r \in Requests \ {q} : request'[r] = request[r]
      BY <3>1, <3>2 DEF IInv, TypeOK
    <3> HIDE DEF q
    <3>5. request'[q] # None /\ request[q] # None
      BY <3>1, <3>3
    <3> QED BY <3>3, <3>4, <3>5
  <2> QED BY <2>1, <2>2, Zenon DEF Submit, GetApprovalParameters, IsApproved, SetComplete, Redeem
<1>6. \A c \in Codes : p \notin Got(c) /\ p \notin Got(c)'
  BY <1>1, <1>3 DEF Got
<1>7. UNCHANGED <<Valid, Redeemer>>
  BY <1>2, <1>4, <1>6, CodesLeftAlone
<1>8. UNCHANGED <<Asker, Origin>>
  BY <1>4, <1>5, AskerLeftAlone, OriginLeftAlone
<1> QED BY <1>4, <1>7, <1>8 DEF Grant!vars

\* Who has a code in its hands, and who redeemed it, before a step and after it.
LEMMA WhoGot ==
  ASSUME NEW c \in Codes
  PROVE  /\ Got(c) \subseteq Threads /\ Got(c)' \subseteq Threads
         /\ \A x \in Threads :
              x \in Got(c) <=>
                /\ thread[x] # None /\ thread[x].step = "remove"
                /\ thread[x].code = c /\ thread[x].auth # None
         /\ \A x \in Threads :
              x \in Got(c)' <=>
                /\ thread'[x] # None /\ thread'[x].step = "remove"
                /\ thread'[x].code = c /\ thread'[x].auth # None
BY DEF Got, At

LEMMA WhoRedeems ==
  ASSUME NEW c \in Codes
  PROVE  /\ \A client : client \in Redeemers(c) <=>
              \/ client \in Clients /\ redeemed[c][client] > 0
              \/ \E x \in Got(c) : Accepted(thread[x]) /\ client = thread[x].client
         /\ \A client : client \in Redeemers(c)' <=>
              \/ client \in Clients /\ redeemed'[c][client] > 0
              \/ \E x \in Got(c)' : Accepted(thread'[x]) /\ client = thread'[x].client
BY DEF Redeemers, Accepted

LEMMA RefinedDeny ==
  ASSUME OneThread, OneThreadInv, NEW p \in Threads, Deny(p)
  PROVE  \E q \in Requests : Grant!Deny(q)
<1> DEFINE q == thread[p].of
<1>1. /\ IInv /\ Submitting(p) /\ q \in Requests /\ request[q] # None /\ decided[q] = None
      /\ request[q].client \in Clients
  BY Answering, RequestType DEF Deny, OneThreadInv, IInv
<1>2. thread'[p].step = "setComplete" /\ \A x \in Threads \ {p} : thread'[x] = thread[x]
  BY <1>1, GotoFields DEF Deny, Goto, IInv, TypeOK
<1>3. /\ decided' = [decided EXCEPT ![q] = "denied"]
      /\ UNCHANGED <<codeServices, now, request, codeStore, issued, redeemed>>
  BY DEF Deny
<1>4. \A c \in Codes : p \notin Got(c) /\ p \notin Got(c)'
  BY <1>2 DEF Deny, Got, At
<1>5. UNCHANGED <<Valid, Redeemer>>
  BY <1>2, <1>3, <1>4, CodesLeftAlone
<1>6. UNCHANGED <<Asker, Origin>> /\ Asker[q] # None
  BY <1>1, <1>3 DEF Asker, Origin
<1> HIDE DEF q
<1>7. Grant!Deny(q)
  BY <1>1, <1>3, <1>5, <1>6 DEF Grant!Deny
<1> QED BY <1>1, <1>7

LEMMA RefinedGenerateCode ==
  ASSUME OneThread, OneThreadInv, NEW p \in Threads, NEW c \in Codes, GenerateCode(p, c)
  PROVE  \E q \in Requests : Grant!Approve(q, c)
<1> DEFINE q == thread[p].of
           auth == [of |-> q, session |-> request[q].session, client |-> request[q].client,
                    redirect |-> request[q].redirect, decision |-> thread[p].decision]
           code == [auth |-> auth, expires |-> now + TimeToLive]
<1>1. /\ IInv /\ Submitting(p) /\ q \in Requests /\ request[q] # None /\ decided[q] = None
      /\ request[q].client \in Clients /\ thread[p].decision \in Decisions
  BY Answering, RequestType, SubmissionType DEF GenerateCode, OneThreadInv, IInv
<1>2. thread'[p].step = "setComplete" /\ \A x \in Threads \ {p} : thread'[x] = thread[x]
  BY <1>1, GotoFields DEF GenerateCode, Goto, IInv, TypeOK
<1>3. /\ issued[c] = None
      /\ issued' = [issued EXCEPT ![c] = auth]
      /\ codeStore' = [codeStore EXCEPT ![c] = code]
      /\ decided' = [decided EXCEPT ![q] = "approved"]
      /\ UNCHANGED <<codeServices, now, session, request, redeemed>>
  BY DEF GenerateCode
<1>4. auth # None /\ auth.of = q
  <2>1. auth \in Authentications
    BY <1>1, RequestType DEF IInv, Authentications
  <2> QED BY <2>1
<1>5. code # None /\ now < code.expires
  <2>1. now \in Nat /\ auth \in Authentications
    BY <1>1, RequestType DEF IInv, TypeOK, Authentications
  <2> HIDE DEF auth
  <2>2. code \in StoredCodes
    BY <2>1 DEF StoredCodes
  <2> QED BY <2>1, <2>2
<1> HIDE DEF auth, code
<1>6. /\ issued'[c] = auth /\ codeStore'[c] = code
      /\ \A d \in Codes \ {c} : issued'[d] = issued[d] /\ codeStore'[d] = codeStore[d]
  BY <1>1, <1>3 DEF IInv, TypeOK
<1>7. \A d \in Codes : Got(d)' = Got(d) /\ Redeemers(d)' = Redeemers(d)
  <2>1. \A d \in Codes : p \notin Got(d) /\ p \notin Got(d)'
    BY <1>2 DEF GenerateCode, Got, At
  <2> QED BY <1>2, <1>3, <2>1, GotSame
<1>8. Got(c) = {}
  <2>1. \A x \in Threads : Redeeming(x) => thread[x].code # c
    BY <1>1, <1>3 DEF IInv, RedemptionsKnow
  <2> QED BY <2>1, WhoGot DEF Redeeming
<1>9. Found(c)' /\ \A d \in Codes \ {c} : Found(d)' <=> Found(d)
  BY <1>3, <1>5, <1>6 DEF Found
<1>10. Valid' = Valid \cup {c}
  BY <1>7, <1>8, <1>9 DEF Valid
<1>11. Redeemer' = Redeemer
  BY <1>7 DEF Redeemer
<1>12. Asker[q] # None /\ Asker' = Asker
  BY <1>1, <1>3 DEF Asker
<1> HIDE DEF q
<1>13. Origin[c] = None /\ Origin' = [Origin EXCEPT ![c] = q]
  <2>1. /\ issued[c] = None /\ issued'[c] # None /\ issued'[c].of = q
        /\ \A d \in Codes \ {c} : issued'[d] = issued[d]
    BY <1>3, <1>4, <1>6
  <2>2. \A d \in Codes \ {c} : Origin'[d] = Origin[d]
    BY <2>1 DEF Origin
  <2>3. Origin[c] = None /\ Origin'[c] = q
    BY <2>1 DEF Origin
  <2>4. Origin' = [d \in Codes |-> Origin'[d]] /\ Origin = [d \in Codes |-> Origin[d]]
    BY DEF Origin
  <2> QED BY <2>2, <2>3, <2>4
<1>14. Grant!Approve(q, c)
  BY <1>1, <1>3, <1>10, <1>11, <1>12, <1>13 DEF Grant!Approve
<1> QED BY <1>1, <1>14

\* get uses a code up: whoever gets it redeems it or voids it.
LEMMA RefinedGet ==
  ASSUME OneThread, OneThreadInv, NEW p \in Threads, Get(p)
  PROVE  \/ \E c \in Codes : Grant!Redeem(c) \/ Grant!Void({c})
         \/ UNCHANGED Grant!vars
<1>0. IInv /\ thread[p].code \in Codes
  BY GetStep, Zenon DEF OneThreadInv
<1>c. PICK c \in Codes : c = thread[p].code
  BY <1>0
<1> DEFINE auth == IF Found(c) THEN codeStore[c].auth ELSE None
           y == [thread[p] EXCEPT !.step = "remove", !.auth = auth]
<1>1. /\ thread[p] \in Redemptions /\ thread[p].step = "get" /\ issued[c] # None
      /\ y \in Redemptions /\ y # None
      /\ y.step = "remove" /\ y.code = c /\ y.auth = auth
      /\ thread'[p] = y
      /\ \A x \in Threads \ {p} : thread'[x] = thread[x]
      /\ UNCHANGED <<codeServices, now, request, codeStore, issued, decided, redeemed>>
  BY <1>0, <1>c, GetStep, Zenon
<1>2. Found(c) => auth = issued[c]
  BY <1>0, <1>c, GetStep, Zenon
<1>3. ~Found(c) => auth = None
  OBVIOUS
<1> HIDE DEF auth, y
<1>4. \A x \in Threads : x = p
  BY DEF OneThread
<1>5. UNCHANGED <<Asker, Origin, decided>>
  BY <1>1 DEF Asker, Origin
<1>6. \A d \in Codes : Got(d) = {}
  BY <1>1, <1>4 DEF Got, At
<1>7. \A d \in Codes : Found(d)' <=> Found(d)
  BY <1>1 DEF Found
<1>8. CASE ~Found(c)
  <2>1. \A d \in Codes : p \notin Got(d) /\ p \notin Got(d)'
    BY <1>1, <1>3, <1>6, <1>8 DEF Got
  <2>2. UNCHANGED <<Valid, Redeemer>>
    BY <1>1, <2>1, CodesLeftAlone
  <2> QED BY <1>5, <2>2 DEF Grant!vars
<1>9. CASE Found(c)
  <2>1. Got(c)' = {p} /\ \A d \in Codes \ {c} : Got(d)' = {}
    BY <1>1, <1>2, <1>4, <1>9, WhoGot
  <2>2. c \in Valid /\ Valid' = Valid \ {c}
    BY <1>1, <1>6, <1>7, <1>9, <2>1 DEF Valid
  <2>3. \A d \in Codes \ {c} : Redeemers(d)' = Redeemers(d)
    BY <1>1, <1>6, <2>1, WhoRedeems
  <2>4. \A client \in Clients : ~(redeemed[c][client] > 0)
    BY <1>0, <1>1, <1>9 DEF IInv, CodesStored, Found
  <2>5. Redeemers(c) = {}
    BY <1>1, <1>6, <2>4, WhoRedeems
  <2>6. CASE Accepted(y)
    <3>1. Redeemers(c)' = {y.client}
      BY <1>1, <2>1, <2>4, <2>6, WhoRedeems
    <3>2. /\ \A d \in Codes \ {c} : Redeemer'[d] = Redeemer[d]
          /\ Redeemer[c] = None /\ Redeemer'[c] = y.client
      BY <1>1, <2>3, <2>5, <3>1, TheOneIs DEF Redeemer
    <3>3. y.client = Asker[Origin[c]]
      <4>1. y.client = issued[c].client
        BY <1>1, <1>2, <1>9, <2>6 DEF Accepted
      <4>2. issued[c].of \in Requests /\ request[issued[c].of] # None
            /\ issued[c].client = request[issued[c].of].client
        BY <1>0, <1>1, CodeType DEF IInv, CodesStored, NoCodeWithoutApproval
      <4> QED BY <1>1, <4>1, <4>2 DEF Asker, Origin
    <3>4. Redeemer' = [Redeemer EXCEPT ![c] = Asker[Origin[c]]]
      BY <1>1, <3>2, <3>3 DEF Redeemer
    <3>5. Grant!Redeem(c)
      BY <1>5, <2>2, <3>2, <3>4 DEF Grant!Redeem
    <3> QED BY <1>1, <3>5
  <2>7. CASE ~Accepted(y)
    <3>1. Redeemers(c)' = {}
      BY <1>1, <2>1, <2>4, <2>7, WhoRedeems
    <3>2. Redeemer' = Redeemer
      BY <2>3, <2>5, <3>1 DEF Redeemer
    <3>3. Grant!Void({c})
      BY <1>5, <2>2, <3>2 DEF Grant!Void
    <3> QED BY <1>1, <3>3
  <2> QED BY <2>6, <2>7
<1> QED BY <1>8, <1>9

\* remove takes from the store what nobody else can get any more.
LEMMA RefinedRemove ==
  ASSUME OneThread, OneThreadInv, NEW p \in Threads, Remove(p)
  PROVE  UNCHANGED Grant!vars
<1>0. IInv
  BY DEF OneThreadInv
<1>c. PICK c \in Codes : c = thread[p].code
  BY <1>0, RemoveStep
<1>1. /\ thread[p].client \in Clients
      /\ thread[p].step = "remove" /\ thread[p] # None
      /\ thread[p].auth # None => codeStore'[c] = None
      /\ codeStore'[c] = codeStore[c] \/ codeStore'[c] = None
      /\ \A d \in Codes \ {c} : codeStore'[d] = codeStore[d]
      /\ \A d \in Codes, client \in Clients :
           redeemed'[d][client] =
             IF Accepted(thread[p]) /\ d = c /\ client = thread[p].client
             THEN redeemed[d][client] + 1 ELSE redeemed[d][client]
      /\ thread'[p] = None
      /\ UNCHANGED <<codeServices, now, request, issued, decided>>
  BY <1>0, <1>c, RemoveStep DEF Remove, At
<1>2. redeemed \in [Codes -> [Clients -> Nat]]
  BY <1>0 DEF IInv, TypeOK
<1>3. thread[p].auth = None => ~Found(c)
  BY <1>0, <1>1, <1>c DEF IInv, RedemptionsKnow, Redeeming
<1>4. \A x \in Threads : x = p
  BY DEF OneThread
<1>5. UNCHANGED <<Asker, Origin, decided>>
  BY <1>1 DEF Asker, Origin
<1>6. \A d \in Codes : Got(d)' = {}
  BY <1>1, <1>4 DEF Got, At
<1>7. \A d \in Codes \ {c} : Got(d) = {}
  BY <1>4, <1>c, WhoGot
<1>8. Got(c) = IF thread[p].auth = None THEN {} ELSE {p}
  <2>1. p \in Got(c) <=> thread[p].auth # None
    BY <1>1, <1>c, WhoGot
  <2>2. Got(c) \subseteq {p}
    BY <1>4, WhoGot
  <2> QED BY <2>1, <2>2
<1>9. Valid' = Valid
  <2>1. \A d \in Codes \ {c} : Found(d)' <=> Found(d)
    BY <1>1 DEF Found
  <2>2. ~Found(c)'
    BY <1>1, <1>3 DEF Found
  <2>3. c \notin Valid /\ c \notin Valid'
    BY <1>3, <1>8, <2>2 DEF Valid
  <2> QED BY <1>6, <1>7, <2>1, <2>3 DEF Valid
<1>10. \A d \in Codes : Redeemers(d)' = Redeemers(d)
  <2>1. \A d \in Codes \ {c} : Redeemers(d)' = Redeemers(d)
    <3>1. \A d \in Codes \ {c}, client \in Clients :
            redeemed'[d][client] = redeemed[d][client]
      BY <1>1
    <3> SUFFICES ASSUME NEW d \in Codes \ {c} PROVE Redeemers(d)' = Redeemers(d)
      OBVIOUS
    <3>2. Got(d) = {} /\ Got(d)' = {}
      BY <1>6, <1>7
    <3>3. \A client : client \in Redeemers(d)' <=> client \in Redeemers(d)
      BY <3>1, <3>2, WhoRedeems
    <3> QED BY <3>3
  <2>2. Redeemers(c)' = {client \in Clients : redeemed'[c][client] > 0}
    BY <1>1, <1>6, WhoRedeems
  <2>3. CASE Accepted(thread[p])
    <3>0. Got(c) = {p}
      BY <1>8, <2>3 DEF Accepted
    <3>1. Redeemers(c) = {client \in Clients : redeemed[c][client] > 0} \cup {thread[p].client}
      BY <2>3, <3>0, WhoRedeems
    <3>2. {client \in Clients : redeemed'[c][client] > 0}
            = {client \in Clients : redeemed[c][client] > 0} \cup {thread[p].client}
      BY <1>1, <1>2, <2>3
    <3> QED BY <2>1, <2>2, <3>1, <3>2
  <2>4. CASE ~Accepted(thread[p])
    <3>1. Redeemers(c) = {client \in Clients : redeemed[c][client] > 0}
      BY <1>8, <2>4, WhoRedeems
    <3>2. {client \in Clients : redeemed'[c][client] > 0}
            = {client \in Clients : redeemed[c][client] > 0}
      BY <1>1, <1>2, <2>4
    <3> QED BY <2>1, <2>2, <3>1, <3>2
  <2> QED BY <2>3, <2>4
<1>11. Redeemer' = Redeemer
  BY <1>10 DEF Redeemer
<1> QED BY <1>5, <1>9, <1>11 DEF Grant!vars

\* Time voids the codes that expire.
LEMMA RefinedTick ==
  ASSUME IInv, Tick
  PROVE  (\E C \in SUBSET Codes : Grant!Void(C)) \/ UNCHANGED Grant!vars
<1>1. /\ \A c \in Codes : Found(c)' => Found(c)
      /\ UNCHANGED <<request, thread, issued, decided, redeemed>>
  BY TickOK DEF Tick
<1>2. UNCHANGED <<Asker, Origin, decided>>
  BY <1>1 DEF Asker, Origin
<1>3. \A c \in Codes : Got(c)' = Got(c) /\ Redeemers(c)' = Redeemers(c)
  BY <1>1 DEF Got, Redeemers, At, Accepted
<1>4. Redeemer' = Redeemer
  BY <1>3 DEF Redeemer
<1>5. Valid' \subseteq Valid /\ Valid \subseteq Codes
  BY <1>1, <1>3 DEF Valid
<1>6. CASE Valid' = Valid
  BY <1>2, <1>4, <1>6 DEF Grant!vars
<1>7. CASE Valid' # Valid
  <2> DEFINE C == Valid \ Valid'
  <2>1. C \in SUBSET Codes /\ C # {} /\ C \subseteq Valid /\ Valid' = Valid \ C
    BY <1>5, <1>7
  <2> HIDE DEF C
  <2>2. Grant!Void(C)
    BY <1>2, <1>4, <2>1 DEF Grant!Void
  <2> QED BY <2>1, <2>2
<1> QED BY <1>6, <1>7

LEMMA InitRefined == Init => Grant!Init
<1> SUFFICES ASSUME Init PROVE Grant!Init
  OBVIOUS
<1>1. Asker = [q \in Requests |-> None] /\ decided = [q \in Requests |-> None]
  BY DEF Init, Asker
<1>2. Origin = [c \in Codes |-> None]
  BY DEF Init, Origin
<1>3. \A c \in Codes : Got(c) = {} /\ ~Found(c)
  BY DEF Init, Got, At, Found
<1>4. Valid = {}
  BY <1>3 DEF Valid
<1>5. \A c \in Codes : Redeemers(c) = {}
  <2> SUFFICES ASSUME NEW c \in Codes PROVE Redeemers(c) = {}
    OBVIOUS
  <2>1. \A client \in Clients : redeemed[c][client] = 0
    BY DEF Init
  <2> QED BY <1>3, <2>1, WhoRedeems
<1>6. Redeemer = [c \in Codes |-> None]
  BY <1>5, TheOneIs DEF Redeemer
<1> QED BY <1>1, <1>2, <1>4, <1>6 DEF Grant!Init

LEMMA NextRefined ==
  ASSUME OneThread, OneThreadInv, [Next]_vars
  PROVE  [Grant!Next]_Grant!vars
<1>0. IInv
  BY DEF OneThreadInv
<1>1. CASE UNCHANGED vars
  BY <1>1 DEF vars, Grant!vars, Asker, Origin, Valid, Redeemer, Redeemers, Got, At, Found, Accepted
<1>2. ASSUME NEW s \in Sessions, NEW client \in Clients, NEW redirect \in Redirects \cup {None},
             NEW q \in Requests, Authorize(s, q, client, redirect)
      PROVE  Grant!Next
  BY <1>0, <1>2, RefinedAuthorize DEF Grant!Next
<1>3. ASSUME NEW s \in Sessions, NEW client \in Clients, NEW redirect \in Redirects \cup {None},
             AuthorizeRefused(s, client, redirect)
      PROVE  UNCHANGED Grant!vars
  BY <1>3 DEF AuthorizeRefused, Grant!vars, Asker, Origin, Valid, Redeemer, Redeemers, Got, At,
     Found, Accepted
<1>4. ASSUME NEW p \in Threads, Deny(p)
      PROVE  Grant!Next
  BY <1>4, RefinedDeny DEF Grant!Next
<1>5. ASSUME NEW p \in Threads, NEW c \in Codes, GenerateCode(p, c)
      PROVE  Grant!Next
  BY <1>5, RefinedGenerateCode DEF Grant!Next
<1>6. ASSUME NEW p \in Threads, Get(p)
      PROVE  Grant!Next \/ UNCHANGED Grant!vars
  BY <1>6, RefinedGet DEF Grant!Next
<1>7. ASSUME NEW p \in Threads, Remove(p)
      PROVE  UNCHANGED Grant!vars
  BY <1>7, RefinedRemove
<1>8. ASSUME Tick
      PROVE  Grant!Next \/ UNCHANGED Grant!vars
  BY <1>0, <1>8, RefinedTick DEF Grant!Next
<1> HIDE DEF Grant!Next, Grant!vars
<1>9. ASSUME NEW p \in Threads,
             \/ \E s \in Sessions, decision \in Decisions : Submit(p, s, decision)
             \/ \E c \in Codes, client \in Clients, redirect \in Redirects \cup {None} :
                  Redeem(p, c, client, redirect)
             \/ Step(p)
      PROVE  Grant!Next \/ UNCHANGED Grant!vars
  BY <1>0, <1>4, <1>5, <1>6, <1>7, <1>9, RefinedQuietly DEF Step
<1> QED BY <1>1, <1>2, <1>3, <1>8, <1>9 DEF Next

\* When requests do not overlap, the authorization endpoint, the granter and either
\* store implement the grant: one decision for a request, one code for an approval, and
\* a code redeemed at most once, by the client that asked and while it is valid.
THEOREM GrantImplemented ==
  ASSUME OneThread
  PROVE  Spec => ImplementsCodeGrant
<1>1. OneThreadInv /\ [Next]_vars => [Grant!Next]_Grant!vars
  BY NextRefined
<1> QED BY <1>1, InitRefined, OneThreadInvariant, PTL DEF Spec, ImplementsCodeGrant, Grant!Spec

=============================================================================
