---------------------------- MODULE AssetsProofs ----------------------------
(***************************************************************************)
(* Theorems about Assets, for any number of requests, connections and      *)
(* paths, any length of a day and any end of the trial.                    *)
(***************************************************************************)
EXTENDS Assets, TLAPS

Ops == TransactionOps \cup CreateOps \cup ChangeOps
         \cup {"signedUrl", "receiptImage", "record"}
Places == {"gate", "sign", "verify", "missing", "find", "begin", "update", "write",
           "upload", "audit", "commit"}

-----------------------------------------------------------------------------
(* The paywall.                                                            *)

\* A remainder of a day counts as a day: none remains only when none does.
LEMMA RoundedUp ==
  ASSUME NEW a \in Nat \ {0}, NEW d \in Nat \ {0}
  PROVE  (a + d - 1) \div d # 0
  BY Z3

\* The gate and the days shown ask the same question (write-access.ts 22,
\* trial.util.ts 1).
LEMMA SameQuestion ==
  ASSUME TypeOK
  PROVE  Paywalled <=> IsReadOnly
<1>0. now \in Nat /\ TrialEndsAt \in Nat /\ Day \in Nat \ {0}
  BY AssetsAssumption DEF TypeOK
<1>1. CASE TrialEndsAt <= now
  BY <1>1 DEF Paywalled, IsReadOnly, TrialDaysRemaining
<1>2. CASE ~(TrialEndsAt <= now)
  <2>1. TrialEndsAt - now \in Nat \ {0}
    BY <1>0, <1>2
  <2>2. (TrialEndsAt - now + Day - 1) \div Day # 0
    BY <1>0, <2>1, RoundedUp
  <2> QED BY <1>2, <2>2 DEF Paywalled, IsReadOnly, TrialDaysRemaining
<1> QED BY <1>1, <1>2

-----------------------------------------------------------------------------
(* What a statement does to the acting request; the others stay.           *)

OthersStay(r) == \A q \in Requests \ {r} : request'[q] = request[q]

LEMMA FlyingIsNotIdle ==
  ASSUME NEW q \in InFlight
  PROVE  q # Idle
  BY DEF InFlight, Idle, TransactionOps, CreateOps, ChangeOps

LEMMA RequestFields ==
  ASSUME TypeOK, NEW r \in Requests, request[r] # Idle
  PROVE  /\ request[r] \in InFlight
         /\ request[r].op \in Ops /\ request[r].at \in Places
         /\ request[r].path \in Paths \cup {NoPath} /\ request[r].attempt \in 1..MaxAttempts
  BY DEF TypeOK, InFlight, Ops, Places

LEMMA Takes ==
  ASSUME TypeOK, NEW r \in Requests, NEW q \in InFlight,
         request' = [request EXCEPT ![r] = q]
  PROVE  /\ request' \in [Requests -> InFlight \cup {Idle}]
         /\ request'[r] = q /\ request'[r] # Idle /\ OthersStay(r)
  BY FlyingIsNotIdle DEF TypeOK, OthersStay

LEMMA Goes ==
  ASSUME TypeOK, NEW r \in Requests, request[r] # Idle, NEW place \in Places, Go(r, place)
  PROVE  /\ request' \in [Requests -> InFlight \cup {Idle}]
         /\ request'[r] # Idle /\ OthersStay(r)
         /\ request'[r].at = place /\ request'[r].path = request[r].path
         /\ request'[r].there = request[r].there /\ request'[r].welcome = request[r].welcome
<1> DEFINE q == [request[r] EXCEPT !.at = place]
<1>0. request[r] \in InFlight
  BY RequestFields
<1>1. /\ q \in InFlight /\ q.at = place /\ q.path = request[r].path
      /\ q.there = request[r].there /\ q.welcome = request[r].welcome
  BY <1>0 DEF InFlight, Places
<1>2. request' = [request EXCEPT ![r] = q]
  BY DEF Go
<1> QED BY <1>1, <1>2, Takes

LEMMA Verifies ==
  ASSUME TypeOK, NEW r \in Requests, request[r] # Idle, NEW place \in Places,
         Verified(r, place)
  PROVE  /\ request' \in [Requests -> InFlight \cup {Idle}]
         /\ request'[r] # Idle /\ OthersStay(r)
         /\ request'[r].at = place /\ request'[r].path = request[r].path
         /\ request'[r].there = "no" /\ request'[r].welcome = request[r].welcome
<1> DEFINE q == [request[r] EXCEPT !.at = place, !.attempt = 1, !.there = "no"]
<1>0. request[r] \in InFlight /\ 1 \in 1..MaxAttempts
  BY RequestFields, AssetsAssumption
<1>1. /\ q \in InFlight /\ q.at = place /\ q.path = request[r].path
      /\ q.there = "no" /\ q.welcome = request[r].welcome
  BY ZenonT(60), <1>0 DEF InFlight, Places
<1>2. request' = [request EXCEPT ![r] = q]
  BY DEF Verified, TypeOK
<1> QED BY <1>1, <1>2, Takes

LEMMA Writes ==
  ASSUME TypeOK, NEW r \in Requests, request[r] # Idle, Written(r)
  PROVE  /\ request' \in [Requests -> InFlight \cup {Idle}]
         /\ request'[r] # Idle /\ OthersStay(r)
         /\ request'[r].at = "audit" /\ request'[r].path = NoPath
         /\ request'[r].welcome = request[r].welcome
<1> DEFINE q == [request[r] EXCEPT !.op = "record", !.at = "audit", !.path = NoPath]
<1>0. request[r] \in InFlight
  BY RequestFields
<1>1. q \in InFlight /\ q.at = "audit" /\ q.path = NoPath /\ q.welcome = request[r].welcome
  BY <1>0 DEF InFlight
<1>2. request' = [request EXCEPT ![r] = q]
  BY DEF Written, TypeOK
<1> QED BY <1>1, <1>2, Takes

LEMMA Retries ==
  ASSUME TypeOK, NEW r \in Requests, request[r] # Idle, request[r].attempt < MaxAttempts,
         request' = [request EXCEPT ![r].attempt = @ + 1]
  PROVE  /\ request' \in [Requests -> InFlight \cup {Idle}]
         /\ request'[r] # Idle /\ OthersStay(r)
         /\ request'[r].at = request[r].at /\ request'[r].path = request[r].path
         /\ request'[r].there = request[r].there /\ request'[r].welcome = request[r].welcome
<1> DEFINE q == [request[r] EXCEPT !.attempt = @ + 1]
<1>0. request[r] \in InFlight /\ request[r].attempt + 1 \in 1..MaxAttempts
  BY RequestFields, AssetsAssumption
<1>1. /\ q \in InFlight /\ q.at = request[r].at /\ q.path = request[r].path
      /\ q.there = request[r].there /\ q.welcome = request[r].welcome
  BY <1>0 DEF InFlight
<1>2. request' = [request EXCEPT ![r] = q]
  OBVIOUS
<1> QED BY <1>1, <1>2, Takes

LEMMA Transacts ==
  ASSUME TypeOK, NEW r \in Requests, request[r] # Idle, NEW place \in Places,
         NEW tx \in {"open", "expired"},
         request' = [request EXCEPT ![r] = [request[r] EXCEPT !.at = place, !.tx = tx]]
  PROVE  /\ request' \in [Requests -> InFlight \cup {Idle}]
         /\ request'[r] # Idle /\ OthersStay(r)
         /\ request'[r].at = place /\ request'[r].path = request[r].path
         /\ request'[r].there = request[r].there /\ request'[r].welcome = request[r].welcome
<1> DEFINE q == [request[r] EXCEPT !.at = place, !.tx = tx]
<1>0. request[r] \in InFlight
  BY RequestFields
<1>1. /\ q \in InFlight /\ q.at = place /\ q.path = request[r].path
      /\ q.there = request[r].there /\ q.welcome = request[r].welcome
  BY ZenonT(60), <1>0 DEF InFlight, Places
<1> QED BY <1>1, Takes

LEMMA Finishes ==
  ASSUME TypeOK, NEW r \in Requests, Finish(r)
  PROVE  /\ request' \in [Requests -> InFlight \cup {Idle}]
         /\ request'[r] = Idle /\ OthersStay(r)
  BY DEF Finish, TypeOK, OthersStay

-----------------------------------------------------------------------------
(* What keeps the invariant.                                               *)

\* Objects stay, and the folders they are in.
LEMMA EntriesStay ==
  ASSUME TypeOK, stored \subseteq stored'
  PROVE  Entries \subseteq Entries'
  BY DEF Entries

LEMMA EntriesAreThere ==
  ASSUME UNCHANGED stored
  PROVE  Entries' = Entries
  BY DEF Entries

\* What the other requests carry stays true: objects stay, and the paywall is
\* where it was.
LEMMA OthersCarry ==
  ASSUME IInv, NEW r \in Requests, OthersStay(r), stored \subseteq stored',
         Paywalled' <=> Paywalled
  PROVE  \A q \in Requests \ {r} : Carries(q)'
<1>1. Entries \subseteq Entries'
  BY EntriesStay DEF IInv
<1> QED BY <1>1 DEF IInv, Carries, OthersStay

\* A step of one request that writes no row.
LEMMA QuietStep ==
  ASSUME IInv, NEW r \in Requests, OthersStay(r),
         request' \in [Requests -> InFlight \cup {Idle}],
         UNCHANGED <<now, status, stored, saved>>, issued' \subseteq Uploads,
         Carries(r)'
  PROVE  IInv'
<1>0. TypeOK /\ saved \subseteq Entries /\ Entries' = Entries
  BY EntriesAreThere DEF IInv
<1>1. TypeOK'
  BY <1>0 DEF TypeOK
<1>2. Paywalled' <=> Paywalled
  BY DEF Paywalled, TrialDaysRemaining
<1>3. \A q \in Requests : Carries(q)'
  BY <1>2, OthersCarry
<1> QED BY <1>0, <1>1, <1>3 DEF IInv

LEMMA FinishStep ==
  ASSUME IInv, NEW r \in Requests, Finish(r), UNCHANGED <<now, status, issued, stored, saved>>
  PROVE  IInv'
<1>1. /\ request' \in [Requests -> InFlight \cup {Idle}]
      /\ request'[r] = Idle /\ OthersStay(r)
  BY Finishes DEF IInv
<1>2. Carries(r)'
  BY <1>1 DEF Carries
<1> QED BY <1>1, <1>2, QuietStep DEF IInv, TypeOK

\* Past the gate, and nothing left to look for.
Past == {"find", "begin", "update", "write", "upload", "audit", "commit"}

\* A request that is past the gate goes on, its path listed in the bucket.
LEMMA PastStep ==
  ASSUME IInv, NEW r \in Requests, request[r] # Idle, OthersStay(r),
         request' \in [Requests -> InFlight \cup {Idle}], request'[r] # Idle,
         request[r].at # "gate", request'[r].at \in Past,
         request'[r].path \in Entries \cup {NoPath},
         request'[r].welcome = request[r].welcome,
         UNCHANGED <<now, status, issued, stored, saved>>
  PROVE  IInv'
<1>1. request[r].welcome = "yes"
  BY DEF IInv, Carries
<1>2. Carries(r)'
  BY <1>1, EntriesAreThere DEF Carries, Past
<1> QED BY <1>2, QuietStep DEF IInv, TypeOK

LEMMA GoStep ==
  ASSUME IInv, NEW r \in Requests, NEW from \in Past, At(r, from),
         NEW place \in Past, Go(r, place), UNCHANGED <<now, status, issued, stored, saved>>
  PROVE  IInv'
<1>0. /\ TypeOK /\ request[r] # Idle /\ place \in Places
      /\ request[r].at # "gate" /\ request[r].path \in Entries \cup {NoPath}
  BY DEF IInv, At, Carries, Past, Places
<1>1. /\ request' \in [Requests -> InFlight \cup {Idle}]
      /\ request'[r] # Idle /\ OthersStay(r)
      /\ request'[r].at = place /\ request'[r].path = request[r].path
      /\ request'[r].there = request[r].there /\ request'[r].welcome = request[r].welcome
  BY <1>0, Goes
<1> QED BY <1>0, <1>1, PastStep

-----------------------------------------------------------------------------
(* Action by action.                                                       *)

LEMMA ArriveStep ==
  ASSUME IInv, NEW r \in Requests, NEW op \in Ops, NEW path \in Paths \cup {NoPath},
         Arrive(r, op, path)
  PROVE  IInv'
<1> DEFINE q == [op |-> op, at |-> "gate", path |-> path, attempt |-> 1, tx |-> "none",
                 there |-> IF path \in Entries THEN "yes" ELSE "no",
                 welcome |-> IF Paywalled THEN "no" ELSE "yes"]
<1>0. TypeOK /\ 1 \in 1..MaxAttempts /\ UNCHANGED <<now, status, issued, stored, saved>>
  BY AssetsAssumption DEF IInv, Arrive
<1>1. /\ q \in InFlight /\ q.at = "gate" /\ q.path = path
      /\ q.there = "yes" => path \in Entries
      /\ ~Paywalled => q.welcome = "yes"
  BY <1>0 DEF InFlight, Ops
<1>2. request' = [request EXCEPT ![r] = q]
  BY DEF Arrive
<1>3. /\ request' \in [Requests -> InFlight \cup {Idle}]
      /\ request'[r] = q /\ OthersStay(r)
  BY <1>0, <1>1, <1>2, Takes
<1>4. Paywalled' <=> Paywalled
  BY <1>0 DEF Paywalled, TrialDaysRemaining
<1>5. Carries(r)'
  BY <1>0, <1>1, <1>3, <1>4, EntriesAreThere DEF Carries
<1> QED BY <1>0, <1>3, <1>5, QuietStep DEF TypeOK

LEMMA StartStep ==
  ASSUME IInv, NEW r \in Requests, Start(r)
  PROVE  IInv'
<1>1. \A op \in Ops, path \in Paths \cup {NoPath} : Arrive(r, op, path) => IInv'
  BY ArriveStep
<1>2. {"signedUrl", "confirmUpload", "updateProfile", "createInvestment", "createItem",
       "update", "delete", "receiptImage"} \subseteq Ops
  BY DEF Ops, TransactionOps, CreateOps, ChangeOps
<1>3. CASE GenerateUploadUrl(r)
  BY <1>1, <1>2, <1>3 DEF GenerateUploadUrl
<1>4. CASE ConfirmUpload(r)
  BY <1>1, <1>2, <1>4 DEF ConfirmUpload
<1>5. CASE UpdateProfile(r)
  BY <1>1, <1>2, <1>5 DEF UpdateProfile
<1>6. CASE CreateInvestment(r)
  BY <1>1, <1>2, <1>6 DEF CreateInvestment
<1>7. CASE DeleteInvestment(r)
  BY <1>1, <1>2, <1>7 DEF DeleteInvestment
<1>8. CASE CreateItem(r)
  BY <1>1, <1>2, <1>8 DEF CreateItem
<1>9. CASE ChangeItem(r)
  BY <1>1, <1>2, <1>9 DEF ChangeItem, ChangeOps
<1>10. CASE GenerateReceiptImage(r)
  BY <1>1, <1>2, <1>10 DEF GenerateReceiptImage
<1> QED BY <1>3, <1>4, <1>5, <1>6, <1>7, <1>8, <1>9, <1>10 DEF Start

LEMMA FirstPlaces ==
  ASSUME NEW op \in Ops, NEW path
  PROVE  /\ FirstStep(op, path) \in {"sign", "verify", "find", "write"}
         /\ path # NoPath => FirstStep(op, path) = "verify"
  BY DEF FirstStep, ChangeOps

\* Whoever is let through has no paywall in front.
LEMMA GateStep ==
  ASSUME IInv, NEW r \in Requests, RequireWriteAccess(r)
  PROVE  IInv'
<1> DEFINE place == FirstStep(request[r].op, request[r].path)
<1>0. /\ TypeOK /\ UNCHANGED <<now, status, issued, stored, saved>>
      /\ request[r] # Idle /\ request[r].at = "gate"
  BY DEF IInv, RequireWriteAccess, At
<1>1. CASE IsReadOnly
  BY <1>0, <1>1, FinishStep DEF RequireWriteAccess
<1>2. CASE ~IsReadOnly
  <2>1. /\ place \in {"sign", "verify", "find", "write"}
        /\ request[r].path # NoPath => place \in {"sign", "verify"}
    BY <1>0, RequestFields, FirstPlaces
  <2>2. Go(r, place) /\ place \in Places
    BY <1>2, <2>1 DEF RequireWriteAccess, Places
  <2>3. /\ request' \in [Requests -> InFlight \cup {Idle}]
        /\ request'[r] # Idle /\ OthersStay(r)
        /\ request'[r].at = place /\ request'[r].path = request[r].path
        /\ request'[r].there = request[r].there /\ request'[r].welcome = request[r].welcome
    BY <1>0, <2>2, Goes
  <2>4. request[r].welcome = "yes" /\ (request[r].there = "yes" => request[r].path \in Entries)
    BY <1>0, <1>2, SameQuestion DEF IInv, Carries
  <2>5. Carries(r)'
    BY <1>0, <2>1, <2>3, <2>4, EntriesAreThere DEF Carries
  <2> QED BY <1>0, <2>3, <2>5, QuietStep DEF TypeOK
<1> QED BY <1>1, <1>2

LEMMA SignStep ==
  ASSUME IInv, NEW r \in Requests, GenerateSignedUploadUrl(r)
  PROVE  IInv'
<1>0. /\ TypeOK /\ UNCHANGED <<now, status, stored, saved>>
      /\ issued' \subseteq Uploads
  BY DEF IInv, TypeOK, GenerateSignedUploadUrl
<1>1. /\ request' \in [Requests -> InFlight \cup {Idle}]
      /\ request'[r] = Idle /\ OthersStay(r)
  BY <1>0, Finishes DEF GenerateSignedUploadUrl
<1>2. Carries(r)'
  BY <1>1 DEF Carries
<1> QED BY <1>0, <1>1, <1>2, QuietStep

\* Only what is not listed now is called missing, and it was not before.
LEMMA VerifyStep ==
  ASSUME IInv, NEW r \in Requests, VerifyObjectExists(r)
  PROVE  IInv'
<1>0. /\ TypeOK /\ UNCHANGED <<now, status, issued, stored, saved>>
      /\ request[r] # Idle /\ request[r].at = "verify" /\ request[r].welcome = "yes"
      /\ request[r].there = "yes" => request[r].path \in Entries
  BY DEF IInv, VerifyObjectExists, At, Carries
<1>1. CASE request[r].path \in Entries
  <2> DEFINE place == IF request[r].op = "confirmUpload" THEN "begin" ELSE "write"
  <2>1. Verified(r, place) /\ place \in Places /\ place \in Past
    BY <1>1 DEF VerifyObjectExists, Places, Past
  <2>2. /\ request' \in [Requests -> InFlight \cup {Idle}]
        /\ request'[r] # Idle /\ OthersStay(r)
        /\ request'[r].at = place /\ request'[r].path = request[r].path
        /\ request'[r].there = "no" /\ request'[r].welcome = request[r].welcome
    BY <1>0, <2>1, Verifies
  <2> QED BY <1>0, <1>1, <2>1, <2>2, PastStep
<1>2. CASE request[r].path \notin Entries
  <2>1. Go(r, "missing")
    BY <1>2 DEF VerifyObjectExists
  <2>2. /\ request' \in [Requests -> InFlight \cup {Idle}]
        /\ request'[r] # Idle /\ OthersStay(r)
        /\ request'[r].at = "missing" /\ request'[r].path = request[r].path
        /\ request'[r].there = request[r].there /\ request'[r].welcome = request[r].welcome
    BY <1>0, <2>1, Goes DEF Places
  <2>3. request[r].there = "no"
    BY <1>0, <1>2 DEF TypeOK, InFlight
  <2>4. Carries(r)'
    BY <1>0, <2>2, <2>3, EntriesAreThere DEF Carries
  <2> QED BY <1>0, <2>2, <2>4, QuietStep DEF TypeOK
<1> QED BY <1>1, <1>2

LEMMA StorageFailsStep ==
  ASSUME IInv, NEW r \in Requests, StorageFails(r)
  PROVE  IInv'
<1>0. /\ TypeOK /\ UNCHANGED <<now, status, issued, stored, saved>>
      /\ request[r] # Idle /\ request[r].at = "verify" /\ request[r].welcome = "yes"
      /\ request[r].there = "yes" => request[r].path \in Entries
  BY DEF IInv, StorageFails, At, Carries
<1>1. CASE request[r].attempt < MaxAttempts
  <2>1. /\ request' \in [Requests -> InFlight \cup {Idle}]
        /\ request'[r] # Idle /\ OthersStay(r)
        /\ request'[r].at = request[r].at /\ request'[r].path = request[r].path
        /\ request'[r].there = request[r].there /\ request'[r].welcome = request[r].welcome
    BY <1>0, <1>1, Retries DEF StorageFails
  <2>2. Carries(r)'
    BY <1>0, <2>1, EntriesAreThere DEF Carries
  <2> QED BY <1>0, <2>1, <2>2, QuietStep DEF TypeOK
<1>2. CASE ~(request[r].attempt < MaxAttempts)
  BY <1>0, <1>2, FinishStep DEF StorageFails
<1> QED BY <1>1, <1>2

LEMMA FindStep ==
  ASSUME IInv, NEW r \in Requests, Find(r)
  PROVE  IInv'
<1>0. UNCHANGED <<now, status, issued, stored, saved>> /\ At(r, "find")
  BY DEF Find
<1>1. Finish(r) \/ Go(r, "begin") \/ Go(r, "upload") \/ Go(r, "write")
  BY DEF Find
<1> QED BY <1>0, <1>1, FinishStep, GoStep DEF Past

LEMMA BeginStep ==
  ASSUME IInv, NEW r \in Requests, Begin(r)
  PROVE  IInv'
<1>0. /\ TypeOK /\ UNCHANGED <<now, status, issued, stored, saved>>
      /\ request[r] # Idle /\ request[r].at = "begin"
      /\ request[r].path \in Entries \cup {NoPath}
      /\ request' = [request EXCEPT ![r].at = "update", ![r].tx = "open"]
  BY DEF IInv, Begin, At, Carries
<1>1. request' = [request EXCEPT ![r] = [request[r] EXCEPT !.at = "update", !.tx = "open"]]
  BY <1>0 DEF TypeOK
<1>2. /\ request' \in [Requests -> InFlight \cup {Idle}]
      /\ request'[r] # Idle /\ OthersStay(r)
      /\ request'[r].at = "update" /\ request'[r].path = request[r].path
      /\ request'[r].there = request[r].there /\ request'[r].welcome = request[r].welcome
  BY <1>0, <1>1, Transacts DEF Places
<1> QED BY <1>0, <1>2, PastStep DEF Past

LEMMA UpdateStep ==
  ASSUME IInv, NEW r \in Requests, Update(r)
  PROVE  IInv'
<1>0. UNCHANGED <<now, status, issued, stored, saved>> /\ At(r, "update")
  BY DEF Update
<1>1. Finish(r) \/ Go(r, "audit")
  BY DEF Update
<1> QED BY <1>0, <1>1, FinishStep, GoStep DEF Past

LEMMA LogEventStep ==
  ASSUME IInv, NEW r \in Requests, LogEvent(r)
  PROVE  IInv'
<1>0. UNCHANGED <<now, status, issued, stored, saved>> /\ At(r, "audit")
  BY DEF LogEvent
<1>1. Finish(r) \/ Go(r, "commit")
  BY DEF LogEvent
<1> QED BY <1>0, <1>1, FinishStep, GoStep DEF Past

LEMMA PoolTimeoutStep ==
  ASSUME IInv, NEW r \in Requests, PoolTimeout(r)
  PROVE  IInv'
<1>0. UNCHANGED <<now, status, issued, stored, saved>>
  BY DEF PoolTimeout
<1>1. Finish(r) \/ (At(r, "audit") /\ Go(r, "commit"))
  BY DEF PoolTimeout
<1> QED BY <1>0, <1>1, FinishStep, GoStep DEF Past

LEMMA ExpiresStep ==
  ASSUME IInv, NEW r \in Requests, TransactionExpires(r)
  PROVE  IInv'
<1>0. /\ TypeOK /\ UNCHANGED <<now, status, issued, stored, saved>>
      /\ request[r] # Idle /\ Carries(r) /\ request[r] \in InFlight
      /\ request' = [request EXCEPT ![r].tx = "expired"]
  BY DEF IInv, TypeOK, TransactionExpires
<1>1. request' = [request EXCEPT ![r] =
                    [request[r] EXCEPT !.at = request[r].at, !.tx = "expired"]]
  BY <1>0 DEF TypeOK, InFlight
<1>2. /\ request' \in [Requests -> InFlight \cup {Idle}]
      /\ request'[r] # Idle /\ OthersStay(r)
      /\ request'[r].at = request[r].at /\ request'[r].path = request[r].path
      /\ request'[r].there = request[r].there /\ request'[r].welcome = request[r].welcome
  BY <1>0, <1>1, Transacts, RequestFields
<1>3. Paywalled' <=> Paywalled
  BY <1>0 DEF Paywalled, TrialDaysRemaining
<1>4. Carries(r)'
  BY <1>0, <1>2, <1>3, EntriesAreThere DEF Carries
<1> QED BY <1>0, <1>2, <1>4, QuietStep DEF TypeOK

\* A step of one request that may save its path.
LEMMA SaveStep ==
  ASSUME IInv, NEW r \in Requests, OthersStay(r), request[r] # Idle,
         request' \in [Requests -> InFlight \cup {Idle}],
         request[r].path \in Entries \cup {NoPath},
         saved' \in {saved, saved \cup ({request[r].path} \ {NoPath})},
         UNCHANGED <<now, status, issued, stored>>, Carries(r)'
  PROVE  IInv'
<1>0. TypeOK /\ saved \subseteq Entries /\ Entries' = Entries
  BY EntriesAreThere DEF IInv
<1>1. request[r].path \in Paths \cup {NoPath}
  BY <1>0, RequestFields
<1>2. saved' \subseteq Paths /\ saved' \subseteq Entries
  BY <1>0, <1>1 DEF TypeOK
<1>3. TypeOK'
  BY <1>0, <1>2 DEF TypeOK
<1>4. Paywalled' <=> Paywalled
  BY DEF Paywalled, TrialDaysRemaining
<1>5. \A q \in Requests : Carries(q)'
  BY <1>4, OthersCarry
<1> QED BY <1>0, <1>2, <1>3, <1>5 DEF IInv

\* The path that is saved is one that was looked for.
LEMMA WriteStep ==
  ASSUME IInv, NEW r \in Requests, Write(r)
  PROVE  IInv'
<1>0. /\ TypeOK /\ UNCHANGED <<now, status, issued, stored>> /\ Entries' = Entries
      /\ request[r] # Idle /\ request[r].at = "write" /\ request[r].welcome = "yes"
      /\ request[r].path \in Entries \cup {NoPath}
  BY EntriesAreThere DEF IInv, Write, At, Carries
<1>1. Written(r) \/ Finish(r)
  BY DEF Write
<1>2. /\ request' \in [Requests -> InFlight \cup {Idle}] /\ OthersStay(r)
      /\ request'[r] # Idle =>
           /\ request'[r].at = "audit" /\ request'[r].path = NoPath
           /\ request'[r].welcome = "yes"
  <2>1. CASE Written(r)
    BY <1>0, <2>1, Writes
  <2>2. CASE Finish(r)
    BY <1>0, <2>2, Finishes
  <2> QED BY <1>1, <2>1, <2>2
<1>3. saved' = saved \cup ({request[r].path} \ {NoPath})
  BY DEF Write
<1>4. Carries(r)'
  BY <1>0, <1>2 DEF Carries
<1> QED BY <1>0, <1>2, <1>3, <1>4, SaveStep

LEMMA CommitStep ==
  ASSUME IInv, NEW r \in Requests, Commit(r)
  PROVE  IInv'
<1>0. /\ TypeOK /\ UNCHANGED <<now, status, issued, stored>>
      /\ request[r] # Idle /\ request[r].path \in Entries \cup {NoPath}
  BY DEF IInv, Commit, At, Carries
<1>1. /\ request' \in [Requests -> InFlight \cup {Idle}]
      /\ request'[r] = Idle /\ OthersStay(r)
  BY <1>0, Finishes DEF Commit
<1>2. saved' \in {saved, saved \cup ({request[r].path} \ {NoPath})}
  BY DEF Commit
<1>3. Carries(r)'
  BY <1>1 DEF Carries
<1> QED BY <1>0, <1>1, <1>2, <1>3, SaveStep

\* More in the bucket: what was listed is, and whoever is on the way stays so.
LEMMA StoreStep ==
  ASSUME IInv, stored \subseteq stored', stored' \subseteq Uploads \cup Images,
         UNCHANGED <<now, status, issued, saved>>,
         request' \in [Requests -> InFlight \cup {Idle}], \A r \in Requests : Carries(r)'
  PROVE  IInv'
<1>1. TypeOK /\ saved \subseteq Entries /\ Entries \subseteq Entries'
  BY EntriesStay DEF IInv
<1>2. TypeOK'
  BY <1>1 DEF TypeOK
<1> QED BY <1>1, <1>2 DEF IInv

LEMMA UploadStep ==
  ASSUME IInv, NEW r \in Requests, UploadObject(r)
  PROVE  IInv'
<1>0. /\ TypeOK /\ UNCHANGED <<now, status, issued, saved>> /\ Written(r)
      /\ request[r] # Idle /\ request[r].welcome = "yes"
      /\ stored \subseteq stored' /\ stored' \subseteq Uploads \cup Images
  BY DEF IInv, TypeOK, UploadObject, At, Carries
<1>1. /\ request' \in [Requests -> InFlight \cup {Idle}]
      /\ request'[r] # Idle /\ OthersStay(r)
      /\ request'[r].at = "audit" /\ request'[r].path = NoPath
      /\ request'[r].welcome = request[r].welcome
  BY <1>0, Writes
<1>2. Carries(r)'
  BY <1>0, <1>1 DEF Carries
<1>3. Paywalled' <=> Paywalled
  BY <1>0 DEF Paywalled, TrialDaysRemaining
<1>4. \A q \in Requests \ {r} : Carries(q)'
  BY <1>0, <1>1, <1>3, OthersCarry
<1>5. \A q \in Requests : Carries(q)'
  BY <1>2, <1>4
<1> QED BY <1>0, <1>1, <1>5, StoreStep

LEMMA PutStep == IInv /\ Put => IInv'
<1> SUFFICES ASSUME IInv, Put PROVE IInv'
  OBVIOUS
<1>0. /\ TypeOK /\ UNCHANGED <<now, status, issued, saved, request>>
      /\ stored \subseteq stored' /\ stored' \subseteq Uploads \cup Images
  BY DEF IInv, TypeOK, Put
<1>1. Paywalled' <=> Paywalled
  BY <1>0 DEF Paywalled, TrialDaysRemaining
<1>2. Entries \subseteq Entries'
  BY <1>0, EntriesStay
<1>3. \A q \in Requests : Carries(q)'
  BY <1>0, <1>1, <1>2 DEF IInv, Carries
<1> QED BY <1>0, <1>3, StoreStep DEF TypeOK

\* The paywall lifts for whoever is on the way when the baker turns ACTIVE;
\* when it comes down, whoever is welcome by the trial is so already.
LEMMA SubscribeStep == IInv /\ Subscribe => IInv'
<1> SUFFICES ASSUME IInv, Subscribe PROVE IInv'
  OBVIOUS
<1>0. /\ TypeOK /\ UNCHANGED <<now, issued, stored, saved>> /\ Entries' = Entries
      /\ status' \in {"ACTIVE", "OTHER"} /\ status' # status
  BY EntriesAreThere DEF IInv, Subscribe
<1>1. ASSUME NEW r \in Requests
      PROVE  /\ request'[r] \in InFlight \cup {Idle}
             /\ request'[r] # Idle =>
                  /\ request[r] # Idle /\ request'[r].at = request[r].at
                  /\ request'[r].path = request[r].path
                  /\ request'[r].there = request[r].there
                  /\ request'[r].welcome = IF status' = "ACTIVE" THEN "yes"
                                                                ELSE request[r].welcome
  <2>1. request'[r] = IF status' = "ACTIVE" /\ request[r] # Idle
                        THEN [request[r] EXCEPT !.welcome = "yes"] ELSE request[r]
    BY DEF Subscribe
  <2>2. CASE request[r] = Idle
    BY <2>1, <2>2
  <2>3. CASE request[r] # Idle
    <3>1. request[r] \in InFlight
      BY <1>0, <2>3, RequestFields
    <3> QED BY <2>1, <2>3, <3>1 DEF InFlight
  <2> QED BY <2>2, <2>3
<1>2. request' \in [Requests -> InFlight \cup {Idle}]
  <2>1. request' = [r \in Requests |-> request'[r]]
    BY DEF Subscribe
  <2> QED BY <1>1, <2>1
<1>3. TypeOK'
  BY <1>0, <1>2 DEF TypeOK
<1>4. status' # "ACTIVE" => ~Paywalled
  BY <1>0 DEF Paywalled, TypeOK
<1>5. ASSUME NEW r \in Requests PROVE Carries(r)'
  <2>1. Carries(r)
    BY DEF IInv
  <2>2. CASE request'[r] = Idle
    BY <2>2 DEF Carries
  <2>3. CASE request'[r] # Idle
    BY <1>0, <1>1, <1>4, <2>1, <2>3 DEF Carries
  <2> QED BY <2>2, <2>3
<1> QED BY <1>0, <1>3, <1>5 DEF IInv

\* Time can only bring the paywall down.
LEMMA TickStep == IInv /\ Tick => IInv'
<1> SUFFICES ASSUME IInv, Tick PROVE IInv'
  OBVIOUS
<1>0. /\ TypeOK /\ UNCHANGED <<status, issued, stored, saved, request>> /\ Entries' = Entries
      /\ now' = now + 1 /\ now < MaxTime
  BY EntriesAreThere DEF IInv, Tick
<1>1. TypeOK'
  BY <1>0, AssetsAssumption DEF TypeOK
<1>2. ~Paywalled' => ~Paywalled
  <2>1. Paywalled <=> IsReadOnly
    BY <1>0, SameQuestion
  <2>2. Paywalled' <=> IsReadOnly'
    BY <1>1, SameQuestion, PTL
  <2> QED BY <1>0, <2>1, <2>2, AssetsAssumption DEF IsReadOnly, TypeOK
<1>3. \A q \in Requests : Carries(q)'
  BY <1>0, <1>2 DEF IInv, Carries
<1> QED BY <1>0, <1>1, <1>3 DEF IInv

LEMMA Stutter == IInv /\ UNCHANGED vars => IInv'
  BY DEF vars, IInv, TypeOK, Entries, Carries, Paywalled, TrialDaysRemaining

-----------------------------------------------------------------------------
LEMMA InitInv == Init => IInv
  BY AssetsAssumption DEF Init, IInv, TypeOK, Carries

LEMMA NextInv == IInv /\ [Next]_vars => IInv'
<1> SUFFICES ASSUME IInv, [Next]_vars PROVE IInv'
  OBVIOUS
<1>1. ASSUME NEW r \in Requests, Start(r) PROVE IInv'
  BY <1>1, StartStep
<1>2. ASSUME NEW r \in Requests, Proceed(r) PROVE IInv'
  <2>1. CASE ReplyMissing(r)
    BY <2>1, FinishStep DEF ReplyMissing
  <2> QED BY <1>2, <2>1, GateStep, SignStep, VerifyStep, StorageFailsStep, UploadStep, FindStep, WriteStep,
             BeginStep, UpdateStep, LogEventStep, CommitStep, PoolTimeoutStep DEF Proceed
<1>3. ASSUME NEW r \in Requests, TransactionExpires(r) PROVE IInv'
  BY <1>3, ExpiresStep
<1>4. ASSUME NEW r \in Requests, Fail(r) PROVE IInv'
  BY <1>4, FinishStep DEF Fail
<1> QED BY <1>1, <1>2, <1>3, <1>4, PutStep, SubscribeStep, TickStep, Stutter DEF Next

-----------------------------------------------------------------------------
(* The theorems.                                                           *)

\* The inductive invariant behind what is said of the bucket and the paywall.
THEOREM Invariance == Spec => []IInv
  BY InitInv, NextInv, PTL DEF Spec

\* Every path, object and request stays within its type; in particular the bucket
\* is asked no more than MaxAttempts times.
THEOREM TypeCorrect == Spec => []TypeOK
<1>1. IInv => TypeOK
  BY DEF IInv
<1> QED BY <1>1, Invariance, PTL

\* Whatever paths clients name, one that is saved leads to an object or is a
\* folder that holds one, and only what was not in the bucket on arrival is said
\* to be missing (supabase.storage.ts 83-119).
THEOREM VerdictsCorrect == Spec => []VerdictsHold
<1>1. IInv => VerdictsHold
  BY DEF IInv, VerdictsHold, Carries, At
<1> QED BY <1>1, Invariance, PTL

\* The gate and the days of trial the app shows never disagree, whatever the
\* length of a day and the end of the trial (write-access.ts 22, trial.util.ts).
THEOREM OneAnswer == Spec => [](Paywalled <=> IsReadOnly)
<1>1. IInv => (Paywalled <=> IsReadOnly)
  BY SameQuestion DEF IInv
<1> QED BY <1>1, Invariance, PTL

\* Whoever runs a statement that writes, or puts a receipt image into the bucket,
\* had a moment without a paywall since it arrived (write-access.ts 22).
THEOREM PaywallCorrect == Spec => PaywalledWritesNothing
<1>1. ASSUME IInv, NEW r \in Requests, Write(r) \/ Commit(r) \/ UploadObject(r)
      PROVE  request[r].welcome = "yes"
  <2>1. request[r] # Idle /\ request[r].at # "gate"
    BY <1>1 DEF Write, Commit, UploadObject, At
  <2> QED BY <1>1, <2>1 DEF IInv, Carries
<1>2. IInv => \A r \in Requests :
                Write(r) \/ Commit(r) \/ UploadObject(r) => request[r].welcome = "yes"
  BY <1>1
<1> QED BY <1>2, Invariance, PTL DEF Spec, PaywalledWritesNothing

=============================================================================
