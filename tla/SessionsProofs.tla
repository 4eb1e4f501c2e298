--------------------------- MODULE SessionsProofs ---------------------------
(***************************************************************************)
(* Theorems about Sessions, for every number of tokens and requests and    *)
(* every length of the grace window and of the tokens' lives.              *)
(***************************************************************************)
EXTENDS Sessions, TLAPS

-----------------------------------------------------------------------------
(* Type correctness.                                                       *)

LEMMA Times == Never \in Time /\ Never \notin Nat /\ \A n \in Nat : n \in Time
  BY DEF Never, Time

LEMMA InitType == Init => TypeOK
  BY Times DEF Init, TypeOK

\* A request past its start has all the fields of one in flight.
LEMMA RequestFields ==
  ASSUME TypeOK, NEW r \in Requests, request[r] # Idle
  PROVE  request[r] \in InFlight
  BY DEF TypeOK

LEMMA NotIdle ==
  ASSUME NEW r, NEW place, At(r, place), place # "idle"
  PROVE  request[r] # Idle
  BY DEF At, Idle

\* Moving a request on, or starting or ending one, keeps the table typed.
LEMMA GoType ==
  ASSUME TypeOK, NEW r \in Requests, request[r] # Idle,
         NEW place \in {"claim", "examine", "judge", "revokeAll", "vet", "mint",
                        "link", "reply"},
         NEW won \in {"yes", "no"}, NEW new \in Tokens \cup {None},
         Go(r, place, won, new)
  PROVE  request' \in [Requests -> InFlight \cup {Idle}]
<1>1. request[r] \in InFlight
  BY RequestFields
<1> QED BY <1>1 DEF Go, TypeOK, InFlight

LEMMA AdvanceType ==
  ASSUME TypeOK, NEW r \in Requests, request[r] # Idle,
         NEW place \in {"claim", "examine", "judge", "revokeAll", "vet", "mint",
                        "link", "reply"},
         Advance(r, place)
  PROVE  request' \in [Requests -> InFlight \cup {Idle}]
<1>1. request[r] \in InFlight
  BY RequestFields
<1>2. request[r].won \in {"yes", "no"} /\ request[r].new \in Tokens \cup {None}
  BY <1>1 DEF InFlight
<1> QED BY <1>2, GoType DEF Advance

LEMMA ArriveType ==
  ASSUME TypeOK, NEW r \in Requests, NEW place \in {"claim", "vet"},
         NEW token \in Tokens \cup {None}, Arrive(r, place, token)
  PROVE  request' \in [Requests -> InFlight \cup {Idle}]
  BY DEF Arrive, TypeOK, InFlight

LEMMA FinishType ==
  ASSUME TypeOK, NEW r \in Requests, Finish(r)
  PROVE  request' \in [Requests -> InFlight \cup {Idle}]
  BY DEF Finish, TypeOK

\* The token of a request at a place that looks at it; needs that requests
\* carry one there.
LEMMA CarriedToken ==
  ASSUME TypeOK, NEW r \in Requests, Carries(r)
  PROVE  /\ At(r, "claim") \/ At(r, "examine") \/ At(r, "judge") \/ At(r, "revokeAll")
              => request[r].token \in Tokens
         /\ At(r, "link") => request[r].token \in Tokens
         /\ At(r, "link") \/ At(r, "reply") => request[r].new \in Tokens
  BY DEF TypeOK, Carries

\* Whatever a step does, the types are kept.
LEMMA NextType ==
  ASSUME TypeOK, \A r \in Requests : Carries(r), [Next]_vars
  PROVE  TypeOK'
<1>1. ASSUME NEW r \in Requests, SignIn(r) PROVE TypeOK'
  BY <1>1, ArriveType DEF SignIn, TypeOK, rows
<1>2. ASSUME NEW r \in Requests, Present(r) PROVE TypeOK'
  <2>1. PICK t \in held : Arrive(r, "claim", t)
    BY <1>2 DEF Present
  <2>2. t \in Tokens
    BY DEF TypeOK
  <2> QED BY <1>2, <2>1, <2>2, ArriveType DEF Present, TypeOK, rows
<1>3. ASSUME NEW r \in Requests, Claim(r) PROVE TypeOK'
  <2>1. request[r].token \in Tokens /\ request[r] # Idle
    BY <1>3, CarriedToken, NotIdle DEF Claim
  <2>2. request' \in [Requests -> InFlight \cup {Idle}]
    BY <1>3, <2>1, GoType, AdvanceType DEF Claim
  <2> QED BY <1>3, <2>1, <2>2 DEF Claim, TypeOK, Time
<1>4. ASSUME NEW r \in Requests, Examine(r) PROVE TypeOK'
  BY <1>4, AdvanceType, FinishType, NotIdle DEF Examine, TypeOK, rows
<1>5. ASSUME NEW r \in Requests, Judge(r) PROVE TypeOK'
  BY <1>5, AdvanceType, NotIdle DEF Judge, TypeOK, rows
<1>6. ASSUME NEW r \in Requests, RevokeAll(r) PROVE TypeOK'
  BY <1>6, FinishType DEF RevokeAll, TypeOK, Time
<1>7. ASSUME NEW r \in Requests, Vet(r) PROVE TypeOK'
  BY <1>7, AdvanceType, FinishType, NotIdle DEF Vet, TypeOK, rows
<1>8. ASSUME NEW r \in Requests, Mint(r) PROVE TypeOK'
  <2>1. PICK t \in Tokens :
          /\ issued' = [issued EXCEPT ![t] = now]
          /\ Go(r, IF request[r].won = "yes" THEN "link" ELSE "reply",
                request[r].won, t)
    BY <1>8 DEF Mint
  <2>2. request[r] # Idle
    BY <1>8, NotIdle DEF Mint
  <2>3. request[r].won \in {"yes", "no"}
    BY <2>2, RequestFields DEF InFlight
  <2>4. request' \in [Requests -> InFlight \cup {Idle}]
    BY <2>1, <2>2, <2>3, GoType
  <2> QED BY <1>8, <2>1, <2>4 DEF Mint, TypeOK, Time
<1>9. ASSUME NEW r \in Requests, Link(r) PROVE TypeOK'
  <2>1. request[r].token \in Tokens /\ request[r].new \in Tokens /\ request[r] # Idle
    BY <1>9, CarriedToken, NotIdle DEF Link
  <2> QED BY <1>9, <2>1, AdvanceType DEF Link, TypeOK
<1>10. ASSUME NEW r \in Requests, Reply(r) PROVE TypeOK'
  <2>1. request[r].new \in Tokens
    BY <1>10, CarriedToken DEF Reply
  <2> QED BY <1>10, <2>1, FinishType DEF Reply, TypeOK, rows
<1>11. ASSUME NEW r \in Requests, Fail(r) PROVE TypeOK'
  BY <1>11, FinishType DEF Fail, TypeOK, rows
<1>12. ASSUME NEW t \in Tokens, Logout(t) PROVE TypeOK'
  BY <1>12 DEF Logout, TypeOK, Time
<1>13. CASE Suspend
  BY <1>13 DEF Suspend, TypeOK, rows
<1>14. CASE Tick
  <2>1. now' \in Nat
    BY <1>14 DEF Tick, TypeOK
  <2> QED BY <1>14, <2>1 DEF Tick, TypeOK, rows
<1>15. CASE UNCHANGED vars
  BY <1>15 DEF vars, TypeOK
<1> QED
  BY <1>1, <1>2, <1>3, <1>4, <1>5, <1>6, <1>7, <1>8, <1>9, <1>10, <1>11,
     <1>12, <1>13, <1>14, <1>15 DEF Next

-----------------------------------------------------------------------------
(* What no step takes back: time passes, browsers keep their cookies, and  *)
(* neither a row nor its revocation changes once it is there.              *)

Grows ==
  /\ now \in Nat /\ now' \in Nat /\ now <= now'
  /\ held \subseteq held'
  /\ baker = "suspended" => baker' = "suspended"
  /\ \A t \in Tokens : issued[t] # Never => issued'[t] = issued[t]
  /\ \A t \in Tokens : revokedAt[t] # Never => revokedAt'[t] = revokedAt[t]

LEMMA NextGrows ==
  ASSUME TypeOK, \A r \in Requests : Carries(r), [Next]_vars
  PROVE  Grows
<1> SUFFICES ASSUME NEW t
             PROVE  /\ t \in Tokens /\ issued[t] # Never
                         => issued'[t] = issued[t]
                    /\ t \in Tokens /\ revokedAt[t] # Never
                         => revokedAt'[t] = revokedAt[t]
                    /\ now \in Nat /\ now' \in Nat /\ now <= now'
                    /\ held \subseteq held'
                    /\ baker = "suspended" => baker' = "suspended"
  BY DEF Grows
<1>0. now \in Nat /\ now <= now
  BY DEF TypeOK
<1>1. ASSUME NEW r \in Requests, Claim(r)
      PROVE  t \in Tokens /\ revokedAt[t] # Never => revokedAt'[t] = revokedAt[t]
  <2>1. request[r].token \in Tokens
    BY <1>1, CarriedToken DEF Claim
  <2> QED BY <1>1, <2>1 DEF Claim, Live, TypeOK
<1>2. ASSUME NEW r \in Requests, RevokeAll(r)
      PROVE  t \in Tokens /\ revokedAt[t] # Never => revokedAt'[t] = revokedAt[t]
  BY <1>2 DEF RevokeAll, Live
<1>3. ASSUME NEW r \in Requests, Mint(r)
      PROVE  t \in Tokens /\ issued[t] # Never => issued'[t] = issued[t]
  BY <1>3 DEF Mint, TypeOK
<1>4. ASSUME NEW u \in Tokens, Logout(u)
      PROVE  t \in Tokens /\ revokedAt[t] # Never => revokedAt'[t] = revokedAt[t]
  BY <1>4 DEF Logout, Live, TypeOK
<1>5. CASE Tick
  <2>1. now' \in Nat /\ now <= now'
    BY <1>5, <1>0 DEF Tick
  <2> QED BY <1>5, <1>0, <2>1, Zenon DEF Tick, rows
<1>6. ASSUME NEW r \in Requests,
             \/ SignIn(r) \/ Present(r) \/ Examine(r) \/ Judge(r) \/ Vet(r)
             \/ Link(r) \/ Fail(r)
      PROVE  UNCHANGED <<now, baker, held, issued, revokedAt>>
  BY <1>6, Zenon DEF SignIn, Present, Examine, Judge, Vet, Link, Fail, rows
<1>7. ASSUME NEW r \in Requests, Reply(r)
      PROVE  held \subseteq held' /\ UNCHANGED <<now, baker, issued, revokedAt>>
  BY <1>7 DEF Reply, rows
<1>8. CASE Suspend
  BY <1>8, <1>0, Zenon DEF Suspend, rows
<1>9. CASE UNCHANGED vars
  BY <1>9, <1>0, Zenon DEF vars
<1>10. CASE \E r \in Requests : Claim(r) \/ RevokeAll(r)
  BY <1>10, <1>0, <1>1, <1>2, Zenon DEF Claim, RevokeAll
<1>11. CASE \E r \in Requests : Mint(r)
  BY <1>11, <1>0, <1>3, Zenon DEF Mint
<1>12. CASE \E u \in Tokens : Logout(u)
  BY <1>12, <1>0, <1>4, Zenon DEF Logout
<1> QED
  BY <1>0, <1>5, <1>6, <1>7, <1>8, <1>9, <1>10, <1>11, <1>12, Zenon DEF Next

\* Lateness is for ever.
LEMMA LateStays ==
  ASSUME TypeOK, Grows, NEW t \in Tokens, Late(t)
  PROVE  Late(t)'
<1>1. revokedAt[t] \in Nat /\ revokedAt'[t] = revokedAt[t]
  BY Times DEF Late, Grows, TypeOK, Time
<1>2. now - revokedAt[t] > Grace /\ now <= now' /\ now \in Nat /\ now' \in Nat
      /\ Grace \in Nat
  BY SessionAssumption DEF Late, Grows
<1>3. now' - revokedAt'[t] > Grace
  BY <1>1, <1>2
<1>4. revokedAt'[t] # Never
  BY <1>1 DEF Late
<1> QED BY <1>3, <1>4, Zenon DEF Late

\* So a request that does not move keeps what the invariant says of it.
LEMMA Unmoved ==
  ASSUME TypeOK, Grows, NEW r \in Requests, request'[r] = request[r]
  PROVE  /\ Carries(r) => Carries(r)'
         /\ HeldBack(r) => HeldBack(r)'
<1>1. ASSUME NEW place PROVE At(r, place)' = At(r, place)
  BY DEF At
<1>2. Rotating(r)' = Rotating(r) /\ Doomed(r)' = Doomed(r)
  BY DEF Rotating, Doomed
<1>3. ASSUME Carries(r) PROVE Carries(r)'
  <2>1. At(r, "revokeAll") => Late(request[r].token)'
    BY <1>3, CarriedToken, LateStays DEF Carries
  <2>3. At(r, "judge") => revokedAt'[request[r].token] # Never
    BY <1>3, CarriedToken DEF Carries, Grows
  <2> QED BY <1>1, <1>2, <1>3, <2>1, <2>3 DEF Carries, Grows, Late
<1>4. ASSUME HeldBack(r) PROVE HeldBack(r)'
  <2>1. baker' = "active" => baker = "active"
    BY DEF Grows, TypeOK
  <2>2. Doomed(r) /\ baker = "active" => Late(request[r].token)'
    BY <1>4, LateStays DEF HeldBack
  <2> QED BY <1>1, <1>2, <1>4, <2>1, <2>2 DEF HeldBack, Late
<1> QED BY <1>3, <1>4

-----------------------------------------------------------------------------
(* The inductive step.  Request r is the one that acts; where it arrives   *)
(* is read off its new record.                                             *)

LEMMA Moved ==
  ASSUME TypeOK, NEW r \in Requests
  PROVE  /\ \A place, won, new : Go(r, place, won, new) =>
              /\ request'[r] = [at |-> place, token |-> request[r].token,
                                won |-> won, new |-> new,
                                doomed |-> request[r].doomed]
              /\ \A s \in Requests \ {r} : request'[s] = request[s]
         /\ \A place : Advance(r, place) =>
              /\ request'[r] = [at |-> place, token |-> request[r].token,
                                won |-> request[r].won, new |-> request[r].new,
                                doomed |-> request[r].doomed]
              /\ \A s \in Requests \ {r} : request'[s] = request[s]
         /\ Finish(r) => /\ request'[r] = Idle
                         /\ \A s \in Requests \ {r} : request'[s] = request[s]
  BY DEF Go, Advance, Finish, TypeOK

\* A request that ends, ends well.
LEMMA IdleIsFine ==
  ASSUME NEW r \in Requests, request'[r] = Idle
  PROVE  Carries(r)' /\ HeldBack(r)' /\ ~Rotating(r)'
  BY DEF Carries, HeldBack, Rotating, Doomed, At, Idle

\* The requests that hold a claim stay alone when nobody joins them.
LEMMA StillAlone ==
  ASSUME RotatedOnce, rotatedTo' = rotatedTo,
         \A s \in Requests : Rotating(s)' =>
           /\ Rotating(s) /\ request'[s].token = request[s].token
           /\ request'[s].at # "reply" => request[s].at # "reply"
  PROVE  RotatedOnce'
  BY DEF RotatedOnce

\* What has to be shown of the acting request alone.
LEMMA OneMoves ==
  ASSUME IInv, [Next]_vars, NEW r \in Requests,
         \A s \in Requests \ {r} : request'[s] = request[s],
         Carries(r)', HeldBack(r)', RowsInv', RotatedOnce'
  PROVE  IInv'
<1>1. TypeOK' /\ Grows
  BY NextType, NextGrows DEF IInv
<1>2. ASSUME NEW s \in Requests PROVE Carries(s)' /\ HeldBack(s)'
  <2>1. CASE s = r
    BY <2>1
  <2>2. CASE s # r
    BY <2>2, <1>1, Unmoved DEF IInv
  <2> QED BY <2>1, <2>2
<1> QED BY <1>1, <1>2 DEF IInv

\* The tables grow and nothing else of RowsInv is touched.
LEMMA RowsKept ==
  ASSUME TypeOK, Grows, RowsInv, held' = held,
         rotatedTo' = rotatedTo, revokedAt' = revokedAt
  PROVE  RowsInv'
  BY DEF RowsInv, Grows, TypeOK, Time, Never

\* A row revoked now.
LEMMA RowsRevoked ==
  ASSUME TypeOK, Grows, RowsInv, held' = held, rotatedTo' = rotatedTo,
         now' = now,
         \A t \in Tokens : revokedAt'[t] \in {revokedAt[t], now}
  PROVE  RowsInv'
  BY DEF RowsInv, Grows, TypeOK, Time, Never

LEMMA SignInStep ==
  ASSUME IInv, [Next]_vars, NEW r \in Requests, SignIn(r)
  PROVE  IInv'
<1>1. TypeOK /\ Grows /\ RowsInv /\ RotatedOnce
  BY NextGrows DEF IInv
<1>2. /\ request'[r] = [at |-> "vet", token |-> None, won |-> "no", new |-> None,
                        doomed |-> IF baker = "suspended" \/ (None \in Tokens /\ Late(None))
                                     THEN "yes" ELSE "no"]
      /\ \A s \in Requests \ {r} : request'[s] = request[s]
  BY DEF SignIn, Arrive, IInv, TypeOK
<1>3. Carries(r)'
  BY <1>2 DEF Carries, At, Rotating
<1>4. HeldBack(r)'
  BY <1>2, SessionAssumption DEF HeldBack, Doomed, At, SignIn
<1>5. RowsInv'
  BY <1>1, RowsKept DEF SignIn, rows
<1>6. RotatedOnce'
  <2>1. ~Rotating(r)'
    BY <1>2 DEF Rotating
  <2> QED BY <1>1, <1>2, <2>1, StillAlone DEF Rotating, SignIn, rows
<1> QED BY <1>2, <1>3, <1>4, <1>5, <1>6, OneMoves

LEMMA PresentStep ==
  ASSUME IInv, [Next]_vars, NEW r \in Requests, Present(r)
  PROVE  IInv'
<1>1. TypeOK /\ Grows /\ RowsInv /\ RotatedOnce
  BY NextGrows DEF IInv
<1>0. PICK t \in held : Arrive(r, "claim", t)
  BY DEF Present
<1>2. /\ request'[r] = [at |-> "claim", token |-> t, won |-> "no", new |-> None,
                        doomed |-> IF baker = "suspended" \/ (t \in Tokens /\ Late(t))
                                     THEN "yes" ELSE "no"]
      /\ \A s \in Requests \ {r} : request'[s] = request[s]
  BY <1>0 DEF Arrive, IInv, TypeOK
<1>3. Carries(r)'
  BY <1>2 DEF Carries, At, Rotating, Present
<1>4. HeldBack(r)'
  <2>1. Late(t)' = Late(t) /\ baker' = baker
    BY DEF Present, Late, rows
  <2> QED BY <1>2, <2>1 DEF HeldBack, Doomed, At, Late
<1>5. RowsInv'
  BY <1>1, RowsKept DEF Present, rows
<1>6. RotatedOnce'
  <2>1. ~Rotating(r)'
    BY <1>2 DEF Rotating
  <2> QED BY <1>1, <1>2, <2>1, StillAlone DEF Rotating, Present, rows
<1> QED BY <1>2, <1>3, <1>4, <1>5, <1>6, OneMoves

LEMMA ClaimStep ==
  ASSUME IInv, [Next]_vars, NEW r \in Requests, Claim(r)
  PROVE  IInv'
<1> DEFINE t == request[r].token
<1>1. /\ TypeOK /\ Grows /\ RowsInv /\ RotatedOnce /\ Carries(r) /\ HeldBack(r)
      /\ request[r] # Idle /\ request[r] \in InFlight
  BY NextGrows, NotIdle, RequestFields DEF IInv, Claim
<1>0. t \in held /\ t \in Tokens /\ issued[t] # Never /\ ~Rotating(r)
  BY <1>1 DEF Carries, Claim, RowsInv, TypeOK
<1>2. CASE Live(t)
  <2>1. /\ revokedAt' = [revokedAt EXCEPT ![t] = now]
        /\ Go(r, "examine", "yes", None)
    BY <1>2 DEF Claim
  <2>2. /\ request'[r] = [at |-> "examine", token |-> t, won |-> "yes",
                          new |-> None, doomed |-> request[r].doomed]
        /\ \A s \in Requests \ {r} : request'[s] = request[s]
    BY <1>1, <2>1, Moved
  <2>3. revokedAt'[t] # Never
    BY <1>0, <1>1, <2>1 DEF TypeOK, Never
  <2>4. Carries(r)'
    <3>1. request'[r] # Idle /\ request'[r].at = "examine"
          /\ request'[r].token = t /\ held' = held
      BY <2>2 DEF Idle, Claim
    <3>2. Rotating(r)'
      BY <2>2, <3>1 DEF Rotating
    <3> QED BY <1>0, <2>3, <3>1, <3>2 DEF Carries, At
  <2>5. HeldBack(r)'
    <3>1. ~Late(t) /\ baker' = baker
      BY <1>2 DEF Late, Live, Claim
    <3>2. Doomed(r)' => Doomed(r)
      BY <1>1, <2>2 DEF Doomed
    <3> QED BY <1>1, <2>2, <3>1, <3>2 DEF HeldBack, At, Claim
  <2>6. RowsInv'
    BY <1>1, <2>1, RowsRevoked DEF Claim, TypeOK
  <2>7. RotatedOnce'
    <3>1. \A s \in Requests : Rotating(s) => request[s].token # t
      BY <1>2 DEF IInv, Carries, Live
    <3>2. rotatedTo'[t] = None
      BY <1>0, <1>2, <1>1 DEF Claim, RowsInv, Live
    <3>3. rotatedTo' = rotatedTo
      BY DEF Claim
    <3>4. \A s \in Requests \ {r} : Rotating(s)' => Rotating(s)
      BY <2>2 DEF Rotating
    <3> QED BY <1>1, <2>2, <3>1, <3>2, <3>3, <3>4 DEF RotatedOnce
  <2> QED BY <2>2, <2>4, <2>5, <2>6, <2>7, OneMoves
<1>3. CASE ~Live(t)
  <2>1. Advance(r, "judge") /\ revokedAt' = revokedAt /\ rotatedTo' = rotatedTo
    BY <1>3 DEF Claim
  <2>2. /\ request'[r] = [at |-> "judge", token |-> t, won |-> request[r].won,
                          new |-> request[r].new, doomed |-> request[r].doomed]
        /\ \A s \in Requests \ {r} : request'[s] = request[s]
    BY <1>1, <2>1, Moved
  <2>3. revokedAt'[t] # Never
    BY <1>0, <1>3, <2>1 DEF Live
  <2>4. ~Rotating(r)'
    BY <1>0, <1>1, <2>2 DEF Rotating
  <2>5. Carries(r)'
    BY <1>0, <2>2, <2>3, <2>4 DEF Carries, At, Claim
  <2>6. HeldBack(r)'
    <3>1. Late(t)' = Late(t) /\ baker' = baker
      BY <2>1, <2>2 DEF Late, Claim
    <3> QED BY <1>0, <1>1, <2>2, <3>1 DEF HeldBack, At, Doomed, Late
  <2>7. RowsInv'
    BY <1>1, <2>1, RowsKept DEF Claim
  <2>8. RotatedOnce'
    BY <1>1, <2>1, <2>2, <2>4, StillAlone DEF Rotating
  <2> QED BY <2>2, <2>5, <2>6, <2>7, <2>8, OneMoves
<1> QED BY <1>2, <1>3

LEMMA ExamineStep ==
  ASSUME IInv, [Next]_vars, NEW r \in Requests, Examine(r)
  PROVE  IInv'
<1>1. /\ TypeOK /\ Grows /\ RowsInv /\ RotatedOnce /\ Carries(r) /\ HeldBack(r)
      /\ request[r] # Idle /\ request[r] \in InFlight
  BY NextGrows, NotIdle, RequestFields DEF IInv, Examine
<1>2. /\ UNCHANGED <<revokedAt, rotatedTo, held, baker>>
      /\ Finish(r) \/ Advance(r, "vet")
  BY DEF Examine, rows
<1>3. RowsInv'
  BY <1>1, <1>2, RowsKept
<1>4. CASE Finish(r)
  <2>1. request'[r] = Idle /\ \A s \in Requests \ {r} : request'[s] = request[s]
    BY <1>1, <1>4, Moved
  <2>2. Carries(r)' /\ HeldBack(r)' /\ ~Rotating(r)'
    BY <2>1, IdleIsFine
  <2>3. RotatedOnce'
    BY <1>1, <1>2, <2>1, <2>2, StillAlone DEF Rotating
  <2> QED BY <1>3, <2>1, <2>2, <2>3, OneMoves
<1>5. CASE Advance(r, "vet")
  <2>1. /\ request'[r] = [at |-> "vet", token |-> request[r].token,
                          won |-> request[r].won, new |-> request[r].new,
                          doomed |-> request[r].doomed]
        /\ \A s \in Requests \ {r} : request'[s] = request[s]
    BY <1>1, <1>5, Moved
  <2>2. Rotating(r)
    BY <1>1 DEF Carries, Examine
  <2>3. Carries(r)'
    BY <1>1, <1>2, <2>1, <2>2 DEF Carries, At, Rotating
  <2>4. HeldBack(r)'
    BY <1>1, <1>2, <2>1 DEF HeldBack, At, Doomed, Examine
  <2>5. RotatedOnce'
    BY <1>1, <1>2, <2>1, StillAlone DEF Rotating, Examine, At
  <2> QED BY <1>3, <2>1, <2>3, <2>4, <2>5, OneMoves
<1> QED BY <1>2, <1>4, <1>5

LEMMA JudgeStep ==
  ASSUME IInv, [Next]_vars, NEW r \in Requests, Judge(r)
  PROVE  IInv'
<1> DEFINE t == request[r].token
<1>1. /\ TypeOK /\ Grows /\ RowsInv /\ RotatedOnce /\ Carries(r) /\ HeldBack(r)
      /\ request[r] # Idle /\ request[r] \in InFlight
  BY NextGrows, NotIdle, RequestFields DEF IInv, Judge
<1>0. t \in held /\ t \in Tokens /\ ~Rotating(r)
  BY <1>1 DEF Carries, Judge, TypeOK
<1>2. UNCHANGED <<now, revokedAt, rotatedTo, held, baker>>
  BY DEF Judge, rows
<1>3. PICK place \in {"revokeAll", "vet"} :
        /\ Advance(r, place)
        /\ place = "revokeAll" <=> Late(t)
  BY DEF Judge
<1>4. /\ request'[r] = [at |-> place, token |-> t, won |-> request[r].won,
                        new |-> request[r].new, doomed |-> request[r].doomed]
      /\ \A s \in Requests \ {r} : request'[s] = request[s]
  BY <1>1, <1>3, Moved
<1>5. ~Rotating(r)'
  BY <1>0, <1>1, <1>4 DEF Rotating
<1>6. Late(t)' <=> Late(t)
  BY <1>2, <1>4 DEF Late
<1>7. Carries(r)'
  BY <1>0, <1>2, <1>3, <1>4, <1>5, <1>6 DEF Carries, At, Late
<1>8. HeldBack(r)'
  BY <1>0, <1>1, <1>2, <1>3, <1>4, <1>6 DEF HeldBack, At, Doomed, Late
<1>9. RowsInv'
  BY <1>1, <1>2, RowsKept
<1>10. RotatedOnce'
  BY <1>1, <1>2, <1>4, <1>5, StillAlone DEF Rotating
<1> QED BY <1>4, <1>7, <1>8, <1>9, <1>10, OneMoves

LEMMA RevokeAllStep ==
  ASSUME IInv, [Next]_vars, NEW r \in Requests, RevokeAll(r)
  PROVE  IInv'
<1>1. TypeOK /\ Grows /\ RowsInv /\ RotatedOnce
  BY NextGrows DEF IInv
<1>2. request'[r] = Idle /\ \A s \in Requests \ {r} : request'[s] = request[s]
  BY <1>1, Moved DEF RevokeAll
<1>3. Carries(r)' /\ HeldBack(r)' /\ ~Rotating(r)'
  BY <1>2, IdleIsFine
<1>4. RowsInv'
  BY <1>1, RowsRevoked DEF RevokeAll
<1>5. RotatedOnce'
  BY <1>1, <1>2, <1>3, StillAlone DEF Rotating, RevokeAll
<1> QED BY <1>2, <1>3, <1>4, <1>5, OneMoves

LEMMA VetStep ==
  ASSUME IInv, [Next]_vars, NEW r \in Requests, Vet(r)
  PROVE  IInv'
<1>1. /\ TypeOK /\ Grows /\ RowsInv /\ RotatedOnce /\ Carries(r) /\ HeldBack(r)
      /\ request[r] # Idle /\ request[r] \in InFlight
  BY NextGrows, NotIdle, RequestFields DEF IInv, Vet
<1>2. UNCHANGED <<revokedAt, rotatedTo, held, baker>>
  BY DEF Vet, rows
<1>3. RowsInv'
  BY <1>1, <1>2, RowsKept
<1>4. CASE Finish(r)
  <2>1. request'[r] = Idle /\ \A s \in Requests \ {r} : request'[s] = request[s]
    BY <1>1, <1>4, Moved
  <2>2. Carries(r)' /\ HeldBack(r)' /\ ~Rotating(r)'
    BY <2>1, IdleIsFine
  <2>3. RotatedOnce'
    BY <1>1, <1>2, <2>1, <2>2, StillAlone DEF Rotating
  <2> QED BY <1>3, <2>1, <2>2, <2>3, OneMoves
<1>5. CASE baker = "active" /\ Advance(r, "mint")
  <2>1. /\ request'[r] = [at |-> "mint", token |-> request[r].token,
                          won |-> request[r].won, new |-> request[r].new,
                          doomed |-> request[r].doomed]
        /\ \A s \in Requests \ {r} : request'[s] = request[s]
    BY <1>1, <1>5, Moved
  <2>2. ~Doomed(r)
    BY <1>1, <1>5 DEF HeldBack, Vet
  <2>3. Carries(r)'
    BY <1>1, <1>2, <2>1 DEF Carries, At, Rotating
  <2>4. HeldBack(r)'
    BY <1>1, <2>1, <2>2 DEF HeldBack, Doomed
  <2>5. RotatedOnce'
    BY <1>1, <1>2, <2>1, StillAlone DEF Rotating, Vet, At
  <2> QED BY <1>3, <2>1, <2>3, <2>4, <2>5, OneMoves
<1>6. baker = "active" \/ baker = "suspended"
  BY <1>1 DEF TypeOK
<1> QED BY <1>4, <1>5, <1>6 DEF Vet

LEMMA MintStep ==
  ASSUME IInv, [Next]_vars, NEW r \in Requests, Mint(r)
  PROVE  IInv'
<1>1. /\ TypeOK /\ Grows /\ RowsInv /\ RotatedOnce /\ Carries(r) /\ HeldBack(r)
      /\ request[r] # Idle /\ request[r] \in InFlight /\ now \in Nat
  BY NextGrows, NotIdle, RequestFields DEF IInv, Mint, TypeOK
<1>2. UNCHANGED <<now, revokedAt, rotatedTo, held, baker>>
  BY DEF Mint
<1>3. PICK place \in {"link", "reply"}, t \in Tokens :
        /\ issued' = [issued EXCEPT ![t] = now]
        /\ Go(r, place, request[r].won, t)
        /\ place = "link" <=> request[r].won = "yes"
  BY DEF Mint
<1>4. /\ request'[r] = [at |-> place, token |-> request[r].token,
                        won |-> request[r].won, new |-> t,
                        doomed |-> request[r].doomed]
      /\ \A s \in Requests \ {r} : request'[s] = request[s]
  BY <1>1, <1>3, Moved
<1>5. issued'[t] # Never
  BY <1>1, <1>3 DEF TypeOK, Never
<1>6. request'[r] # Idle
  BY <1>3, <1>4 DEF Idle
<1>7. Carries(r)'
  BY <1>1, <1>2, <1>3, <1>4, <1>5, <1>6 DEF Carries, At, Rotating
<1>8. HeldBack(r)'
  BY <1>1, <1>4 DEF HeldBack, At, Doomed, Mint
<1>9. RowsInv'
  BY <1>1, <1>2, RowsKept
<1>10. RotatedOnce'
  BY <1>1, <1>2, <1>4, StillAlone DEF Rotating, Mint, At
<1> QED BY <1>4, <1>7, <1>8, <1>9, <1>10, OneMoves

LEMMA LinkStep ==
  ASSUME IInv, [Next]_vars, NEW r \in Requests, Link(r)
  PROVE  IInv'
<1> DEFINE t == request[r].token
<1>1. /\ TypeOK /\ Grows /\ RowsInv /\ RotatedOnce /\ Carries(r) /\ HeldBack(r)
      /\ request[r] # Idle /\ request[r] \in InFlight
  BY NextGrows, NotIdle, RequestFields DEF IInv, Link
<1>2. UNCHANGED <<now, issued, revokedAt, held, baker>>
      /\ rotatedTo' = [rotatedTo EXCEPT ![t] = request[r].new]
  BY DEF Link
<1>3. /\ Rotating(r) /\ t \in Tokens /\ revokedAt[t] # Never
      /\ request[r].new \in Tokens /\ issued[request[r].new] # Never
  BY <1>1 DEF Carries, Link
<1>4. /\ request'[r] = [at |-> "reply", token |-> t, won |-> request[r].won,
                        new |-> request[r].new, doomed |-> request[r].doomed]
      /\ \A s \in Requests \ {r} : request'[s] = request[s]
  BY <1>1, Moved DEF Link
<1>5. Carries(r)'
  BY <1>1, <1>2, <1>3, <1>4 DEF Carries, At, Rotating
<1>6. HeldBack(r)'
  BY <1>1, <1>4 DEF HeldBack, At, Doomed, Link
<1>7. RowsInv'
  BY <1>1, <1>2, <1>3 DEF RowsInv, TypeOK
<1>8. RotatedOnce'
  <2>1. ASSUME NEW s \in Requests, NEW u \in Requests, Rotating(s)'
        PROVE  /\ Rotating(u)' /\ request'[s].token = request'[u].token => s = u
               /\ request'[s].at # "reply" => rotatedTo'[request'[s].token] = None
    <3>1. Rotating(s) /\ request'[s].token = request[s].token
      BY <1>3, <1>4, <2>1 DEF Rotating
    <3>2. Rotating(u)' => Rotating(u) /\ request'[u].token = request[u].token
      BY <1>3, <1>4 DEF Rotating
    <3>3. request[s].token \in Tokens
      BY <3>1 DEF IInv, Carries
    <3>4. CASE s = r
      BY <1>1, <1>4, <3>1, <3>2, <3>4 DEF RotatedOnce
    <3>5. CASE s # r
      <4>1. request[s].token # t
        BY <1>1, <1>3, <3>1, <3>5 DEF RotatedOnce
      <4>2. request'[s].at # "reply" => rotatedTo'[request'[s].token] = None
        BY <1>1, <1>2, <1>4, <3>1, <3>3, <3>5, <4>1 DEF RotatedOnce, TypeOK
      <4> QED BY <1>1, <3>1, <3>2, <4>2 DEF RotatedOnce
    <3> QED BY <3>4, <3>5
  <2> QED BY <2>1 DEF RotatedOnce
<1> QED BY <1>4, <1>5, <1>6, <1>7, <1>8, OneMoves

LEMMA ReplyStep ==
  ASSUME IInv, [Next]_vars, NEW r \in Requests, Reply(r)
  PROVE  IInv'
<1>1. TypeOK /\ Grows /\ RowsInv /\ RotatedOnce /\ Carries(r)
  BY NextGrows DEF IInv
<1>2. request'[r] = Idle /\ \A s \in Requests \ {r} : request'[s] = request[s]
  BY <1>1, Moved DEF Reply
<1>3. Carries(r)' /\ HeldBack(r)' /\ ~Rotating(r)'
  BY <1>2, IdleIsFine
<1>4. RowsInv'
  <2>1. issued[request[r].new] # Never
    BY <1>1 DEF Carries, Reply
  <2> QED BY <1>1, <2>1 DEF RowsInv, Reply, rows
<1>5. RotatedOnce'
  BY <1>1, <1>2, <1>3, StillAlone DEF Rotating, Reply, rows
<1> QED BY <1>2, <1>3, <1>4, <1>5, OneMoves

LEMMA FailStep ==
  ASSUME IInv, [Next]_vars, NEW r \in Requests, Fail(r)
  PROVE  IInv'
<1>1. TypeOK /\ Grows /\ RowsInv /\ RotatedOnce
  BY NextGrows DEF IInv
<1>2. request'[r] = Idle /\ \A s \in Requests \ {r} : request'[s] = request[s]
  BY <1>1, Moved DEF Fail
<1>3. Carries(r)' /\ HeldBack(r)' /\ ~Rotating(r)'
  BY <1>2, IdleIsFine
<1>4. RowsInv'
  BY <1>1, RowsKept DEF Fail, rows
<1>5. RotatedOnce'
  BY <1>1, <1>2, <1>3, StillAlone DEF Rotating, Fail, rows
<1> QED BY <1>2, <1>3, <1>4, <1>5, OneMoves

\* A step that moves no request.
LEMMA NobodyMoves ==
  ASSUME IInv, [Next]_vars, request' = request, rotatedTo' = rotatedTo, RowsInv'
  PROVE  IInv'
<1>1. TypeOK' /\ Grows /\ RotatedOnce
  BY NextType, NextGrows DEF IInv
<1>2. \A r \in Requests : Carries(r)' /\ HeldBack(r)'
  BY <1>1, Unmoved DEF IInv
<1>3. RotatedOnce'
  BY <1>1, StillAlone DEF Rotating
<1> QED BY <1>1, <1>2, <1>3 DEF IInv

LEMMA NextInv == IInv /\ [Next]_vars => IInv'
<1> SUFFICES ASSUME IInv, [Next]_vars PROVE IInv'
  OBVIOUS
<1>0. TypeOK /\ Grows /\ RowsInv
  BY NextGrows DEF IInv
<1>1. CASE \E r \in Requests :
             \/ SignIn(r) \/ Present(r) \/ Claim(r) \/ Examine(r) \/ Judge(r)
             \/ RevokeAll(r) \/ Vet(r) \/ Mint(r) \/ Link(r) \/ Reply(r) \/ Fail(r)
  BY <1>1, SignInStep, PresentStep, ClaimStep, ExamineStep, JudgeStep,
     RevokeAllStep, VetStep, MintStep, LinkStep, ReplyStep, FailStep
<1>2. ASSUME NEW t \in Tokens, Logout(t) PROVE IInv'
  <2>1. RowsInv'
    BY <1>0, <1>2, RowsRevoked DEF Logout, TypeOK
  <2> QED BY <1>2, <2>1, NobodyMoves DEF Logout
<1>3. CASE Suspend
  BY <1>0, <1>3, RowsKept, NobodyMoves DEF Suspend, rows
<1>4. CASE Tick
  BY <1>0, <1>4, RowsKept, NobodyMoves DEF Tick, rows
<1>5. CASE UNCHANGED vars
  BY <1>0, <1>5, RowsKept, NobodyMoves DEF vars
<1> QED BY <1>1, <1>2, <1>3, <1>4, <1>5 DEF Next

LEMMA InitInv == Init => IInv
  BY InitType, Times
  DEF Init, IInv, RowsInv, Carries, HeldBack, Doomed, RotatedOnce, Rotating, At,
      Idle

-----------------------------------------------------------------------------
(* The theorems.                                                           *)

\* The inductive invariant holds in every reachable state.
THEOREM Invariance == Spec => []IInv
  BY InitInv, NextInv, PTL DEF Spec

\* Every reachable state is well typed.
THEOREM TypeCorrect == Spec => []TypeOK
<1>1. IInv => TypeOK
  BY DEF IInv
<1> QED BY <1>1, Invariance, PTL

\* However many requests present a token at once, and however they fail and
\* retry, one at most holds the claim on it.
THEOREM RotationCorrect == Spec => []RotatedOnce
<1>1. IInv => RotatedOnce
  BY DEF IInv
<1> QED BY <1>1, Invariance, PTL

\* A request that arrives for a suspended baker, or with a token revoked for
\* longer than the grace window, never creates a session.
THEOREM DoomedCorrect == Spec => []DoomedGetsNoSession
<1>1. IInv => DoomedGetsNoSession
  BY DEF IInv, HeldBack, Doomed, DoomedGetsNoSession, At
<1> QED BY <1>1, Invariance, PTL

\* The time of a revocation never moves.
THEOREM RevocationCorrect == Spec => RevocationIsFixed
<1>1. IInv /\ [Next]_vars =>
        [\A t \in Tokens : revokedAt[t] # Never => revokedAt'[t] = revokedAt[t]]_vars
  BY NextGrows DEF IInv, Grows
<1> QED BY <1>1, Invariance, PTL DEF Spec, RevocationIsFixed

\* Callers that merely race each other never sign out another session.
THEOREM RacesSpareOthers == Spec => OnlyReuseRevokesOthers
<1> DEFINE Spares == \A r \in Requests : \A t \in Tokens :
       /\ request[r] # Idle /\ request'[r] # request[r]
       /\ Live(t) /\ revokedAt'[t] # Never
       /\ request[r].token # t
       => Late(request[r].token)
<1>1. ASSUME IInv, Next PROVE Spares
  <2> SUFFICES ASSUME NEW r \in Requests, NEW t \in Tokens,
                      request'[r] # request[r], revokedAt'[t] # revokedAt[t],
                      request[r].token # t
               PROVE  Late(request[r].token)
    BY DEF Live
  <2>1. TypeOK /\ Carries(r)
    BY <1>1 DEF IInv
  <2>2. CASE \E s \in Requests : Claim(s)
    <3>1. PICK s \in Requests : Claim(s)
      BY <2>2
    <3>2. s # r
      BY <2>1, <3>1 DEF Claim, TypeOK
    <3>3. request'[r] = request[r]
      BY <2>1, <3>1, <3>2, Moved DEF Claim
    <3> QED BY <3>3
  <2>3. CASE \E s \in Requests : RevokeAll(s)
    <3>1. PICK s \in Requests : RevokeAll(s)
      BY <2>3
    <3>2. s = r
      BY <2>1, <3>1, Moved DEF RevokeAll
    <3> QED BY <2>1, <3>1, <3>2 DEF Carries, RevokeAll
  <2>4. CASE \E u \in Tokens : Logout(u)
    BY <2>4 DEF Logout
  <2> QED
    BY <1>1, <2>2, <2>3, <2>4, Zenon
    DEF Next, SignIn, Present, Examine, Judge, Vet, Mint, Link, Reply, Fail,
        Suspend, Tick, rows
<1>2. ASSUME IInv, [Next]_vars PROVE [Spares]_vars
  BY <1>1, <1>2
<1> HIDE DEF Spares
<1>3. Spec => [][Spares]_vars
  BY <1>2, Invariance, PTL DEF Spec
<1> QED BY <1>3 DEF Spares, OnlyReuseRevokesOthers
=============================================================================
