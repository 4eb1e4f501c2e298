------------------------------- MODULE Assets -------------------------------
(***************************************************************************)
(* One baker's own rows (profile, payment settings, logo, investments,     *)
(* inventory) and receipt images, from the gate on the way in to the audit *)
(* record on the way out, with the storage bucket and the pool of database *)
(* connections.                                                            *)
(*                                                                         *)
(* A statement takes a connection while it runs; an interactive            *)
(* transaction keeps one from its begin to its end; and the audit record   *)
(* is written through a connection of its own, even inside a transaction.  *)
(* A statement that finds no free connection waits, and gives up after the *)
(* pool's timeout.  The other handlers of the program meet the gate, the   *)
(* pool and the audit log in the same way.  Of the rows, only the paths    *)
(* saved in them are followed: which investments, items and orders there   *)
(* are, and so whether one is found, is left open.                         *)
(* Founders, whom the gate always lets through, are left out.              *)
(***************************************************************************)
EXTENDS Integers, FiniteSets

CONSTANTS
  Requests,      \* requests that can be in flight at the same time
  Connections,   \* size of the connection pool
  Paths,         \* paths a client may name: any string
  Uploads,       \* those signed upload URLs are made out for
  Images,        \* paths receipt images are kept at, one per order
  Folders,       \* Folders[p]: the folders an object at p is in, as paths
  NoPath,        \* a NULL path
  MaxAttempts,   \* VERIFY_MAX_ATTEMPTS
  TrialEndsAt,   \* Baker.trialEndsAt
  Day,           \* length of a day
  MaxTime        \* bound: the clock stops there

ASSUME AssetsAssumption ==
  /\ Connections \in Nat \ {0} /\ MaxAttempts \in Nat \ {0}
  /\ TrialEndsAt \in Nat /\ Day \in Nat \ {0} /\ MaxTime \in Nat
  /\ Uploads \subseteq Paths /\ NoPath \notin Paths
  /\ Folders \in [Uploads \cup Images -> SUBSET Paths]

VARIABLES
  now,       \* the clock
  status,    \* Baker.subscriptionStatus: ACTIVE or another
  issued,    \* paths upload URLs were signed for
  stored,    \* paths with an object in the bucket
  saved,     \* paths saved so far as a logoPath, fssaiDocumentPath or receiptPhotoPath
  request    \* request[r]: where request r is

vars == <<now, status, issued, stored, saved, request>>

(***************************************************************************)
(* A request in flight: what it does, its next statement, the path it      *)
(* names, how often it has asked the bucket, and its transaction; and      *)
(* (history) whether the bucket had it when the request arrived, and       *)
(* whether the baker has had no paywall in front at some moment since.     *)
(***************************************************************************)
Idle == [op |-> "idle"]
TransactionOps == {"confirmUpload", "updateProfile"}
CreateOps == {"createInvestment", "createItem"}
ChangeOps == {"update", "delete"}
InFlight ==
  [op : TransactionOps \cup CreateOps \cup ChangeOps
          \cup {"signedUrl", "receiptImage", "record"},
   at : {"gate", "sign", "verify", "missing", "find", "begin", "update", "write",
         "upload", "audit", "commit"},
   path : Paths \cup {NoPath}, attempt : 1..MaxAttempts,
   tx : {"none", "open", "expired"}, there : {"yes", "no"}, welcome : {"yes", "no"}]

TypeOK ==
  /\ now \in 0..MaxTime
  /\ status \in {"ACTIVE", "OTHER"}
  /\ issued \subseteq Uploads /\ stored \subseteq Uploads \cup Images
  /\ saved \subseteq Paths
  /\ request \in [Requests -> InFlight \cup {Idle}]

Init ==
  /\ now = 0
  /\ status = "OTHER"
  /\ issued = {} /\ stored = {} /\ saved = {}
  /\ request = [r \in Requests |-> Idle]

At(r, place) == request[r] # Idle /\ request[r].at = place

Go(r, place) == request' = [request EXCEPT ![r].at = place]
Finish(r) == request' = [request EXCEPT ![r] = Idle]

\* Go on to a place where the question to the bucket, or the path, is done with.
Verified(r, place) ==
  request' = [request EXCEPT ![r].at = place, ![r].attempt = 1, ![r].there = "no"]

\* What was to be written is; the audit record is left to be made.
Written(r) ==
  request' = [request EXCEPT ![r].op = "record", ![r].at = "audit", ![r].path = NoPath]

\* The bucket lists its objects and the folders they are in, under their names.
Entries == stored \cup UNION {Folders[p] : p \in stored}

-----------------------------------------------------------------------------
(***************************************************************************)
(* The connection pool.                                                    *)
(***************************************************************************)
InUse == Cardinality({r \in Requests : request[r] # Idle /\ request[r].tx = "open"})
ConnectionFree == InUse < Connections

-----------------------------------------------------------------------------
(***************************************************************************)
(* The gate, and what the app shows of the trial: the same question asked  *)
(* of the server and of the days that remain.                              *)
(***************************************************************************)
\* Mutated form: the last instant of the trial is let through.
IsReadOnlyLate == status # "ACTIVE" /\ TrialEndsAt < now

IsReadOnly == status # "ACTIVE" /\ TrialEndsAt <= now

TrialDaysRemaining ==
  IF TrialEndsAt <= now THEN 0 ELSE (TrialEndsAt - now + Day - 1) \div Day

Paywalled == status # "ACTIVE" /\ TrialDaysRemaining = 0

Arrive(r, op, path) ==
  /\ request[r] = Idle
  /\ request' = [request EXCEPT ![r] =
       [op |-> op, at |-> "gate", path |-> path, attempt |-> 1, tx |-> "none",
        there |-> IF path \in Entries THEN "yes" ELSE "no",
        welcome |-> IF Paywalled THEN "no" ELSE "yes"]]
  /\ UNCHANGED <<now, status, issued, stored, saved>>

GenerateUploadUrl(r) == Arrive(r, "signedUrl", NoPath)
ConfirmUpload(r) == \E p \in Paths : Arrive(r, "confirmUpload", p)
UpdateProfile(r) == Arrive(r, "updateProfile", NoPath)
CreateInvestment(r) == \E p \in Paths \cup {NoPath} : Arrive(r, "createInvestment", p)
DeleteInvestment(r) == Arrive(r, "delete", NoPath)
CreateItem(r) == Arrive(r, "createItem", NoPath)
ChangeItem(r) == \E op \in ChangeOps : Arrive(r, op, NoPath)

GenerateReceiptImage(r) == Arrive(r, "receiptImage", NoPath)

FirstStep(op, path) ==
  IF path # NoPath THEN "verify"
  ELSE CASE op = "signedUrl" -> "sign"
         [] op \in ChangeOps \cup {"updateProfile", "receiptImage"} -> "find"
         [] OTHER -> "write"

RequireWriteAccess(r) ==
  /\ At(r, "gate")
  /\ ConnectionFree
  /\ IF IsReadOnly THEN Finish(r)
                   ELSE Go(r, FirstStep(request[r].op, request[r].path))
  /\ UNCHANGED <<now, status, issued, stored, saved>>

-----------------------------------------------------------------------------
(***************************************************************************)
(* The bucket.  The client uploads to a signed URL when it likes.          *)
(***************************************************************************)
GenerateSignedUploadUrl(r) ==
  /\ At(r, "sign")
  /\ \E p \in Uploads : issued' = issued \cup {p}
  /\ Finish(r)
  /\ UNCHANGED <<now, status, stored, saved>>

Put ==
  /\ \E p \in issued \ stored : stored' = stored \cup {p}
  /\ UNCHANGED <<now, status, issued, saved, request>>

\* The server itself puts a receipt image there, over the one before.
UploadObject(r) ==
  /\ At(r, "upload")
  /\ \E p \in Images : stored' = stored \cup {p}
  /\ Written(r)
  /\ UNCHANGED <<now, status, issued, saved>>

\* verifyObjectExists, an attempt that got an answer.  It looks for the name in
\* the folder, and is content with a folder of that name.
VerifyObjectExists(r) ==
  /\ At(r, "verify")
  /\ IF request[r].path \in Entries
       THEN Verified(r, IF request[r].op = "confirmUpload" THEN "begin" ELSE "write")
       ELSE Go(r, "missing")
  /\ UNCHANGED <<now, status, issued, stored, saved>>

\* Mutated form: when the bucket cannot be asked, the file counts as missing.
StorageFailsAsMissing(r) ==
  /\ At(r, "verify")
  /\ Go(r, "missing")
  /\ UNCHANGED <<now, status, issued, stored, saved>>

\* Mutated form: after the last attempt it begins again.
StorageFailsAllOver(r) ==
  /\ At(r, "verify")
  /\ request' = [request EXCEPT ![r].attempt = (@ % MaxAttempts) + 1]
  /\ UNCHANGED <<now, status, issued, stored, saved>>

\* Mutated form: the loop runs once too often.
StorageFailsTooOften(r) ==
  /\ At(r, "verify")
  /\ IF request[r].attempt <= MaxAttempts
       THEN request' = [request EXCEPT ![r].attempt = @ + 1]
       ELSE Finish(r)
  /\ UNCHANGED <<now, status, issued, stored, saved>>

\* verifyObjectExists, an attempt that failed: once more, then loudly.
StorageFails(r) ==
  /\ At(r, "verify")
  /\ IF request[r].attempt < MaxAttempts
       THEN request' = [request EXCEPT ![r].attempt = @ + 1]
       ELSE Finish(r)
  /\ UNCHANGED <<now, status, issued, stored, saved>>

ReplyMissing(r) ==
  /\ At(r, "missing")
  /\ Finish(r)
  /\ UNCHANGED <<now, status, issued, stored, saved>>

-----------------------------------------------------------------------------
(***************************************************************************)
(* Statements outside a transaction.                                       *)
(***************************************************************************)
\* The row is looked for: an investment, an item or an order may not be found.
Find(r) ==
  /\ At(r, "find")
  /\ ConnectionFree
  /\ \/ request[r].op # "updateProfile" /\ Finish(r)
     \/ Go(r, CASE request[r].op = "updateProfile" -> "begin"
                [] request[r].op = "receiptImage"  -> "upload"
                [] OTHER                           -> "write")
  /\ UNCHANGED <<now, status, issued, stored, saved>>

\* An update of an item that is gone meanwhile fails.
Write(r) ==
  /\ At(r, "write")
  /\ ConnectionFree
  /\ saved' = saved \cup ({request[r].path} \ {NoPath})
  /\ \/ Written(r)
     \/ request[r].op = "update" /\ Finish(r)
  /\ UNCHANGED <<now, status, issued, stored>>

-----------------------------------------------------------------------------
(***************************************************************************)
(* confirmUpload, updateBakerProfile, updateUpiSettings: update and audit  *)
(* record in an interactive transaction.                                   *)
(***************************************************************************)
Begin(r) ==
  /\ At(r, "begin")
  /\ ConnectionFree
  /\ request' = [request EXCEPT ![r].at = "update", ![r].tx = "open"]
  /\ UNCHANGED <<now, status, issued, stored, saved>>

\* The row is locked until the end of the transaction.
Locked(r) == \E q \in Requests \ {r} :
  request[q] # Idle /\ request[q].tx = "open" /\ request[q].at \in {"audit", "commit"}

Update(r) ==
  /\ At(r, "update")
  /\ IF request[r].tx = "open" THEN ~Locked(r) /\ Go(r, "audit") ELSE Finish(r)
  /\ UNCHANGED <<now, status, issued, stored, saved>>

\* The record is written or not: logEvent catches whatever happens.
LogEvent(r) ==
  /\ At(r, "audit")
  /\ ConnectionFree
  /\ IF request[r].tx = "none" THEN Finish(r) ELSE Go(r, "commit")
  /\ UNCHANGED <<now, status, issued, stored, saved>>

\* A transaction that has expired fails at its next statement.
Commit(r) ==
  /\ At(r, "commit")
  /\ saved' = IF request[r].tx = "open" THEN saved \cup ({request[r].path} \ {NoPath})
                                       ELSE saved
  /\ Finish(r)
  /\ UNCHANGED <<now, status, issued, stored>>

-----------------------------------------------------------------------------
(***************************************************************************)
(* Timeouts and failures.                                                  *)
(***************************************************************************)
\* The 15 seconds of a transaction are over: it is rolled back and gives its
\* connection back, while the handler is still waiting for something.
TransactionExpires(r) ==
  /\ request[r] # Idle /\ request[r].tx = "open"
  /\ request' = [request EXCEPT ![r].tx = "expired"]
  /\ UNCHANGED <<now, status, issued, stored, saved>>

\* No connection came free in time.  Only the audit log shrugs it off.
PoolTimeout(r) ==
  /\ ~ConnectionFree
  /\ \/ \E place \in {"gate", "find", "write", "begin"} : At(r, place) /\ Finish(r)
     \/ At(r, "audit") /\ IF request[r].tx = "none" THEN Finish(r) ELSE Go(r, "commit")
  /\ UNCHANGED <<now, status, issued, stored, saved>>

\* A statement fails or the process dies.
Fail(r) ==
  /\ request[r] # Idle
  /\ Finish(r)
  /\ UNCHANGED <<now, status, issued, stored, saved>>

\* A webhook changes the subscription.
Subscribe ==
  /\ status' \in {"ACTIVE", "OTHER"} \ {status}
  /\ request' = [r \in Requests |->
       IF status' = "ACTIVE" /\ request[r] # Idle
         THEN [request[r] EXCEPT !.welcome = "yes"] ELSE request[r]]
  /\ UNCHANGED <<now, issued, stored, saved>>

Tick ==
  /\ now < MaxTime
  /\ now' = now + 1
  /\ UNCHANGED <<status, issued, stored, saved, request>>

Start(r) ==
  \/ GenerateUploadUrl(r) \/ ConfirmUpload(r) \/ UpdateProfile(r)
  \/ CreateInvestment(r) \/ DeleteInvestment(r) \/ CreateItem(r) \/ ChangeItem(r)
  \/ GenerateReceiptImage(r)

Proceed(r) ==
  \/ RequireWriteAccess(r) \/ GenerateSignedUploadUrl(r)
  \/ VerifyObjectExists(r) \/ StorageFails(r) \/ ReplyMissing(r) \/ UploadObject(r)
  \/ Find(r) \/ Write(r) \/ Begin(r) \/ Update(r) \/ LogEvent(r) \/ Commit(r)
  \/ PoolTimeout(r)

Next ==
  \/ \E r \in Requests : Start(r) \/ Proceed(r) \/ TransactionExpires(r) \/ Fail(r)
  \/ Put \/ Subscribe \/ Tick

Spec == Init /\ [][Next]_vars

\* A handler that can go on does, or its transaction expires; statements,
\* questions to the bucket and waiting for a connection come to an end.
Fairness ==
  \A r \in Requests : WF_request(Proceed(r) \/ TransactionExpires(r))

FairSpec == Spec /\ Fairness

-----------------------------------------------------------------------------
(***************************************************************************)
(* Properties.                                                             *)
(***************************************************************************)
\* What is said of the bucket is true as far as it goes, although any path may
\* be named and the bucket may fail to answer (supabase.storage.ts 83-119): a
\* stored path leads to an object or, since list() shows both alike, is a folder
\* that holds one; and only what was not in the bucket when the request arrived
\* is said to be missing.
VerdictsHold ==
  /\ saved \subseteq Entries
  /\ \A r \in Requests : At(r, "missing") => request[r].there = "no"

\* write-access.ts 22 and trial.util.ts 1 describe one condition computed in
\* two ways, instants there and days here, and the gate reads it once, before
\* everything else.  A request that met the paywall all along runs no statement
\* that writes, and leaves nothing in the bucket.
PaywalledWritesNothing ==
  [][\A r \in Requests :
       Write(r) \/ Commit(r) \/ UploadObject(r) => request[r].welcome = "yes"]_vars

\* A transaction waits for a second connection while it holds one (audit
\* /index.ts 36), so all can be held by transactions that wait.  The timeouts
\* and the bounded attempts see to it that every request ends.
RequestsEnd == \A r \in Requests : request[r] # Idle ~> request[r] = Idle

-----------------------------------------------------------------------------
(***************************************************************************)
(* The inductive invariant behind them: what a request carries.  Its path  *)
(* is looked for before anything is made of it, what the bucket had on     *)
(* arrival stays, and only who had no paywall in front gets past the   *)
(* gate.                                                                   *)
(***************************************************************************)
Carries(r) ==
  request[r] # Idle =>
    LET q == request[r] IN
      /\ q.at \in {"gate", "verify"} /\ q.there = "yes" => q.path \in Entries
      /\ q.at = "missing" => q.there = "no"
      /\ q.at \notin {"gate", "verify", "missing", "sign"} => q.path \in Entries \cup {NoPath}
      /\ q.at # "gate" \/ ~Paywalled => q.welcome = "yes"

IInv ==
  /\ TypeOK
  /\ saved \subseteq Entries
  /\ \A r \in Requests : Carries(r)

=============================================================================
