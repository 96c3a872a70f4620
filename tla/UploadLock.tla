----------------------------- MODULE UploadLock -----------------------------
(***************************************************************************)
(* The inventory lock of the deliveries (services/deliveries.py lock) as   *)
(* the handlers take it.  Most handlers are functions that run in a thread *)
(* of their own and wait there for the database.  The upload of a file     *)
(* (api/routes/deliveries.py upload) is a coroutine: it runs on the one    *)
(* event loop, waits for the database on it, and gives the loop away while *)
(* a file that was spooled to disk is read, the lock in hand.              *)
(*                                                                         *)
(* A wait for the database ends when the lock is free or after the busy    *)
(* timeout of sqlite3, with an error.                                      *)
(***************************************************************************)
EXTENDS Integers

CONSTANTS
  Uploads,   \* uploads of a file
  Spooled,   \* those whose file is on disk
  Threads,   \* other writing requests for the same delivery
  Nobody

ASSUME UploadLockAssumption ==
  /\ Spooled \subseteq Uploads /\ Uploads \cap Threads = {}
  /\ Nobody \notin Uploads \cup Threads

Requests == Uploads \cup Threads

VARIABLES
  loop,     \* the upload that runs on the event loop
  lock,     \* the request whose transaction holds the database
  version,  \* the version of the delivery that is committed
  at,       \* at[r]: where request r is
  sees      \* sees[r]: the version its client sent

lockVars == <<loop, lock, version, at, sees>>

Over == {"saved", "conflict", "locked"}

UploadLockTypeOK ==
  /\ loop \in Uploads \cup {Nobody} /\ lock \in Requests \cup {Nobody}
  /\ version \in Nat /\ sees \in [Requests -> Nat]
  /\ at \in [Requests -> {"away", "waiting", "writing", "reading", "read"} \cup Over]

-----------------------------------------------------------------------------
\* The client sends the version that is current; others may come in between.
Arrive(r) ==
  /\ at[r] = "away"
  /\ r \in Uploads => loop = Nobody
  /\ at' = [at EXCEPT ![r] = "waiting"] /\ sees' = [sees EXCEPT ![r] = version]
  /\ loop' = IF r \in Uploads THEN r ELSE loop
  /\ UNCHANGED <<lock, version>>

\* A request that ends gives back what it holds.
end(r, result) ==
  /\ at' = [at EXCEPT ![r] = result]
  /\ lock' = IF lock = r THEN Nobody ELSE lock
  /\ loop' = IF loop = r THEN Nobody ELSE loop

\* Mutant: the record is read before the lock is taken.
get_unlocked(r) ==
  /\ at[r] = "waiting" /\ UNCHANGED <<version, sees>>
  /\ \/ sees[r] # version /\ end(r, "conflict")
     \/ sees[r] = version /\ at' = [at EXCEPT ![r] = "writing"] /\ UNCHANGED <<lock, loop>>

\* d.get(write=True) and check_version.
get(r) ==
  /\ at[r] = "waiting" /\ lock = Nobody /\ UNCHANGED <<version, sees>>
  /\ \/ sees[r] # version /\ end(r, "conflict")
     \/ /\ sees[r] = version
        /\ lock' = r /\ at' = [at EXCEPT ![r] = "writing"] /\ UNCHANGED loop

\* Mutant: a wait for the database lasts until the lock is free.
busy_timeout_never(r) == FALSE /\ UNCHANGED lockVars

busy_timeout(r) ==
  /\ at[r] = "waiting" /\ lock # Nobody
  /\ end(r, "locked") /\ UNCHANGED <<version, sees>>

\* await file.read: a spooled file is read in a thread, a small one at once.
read(r) ==
  /\ r \in Uploads /\ at[r] = "writing"
  /\ at' = [at EXCEPT ![r] = IF r \in Spooled THEN "reading" ELSE "read"]
  /\ loop' = IF r \in Spooled THEN Nobody ELSE loop
  /\ UNCHANGED <<lock, version, sees>>

\* The file is read; the coroutine goes on when the event loop is free.
resume(r) ==
  /\ at[r] = "reading" /\ loop = Nobody
  /\ at' = [at EXCEPT ![r] = "read"] /\ loop' = r
  /\ UNCHANGED <<lock, version, sees>>

\* save: the commit ends the transaction.
save_and_commit(r) ==
  /\ at[r] = IF r \in Uploads THEN "read" ELSE "writing"
  /\ version' = version + 1
  /\ end(r, "saved") /\ UNCHANGED sees

LockInit ==
  /\ loop = Nobody /\ lock = Nobody /\ version = 0
  /\ at = [r \in Requests |-> "away"] /\ sees = [r \in Requests |-> 0]

Proceed(r) == get(r) \/ busy_timeout(r) \/ read(r) \/ resume(r) \/ save_and_commit(r)

LockNext == \E r \in Requests : Arrive(r) \/ Proceed(r)

LockSpec == LockInit /\ [][LockNext]_lockVars /\ \A r \in Requests : WF_lockVars(Proceed(r))

-----------------------------------------------------------------------------
\* The version an upload checked before it read the file is still the current
\* one when it saves afterwards: nobody writes while the file is read.
NothingOverwritten ==
  [][\A r \in Requests : at[r] # "saved" /\ at'[r] = "saved" => sees[r] = version]_lockVars

\* Every request ends: an upload that waits for the database on the event loop
\* while the upload that holds the database waits for the event loop does not
\* stop the application for good.
UploadsEnd == \A r \in Requests : at[r] = "waiting" ~> at[r] \in Over
=============================================================================
