-------------------------- MODULE UploadLockProofs --------------------------
(***************************************************************************)
(* Proofs about UploadLock, for any number of uploads and other requests.  *)
(*                                                                         *)
(* The invariant says what the lock gives its holder: whoever has passed   *)
(* the check of the version holds the database, also while the event loop  *)
(* serves others, so that the version checked is still the current one.    *)
(***************************************************************************)
EXTENDS UploadLock, TLAPS

Held ==
  \A r \in Requests :
    /\ at[r] \in {"writing", "reading", "read"} => lock = r /\ sees[r] = version
    /\ at[r] = "reading" => r \in Uploads

LockInv == UploadLockTypeOK /\ Held

\* A request that ends.
LEMMA Ends ==
  ASSUME LockInv, NEW r \in Requests, NEW result \in Over, end(r, result),
         version' \in Nat, UNCHANGED sees, version' = version \/ lock = r
  PROVE  LockInv'
  <1>1. UploadLockTypeOK'
    BY DEF LockInv, UploadLockTypeOK, end, Requests
  <1>2. result \notin {"writing", "reading", "read"}
    BY DEF Over
  <1>3. Held'
    BY <1>2 DEF LockInv, UploadLockTypeOK, Held, end
  <1>4. QED
    BY <1>1, <1>3 DEF LockInv

\* The only way in is the free lock.
LEMMA Got ==
  ASSUME LockInv, NEW r \in Requests, get(r)
  PROVE  LockInv'
  <1>1. CASE end(r, "conflict")
    BY <1>1, Ends DEF get, LockInv, UploadLockTypeOK, Over
  <1>2. CASE /\ sees[r] = version
             /\ lock' = r /\ at' = [at EXCEPT ![r] = "writing"] /\ UNCHANGED loop
    <2>1. UploadLockTypeOK'
      BY <1>2 DEF LockInv, UploadLockTypeOK, get
    <2>2. lock = Nobody /\ \A q \in Requests : q # Nobody
      BY UploadLockAssumption DEF get, Requests
    <2>3. Held'
      BY <1>2, <2>2 DEF LockInv, UploadLockTypeOK, Held, get
    <2>4. QED
      BY <2>1, <2>3 DEF LockInv
  <1>3. QED
    BY <1>1, <1>2 DEF get

LEMMA Proceeds ==
  ASSUME LockInv, NEW r \in Requests, Arrive(r) \/ Proceed(r)
  PROVE  LockInv'
  <1>1. CASE Arrive(r)
    BY <1>1 DEF LockInv, UploadLockTypeOK, Held, Arrive
  <1>2. CASE get(r)
    BY <1>2, Got
  <1>3. CASE busy_timeout(r)
    BY <1>3, Ends DEF busy_timeout, LockInv, UploadLockTypeOK, Over
  <1>4. CASE read(r)
    BY <1>4 DEF LockInv, UploadLockTypeOK, Held, read
  <1>5. CASE resume(r)
    BY <1>5 DEF LockInv, UploadLockTypeOK, Held, resume, Requests
  <1>6. CASE save_and_commit(r)
    <2>1. lock = r
      BY <1>6 DEF LockInv, Held, save_and_commit
    <2>2. version' \in Nat /\ "saved" \in Over
      BY <1>6 DEF LockInv, UploadLockTypeOK, save_and_commit, Over
    <2>3. QED
      BY <1>6, <2>1, <2>2, Ends DEF save_and_commit
  <1>7. QED
    BY <1>1, <1>2, <1>3, <1>4, <1>5, <1>6 DEF Proceed

THEOREM LockInvariance == LockSpec => []LockInv
  <1>1. LockInit => LockInv
    BY DEF LockInit, LockInv, UploadLockTypeOK, Held
  <1>2. LockInv /\ [LockNext]_lockVars => LockInv'
    BY Proceeds DEF LockNext, lockVars, LockInv, UploadLockTypeOK, Held
  <1>3. QED
    BY <1>1, <1>2, PTL DEF LockSpec

\* However uploads give the event loop away between the check of the version
\* and the save, and whatever the other requests do meanwhile, nothing is saved
\* over a version its client has not seen (upload, deliveries.lock).
THEOREM UploadsOverwriteNothing == LockSpec => NothingOverwritten
  <1> DEFINE Seen(r) == at[r] # "saved" /\ at'[r] = "saved" => sees[r] = version
  <1>1. ASSUME LockInv, [LockNext]_lockVars, NEW r \in Requests
        PROVE  Seen(r)
    <2>1. CASE UNCHANGED lockVars
      BY <2>1 DEF lockVars
    <2>2. ASSUME NEW q \in Requests, Arrive(q) \/ Proceed(q), ~save_and_commit(q)
          PROVE  Seen(r)
      BY <1>1, <2>2
      DEF LockInv, UploadLockTypeOK, Arrive, Proceed, get, busy_timeout, read, resume, end
    <2>3. ASSUME NEW q \in Requests, save_and_commit(q)
          PROVE  Seen(r)
      BY <1>1, <2>3 DEF LockInv, UploadLockTypeOK, Held, save_and_commit, end
    <2>4. QED
      BY <1>1, <2>1, <2>2, <2>3 DEF LockNext
  <1>2. LockInv /\ [LockNext]_lockVars => [\A r \in Requests : Seen(r)]_lockVars
    BY <1>1
  <1>3. QED
    BY <1>2, LockInvariance, PTL DEF LockSpec, NothingOverwritten
=============================================================================
