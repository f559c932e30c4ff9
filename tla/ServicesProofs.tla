--------------------------- MODULE ServicesProofs ---------------------------
(***************************************************************************)
(* Proofs about ClientSync, for any number of workers and of faults, and   *)
(* about ingestion and start-up together, as the services run moves them.  *)
(***************************************************************************)
EXTENDS MCServices, IngestionProofs

-----------------------------------------------------------------------------
(* ClientSync.                                                             *)

\* Who is past the lock and not up yet holds it, so that no two are.
LockedInside ==
    \A w \in Workers : wpc[w] \in {"check", "update", "wait", "unlock"} => holder = w

\* An update that someone waits for is one that Keycloak works on.
WaitedForIsRewriting == \A w \in Workers : wpc[w] = "wait" => rewriting >= 1

\* What one worker does for all: until an update is left behind, Keycloak works
\* on the one that is waited for, and none begins after one landed.
OneForAll ==
    gave_up \/ /\ rewriting <= 1
               /\ rewriting = 1 => \E w \in Workers : wpc[w] = "wait"
               /\ updates <= 1
               /\ updates = 1 => in_sync
               /\ in_sync => \A w \in Workers : wpc[w] \notin {"update", "wait"}

SyncInv == SyncTypeOK /\ LockedInside /\ WaitedForIsRewriting /\ OneForAll

LEMMA SyncInvInit == SyncInit => SyncInv
<1> SUFFICES ASSUME SyncInit PROVE SyncInv
    OBVIOUS
<1>1. \A w \in Workers : wpc[w] = "boot"
    BY DEF SyncInit
<1>2. SyncTypeOK
  <2>1. in_sync \in BOOLEAN /\ gave_up \in BOOLEAN
      BY Zenon DEF SyncInit
  <2>2. faults \in 0 .. MaxFaults
      BY ClientSyncAssumption DEF SyncInit
  <2>3. wpc \in [Workers -> {"boot", "check", "update", "wait", "unlock", "up"}]
      BY DEF SyncInit
  <2> QED BY <2>1, <2>2, <2>3 DEF SyncInit, SyncTypeOK
<1>3. LockedInside /\ WaitedForIsRewriting
    BY <1>1 DEF LockedInside, WaitedForIsRewriting
<1>4. OneForAll
    BY <1>1 DEF SyncInit, OneForAll
<1> QED BY <1>2, <1>3, <1>4 DEF SyncInv

\* At most one worker waits for Keycloak at a time, so that a landing nobody
\* waits for is one more.
LEMMA UnwatchedIsOneMore ==
    ASSUME SyncInv, rewriting > Cardinality({w \in Workers : wpc[w] = "wait"})
    PROVE  /\ rewriting >= 1
           /\ \A w \in Workers : wpc[w] = "wait" => rewriting >= 2
<1> DEFINE waiting == {w \in Workers : wpc[w] = "wait"}
<1>1. rewriting \in Nat
    BY DEF SyncInv, SyncTypeOK
<1>2. CASE waiting = {}
  <2>1. Cardinality(waiting) = 0
      BY <1>2, FS_EmptySet
  <2> QED BY <1>1, <1>2, <2>1
<1>3. ASSUME NEW v \in waiting PROVE rewriting >= 2
  <2>1. waiting = {v}
      BY <1>3 DEF SyncInv, LockedInside
  <2>2. Cardinality(waiting) = 1
      BY <2>1, FS_Singleton
  <2> QED BY <1>1, <2>2
<1> QED BY <1>1, <1>2, <1>3

LEMMA SyncInvNext == SyncInv /\ [SyncNext]_syncVars => SyncInv'
<1> SUFFICES ASSUME SyncInv, [SyncNext]_syncVars PROVE SyncInv'
    OBVIOUS
<1> USE ClientSyncAssumption
        DEF SyncInv, SyncTypeOK, LockedInside, WaitedForIsRewriting, OneForAll,
            WorkerMoves, ClientState
<1>1. CASE UNCHANGED syncVars
    BY <1>1 DEF syncVars
<1>2. CASE LandsUnwatched
  <2>1. /\ rewriting >= 1
        /\ \A w \in Workers : wpc[w] = "wait" => rewriting >= 2
      BY <1>2, UnwatchedIsOneMore DEF LandsUnwatched
  <2>2. gave_up
      BY <2>1
  <2> QED BY <1>2, <2>1, <2>2 DEF LandsUnwatched, UpdateCommits
<1>3. ASSUME NEW w \in Workers, TakeLock(w) PROVE SyncInv'
    BY <1>3 DEF TakeLock
<1>4. ASSUME NEW w \in Workers, Compare(w) PROVE SyncInv'
    BY <1>4 DEF Compare
<1>5. ASSUME NEW w \in Workers, UpdateBegins(w) PROVE SyncInv'
    BY <1>5 DEF UpdateBegins
<1>6. ASSUME NEW w \in Workers, UpdateLands(w) PROVE SyncInv'
    BY <1>6 DEF UpdateLands, UpdateCommits
<1>7. ASSUME NEW w \in Workers, GiveLock(w) PROVE SyncInv'
    BY <1>7 DEF GiveLock
<1>8. ASSUME NEW w \in Workers, KeycloakFails(w) PROVE SyncInv'
    BY <1>8 DEF KeycloakFails
<1>9. ASSUME NEW w \in Workers, UpdateTimesOut(w) PROVE SyncInv'
    BY <1>9 DEF UpdateTimesOut
<1>10. ASSUME NEW w \in Workers, WorkerKilled(w) PROVE SyncInv'
  <2>1. SyncTypeOK'
    <3>1. gave_up' \in BOOLEAN
        BY <1>10 DEF WorkerKilled
    <3> QED BY <1>10, <3>1 DEF WorkerKilled
  <2>2. (LockedInside /\ WaitedForIsRewriting)'
      BY <1>10 DEF WorkerKilled
  <2>3. CASE wpc[w] = "wait"
      BY <1>10, <2>1, <2>2, <2>3 DEF WorkerKilled
  <2>4. CASE wpc[w] # "wait"
    <3>1. gave_up' <=> gave_up
        BY <1>10, <2>4 DEF WorkerKilled
    <3> QED BY <1>10, <2>1, <2>2, <2>4, <3>1 DEF WorkerKilled
  <2> QED BY <2>3, <2>4
<1> QED BY <1>1, <1>2, <1>3, <1>4, <1>5, <1>6, <1>7, <1>8, <1>9, <1>10 DEF SyncNext, StartsUp

\* Where no update was left behind, at most one landed.
LEMMA SyncPromise == SyncInv => OneUpdate
BY DEF SyncInv, SyncTypeOK, OneForAll, OneUpdate

\* At most one worker is in the locked part, and one update counts for all
\* until a worker leaves one behind (sync_de_client).
THEOREM SyncInvariant == SyncSpec => []SyncInv
<1> QED BY SyncInvInit, SyncInvNext, PTL DEF SyncSpec

\* However many workers a deploy starts, the client is updated at most once,
\* unless a worker left an update behind: the advisory lock orders them and
\* each compares under it.
THEOREM OneUpdateForAll == SyncSpec => []OneUpdate
<1> QED BY SyncPromise, SyncInvariant, PTL

-----------------------------------------------------------------------------
(* The parts together.                                                     *)

\* The part that is moved takes a step of its own, the other stands still.
LEMMA PartsStep ==
    [ServicesNext]_<<focus, ingestVars, syncVars>> =>
        [IngestNext]_ingestVars /\ [SyncNext]_syncVars
BY DEF ServicesNext

ServicesInv == IngestInv /\ ServedInv /\ SyncInv

LEMMA ServicesInvInit == ServicesInit => ServicesInv
BY InitOwned, InitServed, SyncInvInit DEF ServicesInit, ServicesInv

LEMMA ServicesInvNext ==
    ServicesInv /\ [ServicesNext]_<<focus, ingestVars, syncVars>> => ServicesInv'
<1> SUFFICES ASSUME ServicesInv, [ServicesNext]_<<focus, ingestVars, syncVars>>
             PROVE  ServicesInv'
    OBVIOUS
<1>1. [IngestNext]_ingestVars /\ [SyncNext]_syncVars
    BY PartsStep
<1>2. IngestInv'
    BY <1>1, StepOwned DEF ServicesInv
<1>3. ServedInv'
    BY <1>1, <1>2, StepServed DEF ServicesInv
<1>4. SyncInv'
    BY <1>1, SyncInvNext DEF ServicesInv
<1> QED BY <1>2, <1>3, <1>4 DEF ServicesInv

\* The parts' invariants hold of both at once, for any number of files,
\* requests, workers and faults.
THEOREM ServicesInvariant == ServicesSpec => []ServicesInv
<1> QED BY ServicesInvInit, ServicesInvNext, PTL DEF ServicesSpec

\* Keys, references, tries and counters of both parts stay in range.
THEOREM ServicesTyped == ServicesSpec => []ServicesTypeOK
<1>1. ServicesInv => ServicesTypeOK
    BY ServedTypes DEF ServicesInv, SyncInv, ServicesTypeOK
<1> QED BY <1>1, ServicesInvariant, PTL

\* The promises of the parts, where both are there: a stored record has its
\* object, a reported success its record, and an update of the client counts
\* for all workers (upload_image, upload_one, sync_de_client).
THEOREM ServicesKeepPromises ==
    ServicesSpec => [](ReferencedObjectsExist /\ SuccessIsStored /\ OneUpdate)
<1>1. ServicesInv => ReferencedObjectsExist /\ SuccessIsStored /\ OneUpdate
    BY OwnedPromise, ServedPromise, SyncPromise DEF ServicesInv
<1> QED BY <1>1, ServicesInvariant, PTL

=============================================================================
