----------------------------- MODULE ClientSync ----------------------------
(***************************************************************************)
(* Every gunicorn worker calls keycloak_service.sync_de_client when it     *)
(* starts (lifespan in main.py), so on a deploy all of them do at once.    *)
(* Keycloak's update deletes the client's redirect URIs and inserts them   *)
(* again: two at a time break its unique constraint and both fail.  A      *)
(* session-level advisory lock of PostgreSQL serialises the workers.       *)
(***************************************************************************)
EXTENDS Naturals, FiniteSets

CONSTANTS
    Workers,
    NoWorker,
    MaxFaults    \* bound: Keycloak errors, timeouts and killed workers

ASSUME ClientSyncAssumption ==
    /\ IsFiniteSet(Workers)
    /\ NoWorker \notin Workers
    /\ MaxFaults \in Nat

VARIABLES
    wpc,       \* per worker: where it is in its startup
    holder,    \* the session that holds the advisory lock
    in_sync,   \* whether the client has the desired redirect URIs
    rewriting, \* updates of the client that Keycloak is working on
    updates,   \* history: updates that landed
    gave_up,   \* history: a worker left an update that Keycloak went on with
    faults

syncVars == <<wpc, holder, in_sync, rewriting, updates, gave_up, faults>>

SyncInit ==
    /\ wpc = [w \in Workers |-> "boot"]
    /\ holder = NoWorker
    /\ in_sync \in BOOLEAN
    /\ rewriting = 0
    /\ updates = 0
    /\ gave_up = FALSE
    /\ faults = 0

WorkerMoves(w, from, to) == wpc[w] = from /\ wpc' = [wpc EXCEPT ![w] = to]

ClientState == <<in_sync, rewriting, updates, gave_up>>

\* A slip: a lock key of the worker's own.
TakeLock_PerWorker(w) ==
    /\ WorkerMoves(w, "boot", "check")
    /\ UNCHANGED <<holder, ClientState, faults>>

\* SELECT pg_advisory_lock
TakeLock(w) ==
    /\ WorkerMoves(w, "boot", "check")
    /\ holder = NoWorker
    /\ holder' = w
    /\ UNCHANGED <<ClientState, faults>>

\* get_clients, and the comparison with what _build_de_client wants: nothing
\* to do when the client has it already.
Compare(w) ==
    /\ WorkerMoves(w, "check", IF in_sync THEN "unlock" ELSE "update")
    /\ UNCHANGED <<holder, ClientState, faults>>

\* update_client reaches Keycloak, which deletes the old rows ...
UpdateBegins(w) ==
    /\ WorkerMoves(w, "update", "wait")
    /\ rewriting' = rewriting + 1
    /\ UNCHANGED <<holder, in_sync, updates, gave_up, faults>>

\* ... inserts the new ones and commits.
UpdateCommits ==
    /\ rewriting' = rewriting - 1
    /\ in_sync' = TRUE
    /\ updates' = updates + 1

UpdateLands(w) ==
    /\ WorkerMoves(w, "wait", "unlock")
    /\ UpdateCommits
    /\ UNCHANGED <<holder, gave_up, faults>>

\* Keycloak is away, refuses, or rolls back: the exception passes the finally.
KeycloakFails(w) ==
    /\ faults < MaxFaults
    /\ wpc[w] \in {"check", "update", "wait"}
    /\ wpc' = [wpc EXCEPT ![w] = "unlock"]
    /\ rewriting' = IF wpc[w] = "wait" THEN rewriting - 1 ELSE rewriting
    /\ faults' = faults + 1
    /\ UNCHANGED <<holder, in_sync, updates, gave_up>>

\* The call times out here while Keycloak goes on.
UpdateTimesOut(w) ==
    /\ faults < MaxFaults
    /\ WorkerMoves(w, "wait", "unlock")
    /\ gave_up' = TRUE
    /\ faults' = faults + 1
    /\ UNCHANGED <<holder, in_sync, rewriting, updates>>

\* A killed worker's session ends, which gives the lock up, and gunicorn
\* starts another; Keycloak goes on with what it was asked.
WorkerKilled(w) ==
    /\ faults < MaxFaults
    /\ wpc' = [wpc EXCEPT ![w] = "boot"]
    /\ holder' = IF holder = w THEN NoWorker ELSE holder
    /\ gave_up' = (gave_up \/ wpc[w] = "wait")
    /\ faults' = faults + 1
    /\ UNCHANGED <<in_sync, rewriting, updates>>

\* An update nobody waits for any more lands.
LandsUnwatched ==
    /\ rewriting > Cardinality({w \in Workers : wpc[w] = "wait"})
    /\ UpdateCommits
    /\ UNCHANGED <<wpc, holder, gave_up, faults>>

\* A slip: the unlock outside the finally, skipped by an early return.
GiveLock_Skipped(w) ==
    /\ WorkerMoves(w, "unlock", "up")
    /\ holder' = IF in_sync /\ updates = 0 THEN holder ELSE NoWorker
    /\ UNCHANGED <<ClientState, faults>>

\* The finally's pg_advisory_unlock; lifespan then swallows any exception
\* and the worker serves requests.
GiveLock(w) ==
    /\ WorkerMoves(w, "unlock", "up")
    /\ holder' = IF holder = w THEN NoWorker ELSE holder
    /\ UNCHANGED <<ClientState, faults>>

StartsUp(w) ==
    \/ TakeLock(w)
    \/ Compare(w)
    \/ UpdateBegins(w)
    \/ UpdateLands(w)
    \/ GiveLock(w)

SyncNext ==
    \/ LandsUnwatched
    \/ \E w \in Workers : \/ StartsUp(w)
                         \/ KeycloakFails(w)
                         \/ UpdateTimesOut(w)
                         \/ WorkerKilled(w)

\* Workers run; PostgreSQL grants a lock to those who wait for it.
SyncFairness == \A w \in Workers : SF_syncVars(StartsUp(w))

SyncSpec == SyncInit /\ [][SyncNext]_syncVars /\ SyncFairness

-----------------------------------------------------------------------------
SyncTypeOK ==
    /\ wpc \in [Workers -> {"boot", "check", "update", "wait", "unlock", "up"}]
    /\ holder \in Workers \cup {NoWorker}
    /\ in_sync \in BOOLEAN
    /\ rewriting \in Nat
    /\ updates \in Nat
    /\ gave_up \in BOOLEAN
    /\ faults \in 0 .. MaxFaults

\* Of all the workers that start together at most one updates the client,
\* unless a worker left an update behind: no two meet in Keycloak, and those
\* who come later compare under the lock and find it done.  The lock guards
\* the call, not what Keycloak makes of it (sync_de_client).
OneUpdate == gave_up \/ rewriting + updates <= 1

\* Every worker comes up, whatever fails in Keycloak and whoever is killed
\* with the lock (the finally of sync_de_client, the try of lifespan).
WorkersComeUp == \A w \in Workers : <>(wpc[w] = "up")

=============================================================================
