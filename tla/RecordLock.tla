----------------------------- MODULE RecordLock -----------------------------
(***************************************************************************)
(* What the README promises of pessimistic locking, "one agent owns a      *)
(* record at a time": ownership of a record passes from one agent to       *)
(* another only through the free state, and only to and with an agent who  *)
(* is busy on the record.                                                  *)
(***************************************************************************)
CONSTANTS Records, Agents, NoOne

VARIABLES
    holder,  \* who owns each record, or NoOne
    busy     \* the agents with work in progress on each record

Init ==
    /\ holder = [r \in Records |-> NoOne]
    /\ busy = [r \in Records |-> {}]

Acquire(r) ==
    /\ holder[r] = NoOne
    /\ holder'[r] \in busy'[r]

Keep(r) ==
    /\ holder'[r] = holder[r]
    /\ holder[r] = NoOne \/ holder[r] \in busy'[r]

Release(r) == holder'[r] = NoOne

\* One request may touch several records.
Next ==
    /\ holder' \in [Records -> Agents \cup {NoOne}]
    /\ busy' \in [Records -> SUBSET Agents]
    /\ \A r \in Records : Acquire(r) \/ Keep(r) \/ Release(r)

Spec == Init /\ [][Next]_<<holder, busy>>

=============================================================================
