------------------------------ MODULE Accounts -----------------------------
(***************************************************************************)
(* Users: a row in the database and an account in a Keycloak realm, which  *)
(* routers/users.py, seed.py, seed_agents.py and provision_cli_user.py     *)
(* write one after the other.  A row knows its account by the subject,     *)
(* which is the only thing unique about a row: email is only indexed.      *)
(***************************************************************************)
EXTENDS Naturals, FiniteSets, Sequences

CONSTANTS
    Emails,
    Realms,      \* "doc" and the customers' realms
    CliEmail,    \* the email in the row of the bulk upload's service account
    Service,     \* stands for the email that this account does not have
    Calls,       \* requests in flight at a time
    MaxRows,     \* bound: user rows ever inserted
    MaxDrifts    \* bound: Keycloak failures and crashes

ASSUME AccountsAssumption ==
    /\ "doc" \in Realms
    /\ CliEmail \in Emails /\ Service \notin Emails
    /\ MaxRows \in Nat /\ MaxDrifts \in Nat

VARIABLES
    rows,      \* the users rows
    account,   \* per subject: absent, enabled or disabled
    acall,     \* per request: what it does, and how far it is
    drifted    \* history: rows whose account a fault, an overlap or the CLI's
               \* provisioning left behind, and the faults so far

accountVars == <<rows, account, acall, drifted>>

\* Keycloak gives one subject for an email in a realm.
ServiceSub == <<"doc", Service>>

Subjects == (Realms \X Emails) \cup {ServiceSub}

NoSub == <<>>

UserRow(e, sub) == [email |-> e, sub |-> sub, active |-> TRUE]

NoAcall == [op |-> "none", email |-> CliEmail, sub |-> NoSub, k |-> 0,
            on |-> TRUE, pc |-> "idle"]

AccountsInit ==
    /\ rows = <<>>
    /\ account = [x \in Subjects |-> "absent"]
    /\ acall = [q \in Calls |-> NoAcall]
    /\ drifted = [rows |-> {}, faults |-> 0]

HasRoomForUser == Len(rows) < MaxRows

RequestEnds(q) == acall' = [acall EXCEPT ![q] = NoAcall]

RowsNamed(e) == {k \in DOMAIN rows : rows[k].email = e}

RowsWithSub(x) == {k \in DOMAIN rows : rows[k].sub = x}

Updating(k) == \E q \in Calls : acall[q].op = "update" /\ acall[q].k = k

MadeIfAbsent(x) == [account EXCEPT ![x] = IF @ = "absent" THEN "enabled" ELSE @]

MayFault == drifted.faults < MaxDrifts

Drifts(ks, n) == drifted' = [rows |-> drifted.rows \cup ks, faults |-> drifted.faults + n]

-----------------------------------------------------------------------------
(* create_user, and seed_agents.py, which makes one after the other.       *)

\* 409 on a row with the email, an exception on two.
BeginCreate(q, e, r) ==
    /\ acall[q].op = "none"
    /\ RowsNamed(e) = {}
    /\ acall' = [acall EXCEPT ![q] = [NoAcall EXCEPT !.op = "create", !.email = e,
                                                     !.sub = <<r, e>>, !.pc = "keycloak"]]
    /\ UNCHANGED <<rows, account, drifted>>

\* _generate_users: an email that no row has.
BeginAgent(q, e) ==
    /\ acall[q].op = "none"
    /\ rows # <<>> /\ RowsNamed(e) = {} /\ e # CliEmail
    /\ acall' = [acall EXCEPT ![q] = [NoAcall EXCEPT !.op = "agent", !.email = e,
                                                     !.sub = <<"doc", e>>, !.pc = "keycloak"]]
    /\ UNCHANGED <<rows, account, drifted>>

\* create_user_in_realm with exist_ok: an account that is there stays as it is.
CreateAccount(q) ==
    /\ acall[q].op \in {"create", "agent"} /\ acall[q].pc = "keycloak"
    /\ account' = MadeIfAbsent(acall[q].sub)
    /\ acall' = [acall EXCEPT ![q].pc = "insert"]
    /\ UNCHANGED <<rows, drifted>>

\* _try_keycloak goes on without a subject.
AgentUnlinked(q) ==
    /\ acall[q].op = "agent" /\ acall[q].pc = "keycloak"
    /\ acall' = [acall EXCEPT ![q].pc = "insert", ![q].sub = NoSub]
    /\ UNCHANGED <<rows, account, drifted>>

\* A slip: keycloak_sub not unique.
InsertUser_Shared(q) ==
    /\ HasRoomForUser
    /\ acall[q].op = "create" /\ acall[q].pc = "insert"
    /\ rows' = Append(rows, UserRow(acall[q].email, acall[q].sub))
    /\ RequestEnds(q)
    /\ UNCHANGED <<account, drifted>>

\* The INSERT raises when a row has the subject.
InsertUser(q) ==
    LET x     == acall[q].sub
        taken == x # NoSub /\ RowsWithSub(x) # {}
    IN  /\ HasRoomForUser
        /\ acall[q].op \in {"create", "agent"} /\ acall[q].pc = "insert"
        /\ rows' = IF taken THEN rows ELSE Append(rows, UserRow(acall[q].email, x))
        /\ IF /\ ~taken /\ x # NoSub
              /\ account[x] = "disabled" \/ \E p \in Calls : acall[p].op = "update" /\ acall[p].sub = x
           THEN Drifts({Len(rows) + 1}, 0) ELSE UNCHANGED drifted
        /\ RequestEnds(q)
        /\ UNCHANGED account

\* Keycloak's failure answers 503; a crash ends the request as well.  The
\* account, if made, stays without a row.
CreateFails(q) ==
    /\ MayFault
    /\ acall[q].op \in {"create", "agent"}
    /\ Drifts({}, 1)
    /\ RequestEnds(q)
    /\ UNCHANGED <<rows, account>>

-----------------------------------------------------------------------------
(* update_user with is_active.                                             *)

\* The row is read.  An update to what it is already changes nothing: it tells
\* Keycloak nothing, and the ORM writes only columns that change.
BeginUpdate(q, k, on) ==
    /\ acall[q].op = "none"
    /\ k \in DOMAIN rows /\ on # rows[k].active
    /\ acall' = [acall EXCEPT ![q] = [NoAcall EXCEPT !.op = "update", !.k = k,
                     !.sub = rows[k].sub, !.on = on,
                     !.pc = IF rows[k].sub # NoSub THEN "mirror" ELSE "write"]]
    /\ IF Updating(k) THEN Drifts({k}, 0) ELSE UNCHANGED drifted
    /\ UNCHANGED <<rows, account>>

\* A slip: the new state sent the wrong way round.
MirrorActive_Inverted(q) ==
    /\ acall[q].op = "update" /\ acall[q].pc = "mirror"
    /\ account' = [account EXCEPT ![acall[q].sub] = IF acall[q].on THEN "disabled" ELSE "enabled"]
    /\ acall' = [acall EXCEPT ![q].pc = "write"]
    /\ UNCHANGED <<rows, drifted>>

\* set_user_enabled
MirrorActive(q) ==
    /\ acall[q].op = "update" /\ acall[q].pc = "mirror"
    /\ account' = [account EXCEPT ![acall[q].sub] = IF acall[q].on THEN "enabled" ELSE "disabled"]
    /\ acall' = [acall EXCEPT ![q].pc = "write"]
    /\ UNCHANGED <<rows, drifted>>

\* Its failure is only logged; the same update sent again finds the row as
\* wanted and tells Keycloak nothing.
MirrorFails(q) ==
    /\ MayFault
    /\ acall[q].op = "update" /\ acall[q].pc = "mirror"
    /\ acall' = [acall EXCEPT ![q].pc = "write"]
    /\ Drifts({acall[q].k}, 1)
    /\ UNCHANGED <<rows, account>>

WriteUser(q) ==
    /\ acall[q].op = "update" /\ acall[q].pc = "write"
    /\ rows' = [rows EXCEPT ![acall[q].k].active = acall[q].on]
    /\ RequestEnds(q)
    /\ UNCHANGED <<account, drifted>>

\* The backend dies, or the commit fails, after Keycloak was told.
UpdateCrashes(q) ==
    /\ MayFault
    /\ acall[q].op = "update"
    /\ Drifts({acall[q].k}, 1)
    /\ RequestEnds(q)
    /\ UNCHANGED <<rows, account>>

-----------------------------------------------------------------------------
\* seed.py, on an empty database: the row is committed whatever Keycloak says.
SeedUser(e, r) ==
    \E reached \in BOOLEAN :
        /\ rows = <<>> /\ HasRoomForUser /\ e # CliEmail
        /\ \A q \in Calls : acall[q] = NoAcall
        /\ account' = IF reached THEN MadeIfAbsent(<<r, e>>) ELSE account
        /\ rows' = <<UserRow(e, IF reached THEN <<r, e>> ELSE NoSub)>>
        /\ UNCHANGED <<acall, drifted>>

\* provision_cli_user.py: the row with the service account's subject, else the
\* one with its email, else a new one; linked and made active, Keycloak not
\* asked whether the account is enabled.
ProvisionCli ==
    LET found == IF RowsWithSub(ServiceSub) # {} THEN RowsWithSub(ServiceSub) ELSE RowsNamed(CliEmail)
    IN  /\ rows # <<>> /\ Cardinality(found) <= 1
        /\ account' = MadeIfAbsent(ServiceSub)
        /\ IF found = {}
           THEN /\ HasRoomForUser
                /\ rows' = Append(rows, UserRow(CliEmail, ServiceSub))
           ELSE rows' = [k \in DOMAIN rows |->
                            IF k \in found THEN [rows[k] EXCEPT !.sub = ServiceSub, !.active = TRUE]
                            ELSE rows[k]]
        /\ Drifts({k \in found : account[ServiceSub] = "disabled" \/ Updating(k)}, 0)
        /\ UNCHANGED acall

AccountsNext ==
    \/ ProvisionCli
    \/ \E e \in Emails, r \in Realms : SeedUser(e, r)
    \/ \E q \in Calls :
           \/ \E e \in Emails, r \in Realms : BeginCreate(q, e, r)
           \/ \E e \in Emails : BeginAgent(q, e)
           \/ CreateAccount(q)
           \/ AgentUnlinked(q)
           \/ InsertUser(q)
           \/ CreateFails(q)
           \/ \E k \in 1 .. MaxRows, on \in BOOLEAN : BeginUpdate(q, k, on)
           \/ MirrorActive(q)
           \/ MirrorFails(q)
           \/ WriteUser(q)
           \/ UpdateCrashes(q)

AccountsSpec == AccountsInit /\ [][AccountsNext]_accountVars

-----------------------------------------------------------------------------
\* security.get_current_user on a valid token of a realm, sent through nginx
\* for a portal.
MayEnter(portal, x) ==
    /\ portal = IF x[1] = "doc" THEN "digitizing" ELSE "customer"
    /\ \E k \in RowsWithSub(x) : rows[k].active

UserRows == [email : Emails, sub : Subjects \cup {NoSub}, active : BOOLEAN]

UserRequests == [op : {"none", "create", "agent", "update"}, email : Emails,
                 sub : Subjects \cup {NoSub}, k : 0 .. MaxRows, on : BOOLEAN,
                 pc : {"idle", "keycloak", "insert", "mirror", "write"}]

AccountsTypeOK ==
    /\ rows \in Seq(UserRows)
    /\ Len(rows) <= MaxRows
    /\ account \in [Subjects -> {"absent", "enabled", "disabled"}]
    /\ acall \in [Calls -> UserRequests]
    /\ drifted \in [rows : SUBSET (1 .. MaxRows), faults : 0 .. MaxDrifts]

\* A deactivated user stays out whatever Keycloak still says, since no second
\* row has the account: create_user tests the email long before it inserts,
\* and Keycloak answers a second creation with the first account, but
\* users.keycloak_sub is unique (get_current_user).
DeactivatedStaysOut ==
    \A k \in DOMAIN rows, portal \in {"digitizing", "customer"} :
        rows[k].sub # NoSub /\ ~rows[k].active => ~MayEnter(portal, rows[k].sub)

\* Between requests Keycloak agrees with is_active, except where a logged
\* failure, a crash, two updates at once or the CLI's provisioning left it
\* behind (update_user's mirroring).
MirrorAgrees ==
    (\A q \in Calls : acall[q].op # "update") =>
        \A k \in DOMAIN rows \ drifted.rows :
            rows[k].sub # NoSub =>
                account[rows[k].sub] = IF rows[k].active THEN "enabled" ELSE "disabled"

=============================================================================
