--------------------------- MODULE KeycloakProofs ---------------------------
(***************************************************************************)
(* Theorems about what the backend keeps both in its database and in       *)
(* Keycloak: customers and their realms, for any names, slugs and number   *)
(* of requests, and users and their accounts, for any number of users and  *)
(* of requests at a time.                                                  *)
(***************************************************************************)
EXTENDS Provisioning, Accounts, FiniteSetTheorems, SequenceTheorems, TLAPS

-----------------------------------------------------------------------------
(* Provisioning.                                                           *)

RowHeld == {"bucket", "commit"}

CallOK ==
    /\ DOMAIN call = OrgRequests
    /\ \A q \in OrgRequests : call[q] \in
           [name : Names,
            pc : {"idle", "realm", "client", "insert", "bucket", "commit",
                  "answered", "refused"},
            bucket : {"none", "ready", "error"}, hit : BOOLEAN]

\* Past Keycloak, a request has what it asked for.
MadeInKeycloak ==
    \A q \in OrgRequests :
        LET s == Slug[call[q].name]
        IN  /\ call[q].pc \in {"client", "insert"} \cup RowHeld => s \in realms
            /\ call[q].pc \in {"insert"} \cup RowHeld => s \in clients

\* The unique index on the slug: an uncommitted row is the only one with it.
HeldAlone(q) ==
    /\ \A o \in orgs : Slug[o.name] # Slug[call[q].name]
    /\ \A p \in OrgRequests \ {q} :
           call[p].pc \in RowHeld => Slug[call[p].name] # Slug[call[q].name]

SlugHeld == \A q \in OrgRequests : call[q].pc \in RowHeld => HeldAlone(q)

ProvInv == CallOK /\ MadeInKeycloak /\ SlugHeld /\ OrgHasRealm /\ RefusedForCause

LEMMA ProvInvInit == ProvInit => ProvInv
<1> SUFFICES ASSUME ProvInit PROVE ProvInv
    OBVIOUS
<1>1. \A q \in OrgRequests : call[q] = NoCall
    BY DEF ProvInit
<1>2. CallOK
    BY <1>1, ProvisioningAssumption DEF CallOK, NoCall, ProvInit
<1>3. MadeInKeycloak /\ SlugHeld /\ RefusedForCause
    BY <1>1 DEF MadeInKeycloak, SlugHeld, RefusedForCause, NoCall, RowHeld
<1>4. OrgHasRealm
    BY DEF ProvInit, OrgHasRealm
<1> QED BY <1>2, <1>3, <1>4 DEF ProvInv

\* A step of one request that ends or goes on, with the customers as they were.
LEMMA CallStep ==
    ASSUME ProvInv, NEW q \in OrgRequests, ProvNext, orgs' = orgs,
           realms \subseteq realms', clients \subseteq clients',
           \A p \in OrgRequests \ {q} : call'[p] = call[p],
           CallOK',
           LET s == Slug[call'[q].name]
           IN  /\ call'[q].pc \in {"client", "insert"} \cup RowHeld => s \in realms'
               /\ call'[q].pc \in {"insert"} \cup RowHeld => s \in clients'
               /\ call'[q].pc \in RowHeld =>
                      /\ ~SlugTaken(s)
                      /\ \A p \in OrgRequests \ {q} :
                             call[p].pc \in RowHeld => Slug[call[p].name] # s
               /\ call'[q].pc = "refused" => call'[q].hit \/ SlugTaken(s)
    PROVE  ProvInv'
<1>1. MadeInKeycloak'
  <2> SUFFICES ASSUME NEW p \in OrgRequests
               PROVE  LET s == Slug[call'[p].name]
                      IN  /\ call'[p].pc \in {"client", "insert"} \cup RowHeld => s \in realms'
                          /\ call'[p].pc \in {"insert"} \cup RowHeld => s \in clients'
      BY DEF MadeInKeycloak, RowHeld
  <2>1. CASE p = q
      BY <2>1
  <2>2. CASE p # q
      BY <2>2 DEF ProvInv, MadeInKeycloak
  <2> QED BY <2>1, <2>2
<1>2. SlugHeld'
  <2> SUFFICES ASSUME NEW p \in OrgRequests, call'[p].pc \in RowHeld
               PROVE  HeldAlone(p)'
      BY DEF SlugHeld, RowHeld
  <2>1. CASE p = q
      BY <2>1 DEF HeldAlone, SlugTaken
  <2>2. CASE p # q
      BY <2>2 DEF ProvInv, SlugHeld, HeldAlone
  <2> QED BY <2>1, <2>2
<1>3. OrgHasRealm'
    BY DEF ProvInv, OrgHasRealm
<1>4. RefusedForCause'
  <2> SUFFICES ASSUME NEW p \in OrgRequests, call'[p].pc = "refused"
               PROVE  call'[p].hit \/ SlugTaken(Slug[call'[p].name])
      BY DEF RefusedForCause, SlugTaken
  <2>1. CASE p = q
      BY <2>1
  <2>2. CASE p # q
      BY <2>2 DEF ProvInv, RefusedForCause
  <2> QED BY <2>1, <2>2
<1> QED BY <1>1, <1>2, <1>3, <1>4 DEF ProvInv

LEMMA CommitInv ==
    ASSUME ProvInv, NEW q \in OrgRequests, CommitOrg(q)
    PROVE  ProvInv'
<1> DEFINE n == call[q].name
           new == [id |-> Cardinality(orgs), name |-> n,
                   bucket_status |-> call[q].bucket, seeded |-> FALSE]
<1>1. /\ call[q].pc = "commit" /\ call' = [call EXCEPT ![q].pc = "answered"]
      /\ orgs' = orgs \cup {new}
      /\ realms' = realms /\ clients' = clients
    BY DEF CommitOrg, CallMoves, Provisioned
<1>2. /\ call'[q] = [call[q] EXCEPT !.pc = "answered"]
      /\ call'[q].pc = "answered"
      /\ \A p \in OrgRequests \ {q} : call'[p] = call[p]
      /\ DOMAIN call' = OrgRequests
    BY <1>1 DEF ProvInv, CallOK
<1>3. CallOK'
    BY <1>2 DEF ProvInv, CallOK
<1>4. MadeInKeycloak'
    BY <1>1, <1>2 DEF ProvInv, MadeInKeycloak, RowHeld
<1>5. new.name = n /\ ~new.seeded
    OBVIOUS
<1> HIDE DEF new
<1>6. SlugHeld'
  <2> SUFFICES ASSUME NEW p \in OrgRequests, call'[p].pc \in RowHeld
               PROVE  HeldAlone(p)'
      BY DEF SlugHeld, RowHeld
  <2>1. p # q /\ call'[p] = call[p]
      BY <1>2 DEF RowHeld
  <2>2. HeldAlone(p) /\ Slug[call[p].name] # Slug[n]
      BY <1>1, <2>1 DEF ProvInv, SlugHeld, HeldAlone, RowHeld
  <2>3. \A o \in orgs' : Slug[o.name] # Slug[call'[p].name]
      BY <1>1, <1>5, <2>1, <2>2 DEF HeldAlone
  <2>4. ASSUME NEW o \in OrgRequests \ {p}, call'[o].pc \in RowHeld
        PROVE  Slug[call'[o].name] # Slug[call'[p].name]
      BY <1>2, <2>1, <2>2, <2>4 DEF HeldAlone, RowHeld
  <2> QED BY <2>3, <2>4 DEF HeldAlone, RowHeld
<1>7. OrgHasRealm'
  <2>1. Slug[n] \in realms \cap clients /\ \A o \in orgs : Slug[o.name] # Slug[n]
      BY <1>1 DEF ProvInv, MadeInKeycloak, SlugHeld, HeldAlone, RowHeld
  <2> QED BY <1>1, <1>5, <2>1 DEF ProvInv, OrgHasRealm
<1>8. RefusedForCause'
    BY <1>1, <1>2 DEF ProvInv, RefusedForCause, SlugTaken
<1> QED BY <1>3, <1>4, <1>6, <1>7, <1>8 DEF ProvInv

LEMMA ProvInvNext == ProvInv /\ [ProvNext]_provVars => ProvInv'
<1> SUFFICES ASSUME ProvInv, [ProvNext]_provVars PROVE ProvInv'
    OBVIOUS
<1>1. ASSUME UNCHANGED <<realms, clients, orgs, call>> PROVE ProvInv'
    BY <1>1 DEF ProvInv, CallOK, MadeInKeycloak, SlugHeld, HeldAlone, OrgHasRealm,
              RefusedForCause, SlugTaken, RowHeld
<1>2. CASE UNCHANGED provVars
    BY <1>1, <1>2 DEF provVars
<1>3. ASSUME NEW o \in orgs, CreateProject(o) PROVE ProvInv'
    BY <1>1, <1>3 DEF CreateProject, Provisioned
<1>4. CASE Seed
  <2>1. /\ call' = call /\ realms \subseteq realms' /\ clients \subseteq clients'
        /\ \A q \in OrgRequests : call[q].pc = "idle"
      BY <1>4 DEF Seed
  <2> DEFINE row == [id |-> 0, name |-> SeedName, bucket_status |-> "none", seeded |-> TRUE]
  <2>2. orgs' = {row} /\ row.seeded
      BY <1>4 DEF Seed
  <2>3. OrgHasRealm'
      BY <2>2 DEF OrgHasRealm
  <2> QED BY <2>1, <2>3
          DEF ProvInv, CallOK, MadeInKeycloak, SlugHeld, RefusedForCause, RowHeld
<1>5. ASSUME NEW q \in OrgRequests, ProvNext, CommitOrg(q) PROVE ProvInv'
    BY <1>5, CommitInv
<1>6. ASSUME NEW q \in OrgRequests, ProvNext,
             \/ CreateRealm(q) \/ CreateClient(q) \/ InsertOrg(q) \/ MakeBucket(q)
             \/ KeycloakDown(q) \/ CrashOrg(q)
             \/ \E n \in Names : BeginOrg(q, n)
      PROVE  ProvInv'
  <2> USE DEF CallMoves, Provisioned
  <2>1. /\ orgs' = orgs /\ realms \subseteq realms' /\ clients \subseteq clients'
        /\ \A p \in OrgRequests \ {q} : call'[p] = call[p]
      BY <1>6 DEF CreateRealm, CreateClient, InsertOrg, MakeBucket, KeycloakDown,
                  CrashOrg, BeginOrg, ProvInv, CallOK
  <2>2. CallOK'
    <3>1. CASE MakeBucket(q)
      <4>1. PICK kept \in {"ready", "error"} :
                call' = [call EXCEPT ![q].pc = "commit", ![q].bucket = kept]
          BY <3>1 DEF MakeBucket
      <4>2. call'[q] = [call[q] EXCEPT !.pc = "commit", !.bucket = kept]
          BY <4>1 DEF ProvInv, CallOK
      <4>3. call'[q] \in [name : Names,
                          pc : {"idle", "realm", "client", "insert", "bucket", "commit",
                                "answered", "refused"},
                          bucket : {"none", "ready", "error"}, hit : BOOLEAN]
          BY <4>2 DEF ProvInv, CallOK
      <4> QED BY <2>1, <4>1, <4>3 DEF ProvInv, CallOK
    <3>2. CASE KeycloakDown(q) \/ CrashOrg(q)
        BY <3>2 DEF KeycloakDown, CrashOrg, ProvInv, CallOK
    <3>3. ASSUME NEW n \in Names, BeginOrg(q, n) PROVE CallOK'
        BY <3>3 DEF BeginOrg, NoCall, ProvInv, CallOK
    <3>4. CASE CreateRealm(q) \/ CreateClient(q) \/ InsertOrg(q)
        BY <3>4 DEF CreateRealm, CreateClient, InsertOrg, ProvInv, CallOK
    <3> QED BY <1>6, <3>1, <3>2, <3>3, <3>4
  <2> DEFINE Argued ==
          LET s == Slug[call'[q].name]
          IN  /\ call'[q].pc \in {"client", "insert"} \cup RowHeld => s \in realms'
              /\ call'[q].pc \in {"insert"} \cup RowHeld => s \in clients'
              /\ call'[q].pc \in RowHeld =>
                     /\ ~SlugTaken(s)
                     /\ \A p \in OrgRequests \ {q} :
                            call[p].pc \in RowHeld => Slug[call[p].name] # s
              /\ call'[q].pc = "refused" => call'[q].hit \/ SlugTaken(s)
  <2> USE DEF ProvInv, CallOK, MadeInKeycloak, SlugHeld, HeldAlone, SlugTaken, RowHeld
  <2>3. ASSUME CreateRealm(q) PROVE Argued
      BY <2>3 DEF CreateRealm
  <2>4. ASSUME CreateClient(q) PROVE Argued
      BY <2>4 DEF CreateClient
  <2>5. ASSUME InsertOrg(q) PROVE Argued
      BY <2>5 DEF InsertOrg
  <2>6. ASSUME MakeBucket(q) PROVE Argued
      BY <2>6 DEF MakeBucket
  <2>7. ASSUME KeycloakDown(q) PROVE Argued
      BY <2>7 DEF KeycloakDown
  <2>8. ASSUME CrashOrg(q) PROVE Argued
      BY <2>8 DEF CrashOrg
  <2>9. ASSUME NEW n \in Names, BeginOrg(q, n) PROVE Argued
      BY <2>9 DEF BeginOrg, NoCall
  <2> QED BY <1>6, <2>1, <2>2, <2>3, <2>4, <2>5, <2>6, <2>7, <2>8, <2>9, CallStep
<1> QED BY <1>2, <1>3, <1>4, <1>5, <1>6 DEF ProvNext, ProvStep

\* What create_organization has made in Keycloak by each of its steps, and
\* which slugs are taken, in every reachable state.
THEOREM ProvInvariant == ProvSpec => []ProvInv
<1> QED BY ProvInvInit, ProvInvNext, PTL DEF ProvSpec

\* Whatever fails and however requests overlap, a committed customer has realm
\* and client, and no two customers share a realm.
THEOREM CustomersHaveRealms == ProvSpec => []OrgHasRealm
<1> QED BY ProvInvariant, PTL DEF ProvInv

\* Nothing that earlier attempts left behind makes a later one fail.
THEOREM RefusalsHaveCause == ProvSpec => []RefusedForCause
<1> QED BY ProvInvariant, PTL DEF ProvInv

\* What the requests leave behind is of the kinds that the rows and Keycloak
\* have, and the customers are finitely many, so that their number is one.
ProvKept ==
    /\ realms \subseteq Slugs /\ clients \subseteq Slugs
    /\ buckets \subseteq Names
    /\ orgs \subseteq OrgRow /\ IsFiniteSet(orgs)
    /\ projects \subseteq [org : Names, status : {"ready", "error"}]
    /\ prov_faults \in 0 .. MaxProvFaults

LEMMA ProvKeptInit == ProvInit => ProvKept
BY FS_EmptySet, ProvisioningAssumption DEF ProvInit, ProvKept

LEMMA ProvKeptNext == CallOK /\ ProvKept /\ [ProvNext]_provVars => ProvKept'
<1> SUFFICES ASSUME CallOK, ProvKept, [ProvNext]_provVars PROVE ProvKept'
    OBVIOUS
<1> USE DEF Provisioned, CallMoves
<1>1. CASE UNCHANGED provVars
    BY <1>1 DEF provVars, ProvKept
<1>2. CASE Seed
  <2> DEFINE row == [id |-> 0, name |-> SeedName, bucket_status |-> "none", seeded |-> TRUE]
  <2>1. row \in OrgRow
      BY ProvisioningAssumption DEF OrgRow
  <2>2. orgs' = {row} /\ UNCHANGED <<buckets, projects, prov_faults>>
      BY <1>2 DEF Seed
  <2>3. IsFiniteSet(orgs')
      BY <2>2, FS_Singleton
  <2>4. Slug[SeedName] \in Slugs
      BY ProvisioningAssumption DEF Slugs
  <2>5. realms' \subseteq Slugs /\ clients' \subseteq Slugs
      BY <1>2, <2>4 DEF Seed, ProvKept
  <2> QED BY <2>1, <2>2, <2>3, <2>5 DEF ProvKept
<1>3. ASSUME NEW o \in orgs, CreateProject(o) PROVE ProvKept'
  <2>1. o.name \in Names
      BY DEF ProvKept, OrgRow
  <2> QED BY <1>3, <2>1 DEF CreateProject, ProvKept
<1>4. ASSUME NEW q \in OrgRequests, CommitOrg(q) PROVE ProvKept'
  <2> DEFINE row == [id |-> Cardinality(orgs), name |-> call[q].name,
                     bucket_status |-> call[q].bucket, seeded |-> FALSE]
  <2>1. Cardinality(orgs) \in Nat
      BY FS_CardinalityType DEF ProvKept
  <2>2. row \in OrgRow
      BY <2>1 DEF OrgRow, CallOK
  <2>3. orgs' = orgs \cup {row}
      BY <1>4 DEF CommitOrg
  <2> HIDE DEF row
  <2>4. IsFiniteSet(orgs')
      BY <2>3, FS_AddElement DEF ProvKept
  <2>5. UNCHANGED <<realms, clients, buckets, projects, prov_faults>>
      BY <1>4 DEF CommitOrg
  <2> QED BY <2>2, <2>3, <2>4, <2>5 DEF ProvKept
<1>5. ASSUME NEW q \in OrgRequests, CreateRealm(q) \/ CreateClient(q) PROVE ProvKept'
  <2>1. Slug[call[q].name] \in Slugs
      BY DEF CallOK, Slugs
  <2>2. CASE CreateRealm(q)
      BY <2>1, <2>2 DEF CreateRealm, ProvKept
  <2>3. CASE CreateClient(q)
      BY <2>1, <2>3 DEF CreateClient, ProvKept
  <2> QED BY <1>5, <2>2, <2>3
<1>6. ASSUME NEW q \in OrgRequests, MakeBucket(q) PROVE ProvKept'
  <2>1. call[q].name \in Names
      BY DEF CallOK
  <2> QED BY <1>6, <2>1, ProvisioningAssumption DEF MakeBucket, ProvKept
<1>7. ASSUME NEW q \in OrgRequests,
             \/ InsertOrg(q) \/ KeycloakDown(q) \/ CrashOrg(q)
             \/ \E n \in Names : BeginOrg(q, n)
      PROVE  ProvKept'
  <2>1. UNCHANGED <<Provisioned, orgs, projects>>
      BY <1>7 DEF InsertOrg, KeycloakDown, CrashOrg, BeginOrg
  <2>2. prov_faults' = prov_faults \/ (prov_faults < MaxProvFaults /\ prov_faults' = prov_faults + 1)
      BY <1>7 DEF InsertOrg, KeycloakDown, CrashOrg, BeginOrg
  <2> QED BY <2>1, <2>2, ProvisioningAssumption DEF ProvKept
<1> QED BY <1>1, <1>2, <1>3, <1>4, <1>5, <1>6, <1>7 DEF ProvNext, ProvStep

\* The rows, realms and requests of provisioning stay in range.
THEOREM ProvTyped == ProvSpec => []ProvTypeOK
<1>1. CallOK /\ ProvKept => ProvTypeOK
    BY DEF CallOK, ProvKept, ProvTypeOK
<1>2. ProvSpec => []CallOK
    BY ProvInvariant, PTL DEF ProvInv
<1> QED BY <1>1, <1>2, ProvKeptInit, ProvKeptNext, PTL DEF ProvSpec

-----------------------------------------------------------------------------
(* Accounts.                                                               *)

\* The update of row k that a request is in.
Updates(q, k) == acall[q].op = "update" /\ acall[q].k = k

Mirrored(on) == IF on THEN "enabled" ELSE "disabled"

\* users.keycloak_sub is unique.
SubsUnique ==
    \A i, j \in DOMAIN rows : rows[i].sub = rows[j].sub /\ rows[i].sub # NoSub => i = j

\* What a request that is between Keycloak and the database holds: an account
\* that was made, or a row; and the CLI's row keeps the CLI's account.
RequestsHold ==
    \A q \in Calls :
        /\ acall[q].op \in {"create", "agent"} =>
               /\ acall[q].pc \in {"keycloak", "insert"}
               /\ acall[q].pc = "keycloak" => acall[q].sub # NoSub
               /\ acall[q].pc = "insert" /\ acall[q].sub # NoSub =>
                      account[acall[q].sub] # "absent"
        /\ acall[q].op = "update" =>
               /\ acall[q].k \in DOMAIN rows
               /\ acall[q].pc \in {"mirror", "write"}
               /\ acall[q].pc = "mirror" => acall[q].sub # NoSub
               /\ acall[q].sub = ServiceSub => rows[acall[q].k].sub = ServiceSub

\* An account is disabled only by an update, so some row is there, and the
\* service account only by one of the row that has it.
DisabledHasRow ==
    /\ (\E x \in Subjects : account[x] = "disabled") => rows # <<>>
    /\ account[ServiceSub] = "disabled" => RowsWithSub(ServiceSub) # {}

\* A row that nothing left behind is updated by one request at a time, which
\* has its account, and no other request has that account.
OneUpdater ==
    \A k \in DOMAIN rows \ drifted.rows :
        /\ \A p, q \in Calls : Updates(p, k) /\ Updates(q, k) => p = q
        /\ \A q \in Calls : Updates(q, k) => acall[q].sub = rows[k].sub
        /\ \A q \in Calls :
               acall[q].op = "update" /\ acall[q].sub = rows[k].sub /\ rows[k].sub # NoSub
                 => acall[q].k = k

\* Its account is as the row says, or as the update says that has told
\* Keycloak and not written yet.
AgreesSoFar ==
    \A k \in DOMAIN rows \ drifted.rows :
        rows[k].sub # NoSub =>
            /\ (\A q \in Calls : Updates(q, k) => acall[q].pc = "mirror") =>
                   account[rows[k].sub] = Mirrored(rows[k].active)
            /\ \A q \in Calls :
                   Updates(q, k) /\ acall[q].pc = "write" =>
                       account[rows[k].sub] = Mirrored(acall[q].on)

\* The inductive invariant of both properties.
AccountsInv ==
    /\ AccountsTypeOK
    /\ SubsUnique
    /\ RequestsHold
    /\ DisabledHasRow
    /\ OneUpdater
    /\ AgreesSoFar

\* Subjects are pairs, the service account's is one of them.
LEMMA SubjectFacts ==
    /\ NoSub \notin Subjects
    /\ ServiceSub \in Subjects /\ ServiceSub # NoSub
    /\ \A e \in Emails, r \in Realms : <<r, e>> \in Subjects /\ <<r, e>> # NoSub
<1>1. \A x \in Subjects : x # NoSub
      BY DEF Subjects, ServiceSub, NoSub
<1> QED BY <1>1 DEF Subjects

\* The types of the parts of a state.
LEMMA RowFacts ==
    ASSUME AccountsTypeOK
    PROVE  /\ DOMAIN rows = 1 .. Len(rows) /\ Len(rows) \in 0 .. MaxRows /\ Len(rows) \in Nat
           /\ rows \in [1 .. Len(rows) -> UserRows]
           /\ \A k \in DOMAIN rows : /\ rows[k] \in UserRows
                                     /\ rows[k].sub \in Subjects \cup {NoSub}
                                     /\ rows[k].active \in BOOLEAN
           /\ \A q \in Calls : /\ acall[q] \in UserRequests
                               /\ acall[q].sub \in Subjects \cup {NoSub}
                               /\ acall[q].on \in BOOLEAN
           /\ \A x \in Subjects : account[x] \in {"absent", "enabled", "disabled"}
           /\ NoAcall \in UserRequests /\ NoAcall.op = "none"
<1>1. rows \in Seq(UserRows) /\ Len(rows) <= MaxRows
      BY DEF AccountsTypeOK
<1>2. /\ DOMAIN rows = 1 .. Len(rows) /\ Len(rows) \in 0 .. MaxRows /\ Len(rows) \in Nat
      /\ rows \in [1 .. Len(rows) -> UserRows]
      BY <1>1, LenProperties, AccountsAssumption
<1>3. NoAcall \in UserRequests /\ NoAcall.op = "none"
      BY AccountsAssumption DEF NoAcall, UserRequests
<1> QED BY <1>2, <1>3 DEF AccountsTypeOK, UserRows, UserRequests

\* An account that is asked for is there afterwards, and others are as before.
LEMMA MadeFacts ==
    ASSUME AccountsTypeOK, NEW x \in Subjects
    PROVE  /\ MadeIfAbsent(x) \in [Subjects -> {"absent", "enabled", "disabled"}]
           /\ MadeIfAbsent(x)[x] # "absent"
           /\ account[x] # "disabled" => MadeIfAbsent(x)[x] = "enabled"
           /\ \A y \in Subjects :
                  /\ account[y] # "absent" => MadeIfAbsent(x)[y] = account[y]
                  /\ MadeIfAbsent(x)[y] = "disabled" => account[y] = "disabled"
BY DEF MadeIfAbsent, AccountsTypeOK

\* No account is taken away or disabled.
Grown == /\ account' \in [Subjects -> {"absent", "enabled", "disabled"}]
         /\ \A y \in Subjects : /\ account[y] # "absent" => account'[y] = account[y]
                                /\ account'[y] = "disabled" => account[y] = "disabled"

\* A request that is no update moves on: rows and updates stand.
LEMMA NoUpdateMoves ==
    ASSUME AccountsInv, NEW q \in Calls, NEW c \in UserRequests,
           rows' = rows, Grown, acall' = [acall EXCEPT ![q] = c],
           drifted'.rows = drifted.rows,
           drifted' \in [rows : SUBSET (1 .. MaxRows), faults : 0 .. MaxDrifts],
           acall[q].op # "update", c.op # "update",
           c.op \in {"create", "agent"} =>
               /\ c.pc \in {"keycloak", "insert"}
               /\ c.pc = "keycloak" => c.sub # NoSub
               /\ c.pc = "insert" /\ c.sub # NoSub => account'[c.sub] # "absent"
    PROVE  AccountsInv'
<1>1. AccountsTypeOK
      BY DEF AccountsInv
<1>2. AccountsTypeOK'
      BY <1>1 DEF AccountsTypeOK, Grown
<1>3. SubsUnique'
      BY DEF AccountsInv, SubsUnique
<1>4. /\ acall'[q] = c
      /\ \A p \in Calls : p # q => acall'[p] = acall[p]
      /\ \A p \in Calls : acall'[p].op = "update" => p # q /\ acall'[p] = acall[p]
      BY <1>1 DEF AccountsTypeOK
<1>5. RequestsHold'
  <2>1. SUFFICES ASSUME NEW p \in Calls
                 PROVE  /\ acall'[p].op \in {"create", "agent"} =>
                              /\ acall'[p].pc \in {"keycloak", "insert"}
                              /\ acall'[p].pc = "keycloak" => acall'[p].sub # NoSub
                              /\ acall'[p].pc = "insert" /\ acall'[p].sub # NoSub =>
                                     account'[acall'[p].sub] # "absent"
                        /\ acall'[p].op = "update" =>
                              /\ acall'[p].k \in DOMAIN rows'
                              /\ acall'[p].pc \in {"mirror", "write"}
                              /\ acall'[p].pc = "mirror" => acall'[p].sub # NoSub
                              /\ acall'[p].sub = ServiceSub => rows'[acall'[p].k].sub = ServiceSub
        BY DEF RequestsHold
  <2>2. CASE p = q
        BY <1>4, <2>2
  <2>3. CASE p # q
    <3>1. acall'[p] = acall[p] /\ acall[p].sub \in Subjects \cup {NoSub}
          BY <1>1, <1>4, <2>3, RowFacts
    <3> QED BY <3>1 DEF AccountsInv, RequestsHold, Grown
  <2> QED BY <2>2, <2>3
<1>6. DisabledHasRow'
      BY SubjectFacts DEF AccountsInv, DisabledHasRow, RowsWithSub, Grown
<1>7. \A p \in Calls, k \in DOMAIN rows : Updates(p, k)' <=> Updates(p, k)
      BY <1>4 DEF Updates
<1>8. OneUpdater'
      BY <1>4, <1>7 DEF AccountsInv, OneUpdater, Updates
<1>9. AgreesSoFar'
  <2>1. SUFFICES ASSUME NEW k \in DOMAIN rows \ drifted.rows, rows[k].sub # NoSub
                 PROVE  /\ (\A p \in Calls : Updates(p, k)' => acall'[p].pc = "mirror") =>
                              account'[rows[k].sub] = Mirrored(rows[k].active)
                        /\ \A p \in Calls :
                              Updates(p, k)' /\ acall'[p].pc = "write" =>
                                  account'[rows[k].sub] = Mirrored(acall'[p].on)
        BY DEF AgreesSoFar, Mirrored
  <2>2. rows[k].sub \in Subjects
        BY <1>1, <2>1, RowFacts
  <2>3. \A on : account[rows[k].sub] = Mirrored(on) => account'[rows[k].sub] = Mirrored(on)
        BY <2>2 DEF Grown, Mirrored
  <2>4. /\ (\A p \in Calls : Updates(p, k) => acall[p].pc = "mirror") =>
                 account[rows[k].sub] = Mirrored(rows[k].active)
        /\ \A p \in Calls :
                 Updates(p, k) /\ acall[p].pc = "write" =>
                     account[rows[k].sub] = Mirrored(acall[p].on)
        BY <2>1 DEF AccountsInv, AgreesSoFar
  <2>5. \A p \in Calls : Updates(p, k) => acall'[p] = acall[p]
        BY <1>4 DEF Updates
  <2> QED BY <1>4, <1>7, <2>1, <2>3, <2>4, <2>5 DEF Updates
<1> QED BY <1>2, <1>3, <1>5, <1>6, <1>8, <1>9 DEF AccountsInv

\* A new row takes no account that a row has, and is its only user; nobody
\* updates it yet.
LEMMA NewRow ==
    ASSUME AccountsInv, NEW e \in Emails, NEW x \in Subjects \cup {NoSub}, HasRoomForUser,
           rows' = Append(rows, UserRow(e, x)), Grown,
           drifted' \in [rows : SUBSET (1 .. MaxRows), faults : 0 .. MaxDrifts],
           drifted.rows \subseteq drifted'.rows,
           acall' \in [Calls -> UserRequests],
           \A p \in Calls : \/ acall'[p] = acall[p]
                            \/ acall[p].op # "update" /\ acall'[p] = NoAcall,
           x # NoSub => /\ RowsWithSub(x) = {}
                        /\ \/ Len(rows) + 1 \in drifted'.rows
                           \/ /\ account'[x] = "enabled"
                              /\ \A p \in Calls : acall[p].op = "update" => acall[p].sub # x
    PROVE  AccountsInv'
<1> DEFINE new == Len(rows) + 1
<1>1. /\ AccountsTypeOK
      /\ DOMAIN rows = 1 .. Len(rows) /\ Len(rows) \in 0 .. MaxRows /\ Len(rows) < MaxRows
      /\ \A k \in DOMAIN rows : rows[k].sub \in Subjects \cup {NoSub}
      BY RowFacts DEF AccountsInv, HasRoomForUser
<1>2. PICK row \in UserRows : row = UserRow(e, x)
      BY DEF UserRow, UserRows
<1>3. row.sub = x /\ row.active = TRUE
      BY <1>2 DEF UserRow
<1>4. /\ rows' \in Seq(UserRows) /\ Len(rows') = Len(rows) + 1
      /\ DOMAIN rows' = 1 .. Len(rows) + 1
      /\ \A k \in DOMAIN rows : rows'[k] = rows[k]
      /\ rows'[new] = row
  <2>1. rows \in Seq(UserRows) /\ rows' = Append(rows, row)
        BY <1>1, <1>2 DEF AccountsTypeOK
  <2>2. rows' \in Seq(UserRows) /\ Len(rows') = Len(rows) + 1
        BY <2>1, AppendProperties
  <2> QED BY <1>1, <2>1, <2>2, AppendProperties, LenProperties
<1>5. \A k \in DOMAIN rows' : k \in DOMAIN rows \/ k = new
      BY <1>1, <1>4
<1>6. /\ DOMAIN rows \subseteq DOMAIN rows' /\ new \in DOMAIN rows' /\ new \notin DOMAIN rows
      BY <1>1, <1>4
<1>7. AccountsTypeOK'
  <2>1. Len(rows') <= MaxRows
        BY <1>1, <1>4, AccountsAssumption
  <2> QED BY <1>4, <2>1 DEF AccountsTypeOK, Grown
<1>8. \A k \in DOMAIN rows : x # NoSub => rows[k].sub # x
      BY DEF RowsWithSub
<1>9. SubsUnique'
      BY <1>3, <1>4, <1>5, <1>8 DEF AccountsInv, SubsUnique
<1>10. \A p \in Calls : acall'[p].op # "none" => acall'[p] = acall[p]
      BY RowFacts, <1>1
<1>11. RequestsHold'
  <2>1. SUFFICES ASSUME NEW p \in Calls, acall'[p].op # "none"
                 PROVE  /\ acall'[p].op \in {"create", "agent"} =>
                              /\ acall'[p].pc \in {"keycloak", "insert"}
                              /\ acall'[p].pc = "keycloak" => acall'[p].sub # NoSub
                              /\ acall'[p].pc = "insert" /\ acall'[p].sub # NoSub =>
                                     account'[acall'[p].sub] # "absent"
                        /\ acall'[p].op = "update" =>
                              /\ acall'[p].k \in DOMAIN rows'
                              /\ acall'[p].pc \in {"mirror", "write"}
                              /\ acall'[p].pc = "mirror" => acall'[p].sub # NoSub
                              /\ acall'[p].sub = ServiceSub => rows'[acall'[p].k].sub = ServiceSub
        BY DEF RequestsHold
  <2>2. acall'[p] = acall[p] /\ acall[p].sub \in Subjects \cup {NoSub}
        BY <1>1, <1>10, <2>1, RowFacts
  <2> QED BY <1>4, <1>6, <2>2 DEF AccountsInv, RequestsHold, Grown
<1>12. DisabledHasRow'
  <2>1. rows' # <<>>
        BY <1>6
  <2>2. account'[ServiceSub] = "disabled" => RowsWithSub(ServiceSub)' # {}
    <3>1. SUFFICES ASSUME account'[ServiceSub] = "disabled"
                   PROVE  \E k \in DOMAIN rows' : rows'[k].sub = ServiceSub
          BY DEF RowsWithSub
    <3>2. account[ServiceSub] = "disabled"
          BY <3>1, SubjectFacts DEF Grown
    <3>3. PICK k \in DOMAIN rows : rows[k].sub = ServiceSub
          BY <3>2 DEF AccountsInv, DisabledHasRow, RowsWithSub
    <3> QED BY <1>4, <1>6, <3>3
  <2> QED BY <2>1, <2>2 DEF DisabledHasRow
<1>13. \A p \in Calls : \A k : Updates(p, k)' => Updates(p, k) /\ acall'[p] = acall[p] /\ k \in DOMAIN rows
      BY <1>10 DEF Updates, AccountsInv, RequestsHold
<1>14. OneUpdater'
  <2>1. SUFFICES ASSUME NEW k \in DOMAIN rows' \ drifted'.rows
                 PROVE  /\ \A p, q \in Calls : Updates(p, k)' /\ Updates(q, k)' => p = q
                        /\ \A q \in Calls : Updates(q, k)' => acall'[q].sub = rows'[k].sub
                        /\ \A q \in Calls :
                               acall'[q].op = "update" /\ acall'[q].sub = rows'[k].sub
                                 /\ rows'[k].sub # NoSub => acall'[q].k = k
        BY DEF OneUpdater
  <2>2. CASE k \in DOMAIN rows
    <3>1. rows'[k] = rows[k] /\ k \in DOMAIN rows \ drifted.rows
          BY <1>4, <2>1, <2>2
    <3> QED BY <1>10, <1>13, <3>1 DEF AccountsInv, OneUpdater
  <2>3. CASE k = new
    <3>1. rows'[k].sub = x /\ new \notin drifted'.rows
          BY <1>3, <1>4, <2>1, <2>3
    <3>2. \A q \in Calls : ~Updates(q, k)'
          BY <1>6, <1>13, <2>3
    <3> QED BY <1>10, <3>1, <3>2
  <2> QED BY <1>5, <2>2, <2>3
<1>15. AgreesSoFar'
  <2>1. SUFFICES ASSUME NEW k \in DOMAIN rows' \ drifted'.rows, rows'[k].sub # NoSub
                 PROVE  /\ (\A p \in Calls : Updates(p, k)' => acall'[p].pc = "mirror") =>
                              account'[rows'[k].sub] = Mirrored(rows'[k].active)
                        /\ \A p \in Calls :
                              Updates(p, k)' /\ acall'[p].pc = "write" =>
                                  account'[rows'[k].sub] = Mirrored(acall'[p].on)
        BY DEF AgreesSoFar, Mirrored
  <2>2. CASE k \in DOMAIN rows
    <3>1. rows'[k] = rows[k] /\ k \in DOMAIN rows \ drifted.rows /\ rows[k].sub \in Subjects
          BY <1>1, <1>4, <2>1, <2>2
    <3>2. \A on : account[rows[k].sub] = Mirrored(on) => account'[rows[k].sub] = Mirrored(on)
          BY <3>1 DEF Grown, Mirrored
    <3>3. /\ (\A p \in Calls : Updates(p, k) => acall[p].pc = "mirror") =>
                   account[rows[k].sub] = Mirrored(rows[k].active)
          /\ \A p \in Calls :
                   Updates(p, k) /\ acall[p].pc = "write" =>
                       account[rows[k].sub] = Mirrored(acall[p].on)
          BY <2>1, <3>1 DEF AccountsInv, AgreesSoFar
    <3>4. \A p \in Calls : Updates(p, k) => Updates(p, k)' /\ acall'[p] = acall[p]
          BY <1>1, RowFacts DEF Updates
    <3> QED BY <1>13, <3>1, <3>2, <3>3, <3>4
  <2>3. CASE k = new
    <3>1. rows'[k].sub = x /\ rows'[k].active = TRUE /\ new \notin drifted'.rows
          BY <1>3, <1>4, <2>1, <2>3
    <3>2. \A q \in Calls : ~Updates(q, k)'
          BY <1>6, <1>13, <2>3
    <3>3. account'[x] = "enabled"
          BY <2>1, <3>1
    <3> QED BY <3>1, <3>2, <3>3 DEF Mirrored
  <2> QED BY <1>5, <2>2, <2>3
<1> QED BY <1>7, <1>9, <1>11, <1>12, <1>14, <1>15 DEF AccountsInv

\* provision_cli_user.py gives one row the service account and makes it active.
LEMMA RowLinked ==
    ASSUME AccountsInv, NEW k0 \in DOMAIN rows,
           \A k \in DOMAIN rows : k # k0 => rows[k].sub # ServiceSub,
           rows' \in Seq(UserRows), Len(rows') = Len(rows), DOMAIN rows' = DOMAIN rows,
           rows'[k0].sub = ServiceSub, rows'[k0].active = TRUE,
           \A k \in DOMAIN rows : k # k0 => rows'[k] = rows[k],
           account' = MadeIfAbsent(ServiceSub), acall' = acall,
           drifted' \in [rows : SUBSET (1 .. MaxRows), faults : 0 .. MaxDrifts],
           drifted.rows \subseteq drifted'.rows,
           account[ServiceSub] = "disabled" \/ Updating(k0) => k0 \in drifted'.rows
    PROVE  AccountsInv'
<1>1. /\ AccountsTypeOK
      /\ DOMAIN rows = 1 .. Len(rows) /\ Len(rows) \in 0 .. MaxRows
      /\ rows \in [1 .. Len(rows) -> UserRows]
      /\ \A k \in DOMAIN rows : rows[k].sub \in Subjects \cup {NoSub}
      BY RowFacts DEF AccountsInv
<1>2. Grown /\ (account[ServiceSub] # "disabled" => account'[ServiceSub] = "enabled")
      BY <1>1, MadeFacts, SubjectFacts DEF Grown
<1>3. AccountsTypeOK'
      BY <1>1, <1>2 DEF AccountsTypeOK, Grown
<1>4. SubsUnique'
      BY DEF AccountsInv, SubsUnique
<1>5. \A k \in DOMAIN rows : rows[k].sub = ServiceSub => rows'[k].sub = ServiceSub
      OBVIOUS
<1>6. RequestsHold'
  <2>1. SUFFICES ASSUME NEW p \in Calls
                 PROVE  /\ acall[p].op \in {"create", "agent"} =>
                              /\ acall[p].pc \in {"keycloak", "insert"}
                              /\ acall[p].pc = "keycloak" => acall[p].sub # NoSub
                              /\ acall[p].pc = "insert" /\ acall[p].sub # NoSub =>
                                     account'[acall[p].sub] # "absent"
                        /\ acall[p].op = "update" =>
                              /\ acall[p].k \in DOMAIN rows'
                              /\ acall[p].pc \in {"mirror", "write"}
                              /\ acall[p].pc = "mirror" => acall[p].sub # NoSub
                              /\ acall[p].sub = ServiceSub => rows'[acall[p].k].sub = ServiceSub
        BY DEF RequestsHold
  <2>2. acall[p].sub \in Subjects \cup {NoSub}
        BY <1>1, RowFacts
  <2> QED BY <1>2, <1>5, <2>2 DEF AccountsInv, RequestsHold, Grown
<1>7. DisabledHasRow'
  <2>1. rows' # <<>>
        OBVIOUS
  <2>2. RowsWithSub(ServiceSub)' # {}
        BY DEF RowsWithSub
  <2> QED BY <2>1, <2>2 DEF DisabledHasRow
<1>8. \A p \in Calls : \A k : Updates(p, k)' <=> Updates(p, k)
      BY DEF Updates
<1>9. k0 \notin drifted'.rows => \A q \in Calls : ~Updates(q, k0)
      BY DEF Updating, Updates
<1>10. OneUpdater'
  <2>1. SUFFICES ASSUME NEW k \in DOMAIN rows \ drifted'.rows
                 PROVE  /\ \A p, q \in Calls : Updates(p, k) /\ Updates(q, k) => p = q
                        /\ \A q \in Calls : Updates(q, k) => acall[q].sub = rows'[k].sub
                        /\ \A q \in Calls :
                               acall[q].op = "update" /\ acall[q].sub = rows'[k].sub
                                 /\ rows'[k].sub # NoSub => acall[q].k = k
        BY <1>8 DEF OneUpdater
  <2>2. CASE k # k0
    <3>1. rows'[k] = rows[k] /\ k \in DOMAIN rows \ drifted.rows
          BY <2>1, <2>2
    <3> QED BY <3>1 DEF AccountsInv, OneUpdater
  <2>3. CASE k = k0
    <3>1. \A q \in Calls : acall[q].op = "update" /\ acall[q].sub = ServiceSub => acall[q].k = k0
          BY DEF AccountsInv, RequestsHold
    <3> QED BY <1>9, <2>1, <2>3, <3>1
  <2> QED BY <2>2, <2>3
<1>11. AgreesSoFar'
  <2>1. SUFFICES ASSUME NEW k \in DOMAIN rows \ drifted'.rows, rows'[k].sub # NoSub
                 PROVE  /\ (\A p \in Calls : Updates(p, k) => acall[p].pc = "mirror") =>
                              account'[rows'[k].sub] = Mirrored(rows'[k].active)
                        /\ \A p \in Calls :
                              Updates(p, k) /\ acall[p].pc = "write" =>
                                  account'[rows'[k].sub] = Mirrored(acall[p].on)
        BY <1>8 DEF AgreesSoFar, Mirrored
  <2>2. CASE k # k0
    <3>1. rows'[k] = rows[k] /\ k \in DOMAIN rows \ drifted.rows /\ rows[k].sub \in Subjects
          BY <1>1, <2>1, <2>2
    <3>2. \A on : account[rows[k].sub] = Mirrored(on) => account'[rows[k].sub] = Mirrored(on)
          BY <1>2, <3>1 DEF Grown, Mirrored
    <3>3. /\ (\A p \in Calls : Updates(p, k) => acall[p].pc = "mirror") =>
                   account[rows[k].sub] = Mirrored(rows[k].active)
          /\ \A p \in Calls :
                   Updates(p, k) /\ acall[p].pc = "write" =>
                       account[rows[k].sub] = Mirrored(acall[p].on)
          BY <2>1, <3>1 DEF AccountsInv, AgreesSoFar
    <3> QED BY <3>1, <3>2, <3>3
  <2>3. CASE k = k0
        BY <1>2, <1>9, <2>1, <2>3 DEF Mirrored
  <2> QED BY <2>2, <2>3
<1> QED BY <1>3, <1>4, <1>6, <1>7, <1>10, <1>11 DEF AccountsInv

\* What the invariant says of a row that nothing left behind.
LEMMA RowAgrees ==
    ASSUME AccountsInv, NEW k \in DOMAIN rows \ drifted.rows
    PROVE  /\ \A p, q \in Calls : Updates(p, k) /\ Updates(q, k) => p = q
           /\ \A q \in Calls : Updates(q, k) => acall[q].sub = rows[k].sub
           /\ \A q \in Calls :
                  acall[q].op = "update" /\ acall[q].sub = rows[k].sub /\ rows[k].sub # NoSub
                    => acall[q].k = k
           /\ rows[k].sub # NoSub =>
                  /\ (\A q \in Calls : Updates(q, k) => acall[q].pc = "mirror") =>
                         account[rows[k].sub] = Mirrored(rows[k].active)
                  /\ \A q \in Calls :
                         Updates(q, k) /\ acall[q].pc = "write" =>
                             account[rows[k].sub] = Mirrored(acall[q].on)
BY DEF AccountsInv, OneUpdater, AgreesSoFar

\* An update reads its row.
LEMMA UpdateBegins ==
    ASSUME AccountsInv, NEW q \in Calls, NEW k \in DOMAIN rows, NEW c \in UserRequests,
           acall[q].op = "none", rows' = rows, account' = account,
           acall' = [acall EXCEPT ![q] = c],
           c.op = "update", c.k = k, c.sub = rows[k].sub,
           c.pc = IF rows[k].sub # NoSub THEN "mirror" ELSE "write",
           drifted' \in [rows : SUBSET (1 .. MaxRows), faults : 0 .. MaxDrifts],
           drifted.rows \subseteq drifted'.rows, Updating(k) => k \in drifted'.rows
    PROVE  AccountsInv'
<1>1. AccountsTypeOK
      BY DEF AccountsInv
<1>2. /\ acall' \in [Calls -> UserRequests] /\ acall'[q] = c
      /\ \A p \in Calls : p # q => acall'[p] = acall[p]
      BY <1>1 DEF AccountsTypeOK
<1>3. AccountsTypeOK'
      BY <1>1, <1>2 DEF AccountsTypeOK
<1>4. SubsUnique' /\ DisabledHasRow'
      BY DEF AccountsInv, SubsUnique, DisabledHasRow, RowsWithSub
<1>5. RequestsHold'
  <2>1. SUFFICES ASSUME NEW p \in Calls
                 PROVE  /\ acall'[p].op \in {"create", "agent"} =>
                              /\ acall'[p].pc \in {"keycloak", "insert"}
                              /\ acall'[p].pc = "keycloak" => acall'[p].sub # NoSub
                              /\ acall'[p].pc = "insert" /\ acall'[p].sub # NoSub =>
                                     account'[acall'[p].sub] # "absent"
                        /\ acall'[p].op = "update" =>
                              /\ acall'[p].k \in DOMAIN rows'
                              /\ acall'[p].pc \in {"mirror", "write"}
                              /\ acall'[p].pc = "mirror" => acall'[p].sub # NoSub
                              /\ acall'[p].sub = ServiceSub => rows'[acall'[p].k].sub = ServiceSub
        BY DEF RequestsHold
  <2>2. CASE p = q
        BY <1>2, <2>2
  <2>3. CASE p # q
        BY <1>2, <2>3 DEF AccountsInv, RequestsHold
  <2> QED BY <2>2, <2>3
<1>6. \A p \in Calls : \A j : Updates(p, j)' <=> IF p = q THEN j = k ELSE Updates(p, j)
      BY <1>2 DEF Updates
<1>7. \A j \in DOMAIN rows' \ drifted'.rows :
          /\ j \in DOMAIN rows \ drifted.rows
          /\ j = k => \A p \in Calls : ~Updates(p, k)
      BY DEF Updating, Updates
<1>8. OneUpdater'
  <2>1. SUFFICES ASSUME NEW j \in DOMAIN rows' \ drifted'.rows
                 PROVE  /\ \A p1, p2 \in Calls : Updates(p1, j)' /\ Updates(p2, j)' => p1 = p2
                        /\ \A p \in Calls : Updates(p, j)' => acall'[p].sub = rows'[j].sub
                        /\ \A p \in Calls :
                               acall'[p].op = "update" /\ acall'[p].sub = rows'[j].sub
                                 /\ rows'[j].sub # NoSub => acall'[p].k = j
        BY DEF OneUpdater
  <2>2. j \in DOMAIN rows \ drifted.rows /\ (j = k => \A p \in Calls : ~Updates(p, k))
        BY <1>7, <2>1
  <2>3. rows[k].sub = rows[j].sub /\ rows[j].sub # NoSub => k = j
        BY <2>2 DEF AccountsInv, SubsUnique
  <2> QED BY <1>2, <1>6, <2>2, <2>3, RowAgrees
<1>9. AgreesSoFar'
  <2>1. SUFFICES ASSUME NEW j \in DOMAIN rows' \ drifted'.rows, rows'[j].sub # NoSub
                 PROVE  /\ (\A p \in Calls : Updates(p, j)' => acall'[p].pc = "mirror") =>
                              account'[rows'[j].sub] = Mirrored(rows'[j].active)
                        /\ \A p \in Calls :
                              Updates(p, j)' /\ acall'[p].pc = "write" =>
                                  account'[rows'[j].sub] = Mirrored(acall'[p].on)
        BY DEF AgreesSoFar, Mirrored
  <2>2. j \in DOMAIN rows \ drifted.rows /\ (j = k => \A p \in Calls : ~Updates(p, k))
        BY <1>7, <2>1
  <2>3. CASE j = k
        BY <1>2, <1>6, <2>1, <2>2, <2>3, RowAgrees
  <2>4. CASE j # k
    <3>1. ~Updates(q, j)
          BY DEF Updates
    <3>2. \A p \in Calls : Updates(p, j)' <=> Updates(p, j) /\ acall'[p] = acall[p]
          BY <1>2, <1>6, <2>4, <3>1
    <3>3. \A p \in Calls : Updates(p, j) => Updates(p, j)'
          BY <1>2, <1>6, <2>4, <3>1
    <3> QED BY <2>1, <2>2, <3>2, <3>3, RowAgrees
  <2> QED BY <2>3, <2>4
<1> QED BY <1>3, <1>4, <1>5, <1>8, <1>9 DEF AccountsInv

\* Keycloak is told: only the row that is updated has the account.
LEMMA UpdateMirrors ==
    ASSUME AccountsInv, NEW q \in Calls, MirrorActive(q)
    PROVE  AccountsInv'
<1> DEFINE x == acall[q].sub
<1>1. /\ AccountsTypeOK /\ acall[q].op = "update" /\ acall[q].pc = "mirror"
      /\ rows' = rows /\ drifted' = drifted
      /\ x \in Subjects /\ acall[q].k \in DOMAIN rows
      /\ x = ServiceSub => rows[acall[q].k].sub = ServiceSub
  <2>1. acall[q].op = "update" /\ acall[q].pc = "mirror"
        BY DEF MirrorActive
  <2>2. AccountsTypeOK /\ x \in Subjects \cup {NoSub}
        BY RowFacts DEF AccountsInv
  <2>3. x # NoSub /\ acall[q].k \in DOMAIN rows /\ (x = ServiceSub => rows[acall[q].k].sub = ServiceSub)
        BY <2>1 DEF AccountsInv, RequestsHold
  <2> QED BY <2>1, <2>2, <2>3 DEF MirrorActive
<1>2. /\ account' \in [Subjects -> {"absent", "enabled", "disabled"}]
      /\ account'[x] = Mirrored(acall[q].on)
      /\ \A y \in Subjects : y # x => account'[y] = account[y]
      BY <1>1 DEF MirrorActive, AccountsTypeOK, Mirrored
<1>3. /\ acall' \in [Calls -> UserRequests]
      /\ acall'[q].op = "update" /\ acall'[q].k = acall[q].k /\ acall'[q].sub = x
      /\ acall'[q].on = acall[q].on /\ acall'[q].pc = "write"
      /\ \A p \in Calls : p # q => acall'[p] = acall[p]
      BY <1>1 DEF MirrorActive, AccountsTypeOK, UserRequests
<1>4. AccountsTypeOK'
      BY <1>1, <1>2, <1>3 DEF AccountsTypeOK
<1>5. SubsUnique'
      BY <1>1 DEF AccountsInv, SubsUnique
<1>6. RequestsHold'
  <2>1. SUFFICES ASSUME NEW p \in Calls
                 PROVE  /\ acall'[p].op \in {"create", "agent"} =>
                              /\ acall'[p].pc \in {"keycloak", "insert"}
                              /\ acall'[p].pc = "keycloak" => acall'[p].sub # NoSub
                              /\ acall'[p].pc = "insert" /\ acall'[p].sub # NoSub =>
                                     account'[acall'[p].sub] # "absent"
                        /\ acall'[p].op = "update" =>
                              /\ acall'[p].k \in DOMAIN rows'
                              /\ acall'[p].pc \in {"mirror", "write"}
                              /\ acall'[p].pc = "mirror" => acall'[p].sub # NoSub
                              /\ acall'[p].sub = ServiceSub => rows'[acall'[p].k].sub = ServiceSub
        BY DEF RequestsHold
  <2>2. CASE p = q
        BY <1>1, <1>3, <2>2
  <2>3. CASE p # q
    <3>1. acall'[p] = acall[p] /\ acall[p].sub \in Subjects \cup {NoSub}
          BY <1>1, <1>3, <2>3, RowFacts
    <3>2. account[acall[p].sub] # "absent" /\ acall[p].sub # NoSub => account'[acall[p].sub] # "absent"
          BY <1>2, <3>1 DEF Mirrored
    <3> QED BY <1>1, <3>1, <3>2 DEF AccountsInv, RequestsHold
  <2> QED BY <2>2, <2>3
<1>7. DisabledHasRow'
  <2>1. rows' # <<>>
        BY <1>1
  <2>2. account'[ServiceSub] = "disabled" => RowsWithSub(ServiceSub)' # {}
    <3>1. CASE x = ServiceSub
          BY <1>1, <3>1 DEF RowsWithSub
    <3>2. CASE x # ServiceSub
          BY <1>1, <1>2, <3>2, SubjectFacts DEF AccountsInv, DisabledHasRow, RowsWithSub
    <3> QED BY <3>1, <3>2
  <2> QED BY <2>1, <2>2 DEF DisabledHasRow
<1>8. \A p \in Calls : \A j : Updates(p, j)' <=> Updates(p, j)
      BY <1>1, <1>3 DEF Updates
<1>9. OneUpdater'
  <2>1. SUFFICES ASSUME NEW j \in DOMAIN rows' \ drifted'.rows
                 PROVE  /\ \A p1, p2 \in Calls : Updates(p1, j)' /\ Updates(p2, j)' => p1 = p2
                        /\ \A p \in Calls : Updates(p, j)' => acall'[p].sub = rows'[j].sub
                        /\ \A p \in Calls :
                               acall'[p].op = "update" /\ acall'[p].sub = rows'[j].sub
                                 /\ rows'[j].sub # NoSub => acall'[p].k = j
        BY DEF OneUpdater
  <2>2. j \in DOMAIN rows \ drifted.rows /\ rows'[j] = rows[j]
        BY <1>1, <2>1
  <2>3. \A p \in Calls : acall'[p].op = acall[p].op /\ acall'[p].sub = acall[p].sub
                          /\ acall'[p].k = acall[p].k
        BY <1>1, <1>3
  <2> QED BY <1>8, <2>2, <2>3, RowAgrees
<1>10. AgreesSoFar'
  <2>1. SUFFICES ASSUME NEW j \in DOMAIN rows' \ drifted'.rows, rows'[j].sub # NoSub
                 PROVE  /\ (\A p \in Calls : Updates(p, j)' => acall'[p].pc = "mirror") =>
                              account'[rows'[j].sub] = Mirrored(rows'[j].active)
                        /\ \A p \in Calls :
                              Updates(p, j)' /\ acall'[p].pc = "write" =>
                                  account'[rows'[j].sub] = Mirrored(acall'[p].on)
        BY DEF AgreesSoFar, Mirrored
  <2>2. j \in DOMAIN rows \ drifted.rows /\ rows'[j] = rows[j] /\ rows[j].sub \in Subjects
        BY <1>1, <2>1, RowFacts
  <2>3. CASE rows[j].sub = x
    <3>1. Updates(q, j)
          BY <1>1, <2>1, <2>2, <2>3, RowAgrees DEF Updates
    <3>2. \A p \in Calls : Updates(p, j)' => p = q
          BY <1>8, <2>2, <3>1, RowAgrees
    <3> QED BY <1>2, <1>3, <1>8, <2>2, <2>3, <3>1, <3>2
  <2>4. CASE rows[j].sub # x
    <3>1. ~Updates(q, j)
          BY <2>2, <2>4, RowAgrees
    <3>2. \A p \in Calls : Updates(p, j)' => Updates(p, j) /\ acall'[p] = acall[p]
          BY <1>3, <1>8, <3>1
    <3>3. \A p \in Calls : Updates(p, j) => Updates(p, j)' /\ acall'[p] = acall[p]
          BY <1>3, <1>8, <3>1
    <3>4. account'[rows[j].sub] = account[rows[j].sub]
          BY <1>2, <2>2, <2>4
    <3> QED BY <2>1, <2>2, <3>2, <3>3, <3>4, RowAgrees
  <2> QED BY <2>3, <2>4
<1> QED BY <1>4, <1>5, <1>6, <1>7, <1>9, <1>10 DEF AccountsInv

\* The row is written, and the account was told.
LEMMA UpdateWrites ==
    ASSUME AccountsInv, NEW q \in Calls, WriteUser(q)
    PROVE  AccountsInv'
<1> DEFINE k == acall[q].k
<1>1. /\ AccountsTypeOK /\ acall[q].op = "update" /\ acall[q].pc = "write"
      /\ account' = account /\ drifted' = drifted /\ k \in DOMAIN rows
      /\ acall' = [acall EXCEPT ![q] = NoAcall]
      BY DEF WriteUser, RequestEnds, AccountsInv, RequestsHold
<1>2. /\ DOMAIN rows = 1 .. Len(rows) /\ Len(rows) \in 0 .. MaxRows /\ Len(rows) \in Nat
      /\ rows \in [1 .. Len(rows) -> UserRows] /\ acall[q].on \in BOOLEAN
      BY <1>1, RowFacts
<1>3. /\ rows' \in [1 .. Len(rows) -> UserRows]
      /\ DOMAIN rows' = DOMAIN rows
      /\ \A j \in DOMAIN rows : /\ rows'[j].sub = rows[j].sub
                                /\ j # k => rows'[j] = rows[j]
      /\ rows'[k].active = acall[q].on
      BY <1>1, <1>2 DEF WriteUser, UserRows
<1>4. rows' \in Seq(UserRows) /\ Len(rows') = Len(rows)
  <2>1. rows' \in Seq(UserRows)
        BY <1>2, <1>3, SeqDef
  <2> QED BY <1>2, <1>3, <2>1, LenProperties
<1>5. /\ acall' \in [Calls -> UserRequests] /\ acall'[q] = NoAcall
      /\ \A p \in Calls : p # q => acall'[p] = acall[p]
      BY <1>1, RowFacts DEF AccountsTypeOK
<1>6. AccountsTypeOK'
      BY <1>1, <1>4, <1>5 DEF AccountsTypeOK
<1>7. SubsUnique'
      BY <1>3 DEF AccountsInv, SubsUnique
<1>8. RequestsHold'
  <2>1. SUFFICES ASSUME NEW p \in Calls
                 PROVE  /\ acall'[p].op \in {"create", "agent"} =>
                              /\ acall'[p].pc \in {"keycloak", "insert"}
                              /\ acall'[p].pc = "keycloak" => acall'[p].sub # NoSub
                              /\ acall'[p].pc = "insert" /\ acall'[p].sub # NoSub =>
                                     account'[acall'[p].sub] # "absent"
                        /\ acall'[p].op = "update" =>
                              /\ acall'[p].k \in DOMAIN rows'
                              /\ acall'[p].pc \in {"mirror", "write"}
                              /\ acall'[p].pc = "mirror" => acall'[p].sub # NoSub
                              /\ acall'[p].sub = ServiceSub => rows'[acall'[p].k].sub = ServiceSub
        BY DEF RequestsHold
  <2>2. CASE p = q
        BY <1>5, <2>2 DEF NoAcall
  <2>3. CASE p # q
        BY <1>1, <1>3, <1>5, <2>3 DEF AccountsInv, RequestsHold
  <2> QED BY <2>2, <2>3
<1>9. DisabledHasRow'
  <2>1. rows' # <<>>
        BY <1>1, <1>3
  <2>2. RowsWithSub(ServiceSub)' = RowsWithSub(ServiceSub)
        BY <1>3 DEF RowsWithSub
  <2> QED BY <1>1, <2>1, <2>2 DEF AccountsInv, DisabledHasRow
<1>10. \A p \in Calls : \A j : Updates(p, j)' <=> p # q /\ Updates(p, j)
      BY <1>5 DEF Updates, NoAcall
<1>11. OneUpdater'
  <2>1. SUFFICES ASSUME NEW j \in DOMAIN rows' \ drifted'.rows
                 PROVE  /\ \A p1, p2 \in Calls : Updates(p1, j)' /\ Updates(p2, j)' => p1 = p2
                        /\ \A p \in Calls : Updates(p, j)' => acall'[p].sub = rows'[j].sub
                        /\ \A p \in Calls :
                               acall'[p].op = "update" /\ acall'[p].sub = rows'[j].sub
                                 /\ rows'[j].sub # NoSub => acall'[p].k = j
        BY DEF OneUpdater
  <2>2. j \in DOMAIN rows \ drifted.rows /\ rows'[j].sub = rows[j].sub
        BY <1>1, <1>3, <2>1
  <2>3. \A p \in Calls : acall'[p].op = "update" => acall'[p] = acall[p]
        BY <1>5 DEF NoAcall
  <2> QED BY <1>5, <1>10, <2>2, <2>3, RowAgrees
<1>12. AgreesSoFar'
  <2>1. SUFFICES ASSUME NEW j \in DOMAIN rows' \ drifted'.rows, rows'[j].sub # NoSub
                 PROVE  /\ (\A p \in Calls : Updates(p, j)' => acall'[p].pc = "mirror") =>
                              account'[rows'[j].sub] = Mirrored(rows'[j].active)
                        /\ \A p \in Calls :
                              Updates(p, j)' /\ acall'[p].pc = "write" =>
                                  account'[rows'[j].sub] = Mirrored(acall'[p].on)
        BY DEF AgreesSoFar, Mirrored
  <2>2. j \in DOMAIN rows \ drifted.rows /\ rows'[j].sub = rows[j].sub
        BY <1>1, <1>3, <2>1
  <2>3. CASE j = k
    <3>1. Updates(q, j)
          BY <1>1, <2>3 DEF Updates
    <3>2. \A p \in Calls : ~Updates(p, j)'
          BY <1>10, <2>2, <3>1, RowAgrees
    <3>3. account[rows[j].sub] = Mirrored(acall[q].on)
          BY <1>1, <2>1, <2>2, <3>1, RowAgrees
    <3> QED BY <1>1, <1>3, <2>2, <2>3, <3>2, <3>3
  <2>4. CASE j # k
    <3>1. ~Updates(q, j)
          BY <2>4 DEF Updates
    <3>2. \A p \in Calls : Updates(p, j)' => Updates(p, j) /\ acall'[p] = acall[p]
          BY <1>5, <1>10
    <3>3. \A p \in Calls : Updates(p, j) => Updates(p, j)' /\ acall'[p] = acall[p]
          BY <1>5, <1>10, <3>1
    <3>4. rows'[j] = rows[j]
          BY <1>3, <2>2, <2>4
    <3> QED BY <1>1, <2>1, <2>2, <3>2, <3>3, <3>4, RowAgrees
  <2> QED BY <2>3, <2>4
<1> QED BY <1>6, <1>7, <1>8, <1>9, <1>11, <1>12 DEF AccountsInv

\* A fault leaves the row behind: nothing is claimed of it any more.
LEMMA UpdateLeftBehind ==
    ASSUME AccountsInv, NEW q \in Calls, NEW c \in UserRequests,
           acall[q].op = "update", rows' = rows, account' = account,
           acall' = [acall EXCEPT ![q] = c],
           \/ c = NoAcall
           \/ c = [acall[q] EXCEPT !.pc = "write"],
           drifted' \in [rows : SUBSET (1 .. MaxRows), faults : 0 .. MaxDrifts],
           drifted'.rows = drifted.rows \cup {acall[q].k}
    PROVE  AccountsInv'
<1>1. AccountsTypeOK /\ acall[q] \in UserRequests
      BY RowFacts DEF AccountsInv
<1>2. /\ acall' \in [Calls -> UserRequests] /\ acall'[q] = c
      /\ \A p \in Calls : p # q => acall'[p] = acall[p]
      BY <1>1 DEF AccountsTypeOK
<1>3. \/ c.op = "none"
      \/ /\ c.op = "update" /\ c.k = acall[q].k /\ c.sub = acall[q].sub
         /\ c.pc = "write"
      BY <1>1 DEF NoAcall, UserRequests
<1>4. AccountsTypeOK'
      BY <1>1, <1>2 DEF AccountsTypeOK
<1>5. SubsUnique' /\ DisabledHasRow'
      BY DEF AccountsInv, SubsUnique, DisabledHasRow, RowsWithSub
<1>6. RequestsHold'
  <2>1. SUFFICES ASSUME NEW p \in Calls
                 PROVE  /\ acall'[p].op \in {"create", "agent"} =>
                              /\ acall'[p].pc \in {"keycloak", "insert"}
                              /\ acall'[p].pc = "keycloak" => acall'[p].sub # NoSub
                              /\ acall'[p].pc = "insert" /\ acall'[p].sub # NoSub =>
                                     account'[acall'[p].sub] # "absent"
                        /\ acall'[p].op = "update" =>
                              /\ acall'[p].k \in DOMAIN rows'
                              /\ acall'[p].pc \in {"mirror", "write"}
                              /\ acall'[p].pc = "mirror" => acall'[p].sub # NoSub
                              /\ acall'[p].sub = ServiceSub => rows'[acall'[p].k].sub = ServiceSub
        BY DEF RequestsHold
  <2>2. CASE p = q
        BY <1>2, <1>3, <2>2 DEF AccountsInv, RequestsHold
  <2>3. CASE p # q
        BY <1>2, <2>3 DEF AccountsInv, RequestsHold
  <2> QED BY <2>2, <2>3
<1>7. ASSUME NEW j \in DOMAIN rows' \ drifted'.rows
      PROVE  /\ j \in DOMAIN rows \ drifted.rows /\ ~Updates(q, j)
             /\ \A p \in Calls : Updates(p, j)' => Updates(p, j) /\ acall'[p] = acall[p]
             /\ \A p \in Calls : Updates(p, j) => Updates(p, j)' /\ acall'[p] = acall[p]
  <2>1. j \in DOMAIN rows \ drifted.rows /\ j # acall[q].k
        OBVIOUS
  <2>2. ~Updates(q, j) /\ ~Updates(q, j)'
        BY <1>2, <1>3, <2>1 DEF Updates
  <2> QED BY <1>2, <2>1, <2>2 DEF Updates
<1>8. OneUpdater'
  <2>1. SUFFICES ASSUME NEW j \in DOMAIN rows' \ drifted'.rows
                 PROVE  /\ \A p1, p2 \in Calls : Updates(p1, j)' /\ Updates(p2, j)' => p1 = p2
                        /\ \A p \in Calls : Updates(p, j)' => acall'[p].sub = rows'[j].sub
                        /\ \A p \in Calls :
                               acall'[p].op = "update" /\ acall'[p].sub = rows'[j].sub
                                 /\ rows'[j].sub # NoSub => acall'[p].k = j
        BY DEF OneUpdater
  <2>2. \A p \in Calls : acall'[p].op = "update" =>
            acall[p].op = "update" /\ acall'[p].sub = acall[p].sub /\ acall'[p].k = acall[p].k
        BY <1>2, <1>3
  <2> QED BY <1>7, <2>1, <2>2, RowAgrees
<1>9. AgreesSoFar'
  <2>1. SUFFICES ASSUME NEW j \in DOMAIN rows' \ drifted'.rows, rows'[j].sub # NoSub
                 PROVE  /\ (\A p \in Calls : Updates(p, j)' => acall'[p].pc = "mirror") =>
                              account'[rows'[j].sub] = Mirrored(rows'[j].active)
                        /\ \A p \in Calls :
                              Updates(p, j)' /\ acall'[p].pc = "write" =>
                                  account'[rows'[j].sub] = Mirrored(acall'[p].on)
        BY DEF AgreesSoFar, Mirrored
  <2> QED BY <1>7, <2>1, RowAgrees
<1> QED BY <1>4, <1>5, <1>6, <1>8, <1>9 DEF AccountsInv

\* What a request that makes an account does.
LEMMA CreateStep ==
    ASSUME AccountsInv, NEW q \in Calls,
           \/ \E e \in Emails, r \in Realms : BeginCreate(q, e, r)
           \/ \E e \in Emails : BeginAgent(q, e)
           \/ CreateAccount(q) \/ AgentUnlinked(q) \/ CreateFails(q)
    PROVE  AccountsInv'
<1>1. /\ AccountsTypeOK /\ acall[q] \in UserRequests /\ acall[q].sub \in Subjects \cup {NoSub}
      /\ NoAcall \in UserRequests /\ NoAcall.op = "none"
      /\ drifted \in [rows : SUBSET (1 .. MaxRows), faults : 0 .. MaxDrifts]
      BY RowFacts DEF AccountsInv, AccountsTypeOK
<1>2. account' = account => Grown
      BY <1>1 DEF Grown, AccountsTypeOK
<1>3. ASSUME NEW e \in Emails, NEW x \in Subjects, NEW op \in {"create", "agent"},
             acall[q].op = "none",
             acall' = [acall EXCEPT ![q] = [NoAcall EXCEPT !.op = op, !.email = e,
                                                           !.sub = x, !.pc = "keycloak"]],
             rows' = rows, account' = account, drifted' = drifted
      PROVE  AccountsInv'
  <2>1. PICK c : c = [NoAcall EXCEPT !.op = op, !.email = e, !.sub = x, !.pc = "keycloak"]
        OBVIOUS
  <2>2. /\ c \in UserRequests /\ c.op = op /\ c.pc = "keycloak" /\ c.sub = x
        /\ acall' = [acall EXCEPT ![q] = c]
        BY <1>1, <1>3, <2>1 DEF UserRequests
  <2>3. x # NoSub
        BY SubjectFacts
  <2> QED BY <1>1, <1>2, <1>3, <2>2, <2>3, NoUpdateMoves
<1>4. ASSUME NEW e \in Emails, NEW r \in Realms, BeginCreate(q, e, r) PROVE AccountsInv'
  <2>1. <<r, e>> \in Subjects
        BY SubjectFacts
  <2> QED BY <1>3, <1>4, <2>1 DEF BeginCreate
<1>5. ASSUME NEW e \in Emails, BeginAgent(q, e) PROVE AccountsInv'
  <2>1. <<"doc", e>> \in Subjects
        BY SubjectFacts, AccountsAssumption
  <2> QED BY <1>3, <1>5, <2>1 DEF BeginAgent
<1>6. CASE CreateAccount(q)
  <2>1. /\ acall[q].op \in {"create", "agent"} /\ acall[q].pc = "keycloak"
        /\ account' = MadeIfAbsent(acall[q].sub) /\ rows' = rows /\ drifted' = drifted
        /\ acall' = [acall EXCEPT ![q].pc = "insert"]
        BY <1>6 DEF CreateAccount
  <2>2. acall[q].sub \in Subjects
        BY <1>1, <2>1 DEF AccountsInv, RequestsHold
  <2>3. Grown /\ account'[acall[q].sub] # "absent"
        BY <1>1, <2>1, <2>2, MadeFacts DEF Grown
  <2>4. PICK c : c = [acall[q] EXCEPT !.pc = "insert"]
        OBVIOUS
  <2>5. /\ c \in UserRequests /\ c.op = acall[q].op /\ c.pc = "insert" /\ c.sub = acall[q].sub
        /\ acall' = [acall EXCEPT ![q] = c]
        BY <1>1, <2>1, <2>4 DEF UserRequests, AccountsTypeOK
  <2>6. acall[q].op # "update" /\ c.op # "update"
        BY <2>1, <2>5
  <2>7. /\ c.op \in {"create", "agent"} =>
               /\ c.pc \in {"keycloak", "insert"}
               /\ c.pc = "keycloak" => c.sub # NoSub
               /\ c.pc = "insert" /\ c.sub # NoSub => account'[c.sub] # "absent"
        /\ drifted'.rows = drifted.rows
        /\ drifted' \in [rows : SUBSET (1 .. MaxRows), faults : 0 .. MaxDrifts]
        BY <1>1, <2>1, <2>3, <2>5
  <2> QED BY <2>1, <2>3, <2>5, <2>6, <2>7, NoUpdateMoves
<1>7. CASE AgentUnlinked(q)
  <2>1. /\ acall[q].op = "agent"
        /\ account' = account /\ rows' = rows /\ drifted' = drifted
        /\ acall' = [acall EXCEPT ![q].pc = "insert", ![q].sub = NoSub]
        BY <1>7 DEF AgentUnlinked
  <2>2. PICK c : c = [acall[q] EXCEPT !.pc = "insert", !.sub = NoSub]
        OBVIOUS
  <2>3. /\ c \in UserRequests /\ c.op = "agent" /\ c.pc = "insert" /\ c.sub = NoSub
        /\ acall' = [acall EXCEPT ![q] = c]
        BY <1>1, <2>1, <2>2 DEF UserRequests, AccountsTypeOK
  <2> QED BY <1>1, <1>2, <2>1, <2>3, NoUpdateMoves
<1>8. CASE CreateFails(q)
  <2>1. /\ acall[q].op \in {"create", "agent"} /\ drifted.faults < MaxDrifts
        /\ account' = account /\ rows' = rows
        /\ drifted' = [rows |-> drifted.rows \cup {}, faults |-> drifted.faults + 1]
        /\ acall' = [acall EXCEPT ![q] = NoAcall]
        BY <1>8 DEF CreateFails, MayFault, Drifts, RequestEnds
  <2>2. /\ drifted' \in [rows : SUBSET (1 .. MaxRows), faults : 0 .. MaxDrifts]
        /\ drifted'.rows = drifted.rows
        BY <1>1, <2>1, AccountsAssumption
  <2> QED BY <1>1, <1>2, <2>1, <2>2, NoUpdateMoves
<1> QED BY <1>4, <1>5, <1>6, <1>7, <1>8

\* A row is inserted, or the INSERT raises.
LEMMA InsertStep ==
    ASSUME AccountsInv, NEW q \in Calls, InsertUser(q)
    PROVE  AccountsInv'
<1> DEFINE x == acall[q].sub
           taken == x # NoSub /\ RowsWithSub(x) # {}
           behind == /\ ~taken /\ x # NoSub
                     /\ \/ account[x] = "disabled"
                        \/ \E p \in Calls : acall[p].op = "update" /\ acall[p].sub = x
<1>1. /\ AccountsTypeOK /\ acall[q] \in UserRequests /\ x \in Subjects \cup {NoSub}
      /\ acall[q].email \in Emails
      /\ NoAcall \in UserRequests /\ NoAcall.op = "none"
      /\ drifted \in [rows : SUBSET (1 .. MaxRows), faults : 0 .. MaxDrifts]
      /\ Len(rows) \in Nat
      BY RowFacts DEF AccountsInv, AccountsTypeOK, UserRequests
<1>2. /\ HasRoomForUser
      /\ acall[q].op \in {"create", "agent"} /\ acall[q].pc = "insert"
      /\ rows' = IF taken THEN rows ELSE Append(rows, UserRow(acall[q].email, x))
      /\ IF behind THEN drifted' = [rows |-> drifted.rows \cup {Len(rows) + 1},
                                    faults |-> drifted.faults + 0]
         ELSE drifted' = drifted
      /\ acall' = [acall EXCEPT ![q] = NoAcall] /\ account' = account
      BY DEF InsertUser, Drifts, RequestEnds
<1>3. Grown
      BY <1>1, <1>2 DEF Grown, AccountsTypeOK
<1>4. /\ drifted' \in [rows : SUBSET (1 .. MaxRows), faults : 0 .. MaxDrifts]
      /\ drifted.rows \subseteq drifted'.rows
      /\ behind => Len(rows) + 1 \in drifted'.rows
  <2>1. CASE behind
    <3>1. Len(rows) + 1 \in 1 .. MaxRows
          BY <1>1, <1>2, AccountsAssumption DEF HasRoomForUser
    <3> QED BY <1>1, <1>2, <2>1, <3>1
  <2>2. CASE ~behind
        BY <1>1, <1>2, <2>2
  <2> QED BY <2>1, <2>2
<1>5. CASE taken
  <2>1. drifted' = drifted /\ rows' = rows
        BY <1>2, <1>5
  <2> QED BY <1>1, <1>2, <1>3, <2>1, NoUpdateMoves
<1>6. CASE ~taken
  <2>1. x # NoSub => account[x] # "absent"
        BY <1>2 DEF AccountsInv, RequestsHold
  <2>2. x # NoSub => account[x] \in {"absent", "enabled", "disabled"}
        BY <1>1, RowFacts
  <2>3. x # NoSub => /\ RowsWithSub(x) = {}
                     /\ \/ Len(rows) + 1 \in drifted'.rows
                        \/ /\ account'[x] = "enabled"
                           /\ \A p \in Calls : acall[p].op = "update" => acall[p].sub # x
        BY <1>2, <1>4, <1>6, <2>1, <2>2
  <2>4. acall' \in [Calls -> UserRequests]
        BY <1>1, <1>2 DEF AccountsTypeOK
  <2>5. \A p \in Calls : \/ acall'[p] = acall[p]
                         \/ acall[p].op # "update" /\ acall'[p] = NoAcall
        BY <1>1, <1>2 DEF AccountsTypeOK
  <2>6. rows' = Append(rows, UserRow(acall[q].email, x))
        BY <1>2, <1>6
  <2> QED BY <1>1, <1>2, <1>3, <1>4, <2>3, <2>4, <2>5, <2>6, NewRow
<1> QED BY <1>5, <1>6

\* The steps of an update.
LEMMA UpdateStep ==
    ASSUME AccountsInv, NEW q \in Calls,
           \/ \E k \in 1 .. MaxRows, on \in BOOLEAN : BeginUpdate(q, k, on)
           \/ MirrorActive(q) \/ MirrorFails(q) \/ WriteUser(q) \/ UpdateCrashes(q)
    PROVE  AccountsInv'
<1>1. /\ AccountsTypeOK /\ acall[q] \in UserRequests
      /\ NoAcall \in UserRequests /\ NoAcall.op = "none"
      /\ drifted \in [rows : SUBSET (1 .. MaxRows), faults : 0 .. MaxDrifts]
      /\ DOMAIN rows = 1 .. Len(rows) /\ Len(rows) \in 0 .. MaxRows
      BY RowFacts DEF AccountsInv, AccountsTypeOK
<1>2. DOMAIN rows \subseteq 1 .. MaxRows
      BY <1>1, AccountsAssumption
<1>3. ASSUME NEW k \in 1 .. MaxRows, NEW on \in BOOLEAN, BeginUpdate(q, k, on)
      PROVE  AccountsInv'
  <2>0. PICK pc \in {"mirror", "write"} : pc = IF rows[k].sub # NoSub THEN "mirror" ELSE "write"
        OBVIOUS
  <2>1. PICK c : c = [NoAcall EXCEPT !.op = "update", !.k = k, !.sub = rows[k].sub, !.on = on,
                                     !.pc = pc]
        OBVIOUS
  <2>2. /\ acall[q].op = "none" /\ k \in DOMAIN rows /\ rows' = rows /\ account' = account
        /\ acall' = [acall EXCEPT ![q] = c]
        /\ IF Updating(k) THEN drifted' = [rows |-> drifted.rows \cup {k},
                                           faults |-> drifted.faults + 0]
           ELSE drifted' = drifted
        BY <1>3, <2>0, <2>1 DEF BeginUpdate, Drifts
  <2>3. rows[k].sub \in Subjects \cup {NoSub}
        BY <1>1, <2>2, RowFacts
  <2>4. /\ c \in UserRequests /\ c.op = "update" /\ c.k = k /\ c.sub = rows[k].sub
        /\ c.pc = IF rows[k].sub # NoSub THEN "mirror" ELSE "write"
    <3>1. c \in UserRequests /\ c.op = "update" /\ c.k = k /\ c.sub = rows[k].sub /\ c.pc = pc
      <4>1. k \in 0 .. MaxRows
            BY AccountsAssumption
      <4> QED BY <1>1, <2>1, <2>3, <4>1 DEF UserRequests
    <3> QED BY <2>0, <3>1
  <2>5. /\ drifted' \in [rows : SUBSET (1 .. MaxRows), faults : 0 .. MaxDrifts]
        /\ drifted.rows \subseteq drifted'.rows
        /\ Updating(k) => k \in drifted'.rows
    <3>1. CASE Updating(k)
          BY <1>1, <2>2, <3>1
    <3>2. CASE ~Updating(k)
          BY <1>1, <2>2, <3>2
    <3> QED BY <3>1, <3>2
  <2> QED BY <2>2, <2>4, <2>5, UpdateBegins
<1>4. CASE MirrorActive(q)
      BY <1>4, UpdateMirrors
<1>5. CASE WriteUser(q)
      BY <1>5, UpdateWrites
<1>6. ASSUME NEW c \in UserRequests, acall[q].op = "update", rows' = rows, account' = account,
             acall' = [acall EXCEPT ![q] = c],
             c = NoAcall \/ c = [acall[q] EXCEPT !.pc = "write"],
             drifted' = [rows |-> drifted.rows \cup {acall[q].k}, faults |-> drifted.faults + 1],
             drifted.faults < MaxDrifts
      PROVE  AccountsInv'
  <2>1. acall[q].k \in 1 .. MaxRows
        BY <1>2, <1>6 DEF AccountsInv, RequestsHold
  <2>2. /\ drifted' \in [rows : SUBSET (1 .. MaxRows), faults : 0 .. MaxDrifts]
        /\ drifted'.rows = drifted.rows \cup {acall[q].k}
        BY <1>1, <1>6, <2>1, AccountsAssumption
  <2> QED BY <1>6, <2>2, UpdateLeftBehind
<1>7. CASE MirrorFails(q)
  <2>1. PICK c : c = [acall[q] EXCEPT !.pc = "write"]
        OBVIOUS
  <2>2. c \in UserRequests /\ acall' = [acall EXCEPT ![q] = c]
        BY <1>1, <1>7, <2>1 DEF MirrorFails, UserRequests, AccountsTypeOK
  <2> QED BY <1>6, <1>7, <2>1, <2>2 DEF MirrorFails, MayFault, Drifts
<1>8. CASE UpdateCrashes(q)
      BY <1>1, <1>6, <1>8 DEF UpdateCrashes, MayFault, Drifts, RequestEnds
<1> QED BY <1>3, <1>4, <1>5, <1>7, <1>8

\* seed.py inserts the first row.
LEMMA SeedStep ==
    ASSUME AccountsInv, NEW e \in Emails, NEW r \in Realms, SeedUser(e, r)
    PROVE  AccountsInv'
<1>1. PICK reached \in BOOLEAN :
           /\ rows = <<>> /\ HasRoomForUser
           /\ account' = IF reached THEN MadeIfAbsent(<<r, e>>) ELSE account
           /\ rows' = <<UserRow(e, IF reached THEN <<r, e>> ELSE NoSub)>>
           /\ acall' = acall /\ drifted' = drifted
      BY DEF SeedUser
<1>2. PICK x : x = IF reached THEN <<r, e>> ELSE NoSub
      OBVIOUS
<1>3. <<r, e>> \in Subjects /\ <<r, e>> # NoSub
      BY SubjectFacts
<1>4. x \in Subjects \cup {NoSub} /\ (x # NoSub => reached /\ x = <<r, e>>)
      BY <1>2, <1>3
<1>5. AccountsTypeOK /\ rows' = Append(rows, UserRow(e, x))
      BY <1>1, <1>2 DEF AccountsInv
<1>6. DOMAIN rows = {}
      BY <1>1
<1>7. \A p \in Calls : acall[p].op # "update"
      BY <1>6 DEF AccountsInv, RequestsHold
<1>8. \A y \in Subjects : account[y] # "disabled"
      BY <1>1 DEF AccountsInv, DisabledHasRow
<1>9. Grown /\ (x # NoSub => account'[x] = "enabled")
  <2>1. CASE reached
        BY <1>1, <1>3, <1>4, <1>5, <1>8, <2>1, MadeFacts DEF Grown
  <2>2. CASE ~reached
        BY <1>1, <1>2, <1>5, <2>2 DEF Grown, AccountsTypeOK
  <2> QED BY <2>1, <2>2
<1>10. RowsWithSub(x) = {}
      BY <1>6 DEF RowsWithSub
<1>11. /\ drifted' \in [rows : SUBSET (1 .. MaxRows), faults : 0 .. MaxDrifts]
       /\ drifted.rows \subseteq drifted'.rows /\ acall' \in [Calls -> UserRequests]
      BY <1>1, <1>5 DEF AccountsTypeOK
<1> QED BY <1>1, <1>4, <1>5, <1>7, <1>9, <1>10, <1>11, NewRow

\* provision_cli_user.py links one row or inserts one.
LEMMA CliStep == AccountsInv /\ ProvisionCli => AccountsInv'
<1> SUFFICES ASSUME AccountsInv, ProvisionCli PROVE AccountsInv'
    OBVIOUS
<1>1. PICK found : found = IF RowsWithSub(ServiceSub) # {} THEN RowsWithSub(ServiceSub)
                           ELSE RowsNamed(CliEmail)
      OBVIOUS
<1>2. /\ Cardinality(found) <= 1
      /\ account' = MadeIfAbsent(ServiceSub)
      /\ IF found = {}
         THEN HasRoomForUser /\ rows' = Append(rows, UserRow(CliEmail, ServiceSub))
         ELSE rows' = [k \in DOMAIN rows |->
                          IF k \in found THEN [rows[k] EXCEPT !.sub = ServiceSub, !.active = TRUE]
                          ELSE rows[k]]
      /\ drifted' = [rows |-> drifted.rows
                               \cup {k \in found : account[ServiceSub] = "disabled" \/ Updating(k)},
                     faults |-> drifted.faults + 0]
      /\ acall' = acall
      BY <1>1 DEF ProvisionCli, Drifts
<1>3. /\ AccountsTypeOK /\ DOMAIN rows = 1 .. Len(rows) /\ Len(rows) \in 0 .. MaxRows
      /\ Len(rows) \in Nat /\ rows \in [1 .. Len(rows) -> UserRows]
      /\ drifted \in [rows : SUBSET (1 .. MaxRows), faults : 0 .. MaxDrifts]
      BY RowFacts DEF AccountsInv, AccountsTypeOK
<1>4. found \subseteq DOMAIN rows
      BY <1>1 DEF RowsWithSub, RowsNamed
<1>5. /\ drifted' \in [rows : SUBSET (1 .. MaxRows), faults : 0 .. MaxDrifts]
      /\ drifted.rows \subseteq drifted'.rows
      /\ \A k \in found : account[ServiceSub] = "disabled" \/ Updating(k) => k \in drifted'.rows
  <2>1. PICK behind : behind = {k \in found : account[ServiceSub] = "disabled" \/ Updating(k)}
        OBVIOUS
  <2>2. behind \subseteq 1 .. MaxRows
        BY <1>3, <1>4, <2>1, AccountsAssumption
  <2>3. drifted' = [rows |-> drifted.rows \cup behind, faults |-> drifted.faults + 0]
        BY <1>2, <2>1
  <2>4. /\ drifted' \in [rows : SUBSET (1 .. MaxRows), faults : 0 .. MaxDrifts]
        /\ drifted'.rows = drifted.rows \cup behind
    <3>1. drifted.faults \in 0 .. MaxDrifts /\ drifted.rows \in SUBSET (1 .. MaxRows)
          BY <1>3
    <3>2. drifted.faults + 0 = drifted.faults
          BY <3>1, AccountsAssumption
    <3> QED BY <2>2, <2>3, <3>1, <3>2
  <2> QED BY <2>1, <2>4
<1>6. CASE found = {}
  <2>1. RowsWithSub(ServiceSub) = {}
        BY <1>1, <1>6
  <2>2. \A p \in Calls : acall[p].op = "update" => acall[p].sub # ServiceSub
        BY <2>1 DEF AccountsInv, RequestsHold, RowsWithSub
  <2>3. account[ServiceSub] # "disabled"
        BY <2>1 DEF AccountsInv, DisabledHasRow
  <2>4. Grown /\ account'[ServiceSub] = "enabled"
        BY <1>2, <1>3, <2>3, MadeFacts, SubjectFacts DEF Grown
  <2>5. HasRoomForUser /\ rows' = Append(rows, UserRow(CliEmail, ServiceSub))
        BY <1>2, <1>6
  <2>6. acall' \in [Calls -> UserRequests] /\ acall' = acall
        BY <1>2, <1>3 DEF AccountsTypeOK
  <2> QED BY <1>5, <2>1, <2>2, <2>4, <2>5, <2>6, NewRow, SubjectFacts, AccountsAssumption
<1>7. CASE found # {}
  <2>1. PICK k0 : found = {k0}
    <3>1. IsFiniteSet(1 .. Len(rows))
          BY <1>3, FS_Interval
    <3>2. IsFiniteSet(found)
          BY <1>3, <1>4, <3>1, FS_Subset
    <3>3. Cardinality(found) \in Nat /\ Cardinality(found) # 0
          BY <1>7, <3>2, FS_CardinalityType, FS_EmptySet
    <3>4. Cardinality(found) = 1
      <4>1. PICK n : n = Cardinality(found)
            OBVIOUS
      <4>2. n \in Nat /\ n # 0 /\ n <= 1
            BY <1>2, <3>3, <4>1
      <4>3. n = 1
            BY <4>2
      <4> QED BY <4>1, <4>3
    <3> QED BY <3>2, <3>4, FS_Singleton
  <2>2. k0 \in DOMAIN rows /\ \A k \in DOMAIN rows : k # k0 => rows[k].sub # ServiceSub
    <3>1. k0 \in DOMAIN rows
          BY <1>4, <2>1
    <3>2. RowsWithSub(ServiceSub) \subseteq {k0}
          BY <1>1, <2>1
    <3> QED BY <3>1, <3>2 DEF RowsWithSub
  <2>3. rows' = [k \in DOMAIN rows |->
                    IF k = k0 THEN [rows[k] EXCEPT !.sub = ServiceSub, !.active = TRUE]
                    ELSE rows[k]]
        BY <1>2, <1>7, <2>1
  <2>4. /\ DOMAIN rows' = DOMAIN rows
        /\ rows'[k0].sub = ServiceSub /\ rows'[k0].active = TRUE
        /\ \A k \in DOMAIN rows : k # k0 => rows'[k] = rows[k]
        BY <1>3, <2>2, <2>3 DEF UserRows
  <2>5. rows' \in [1 .. Len(rows) -> UserRows]
        BY <1>3, <2>2, <2>3, SubjectFacts DEF UserRows
  <2>6. rows' \in Seq(UserRows) /\ Len(rows') = Len(rows)
    <3>1. rows' \in Seq(UserRows)
          BY <1>3, <2>5, SeqDef
    <3> QED BY <1>3, <2>4, <3>1, LenProperties
  <2>7. account[ServiceSub] = "disabled" \/ Updating(k0) => k0 \in drifted'.rows
        BY <1>5, <2>1
  <2> QED BY <1>2, <1>5, <2>2, <2>4, <2>6, <2>7, RowLinked
<1> QED BY <1>6, <1>7

\* It holds where there are no users.
LEMMA AccountsInvInit == AccountsInit => AccountsInv
<1> SUFFICES ASSUME AccountsInit PROVE AccountsInv
    OBVIOUS
<1>1. /\ rows = <<>> /\ DOMAIN rows = {} /\ Len(rows) = 0 /\ rows \in Seq(UserRows)
      /\ account = [x \in Subjects |-> "absent"]
      /\ acall = [q \in Calls |-> NoAcall]
      /\ drifted = [rows |-> {}, faults |-> 0]
      BY DEF AccountsInit
<1>2. NoAcall \in UserRequests /\ NoAcall.op = "none"
      BY AccountsAssumption DEF NoAcall, UserRequests
<1>3. AccountsTypeOK
      BY <1>1, <1>2, AccountsAssumption DEF AccountsTypeOK
<1>4. \A x \in Subjects : account[x] = "absent"
      BY <1>1
<1>5. DisabledHasRow
      BY <1>4, SubjectFacts DEF DisabledHasRow
<1> QED BY <1>1, <1>2, <1>3, <1>5 DEF AccountsInv, SubsUnique, RequestsHold, OneUpdater, AgreesSoFar

\* Every request, fault and script keeps it.
LEMMA AccountsInvNext == AccountsInv /\ [AccountsNext]_accountVars => AccountsInv'
<1> SUFFICES ASSUME AccountsInv, [AccountsNext]_accountVars PROVE AccountsInv'
    OBVIOUS
<1>1. CASE ProvisionCli
      BY <1>1, CliStep
<1>2. ASSUME NEW e \in Emails, NEW r \in Realms, SeedUser(e, r) PROVE AccountsInv'
      BY <1>2, SeedStep
<1>3. ASSUME NEW q \in Calls,
             \/ \E e \in Emails, r \in Realms : BeginCreate(q, e, r)
             \/ \E e \in Emails : BeginAgent(q, e)
             \/ CreateAccount(q) \/ AgentUnlinked(q) \/ CreateFails(q)
      PROVE  AccountsInv'
      BY <1>3, CreateStep
<1>4. ASSUME NEW q \in Calls, InsertUser(q) PROVE AccountsInv'
      BY <1>4, InsertStep
<1>5. ASSUME NEW q \in Calls,
             \/ \E k \in 1 .. MaxRows, on \in BOOLEAN : BeginUpdate(q, k, on)
             \/ MirrorActive(q) \/ MirrorFails(q) \/ WriteUser(q) \/ UpdateCrashes(q)
      PROVE  AccountsInv'
      BY <1>5, UpdateStep
<1>6. CASE UNCHANGED accountVars
      BY <1>6 DEF accountVars, AccountsInv, AccountsTypeOK, SubsUnique, RequestsHold,
                  DisabledHasRow, RowsWithSub, OneUpdater, AgreesSoFar, Updates
<1> QED BY <1>1, <1>2, <1>3, <1>4, <1>5, <1>6 DEF AccountsNext

\* Rows, accounts and requests stay what they are, and in range.
THEOREM AccountsTyped == AccountsSpec => []AccountsTypeOK
<1>1. AccountsInv => AccountsTypeOK
      BY DEF AccountsInv
<1> QED BY <1>1, AccountsInvInit, AccountsInvNext, PTL DEF AccountsSpec

\* A deactivated user stays out of both portals, for any number of users,
\* realms and overlapping requests, and whatever Keycloak was told or missed
\* (get_current_user, and the uniqueness of users.keycloak_sub).
THEOREM DeactivatedExcluded == AccountsSpec => []DeactivatedStaysOut
<1>1. AccountsInv => DeactivatedStaysOut
      BY DEF AccountsInv, SubsUnique, DeactivatedStaysOut, MayEnter, RowsWithSub
<1> QED BY <1>1, AccountsInvInit, AccountsInvNext, PTL DEF AccountsSpec

\* Between requests each account is enabled or disabled as is_active says,
\* except that of a row which a fault, an overlap or the CLI's provisioning
\* left behind (update_user, create_user, provision_cli_user.py).
THEOREM AccountsAgree == AccountsSpec => []MirrorAgrees
<1>1. AccountsInv => MirrorAgrees
      BY DEF AccountsInv, AgreesSoFar, Updates, Mirrored, MirrorAgrees
<1> QED BY <1>1, AccountsInvInit, AccountsInvNext, PTL DEF AccountsSpec

=============================================================================
