---------------------------- MODULE Provisioning ---------------------------
(***************************************************************************)
(* Customer organisations and their projects (routers/tenants.py): a realm *)
(* and a client in Keycloak and a bucket in S3 come first, the row that    *)
(* names them is committed last.  Requests overlap, Keycloak and S3 fail,     *)
(* and the backend may die between any two steps.                          *)
(***************************************************************************)
EXTENDS Naturals, FiniteSets

CONSTANTS
    Names,        \* organisation names admins use
    Slug,         \* slugify: Names to realm slugs; two names may share one
    OrgRequests,  \* requests in flight at a time
    SeedName,     \* the sample customer that seed.py creates
    MaxProvFaults \* bound: failures of Keycloak or S3, and crashes

ASSUME ProvisioningAssumption ==
    /\ DOMAIN Slug = Names
    /\ SeedName \in Names
    /\ MaxProvFaults \in Nat

VARIABLES
    realms, clients,  \* slugs that have a realm, and docmate-cust in it
    buckets,          \* names that have a bucket
    orgs,             \* the customer rows of organizations
    projects,         \* the projects' rows: their organisation and status
    call,             \* per request: name, where it is, whether a fault hit it
    prov_faults

provVars == <<realms, clients, buckets, orgs, projects, call, prov_faults>>

Slugs == {Slug[n] : n \in Names}

OrgRow == [id : Nat, name : Names, bucket_status : {"ready", "error", "none"}, seeded : BOOLEAN]

NoCall == [name |-> SeedName, pc |-> "idle", bucket |-> "none", hit |-> FALSE]

ProvInit ==
    /\ realms = {} /\ clients = {} /\ buckets = {}
    /\ orgs = {}
    /\ projects = {}
    /\ call = [q \in OrgRequests |-> NoCall]
    /\ prov_faults = 0

SlugTaken(slug) == \E o \in orgs : Slug[o.name] = slug

CallMoves(q, from, to) == call[q].pc = from /\ call' = [call EXCEPT ![q].pc = to]

Provisioned == <<realms, clients, buckets>>

-----------------------------------------------------------------------------
(* create_organization for a customer.                                     *)

BeginOrg(q, n) ==
    /\ call[q].pc \in {"idle", "answered", "refused"}
    /\ call' = [call EXCEPT ![q] = [NoCall EXCEPT !.name = n, !.pc = "realm"]]
    /\ UNCHANGED <<Provisioned, orgs, projects, prov_faults>>

\* A slip: no skip_exists.
CreateRealm_Strict(q) ==
    LET s == Slug[call[q].name]
    IN  /\ CallMoves(q, "realm", IF s \in realms THEN "refused" ELSE "client")
        /\ realms' = realms \cup {s}
        /\ UNCHANGED <<clients, buckets, orgs, projects, prov_faults>>

\* create_realm(skip_exists=True)
CreateRealm(q) ==
    /\ CallMoves(q, "realm", "client")
    /\ realms' = realms \cup {Slug[call[q].name]}
    /\ UNCHANGED <<clients, buckets, orgs, projects, prov_faults>>

\* create_client(skip_exists=True)
CreateClient(q) ==
    /\ CallMoves(q, "client", "insert")
    /\ clients' = clients \cup {Slug[call[q].name]}
    /\ UNCHANGED <<realms, buckets, orgs, projects, prov_faults>>

\* The flushed INSERT: an uncommitted row with the slug makes it wait, a
\* committed one makes it raise.
InsertOrg(q) ==
    LET s == Slug[call[q].name]
    IN  /\ \A p \in OrgRequests \ {q} :
               call[p].pc \in {"bucket", "commit"} => Slug[call[p].name] # s
        /\ CallMoves(q, "insert", IF SlugTaken(s) THEN "refused" ELSE "bucket")
        /\ UNCHANGED <<Provisioned, orgs, projects, prov_faults>>

\* provision_org_bucket: any failure but an existing bucket is kept in the
\* row's status and the request goes on.
MakeBucket(q) ==
    \E ok \in BOOLEAN :
        /\ call[q].pc = "bucket"
        /\ ~ok => prov_faults < MaxProvFaults
        /\ prov_faults' = IF ok THEN prov_faults ELSE prov_faults + 1
        /\ buckets' = IF ok THEN buckets \cup {call[q].name} ELSE buckets
        /\ call' = [call EXCEPT ![q].pc = "commit",
                                ![q].bucket = IF ok THEN "ready" ELSE "error"]
        /\ UNCHANGED <<realms, clients, orgs, projects>>

CommitOrg(q) ==
    /\ CallMoves(q, "commit", "answered")
    /\ orgs' = orgs \cup {[id |-> Cardinality(orgs), name |-> call[q].name,
                           bucket_status |-> call[q].bucket, seeded |-> FALSE]}
    /\ UNCHANGED <<Provisioned, projects, prov_faults>>

\* A slip: a failing Keycloak logged and passed over, as seed.py does.
KeycloakDown_Ignored(q) ==
    /\ prov_faults < MaxProvFaults
    /\ call[q].pc \in {"realm", "client"}
    /\ prov_faults' = prov_faults + 1
    /\ call' = [call EXCEPT ![q].pc = "insert", ![q].hit = TRUE]
    /\ UNCHANGED <<Provisioned, orgs, projects>>

\* Keycloak fails: 503, and what was created in it stays.
KeycloakDown(q) ==
    /\ prov_faults < MaxProvFaults
    /\ call[q].pc \in {"realm", "client"}
    /\ prov_faults' = prov_faults + 1
    /\ call' = [call EXCEPT ![q].pc = "refused", ![q].hit = TRUE]
    /\ UNCHANGED <<Provisioned, orgs, projects>>

\* The backend dies, or the commit fails: the transaction rolls back.
CrashOrg(q) ==
    /\ prov_faults < MaxProvFaults
    /\ call[q].pc \notin {"idle", "answered", "refused"}
    /\ prov_faults' = prov_faults + 1
    /\ call' = [call EXCEPT ![q].pc = "refused", ![q].hit = TRUE]
    /\ UNCHANGED <<Provisioned, orgs, projects>>

-----------------------------------------------------------------------------
\* seed.py, on an empty database: the sample customer's row is committed
\* whatever Keycloak answers, and no bucket is made.
Seed ==
    \E realm_made, client_made \in BOOLEAN :
        /\ orgs = {}
        /\ \A q \in OrgRequests : call[q].pc = "idle"
        /\ client_made => realm_made
        /\ realms' = IF realm_made THEN realms \cup {Slug[SeedName]} ELSE realms
        /\ clients' = IF client_made THEN clients \cup {Slug[SeedName]} ELSE clients
        /\ orgs' = {[id |-> 0, name |-> SeedName, bucket_status |-> "none", seeded |-> TRUE]}
        /\ UNCHANGED <<buckets, projects, call, prov_faults>>

\* A slip: the organisation's status copied.
CreateProject_Copies(o) ==
    /\ o \in orgs
    /\ projects' = projects \cup {[org |-> o.name, status |-> o.bucket_status]}
    /\ UNCHANGED <<Provisioned, orgs, call, prov_faults>>

\* create_project with provision_bucket: ready as soon as the organisation's
\* row names a bucket, which it does with status error too.
CreateProject(o) ==
    /\ o \in orgs
    /\ projects' = projects \cup
           {[org |-> o.name,
             status |-> IF o.bucket_status = "none" THEN "error" ELSE "ready"]}
    /\ UNCHANGED <<Provisioned, orgs, call, prov_faults>>

ProvStep(q) ==
    \/ CreateRealm(q)
    \/ CreateClient(q)
    \/ InsertOrg(q)
    \/ MakeBucket(q)
    \/ CommitOrg(q)

ProvNext ==
    \/ Seed
    \/ \E o \in orgs : CreateProject(o)
    \/ \E q \in OrgRequests : \/ ProvStep(q)
                           \/ KeycloakDown(q)
                           \/ CrashOrg(q)
                           \/ \E n \in Names : BeginOrg(q, n)

ProvSpec == ProvInit /\ [][ProvNext]_provVars

-----------------------------------------------------------------------------
ProvTypeOK ==
    /\ realms \subseteq Slugs /\ clients \subseteq Slugs
    /\ buckets \subseteq Names
    /\ orgs \subseteq OrgRow
    /\ projects \subseteq [org : Names, status : {"ready", "error"}]
    /\ \A q \in OrgRequests :
           /\ call[q].name \in Names
           /\ call[q].pc \in {"idle", "realm", "client", "insert", "bucket",
                              "commit", "answered", "refused"}
           /\ call[q].bucket \in {"none", "ready", "error"}
    /\ prov_faults \in 0 .. MaxProvFaults

\* A customer whose row is committed can log in: realm and client exist, since
\* Keycloak comes before the row and its failure ends the request, and are its
\* own, though skip_exists lets a second request of the same slug pass
\* Keycloak.  The sample customer of seed.py has no such promise
\* (create_organization).
OrgHasRealm ==
    \A o \in orgs :
        /\ ~o.seeded => Slug[o.name] \in realms \cap clients
        /\ \A other \in orgs \ {o} : Slug[other.name] # Slug[o.name]

\* What an earlier attempt left in Keycloak never blocks a later one: without
\* a fault of its own a request is refused only for a slug that has a customer
\* (skip_exists in create_customer_realm).
RefusedForCause ==
    \A q \in OrgRequests :
        call[q].pc = "refused" => call[q].hit \/ SlugTaken(Slug[call[q].name])

=============================================================================
