----------------------------- MODULE Entitlements -----------------------------
(***************************************************************************)
(* Who writes the enrollment of an organization in a program, and on what they *)
(* decided: uploads and deletions of reports (CompatibilityAdminService), paid  *)
(* orders (fulfillOrder), the swap of category values, the resynchronization    *)
(* with Zoho (ProgramZohoResyncService), and the merging of organizations that   *)
(* Zoho knows as one (OrganizationReconciliationService).                       *)
(*                                                                          *)
(* JSON columns are written back whole from an earlier read.  Only the last two  *)
(* compare what they read, and what was reviewed, with what they find.          *)
(***************************************************************************)
EXTENDS Naturals, FiniteSets, Sequences

CONSTANTS
    Orgs, Ids,         \* organizations, and ids of enrollments
    programOf,         \* of an enrollment
    Program,           \* the program whose Zoho data is resynchronized
    Source,            \* Source_Organization_ID of an enrollment
    Listing,           \* the companies of that program, as Zoho lists them
    CrmTables,         \* what Zoho holds of them, account, name, and purchases, one table
                       \* after the other
    InitialOrgs,       \* rows of Organization
    InitialOrg,        \* the organization of an enrollment
    Slots, Ops,        \* requests served at a time; what a slot is asked for
    Deletable,         \* organizations and programs that may be deleted in a run
    Edited,            \* enrollments that reports are uploaded and bought for
    MaxVersion,        \* bound on the writes to an enrollment in a run
    Companies, Accounts, Names, Customers, \* of Zoho, and of the payment provider
    NoAccount, NoCustomer, Gone, Nothing

VARIABLES
    organization,      \* rows of Organization: account, name, customer
    enrollment,        \* rows of OrganizationProgram
    rows,              \* enrollments with rows of a key impact analysis
    crm,               \* index of what Zoho holds now
    req,               \* what is in the slots
    held,              \* the preview that an administrator reviewed last
    stale              \* enrollments written from a read older than the row was (for
                       \* the properties only)

vars == <<organization, enrollment, rows, crm, req, held, stale>>

Products == {"KIA", "RD", "SEV"}

\* version: updatedAt.  status: KIA_Order_Status.  filter: whether there is an SEV_Filter.
\* zohoSorting: whether EV_Sorting_Payment_Type is "Zoho".  paid, name: what the last
\* resynchronization stored.
Row(e) == [org |-> InitialOrg[e], version |-> 0, access |-> {}, status |-> "none",
           filter |-> FALSE, zohoSorting |-> FALSE, name |-> InitialOrgs[InitialOrg[e]].name,
           paid |-> [filter |-> FALSE, rd |-> FALSE, kia |-> FALSE]]

OrgRows == [account : Accounts \cup {NoAccount}, name : Names,
            customer : Customers \cup {NoCustomer}]
CrmRows == [account : Accounts \cup {NoAccount}, name : Names,
            filter : BOOLEAN, rd : BOOLEAN, kia : BOOLEAN]
EnrollmentRows ==
    [org : Orgs, version : 0..MaxVersion, access : SUBSET (Products \cup {"CR"}),
     status : {"none", "Processing", "Delivered"}, filter : BOOLEAN, zohoSorting : BOOLEAN,
     name : Names, paid : [filter : BOOLEAN, rd : BOOLEAN, kia : BOOLEAN]]

\* The database that a run begins with is one that its unique indexes allow.
ASSUME EntitlementsAssumption ==
    /\ MaxVersion \in Nat
    /\ Listing \in Seq(Companies)
    /\ CrmTables \in Seq([Companies -> CrmRows])
    /\ InitialOrgs \in [Orgs -> OrgRows]
    /\ InitialOrg \in [Ids -> Orgs]
    /\ \A o, q \in Orgs :
         o # q => \/ InitialOrgs[o].account = NoAccount
                  \/ InitialOrgs[o].account # InitialOrgs[q].account
    /\ \A e, f \in Ids : e # f /\ programOf[e] = programOf[f] => InitialOrg[e] # InitialOrg[f]
    /\ Gone \notin OrgRows \cup EnrollmentRows
    /\ Nothing \notin Orgs

Touched(row) == [row EXCEPT !.version = @ + 1]

Idle == [op |-> "none"]
live == {e \in Ids : enrollment[e] # Gone}

Init ==
    /\ organization = InitialOrgs
    /\ enrollment = [e \in Ids |-> Row(e)]
    /\ rows = {}
    /\ crm \in DOMAIN CrmTables
    /\ req = [s \in Slots |-> Idle]
    /\ held = Nothing
    /\ stale = {}

Accept(s, r) == req[s] = Idle /\ r.op \in Ops[s] /\ req' = [req EXCEPT ![s] = r]
Step(s, r) == req' = [req EXCEPT ![s] = r]
Return(s) == Step(s, Idle)

-----------------------------------------------------------------------------
(* Uploads, deletions, paid orders, and the swap: a read, then a transaction *)

StartWrite(s, op, e) ==
    /\ op \in {"upload", "remove", "custom"} \cup Products
    /\ e \in live \cap Edited
    /\ Accept(s, [op |-> op, id |-> e, read |-> enrollment[e]])
    /\ UNCHANGED <<organization, enrollment, rows, crm, held, stale>>

\* What a request makes of the columns it read, and those that it writes at all: the
\* access (reportAccess), the source (paymentDetails), and the status, the filter and
\* the name, which are one column (metrics).
uploaded(read, now) ==
    [now EXCEPT !.access = read.access \cup {"KIA"},
                !.status = "Delivered", !.filter = read.filter, !.name = read.name]
removed(read, now) ==
    [now EXCEPT !.status = "Processing", !.filter = read.filter, !.name = read.name]
customized(read, now) == [now EXCEPT !.access = read.access \cup {"CR"}]
fulfilled(read, now, product) ==
    [now EXCEPT !.access = read.access \cup {product},
                !.status = IF product = "KIA" THEN "Processing" ELSE read.status,
                !.filter = read.filter \/ product = "SEV", !.name = read.name,
                !.zohoSorting = read.zohoSorting]

CommitWrite(s) ==
    LET r   == req[s]
        now == enrollment[r.id]
    IN /\ r.op \in {"upload", "remove", "custom"} \cup Products
       /\ IF now = Gone THEN UNCHANGED <<enrollment, rows, stale>>
          ELSE /\ now.version < MaxVersion
               /\ enrollment' = [enrollment EXCEPT ![r.id] = Touched(
                    CASE r.op = "upload" -> uploaded(r.read, now)
                      [] r.op = "remove" -> removed(r.read, now)
                      [] r.op = "custom" -> customized(r.read, now)
                      [] OTHER           -> fulfilled(r.read, now, r.op))]
               /\ rows' = CASE r.op = "upload" -> rows \cup {r.id}
                            [] r.op = "remove" -> rows \ {r.id}
                            [] OTHER           -> rows
               /\ stale' = IF now.version = r.read.version THEN stale ELSE stale \cup {r.id}
       /\ Return(s)
       /\ UNCHANGED <<organization, crm, held>>

\* swapOrganizationCategoryValues: the metrics of every enrollment, in one transaction
\* that fails if one of them is gone.
StartSwap(s) ==
    /\ Accept(s, [op |-> "swap", read |-> enrollment])
    /\ UNCHANGED <<organization, enrollment, rows, crm, held, stale>>

CommitSwap(s) ==
    LET read == req[s].read
        all  == {e \in Ids : read[e] # Gone}
    IN /\ req[s].op = "swap"
       /\ IF \E e \in all : enrollment[e] = Gone THEN UNCHANGED <<enrollment, stale>>
          ELSE /\ \A e \in all : enrollment[e].version < MaxVersion
               /\ enrollment' = [e \in Ids |->
                    IF e \notin all THEN enrollment[e]
                    ELSE Touched([enrollment[e] EXCEPT !.status = read[e].status,
                                                       !.filter = read[e].filter,
                                                       !.name = read[e].name])]
               /\ stale' = stale \cup {e \in all : enrollment[e].version # read[e].version}
       /\ Return(s)
       /\ UNCHANGED <<organization, rows, crm, held>>

-----------------------------------------------------------------------------
(* The companies of Zoho and the enrollments of the program: buildPreview()  *)

\* p: what was read, [rows, orgs, crm].  The rows are those of the program.
account(p, e) == p.orgs[p.rows[e].org].account
candidates(p, c, left) ==
    LET byAccount == {e \in left : p.crm[c].account # NoAccount
                                   /\ account(p, e) = p.crm[c].account}
        bySource == {e \in left : Source[e] = c}
        byName == {e \in left : p.rows[e].name = p.crm[c].name}
    IN CASE byAccount # {} -> byAccount
         [] byAccount = {} /\ bySource # {} -> bySource
         [] OTHER -> byName

\* A company takes one of the enrollments that are left.
match(p, found, c) ==
    LET E == candidates(p, c, found.left)
    IN CASE E = {} -> [found EXCEPT !.unmatched = @ \cup {c}]
         [] Cardinality(E) > 1 -> [found EXCEPT !.ambiguous = @ \cup (E \X {c})]
         [] OTHER -> [found EXCEPT !.left = @ \ E, !.matches = @ \cup (E \X {c})]

\* Company after company, in the order of the listing.
matching(p) ==
    LET found[i \in 0..Len(Listing)] ==
            IF i = 0 THEN [left |-> DOMAIN p.rows, unmatched |-> {}, ambiguous |-> {},
                           matches |-> {}]
            ELSE match(p, found[i - 1], Listing[i])
    IN found[Len(Listing)]

\* The organization that has the account, as the database is now.
owner(a) ==
    LET O == {o \in Orgs : organization[o] # Gone /\ organization[o].account = a}
    IN IF a = NoAccount \/ O = {} THEN Nothing ELSE CHOOSE o \in O : TRUE

\* m: an enrollment and its company.  The account of the company belongs to another
\* organization, or the organization has another account.
conflicting(p, m) ==
    LET a == p.crm[m[2]].account
    IN /\ a # NoAccount
       /\ \/ owner(a) \notin {Nothing, p.rows[m[1]].org}
          \/ account(p, m[1]) \notin {NoAccount, a}

\* resyncValues, and the revision that an administrator sends back.
values(row, org) == [account |-> org.account, name |-> row.name, paid |-> row.paid]
nextValues(p, m) ==
    LET z == p.crm[m[2]]
    IN [account |-> IF z.account # NoAccount THEN z.account ELSE account(p, m[1]),
        name |-> z.name, paid |-> [filter |-> z.filter, rd |-> z.rd, kia |-> z.kia]]
revision(p, found) ==
    [of |-> "resync",
     changed |-> {<<m[1], nextValues(p, m)>> :
                    m \in {n \in found.matches :
                             nextValues(p, n) # values(p.rows[n[1]], p.orgs[p.rows[n[1]].org])}},
     unmatched |-> found.unmatched,
     missing |-> found.left,
     versions |-> {<<m[1], p.rows[m[1]].version, p.orgs[p.rows[m[1]].org]>> :
                     m \in found.matches}]

\* Mutant: a filter that Zoho does not know of is deleted, also one that was bought.
MutantEntitlement(row, z) ==
    LET granted == (IF z.rd THEN {"RD"} ELSE {}) \cup (IF z.kia THEN {"KIA"} ELSE {})
                     \cup (IF z.filter THEN {"SEV"} ELSE {})
        revoked == IF row.zohoSorting /\ ~z.filter THEN {"SEV"} ELSE {}
    IN [row EXCEPT !.access = (@ \ revoked) \cup granted,
                   !.filter = z.filter, !.zohoSorting = z.filter,
                   !.name = z.name,
                   !.paid = [filter |-> z.filter, rd |-> z.rd, kia |-> z.kia]]

\* zohoPurchaseEntitlementData
entitlement(row, z) ==
    LET granted == (IF z.rd THEN {"RD"} ELSE {}) \cup (IF z.kia THEN {"KIA"} ELSE {})
                     \cup (IF z.filter THEN {"SEV"} ELSE {})
        revoked == IF row.zohoSorting /\ ~z.filter THEN {"SEV"} ELSE {}
    IN [row EXCEPT !.access = (@ \ revoked) \cup granted,
                   !.filter = z.filter \/ (@ /\ revoked = {}),
                   !.zohoSorting = z.filter,
                   !.status = IF z.kia /\ @ = "none" THEN "Processing" ELSE @,
                   !.name = z.name,
                   !.paid = [filter |-> z.filter, rd |-> z.rd, kia |-> z.kia]]

-----------------------------------------------------------------------------
(* Reading for a resynchronization ("preview", "resync") or for a merge      *)
(* ("report", "merge")                                                       *)

ReadProgram(s, op) ==
    LET E == {e \in live : programOf[e] = Program}
    IN /\ op \in {"preview", "resync", "report", "merge"}
       /\ op \in {"resync", "merge"} => (held # Nothing /\ held.of = op)
       /\ Accept(s, [op |-> op, pc |-> "list", rows |-> [e \in E |-> enrollment[e]],
                     orgs |-> [o \in {enrollment[e].org : e \in E} |-> organization[o]],
                     revision |-> IF op \in {"resync", "merge"} THEN held ELSE Nothing])
       /\ UNCHANGED <<organization, enrollment, rows, crm, held, stale>>

\* listOrganizationsForProgram: a call of Zoho
ListOrganizations(s) ==
    LET r == req[s]
    IN /\ r.op \in {"preview", "resync", "report", "merge"} /\ r.pc = "list"
       /\ Step(s, [op |-> r.op, pc |-> "match", rows |-> r.rows, orgs |-> r.orgs,
                   revision |-> r.revision, crm |-> CrmTables[crm]])
       /\ UNCHANGED <<organization, enrollment, rows, crm, held, stale>>

\* An ambiguous company or a conflict ends a resynchronization (409).
Preview(s) ==
    LET found == matching(req[s])
    IN /\ req[s].op = "preview" /\ req[s].pc = "match"
       /\ held' = IF found.ambiguous = {} /\ \A m \in found.matches : ~conflicting(req[s], m)
                  THEN revision(req[s], found) ELSE held
       /\ Return(s)
       /\ UNCHANGED <<organization, enrollment, rows, crm, stale>>

\* Mutant: the preview is not compared with the one that was reviewed.
MutantCompare(s) ==
    LET found == matching(req[s])
    IN /\ req[s].op = "resync" /\ req[s].pc = "match"
       /\ IF /\ found.ambiguous = {}
             /\ \A m \in found.matches : ~conflicting(req[s], m)
          THEN Step(s, [req[s] EXCEPT !.pc = "commit"]) ELSE Return(s)
       /\ UNCHANGED <<organization, enrollment, rows, crm, held, stale>>

CompareRevision(s) ==
    LET found == matching(req[s])
    IN /\ req[s].op = "resync" /\ req[s].pc = "match"
       /\ IF /\ found.ambiguous = {}
             /\ \A m \in found.matches : ~conflicting(req[s], m)
             /\ revision(req[s], found) = req[s].revision
          THEN Step(s, [req[s] EXCEPT !.pc = "commit"]) ELSE Return(s)
       /\ UNCHANGED <<organization, enrollment, rows, crm, held, stale>>

\* The rows are written only as they were read; an account or a name only over what
\* was read.
unchanged(p, m) ==
    LET o   == p.rows[m[1]].org
        was == p.orgs[o]
        new == nextValues(p, m)
    IN /\ enrollment[m[1]] # Gone /\ enrollment[m[1]].version = p.rows[m[1]].version
       /\ new.account # was.account => organization[o].account = was.account
       /\ new.name # was.name => organization[o].name = was.name

\* The unique index on Organization.zohoAccountId.
uniqueAccounts(orgs) ==
    \A o, q \in Orgs : (o # q /\ Gone \notin {orgs[o], orgs[q]}) =>
                         (orgs[o].account = NoAccount \/ orgs[o].account # orgs[q].account)

Resync(s) ==
    LET p       == req[s]
        matches == matching(p).matches
        ids     == {m[1] : m \in matches}
        zoho(e) == p.crm[(CHOOSE m \in matches : m[1] = e)[2]]
        of(o)   == {m \in matches : p.rows[m[1]].org = o}
        bound   == [o \in Orgs |->
                      IF of(o) = {} THEN organization[o]
                      ELSE LET new == nextValues(p, CHOOSE m \in of(o) : TRUE)
                           IN [organization[o] EXCEPT !.account = new.account, !.name = new.name]]
    IN /\ p.op = "resync" /\ p.pc = "commit"
       /\ IF (\A m \in matches : unchanged(p, m)) /\ uniqueAccounts(bound)
          THEN /\ \A e \in ids : enrollment[e].version < MaxVersion
               /\ enrollment' = [e \in Ids |->
                    IF e \notin ids THEN enrollment[e]
                    ELSE Touched([entitlement(p.rows[e], zoho(e)) EXCEPT
                                    !.org = enrollment[e].org, !.version = enrollment[e].version])]
               /\ organization' = bound
          ELSE UNCHANGED <<enrollment, organization>>
       /\ Return(s)
       /\ UNCHANGED <<rows, crm, held, stale>>

-----------------------------------------------------------------------------
(* Merging the organizations that conflict: report(), preview(), apply()      *)

\* The rows of mappingConflicts; an ambiguous match is one that only blocks.
conflicts(p) ==
    LET found == matching(p)
        conflict(m, blocked) ==
            [id |-> m[1], source |-> p.rows[m[1]].org, account |-> p.crm[m[2]].account,
             target |-> owner(p.crm[m[2]].account), blocked |-> blocked]
    IN {conflict(m, FALSE) : m \in {n \in found.matches : conflicting(p, n)}}
         \cup {conflict(m, TRUE) : m \in found.ambiguous}

enrolled(o) == {e \in live : enrollment[e].org = o}
programs(o) == {programOf[e] : e \in enrolled(o)}
customers(O) == {organization[o].customer : o \in O} \ {NoCustomer}

\* A row of a report without blockers.
eligible(r, D) ==
    /\ ~r.blocked
    /\ organization[r.source] # Gone /\ organization[r.source].account = NoAccount
    /\ r.target \notin {Nothing, r.source}
    /\ organization[r.target] # Gone /\ organization[r.target].account = r.account
    /\ r.id \in enrolled(r.source)
    /\ programs(r.source) \cap programs(r.target) = {}
    /\ Cardinality(customers({r.source, r.target})) <= 1
    /\ \A d \in D : d.source = r.source => d.account = r.account

\* Mutant: each duplicate is compared with its destination, not with the others.
MutantPlan(merges, D) ==
    /\ merges # {} /\ \A r \in merges : eligible(r, D)
    /\ \A r, q \in merges : r.target # q.source

plan(merges, D) ==
    /\ merges # {} /\ \A r \in merges : eligible(r, D)
    /\ \A r, q \in merges : r.target # q.source
    /\ \A r, q \in merges : (r # q /\ r.target = q.target) =>
                              programs(r.source) \cap programs(q.source) = {}
    /\ \A r \in merges : LET same == {q \in merges : q.target = r.target}
                          IN Cardinality(customers({q.source : q \in same} \cup {r.target})) <= 1

\* The digest that a plan carries: what conflicts, and the organizations with their
\* enrollments.
planRevision(merges, D) ==
    LET involved == {o \in {d.source : d \in D} \cup {d.target : d \in D} :
                       o # Nothing /\ organization[o] # Gone}
    IN [of |-> "merge", conflicts |-> D, merges |-> merges,
        orgs |-> [o \in involved |-> organization[o]],
        enrollments |-> [e \in UNION {enrolled(o) : o \in involved} |-> enrollment[e]]]

\* The enrollments of the sources move to the targets, with a new version.
moved(merges) ==
    [e \in Ids |->
        IF e \in live /\ enrollment[e].org \in {r.source : r \in merges}
        THEN Touched([enrollment[e] EXCEPT
                        !.org = (CHOOSE r \in merges : r.source = @).target])
        ELSE enrollment[e]]

merged(merges) ==
    [o \in Orgs |->
        LET joining == {r \in merges : r.target = o}
            C == customers({r.source : r \in joining})
        IN IF \E r \in merges : r.source = o THEN Gone
           ELSE IF joining = {} \/ organization[o].customer # NoCustomer \/ C = {}
                THEN organization[o]
                ELSE [organization[o] EXCEPT !.customer = CHOOSE c \in C : TRUE]]

\* The unique index on the organization and the program of an enrollment.
uniqueEnrollments(E) ==
    \A e, f \in {i \in Ids : E[i] # Gone} :
        (e # f /\ programOf[e] = programOf[f]) => E[e].org # E[f].org

FindConflicts(s) ==
    /\ req[s].op \in {"report", "merge"} /\ req[s].pc = "match"
    /\ Step(s, [op |-> req[s].op, pc |-> "plan", conflicts |-> conflicts(req[s]),
                revision |-> req[s].revision])
    /\ UNCHANGED <<organization, enrollment, rows, crm, held, stale>>

Plan(s, merges) ==
    LET D == req[s].conflicts
    IN /\ req[s].op = "report" /\ req[s].pc = "plan"
       /\ merges \subseteq D
       /\ held' = IF plan(merges, D) THEN planRevision(merges, D) ELSE held
       /\ Return(s)
       /\ UNCHANGED <<organization, enrollment, rows, crm, stale>>

Merge(s) ==
    LET D      == req[s].conflicts
        merges == {r \in D : \E q \in req[s].revision.merges : r.id = q.id /\ ~r.blocked}
    IN /\ req[s].op = "merge" /\ req[s].pc = "plan"
       /\ IF /\ plan(merges, D)
             /\ planRevision(merges, D) = req[s].revision
             /\ uniqueEnrollments(moved(merges))
          THEN /\ \A e \in live : enrollment[e].version < MaxVersion
               /\ enrollment' = moved(merges)
               /\ organization' = merged(merges)
          ELSE UNCHANGED <<enrollment, organization>>
       /\ Return(s)
       /\ UNCHANGED <<rows, crm, held, stale>>

-----------------------------------------------------------------------------
(* Deletions, Zoho, failures *)

\* Mutant: an organization is deleted whatever is enrolled.
MutantDelete(o) ==
    /\ organization[o] # Gone
    /\ organization' = [organization EXCEPT ![o] = Gone]
    /\ UNCHANGED <<enrollment, rows, crm, req, held, stale>>

\* deleteOrganization, deleteEmptyOrganizations
DeleteOrganization(o) ==
    /\ organization[o] # Gone /\ enrolled(o) = {}
    /\ organization' = [organization EXCEPT ![o] = Gone]
    /\ UNCHANGED <<enrollment, rows, crm, req, held, stale>>

Removed(E) ==
    /\ enrollment' = [e \in Ids |-> IF e \in E THEN Gone ELSE enrollment[e]]
    /\ rows' = rows \ E
    /\ UNCHANGED <<crm, req, held, stale>>

DeleteOrganizationForResync(o) ==
    /\ organization[o] # Gone
    /\ organization' = [organization EXCEPT ![o] = Gone]
    /\ Removed(enrolled(o))

DeleteProgram(p) ==
    /\ \E e \in live : programOf[e] = p
    /\ Removed({e \in live : programOf[e] = p})
    /\ UNCHANGED organization

\* A sale or a correction in Zoho.
ChangeCrm ==
    /\ crm < Len(CrmTables) /\ crm' = crm + 1
    /\ UNCHANGED <<organization, enrollment, rows, req, held, stale>>

\* A request stops: a call of it fails, or the process does.
Fail(s) ==
    /\ req[s] # Idle /\ Return(s)
    /\ UNCHANGED <<organization, enrollment, rows, crm, held, stale>>

Next ==
    \/ \E s \in Slots :
         \/ \E op \in Ops[s], e \in Ids : StartWrite(s, op, e)
         \/ \E op \in Ops[s] : ReadProgram(s, op)
         \/ CommitWrite(s) \/ StartSwap(s) \/ CommitSwap(s)
         \/ ListOrganizations(s) \/ Preview(s) \/ CompareRevision(s) \/ Resync(s)
         \/ FindConflicts(s) \/ Merge(s) \/ Fail(s)
         \/ req[s].op = "report" /\ req[s].pc = "plan"
             /\ \E merges \in SUBSET req[s].conflicts : Plan(s, merges)
    \/ \E o \in Orgs \cap Deletable : DeleteOrganization(o) \/ DeleteOrganizationForResync(o)
    \/ \E p \in {programOf[e] : e \in Ids} \cap Deletable : DeleteProgram(p)
    \/ ChangeCrm

Spec == Init /\ [][Next]_vars

-----------------------------------------------------------------------------
(* Properties *)

\* Every enrollment belongs to an organization that exists, an organization is
\* enrolled once in a program, an account of Zoho belongs to one organization, and
\* rows of a key impact analysis belong to enrollments.
TypeOK ==
    /\ \A e \in live :
         /\ organization[enrollment[e].org] # Gone
         /\ enrollment[e].version \in 0..MaxVersion
         /\ enrollment[e].access \subseteq Products \cup {"CR"}
         /\ enrollment[e].status \in {"none", "Processing", "Delivered"}
    /\ uniqueEnrollments(enrollment) /\ uniqueAccounts(organization)
    /\ rows \subseteq live /\ stale \subseteq Ids

\* The resynchronization in a slot carries a revision in which its administrator saw
\* this name and these purchases of the enrollment, in the version that is stored.
Reviewed(s, e, row) ==
    /\ req[s].op = "resync"
    /\ \E c \in req[s].revision.changed :
         c[1] = e /\ c[2].name = row.name /\ c[2].paid = row.paid
    /\ \E v \in req[s].revision.versions : v[1] = e /\ v[2] = enrollment[e].version

\* The request in a slot has read the metrics of the enrollment, with this name, in
\* another version than the one that is stored.
ReadEarlier(s, e, name) ==
    LET old(row) == row # Gone /\ row.version # enrollment[e].version /\ row.name = name
    IN \/ req[s].op \in {"upload", "remove"} \cup Products /\ req[s].id = e /\ old(req[s].read)
       \/ req[s].op = "swap" /\ old(req[s].read[e])

\* What is stored over the purchases of an enrollment is what the administrator who
\* sent the request saw, and he saw it of the very version of the row that it
\* replaces: Zoho may have changed since, and so may the row.  So it is with the name,
\* but for uploads, deletions, orders and swaps that write the metrics back: they undo
\* a resynchronization that came since they read, and bring back the name they read.
ReviewedIsApplied ==
    [][\A e \in Ids :
         Gone \notin {enrollment[e], enrollment'[e]} =>
           /\ enrollment'[e].paid # enrollment[e].paid =>
                \E s \in Slots : Reviewed(s, e, enrollment'[e])
           /\ enrollment'[e].name # enrollment[e].name =>
                \E s \in Slots : \/ Reviewed(s, e, enrollment'[e])
                                 \/ ReadEarlier(s, e, enrollment'[e].name)
      ]_vars

\* As long as no request wrote over a row that had changed since it was read, the
\* columns of an enrollment agree with each other and with its rows, whoever of the
\* six writers comes when: what is said to be delivered is there, it is accessible,
\* and who sees sorted verbatims has a filter to sort them by.
EntitlementsConsistent ==
    \A e \in live \ stale :
        /\ enrollment[e].status = "Delivered" => e \in rows
        /\ e \in rows => "KIA" \in enrollment[e].access
        /\ "SEV" \in enrollment[e].access => enrollment[e].filter

\* Merges that a plan accepts are not refused by the database, lose no enrollment,
\* and clear the way for the resynchronization: afterwards none of them conflicts.
AcceptedPlansApply ==
    \A s \in Slots :
        (req[s].op \in {"report", "merge"} /\ req[s].pc = "plan") =>
          \A merges \in SUBSET req[s].conflicts :
            plan(merges, req[s].conflicts) =>
              LET E == moved(merges) O == merged(merges)
              IN /\ uniqueEnrollments(E)
                 /\ \A e \in live : O[E[e].org] # Gone
                 /\ \A r \in merges : O[E[r.id].org].account = r.account
=============================================================================
