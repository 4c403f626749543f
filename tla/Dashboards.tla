------------------------------ MODULE Dashboards ------------------------------
(***************************************************************************)
(* Tables bundles and analyses as the dashboards see them                  *)
(* (internal/db/queries.go and the handlers in internal/server/handlers.go *)
(* that only read), and all that writes what they show: the demo data that *)
(* every start of the server seeds (main.go, internal/seed/seed.go),       *)
(* uploads, the saves of report pages, and clicks that move a bundle       *)
(* through its workflow.  ReportPersistence has the same tables as the     *)
(* report page sees them, and what leads to a save.                        *)
(***************************************************************************)
EXTENDS Integers, Sequences, FiniteSets, FiniteSetsExt, SequencesExt, Filtering

CONSTANTS Entries,      \* the demo data in order: records of id, org, customer, at, triage
          Uploads,      \* ids of uploaded bundles
          Orgs,
          Customers,    \* customer names that users enter
          NoCustomer,   \* the empty name, NULL in the table
          Slug,         \* nameToSlug, and LOWER(REPLACE(...)) in SQL, of each name
          Triages,      \* severity and health of a triage
          NoTriage,     \* severity_score and cluster_health are NULL
          NoRow,
          Clicks,       \* requests to change a status
          None,         \* the position of a click that is not there
          MaxStarts,    \* bound: starts of the server
          MaxSaves      \* bound: saves of report pages

Seeds == {Entries[n].id : n \in DOMAIN Entries}
Bundles == Seeds \cup Uploads
Names == Customers \cup {Entries[n].customer : n \in DOMAIN Entries}
FirstUpload == 1 + Max({0} \cup {Entries[n].at : n \in DOMAIN Entries})

Statuses == {"new", "in_review", "resolved"}
BundleRows == [org : Orgs, customer : Names \cup {NoCustomer}, at : Nat, status : Statuses]
AnalysisRows == [triage : Triages \cup {NoTriage}, others : SUBSET {"timeline", "rca"}]

ASSUME DashboardsAssumption ==
    /\ Entries \in Seq([id : Seeds, org : Orgs, customer : Names, at : Nat, triage : Triages])
    /\ \A m, n \in DOMAIN Entries : Entries[m].id = Entries[n].id => m = n
    \* No page of a customer has two demo bundles of one day.
    /\ \A m, n \in DOMAIN Entries :
          /\ Entries[m].org = Entries[n].org /\ Entries[m].at = Entries[n].at
          /\ Slug[Entries[m].customer] = Slug[Entries[n].customer]
          => m = n
    /\ FirstUpload \in Nat
    /\ Seeds \cap Uploads = {} /\ NoCustomer \notin Names /\ IsFiniteSet(Bundles)
    /\ NoRow \notin BundleRows \cup AnalysisRows /\ NoTriage \notin Triages
    /\ None \notin [bundle : Bundles, was : Statuses]
    /\ None \notin [open : [Orgs -> Nat], writes : Nat] /\ None \notin [Orgs -> Nat]
    /\ MaxStarts \in Nat /\ MaxSaves \in Nat

VARIABLES
    bundles,  \* bundles[b]: NoRow, or its organisation, customer, time and status
    analyses, \* analyses[b]: NoRow, or its triage and which other columns it has
    server,   \* "down", "seeding", "up", or "bare": up without a database
    entry,    \* index of the entry of the demo data being seeded
    step,     \* statement of seedOne that is next
    click,    \* click[k]: the bundle and the status read, or None
    clicked,  \* clicks that are over
    page,     \* the platform page being put together: open bundles of each organisation
              \* in its inbox, and writes to table bundles since; or None
    tabs,     \* open bundles of each organisation in the tabs of that page, or None
    starts, saves, \* bounded counts
    seeded,   \* demo bundles seeded without an error in this start (history)
    expected  \* status that clicks, one after the other, leave a bundle in, counted from
              \* the last one that found it moved since it had read it (history)

tables == <<bundles, analyses>>
seeding == <<entry, step, seeded>>
clicking == <<click, clicked, expected>>
viewing == <<page, tabs>>
vars == <<tables, server, seeding, clicking, viewing, starts, saves>>

Successor_Typo(status) == [new |-> "in_review", in_review |-> "in-review",     \* mutant
                           resolved |-> "new"][status]
Successor(status) == [new |-> "in_review", in_review |-> "resolved", resolved |-> "new"][status]
Rows == {b \in Bundles : bundles[b] # NoRow}

Init == /\ bundles = [b \in Bundles |-> NoRow]
        /\ analyses = [b \in Bundles |-> NoRow]
        /\ server = "down"
        /\ entry = 1 /\ step = "insert"
        /\ click = [k \in Clicks |-> None] /\ clicked = {}
        /\ page = None /\ tabs = None
        /\ starts = 0 /\ saves = 0
        /\ seeded = {}
        /\ expected = [b \in Bundles |-> "new"]

\* A write to table bundles, noted by a page that read its inbox before.
Insert(b, row) == /\ bundles' = [bundles EXCEPT ![b] = row]
                  /\ page' = IF page = None THEN None ELSE [page EXCEPT !.writes = @ + 1]
                  /\ UNCHANGED tabs

Triage_Ignored(b, t) == analyses' = [analyses EXCEPT ![b] =                               \* mutant
                            IF @ = NoRow THEN [triage |-> t, others |-> {}] ELSE @]

\* SaveTriage, and SaveTimeline or SaveRCA, insert a row or update their own columns.
Triage(b, t) == analyses' = [analyses EXCEPT ![b] =
                    IF @ = NoRow THEN [triage |-> t, others |-> {}] ELSE [@ EXCEPT !.triage = t]]
Other(b, column) == analyses' = [analyses EXCEPT ![b] =
                        IF @ = NoRow THEN [triage |-> NoTriage, others |-> {column}]
                        ELSE [triage |-> @.triage, others |-> @.others \cup {column}]]

-----------------------------------------------------------------------------
(* The start of the server: main connects, migrates and seeds, then listens. *)

Start ==
    /\ server = "down" /\ starts < MaxStarts
    /\ starts' = starts + 1
    /\ server' = "seeding" /\ entry' = 1 /\ step' = "insert" /\ seeded' = {}
    /\ UNCHANGED <<tables, clicking, viewing, saves>>

\* The connection or the migration fails: the server runs without a database.
StartBare ==
    /\ server = "down" /\ starts < MaxStarts
    /\ starts' = starts + 1
    /\ server' = "bare"
    /\ UNCHANGED <<tables, seeding, clicking, viewing, saves>>

Seeding(position) == server = "seeding" /\ entry <= Len(Entries) /\ step = position
SeedUnchanged == UNCHANGED <<server, clicking, starts, saves>>

SeedInsert_Overwrites ==  \* mutant: ON CONFLICT (id) DO UPDATE
    /\ Seeding("insert")
    /\ LET e == Entries[entry]
       IN  Insert(e.id, [org |-> e.org, customer |-> e.customer, at |-> e.at, status |-> "new"])
    /\ step' = "triage"
    /\ UNCHANGED <<analyses, entry, seeded>> /\ SeedUnchanged

SeedInsert_Now ==  \* mutant: uploaded_at is left to its default
    /\ Seeding("insert")
    /\ LET e == Entries[entry]
       IN  IF bundles[e.id] # NoRow THEN UNCHANGED <<bundles, viewing>>
           ELSE Insert(e.id, [org |-> e.org, customer |-> e.customer, status |-> "new",
                              at |-> Max({FirstUpload - 1} \cup {bundles[b].at : b \in Rows}) + 1])
    /\ step' = "triage"
    /\ UNCHANGED <<analyses, entry, seeded>> /\ SeedUnchanged

\* InsertBundleWithTime: ON CONFLICT (id) DO NOTHING.
SeedInsert ==
    /\ Seeding("insert")
    /\ LET e == Entries[entry]
       IN  IF bundles[e.id] # NoRow THEN UNCHANGED <<bundles, viewing>>
           ELSE Insert(e.id, [org |-> e.org, customer |-> e.customer, at |-> e.at, status |-> "new"])
    /\ step' = "triage"
    /\ UNCHANGED <<analyses, entry, seeded>> /\ SeedUnchanged

\* Every entry has a timeline and a root cause.
SeedTriage ==
    /\ Seeding("triage")
    /\ Triage(Entries[entry].id, Entries[entry].triage)
    /\ step' = "timeline"
    /\ UNCHANGED <<bundles, entry, seeded, viewing>> /\ SeedUnchanged

SeedTimeline ==
    /\ Seeding("timeline")
    /\ Other(Entries[entry].id, "timeline")
    /\ step' = "rca"
    /\ UNCHANGED <<bundles, entry, seeded, viewing>> /\ SeedUnchanged

SeedRCA ==
    /\ Seeding("rca")
    /\ Other(Entries[entry].id, "rca")
    /\ entry' = entry + 1 /\ step' = "insert"
    /\ seeded' = seeded \cup {Entries[entry].id}
    /\ UNCHANGED <<bundles, viewing>> /\ SeedUnchanged

\* A failed statement ends its entry; Run logs it and goes on.
SeedFails ==
    /\ server = "seeding" /\ entry <= Len(Entries)
    /\ entry' = entry + 1 /\ step' = "insert"
    /\ UNCHANGED <<tables, seeded, viewing>> /\ SeedUnchanged

Listen ==
    /\ server = "seeding" /\ entry > Len(Entries)
    /\ server' = "up"
    /\ UNCHANGED <<tables, seeding, clicking, viewing, starts, saves>>

\* The process dies; requests die with it, and the tables stay.  (The bound: a crash
\* that no start follows shows nothing.)
Crash ==
    /\ server # "down" /\ starts < MaxStarts
    /\ server' = "down" /\ entry' = 1 /\ step' = "insert" /\ seeded' = {}
    /\ click' = [k \in Clicks |-> None]
    /\ clicked' = clicked \cup {k \in Clicks : click[k] # None}
    /\ page' = None /\ tabs' = None
    /\ UNCHANGED <<tables, expected, starts, saves>>

-----------------------------------------------------------------------------
(* Uploads and report pages. *)

\* HandleUpload's InsertBundle at NOW(), for a customer or none.  (An upload whose
\* insert fails changes nothing here.)
Upload(u, org, customer) ==
    /\ server = "up" /\ bundles[u] = NoRow
    /\ Insert(u, [org |-> org, customer |-> customer, status |-> "new",
                  at |-> Max({FirstUpload - 1} \cup {bundles[b].at : b \in Rows}) + 1])
    /\ UNCHANGED <<analyses, server, seeding, clicking, starts, saves>>

\* SSE requests of a report save what they ran, in any order and more than once;
\* the foreign key wants the row.
SaveTriage(b, t) ==
    /\ server = "up" /\ b \in Rows /\ saves < MaxSaves
    /\ Triage(b, t)
    /\ saves' = saves + 1
    /\ UNCHANGED <<bundles, server, seeding, clicking, viewing, starts>>

SaveOther(b, column) ==
    /\ server = "up" /\ b \in Rows /\ saves < MaxSaves
    /\ Other(b, column)
    /\ saves' = saves + 1
    /\ UNCHANGED <<bundles, server, seeding, clicking, viewing, starts>>

-----------------------------------------------------------------------------
(* HandleBundleStatus. *)

\* GetBundleStatus ...
ReadStatus(k, b) ==
    /\ server = "up" /\ b \in Rows
    /\ k \notin clicked /\ click[k] = None
    /\ click' = [click EXCEPT ![k] = [bundle |-> b, was |-> bundles[b].status]]
    /\ UNCHANGED <<tables, server, seeding, clicked, expected, viewing, starts, saves>>

ClickOver(k) == click' = [click EXCEPT ![k] = None] /\ clicked' = clicked \cup {k}

\* ... and SetBundleStatus, which writes whatever the status has become.
WriteStatus(k) ==
    /\ click[k] # None
    /\ LET b == click[k].bundle
       IN  /\ Insert(b, [bundles[b] EXCEPT !.status = Successor(click[k].was)])
           /\ expected' = [expected EXCEPT ![b] =
                  Successor(IF bundles[b].status = click[k].was THEN @ ELSE click[k].was)]
    /\ ClickOver(k)
    /\ UNCHANGED <<analyses, server, seeding, starts, saves>>

WriteFails(k) ==
    /\ click[k] # None
    /\ ClickOver(k)
    /\ UNCHANGED <<tables, server, seeding, expected, viewing, starts, saves>>

-----------------------------------------------------------------------------
(* HandleHome of a platform user: two queries, without a transaction. *)

OpenOf(org) == Cardinality({b \in Rows : bundles[b].org = org /\ bundles[b].status # "resolved"})

ReadInbox ==
    /\ server = "up" /\ page = None
    /\ page' = [open |-> [org \in Orgs |-> OpenOf(org)], writes |-> 0]
    /\ UNCHANGED <<tables, server, seeding, clicking, tabs, starts, saves>>

ReadTabs_CountsAll ==  \* mutant: no FILTER (WHERE status != 'resolved')
    /\ page # None /\ tabs = None
    /\ tabs' = [org \in Orgs |-> Cardinality({b \in Rows : bundles[b].org = org})]
    /\ UNCHANGED <<tables, server, seeding, clicking, page, starts, saves>>

\* GetPlatformISVTabs; an organisation without bundles has no tab.
ReadTabs ==
    /\ page # None /\ tabs = None
    /\ tabs' = [org \in Orgs |-> OpenOf(org)]
    /\ UNCHANGED <<tables, server, seeding, clicking, page, starts, saves>>

\* The page is sent, or one of its queries failed and its part is left empty.
PageSent ==
    /\ page # None
    /\ page' = None /\ tabs' = None
    /\ UNCHANGED <<tables, server, seeding, clicking, starts, saves>>

-----------------------------------------------------------------------------
(* The pages that one query answers. *)

\* The row shown for a bundle: COALESCE makes no triage a score of 0 without health.
Shown(b) == IF analyses[b] = NoRow \/ analyses[b].triage = NoTriage
            THEN [score |-> 0, health |-> ""] ELSE analyses[b].triage

\* ORDER BY uploaded_at DESC: some order, where times are equal.
LatestFirst(bs) == CHOOSE s \in SetToSeqs(bs) :
                       \A i, j \in DOMAIN s : i < j => bundles[s[i]].at >= bundles[s[j]].at

\* GetBundlesByOrg, and GetBundlesByCustomer of a slug.
History(org) == LatestFirst({b \in Rows : bundles[b].org = org})
CustomerPage(org, slug) ==
    LatestFirst({b \in Rows : /\ bundles[b].org = org /\ bundles[b].customer # NoCustomer
                              /\ Slug[bundles[b].customer] = slug})

\* GetDistinctCustomers, for the form of the upload page.
FormNames(org) == {bundles[b].customer : b \in {x \in Rows : bundles[x].org = org}} \ {NoCustomer}

SummaryOf_Oldest(org, c) ==  \* mutant: no DESC
    Shown(Last(LatestFirst({b \in Rows : bundles[b].org = org /\ bundles[b].customer = c})))
\* GetCustomerSummaries: DISTINCT ON the customer, latest first.
SummaryOf(org, c) ==
    Shown(Head(LatestFirst({b \in Rows : bundles[b].org = org /\ bundles[b].customer = c})))

\* The health that HandleHome gives a customer, and HandleCustomerDetail.
ByScore(score) == IF score >= 70 THEN "critical" ELSE IF score >= 40 THEN "warning" ELSE "healthy"
HealthAtHome(s) == IF s.health # "" THEN s.health ELSE IF s.score = 0 THEN "" ELSE ByScore(s.score)
HealthOnPage(s) == IF s.health # "" THEN s.health ELSE ByScore(s.score)

-----------------------------------------------------------------------------
Next ==
    \/ Start \/ StartBare \/ Listen \/ Crash
    \/ SeedInsert \/ SeedTriage \/ SeedTimeline \/ SeedRCA \/ SeedFails
    \/ \E u \in Uploads, org \in Orgs, c \in Customers \cup {NoCustomer} : Upload(u, org, c)
    \/ \E b \in Bundles : \/ \E t \in Triages : SaveTriage(b, t)
                          \/ \E column \in {"timeline", "rca"} : SaveOther(b, column)
                          \/ \E k \in Clicks : ReadStatus(k, b)
    \/ \E k \in Clicks : WriteStatus(k) \/ WriteFails(k)
    \/ ReadInbox \/ ReadTabs \/ PageSent

Spec == Init /\ [][Next]_vars
-----------------------------------------------------------------------------
(* Properties. *)

TypeOK == /\ bundles \in [Bundles -> BundleRows \cup {NoRow}]
          /\ analyses \in [Bundles -> AnalysisRows \cup {NoRow}]
          /\ server \in {"down", "seeding", "up", "bare"}
          /\ entry \in 1..(Len(Entries) + 1)
          /\ step \in {"insert", "triage", "timeline", "rca"}
          /\ click \in [Clicks -> [bundle : Bundles, was : Statuses] \cup {None}]
          /\ clicked \in SUBSET Clicks
          /\ page \in [open : [Orgs -> Nat], writes : Nat] \cup {None}
          /\ tabs \in [Orgs -> Nat] \cup {None}
          /\ starts \in 0..MaxStarts /\ saves \in 0..MaxSaves
          /\ seeded \in SUBSET Seeds
          /\ expected \in [Bundles -> Statuses]

\* Clicks move a bundle around the cycle one status each, through failed updates,
\* crashes and the seeding of later starts, unless one of them finds it moved by
\* another between its two statements, when the cycle goes on from what it writes.
ClicksCycle == \A b \in Rows : bundles[b].status = expected[b]

\* An entry seeded without an error in this start is whole: whatever a failure, a
\* crash or the report pages of earlier starts left of it, it has its row, all of
\* its phases, and, until the server listens, the triage of the demo data.
SeedingRepairs ==
    \A n \in DOMAIN Entries : Entries[n].id \in seeded =>
        LET e == Entries[n]
        IN  /\ bundles[e.id] # NoRow /\ analyses[e.id] # NoRow
            /\ analyses[e.id].triage # NoTriage
            /\ analyses[e.id].others = {"timeline", "rca"}
            /\ server = "seeding" => analyses[e.id].triage = e.triage

\* Demo data put in by a later start than an upload's does not pass for newer: on
\* the page of a customer the bundles of users come before those of the demo data.
DemoDataIsOlder ==
    server = "up" => \A org \in Orgs, c \in Customers :
        LET shown == CustomerPage(org, Slug[c])
        IN  \A i, j \in DOMAIN shown : shown[i] \in Seeds /\ shown[j] \in Uploads => i > j

\* A customer listed at home or in the upload form has a page.  At the top of the
\* page is what home says of the customer, or of one with the same slug and a later
\* bundle, but for a latest bundle without triage, which home calls pending and the
\* page healthy; and the history lists the same bundles in the same order.  (An
\* organisation without such a customer is shown a fixed list at home.)
DashboardsAgree ==
    server = "up" => \A org \in Orgs : \A c \in FormNames(org) :
        LET shown == CustomerPage(org, Slug[c])
            namesakes == {d \in FormNames(org) : Slug[d] = Slug[c]}
            atHome == SummaryOf(org, c)
        IN  /\ shown # <<>>
            /\ \E d \in namesakes : Shown(shown[1]) = SummaryOf(org, d)
            /\ namesakes = {c} => /\ Shown(shown[1]) = atHome
                                  /\ \/ HealthOnPage(atHome) = HealthAtHome(atHome)
                                     \/ atHome.score = 0 /\ atHome.health = ""
            /\ shown = Filtered(History(org), Range(shown))

\* The number of open bundles in the tabs of a platform page is that of its inbox,
\* give or take the writes that came between the two queries.
TabsAgreeWithInbox ==
    tabs # None => \A org \in Orgs : /\ tabs[org] - page.open[org] <= page.writes
                                     /\ page.open[org] - tabs[org] <= page.writes
===============================================================================
