-------------------------- MODULE Dashboards_proofs --------------------------
(***************************************************************************)
(* Type correctness of the tables behind the dashboards, that clicks move  *)
(* bundles around the cycle of their workflow, that seeding repairs what   *)
(* earlier starts left, and that the two queries of a platform page agree, *)
(* for any demo data, uploads, organisations and clicks, and any number of *)
(* starts and saves.                                                       *)
(***************************************************************************)
EXTENDS Dashboards, DataInduction

\* The times an upload comes after, which have a latest one.
Earlier == {FirstUpload - 1} \cup {bundles[b].at : b \in Rows}
HasLatest == \E m \in Earlier : \A t \in Earlier : t <= m

\* The bundle a click has read is never deleted.
ClicksHaveRows == \A k \in Clicks : click[k] # None => click[k].bundle \in Rows

TInv == TypeOK /\ HasLatest /\ ClicksHaveRows
-----------------------------------------------------------------------------
LEMMA SuccessorType == \A status \in Statuses : Successor(status) \in Statuses
BY DEF Successor, Statuses

\* An upload's time is after all others.
LEMMA UploadTime ==
    ASSUME TInv
    PROVE  /\ Max(Earlier) + 1 \in Nat
           /\ Max(Earlier) + 1 >= FirstUpload
           /\ \A b \in Rows : bundles[b].at < Max(Earlier) + 1
<1> USE DashboardsAssumption
<1>1. Earlier \subseteq Int
  BY DEF TInv, TypeOK, BundleRows, Earlier, Rows
<1>2. Max(Earlier) \in Earlier /\ \A t \in Earlier : Max(Earlier) >= t
  <2>1. PICK m \in Earlier : \A t \in Earlier : m >= t
    BY <1>1 DEF TInv, HasLatest
  <2>2. QED
    BY <2>1 DEF Max
<1>3. FirstUpload - 1 <= Max(Earlier)
  BY <1>2 DEF Earlier
<1>4. \A b \in Rows : bundles[b].at <= Max(Earlier)
  BY <1>2 DEF Earlier
<1>5. \A b \in Rows : bundles[b].at \in Nat
  BY DEF TInv, TypeOK, BundleRows, Rows
<1>6. Max(Earlier) \in Int /\ FirstUpload \in Nat
  BY <1>1, <1>2
<1> HIDE DashboardsAssumption
<1>7. Max(Earlier) + 1 \in Nat
  BY <1>3, <1>6
<1>8. \A b \in Rows : bundles[b].at < Max(Earlier) + 1
  BY <1>4, <1>5, <1>6
<1>9. Max(Earlier) + 1 >= FirstUpload
  BY <1>3, <1>6
<1>10. QED
  BY <1>7, <1>8, <1>9

\* A row that is put in, or changed without its time, leaves a latest time.
LEMMA InsertKeepsLatest ==
    ASSUME TInv, NEW b \in Bundles, NEW row \in BundleRows,
           bundles' = [bundles EXCEPT ![b] = row],
           bundles[b] = NoRow \/ row.at = bundles[b].at
    PROVE  HasLatest'
<1> USE DashboardsAssumption
<1>1. row # NoRow /\ row.at \in Nat
  BY DEF BundleRows
<1>2. Rows' = Rows \cup {b}
  BY <1>1 DEF Rows, TInv, TypeOK
<1>3. Earlier' = Earlier \cup {row.at}
  <2>1. \A c \in Rows \ {b} : bundles'[c] = bundles[c]
    BY DEF Rows
  <2>2. bundles'[b] = row
    BY DEF TInv, TypeOK
  <2>3. b \in Rows => bundles[b].at = row.at
    BY DEF Rows
  <2>4. QED
    BY <1>2, <2>1, <2>2, <2>3 DEF Earlier
<1>4. Earlier \subseteq Int
  BY DEF TInv, TypeOK, BundleRows, Earlier, Rows
<1>5. PICK m \in Earlier : \A t \in Earlier : t <= m
  BY DEF TInv, HasLatest
<1>6. CASE row.at <= m
  BY <1>3, <1>5, <1>6 DEF HasLatest
<1>7. CASE row.at > m
  BY <1>1, <1>3, <1>4, <1>5, <1>7 DEF HasLatest
<1>8. QED
  BY <1>1, <1>4, <1>5, <1>6, <1>7

\* What Insert leaves well typed.
LEMMA InsertType ==
    ASSUME TInv, NEW b \in Bundles, NEW row \in BundleRows, Insert(b, row),
           bundles[b] = NoRow \/ row.at = bundles[b].at
    PROVE  /\ bundles' \in [Bundles -> BundleRows \cup {NoRow}]
           /\ page' \in [open : [Orgs -> Nat], writes : Nat] \cup {None}
           /\ tabs' \in [Orgs -> Nat] \cup {None}
           /\ HasLatest'
<1>1. bundles' = [bundles EXCEPT ![b] = row] /\ tabs' = tabs
  BY DEF Insert
<1>2. page' \in [open : [Orgs -> Nat], writes : Nat] \cup {None}
  BY DEF Insert, TInv, TypeOK
<1>3. HasLatest'
  BY <1>1, InsertKeepsLatest
<1>4. QED
  BY <1>1, <1>2, <1>3 DEF TInv, TypeOK

LEMMA TriageType ==
    ASSUME TypeOK, NEW b \in Bundles, NEW t \in Triages, Triage(b, t)
    PROVE  analyses' \in [Bundles -> AnalysisRows \cup {NoRow}]
BY DEF Triage, TypeOK, AnalysisRows

LEMMA OtherType ==
    ASSUME TypeOK, NEW b \in Bundles, NEW column \in {"timeline", "rca"}, Other(b, column)
    PROVE  analyses' \in [Bundles -> AnalysisRows \cup {NoRow}]
<1> DEFINE row == IF analyses[b] = NoRow THEN [triage |-> NoTriage, others |-> {column}]
                  ELSE [triage |-> analyses[b].triage, others |-> analyses[b].others \cup {column}]
<1>1. ASSUME analyses[b] = NoRow
      PROVE  row \in AnalysisRows
  BY <1>1 DEF AnalysisRows
<1>2. ASSUME analyses[b] # NoRow
      PROVE  row \in AnalysisRows
  <2>1. analyses[b] \in AnalysisRows
    BY <1>2 DEF TypeOK
  <2>2. [triage |-> analyses[b].triage, others |-> analyses[b].others \cup {column}] \in AnalysisRows
    BY <2>1 DEF AnalysisRows
  <2>3. QED
    BY <1>2, <2>2
<1>3. row \in AnalysisRows
  BY <1>1, <1>2
<1>4. analyses' = [analyses EXCEPT ![b] = row]
  BY DEF Other
<1>5. analyses \in [Bundles -> AnalysisRows \cup {NoRow}]
  BY DEF TypeOK
<1> HIDE DEF row
<1>6. QED
  BY ONLY b \in Bundles, <1>3, <1>4, <1>5

\* The entry being seeded, and the row it stands for.
LEMMA EntryType ==
    ASSUME TypeOK, entry <= Len(Entries)
    PROVE  /\ entry \in DOMAIN Entries
           /\ Entries[entry].id \in Seeds
           /\ Entries[entry].id \in Bundles
           /\ Entries[entry].triage \in Triages
           /\ [org |-> Entries[entry].org, customer |-> Entries[entry].customer,
               at |-> Entries[entry].at, status |-> "new"] \in BundleRows
<1>1. entry \in DOMAIN Entries
  BY DashboardsAssumption DEF TypeOK
<1>2. Entries[entry] \in [id : Seeds, org : Orgs, customer : Names, at : Nat, triage : Triages]
  <2> DEFINE E == [id : Seeds, org : Orgs, customer : Names, at : Nat, triage : Triages]
  <2>1. Entries \in Seq(E)
    BY DashboardsAssumption
  <2> HIDE DEF E
  <2>2. Entries[entry] \in E
    BY <1>1, <2>1
  <2>3. QED
    BY <2>2 DEF E
<1>3. Entries[entry].id \in Bundles
  BY <1>2 DEF Bundles
<1>4. Entries[entry].customer \in Names
  BY <1>2
<1>5. [org |-> Entries[entry].org, customer |-> Entries[entry].customer,
       at |-> Entries[entry].at, status |-> "new"] \in BundleRows
  BY <1>2, <1>4 DEF BundleRows, Statuses
<1>6. QED
  BY <1>1, <1>2, <1>3, <1>5

\* A step leaves table bundles alone, and then the page as it is but for its own
\* queries and its end, or inserts or updates one row.
LEMMA TableWrites ==
    ASSUME TInv, [Next]_vars
    PROVE  \/ \E b \in Bundles, row \in BundleRows : Insert(b, row)
           \/ /\ bundles' = bundles
              /\ \/ UNCHANGED viewing
                 \/ ReadInbox \/ ReadTabs
                 \/ page' = None /\ tabs' = None
<1>1. CASE SeedInsert
  <2>1. entry <= Len(Entries) /\ TypeOK
    BY <1>1 DEF SeedInsert, Seeding, TInv
  <2>2. CASE bundles[Entries[entry].id] # NoRow
    BY <1>1, <2>2 DEF SeedInsert
  <2>3. CASE bundles[Entries[entry].id] = NoRow
    BY <1>1, <2>1, <2>3, EntryType DEF SeedInsert
  <2>4. QED
    BY <2>2, <2>3
<1>2. ASSUME NEW u \in Uploads, NEW org \in Orgs, NEW c \in Customers \cup {NoCustomer},
             Upload(u, org, c)
      PROVE  \E b \in Bundles, row \in BundleRows : Insert(b, row)
  <2> DEFINE new == [org |-> org, customer |-> c, status |-> "new", at |-> Max(Earlier) + 1]
  <2>1. new \in BundleRows
    BY UploadTime DEF BundleRows, Names, Statuses
  <2>2. Insert(u, new)
    BY <1>2 DEF Upload, Earlier
  <2>3. QED
    BY <2>1, <2>2 DEF Bundles
<1>3. ASSUME NEW k \in Clicks, WriteStatus(k)
      PROVE  \E b \in Bundles, row \in BundleRows : Insert(b, row)
  <2> DEFINE read == click[k].bundle
             new == [bundles[read] EXCEPT !.status = Successor(click[k].was)]
  <2>1. read \in Rows /\ read \in Bundles /\ click[k].was \in Statuses
    BY <1>3 DEF WriteStatus, TInv, ClicksHaveRows, TypeOK, Rows
  <2>2. bundles[read] \in BundleRows
    BY <2>1 DEF TInv, TypeOK, Rows
  <2>3. new \in BundleRows
    BY <2>1, <2>2, SuccessorType DEF BundleRows
  <2>4. QED
    BY <1>3, <2>1, <2>3 DEF WriteStatus
<1>4. QED
  BY <1>1, <1>2, <1>3
     DEF Next, vars, viewing, tables, Start, StartBare, Listen, Crash, SeedTriage, SeedTimeline, SeedRCA,
         SeedFails, SaveTriage, SaveOther, ReadStatus, WriteFails, ReadInbox, ReadTabs, PageSent

\* No step deletes a row.
LEMMA RowsStay ==
    ASSUME TInv, [Next]_vars
    PROVE  Rows \subseteq Rows'
<1>1. ASSUME NEW b \in Bundles, NEW row \in BundleRows, Insert(b, row)
      PROVE  Rows \subseteq Rows'
  <2>1. row # NoRow
    BY DashboardsAssumption
  <2>2. QED
    BY <1>1, <2>1 DEF Insert, Rows, TInv, TypeOK
<1>2. QED
  BY <1>1, TableWrites DEF Rows

LEMMA OpenType == \A org \in Orgs : OpenOf(org) \in Nat
<1> SUFFICES ASSUME NEW org \in Orgs
             PROVE  OpenOf(org) \in Nat
  OBVIOUS
<1> DEFINE open == {b \in Rows : bundles[b].org = org /\ bundles[b].status # "resolved"}
<1>1. open \subseteq Bundles
  BY DEF Rows
<1>2. IsFiniteSet(open)
  BY <1>1, DashboardsAssumption, FS_Subset
<1>3. QED
  BY <1>2, FS_CardinalityType DEF OpenOf
-----------------------------------------------------------------------------
LEMMA TypeInvariant == Spec => []TInv
<1>1. Init => TInv
  <2> SUFFICES ASSUME Init PROVE TInv
    OBVIOUS
  <2> USE DashboardsAssumption DEF Init
  <2>1. TypeOK
    BY DEF TypeOK, Statuses
  <2>2. Earlier = {FirstUpload - 1}
    BY DEF Earlier, Rows
  <2>3. HasLatest
    BY <2>2 DEF HasLatest
  <2>4. ClicksHaveRows
    BY DEF ClicksHaveRows
  <2>5. QED
    BY <2>1, <2>3, <2>4 DEF TInv
<1>2. TInv /\ [Next]_vars => TypeOK' /\ HasLatest'
  <2> SUFFICES ASSUME TInv, [Next]_vars
               PROVE  TypeOK' /\ HasLatest'
    OBVIOUS
  <2>a. TypeOK
    BY DEF TInv
  <2>b. ASSUME bundles' = bundles
        PROVE  HasLatest'
    BY <2>b DEF TInv, HasLatest, Earlier, Rows
  <2> USE <2>a
  <2>1. CASE Start
    BY <2>1, <2>b, DashboardsAssumption DEF Start, tables, clicking, viewing, TypeOK
  <2>2. CASE StartBare
    BY <2>2, <2>b, DashboardsAssumption DEF StartBare, tables, seeding, clicking, viewing, TypeOK
  <2>3. CASE Listen
    BY <2>3, <2>b DEF Listen, tables, seeding, clicking, viewing, TypeOK
  <2>4. CASE Crash
    BY <2>4, <2>b, DashboardsAssumption DEF Crash, tables, TypeOK
  <2>5. CASE SeedInsert
    <3>1. entry <= Len(Entries)
      BY <2>5 DEF SeedInsert, Seeding
    <3>2. CASE bundles[Entries[entry].id] # NoRow
      BY <2>5, <3>2, <2>b DEF SeedInsert, SeedUnchanged, clicking, viewing, TypeOK
    <3>3. CASE bundles[Entries[entry].id] = NoRow
      <4> DEFINE e == Entries[entry]
                 row == [org |-> e.org, customer |-> e.customer, at |-> e.at, status |-> "new"]
      <4>1. Insert(e.id, row)
        BY <2>5, <3>3 DEF SeedInsert
      <4>2. /\ bundles' \in [Bundles -> BundleRows \cup {NoRow}]
            /\ page' \in [open : [Orgs -> Nat], writes : Nat] \cup {None}
            /\ tabs' \in [Orgs -> Nat] \cup {None}
            /\ HasLatest'
        BY <3>1, <3>3, <4>1, EntryType, InsertType
      <4>3. QED
        BY <2>5, <4>2 DEF SeedInsert, SeedUnchanged, clicking, TypeOK
    <3>4. QED
      BY <3>2, <3>3
  <2>6. CASE SeedTriage
    <3>1. analyses' \in [Bundles -> AnalysisRows \cup {NoRow}]
      BY <2>6, EntryType, TriageType DEF SeedTriage, Seeding
    <3>2. QED
      BY <2>6, <2>b, <3>1 DEF SeedTriage, SeedUnchanged, clicking, viewing, TypeOK
  <2>7. CASE SeedTimeline
    <3>1. analyses' \in [Bundles -> AnalysisRows \cup {NoRow}]
      BY <2>7, EntryType, OtherType DEF SeedTimeline, Seeding
    <3>2. QED
      BY <2>7, <2>b, <3>1 DEF SeedTimeline, SeedUnchanged, clicking, viewing, TypeOK
  <2>8. CASE SeedRCA
    <3>1. analyses' \in [Bundles -> AnalysisRows \cup {NoRow}]
      BY <2>8, EntryType, OtherType DEF SeedRCA, Seeding
    <3>2. entry' \in 1..(Len(Entries) + 1) /\ seeded' \in SUBSET Seeds
      BY <2>8, EntryType, DashboardsAssumption DEF SeedRCA, Seeding, TypeOK
    <3>3. QED
      BY <2>8, <2>b, <3>1, <3>2 DEF SeedRCA, SeedUnchanged, clicking, viewing, TypeOK
  <2>9. CASE SeedFails
    <3>1. entry' \in 1..(Len(Entries) + 1)
      BY <2>9, DashboardsAssumption DEF SeedFails, TypeOK
    <3>2. QED
      BY <2>9, <2>b, <3>1 DEF SeedFails, SeedUnchanged, tables, clicking, viewing, TypeOK
  <2>10. ASSUME NEW u \in Uploads, NEW org \in Orgs, NEW c \in Customers \cup {NoCustomer},
                Upload(u, org, c)
         PROVE  TypeOK' /\ HasLatest'
    <3> DEFINE row == [org |-> org, customer |-> c, status |-> "new", at |-> Max(Earlier) + 1]
    <3>1. Insert(u, row) /\ bundles[u] = NoRow
      BY <2>10 DEF Upload, Earlier
    <3>2. row \in BundleRows
      BY UploadTime DEF BundleRows, Names, Statuses
    <3>3. /\ bundles' \in [Bundles -> BundleRows \cup {NoRow}]
          /\ page' \in [open : [Orgs -> Nat], writes : Nat] \cup {None}
          /\ tabs' \in [Orgs -> Nat] \cup {None}
          /\ HasLatest'
      BY <3>1, <3>2, InsertType DEF Bundles
    <3>4. QED
      BY <2>10, <3>3 DEF Upload, seeding, clicking, TypeOK
  <2>10a. ASSUME NEW b \in Bundles, NEW t \in Triages, SaveTriage(b, t)
          PROVE  TypeOK' /\ HasLatest'
    <3>1. analyses' \in [Bundles -> AnalysisRows \cup {NoRow}]
      BY <2>10a, TriageType DEF SaveTriage
    <3>2. QED
      BY <2>10a, <2>b, <3>1, DashboardsAssumption
         DEF SaveTriage, seeding, clicking, viewing, TypeOK
  <2>11. ASSUME NEW b \in Bundles, NEW column \in {"timeline", "rca"}, SaveOther(b, column)
         PROVE  TypeOK' /\ HasLatest'
    <3>1. analyses' \in [Bundles -> AnalysisRows \cup {NoRow}]
      BY <2>11, OtherType DEF SaveOther
    <3>2. QED
      BY <2>11, <2>b, <3>1, DashboardsAssumption
         DEF SaveOther, seeding, clicking, viewing, TypeOK
  <2>12. ASSUME NEW k \in Clicks, NEW b \in Bundles, ReadStatus(k, b)
         PROVE  TypeOK' /\ HasLatest'
    <3>1. bundles[b].status \in Statuses
      BY <2>12 DEF ReadStatus, Rows, TypeOK, BundleRows
    <3>2. QED
      BY <2>12, <2>b, <3>1 DEF ReadStatus, tables, seeding, viewing, TypeOK
  <2>13. ASSUME NEW k \in Clicks, WriteStatus(k)
         PROVE  TypeOK' /\ HasLatest'
    <3> DEFINE b == click[k].bundle
               row == [bundles[b] EXCEPT !.status = Successor(click[k].was)]
    <3>1. b \in Rows /\ b \in Bundles /\ click[k].was \in Statuses
      BY <2>13 DEF WriteStatus, TInv, ClicksHaveRows, TypeOK, Rows
    <3>2. bundles[b] \in BundleRows
      BY <2>a, <3>1 DEF TypeOK, Rows
    <3>3. row \in BundleRows /\ row.at = bundles[b].at
      BY <3>1, <3>2, SuccessorType DEF BundleRows
    <3>4. Insert(b, row)
      BY <2>13 DEF WriteStatus
    <3>5. /\ bundles' \in [Bundles -> BundleRows \cup {NoRow}]
          /\ page' \in [open : [Orgs -> Nat], writes : Nat] \cup {None}
          /\ tabs' \in [Orgs -> Nat] \cup {None}
          /\ HasLatest'
      BY <3>1, <3>3, <3>4, InsertType
    <3>6. expected' \in [Bundles -> Statuses]
      BY <2>13, <3>1, SuccessorType DEF WriteStatus, TypeOK
    <3>7. QED
      BY <2>13, <3>5, <3>6 DEF WriteStatus, ClickOver, seeding, TypeOK
  <2>14. ASSUME NEW k \in Clicks, WriteFails(k)
         PROVE  TypeOK' /\ HasLatest'
    BY <2>14, <2>b DEF WriteFails, ClickOver, tables, seeding, viewing, TypeOK
  <2>15. CASE ReadInbox
    BY <2>15, <2>b, OpenType DEF ReadInbox, tables, seeding, clicking, TypeOK
  <2>16. CASE ReadTabs
    BY <2>16, <2>b, OpenType DEF ReadTabs, tables, seeding, clicking, TypeOK
  <2>17. CASE PageSent
    BY <2>17, <2>b DEF PageSent, tables, seeding, clicking, TypeOK
  <2>18. CASE UNCHANGED vars
    BY <2>18, <2>b DEF vars, tables, seeding, clicking, viewing, TypeOK
  <2>19. QED
    BY <2>1, <2>2, <2>3, <2>4, <2>5, <2>6, <2>7, <2>8, <2>9, <2>10, <2>10a, <2>11, <2>12, <2>13,
       <2>14, <2>15, <2>16, <2>17, <2>18 DEF Next
<1>3. TInv /\ TypeOK' /\ [Next]_vars => ClicksHaveRows'
  <2> SUFFICES ASSUME TInv, TypeOK', [Next]_vars, NEW k \in Clicks, click'[k] # None
               PROVE  click'[k].bundle \in Rows'
    BY DEF ClicksHaveRows
  <2>1. Rows \subseteq Rows'
    BY RowsStay
  <2>2. \/ click'[k] = click[k]
        \/ \E b \in Rows : click'[k].bundle = b
    <3>1. ASSUME click' = click \/ Crash
          PROVE  click'[k] = click[k]
      BY <3>1 DEF Crash
    <3>2. ASSUME NEW l \in Clicks, WriteStatus(l) \/ WriteFails(l)
          PROVE  click'[k] = click[k]
      BY <3>2 DEF WriteStatus, WriteFails, ClickOver, TInv, TypeOK
    <3>3. ASSUME NEW l \in Clicks, NEW b \in Bundles, ReadStatus(l, b)
          PROVE  \/ click'[k] = click[k]
                 \/ b \in Rows /\ click'[k].bundle = b
      <4>1. /\ b \in Rows
            /\ click' = [click EXCEPT ![l] = [bundle |-> b, was |-> bundles[b].status]]
        BY <3>3 DEF ReadStatus
      <4>2. click \in [Clicks -> [bundle : Bundles, was : Statuses] \cup {None}]
        BY DEF TInv, TypeOK
      <4>3. click'[k] = IF k = l THEN [bundle |-> b, was |-> bundles[b].status] ELSE click[k]
        BY ONLY <4>1, <4>2, k \in Clicks
      <4>4. QED
        BY ONLY <4>1, <4>3
    <3>4. ASSUME UNCHANGED clicking
          PROVE  click'[k] = click[k]
      BY <3>4 DEF clicking
    <3>5. ASSUME \/ Start \/ StartBare \/ Listen
                 \/ SeedInsert \/ SeedTriage \/ SeedTimeline \/ SeedRCA \/ SeedFails
                 \/ ReadInbox \/ ReadTabs \/ PageSent
          PROVE  click'[k] = click[k]
      BY <3>4, <3>5 DEF Start, StartBare, Listen, SeedInsert, SeedTriage, SeedTimeline, SeedRCA,
                        SeedFails, SeedUnchanged, ReadInbox, ReadTabs, PageSent
    <3>6. ASSUME \/ \E u \in Uploads, org \in Orgs, c \in Customers \cup {NoCustomer} :
                       Upload(u, org, c)
                 \/ \E b \in Bundles : \/ \E t \in Triages : SaveTriage(b, t)
                                       \/ \E column \in {"timeline", "rca"} : SaveOther(b, column)
          PROVE  click'[k] = click[k]
      BY <3>4, <3>6 DEF Upload, SaveTriage, SaveOther
    <3>7. QED
      BY <3>1, <3>2, <3>3, <3>5, <3>6 DEF Next, vars, clicking
  <2>3. QED
    BY <2>1, <2>2 DEF TInv, ClicksHaveRows
<1>4. QED
  BY <1>1, <1>2, <1>3, PTL DEF Spec, TInv

\* The tables, the start and the requests keep their types, uploads' times
\* included, which are computed from all rows.
THEOREM TypeCorrect == Spec => []TypeOK
<1>1. TInv => TypeOK
  BY DEF TInv
<1>2. QED
  BY <1>1, TypeInvariant, PTL
-----------------------------------------------------------------------------
\* A bundle that is not there yet will be new.
FreshAreNew == \A b \in Bundles : bundles[b] = NoRow => expected[b] = "new"

CInv == ClicksCycle /\ FreshAreNew

\* A new row, or a status changed together with what is expected.
LEMMA InsertCycles ==
    ASSUME TInv, CInv, NEW b \in Bundles, NEW row \in BundleRows, Insert(b, row),
           \A c \in Bundles : expected'[c] = IF c = b THEN row.status ELSE expected[c]
    PROVE  CInv'
<1>1. bundles' = [bundles EXCEPT ![b] = row]
  BY DEF Insert
<1>2. \A c \in Bundles : bundles'[c] = IF c = b THEN row ELSE bundles[c]
  BY <1>1 DEF TInv, TypeOK
<1>3. row # NoRow
  BY DashboardsAssumption
<1>4. \A c \in Bundles : bundles'[c] # NoRow => bundles'[c].status = expected'[c]
  BY <1>2 DEF CInv, ClicksCycle, Rows
<1>5. \A c \in Bundles : bundles'[c] = NoRow => expected'[c] = "new"
  BY <1>2, <1>3 DEF CInv, FreshAreNew
<1>6. QED
  BY <1>4, <1>5 DEF CInv, ClicksCycle, FreshAreNew, Rows

\* A click moves the status it read one step, and nothing but a click moves one:
\* neither a crash between its two statements nor seeding.
THEOREM ClicksMoveInCycles == Spec => []ClicksCycle
<1>1. Init => CInv
  BY DEF Init, CInv, ClicksCycle, FreshAreNew, Rows
<1>2. TInv /\ CInv /\ [Next]_vars => CInv'
  <2> SUFFICES ASSUME TInv, CInv, [Next]_vars
               PROVE  CInv'
    OBVIOUS
  <2>1. ASSUME bundles' = bundles, expected' = expected
        PROVE  CInv'
    BY <2>1 DEF CInv, ClicksCycle, FreshAreNew, Rows
  <2>2. CASE SeedInsert
    <3>1. entry <= Len(Entries) /\ expected' = expected /\ TypeOK
      BY <2>2 DEF SeedInsert, SeedUnchanged, clicking, Seeding, TInv
    <3>2. CASE bundles[Entries[entry].id] # NoRow
      BY <2>1, <2>2, <3>1, <3>2 DEF SeedInsert
    <3>3. CASE bundles[Entries[entry].id] = NoRow
      <4> DEFINE e == Entries[entry]
                 row == [org |-> e.org, customer |-> e.customer, at |-> e.at, status |-> "new"]
      <4>1. Insert(e.id, row)
        BY <2>2, <3>3 DEF SeedInsert
      <4>2. e.id \in Bundles /\ row \in BundleRows
        BY <3>1, EntryType
      <4>3. expected[e.id] = row.status
        BY <3>3, <4>2 DEF CInv, FreshAreNew
      <4>4. QED
        BY <3>1, <4>1, <4>2, <4>3, InsertCycles
    <3>4. QED
      BY <3>2, <3>3
  <2>3. ASSUME NEW u \in Uploads, NEW org \in Orgs, NEW c \in Customers \cup {NoCustomer},
               Upload(u, org, c)
        PROVE  CInv'
    <3> DEFINE row == [org |-> org, customer |-> c, status |-> "new", at |-> Max(Earlier) + 1]
    <3>1. Insert(u, row) /\ bundles[u] = NoRow /\ expected' = expected
      BY <2>3 DEF Upload, Earlier, clicking
    <3>2. u \in Bundles /\ row \in BundleRows
      BY UploadTime DEF Bundles, BundleRows, Names, Statuses
    <3>3. expected[u] = row.status
      BY <3>1, <3>2 DEF CInv, FreshAreNew
    <3>4. QED
      BY <3>1, <3>2, <3>3, InsertCycles
  <2>4. ASSUME NEW k \in Clicks, WriteStatus(k)
        PROVE  CInv'
    <3> DEFINE b == click[k].bundle
               was == click[k].was
               row == [bundles[b] EXCEPT !.status = Successor(was)]
    <3>1. b \in Rows /\ b \in Bundles /\ was \in Statuses
      BY <2>4 DEF WriteStatus, TInv, ClicksHaveRows, TypeOK, Rows
    <3>2. bundles[b] \in BundleRows /\ expected \in [Bundles -> Statuses]
      BY <3>1 DEF TInv, TypeOK, Rows
    <3>3. row \in BundleRows /\ row.status = Successor(was)
      BY <3>1, <3>2, SuccessorType DEF BundleRows
    <3>4. Insert(b, row)
      BY <2>4 DEF WriteStatus
    <3>5. expected' = [expected EXCEPT ![b] = Successor(IF bundles[b].status = was THEN @ ELSE was)]
      BY <2>4 DEF WriteStatus
    <3>6. bundles[b].status = expected[b]
      BY <3>1 DEF CInv, ClicksCycle
    <3>7. \A c \in Bundles : expected'[c] = IF c = b THEN Successor(was) ELSE expected[c]
      BY <3>1, <3>2, <3>5, <3>6
    <3>8. QED
      BY <3>1, <3>3, <3>4, <3>7, InsertCycles
  <2>5. QED
    BY <2>1, <2>2, <2>3, <2>4
       DEF Next, vars, tables, clicking, Start, StartBare, Listen, Crash, SeedTriage, SeedTimeline,
           SeedRCA, SeedFails, SeedUnchanged, SaveTriage, SaveOther, ReadStatus, WriteFails,
           ReadInbox, ReadTabs, PageSent
<1>3. CInv => ClicksCycle
  BY DEF CInv
<1>4. QED
  BY <1>1, <1>2, <1>3, TypeInvariant, PTL DEF Spec
-----------------------------------------------------------------------------
\* What the statements of the entry being seeded have done so far.
EntryIsUnderway ==
    server = "seeding" /\ entry <= Len(Entries) =>
        LET e == Entries[entry]
        IN  /\ step # "insert" => bundles[e.id] # NoRow
            /\ step \in {"timeline", "rca"} =>
                  analyses[e.id] # NoRow /\ analyses[e.id].triage = e.triage
            /\ step = "rca" => "timeline" \in analyses[e.id].others

\* Seeding is over, or under way, for what is in seeded.
SeededByServer == seeded # {} => server \in {"seeding", "up"}

RInv == SeedingRepairs /\ EntryIsUnderway /\ SeededByServer

\* What the two upserts do to a row of analyses.
LEMMA TriageRow ==
    ASSUME TypeOK, NEW b \in Bundles, NEW t \in Triages, Triage(b, t)
    PROVE  /\ \A c \in Bundles : c # b => analyses'[c] = analyses[c]
           /\ analyses'[b] # NoRow /\ analyses'[b].triage = t
           /\ analyses[b] # NoRow => analyses'[b].others = analyses[b].others
<1>1. analyses'[b] = IF analyses[b] = NoRow THEN [triage |-> t, others |-> {}]
                     ELSE [analyses[b] EXCEPT !.triage = t]
  BY DEF Triage, TypeOK
<1>2. \A c \in Bundles : c # b => analyses'[c] = analyses[c]
  BY DEF Triage, TypeOK
<1>3. analyses'[b] \in AnalysisRows
  <2>1. CASE analyses[b] = NoRow
    BY <1>1, <2>1 DEF AnalysisRows
  <2>2. CASE analyses[b] # NoRow
    BY <1>1, <2>2 DEF AnalysisRows, TypeOK
  <2>3. QED
    BY <2>1, <2>2
<1>4. analyses'[b] # NoRow
  BY <1>3, DashboardsAssumption
<1>5. analyses[b] # NoRow => analyses[b] \in AnalysisRows
  BY DEF TypeOK
<1>6. /\ analyses'[b].triage = t
      /\ analyses[b] # NoRow => analyses'[b].others = analyses[b].others
  BY <1>1, <1>5 DEF AnalysisRows
<1>7. QED
  BY <1>2, <1>4, <1>6

LEMMA OtherRow ==
    ASSUME TypeOK, NEW b \in Bundles, NEW column \in {"timeline", "rca"}, Other(b, column)
    PROVE  /\ \A c \in Bundles : c # b => analyses'[c] = analyses[c]
           /\ analyses'[b] # NoRow
           /\ analyses[b] # NoRow => /\ analyses'[b].triage = analyses[b].triage
                                    /\ analyses'[b].others = analyses[b].others \cup {column}
<1>1. analyses'[b] = IF analyses[b] = NoRow THEN [triage |-> NoTriage, others |-> {column}]
                     ELSE [triage |-> analyses[b].triage, others |-> analyses[b].others \cup {column}]
  BY DEF Other, TypeOK
<1>2. \A c \in Bundles : c # b => analyses'[c] = analyses[c]
  BY DEF Other, TypeOK
<1>3. analyses[b] # NoRow => analyses[b] \in AnalysisRows
  BY DEF TypeOK
<1>4. analyses'[b] \in AnalysisRows
  BY <1>1, <1>3 DEF AnalysisRows
<1>5. analyses'[b] # NoRow
  BY <1>4, DashboardsAssumption
<1>6. QED
  BY <1>1, <1>2, <1>5

\* Whatever a failed or interrupted seeding left of an entry, the next one that gets
\* through without an error makes it whole, and no report page takes that away.
THEOREM SeedingRepairsEntries == Spec => []SeedingRepairs
<1>1. Init => RInv
  BY DEF Init, RInv, SeedingRepairs, EntryIsUnderway, SeededByServer
<1>2. TInv /\ TInv' /\ RInv /\ [Next]_vars => RInv'
  <2> SUFFICES ASSUME TInv, TInv', RInv, [Next]_vars
               PROVE  RInv'
    OBVIOUS
  <2>a. TypeOK /\ \A n \in DOMAIN Entries : Entries[n].id \in Bundles
    BY DEF TInv, Bundles, Seeds
  <2>b. \A b \in Bundles : bundles[b] # NoRow => bundles'[b] # NoRow
    BY RowsStay DEF Rows
  <2>1. CASE UNCHANGED <<analyses, server, seeding>>
    BY <2>1, <2>a, <2>b, EntryType
       DEF RInv, SeedingRepairs, EntryIsUnderway, SeededByServer, seeding
  <2>2. CASE Start \/ StartBare \/ Crash
    <3>1. seeded' = {}
      BY <2>2 DEF Start, StartBare, Crash, RInv, SeededByServer, seeding
    <3>2. server' # "seeding" \/ step' = "insert"
      BY <2>2 DEF Start, StartBare, Crash
    <3>3. QED
      BY <3>1, <3>2 DEF RInv, SeedingRepairs, EntryIsUnderway, SeededByServer
  <2>3. CASE Listen
    BY <2>3 DEF Listen, tables, seeding, RInv, SeedingRepairs, EntryIsUnderway, SeededByServer
  <2>4. CASE SeedInsert
    <3>1. server = "seeding" /\ entry <= Len(Entries)
      BY <2>4 DEF SeedInsert, Seeding
    <3>2. UNCHANGED <<analyses, server, entry, seeded>> /\ step' = "triage"
      BY <2>4 DEF SeedInsert, SeedUnchanged
    <3>3. bundles'[Entries[entry].id] # NoRow
      <4> DEFINE e == Entries[entry]
                 row == [org |-> e.org, customer |-> e.customer, at |-> e.at, status |-> "new"]
      <4>1. e.id \in Bundles /\ row \in BundleRows
        BY <2>a, <3>1, EntryType
      <4>2. CASE bundles[e.id] # NoRow
        BY <2>b, <4>1, <4>2
      <4>3. CASE bundles[e.id] = NoRow
        <5>1. bundles' = [bundles EXCEPT ![e.id] = row]
          BY <2>4, <4>3 DEF SeedInsert, Insert
        <5>2. row # NoRow
          BY <4>1, DashboardsAssumption
        <5> HIDE DEF e, row
        <5>3. bundles'[e.id] = row
          BY <2>a, <4>1, <5>1 DEF TypeOK
        <5>4. QED
          BY <5>2, <5>3 DEF e
      <4>4. QED
        BY <4>2, <4>3
    <3>4. SeedingRepairs'
      BY <2>a, <2>b, <3>2 DEF RInv, SeedingRepairs
    <3>5. QED
      BY <3>2, <3>3, <3>4 DEF RInv, EntryIsUnderway, SeededByServer
  <2>5. CASE SeedTriage
    <3> DEFINE e == Entries[entry]
    <3>1. server = "seeding" /\ entry <= Len(Entries) /\ bundles[e.id] # NoRow
      BY <2>5 DEF SeedTriage, Seeding, RInv, EntryIsUnderway
    <3>2. UNCHANGED <<bundles, server, entry, seeded>> /\ step' = "timeline"
      BY <2>5 DEF SeedTriage, SeedUnchanged
    <3>3. entry \in DOMAIN Entries /\ e.id \in Bundles /\ e.triage \in Triages
      BY <2>a, <3>1, EntryType
    <3>4. /\ \A c \in Bundles : c # e.id => analyses'[c] = analyses[c]
          /\ analyses'[e.id] # NoRow /\ analyses'[e.id].triage = e.triage
          /\ analyses[e.id] # NoRow => analyses'[e.id].others = analyses[e.id].others
      BY <2>5, <2>a, <3>3, TriageRow DEF SeedTriage
    <3>5. SeedingRepairs'
      <4> SUFFICES ASSUME NEW n \in DOMAIN Entries, Entries[n].id \in seeded
                   PROVE  /\ bundles[Entries[n].id] # NoRow /\ analyses'[Entries[n].id] # NoRow
                          /\ analyses'[Entries[n].id].triage # NoTriage
                          /\ analyses'[Entries[n].id].others = {"timeline", "rca"}
                          /\ analyses'[Entries[n].id].triage = Entries[n].triage
        BY <3>2 DEF SeedingRepairs
      <4>1. /\ bundles[Entries[n].id] # NoRow /\ analyses[Entries[n].id] # NoRow
            /\ analyses[Entries[n].id].triage # NoTriage
            /\ analyses[Entries[n].id].others = {"timeline", "rca"}
            /\ analyses[Entries[n].id].triage = Entries[n].triage
        BY <3>1 DEF RInv, SeedingRepairs
      <4>2. CASE n = entry
        BY <3>3, <3>4, <4>1, <4>2
      <4>3. CASE n # entry
        BY <2>a, <3>3, <3>4, <4>1, <4>3, DashboardsAssumption
      <4>4. QED
        BY <4>2, <4>3
    <3>6. QED
      BY <3>1, <3>2, <3>3, <3>4, <3>5 DEF RInv, EntryIsUnderway, SeededByServer
  <2>6. CASE SeedTimeline
    <3> DEFINE e == Entries[entry]
    <3>1. /\ server = "seeding" /\ entry <= Len(Entries) /\ bundles[e.id] # NoRow
          /\ analyses[e.id] # NoRow /\ analyses[e.id].triage = e.triage
      BY <2>6 DEF SeedTimeline, Seeding, RInv, EntryIsUnderway
    <3>2. UNCHANGED <<bundles, server, entry, seeded>> /\ step' = "rca"
      BY <2>6 DEF SeedTimeline, SeedUnchanged
    <3>3. e.id \in Bundles
      BY <2>a, <3>1, EntryType
    <3>4. /\ \A c \in Bundles : c # e.id => analyses'[c] = analyses[c]
          /\ analyses'[e.id] # NoRow
          /\ analyses'[e.id].triage = analyses[e.id].triage
          /\ analyses'[e.id].others = analyses[e.id].others \cup {"timeline"}
      BY <2>6, <2>a, <3>1, <3>3, OtherRow DEF SeedTimeline
    <3>5. ASSUME NEW n \in DOMAIN Entries, Entries[n].id \in seeded
          PROVE  /\ bundles[Entries[n].id] # NoRow /\ analyses'[Entries[n].id] # NoRow
                 /\ analyses'[Entries[n].id].triage # NoTriage
                 /\ analyses'[Entries[n].id].others = {"timeline", "rca"}
                 /\ analyses'[Entries[n].id].triage = Entries[n].triage
      <4>1. /\ bundles[Entries[n].id] # NoRow /\ analyses[Entries[n].id] # NoRow
            /\ analyses[Entries[n].id].triage # NoTriage
            /\ analyses[Entries[n].id].others = {"timeline", "rca"}
            /\ analyses[Entries[n].id].triage = Entries[n].triage
        BY <3>1, <3>5 DEF RInv, SeedingRepairs
      <4>2. CASE Entries[n].id = e.id
        BY <3>4, <4>1, <4>2
      <4>3. CASE Entries[n].id # e.id
        BY <2>a, <3>4, <4>1, <4>3
      <4>4. QED
        BY <4>2, <4>3
    <3>6. SeedingRepairs'
      BY <3>2, <3>5 DEF SeedingRepairs
    <3>7. QED
      BY <3>1, <3>2, <3>4, <3>6 DEF RInv, EntryIsUnderway, SeededByServer
  <2>7. CASE SeedRCA
    <3> DEFINE e == Entries[entry]
    <3>1. /\ server = "seeding" /\ entry <= Len(Entries) /\ bundles[e.id] # NoRow
          /\ analyses[e.id] # NoRow /\ analyses[e.id].triage = e.triage
          /\ "timeline" \in analyses[e.id].others
      BY <2>7 DEF SeedRCA, Seeding, RInv, EntryIsUnderway
    <3>2. /\ UNCHANGED <<bundles, server>> /\ step' = "insert"
          /\ seeded' = seeded \cup {e.id}
      BY <2>7 DEF SeedRCA, SeedUnchanged
    <3>3. entry \in DOMAIN Entries /\ e.id \in Bundles /\ e.triage \in Triages
      BY <2>a, <3>1, EntryType
    <3>4. /\ \A c \in Bundles : c # e.id => analyses'[c] = analyses[c]
          /\ analyses'[e.id] # NoRow
          /\ analyses'[e.id].triage = analyses[e.id].triage
          /\ analyses'[e.id].others = analyses[e.id].others \cup {"rca"}
      BY <2>7, <2>a, <3>1, <3>3, OtherRow DEF SeedRCA
    <3>5. ASSUME NEW n \in DOMAIN Entries, Entries[n].id \in seeded
          PROVE  /\ bundles[Entries[n].id] # NoRow /\ analyses'[Entries[n].id] # NoRow
                 /\ analyses'[Entries[n].id].triage # NoTriage
                 /\ analyses'[Entries[n].id].others = {"timeline", "rca"}
                 /\ analyses'[Entries[n].id].triage = Entries[n].triage
      <4>1. /\ bundles[Entries[n].id] # NoRow /\ analyses[Entries[n].id] # NoRow
            /\ analyses[Entries[n].id].triage # NoTriage
            /\ analyses[Entries[n].id].others = {"timeline", "rca"}
            /\ analyses[Entries[n].id].triage = Entries[n].triage
        BY <3>1, <3>5 DEF RInv, SeedingRepairs
      <4>2. CASE Entries[n].id = e.id
        BY <3>4, <4>1, <4>2
      <4>3. CASE Entries[n].id # e.id
        BY <2>a, <3>4, <4>1, <4>3
      <4>4. QED
        BY <4>2, <4>3
    <3>6. /\ analyses'[e.id].triage = e.triage /\ e.triage # NoTriage
          /\ analyses'[e.id].others = {"timeline", "rca"}
      <4>1. analyses[e.id] \in AnalysisRows
        BY <2>a, <3>1, <3>3 DEF TypeOK
      <4>2. analyses[e.id].others \subseteq {"timeline", "rca"}
        BY <4>1 DEF AnalysisRows
      <4>3. QED
        BY <3>1, <3>3, <3>4, <4>2, DashboardsAssumption
    <3>7. SeedingRepairs'
      <4> SUFFICES ASSUME NEW n \in DOMAIN Entries, Entries[n].id \in seeded'
                   PROVE  /\ bundles[Entries[n].id] # NoRow /\ analyses'[Entries[n].id] # NoRow
                          /\ analyses'[Entries[n].id].triage # NoTriage
                          /\ analyses'[Entries[n].id].others = {"timeline", "rca"}
                          /\ analyses'[Entries[n].id].triage = Entries[n].triage
        BY <3>2 DEF SeedingRepairs
      <4>1. CASE Entries[n].id \in seeded
        BY <3>5, <4>1
      <4>2. CASE Entries[n].id = e.id
        <5>1. n = entry
          BY <3>3, <4>2, DashboardsAssumption
        <5>2. QED
          BY <3>1, <3>4, <3>6, <5>1
      <4>3. QED
        BY <3>2, <4>1, <4>2
    <3>8. QED
      BY <3>1, <3>2, <3>7 DEF RInv, EntryIsUnderway, SeededByServer
  <2>8. CASE SeedFails
    <3>1. UNCHANGED <<bundles, analyses, server, seeded>> /\ step' = "insert"
      BY <2>8 DEF SeedFails, SeedUnchanged, tables
    <3>2. QED
      BY <3>1 DEF RInv, SeedingRepairs, EntryIsUnderway, SeededByServer
  <2>9. ASSUME NEW b \in Bundles, NEW t \in Triages, SaveTriage(b, t)
         PROVE  RInv'
    <3>1. server = "up" /\ UNCHANGED <<bundles, server, seeding>>
      BY <2>9 DEF SaveTriage
    <3>2. /\ \A c \in Bundles : c # b => analyses'[c] = analyses[c]
          /\ analyses'[b] # NoRow /\ analyses'[b].triage = t
          /\ analyses[b] # NoRow => analyses'[b].others = analyses[b].others
      BY <2>9, <2>a, TriageRow DEF SaveTriage
    <3>3. t # NoTriage
      BY DashboardsAssumption
    <3>4. QED
      BY <2>a, <3>1, <3>2, <3>3 DEF RInv, SeedingRepairs, EntryIsUnderway, SeededByServer, seeding
  <2>10. ASSUME NEW b \in Bundles, NEW column \in {"timeline", "rca"}, SaveOther(b, column)
         PROVE  RInv'
    <3>1. server = "up" /\ UNCHANGED <<bundles, server, seeding>>
      BY <2>10 DEF SaveOther
    <3>2. /\ \A c \in Bundles : c # b => analyses'[c] = analyses[c]
          /\ analyses'[b] # NoRow
          /\ analyses[b] # NoRow => /\ analyses'[b].triage = analyses[b].triage
                                   /\ analyses'[b].others = analyses[b].others \cup {column}
      BY <2>10, <2>a, OtherRow DEF SaveOther
    <3>3. QED
      BY <2>a, <3>1, <3>2 DEF RInv, SeedingRepairs, EntryIsUnderway, SeededByServer, seeding
  <2>11. QED
    BY <2>1, <2>2, <2>3, <2>4, <2>5, <2>6, <2>7, <2>8, <2>9, <2>10
       DEF Next, vars, tables, Upload, ReadStatus, WriteStatus, WriteFails, ReadInbox, ReadTabs, PageSent
<1>3. RInv => SeedingRepairs
  BY DEF RInv
<1>4. QED
  BY <1>1, <1>2, <1>3, TypeInvariant, PTL DEF Spec
-----------------------------------------------------------------------------
\* A page has its tabs after its inbox, and no more writes than it has counted have
\* moved the number of open bundles since.
InboxAges ==
    /\ tabs # None => page # None
    /\ page # None => \A org \in Orgs : /\ OpenOf(org) - page.open[org] <= page.writes
                                        /\ page.open[org] - OpenOf(org) <= page.writes

PInv == InboxAges /\ TabsAgreeWithInbox

\* One write moves the number of open bundles of an organisation by one at most.
LEMMA OneWrite ==
    ASSUME TInv, NEW b \in Bundles, NEW row \in BundleRows, Insert(b, row), NEW org \in Orgs
    PROVE  /\ OpenOf(org) \in Nat /\ OpenOf(org)' \in Nat
           /\ OpenOf(org)' - OpenOf(org) <= 1 /\ OpenOf(org) - OpenOf(org)' <= 1
<1> DEFINE open == {c \in Rows : bundles[c].org = org /\ bundles[c].status # "resolved"}
<1>1. open \subseteq Bundles /\ open' \subseteq Bundles
  BY DEF Rows
<1>2. IsFiniteSet(open) /\ IsFiniteSet(open')
  BY <1>1, DashboardsAssumption, FS_Subset
<1>3. \A c \in Bundles : c # b => bundles'[c] = bundles[c]
  BY DEF Insert, TInv, TypeOK
<1>4. open' \ {b} = open \ {b}
  BY <1>3 DEF Rows
<1>5. /\ Cardinality(open \ {b}) \in {Cardinality(open), Cardinality(open) - 1}
      /\ Cardinality(open' \ {b}) \in {Cardinality(open'), Cardinality(open') - 1}
  BY <1>2, FS_RemoveElement
<1>6. Cardinality(open) \in Nat /\ Cardinality(open') \in Nat
  BY <1>2, FS_CardinalityType
<1>7. OpenOf(org) = Cardinality(open) /\ OpenOf(org)' = Cardinality(open')
  BY DEF OpenOf
<1>8. Cardinality(open' \ {b}) = Cardinality(open \ {b})
  BY <1>4
<1>9. QED
  <2> SUFFICES ASSUME NEW m \in Nat, NEW n \in Nat, m = Cardinality(open), n = Cardinality(open'),
                      m = n \/ m = n - 1 \/ m - 1 = n \/ m - 1 = n - 1
               PROVE  n - m <= 1 /\ m - n <= 1
    BY <1>5, <1>6, <1>7, <1>8
  <2> QED
    OBVIOUS

\* The tabs of a platform page differ from its inbox by the writes between its two
\* queries at most, for any number of organisations, bundles, clicks and uploads.
THEOREM TabsFollowInbox == Spec => []TabsAgreeWithInbox
<1>1. Init => PInv
  BY DEF Init, PInv, InboxAges, TabsAgreeWithInbox
<1>2. TInv /\ TInv' /\ PInv /\ [Next]_vars => PInv'
  <2> SUFFICES ASSUME TInv, TInv', PInv, [Next]_vars
               PROVE  PInv'
    OBVIOUS
  <2>a. None \notin [open : [Orgs -> Nat], writes : Nat]
    BY DashboardsAssumption
  <2>b. page # None => page.writes \in Nat /\ \A org \in Orgs : page.open[org] \in Nat
    BY DEF TInv, TypeOK
  <2>c. tabs # None => \A org \in Orgs : tabs[org] \in Nat
    BY DEF TInv, TypeOK
  <2>1. ASSUME NEW b \in Bundles, NEW row \in BundleRows, Insert(b, row)
        PROVE  PInv'
    <3>1. tabs' = tabs /\ (page = None => page' = None)
      BY <2>1 DEF Insert
    <3>2. CASE page = None
      BY <3>1, <3>2 DEF PInv, InboxAges, TabsAgreeWithInbox
    <3>3. CASE page # None
      <4>1. page' # None /\ page'.open = page.open /\ page'.writes = page.writes + 1
        <5>1. page \in [open : [Orgs -> Nat], writes : Nat]
          BY <3>3 DEF TInv, TypeOK
        <5>2. page' = [page EXCEPT !.writes = @ + 1]
          BY <2>1, <3>3 DEF Insert
        <5>3. page' \in [open : [Orgs -> Nat], writes : Nat]
          BY <5>1, <5>2
        <5>4. QED
          BY <2>a, <5>1, <5>2, <5>3
      <4>2. ASSUME NEW org \in Orgs
            PROVE  /\ OpenOf(org)' - page'.open[org] <= page'.writes
                   /\ page'.open[org] - OpenOf(org)' <= page'.writes
        <5>1. /\ OpenOf(org) \in Nat /\ OpenOf(org)' \in Nat
              /\ OpenOf(org)' - OpenOf(org) <= 1 /\ OpenOf(org) - OpenOf(org)' <= 1
          BY <2>1, OneWrite
        <5>2. QED
          BY <2>b, <3>3, <4>1, <5>1 DEF PInv, InboxAges
      <4>3. TabsAgreeWithInbox'
        BY <2>b, <2>c, <3>1, <3>3, <4>1 DEF PInv, TabsAgreeWithInbox
      <4>4. QED
        BY <4>1, <4>2, <4>3 DEF PInv, InboxAges
    <3>4. QED
      BY <3>2, <3>3
  <2>2. ASSUME bundles' = bundles, UNCHANGED viewing
        PROVE  PInv'
    BY <2>2 DEF PInv, InboxAges, TabsAgreeWithInbox, viewing, OpenOf, Rows
  <2>3. CASE ReadInbox
    <3>1. page = None /\ tabs' = tabs /\ bundles' = bundles
      BY <2>3 DEF ReadInbox, tables
    <3>2. page' = [open |-> [org \in Orgs |-> OpenOf(org)], writes |-> 0] /\ tabs = None
      BY <2>3, <3>1 DEF ReadInbox, PInv, InboxAges
    <3>3. \A org \in Orgs : OpenOf(org)' = OpenOf(org)
      BY <3>1 DEF OpenOf, Rows
    <3>4. QED
      BY <3>1, <3>2, <3>3, OpenType DEF PInv, InboxAges, TabsAgreeWithInbox
  <2>4. CASE ReadTabs
    <3>1. page # None /\ page' = page /\ bundles' = bundles
      BY <2>4 DEF ReadTabs, tables
    <3>2. tabs' = [org \in Orgs |-> OpenOf(org)]
      BY <2>4 DEF ReadTabs
    <3>3. \A org \in Orgs : OpenOf(org)' = OpenOf(org)
      BY <3>1 DEF OpenOf, Rows
    <3>4. QED
      BY <3>1, <3>2, <3>3 DEF PInv, InboxAges, TabsAgreeWithInbox
  <2>5. CASE page' = None /\ tabs' = None
    BY <2>5 DEF PInv, InboxAges, TabsAgreeWithInbox
  <2>6. QED
    BY <2>1, <2>2, <2>3, <2>4, <2>5, TableWrites
<1>3. PInv => TabsAgreeWithInbox
  BY DEF PInv
<1>4. QED
  BY <1>1, <1>2, <1>3, TypeInvariant, PTL DEF Spec
-----------------------------------------------------------------------------
\* Demo data is of its day, and uploads come later, one after the other.
SeedsAreDated == \A n \in DOMAIN Entries : bundles[Entries[n].id] # NoRow =>
                    LET row == bundles[Entries[n].id]
                    IN  /\ row.at = Entries[n].at /\ row.org = Entries[n].org
                        /\ row.customer = Entries[n].customer
UploadsAreLater == \A u \in Uploads : bundles[u] # NoRow => bundles[u].at >= FirstUpload
UploadsInTurn == \A u \in Uploads : \A v \in Uploads :
                    bundles[u] # NoRow /\ bundles[v] # NoRow /\ bundles[u].at = bundles[v].at => u = v

AgeInv == SeedsAreDated /\ UploadsAreLater /\ UploadsInTurn

\* Demo data is older than any upload.
LEMMA EntriesAreOld ==
    \A n \in DOMAIN Entries : Entries[n].at \in Nat /\ Entries[n].at < FirstUpload
<1> DEFINE E == [id : Seeds, org : Orgs, customer : Names, at : Nat, triage : Triages]
<1>1. Entries \in Seq(E) /\ FirstUpload \in Nat
  BY DashboardsAssumption
<1>2. \A n \in DOMAIN Entries : Entries[n] \in E
  <2> HIDE DEF E
  <2> QED
    BY <1>1
<1>3. \A n \in DOMAIN Entries : Entries[n].at \in Nat
  BY <1>2
<1> HIDE DEF E
<1> DEFINE days == {0} \cup {Entries[n].at : n \in DOMAIN Entries}
           last == [n \in DOMAIN Entries |-> Entries[n].at]
<1>4. DOMAIN Entries = 1..Len(Entries) /\ Len(Entries) \in Nat
  BY <1>1
<1>5. \E s : Lists(s, DOMAIN Entries, last)
  <2>1. IsFiniteSet(DOMAIN Entries)
    BY <1>4, FS_Interval
  <2>2. \A n \in DOMAIN Entries : last[n] \in Nat
    BY <1>3
  <2> HIDE DEF last
  <2>3. QED
    BY <2>1, <2>2, ListingExists
<1>6. \E m \in days : \A d \in days : m >= d
  <2>1. PICK s : Lists(s, DOMAIN Entries, last)
    BY <1>5
  <2>2. s \in Seq(DOMAIN Entries) /\ Descends(s, last)
        /\ \A n \in DOMAIN Entries : \E i \in 1..Len(s) : s[i] = n
    BY <2>1, ListingFacts
  <2>3. CASE DOMAIN Entries = {}
    BY <2>3
  <2>4. CASE DOMAIN Entries # {}
    <3>1. Len(s) \in Nat /\ 1 \in 1..Len(s) /\ \A i \in 1..Len(s) : s[i] \in DOMAIN Entries
      BY <2>2, <2>4
    <3>2. ASSUME NEW n \in DOMAIN Entries
          PROVE  Entries[s[1]].at >= Entries[n].at
      <4>1. PICK i \in 1..Len(s) : s[i] = n
        BY <2>2
      <4>2. i = 1 \/ last[s[1]] >= last[s[i]]
        BY <2>2, <3>1 DEF Descends
      <4>3. last[s[1]] = Entries[s[1]].at /\ last[n] = Entries[n].at
        BY <3>1
      <4>4. QED
        BY <1>3, <3>1, <4>1, <4>2, <4>3
    <3>3. Entries[s[1]].at \in days /\ Entries[s[1]].at >= 0
      BY <1>3, <3>1
    <3>4. QED
      BY <3>2, <3>3
  <2>5. QED
    BY <2>3, <2>4
<1>7. Max(days) \in days /\ \A d \in days : Max(days) >= d
  BY <1>6 DEF Max
<1>8. FirstUpload = 1 + Max(days)
  BY DEF FirstUpload
<1>9. days \subseteq Nat
  BY <1>3
<1>10. \A d \in days : d < FirstUpload
  <2> SUFFICES ASSUME NEW d \in days PROVE d < FirstUpload
    OBVIOUS
  <2>1. PICK m : m = Max(days)
    OBVIOUS
  <2> HIDE DEF days
  <2>2. m \in Nat /\ d \in Nat /\ m >= d /\ FirstUpload = 1 + m
    BY <1>7, <1>8, <1>9, <2>1
  <2>3. QED
    BY <2>2
<1>11. QED
  BY <1>3, <1>10

\* A row that is put in keeps to the times, given what it is.
LEMMA InsertKeepsAges ==
    ASSUME TInv, AgeInv, NEW b \in Bundles, NEW row \in BundleRows, Insert(b, row),
           \A n \in DOMAIN Entries : Entries[n].id = b =>
               /\ row.at = Entries[n].at /\ row.org = Entries[n].org
               /\ row.customer = Entries[n].customer,
           b \in Uploads => /\ row.at >= FirstUpload
                            /\ \A v \in Uploads : v # b /\ bundles[v] # NoRow => bundles[v].at # row.at
    PROVE  AgeInv'
<1>1. \A c \in Bundles : bundles'[c] = IF c = b THEN row ELSE bundles[c]
  BY DEF Insert, TInv, TypeOK
<1>2. Uploads \subseteq Bundles /\ \A n \in DOMAIN Entries : Entries[n].id \in Bundles
  BY DEF Bundles, Seeds
<1>3. SeedsAreDated'
  BY <1>1, <1>2 DEF AgeInv, SeedsAreDated
<1>4. UploadsAreLater'
  BY <1>1, <1>2 DEF AgeInv, UploadsAreLater
<1>5. UploadsInTurn'
  BY <1>1, <1>2 DEF AgeInv, UploadsInTurn
<1>6. QED
  BY <1>3, <1>4, <1>5 DEF AgeInv

LEMMA Ages == Spec => []AgeInv
<1>1. Init => AgeInv
  BY DEF Init, AgeInv, SeedsAreDated, UploadsAreLater, UploadsInTurn, Bundles, Seeds
<1>2. TInv /\ AgeInv /\ [Next]_vars => AgeInv'
  <2> SUFFICES ASSUME TInv, AgeInv, [Next]_vars
               PROVE  AgeInv'
    OBVIOUS
  <2>1. ASSUME bundles' = bundles
        PROVE  AgeInv'
    BY <2>1 DEF AgeInv, SeedsAreDated, UploadsAreLater, UploadsInTurn
  <2>2. CASE SeedInsert
    <3>1. entry <= Len(Entries) /\ TypeOK
      BY <2>2 DEF SeedInsert, Seeding, TInv
    <3>2. CASE bundles[Entries[entry].id] # NoRow
      BY <2>1, <2>2, <3>2 DEF SeedInsert
    <3>3. CASE bundles[Entries[entry].id] = NoRow
      <4> DEFINE e == Entries[entry]
                 row == [org |-> e.org, customer |-> e.customer, at |-> e.at, status |-> "new"]
      <4>1. Insert(e.id, row)
        BY <2>2, <3>3 DEF SeedInsert
      <4>2. e.id \in Bundles /\ row \in BundleRows /\ e.id \in Seeds /\ entry \in DOMAIN Entries
        BY <3>1, EntryType
      <4>3. \A n \in DOMAIN Entries : Entries[n].id = e.id => n = entry
        BY <4>2, DashboardsAssumption
      <4>4. e.id \notin Uploads
        BY <4>2, DashboardsAssumption
      <4>5. row.at = e.at /\ row.org = e.org /\ row.customer = e.customer
        OBVIOUS
      <4> HIDE DEF row
      <4>6. \A n \in DOMAIN Entries : Entries[n].id = e.id =>
               /\ row.at = Entries[n].at /\ row.org = Entries[n].org
               /\ row.customer = Entries[n].customer
        BY <4>3, <4>5
      <4>7. QED
        BY <4>1, <4>2, <4>4, <4>6, InsertKeepsAges
    <3>4. QED
      BY <3>2, <3>3
  <2>3. ASSUME NEW u \in Uploads, NEW org \in Orgs, NEW c \in Customers \cup {NoCustomer},
               Upload(u, org, c)
        PROVE  AgeInv'
    <3> DEFINE row == [org |-> org, customer |-> c, status |-> "new", at |-> Max(Earlier) + 1]
    <3>1. Insert(u, row) /\ bundles[u] = NoRow
      BY <2>3 DEF Upload, Earlier
    <3>2. u \in Bundles /\ row \in BundleRows /\ row.at = Max(Earlier) + 1
      BY UploadTime DEF Bundles, BundleRows, Names, Statuses
    <3>3. Max(Earlier) + 1 >= FirstUpload
      BY UploadTime
    <3>4. \A v \in Uploads : v # u /\ bundles[v] # NoRow => bundles[v].at # Max(Earlier) + 1
      <4> SUFFICES ASSUME NEW v \in Uploads, bundles[v] # NoRow, bundles[v].at = Max(Earlier) + 1
                   PROVE  FALSE
        OBVIOUS
      <4>1. v \in Rows
        BY DEF Rows, Bundles
      <4>2. bundles[v].at < Max(Earlier) + 1 /\ Max(Earlier) + 1 \in Nat
        BY <4>1, UploadTime
      <4>3. QED
        BY <4>2
    <3>5. \A n \in DOMAIN Entries : Entries[n].id # u
      BY DashboardsAssumption DEF Seeds
    <3> HIDE DEF row
    <3>6. QED
      BY <3>1, <3>2, <3>3, <3>4, <3>5, InsertKeepsAges
  <2>4. ASSUME NEW k \in Clicks, WriteStatus(k)
        PROVE  AgeInv'
    <3> DEFINE b == click[k].bundle
               was == click[k].was
               row == [bundles[b] EXCEPT !.status = Successor(was)]
    <3>1. b \in Rows /\ b \in Bundles /\ was \in Statuses /\ bundles[b] # NoRow
      BY <2>4 DEF WriteStatus, TInv, ClicksHaveRows, TypeOK, Rows
    <3>2. bundles[b] \in BundleRows
      BY <3>1 DEF TInv, TypeOK, Rows
    <3>3. row \in BundleRows
      BY <3>2, <3>1, SuccessorType DEF BundleRows
    <3>4. row.at = bundles[b].at /\ row.org = bundles[b].org /\ row.customer = bundles[b].customer
      BY <3>2 DEF BundleRows
    <3>5. Insert(b, row)
      BY <2>4 DEF WriteStatus
    <3> HIDE DEF b, row
    <3>6. \A n \in DOMAIN Entries : Entries[n].id = b =>
             /\ row.at = Entries[n].at /\ row.org = Entries[n].org
             /\ row.customer = Entries[n].customer
      BY <3>1, <3>4 DEF AgeInv, SeedsAreDated
    <3>7. b \in Uploads => /\ row.at >= FirstUpload
                           /\ \A v \in Uploads : v # b /\ bundles[v] # NoRow => bundles[v].at # row.at
      BY <3>1, <3>4 DEF AgeInv, UploadsAreLater, UploadsInTurn
    <3>8. QED
      BY <3>1, <3>3, <3>5, <3>6, <3>7, InsertKeepsAges
  <2>5. QED
    BY <2>1, <2>2, <2>3, <2>4
       DEF Next, vars, tables, Start, StartBare, Listen, Crash, SeedTriage, SeedTimeline,
           SeedRCA, SeedFails, SeedUnchanged, SaveTriage, SaveOther, ReadStatus, WriteFails,
           ReadInbox, ReadTabs, PageSent
<1>3. QED
  BY <1>1, <1>2, TypeInvariant, PTL DEF Spec

\* The times of the rows.
Times == [b \in Rows |-> bundles[b].at]

\* ORDER BY gives every row it is asked for once, none before a later one.
LEMMA LatestFirstLists ==
    ASSUME TypeOK, NEW S \in SUBSET Rows
    PROVE  Lists(LatestFirst(S), S, Times)
<1>1. IsFiniteSet(S)
  <2>1. S \in SUBSET Bundles
    BY DEF Rows
  <2>2. QED
    BY <2>1, DashboardsAssumption, FS_Subset
<1>2. \A x \in S : Times[x] = bundles[x].at /\ Times[x] \in Nat
  BY DEF Times, TypeOK, Rows, BundleRows
<1>3. PICK s : Lists(s, S, Times)
  BY <1>1, <1>2, ListingExists
<1> DEFINE n == Cardinality(S)
           Falls(t) == \A i, j \in DOMAIN t : i < j => bundles[t[i]].at >= bundles[t[j]].at
<1>4. /\ s \in Seq(S) /\ Once(s) /\ Descends(s, Times) /\ DOMAIN s = 1..Len(s) /\ Len(s) \in Nat
      /\ \A x \in S : \E i \in 1..Len(s) : s[i] = x
      /\ \A i \in 1..Len(s) : s[i] \in S
  BY <1>3, ListingFacts
<1>5. n \in Nat
  BY <1>1, FS_CardinalityType
<1>6. Len(s) = n
  <2>1. s \in [1..Len(s) -> S]
    BY <1>4
  <2>2. s \in Injection(1..Len(s), S)
    BY <1>4, <2>1 DEF Injection, Once, IsInjective
  <2>3. s \in Surjection(1..Len(s), S)
    BY <1>4, <2>1 DEF Surjection
  <2>4. Cardinality(1..Len(s)) = Len(s) /\ IsFiniteSet(1..Len(s))
    <3>1. \A k \in Nat : Cardinality(1..k) = k /\ IsFiniteSet(1..k)
      BY FS_Interval
    <3>2. QED
      BY ONLY <1>4, <3>1
  <2>5. PICK D : D = 1..Len(s)
    OBVIOUS
  <2>6. Cardinality(D) = Cardinality(S)
    <3>1. s \in Injection(D, S) /\ s \in Surjection(D, S)
      BY <2>2, <2>3, <2>5
    <3>2. QED
      BY ONLY <1>1, <3>1, FS_Injection
  <2>7. QED
    BY <2>4, <2>5, <2>6
<1>7. s \in SetToSeqs(S)
  <2>1. s \in [1..n -> S]
    BY <1>4, <1>6
  <2>2. \A i, j \in 1..n : i # j => s[i] # s[j]
    BY <1>4, <1>6 DEF Once
  <2>3. QED
    BY <2>1, <2>2 DEF SetToSeqs
<1>8. Falls(s)
  BY <1>2, <1>4 DEF Descends
<1>9. PICK t : t = LatestFirst(S)
  OBVIOUS
<1>10. t \in SetToSeqs(S) /\ Falls(t)
  BY <1>7, <1>8, <1>9 DEF LatestFirst
<1>11. t \in [1..n -> S] /\ \A i, j \in 1..n : i # j => t[i] # t[j]
  BY <1>10 DEF SetToSeqs
<1> HIDE DEF n
<1>12. /\ t \in Seq(S) /\ Len(t) = n /\ DOMAIN t = 1..n /\ \A i \in 1..n : t[i] \in S
  BY <1>5, <1>11
<1>13. Once(t)
  BY <1>11, <1>12 DEF Once
<1>14. Descends(t, Times)
  BY <1>2, <1>10, <1>12 DEF Descends
<1>15. \A x \in S : \E i \in 1..Len(t) : t[i] = x
  <2>1. t \in Injection(1..n, S)
    BY <1>11 DEF Injection, IsInjective
  <2>2. Cardinality(1..n) = n
    BY <1>5, FS_Interval
  <2>3. t \in Surjection(1..n, S)
    BY <1>1, <2>1, <2>2, FS_Injection DEF n
  <2>4. QED
    BY <1>12, <2>3 DEF Surjection
<1>16. QED
  BY <1>9, <1>12, <1>13, <1>14, <1>15 DEF Lists

\* Rows that a page of a customer shows have times of their own.
LEMMA TimesDiffer ==
    ASSUME TInv, AgeInv, NEW a \in Rows, NEW b \in Rows,
           bundles[a].org = bundles[b].org,
           Slug[bundles[a].customer] = Slug[bundles[b].customer],
           Times[a] = Times[b]
    PROVE  a = b
<1>1. bundles[a].at = bundles[b].at /\ bundles[a].at \in Nat
  BY DEF Times, TInv, TypeOK, BundleRows, Rows
<1>2. bundles[a] # NoRow /\ bundles[b] # NoRow /\ a \in Bundles /\ b \in Bundles
  BY DEF Rows
<1>3. \A n \in DOMAIN Entries : Entries[n].at \in Nat /\ Entries[n].at < FirstUpload
  BY EntriesAreOld
<1>4. FirstUpload \in Nat
  BY DashboardsAssumption
<1>5. CASE a \in Uploads /\ b \in Uploads
  BY <1>1, <1>2, <1>5 DEF AgeInv, UploadsInTurn
<1>6. CASE a \in Seeds /\ b \in Seeds
  <2>1. PICK m \in DOMAIN Entries : Entries[m].id = a
    BY <1>6 DEF Seeds
  <2>2. PICK n \in DOMAIN Entries : Entries[n].id = b
    BY <1>6 DEF Seeds
  <2>3. /\ bundles[a].at = Entries[m].at /\ bundles[a].org = Entries[m].org
        /\ bundles[a].customer = Entries[m].customer
        /\ bundles[b].at = Entries[n].at /\ bundles[b].org = Entries[n].org
        /\ bundles[b].customer = Entries[n].customer
    BY <1>2, <2>1, <2>2 DEF AgeInv, SeedsAreDated
  <2>4. m = n
    BY <1>1, <2>3, DashboardsAssumption
  <2>5. QED
    BY <2>1, <2>2, <2>4
<1>7. ASSUME NEW x \in Seeds, NEW y \in Uploads, bundles[x] # NoRow, bundles[y] # NoRow
      PROVE  bundles[x].at # bundles[y].at
  <2>1. PICK m \in DOMAIN Entries : Entries[m].id = x
    BY DEF Seeds
  <2>2. bundles[x].at = Entries[m].at
    BY <1>7, <2>1 DEF AgeInv, SeedsAreDated
  <2>3. bundles[y].at >= FirstUpload
    BY <1>7 DEF AgeInv, UploadsAreLater
  <2>4. QED
    BY <1>3, <1>4, <2>2, <2>3
<1>8. QED
  BY <1>1, <1>2, <1>5, <1>6, <1>7 DEF Bundles

\* The rows a page of a customer shows.
Shows(org, slug) == {b \in Rows : /\ bundles[b].org = org /\ bundles[b].customer # NoCustomer
                                  /\ Slug[bundles[b].customer] = slug}

LEMMA PageLists ==
    ASSUME TInv, NEW org, NEW slug
    PROVE  Lists(CustomerPage(org, slug), Shows(org, slug), Times)
<1>1. Shows(org, slug) \in SUBSET Rows /\ TypeOK
  BY DEF Shows, TInv
<1>2. Lists(LatestFirst(Shows(org, slug)), Shows(org, slug), Times)
  BY <1>1, LatestFirstLists
<1>3. QED
  BY <1>2 DEF CustomerPage, Shows

\* Demo data that a later start puts in does not pass for newer than an upload: the
\* page of a customer shows all bundles of users before it.
THEOREM DemoDataComesLast == Spec => []DemoDataIsOlder
<1>1. TInv /\ AgeInv => DemoDataIsOlder
  <2> SUFFICES ASSUME TInv, AgeInv, NEW org \in Orgs, NEW c \in Customers
               PROVE  \A i, j \in DOMAIN CustomerPage(org, Slug[c]) :
                         CustomerPage(org, Slug[c])[i] \in Seeds
                            /\ CustomerPage(org, Slug[c])[j] \in Uploads => i > j
    BY DEF DemoDataIsOlder
  <2>1. PICK shown : shown = CustomerPage(org, Slug[c])
    OBVIOUS
  <2>2. PICK S : S = Shows(org, Slug[c])
    OBVIOUS
  <2>3. S \subseteq Rows /\ Lists(shown, S, Times)
    BY <2>1, <2>2, PageLists DEF Shows
  <2>4. /\ shown \in Seq(S) /\ DOMAIN shown = 1..Len(shown) /\ Len(shown) \in Nat
        /\ Descends(shown, Times) /\ \A i \in 1..Len(shown) : shown[i] \in S
    BY <2>3, ListingFacts
  <2> SUFFICES ASSUME NEW i \in DOMAIN shown, NEW j \in DOMAIN shown,
                      shown[i] \in Seeds, shown[j] \in Uploads
               PROVE  i > j
    BY <2>1
  <2>5. shown[i] \in Rows /\ shown[j] \in Rows
    BY <2>3, <2>4
  <2>6. PICK m \in DOMAIN Entries : Entries[m].id = shown[i]
    BY DEF Seeds
  <2>7. bundles[shown[i]].at = Entries[m].at
    BY <2>5, <2>6 DEF AgeInv, SeedsAreDated, Rows
  <2>8. bundles[shown[j]].at >= FirstUpload /\ bundles[shown[j]].at \in Nat
    BY <2>5 DEF AgeInv, UploadsAreLater, Rows, TInv, TypeOK, BundleRows
  <2>9. Entries[m].at \in Nat /\ Entries[m].at < FirstUpload /\ FirstUpload \in Nat
    BY EntriesAreOld, DashboardsAssumption
  <2>10. Times[shown[i]] < Times[shown[j]]
    BY <2>5, <2>7, <2>8, <2>9 DEF Times
  <2>11. Times[shown[i]] \in Nat /\ Times[shown[j]] \in Nat
    BY <2>5, <2>7, <2>8, <2>9 DEF Times
  <2>12. i # j
    BY <2>10, <2>11
  <2>13. ~ (i < j)
    BY <2>4, <2>10, <2>11 DEF Descends
  <2>14. QED
    BY <2>4, <2>12, <2>13
<1>2. QED
  BY <1>1, TypeInvariant, Ages, PTL

\* The first of a listing is first in the listing of any part it is in.
LEMMA HeadOfPart ==
    ASSUME NEW S, NEW w, \A x \in S : w[x] \in Nat,
           \A x \in S : \A y \in S : w[x] = w[y] => x = y,
           NEW s, Lists(s, S, w), 1 \in 1..Len(s), NEW P \in SUBSET S, s[1] \in P,
           NEW t, Lists(t, P, w)
    PROVE  Head(t) = s[1]
<1>1. /\ s \in Seq(S) /\ Descends(s, w) /\ Len(s) \in Nat
      /\ \A x \in S : \E i \in 1..Len(s) : s[i] = x
  BY ListingFacts
<1>a. t \in Seq(P)
  BY DEF Lists
<1>2. /\ Descends(t, w) /\ Len(t) \in Nat
      /\ \A x \in P : \E i \in 1..Len(t) : t[i] = x
      /\ \A i \in 1..Len(t) : t[i] \in P
  BY ListingFacts
<1>3. PICK i \in 1..Len(t) : t[i] = s[1]
  BY <1>2
<1>4. 1 \in 1..Len(t) /\ t[1] \in S
  BY <1>2, <1>3
<1>5. PICK j \in 1..Len(s) : s[j] = t[1]
  BY <1>1, <1>4
<1>6. i = 1 \/ w[t[1]] >= w[s[1]]
  <2>1. i \in 1..Len(t) /\ 1 \in 1..Len(t) /\ (i = 1 \/ 1 < i)
    BY <1>2, <1>3, <1>4
  <2>2. \A k \in 1..Len(t) : 1 < k => w[t[1]] >= w[t[k]]
    BY <1>2, <1>4 DEF Descends
  <2>3. QED
    BY <1>3, <2>1, <2>2
<1>7. j = 1 \/ w[s[1]] >= w[t[1]]
  BY <1>1, <1>5 DEF Descends
<1>8. s[1] \in S
  OBVIOUS
<1>9. t[1] = s[1]
  <2>1. CASE i = 1 \/ j = 1
    BY <1>3, <1>5, <2>1
  <2>2. CASE i # 1 /\ j # 1
    <3>1. w[t[1]] = w[s[1]]
      BY <1>4, <1>6, <1>7, <1>8, <2>2
    <3>2. QED
      BY <1>4, <1>8, <3>1
  <2>3. QED
    BY <2>1, <2>2
<1>10. Head(t) = t[1]
  <2>1. t # <<>>
    BY <1>a, <1>4
  <2>2. QED
    BY <1>a, <2>1, HeadTailProperties
<1>11. QED
  BY <1>9, <1>10

\* Every customer listed at home or in the upload form has a page; what it says at
\* the top is what home says of the customer with its latest bundle; and the history
\* has the same bundles in the same order.
THEOREM PagesAgree == Spec => []DashboardsAgree
<1>1. TInv /\ AgeInv => DashboardsAgree
  <2> SUFFICES ASSUME TInv, AgeInv, NEW org \in Orgs, NEW c \in FormNames(org)
               PROVE  LET shown == CustomerPage(org, Slug[c])
                          namesakes == {d \in FormNames(org) : Slug[d] = Slug[c]}
                          atHome == SummaryOf(org, c)
                      IN  /\ shown # <<>>
                          /\ \E d \in namesakes : Shown(shown[1]) = SummaryOf(org, d)
                          /\ namesakes = {c} => /\ Shown(shown[1]) = atHome
                                                /\ \/ HealthOnPage(atHome) = HealthAtHome(atHome)
                                                   \/ atHome.score = 0 /\ atHome.health = ""
                          /\ shown = Filtered(History(org), Range(shown))
    BY DEF DashboardsAgree
  <2> DEFINE namesakes == {d \in FormNames(org) : Slug[d] = Slug[c]}
  <2>1. PICK shown : shown = CustomerPage(org, Slug[c])
    OBVIOUS
  <2>2. PICK S : S = Shows(org, Slug[c])
    OBVIOUS
  <2>3. S \subseteq Rows /\ Lists(shown, S, Times)
    BY <2>1, <2>2, PageLists DEF Shows
  <2>4. /\ shown \in Seq(S) /\ DOMAIN shown = 1..Len(shown) /\ Len(shown) \in Nat
        /\ (\A i \in 1..Len(shown) : shown[i] \in S)
        /\ \A x \in S : \E i \in 1..Len(shown) : shown[i] = x
    BY <2>3, ListingFacts
  <2>5. PICK b \in Rows : bundles[b].org = org /\ bundles[b].customer = c /\ c # NoCustomer
    BY DEF FormNames
  <2>6. 1 \in 1..Len(shown) /\ shown # <<>>
    <3>1. b \in S
      BY <2>2, <2>5 DEF Shows
    <3>2. PICK i \in 1..Len(shown) : shown[i] = b
      BY <2>4, <3>1
    <3>3. QED
      BY <2>4, <3>2
  <2>7. \A x \in S : Times[x] \in Nat
    BY <2>3 DEF Times, TInv, TypeOK, BundleRows, Rows
  <2>8. \A x \in S : \A y \in S : Times[x] = Times[y] => x = y
    BY <2>2, <2>3, TimesDiffer DEF Shows
  <2>9. PICK top : top = shown[1] /\ top \in S
    BY <2>4, <2>6
  <2>10. PICK d : d = bundles[top].customer
    OBVIOUS
  <2>11. d \in namesakes /\ bundles[top].org = org
    BY <2>2, <2>3, <2>9, <2>10 DEF Shows, FormNames
  <2>12. SummaryOf(org, d) = Shown(top)
    <3>1. PICK P : P = {x \in Rows : bundles[x].org = org /\ bundles[x].customer = d}
      OBVIOUS
    <3>2. P \in SUBSET S
      BY <2>2, <2>11, <3>1 DEF Shows, FormNames
    <3>3. Lists(LatestFirst(P), P, Times)
      BY <3>1, LatestFirstLists DEF TInv
    <3>4. top \in P
      BY <2>3, <2>9, <2>10, <2>11, <3>1
    <3>5. PICK t : t = LatestFirst(P)
      OBVIOUS
    <3>6. Head(t) = top
      BY <2>3, <2>6, <2>7, <2>8, <2>9, <3>2, <3>3, <3>4, <3>5, HeadOfPart
    <3>7. SummaryOf(org, d) = Shown(Head(t))
      BY <3>1, <3>5 DEF SummaryOf
    <3>8. QED
      BY <3>6, <3>7
  <2>13. ASSUME namesakes = {c}
         PROVE  Shown(shown[1]) = SummaryOf(org, c)
    <3>1. d = c
      BY <2>11, <2>13
    <3>2. QED
      BY <2>9, <2>12, <3>1
  <2>14. ASSUME NEW s
         PROVE  \/ HealthOnPage(s) = HealthAtHome(s)
                \/ s.score = 0 /\ s.health = ""
    BY DEF HealthOnPage, HealthAtHome
  <2>15. shown = Filtered(History(org), Range(shown))
    <3>1. PICK R : R = {x \in Rows : bundles[x].org = org}
      OBVIOUS
    <3>2. PICK h : h = History(org)
      OBVIOUS
    <3>3. Lists(LatestFirst(R), R, Times)
      BY <3>1, LatestFirstLists DEF TInv
    <3>4. Lists(h, R, Times)
      BY <3>1, <3>2, <3>3 DEF History
    <3>5. S \in SUBSET R
      BY <2>2, <3>1 DEF Shows
    <3>6. Lists(Filtered(h, S), S, Times)
      BY <3>4, <3>5, ListingOfPart
    <3>7. Filtered(h, S) = shown
      BY <2>3, <2>7, <2>8, <3>6, ListingUnique
    <3>8. Range(shown) = S
      BY <2>4 DEF Range
    <3>9. QED
      BY <3>2, <3>7, <3>8
  <2>16. QED
    BY <2>1, <2>6, <2>9, <2>11, <2>12, <2>13, <2>14, <2>15
<1>2. QED
  BY <1>1, TypeInvariant, Ages, PTL
==============================================================================
