SPECIFICATION Spec
CONSTANTS
    s1 = s1
    s2 = s2
    o1 = o1
    o2 = o2
    c1 = c1
    c2 = c2
    Entries <- MCEntries
    Uploads = {u1}
    Orgs = {o1, o2}
    Customers = {c1, c2}
    NoCustomer = NoCustomer
    Slug <- MCSlug
    Triages <- MCTriages
    NoTriage = NoTriage
    NoRow = NoRow
    Clicks = {k1, k2}
    None = None
    MaxStarts = 2
    MaxSaves = 1
SYMMETRY Symmetry
INVARIANTS
    TypeOK
    ClicksCycle
    SeedingRepairs
    DemoDataIsOlder
    DashboardsAgree
    TabsAgreeWithInbox
CHECK_DEADLOCK FALSE
