CONSTANTS
    app = app
    new = new
    lib = lib
    outside = outside
    bad = bad
    good = good
    Files = {app, new, lib}
    Paths = {app, new, outside}
    Allowed = {app, new}
    Texts = {bad, good}
    Oversized = Oversized
    Absent = Absent
    Link = Link
    None = None
    Approved <- MCApproved
    MaxChanged = 2
    MaxEdits = 2
SPECIFICATION Spec
INVARIANTS
    TypeOK
    RepairIsJudgedAsStaged
