SPECIFICATION FairSpec
CONSTANTS
    Services = {"wifi", "lan"}
    Procs = {p1, p2}
    Own = {"unset", "isp"}
    MaxFails = 2
    MaxCrashes = 1
    MaxDisk = 2
    MaxEdits = 1
    Absent = Absent
INVARIANTS LockSound OriginalKept
PROPERTIES ComesBack
