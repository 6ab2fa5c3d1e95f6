\* An update is killed between its two renames.
SPECIFICATION UpdaterSpec
CONSTANTS
    UpdateRun = {r1, r2, r3}
    Original = original
    Absent = absent
    Faults <- OnlyCrashes
INVARIANTS
    ExecutableStays
\* every run ends
CHECK_DEADLOCK FALSE
