\* The same instance; the counterexample needs two revisions and a restore.
SPECIFICATION StateSpec
CONSTANTS
  Key = {"k"}
  Value = {"a", "b"}
  Absent = "absent"
  State = {"state", "clone"}
  Original = "state"
  Snapshot = {s1, s2}
  MaxRevisions = 4
INVARIANTS
  StaleVersionDetected
CHECK_DEADLOCK FALSE
