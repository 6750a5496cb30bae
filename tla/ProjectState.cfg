\* A state and a clone, a snapshot to write with and one to restore.
SPECIFICATION StateSpec
CONSTANTS
  Key = {"k"}
  Value = {"a", "b"}
  Absent = "absent"
  State = {"state", "clone"}
  Original = "state"
  Snapshot = {s1, s2}
  MaxRevisions = 4
INVARIANTS
  RevisionIdentifies
  NothingOverwritten
CHECK_DEADLOCK FALSE
