----------------------------- MODULE ProjectState -----------------------------
(***************************************************************************)
(* The versioned state of the runtime: state/project_state.py.             *)
(*                                                                         *)
(* Threads share a state; every operation holds its lock from beginning to *)
(* end and is one action.  Who wants to change what it read takes a        *)
(* snapshot and writes later with the snapshot's version, its revision or  *)
(* both as a guard; a write that meets a conflict raises and changes       *)
(* nothing.  uuid4() is a counter: each revision is new.  Names,           *)
(* categories and times are left out.  The proofs have WorkflowRun beside  *)
(* this module, hence StateInit, StateNext and the like.                   *)
(***************************************************************************)
EXTENDS Naturals

CONSTANTS
  Key,
  Value,
  Absent,        \* what get() finds where there is no value
  State,         \* the state made first, and its clones
  Original,      \* the one made first
  Snapshot,      \* names for the snapshots that are kept
  MaxRevisions   \* bound: revisions that are made

ASSUME StateAssumption ==
  /\ Original \in State
  /\ MaxRevisions \in Nat

Data == [Key -> Value \cup {Absent}]
Copy == [data : Data, version : Nat, revision : Nat]

\* Which of expected_version and expected_revision a caller passes.
Guard == {"none", "version", "revision", "both"}

VARIABLES
  live,       \* the states there are
  copy,       \* state -> _data, _version, _revision
  kept,       \* snapshot -> the state it was taken of, and what it holds
  revisions,  \* revisions made so far
  lost        \* history: guards that let a write pass over what its writer had not seen

stateVars == <<live, copy, kept, revisions, lost>>

StateInit ==
  /\ live = {Original}
  /\ \E data \in Data :
       /\ copy = [state \in State |-> [data |-> data, version |-> 0, revision |-> 0]]
       /\ kept = [s \in Snapshot |->
                    [of |-> Original, copy |-> [data |-> data, version |-> 0, revision |-> 0]]]
  /\ revisions = 0
  /\ lost = {}

------------------------------------------------------------------------------
(* The version is stale or the revision is, whichever is given. *)
DetectConflict(state, expected, guard) ==
  \/ guard \in {"version", "both"} /\ copy[state].version # expected.version
  \/ guard \in {"revision", "both"} /\ copy[state].revision # expected.revision

(* A caller that has snapshot s gets past the guard, and what it is about  *)
(* to overwrite is what it has, or not.                                    *)
Passes(state, s, guard) ==
  /\ state \in live
  /\ guard # "none" => kept[s].of = state
  /\ ~DetectConflict(state, kept[s].copy, guard)
  /\ lost' = IF guard = "none" \/ copy[state].data = kept[s].copy.data
             THEN lost ELSE lost \cup {guard}

(* set, update and delete: another content, the next version and a new     *)
(* revision                                                                *)
Written(state, data) ==
  /\ revisions < MaxRevisions
  /\ revisions' = revisions + 1
  /\ copy' = [copy EXCEPT ![state] = [data |-> data, version |-> @.version + 1,
                                      revision |-> revisions']]
  /\ UNCHANGED <<live, kept>>

Update(state, s, guard, values) ==
  /\ Passes(state, s, guard)
  /\ Written(state, [k \in Key |-> IF k \in DOMAIN values THEN values[k] ELSE copy[state].data[k]])

\* Mutant: a deletion is no new revision.
Delete_SameRevision(state, s, guard, k) ==
  /\ Passes(state, s, guard)
  /\ copy' = [copy EXCEPT ![state].data[k] = Absent, ![state].version = @ + 1]
  /\ UNCHANGED <<live, kept, revisions>>

Delete(state, s, guard, k) ==
  /\ Passes(state, s, guard)
  /\ Written(state, [copy[state].data EXCEPT ![k] = Absent])

TakeSnapshot(state, s) ==
  /\ state \in live
  /\ kept' = [kept EXCEPT ![s] = [of |-> state, copy |-> copy[state]]]
  /\ UNCHANGED <<live, copy, revisions, lost>>

\* Mutant: the content comes back, the version and the revision go on.
Restore_ContentOnly(state, s, guard, snapshot) ==
  /\ Passes(state, s, guard)
  /\ copy' = [copy EXCEPT ![state].data = kept[snapshot].copy.data]
  /\ UNCHANGED <<live, kept, revisions>>

(* restore: with the content the old version and revision come back *)
Restore(state, s, guard, snapshot) ==
  /\ Passes(state, s, guard)
  /\ copy' = [copy EXCEPT ![state] = kept[snapshot].copy]
  /\ UNCHANGED <<live, kept, revisions>>

(* clone: another state, of the same version and revision *)
Clone(state, another) ==
  /\ state \in live
  /\ another \notin live
  /\ live' = live \cup {another}
  /\ copy' = [copy EXCEPT ![another] = copy[state]]
  /\ UNCHANGED <<kept, revisions, lost>>

StateNext ==
  \E state \in State :
    \/ \E s \in Snapshot, guard \in Guard :
         \/ \E keys \in SUBSET Key : \E values \in [keys -> Value] : Update(state, s, guard, values)
         \/ \E k \in Key : Delete(state, s, guard, k)
         \/ \E snapshot \in Snapshot : Restore(state, s, guard, snapshot)
    \/ \E s \in Snapshot : TakeSnapshot(state, s)
    \/ \E another \in State : Clone(state, another)

StateSpec == StateInit /\ [][StateNext]_stateVars

------------------------------------------------------------------------------
StateTypeOK ==
  /\ live \subseteq State
  /\ copy \in [State -> Copy]
  /\ kept \in [Snapshot -> [of : State, copy : Copy]]
  /\ revisions \in 0 .. MaxRevisions
  /\ lost \subseteq Guard \ {"none"}

\* Everything that can be written, restored or compared with.
Copies == {copy[state] : state \in live} \cup {kept[s].copy : s \in Snapshot}

(* A revision identifies a content: whatever was written, restored and     *)
(* cloned, two states or snapshots with one revision hold the same.        *)
RevisionIdentifies == \A a, b \in Copies : a.revision = b.revision => a = b

(* A write that passes the check of the revision overwrites nothing its    *)
(* writer has not seen, although restore() brings old revisions back.      *)
NothingOverwritten == {"revision", "both"} \cap lost = {}

(* "Return True when the provided version or revision is stale": the check *)
(* of the version alone lets no write pass over what its writer has not    *)
(* seen.                                                                   *)
StaleVersionDetected == "version" \notin lost
==============================================================================
