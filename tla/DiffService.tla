---------------------------- MODULE DiffService ----------------------------
(***************************************************************************)
(* The tag diff of one matched device, src/domain/service/DiffService.ts.  *)
(*                                                                         *)
(* A tag name is a member of Tag and a list of tag names is the set of its *)
(* members: a VM carries a tag once and a device carries a tag id once, so *)
(* the code's "same length and every one is in the set" is set equality,   *)
(* and two hashes of sorted lists are equal iff the sets are.  The entry   *)
(* of a device in the sync state is its lastSyncedTags, or NoEntry; its    *)
(* lastSyncHash is the hash of that list, written beside it.               *)
(* The code returns null or one diff: here, a set of at most one diff.     *)
(***************************************************************************)

CONSTANTS
    Tag,                  \* the "category/name" tag names in play
    RemoveOrphanedTags,   \* config: sync.removeOrphanedTags
    PrefixScope,          \* the tags that start with the tagPrefix (all of Tag when it is "")
    NoAllowlist,          \* no orphanRemovalAllowlist is in force
    NoEntry               \* the device has no entry in the sync state

ASSUME DiffAssumption ==
    /\ RemoveOrphanedTags \in BOOLEAN
    /\ PrefixScope \subseteq Tag
    /\ \A tags \in SUBSET Tag : tags # NoAllowlist /\ tags # NoEntry

Entry == {NoEntry} \cup SUBSET Tag
Allowlist == {NoAllowlist} \cup SUBSET Tag
Diff == [add : SUBSET Tag, remove : SUBSET Tag]

\* entry?.lastSyncedTags ?? []
Recorded(entry) == IF entry = NoEntry THEN {} ELSE entry

\* An allowlist, when there is one, decides alone; the prefix decides otherwise.
IsEligibleForRemoval(tag, allowlist) ==
    IF allowlist # NoAllowlist THEN tag \in allowlist ELSE tag \in PrefixScope

\* Mutant of DiffOrNull: an empty diff is returned too.
DiffAlways(add, remove) == {[add |-> add, remove |-> remove]}

\* Null when there is nothing to add and nothing to remove.
DiffOrNull(add, remove) ==
    IF add = {} /\ remove = {} THEN {} ELSE {[add |-> add, remove |-> remove]}

\* The skip check: desired equals the live tags and the recorded ones.
UpToDate(desired, live, entry) == desired = live /\ entry = desired

\* Mutant of Orphans: what is recorded is removed although it is still wanted.
OrphansWantedToo(desired, live, entry, allowlist) ==
    {t \in Recorded(entry) \cap live :
        RemoveOrphanedTags /\ IsEligibleForRemoval(t, allowlist)}

Orphans(desired, live, entry, allowlist) ==
    {t \in (Recorded(entry) \ desired) \cap live :
        RemoveOrphanedTags /\ IsEligibleForRemoval(t, allowlist)}

\* Mutants of ComputeSingleDiff: the hash alone decides whether there is a diff, or
\* a diff that adds nothing is dropped.
DiffWhenHashChanged(desired, live, entry, allowlist) ==
    IF entry = desired THEN {}
    ELSE DiffOrNull(desired \ live, Orphans(desired, live, entry, allowlist))
DiffWhenAdding(desired, live, entry, allowlist) ==
    IF desired \subseteq live THEN {}
    ELSE DiffOrNull(desired \ live, Orphans(desired, live, entry, allowlist))

\* The diff against the live tags of the device, the one every cycle uses.
ComputeSingleDiff(desired, live, entry, allowlist) ==
    IF UpToDate(desired, live, entry) THEN {}
    ELSE DiffOrNull(desired \ live, Orphans(desired, live, entry, allowlist))

\* The diff against the sync state alone, for a caller without live tags.
FallbackDiff(desired, entry, allowlist) ==
    IF entry = desired THEN {}
    ELSE DiffOrNull(desired \ Recorded(entry),
                    Orphans(desired, Recorded(entry), entry, allowlist))

-----------------------------------------------------------------------------
\* A diff that is applied, and recorded as a cycle does, is not computed again, whatever
\* tags are out of scope for removal: the cycle after a successful one sends nothing.
AppliedOnce ==
    \A desired, live \in SUBSET Tag, entry \in Entry, allowlist \in Allowlist :
        \A diff \in ComputeSingleDiff(desired, live, entry, allowlist) :
            ComputeSingleDiff(desired, (live \ diff.remove) \cup diff.add, desired, allowlist) = {}

\* The two forms of the diff agree on a device that has exactly the recorded tags, so a
\* caller without live tags computes the diff of an undisturbed device.
FallbackAgrees ==
    \A desired \in SUBSET Tag, entry \in Entry, allowlist \in Allowlist :
        ComputeSingleDiff(desired, Recorded(entry), entry, allowlist)
            = FallbackDiff(desired, entry, allowlist)
=============================================================================
