------------------------- MODULE DiffServiceProofs -------------------------
(***************************************************************************)
(* Theorems about the tag diff, for every set of tags, every scope of      *)
(* removal and both values of removeOrphanedTags.                          *)
(***************************************************************************)
EXTENDS DiffService, TLAPS

\* A diff that exists is never empty, adds only what the device lacks, and removes
\* only recorded, unwanted tags that it has.
LEMMA DiffShape ==
    ASSUME NEW want, NEW now, NEW recorded \in Entry, NEW allow,
           NEW diff \in ComputeSingleDiff(want, now, recorded, allow)
    PROVE  /\ diff = [add |-> want \ now, remove |-> Orphans(want, now, recorded, allow)]
           /\ diff.add \cup diff.remove # {}
BY DEF ComputeSingleDiff, DiffOrNull

\* The skip check only saves work: an up-to-date device has no diff without it.
THEOREM SkipIsRedundant ==
    ASSUME NEW want \in SUBSET Tag, NEW now \in SUBSET Tag, NEW recorded \in Entry, NEW allow,
           UpToDate(want, now, recorded)
    PROVE  DiffOrNull(want \ now, Orphans(want, now, recorded, allow)) = {}
<1>1. recorded # NoEntry /\ Recorded(recorded) = want
  BY DiffAssumption DEF UpToDate, Recorded, Entry
<1>2. want \ now = {} /\ Orphans(want, now, recorded, allow) = {}
  BY <1>1 DEF UpToDate, Orphans
<1> QED  BY <1>2 DEF DiffOrNull

\* DiffService.ts has two ways to compute a diff; they agree on a device that has
\* exactly its recorded tags.
THEOREM FallbackAgreement == FallbackAgrees
<1> SUFFICES ASSUME NEW desired \in SUBSET Tag, NEW entry \in Entry, NEW allowlist \in Allowlist
             PROVE  ComputeSingleDiff(desired, Recorded(entry), entry, allowlist)
                      = FallbackDiff(desired, entry, allowlist)
  BY DEF FallbackAgrees
<1>1. CASE entry = NoEntry
  <2>1. desired # entry  BY <1>1, DiffAssumption
  <2> QED  BY <1>1, <2>1 DEF ComputeSingleDiff, FallbackDiff, UpToDate
<1>2. CASE entry # NoEntry
  <2>1. Recorded(entry) = entry  BY <1>2 DEF Recorded
  <2> QED  BY <2>1 DEF ComputeSingleDiff, FallbackDiff, UpToDate
<1> QED  BY <1>1, <1>2

\* Computing a diff, applying it and recording what was wanted leaves no diff: the
\* next cycle finds nothing to send.
THEOREM AppliedDiffIsGone == AppliedOnce
<1> SUFFICES ASSUME NEW desired \in SUBSET Tag, NEW live \in SUBSET Tag,
                    NEW entry \in Entry, NEW allowlist \in Allowlist,
                    NEW diff \in ComputeSingleDiff(desired, live, entry, allowlist)
             PROVE  ComputeSingleDiff(desired, (live \ diff.remove) \cup diff.add,
                                      desired, allowlist) = {}
  BY DEF AppliedOnce
<1> DEFINE now == (live \ diff.remove) \cup diff.add
<1>1. diff.add = desired \ live /\ diff.remove \cap desired = {}
  BY DEF ComputeSingleDiff, DiffOrNull, Orphans
<1>2. desired \ now = {}  BY <1>1
<1>3. Orphans(desired, now, desired, allowlist) = {}  BY DEF Orphans, Recorded
<1> HIDE DEF now
<1>4. ComputeSingleDiff(desired, now, desired, allowlist) = {}
  BY <1>2, <1>3 DEF ComputeSingleDiff, DiffOrNull
<1> QED  BY <1>4 DEF now
=============================================================================
