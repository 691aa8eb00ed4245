------------------------------ MODULE Rotation ------------------------------
(***************************************************************************)
(* The pure decisions of pkg/storage and pkg/collections about a           *)
(* collection: the number of the next version, the versions that the fifo  *)
(* strategy gives up for it, and how large it may be.  A version is any    *)
(* value; num and size give its VersionNumber and its Filesize in bytes.   *)
(* `spec` is the part of a collection's document that decides: a record    *)
(* with maxBackupsCount, and maxOneVersionSize and maxCollectionSize in    *)
(* bytes.                                                                  *)
(***************************************************************************)
EXTENDS Integers, FiniteSets, FiniteSetsExt

IsSpec(spec) ==
    /\ spec.maxBackupsCount \in Nat
    /\ spec.maxOneVersionSize \in Nat \ {0}
    /\ spec.maxCollectionSize \in Nat

\* Mutant of HighestNumber: -1 in an empty collection.
HighestNumberOrMinusOne(existing, num) == Max({-1} \cup {num[v] : v \in existing})

\* findLastHighestVersionNumber over the rows that are not soft-deleted:
\* 0 in an empty collection.
HighestNumber(existing, num) == Max({0} \cup {num[v] : v \in existing})

\* Mutants of NextVersionNumber: one number back instead of ahead; two ahead; the
\* number of versions instead of the highest number.
PreviousVersionNumber(existing, num) == HighestNumber(existing, num) - 1
SkippedVersionNumber(existing, num) == HighestNumber(existing, num) + 2
CountedVersionNumber(existing, num) == Cardinality(existing) + 1

\* FindNextVersionForCollectionId
NextVersionNumber(existing, num) == HighestNumber(existing, num) + 1

\* Mutant of Oldest: the versions sorted in descending order.
Youngest(existing, num, count) ==
    {d \in kSubset(count, existing) :
        \A v \in d, w \in existing \ d : num[v] >= num[w]}

\* `count` versions none of which is newer than a version that stays.  Only
\* versions with equal numbers leave a choice (the order SQL returns them in).
Oldest(existing, num, count) ==
    {d \in kSubset(count, existing) :
        \A v \in d, w \in existing \ d : num[v] <= num[w]}

\* Mutants of VersionsToDelete: the slot of the new version counted twice; only
\* the single oldest version.
OneTooManyToDelete(spec, existing, num) ==
    LET count == Cardinality(existing) IN
    IF count < spec.maxBackupsCount
    THEN {{}}
    ELSE Oldest(existing, num, Min({count, count - spec.maxBackupsCount + 2}))
OnlyOneToDelete(spec, existing, num) ==
    IF Cardinality(existing) < spec.maxBackupsCount
    THEN {{}}
    ELSE Oldest(existing, num, 1)

\* FifoRotationStrategy.GetVersionsThatShouldBeDeletedIfThisVersionUploaded:
\* the possible results (one, when the numbers are distinct).  With
\* maxBackupsCount 0 the slice is one longer than its operand: it panics, or an
\* empty version, whose deletion changes nothing, comes with the others.
VersionsToDelete(spec, existing, num) ==
    LET count == Cardinality(existing) IN
    IF count < spec.maxBackupsCount
    THEN {{}}
    ELSE Oldest(existing, num, Min({count, count - spec.maxBackupsCount + 1}))

\* GetEstimatedCollectionExtraSpace
ExtraSpace(spec) == spec.maxCollectionSize - spec.maxBackupsCount * spec.maxOneVersionSize

\* The sum of the values of a function
Total(f, S) == MapThenSumSet(LAMBDA x : f[x], S)

\* CalculateAllocatedSpaceAboveSingleVersionLimit
SpaceAboveLimit(spec, counted, size) ==
    Total([v \in counted |-> IF size[v] > spec.maxOneVersionSize
                             THEN size[v] - spec.maxOneVersionSize ELSE 0], counted)

\* maxExtraSpace - usedExtraSpace; negative means "Corrupted collection"
RemainedExtraSpace(spec, existing, excluding, size) ==
    ExtraSpace(spec) - SpaceAboveLimit(spec, existing \ excluding, size)

\* CalculateMaximumAllowedUploadFilesize asks for the used space only when
\* there is extra space.
IsCorrupted(spec, existing, excluding, size) ==
    ExtraSpace(spec) # 0 /\ RemainedExtraSpace(spec, existing, excluding, size) < 0

\* Mutants of MaximumAllowedFilesize: used extra space forgotten; the limit of
\* the collection taken for the limit of the file.
UsedExtraForgotten(spec, existing, excluding, size) == ExtraSpace(spec) + spec.maxOneVersionSize
WholeCollectionAllowed(spec, existing, excluding, size) == spec.maxCollectionSize

\* CalculateMaximumAllowedUploadFilesize
MaximumAllowedFilesize(spec, existing, excluding, size) ==
    IF ExtraSpace(spec) = 0
    THEN spec.maxOneVersionSize
    ELSE RemainedExtraSpace(spec, existing, excluding, size) + spec.maxOneVersionSize
=============================================================================
