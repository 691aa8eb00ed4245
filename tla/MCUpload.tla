------------------------------ MODULE MCUpload ------------------------------
\* Model-checking instances of Upload: values of the collection's document.
EXTENDS Upload, TLC

Document(count, one, total) ==
    [maxBackupsCount |-> count, maxOneVersionSize |-> one,
     maxCollectionSize |-> total, versioned |-> TRUE]

\* Two copies of 2 bytes, and 1 byte of extra space
KeepTwo == {Document(2, 2, 5)}

\* The number of copies is changed, and the size with it: the extra space stays.
KeepTwoOrThree == {Document(2, 2, 5), Document(3, 2, 7)}

\* Without copies, and all at one path, the largest version is larger than two
\* copies leave room for.
NoneOrTwo == {[Document(0, 2, 4) EXCEPT !.versioned = FALSE], Document(2, 2, 5)}

RequestSymmetry == Permutations(Clients)
=============================================================================
