------------------------------ MODULE MCHealth ------------------------------
\* Model-checking instances of CollectionHealth: a second has 2 ticks, a minute 3.
EXTENDS CollectionHealth

Every(minutes, from, to) == {m * minutes * Minute : m \in from..to}

\* One window every other minute, and one every fifth, which is more than the
\* search goes back
TwoWindows == <<[runs |-> Every(2, -2, 5), duration |-> 4],
                [runs |-> Every(5, -1, 2), duration |-> 5]>>

\* from: "*/30 * * * *", duration: 30m of docs/api/collections/README.md
WithoutGaps == <<[runs |-> Every(2, -2, 5), duration |-> 2 * Minute]>>

KeepTwo == [maxBackupsCount |-> 2, maxOneVersionSize |-> 2, maxCollectionSize |-> 5]
BeforeAll == -100
=============================================================================
