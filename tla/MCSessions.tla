----------------------------- MODULE MCSessions -----------------------------
\* Model-checking instance of Sessions: an administrator, and a user with an
\* access key who also logs in with a scope that mentions the collection twice.
EXTENDS Sessions, TLC

On(roles) == [name |-> "col", roles |-> roles]
Elsewhere(roles) == [name |-> "other", roles |-> roles]

MCLogins == {
    [user |-> "root", key |-> "", scope |-> <<>>],
    [user |-> "ann", key |-> "k", scope |-> <<>>],
    [user |-> "ann", key |-> "",
     scope |-> <<On({"collectionManager"}), Elsewhere({"systemAdmin"}),
                 On({"backupDownloader"})>>]}

NoKeys == [name \in {} |-> <<>>]

AnnsKey == <<Elsewhere({"systemAdmin"}), On({"uploadsAnytime"}), On({"backupDownloader"})>>

MCProfiles == [
    root |-> {[roles |-> {"systemAdmin"}, keys |-> NoKeys],
              [roles |-> {}, keys |-> NoKeys]},
    ann |-> {[roles |-> {"userManager"}, keys |-> [k |-> AnnsKey]],
             [roles |-> {}, keys |-> NoKeys]}]

MCAccessLists == {
    {[name |-> "ann", roles |-> {"backupUploader"}]},
    {[name |-> "ann", roles |-> {"collectionManager"}]}}

RequestSymmetry == Permutations(Requests)
=============================================================================
