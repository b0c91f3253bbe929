--------------------------- MODULE VersionedStore ---------------------------
(***************************************************************************)
(* What the feature store promises its callers, whatever it is built from: *)
(* a table of versioned features in which a newer version wins, a listing  *)
(* of the features that are not deleted, and a mark that it was filled     *)
(* once.  The listing always is that of the table it is shown with.        *)
(***************************************************************************)
EXTENDS Features

VARIABLES table, listing, initialized

vars == <<table, listing, initialized>>

Init ==
    /\ table = [kind \in Kinds |-> EmptyCollection]
    /\ listing = [kind \in Kinds |-> EmptyCollection]
    /\ initialized = FALSE

\* A full data set replaces whatever the table held, older or newer.
Replace ==
    \E data \in [Kinds -> Collection] :
        /\ table' = data
        /\ listing' = [kind \in Kinds |-> Live(data[kind])]
        /\ initialized' = TRUE

\* A single feature, or the tombstone of one, arrives and is newer.
Put ==
    \E kind \in Kinds, key \in Keys, feature \in Feature :
        /\ ~Supersedes(table[kind][key], feature)
        /\ table' = [table EXCEPT ![kind][key] = feature]
        /\ listing' = [listing EXCEPT ![kind] = Live(table'[kind])]
        /\ UNCHANGED initialized

\* Replacing failed half way: the table is empty, never a mixture.
Drop ==
    /\ table' = [kind \in Kinds |-> EmptyCollection]
    /\ listing' = [kind \in Kinds |-> EmptyCollection]
    /\ UNCHANGED initialized

Next == Replace \/ Put \/ Drop

Spec == Init /\ [][Next]_vars

=============================================================================
