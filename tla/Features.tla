------------------------------ MODULE Features ------------------------------
(***************************************************************************)
(* The data every store of the SDK keeps: versioned features (flags and    *)
(* segments), their tombstones, and collections of them by key.  A feature *)
(* is abstracted to its version and its deleted mark; the rest of its JSON *)
(* is carried along unread by the store.                                   *)
(***************************************************************************)
EXTENDS Naturals

CONSTANTS
    Kinds,      \* feature kinds: LD_FLAG and LD_SEGMENT
    LD_FLAG,    \* the kind LDAllFlags lists
    Keys,       \* feature keys
    Versions,   \* versions a feature may carry
    NULL        \* the C null pointer: no item, no result

ASSUME FlagsAreAKind == LD_FLAG \in Kinds

ASSUME VersionsAreNaturals == Versions \subseteq Nat

Feature == [version : Versions, deleted : BOOLEAN]

\* A collection maps every key to a feature or to NULL.
Collection == [Keys -> Feature \cup {NULL}]

ASSUME NULLIsNoData == NULL \notin Feature /\ NULL \notin Collection

EmptyCollection == [key \in Keys |-> NULL]

LDi_getFeatureVersionTrusted(feature) == feature.version

LDi_isFeatureDeleted(feature) == feature.deleted

\* The tombstone that stands for a removed feature.
LDi_makeDeleted(version) == [version |-> version, deleted |-> TRUE]

\* The features of a collection a reader may be given.
Live(features) ==
    [key \in Keys |->
        IF features[key] # NULL /\ LDi_isFeatureDeleted(features[key])
          THEN NULL ELSE features[key]]

\* Fault: the version comparison is left out.
SupersedesNever(current, replacement) == FALSE

\* Whether a stored item makes an arriving feature obsolete.
Supersedes(current, replacement) ==
    /\ current # NULL
    /\ LDi_getFeatureVersionTrusted(current)
         >= LDi_getFeatureVersionTrusted(replacement)

=============================================================================
