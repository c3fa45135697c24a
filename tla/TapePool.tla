------------------------------- MODULE TapePool -------------------------------
(***************************************************************************)
(* What the library promises about its tapes, and nothing about how it     *)
(* keeps its tables: a tape in the library is either free or owned by one  *)
(* backup, data is only written for the owner, and the owner gives all its *)
(* tapes back together, at which point its data is forgotten everywhere.   *)
(* Library implements this specification (LibraryPool).                    *)
(***************************************************************************)
EXTENDS Integers

CONSTANTS
    Tape,
    Owner       \* who may own a tape; 0 owns the free ones

VARIABLES
    owner,      \* tape in the library -> its owner, or 0
    contents    \* tape -> the owners whose data is recorded as being on it

vars == <<owner, contents>>

\* Whatever tapes the library starts with are free and hold nothing.
Init ==
    /\ owner \in UNION {[T -> {0}] : T \in SUBSET Tape}
    /\ contents = [t \in Tape |-> {}]

\* A new tape is free.
Add(t) ==
    /\ t \notin DOMAIN owner
    /\ owner' = [u \in DOMAIN owner \cup {t} |-> IF u = t THEN 0 ELSE owner[u]]
    /\ UNCHANGED contents

\* Only a free tape leaves the library.
Retire(t) ==
    /\ t \in DOMAIN owner
    /\ owner[t] = 0 /\ contents[t] = {}
    /\ owner' = [u \in DOMAIN owner \ {t} |-> owner[u]]
    /\ UNCHANGED contents

\* A tape that is free, or already b's, becomes b's, and b may write on it.
Take(t, b) ==
    /\ t \in DOMAIN owner
    /\ owner[t] \in {0, b}
    /\ owner' = [owner EXCEPT ![t] = b]
    /\ contents' \in {contents, [contents EXCEPT ![t] = @ \cup {b}]}

\* The backups of B return all their tapes at once and leave no data behind.
Return(B) ==
    /\ owner' = [t \in DOMAIN owner |-> IF owner[t] \in B THEN 0 ELSE owner[t]]
    /\ contents' = [t \in Tape |-> contents[t] \ B]

Next ==
    \/ \E t \in Tape : Add(t) \/ Retire(t) \/ \E b \in Owner : Take(t, b)
    \/ \E B \in SUBSET Owner : Return(B)

Spec == Init /\ [][Next]_vars
=============================================================================
