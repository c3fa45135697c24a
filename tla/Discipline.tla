----------------------------- MODULE Discipline ------------------------------
(***************************************************************************)
(* Which commands two careful operators never run at the same time.  A     *)
(* command is a record: name, and the qualifiers it has of l (/label), b   *)
(* (/bck_id), o (the object), i (/objinstance); /runexpiration has todo,   *)
(* the backups it is going to remove.                                      *)
(***************************************************************************)

Has(c, field) == field \in DOMAIN c

\* What only one command at a time may use: a label, an instance of an object
\* whose segments it changes, a backup it changes or removes as a whole.
Exclusive(c) ==
    (IF Has(c, "l") THEN {<<"label", c.l>>} ELSE {}) \cup
    (IF Has(c, "o") /\ c.name # "start" THEN {<<"object", c.b, c.o, c.i>>} ELSE {}) \cup
    (IF Has(c, "b") /\ ~Has(c, "o") THEN {<<"backup", c.b>>} ELSE {}) \cup
    (IF Has(c, "todo") THEN {<<"backup", b>> : b \in c.todo} ELSE {})

\* What several commands may use together, but not with one that needs it alone.
Shared(c) == IF Has(c, "o") THEN {<<"backup", c.b>>} ELSE {}

Conflict(c, d) ==
    \/ Exclusive(c) \cap (Exclusive(d) \cup Shared(d)) # {}
    \/ Shared(c) \cap Exclusive(d) # {}
==============================================================================
