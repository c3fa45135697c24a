----------------------------- MODULE LibraryPool -----------------------------
(***************************************************************************)
(* Library implements TapePool: the owner of a tape is the bck_id of its   *)
(* row in volumes, its contents are the backups with a segment on it.      *)
(***************************************************************************)
EXTENDS Library

TapeOwner == [l \in DOMAIN volumes |-> volumes[l].bck_id]

TapeContents == [l \in Label |-> {s.bck_id : s \in {t \in vol_obj : t.label = l}}]

Pool == INSTANCE TapePool WITH Tape <- Label, Owner <- BckId,
                               owner <- TapeOwner, contents <- TapeContents

\* The catalogue's tables keep the promise of the tape pool: whatever mix of
\* commands runs, tapes change hands and data is recorded only as TapePool
\* allows, so that /runexpiration and /removebackup are the only way back to
\* free and take the record of the data with them.
ImplementsTapePool == Pool!Spec
=============================================================================
