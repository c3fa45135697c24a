---------------------------- MODULE LibraryClaims ----------------------------
(***************************************************************************)
(* /verify on the catalogues the commands produce, and what the help text  *)
(* of /runexpiration says that the command does not keep.                  *)
(***************************************************************************)
EXTENDS LibraryPool, Verify

Total == TotalErrors(volumes, backups, bck_objects, vol_obj, bck_errors)

\* When commands run one after the other, /verify counts nothing but the error
\* history of removed backups (which its own comment, `bck_id maybe zero as we
\* keep a history', takes for no fault), and volumes /change_volume took for no
\* segment: every other alarm would mean rows were lost.
VerifyAlarmsAreExplained ==
    LET owned == {l \in DOMAIN volumes : volumes[l].bck_id # 0}
    IN  Total = Cardinality({k \in DOMAIN bck_errors : bck_errors[k].bck_id = 0})
              + Cardinality({l \in owned : \A s \in vol_obj : s.label # l})
              + Cardinality({l \in owned : volumes[l].bck_id \notin DOMAIN backups})

-----------------------------------------------------------------------------
\* /runexpiration=n is to `free up all or up too n expired tapes'.  A backup
\* gives back all its tapes together, so even a run that stops as soon as n are
\* free may pass n with its last backup, but not before it.
RunExpirationStops ==
    [][LET gone == DOMAIN backups \ DOMAIN backups'
           freed(B) == Cardinality({l \in DOMAIN volumes : volumes[l].bck_id \in B})
       IN  RunExpiration(1) => \E b \in gone : freed(gone \ {b}) < 1]_vars
=============================================================================
