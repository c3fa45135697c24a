------------------------------- MODULE Reports -------------------------------
(***************************************************************************)
(* What /reportbackup, /display and /errcount add up.  They only read, so  *)
(* each is an operator on the tables; the properties say what their        *)
(* numbers are worth on the catalogues the commands produce.               *)
(*                                                                         *)
(* The report has two parts.  The first goes from the objects of a backup  *)
(* to their segments, the second (the tape summary) and /display from the  *)
(* volumes that belong to the backup to the segments on them.              *)
(***************************************************************************)
EXTENDS LibraryClaims

BytesOf(segs) == MapThenSumSet(LAMBDA s : s.size, segs)

ObjectsOf(b) == {r \in bck_objects : r.bck_id = b}

\* select * from vol_obj where bck_id=? and objname=? and obj_instance=?
SegmentsOf(r) == {s \in vol_obj : IsOf(s, r.bck_id, r.objname, r.obj_instance)}

\* select * from volumes where bck_id=?
VolumesOf(b) == {l \in DOMAIN volumes : volumes[l].bck_id = b}

\* select ... from vol_obj where bck_id=? and label=?
SegmentsOn(b, l) == {s \in vol_obj : s.bck_id = b /\ s.label = l}

-----------------------------------------------------------------------------
(* Bytes and files                                                         *)

\* gtot_bytes, and the lines it is the sum of.
ReportedBytes(b) == MapThenSumSet(LAMBDA r : BytesOf(SegmentsOf(r)), ObjectsOf(b))

ReportedFiles(b) == MapThenSumSet(LAMBDA r : Cardinality(SegmentsOf(r)), ObjectsOf(b))

\* The lines of the tape summary, added up.
SummaryBytes(b) == MapThenSumSet(LAMBDA l : BytesOf(SegmentsOn(b, l)), VolumesOf(b))

\* The #Files column of display_backup_volumes, added up.
DisplayedFiles(b) == MapThenSumSet(LAMBDA l : CountVolObjLabel(vol_obj, b, l), VolumesOf(b))

-----------------------------------------------------------------------------
(* Errors                                                                  *)

\* Broken: bck_id is not part of the condition.
ErrorsOnAnyBackup(s) ==
    {k \in DOMAIN bck_errors : /\ bck_errors[k].objname = s.objname
                               /\ bck_errors[k].obj_instance = s.obj_instance
                               /\ bck_errors[k].label = s.label}

\* select * from bck_errors where bck_id=? and objname=? and label=? and
\* obj_instance=?
ErrorsOn(s) ==
    {k \in DOMAIN bck_errors : /\ IsOf(bck_errors[k], s.bck_id, s.objname, s.obj_instance)
                               /\ bck_errors[k].label = s.label}

\* gtot_errs.  tot_errs counts the errors of one segment and starts again at 0
\* for the next, so an object adds the errors of the segment read last, the one
\* started last.  The order of starts is not in the model: any one may be.
ReportedErrors(b) ==
    LET last == {f \in [ObjectsOf(b) -> vol_obj] : \A r \in ObjectsOf(b) : f[r] \in SegmentsOf(r)}
    IN  {MapThenSumSet(LAMBDA r : Cardinality(ErrorsOn(f[r])), ObjectsOf(b)) : f \in last}

\* select count( * ) from bck_errors where bck_id=?
CountErrors(b) == Cardinality({k \in DOMAIN bck_errors : bck_errors[k].bck_id = b})

\* Broken: the objects of the backup are not counted.
CountBackupNotSet(b) == IF b \in DOMAIN backups /\ backups[b].end = 0 THEN 1 ELSE 0

\* The backup and its objects that have not ended.
CountNotSet(b) ==
      Cardinality({c \in DOMAIN backups : c = b /\ backups[c].end = 0})
    + Cardinality({r \in ObjectsOf(b) : r.end = 0})

\* BLIB_ERRCOUNT of /errcount=b
ErrCount(b) == CountErrors(b) + CountNotSet(b)

-----------------------------------------------------------------------------
\* The two halves of a report agree: what the objects of a backup wrote is what
\* is on the tapes that belong to it, byte for byte and file for file.  (A tape
\* lost to another backup, or an object row without its segments, would show in
\* one half only.)
ReportAddsUp ==
    \A b \in DOMAIN backups :
        /\ ReportedBytes(b) = SummaryBytes(b)
        /\ ReportedFiles(b) = DisplayedFiles(b)

\* The report shows no error that was not recorded for the backup, and leaves
\* out recorded ones only if the object went on to another tape, or the error
\* was recorded against a tape the object is not on.  So as long as every object
\* is on one tape, and its errors are recorded against that tape, the logs of
\* /includelogs?= are attached exactly when /errcount counts errors.
ReportShowsErrors ==
    \A b \in DOMAIN backups : \A n \in ReportedErrors(b) :
        /\ n <= CountErrors(b)
        /\ n < CountErrors(b) =>
              \E k \in DOMAIN bck_errors, s \in vol_obj :
                  /\ IsOf(bck_errors[k], b, s.objname, s.obj_instance)
                  /\ s.bck_id = b /\ s.label # bck_errors[k].label

\* A backup /errcount calls complete is not being written any more: an open
\* segment is then of an object instance that was started twice, and has ended.
CompleteIsClosed ==
    \A s \in vol_obj :
        CountNotSet(s.bck_id) = 0 /\ s.end = 0 =>
            \E t \in vol_obj : IsOf(t, s.bck_id, s.objname, s.obj_instance) /\ t.end # 0

\* What blib says about the errors of a backup can be relied on.
ErrorsAreReported == ReportShowsErrors /\ CompleteIsClosed
=============================================================================
