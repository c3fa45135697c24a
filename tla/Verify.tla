------------------------------- MODULE Verify --------------------------------
(***************************************************************************)
(* /verify: the eight consistency queries of db_verify, each as the rows   *)
(* its select returns, and the error total it prints.  It only reads.      *)
(***************************************************************************)
EXTENDS Catalog

\* Broken: the join is not on the instance.
UnmatchedByName(rows, partners) ==
    {r \in rows : ~\E q \in partners : q.bck_id = r.bck_id /\ q.objname = r.objname}

\* The rows of rows that find no partner in a left outer join on IsOf.
Unmatched(rows, partners) ==
    {r \in rows : ~\E q \in partners : IsOf(q, r.bck_id, r.objname, r.obj_instance)}

\* The rows of bck_errors are not a set: the positions of the faulty ones.
ErrorsWithoutBackup(errs, bcks) ==
    {k \in DOMAIN errs : errs[k].bck_id > 0 /\ errs[k].bck_id \notin DOMAIN bcks}

ErrorsWithoutObject(errs, objs) ==
    {k \in DOMAIN errs :
        ~\E r \in objs : IsOf(r, errs[k].bck_id, errs[k].objname, errs[k].obj_instance)}

ObjectsWithoutBackup(objs, bcks) == {r \in objs : r.bck_id \notin DOMAIN bcks}

ObjectsWithoutSegment(objs, segs) == Unmatched(objs, segs)

SegmentsWithoutObject(segs, objs) == Unmatched(segs, objs)

\* The row of nulls a left outer join adds where nothing matches.
NullRow == <<>>

\* ... left outer join volumes v on vo.bck_id = v.bck_id
\* where vo.label = v.label and v.bck_id is null
SegmentsWithoutVolume(segs, vols) ==
    LET matches(s) == {l \in DOMAIN vols : vols[l].bck_id = s.bck_id}
        joined(s) == IF matches(s) = {} THEN {NullRow} ELSE matches(s)
    IN  {s \in segs : \E l \in joined(s) : l = s.label /\ l = NullRow}

VolumesWithoutSegment(vols, segs) ==
    {l \in DOMAIN vols : /\ vols[l].bck_id > 0
                         /\ ~\E s \in segs : s.bck_id = vols[l].bck_id /\ s.label = l}

VolumesWithoutBackup(vols, bcks) ==
    {l \in DOMAIN vols : vols[l].bck_id > 0 /\ vols[l].bck_id \notin DOMAIN bcks}

\* The number after TOTAL ERRORS.
TotalErrors(vols, bcks, objs, segs, errs) ==
      Cardinality(ErrorsWithoutBackup(errs, bcks))
    + Cardinality(ErrorsWithoutObject(errs, objs))
    + Cardinality(ObjectsWithoutBackup(objs, bcks))
    + Cardinality(ObjectsWithoutSegment(objs, segs))
    + Cardinality(SegmentsWithoutObject(segs, objs))
    + Cardinality(SegmentsWithoutVolume(segs, vols))
    + Cardinality(VolumesWithoutSegment(vols, segs))
    + Cardinality(VolumesWithoutBackup(vols, bcks))
=============================================================================
