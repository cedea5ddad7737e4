----------------------- MODULE ReportFormatsInvariants -----------------------
(***************************************************************************)
(* Proofs of two invariants of the report format lifecycle that hold for  *)
(* every feed: the formats without owner mirror the readable directories  *)
(* of the feed, and (when modify is given no name) no user has two        *)
(* formats of the same name.                                               *)
(*                                                                         *)
(* FeedMirrored is inductive together with TypeInv alone: a handler only  *)
(* inserts, replaces or removes rows of the calling user and only writes  *)
(* directories under report_formats and report_formats_trash, and the     *)
(* startup checks rebuild the formats without owner from the feed         *)
(* directories they leave untouched.                                       *)
(***************************************************************************)
EXTENDS ReportFormatsSafety

USE ConstantsAssumption, IntWidthAssumption

-----------------------------------------------------------------------------
(* The feed directories and the rows without owner. *)

\* The rows of report_formats that have no owner.
FeedRows(rs) == {s \in rs : s.owner = NoOwner}

\* A step leaves every directory of a predefined format as it was.
FeedDirsKept == \A x \in Predefined : disk'[FeedPath(x)] = disk[FeedPath(x)]

\* No directory of an owner is the directory of a feed format.
LEMMA OwnerNotFeed == \A u, x, y : OwnerPath(u, x) # FeedPath(y)
BY DEF OwnerPath, FeedPath

\* Every predefined format has its directory among Paths.
LEMMA FeedPathInPaths == \A x \in Predefined : FeedPath(x) \in Paths
BY DEF Paths

\* A step that writes at most one directory of an owner or of the trash
\* keeps the feed directories.
LEMMA OneDirKeepsFeed ==
    ASSUME disk \in [Paths -> DirStates], NEW q, q \in OwnerPaths \cup TrashPaths,
           disk' = disk \/ \E v : disk' = [disk EXCEPT ![q] = v]
    PROVE  FeedDirsKept
<1>1. \A x \in Predefined : FeedPath(x) # q
    BY OwnerNotFeed, PathsDistinct DEF OwnerPaths, TrashPaths
<1>. QED BY <1>1, FeedPathInPaths DEF FeedDirsKept

\* A move between a directory of an owner and one of the trash keeps the
\* feed directories.
LEMMA MoveDirKeepsFeed ==
    ASSUME disk \in [Paths -> DirStates], NEW src, NEW dst, NEW ok,
           MoveDir(src, dst, ok), src \in OwnerPaths \cup TrashPaths,
           dst \in OwnerPaths \cup TrashPaths
    PROVE  FeedDirsKept
<1>1. \A x \in Predefined : FeedPath(x) # src /\ FeedPath(x) # dst
    BY OwnerNotFeed, PathsDistinct DEF OwnerPaths, TrashPaths
<1>. QED BY <1>1, FeedPathInPaths, MoveDirFrame DEF FeedDirsKept

\* A step that keeps the rows without owner and the feed directories
\* keeps the mirror.
LEMMA MirrorFrame ==
    ASSUME FeedMirrored, FeedRows(rfs') = FeedRows(rfs), FeedDirsKept
    PROVE  FeedMirrored'
BY DEF FeedMirrored, FeedRows, FeedDirsKept

\* Adding a row of a user, or removing one, keeps the rows without owner.
LEMMA UserRowFeedRows ==
    ASSUME NEW row, row.owner # NoOwner,
           \/ rfs' = rfs
           \/ rfs' = rfs \cup {row}
           \/ rfs' = rfs \ {row}
    PROVE  FeedRows(rfs') = FeedRows(rfs)
BY DEF FeedRows

\* Replacing a row of a user by a row of the same owner keeps the rows
\* without owner.
LEMMA ReplaceRowFeedRows ==
    ASSUME NEW r, NEW q, r.owner # NoOwner, q.owner = r.owner,
           rfs' = (rfs \ {r}) \cup {q}
    PROVE  FeedRows(rfs') = FeedRows(rfs)
BY DEF FeedRows

-----------------------------------------------------------------------------
(* The handlers keep the mirror. *)

LEMMA WriteFormatMirror ==
    ASSUME TypeInv, FeedMirrored, NEW u \in Users, NEW y \in Uuids, NEW b, NEW ps,
           NEW code, WriteFormat(u, y, b, ps, code)
    PROVE  FeedMirrored'
<1>1. FeedDirsKept
    <2>1. disk' = disk \/ \E v : disk' = [disk EXCEPT ![OwnerPath(u, y)] = v]
        BY DEF WriteFormat
    <2>2. OwnerPath(u, y) \in OwnerPaths
        BY DEF OwnerPaths
    <2>. QED BY <2>1, <2>2, OneDirKeepsFeed DEF TypeInv, TypeOK
<1>2. FeedRows(rfs') = FeedRows(rfs)
    <2>1. rfs' = rfs \/ rfs' = rfs \cup {CreatedRow(u, y, b, ps)}
        BY DEF WriteFormat
    <2>2. CreatedRow(u, y, b, ps).owner # NoOwner
        BY DEF CreatedRow
    <2>. QED BY <2>1, <2>2, UserRowFeedRows
<1>. QED BY <1>1, <1>2, MirrorFrame

LEMMA CreateMirror ==
    ASSUME TypeInv, FeedMirrored, NEW u \in Users, NEW x \in Uuids, NEW b, NEW ps,
           NEW fs, Create(u, x, b, ps, fs)
    PROVE  FeedMirrored'
<1>1. PICK y \in Uuids : WriteFormat(u, y, b, ps, IF "" \in fs THEN 2 ELSE ParamsCode(ps))
    BY DEF Create
<1>. QED BY <1>1, WriteFormatMirror

LEMMA CopyMirror ==
    ASSUME TypeInv, FeedMirrored, NEW u \in Users, NEW s \in rfs, Copy(u, s)
    PROVE  FeedMirrored'
<1>1. PICK y \in Uuids : CopyFiles(u, s, y)
    BY DEF Copy
<1>2. FeedDirsKept
    <2>1. disk' = disk \/ \E v : disk' = [disk EXCEPT ![OwnerPath(u, y)] = v]
        BY <1>1 DEF CopyFiles
    <2>. QED BY <2>1, OneDirKeepsFeed DEF TypeInv, TypeOK, OwnerPaths
<1>3. FeedRows(rfs') = FeedRows(rfs)
    <2>1. rfs' = rfs \/ rfs' = rfs \cup {CopiedRow(u, s, y)}
        BY <1>1 DEF CopyFiles
    <2>2. CopiedRow(u, s, y).owner # NoOwner
        BY DEF CopiedRow
    <2>. QED BY <2>1, <2>2, UserRowFeedRows
<1>. QED BY <1>2, <1>3, MirrorFrame

LEMMA ModifyMirror ==
    ASSUME TypeInv, FeedMirrored, NEW u \in Users, NEW r \in rfs, NEW nm, NEW act,
           NEW pred, NEW prm, Modify(u, r, nm, act, pred, prm)
    PROVE  FeedMirrored'
<1>. DEFINE r1 == ModifiedFields(r, nm, act, pred)
            r2 == [r1 EXCEPT !.params[prm[1]].value = prm[2]]
<1>1. r.owner = u /\ u # NoOwner /\ UNCHANGED disk
    BY DEF Modify
<1>2. r1.owner = r.owner /\ r2.owner = r.owner
    BY DEF TypeInv, TypeOK, RowOK, Row, ModifiedFields
<1>3. rfs' = (rfs \ {r}) \cup {r1} \/ rfs' = (rfs \ {r}) \cup {r2}
    BY DEF Modify
<1>4. FeedRows(rfs') = FeedRows(rfs)
    BY <1>1, <1>2, <1>3, ReplaceRowFeedRows
<1>. QED BY <1>1, <1>4, MirrorFrame DEF FeedDirsKept

LEMMA SoftDeleteMirror ==
    ASSUME TypeInv, FeedMirrored, NEW u \in Users, NEW r \in rfs, SoftDelete(u, r)
    PROVE  FeedMirrored'
<1>0. TypeOK /\ r.uuid \in Uuids
    BY DEF TypeInv, TypeOK, RowOK, Row
<1>1. FeedRows(rfs') = FeedRows(rfs)
    <2>1. rfs' = rfs \/ rfs' = rfs \ {r}
        BY DEF SoftDelete
    <2>. QED BY <2>1, UserRowFeedRows DEF SoftDelete
<1>2. FeedDirsKept
    <2>1. CASE UNCHANGED disk
        BY <2>1 DEF FeedDirsKept
    <2>2. CASE nextTrash <= MaxTrashId
               /\ \E ok \in BOOLEAN : MoveDir(OwnerPath(u, r.uuid), TrashPath(nextTrash), ok)
        <3>1. TrashPath(nextTrash) \in TrashPaths /\ OwnerPath(u, r.uuid) \in OwnerPaths
            BY <1>0, <2>2 DEF TypeOK, TrashPaths, OwnerPaths
        <3>. QED BY <1>0, <2>2, <3>1, MoveDirKeepsFeed DEF TypeOK
    <2>. QED BY <2>1, <2>2 DEF SoftDelete
<1>. QED BY <1>1, <1>2, MirrorFrame

LEMMA DeleteActiveMirror ==
    ASSUME TypeInv, FeedMirrored, NEW u \in Users, NEW r \in rfs, DeleteActive(u, r)
    PROVE  FeedMirrored'
<1>1. FeedDirsKept
    <2>1. disk' = disk \/ \E v : disk' = [disk EXCEPT ![OwnerPath(u, r.uuid)] = v]
        BY DEF DeleteActive
    <2>2. OwnerPath(u, r.uuid) \in OwnerPaths
        BY DEF TypeInv, TypeOK, RowOK, Row, OwnerPaths
    <2>. QED BY <2>1, <2>2, OneDirKeepsFeed DEF TypeInv, TypeOK
<1>2. FeedRows(rfs') = FeedRows(rfs)
    <2>1. rfs' = rfs \/ rfs' = rfs \ {r}
        BY DEF DeleteActive
    <2>. QED BY <2>1, UserRowFeedRows DEF DeleteActive
<1>. QED BY <1>1, <1>2, MirrorFrame

LEMMA DeleteTrashMirror ==
    ASSUME TypeInv, FeedMirrored, NEW u \in Users, NEW t \in trash, NEW ult,
           DeleteTrash(u, t, ult)
    PROVE  FeedMirrored'
<1>1. FeedDirsKept
    <2>1. disk' = disk \/ \E v : disk' = [disk EXCEPT ![TrashPath(t.id)] = v]
        BY DEF DeleteTrash
    <2>2. TrashPath(t.id) \in TrashPaths
        BY DEF TypeInv, TypeOK, TrashRowOK, TrashRow, TrashPaths
    <2>. QED BY <2>1, <2>2, OneDirKeepsFeed DEF TypeInv, TypeOK
<1>. QED BY <1>1, MirrorFrame DEF DeleteTrash

LEMMA RestoreMirror ==
    ASSUME TypeInv, FeedMirrored, NEW u \in Users, NEW t \in trash, Restore(u, t)
    PROVE  FeedMirrored'
<1>0. t.id \in 1 .. MaxTrashId /\ t.orig \in Uuids /\ t.owner \in Users
    BY DEF TypeInv, TypeOK, TrashRowOK, TrashRow
<1>1. FeedRows(rfs') = FeedRows(rfs)
    <2>1. rfs' = rfs \/ rfs' = rfs \cup {RestoredRow(t)}
        BY DEF Restore
    <2>2. RestoredRow(t).owner # NoOwner
        BY <1>0 DEF RestoredRow
    <2>. QED BY <2>1, <2>2, UserRowFeedRows
<1>2. FeedDirsKept
    <2>1. CASE UNCHANGED disk
        BY <2>1 DEF FeedDirsKept
    <2>2. CASE \E ok \in BOOLEAN : MoveDir(TrashPath(t.id), OwnerPath(t.owner, t.orig), ok)
        <3>1. TrashPath(t.id) \in TrashPaths /\ OwnerPath(t.owner, t.orig) \in OwnerPaths
            BY <1>0 DEF TrashPaths, OwnerPaths
        <3>. QED BY <2>2, <3>1, MoveDirKeepsFeed DEF TypeInv, TypeOK
    <2>. QED BY <2>1, <2>2 DEF Restore
<1>. QED BY <1>1, <1>2, MirrorFrame

LEMMA EmptyTrashMirror ==
    ASSUME TypeInv, FeedMirrored, NEW u \in Users, EmptyTrash(u)
    PROVE  FeedMirrored'
<1>1. \A g : \A x \in Predefined : RemovedTrashDirs(g)[FeedPath(x)] = disk[FeedPath(x)]
    BY FeedPathInPaths, PathsDistinct DEF RemovedTrashDirs
<1>2. FeedDirsKept
    <2>1. CASE \E g : disk' = RemovedTrashDirs(g)
        BY <1>1, <2>1 DEF FeedDirsKept
    <2>2. CASE \E g, f : disk' = [RemovedTrashDirs(g) EXCEPT ![TrashPath(f)] = Damaged(@)]
        <3>1. PICK g, f : disk' = [RemovedTrashDirs(g) EXCEPT ![TrashPath(f)] = Damaged(@)]
            BY <2>2
        <3>2. \A x \in Predefined : disk'[FeedPath(x)] = RemovedTrashDirs(g)[FeedPath(x)]
            BY <3>1, PathsDistinct
        <3>. QED BY <1>1, <3>2 DEF FeedDirsKept
    <2>. QED BY <2>1, <2>2 DEF EmptyTrash
<1>. QED BY <1>2, MirrorFrame DEF EmptyTrash

-----------------------------------------------------------------------------
(* The startup checks rebuild the mirror. *)

\* The feed walk of check_db_report_formats leaves exactly the uuids whose
\* descriptor reads as formats without owner: it gives each such row to
\* the feed, inserts the missing ones and drops the others.
LEMMA FeedSyncedOwnerless ==
    ASSUME TypeInv, NEW ok \in SUBSET Predefined
    PROVE  {r.uuid : r \in FeedRows(FeedSynced(ok))} = ok
<1>1. \A r \in rfs : RowOK(r)
    BY DEF TypeInv, TypeOK
<1>2. ASSUME NEW q \in FeedRows(FeedSynced(ok)) PROVE q.uuid \in ok
    <2>1. q \in FeedSynced(ok) /\ q.owner = NoOwner
        BY DEF FeedRows
    <2>2. CASE \E r \in {s \in rfs : s.uuid \in ok} : q = FeedUpdated(r)
        <3>1. PICK r \in rfs : r.uuid \in ok /\ q = FeedUpdated(r)
            BY <2>2
        <3>. QED BY <1>1, <3>1, FeedUpdatedType
    <2>3. CASE q \in {r \in rfs : r.owner # NoOwner /\ r.uuid \notin ok}
        BY <2>1, <2>3
    <2>4. CASE \E x \in ok \ ActiveUuids : q = FeedRow(x)
        <3>1. PICK x \in ok : q = FeedRow(x)
            BY <2>4
        <3>. QED BY <3>1, FeedRowType
    <2>. QED BY <2>1, <2>2, <2>3, <2>4 DEF FeedSynced
<1>3. ASSUME NEW x \in ok PROVE \E q \in FeedRows(FeedSynced(ok)) : q.uuid = x
    <2>1. CASE x \in ActiveUuids
        <3>1. PICK r \in rfs : r.uuid = x
            BY <2>1 DEF ActiveUuids
        <3>2. FeedUpdated(r) \in FeedSynced(ok)
            BY <3>1 DEF FeedSynced
        <3>3. FeedUpdated(r).uuid = x /\ FeedUpdated(r).owner = NoOwner
            BY <1>1, <3>1, FeedUpdatedType
        <3>. QED BY <3>2, <3>3 DEF FeedRows
    <2>2. CASE x \notin ActiveUuids
        <3>1. FeedRow(x) \in FeedSynced(ok)
            BY <2>2 DEF FeedSynced
        <3>2. FeedRow(x).uuid = x /\ FeedRow(x).owner = NoOwner
            BY FeedRowType
        <3>. QED BY <3>1, <3>2 DEF FeedRows
    <2>. QED BY <2>1, <2>2
<1>. QED BY <1>2, <1>3

\* The orphan pruning of check_db_report_formats_trash removes only trash
\* directories: every feed directory is left as the daemon found it.
LEMMA RestartFeedDirs ==
    ASSUME NEW lost, NEW f, StartupChecks(lost, f)
    PROVE  \A x \in Predefined : disk'[FeedPath(x)] = StartupDisk(lost, f)[FeedPath(x)]
<1>. DEFINE disk0  == StartupDisk(lost, f)
            trash1 == CheckedTrash(trashRoot /\ ~lost)
<1>. SUFFICES ASSUME NEW x \in Predefined PROVE disk'[FeedPath(x)] = disk0[FeedPath(x)]
    OBVIOUS
<1>1. FeedPath(x) \in Paths /\ ~OrphanTrashDir(disk0, trash1, FeedPath(x))
    BY FeedPathInPaths, PathsDistinct DEF OrphanTrashDir, TrashPaths
<1>2. CASE disk' = [p \in Paths |-> IF OrphanTrashDir(disk0, trash1, p) THEN "none"
                                    ELSE disk0[p]]
    BY <1>1, <1>2
<1>3. CASE \E g \in SUBSET {p \in Paths : OrphanTrashDir(disk0, trash1, p)}, h \in Paths :
              /\ OrphanTrashDir(disk0, trash1, h) /\ h \notin g
              /\ disk' = [p \in Paths |-> IF p \in g THEN "none"
                                          ELSE IF p = h THEN Damaged(disk0[p])
                                          ELSE disk0[p]]
    <2>1. PICK g \in SUBSET {p \in Paths : OrphanTrashDir(disk0, trash1, p)}, h \in Paths :
              /\ OrphanTrashDir(disk0, trash1, h) /\ h \notin g
              /\ disk' = [p \in Paths |-> IF p \in g THEN "none"
                                          ELSE IF p = h THEN Damaged(disk0[p])
                                          ELSE disk0[p]]
        BY <1>3
    <2>2. FeedPath(x) \notin g /\ FeedPath(x) # h
        BY <1>1, <2>1
    <2>. QED BY <1>1, <2>1, <2>2
<1>. QED BY <1>2, <1>3 DEF StartupChecks

\* After the startup checks the formats without owner are the ones whose
\* feed directory holds a readable descriptor, whatever the feed did while
\* the daemon was stopped.
LEMMA RestartMirror ==
    ASSUME TypeInv, Restart
    PROVE  FeedMirrored'
<1>1. PICK lost \in LossChoices, f \in [Predefined -> FeedStates] : StartupChecks(lost, f)
    BY DEF Restart
<1>. DEFINE disk0 == StartupDisk(lost, f)
<1>2. rfs' = FeedSynced(FeedOk(disk0))
    BY <1>1 DEF StartupChecks
<1>3. {r.uuid : r \in FeedRows(rfs')} = FeedOk(disk0)
    <2>1. FeedOk(disk0) \in SUBSET Predefined
        BY DEF FeedOk
    <2>. QED BY <1>2, <2>1, FeedSyncedOwnerless
<1>4. {x \in Predefined : disk'[FeedPath(x)] = "intact"} = FeedOk(disk0)
    BY <1>1, RestartFeedDirs DEF FeedOk
<1>. QED BY <1>3, <1>4 DEF FeedMirrored, FeedRows

-----------------------------------------------------------------------------
(* The mirror of the feed. *)

MirrorInv == TypeInv /\ FeedMirrored

LEMMA InitMirror == Init => MirrorInv
<1>. SUFFICES ASSUME Init PROVE MirrorInv
    OBVIOUS
<1>1. {r.uuid : r \in FeedRows(rfs)} = Predefined
    BY FeedRowType DEF Init, FeedRows
<1>2. \A x \in Predefined : disk[FeedPath(x)] = "intact"
    BY FeedPathInPaths DEF Init
<1>. QED BY <1>1, <1>2, InitTypeInv DEF MirrorInv, FeedMirrored, FeedRows

LEMMA NextMirror == MirrorInv /\ [Next]_vars => MirrorInv'
<1>. SUFFICES ASSUME MirrorInv, [Next]_vars PROVE MirrorInv'
    OBVIOUS
<1>0. TypeInv /\ FeedMirrored /\ TypeInv'
    BY NextTypeInv DEF MirrorInv
<1>1. FeedMirrored'
    <2>1. CASE \E u \in Users, x \in Uuids, b \in Names, ps \in ParamInputs,
                  fs \in FileInputs : Create(u, x, b, ps, fs)
        BY <1>0, <2>1, CreateMirror
    <2>2. CASE \E u \in Users, s \in rfs : Copy(u, s)
        BY <1>0, <2>2, CopyMirror
    <2>3. CASE \E u \in Users, r \in rfs, m \in ModifyInputs :
                  Modify(u, r, m[1], m[2], m[3], m[4])
        BY <1>0, <2>3, ModifyMirror
    <2>4. CASE \E u \in Users, r \in rfs : SoftDelete(u, r) \/ DeleteActive(u, r)
        BY <1>0, <2>4, SoftDeleteMirror, DeleteActiveMirror
    <2>5. CASE \E u \in Users, t \in trash, ult \in BOOLEAN : DeleteTrash(u, t, ult)
        BY <1>0, <2>5, DeleteTrashMirror
    <2>6. CASE \E u \in Users, t \in trash : Restore(u, t)
        BY <1>0, <2>6, RestoreMirror
    <2>7. CASE \E u \in Users : EmptyTrash(u)
        BY <1>0, <2>7, EmptyTrashMirror
    <2>8. CASE Restart
        BY <1>0, <2>8, RestartMirror
    <2>9. CASE UNCHANGED vars
        BY <1>0, <2>9 DEF vars, FeedMirrored
    <2>. QED BY <2>1, <2>2, <2>3, <2>4, <2>5, <2>6, <2>7, <2>8, <2>9 DEF Next
<1>. QED BY <1>0, <1>1 DEF MirrorInv

\* Whatever the feed does to the predefined directories while the daemon
\* is stopped, the formats without owner are always exactly those whose
\* feed directory holds a readable descriptor: no handler gives a row to
\* the feed or takes one from it, or writes a feed directory, and the feed
\* walk of check_db_report_formats rebuilds the correspondence at every
\* start.
THEOREM FeedMirroredAlways == Spec => []FeedMirrored
<1>1. Init => MirrorInv
    BY InitMirror
<1>2. MirrorInv /\ [Next]_vars => MirrorInv'
    BY NextMirror
<1>3. MirrorInv => FeedMirrored
    BY DEF MirrorInv
<1>. QED BY <1>1, <1>2, <1>3, PTL DEF Spec

-----------------------------------------------------------------------------
(* Unique names. *)

\* modify_report_format is never given a new name: set_report_format_name
\* checks no other format of the owner, so NameUnique rests on this.
NoRename == ModifyNames = {}

\* The suffix loop of create and copy picks a name the user has no format
\* of.
LEMMA CandidateNameFree ==
    ASSUME NEW u, NEW base, FreeSuffixes(u, base) # {}
    PROVE  CandidateName(u, base) \notin OwnedNames(u)
<1>1. FreeSuffixes(u, base) \subseteq Nat
    BY DEF FreeSuffixes
<1>2. Min(FreeSuffixes(u, base)) \in FreeSuffixes(u, base)
    BY <1>1, MinIsLeast
<1>. QED BY <1>2 DEF FreeSuffixes, NameTaken, CandidateName

\* A step whose rows of users were all there before keeps names unique.
LEMMA UserRowsKept ==
    ASSUME NameUnique, \A q \in rfs' : q.owner # NoOwner => q \in rfs
    PROVE  NameUnique'
BY DEF NameUnique

\* Inserting a row under a name its owner has no format of keeps names
\* unique.
LEMMA AddNamedRow ==
    ASSUME NameUnique, NEW row, row.name \notin OwnedNames(row.owner),
           rfs' = rfs \/ rfs' = rfs \cup {row}
    PROVE  NameUnique'
BY DEF NameUnique, OwnedNames

\* Replacing a row by one of the same owner and name keeps names unique.
LEMMA ReplaceNamedRow ==
    ASSUME NameUnique, NEW r \in rfs, NEW q, q.owner = r.owner, q.name = r.name,
           rfs' = (rfs \ {r}) \cup {q}
    PROVE  NameUnique'
BY DEF NameUnique

LEMMA CreateNames ==
    ASSUME NameUnique, NEW u \in Users, NEW x \in Uuids, NEW b, NEW ps, NEW fs,
           Create(u, x, b, ps, fs)
    PROVE  NameUnique'
<1>1. PICK y \in Uuids : WriteFormat(u, y, b, ps, IF "" \in fs THEN 2 ELSE ParamsCode(ps))
    BY DEF Create
<1>2. rfs' = rfs \/ rfs' = rfs \cup {CreatedRow(u, y, b, ps)}
    BY <1>1 DEF WriteFormat
<1>3. CreatedRow(u, y, b, ps).name \notin OwnedNames(CreatedRow(u, y, b, ps).owner)
    BY CandidateNameFree DEF Create, CreatedRow
<1>. QED BY <1>2, <1>3, AddNamedRow

LEMMA CopyNames ==
    ASSUME NameUnique, NEW u \in Users, NEW s \in rfs, Copy(u, s)
    PROVE  NameUnique'
<1>1. PICK y \in Uuids : CopyFiles(u, s, y)
    BY DEF Copy
<1>2. rfs' = rfs \/ rfs' = rfs \cup {CopiedRow(u, s, y)}
    BY <1>1 DEF CopyFiles
<1>3. CopiedRow(u, s, y).name \notin OwnedNames(CopiedRow(u, s, y).owner)
    BY CandidateNameFree DEF Copy, CopiedRow
<1>. QED BY <1>2, <1>3, AddNamedRow

LEMMA ModifyNamesKept ==
    ASSUME NoRename, TypeInv, NameUnique, NEW u \in Users, NEW r \in rfs,
           NEW m \in ModifyInputs, Modify(u, r, m[1], m[2], m[3], m[4])
    PROVE  NameUnique'
<1>. DEFINE r1 == ModifiedFields(r, m[1], m[2], m[3])
            r2 == [r1 EXCEPT !.params[m[4][1]].value = m[4][2]]
<1>1. m[1] = NoValue
    BY DEF NoRename, ModifyInputs
<1>2. /\ r1.owner = r.owner /\ r1.name = r.name
      /\ r2.owner = r.owner /\ r2.name = r.name
    BY <1>1 DEF TypeInv, TypeOK, RowOK, Row, ModifiedFields
<1>3. rfs' = (rfs \ {r}) \cup {r1} \/ rfs' = (rfs \ {r}) \cup {r2}
    BY DEF Modify
<1>. QED BY <1>2, <1>3, ReplaceNamedRow

LEMMA RestoreNames ==
    ASSUME TypeInv, NameUnique, NEW u \in Users, NEW t \in trash, Restore(u, t)
    PROVE  NameUnique'
<1>1. rfs' = rfs \/ (rfs' = rfs \cup {RestoredRow(t)} /\ ~NameTaken(u, t.name))
    BY DEF Restore
<1>2. RestoredRow(t).owner = u /\ RestoredRow(t).name = t.name
    BY DEF Restore, RestoredRow
<1>3. CASE rfs' = rfs
    BY <1>3, UserRowsKept
<1>4. CASE rfs' = rfs \cup {RestoredRow(t)} /\ ~NameTaken(u, t.name)
    <2>1. RestoredRow(t).name \notin OwnedNames(RestoredRow(t).owner)
        BY <1>2, <1>4 DEF NameTaken
    <2>. QED BY <1>4, <2>1, AddNamedRow
<1>. QED BY <1>1, <1>3, <1>4

\* The startup checks give rows to the feed and insert rows of the feed,
\* but add no row of a user.
LEMMA RestartUserRows ==
    ASSUME TypeInv, Restart
    PROVE  \A q \in rfs' : q.owner # NoOwner => q \in rfs
<1>1. PICK lost \in LossChoices, f \in [Predefined -> FeedStates] : StartupChecks(lost, f)
    BY DEF Restart
<1>2. PICK ok : rfs' = FeedSynced(ok)
    BY <1>1 DEF StartupChecks
<1>3. \A r \in rfs : FeedUpdated(r).owner = NoOwner
    BY FeedUpdatedType DEF TypeInv, TypeOK
<1>4. \A x : FeedRow(x).owner = NoOwner
    BY DEF FeedRow
<1>. QED BY <1>2, <1>3, <1>4 DEF FeedSynced

NamesInv == TypeInv /\ NameUnique

LEMMA InitNames == Init => NamesInv
<1>1. Init => NameUnique
    BY DEF Init, FeedRow, NameUnique
<1>. QED BY <1>1, InitTypeInv DEF NamesInv

LEMMA NextNames ==
    ASSUME NoRename
    PROVE  NamesInv /\ [Next]_vars => NamesInv'
<1>. SUFFICES ASSUME NamesInv, [Next]_vars PROVE NamesInv'
    OBVIOUS
<1>0. TypeInv /\ NameUnique /\ TypeInv'
    BY NextTypeInv DEF NamesInv
<1>1. NameUnique'
    <2>1. CASE \E u \in Users, x \in Uuids, b \in Names, ps \in ParamInputs,
                  fs \in FileInputs : Create(u, x, b, ps, fs)
        BY <1>0, <2>1, CreateNames
    <2>2. CASE \E u \in Users, s \in rfs : Copy(u, s)
        BY <1>0, <2>2, CopyNames
    <2>3. CASE \E u \in Users, r \in rfs, m \in ModifyInputs :
                  Modify(u, r, m[1], m[2], m[3], m[4])
        BY <1>0, <2>3, ModifyNamesKept
    <2>4. CASE \E u \in Users, r \in rfs : SoftDelete(u, r) \/ DeleteActive(u, r)
        <3>1. rfs' \subseteq rfs
            BY <2>4 DEF SoftDelete, DeleteActive
        <3>. QED BY <1>0, <3>1, UserRowsKept
    <2>5. CASE \E u \in Users, t \in trash, ult \in BOOLEAN : DeleteTrash(u, t, ult)
        BY <1>0, <2>5, UserRowsKept DEF DeleteTrash
    <2>6. CASE \E u \in Users, t \in trash : Restore(u, t)
        BY <1>0, <2>6, RestoreNames
    <2>7. CASE \E u \in Users : EmptyTrash(u)
        BY <1>0, <2>7, UserRowsKept DEF EmptyTrash
    <2>8. CASE Restart
        BY <1>0, <2>8, RestartUserRows, UserRowsKept
    <2>9. CASE UNCHANGED vars
        BY <1>0, <2>9 DEF vars, NameUnique
    <2>. QED BY <2>1, <2>2, <2>3, <2>4, <2>5, <2>6, <2>7, <2>8, <2>9 DEF Next
<1>. QED BY <1>0, <1>1 DEF NamesInv

\* When modify is given no new name, no user ever has two active report
\* formats of the same name: the suffix loop of create and copy, the name
\* check of restore, and the feed walk, which only gives rows to the feed.
THEOREM NamesUnique == NoRename => (Spec => []NameUnique)
<1>. SUFFICES ASSUME NoRename PROVE Spec => []NameUnique
    OBVIOUS
<1>1. Init => NamesInv
    BY InitNames
<1>2. NamesInv /\ [Next]_vars => NamesInv'
    BY NextNames
<1>3. NamesInv => NameUnique
    BY DEF NamesInv
<1>. QED BY <1>1, <1>2, <1>3, PTL DEF Spec

=============================================================================
