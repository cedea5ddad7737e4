------------------------- MODULE ReportFormatsStores -------------------------
(***************************************************************************)
(* Proof that the repository and the directory tree agree (StoresAgree)   *)
(* when the feed is stable, the only failures are the ones the handlers   *)
(* roll back cleanly (mkdir, rename, and the loss of the trash directory  *)
(* while the daemon is stopped) and modify never marks a format          *)
(* predefined.  The runs dir_failures, feed and mark_predefined show that *)
(* each of these hypotheses is needed.                                     *)
(*                                                                         *)
(* StoresAgree is not inductive alone.  A create writes the directory of  *)
(* a uuid it takes to be fresh, which needs the identity invariants of    *)
(* ReportFormatsSafety; a delete moves an active directory to the trash   *)
(* id the sequence hands out, which needs that directory to be absent     *)
(* (FreshTrashIdsUnused); and the directory of a row is its owner's one   *)
(* only when rows of users are never marked predefined.                   *)
(***************************************************************************)
EXTENDS ReportFormatsSafety

USE ConstantsAssumption, IntWidthAssumption

\* The only failures are those whose branches leave no directory behind.
CleanFailures == Failures \subseteq {"mkdir", "rename", "trashloss"}

\* modify_report_format is never asked to mark a format predefined.
NoPredefinedMark == ModifyMarks \subseteq {FALSE}

\* The hypotheses under which the two stores agree.
StoresHyp == FeedStable /\ CleanFailures /\ NoPredefinedMark

\* Only the formats of the feed are marked predefined.
PredefinedOwnerless == \A r \in rfs : r.predefined => r.owner = NoOwner

StoresInv == IInv /\ PredefinedOwnerless /\ StoresAgree

-----------------------------------------------------------------------------
(* The directories the rows own. *)

\* The directory of every active row and of every trash row.
LiveDirs == {RowPath(r) : r \in rfs} \cup {TrashPath(t.id) : t \in trash}

\* The stores agree when the directories the rows own hold all of their
\* files and every other directory under report_formats and
\* report_formats_trash is absent.
LEMMA StoresAgreeDirs ==
    StoresAgree <=> /\ \A p \in LiveDirs : disk[p] = "intact"
                    /\ \A p \in OwnerPaths \cup TrashPaths :
                           disk[p] # "none" => p \in LiveDirs
BY DEF StoresAgree, RowHasDir, NoOrphanDir, LiveDirs

\* A step that removes the directories Gone and fills the directories
\* New, and whose rows own exactly the directories they owned but Gone and
\* the directories New.
DirsFrame(Gone, New) ==
    /\ LiveDirs' = (LiveDirs \ Gone) \cup New
    /\ \A p \in Paths : disk'[p] = IF p \in New THEN "intact"
                                   ELSE IF p \in Gone THEN "none" ELSE disk[p]

\* Such a step keeps the stores in agreement.
LEMMA DirsAgree ==
    ASSUME StoresAgree, TypeInv', NEW Gone, NEW New, DirsFrame(Gone, New)
    PROVE  StoresAgree'
<1>. USE DEF DirsFrame
<1>0. LiveDirs' \subseteq Paths
    <2>1. ASSUME NEW r \in rfs' PROVE RowPath(r) \in Paths
        BY DEF TypeInv, TypeOK, FeedRowsPredefined, RowOK, Row, RowPath, Paths, OwnerPaths
    <2>2. ASSUME NEW t \in trash' PROVE TrashPath(t.id) \in Paths
        BY DEF TypeInv, TypeOK, TrashRowOK, TrashRow, Paths, TrashPaths
    <2>. QED BY <2>1, <2>2 DEF LiveDirs
<1>1. \A p \in LiveDirs : disk[p] = "intact"
    BY StoresAgreeDirs
<1>2. \A p \in OwnerPaths \cup TrashPaths : disk[p] # "none" => p \in LiveDirs
    BY StoresAgreeDirs
<1>3. \A p \in LiveDirs' : disk'[p] = "intact"
    BY <1>0, <1>1
<1>4. \A p \in OwnerPaths \cup TrashPaths : disk'[p] # "none" => p \in LiveDirs'
    <2>1. OwnerPaths \cup TrashPaths \subseteq Paths
        BY DEF Paths
    <2>2. ASSUME NEW p \in OwnerPaths \cup TrashPaths, disk'[p] # "none"
          PROVE  p \in LiveDirs'
        <3>1. CASE p \in New
            BY <3>1
        <3>2. CASE p \notin New /\ p \in Gone
            BY <2>1, <2>2, <3>2
        <3>3. CASE p \notin New /\ p \notin Gone
            <4>1. disk[p] # "none"
                BY <2>1, <2>2, <3>3
            <4>. QED BY <1>2, <3>3, <4>1
        <3>. QED BY <3>1, <3>2, <3>3
    <2>. QED BY <2>2
<1>. QED BY <1>3, <1>4 DEF StoresAgree, RowHasDir, NoOrphanDir, LiveDirs

\* A row of a user owns the directory of its owner and uuid.
LEMMA UserRowPath ==
    ASSUME PredefinedOwnerless, NEW r \in rfs, r.owner # NoOwner
    PROVE  RowPath(r) = OwnerPath(r.owner, r.uuid) /\ ~r.predefined
BY DEF PredefinedOwnerless, RowPath

\* The directory of an owner is owned by that owner's row of that uuid, if
\* by any.
LEMMA OwnerDirRow ==
    ASSUME TypeInv, PredefinedOwnerless, NEW u, NEW y, OwnerPath(u, y) \in LiveDirs
    PROVE  \E r \in rfs : r.owner = u /\ r.uuid = y
<1>1. \A t \in trash : TrashPath(t.id) # OwnerPath(u, y)
    BY PathsDistinct
<1>2. PICK r \in rfs : RowPath(r) = OwnerPath(u, y)
    BY <1>1 DEF LiveDirs
<1>3. ~r.predefined
    BY <1>2 DEF RowPath, OwnerPath, FeedPath
<1>. QED BY <1>2, <1>3 DEF RowPath, OwnerPath

\* The directory of a uuid no active row has is owned by no row.
LEMMA FreshOwnerDir ==
    ASSUME TypeInv, PredefinedOwnerless, NEW u, NEW y, y \notin ActiveUuids
    PROVE  OwnerPath(u, y) \notin LiveDirs
BY OwnerDirRow DEF ActiveUuids

\* No other row owns the directory of an active row.
LEMMA RowDirOwn ==
    ASSUME IInv, PredefinedOwnerless, NEW r \in rfs
    PROVE  /\ \A q \in rfs \ {r} : RowPath(q) # RowPath(r)
           /\ \A t \in trash : TrashPath(t.id) # RowPath(r)
<1>1. \A q \in rfs \ {r} : q.uuid # r.uuid
    BY DEF IInv, IdentitiesUnique
<1>2. \A q \in rfs : RowPath(q) = FeedPath(q.uuid) \/ RowPath(q) = OwnerPath(q.owner, q.uuid)
    BY DEF RowPath
<1>3. \A q \in rfs \ {r} : RowPath(q) # RowPath(r)
    BY <1>1, <1>2 DEF OwnerPath, FeedPath
<1>4. \A t \in trash : TrashPath(t.id) # RowPath(r)
    BY <1>2, PathsDistinct
<1>. QED BY <1>3, <1>4

\* No other row owns the directory of a trash row.
LEMMA TrashDirOwn ==
    ASSUME IInv, NEW t \in trash
    PROVE  /\ \A s \in trash \ {t} : TrashPath(s.id) # TrashPath(t.id)
           /\ \A r \in rfs : RowPath(r) # TrashPath(t.id)
<1>1. \A s \in trash \ {t} : s.id # t.id
    BY DEF IInv, IdentitiesUnique
<1>2. \A r \in rfs : RowPath(r) = FeedPath(r.uuid) \/ RowPath(r) = OwnerPath(r.owner, r.uuid)
    BY DEF RowPath
<1>. QED BY <1>1, <1>2, PathsDistinct

-----------------------------------------------------------------------------
(* The handlers keep the stores in agreement. *)

\* Without "remove" failures the cleanup of a failure branch removes the
\* directory.
LEMMA CleanedNone ==
    ASSUME CleanFailures, NEW s
    PROVE  Cleaned(s) = {"none"}
BY DEF CleanFailures, Cleaned

\* A step that only removes a directory no row owns, and keeps the rows,
\* keeps the stores in agreement.
LEMMA UnownedDirRemoved ==
    ASSUME StoresInv, TypeInv', NEW p \in Paths, p \notin LiveDirs,
           disk' = [disk EXCEPT ![p] = "none"], UNCHANGED <<rfs, trash>>
    PROVE  PredefinedOwnerless' /\ StoresAgree'
<1>1. LiveDirs' = (LiveDirs \ {p}) \cup {}
    BY DEF LiveDirs
<1>2. \A q \in Paths : disk'[q] = IF q \in {} THEN "intact"
                                  ELSE IF q \in {p} THEN "none" ELSE disk[q]
    BY DEF StoresInv, IInv, TypeInv, TypeOK
<1>3. StoresAgree'
    <2>1. DirsFrame({p}, {})
        BY <1>1, <1>2 DEF DirsFrame
    <2>. QED BY <2>1, DirsAgree DEF StoresInv
<1>4. PredefinedOwnerless
    BY DEF StoresInv
<1>. QED BY <1>3, <1>4 DEF PredefinedOwnerless

\* A step that inserts a row of a user, not marked predefined, and fills
\* its directory keeps the stores in agreement.
LEMMA UserRowAdded ==
    ASSUME StoresInv, TypeInv', NEW row, row.owner # NoOwner, ~row.predefined,
           RowPath(row) \in Paths, rfs' = rfs \cup {row}, UNCHANGED trash,
           disk' = [disk EXCEPT ![RowPath(row)] = "intact"]
    PROVE  PredefinedOwnerless' /\ StoresAgree'
<1>1. LiveDirs' = (LiveDirs \ {}) \cup {RowPath(row)}
    BY DEF LiveDirs
<1>2. \A q \in Paths : disk'[q] = IF q \in {RowPath(row)} THEN "intact"
                                  ELSE IF q \in {} THEN "none" ELSE disk[q]
    BY DEF StoresInv, IInv, TypeInv, TypeOK
<1>3. StoresAgree'
    <2>1. DirsFrame({}, {RowPath(row)})
        BY <1>1, <1>2 DEF DirsFrame
    <2>. QED BY <2>1, DirsAgree DEF StoresInv
<1>4. PredefinedOwnerless
    BY DEF StoresInv
<1>. QED BY <1>3, <1>4 DEF PredefinedOwnerless

\* The directory create and copy write for user u under the uuid y.
LEMMA NewOwnerDir ==
    ASSUME StoresInv, NEW u \in Users, NEW y \in Uuids, y \notin ActiveUuids
    PROVE  OwnerPath(u, y) \in Paths /\ OwnerPath(u, y) \notin LiveDirs
BY FreshOwnerDir DEF StoresInv, IInv, Paths, OwnerPaths

LEMMA WriteFormatStores ==
    ASSUME CleanFailures, StoresInv, TypeInv', NEW u \in Users, NEW y \in Uuids,
           y \notin ActiveUuids, NEW b, NEW ps, NEW code, WriteFormat(u, y, b, ps, code)
    PROVE  PredefinedOwnerless' /\ StoresAgree'
<1>. DEFINE p == OwnerPath(u, y)
            row == CreatedRow(u, y, b, ps)
<1>0. p \in Paths /\ p \notin LiveDirs
    BY NewOwnerDir
<1>1. CASE disk' = [disk EXCEPT ![p] = "none"] /\ UNCHANGED <<rfs, trash>>
    BY <1>0, <1>1, UnownedDirRemoved
<1>2. CASE disk' = [disk EXCEPT ![p] = "intact"] /\ rfs' = rfs \cup {row}
           /\ UNCHANGED trash
    <2>1. row.owner # NoOwner /\ ~row.predefined /\ RowPath(row) = p
        BY DEF CreatedRow, RowPath
    <2>. QED BY <1>0, <1>2, <2>1, UserRowAdded
<1>3. Cleaned("partial") = {"none"} /\ Cleaned("intact") = {"none"}
    BY CleanedNone
<1>4. UNCHANGED trash
    BY DEF WriteFormat
<1>5. \/ disk' = [disk EXCEPT ![p] = "none"] /\ UNCHANGED rfs
      \/ disk' = [disk EXCEPT ![p] = "intact"] /\ rfs' = rfs \cup {row}
    <2>1. "remove" \notin Failures /\ "chmod" \notin Failures /\ "crash" \notin Failures
        BY DEF CleanFailures
    <2>2. \A S : (\E v \in {"none"} : disk' = [disk EXCEPT ![p] = v])
                 => disk' = [disk EXCEPT ![p] = "none"]
        OBVIOUS
    <2>. QED BY <1>3, <2>1, <2>2 DEF WriteFormat
<1>. QED BY <1>1, <1>2, <1>4, <1>5

LEMMA CreateStores ==
    ASSUME CleanFailures, StoresInv, TypeInv', NEW u \in Users, NEW x \in Uuids,
           NEW b, NEW ps, NEW fs, Create(u, x, b, ps, fs)
    PROVE  PredefinedOwnerless' /\ StoresAgree'
<1>1. PICK y \in (IF UuidInUse(x) THEN Uuids \ used ELSE {x}) :
          WriteFormat(u, y, b, ps, IF "" \in fs THEN 2 ELSE ParamsCode(ps))
    BY DEF Create
<1>2. y \in Uuids /\ y \notin ActiveUuids
    BY DEF StoresInv, IInv, UuidsMinted, UuidInUse
<1>. QED BY <1>1, <1>2, WriteFormatStores

\* The source directory of a copy is the directory of its row.
LEMMA CopySourceIsRowPath ==
    ASSUME NEW s
    PROVE  CopySource(s) = RowPath(s)
BY DEF CopySource, RowPath

LEMMA CopyStores ==
    ASSUME CleanFailures, StoresInv, TypeInv', NEW u \in Users, NEW s \in rfs, Copy(u, s)
    PROVE  PredefinedOwnerless' /\ StoresAgree'
<1>1. PICK y \in Uuids \ used : CopyFiles(u, s, y)
    BY DEF Copy
<1>. DEFINE c == OwnerPath(u, y)
            row == CopiedRow(u, s, y)
<1>2. y \notin ActiveUuids
    BY DEF StoresInv, IInv, UuidsMinted
<1>3. c \in Paths /\ c \notin LiveDirs
    BY <1>2, NewOwnerDir
<1>4. disk[CopySource(s)] = "intact"
    BY CopySourceIsRowPath DEF StoresInv, StoresAgree, RowHasDir
<1>5. CASE UNCHANGED <<rfs, disk, trash>>
    BY <1>5 DEF StoresInv, PredefinedOwnerless, StoresAgree, RowHasDir, NoOrphanDir
<1>6. CASE disk' = [disk EXCEPT ![c] = "none"] /\ UNCHANGED <<rfs, trash>>
    BY <1>3, <1>6, UnownedDirRemoved
<1>7. CASE disk' = [disk EXCEPT ![c] = "intact"] /\ rfs' = rfs \cup {row}
           /\ UNCHANGED trash
    <2>1. row.owner # NoOwner /\ ~row.predefined /\ RowPath(row) = c
        BY DEF CopiedRow, RowPath
    <2>. QED BY <1>3, <1>7, <2>1, UserRowAdded
<1>8. UNCHANGED trash
    BY <1>1 DEF CopyFiles
<1>9. \/ UNCHANGED <<rfs, disk>>
      \/ disk' = [disk EXCEPT ![c] = "none"] /\ UNCHANGED rfs
      \/ disk' = [disk EXCEPT ![c] = "intact"] /\ rfs' = rfs \cup {row}
    <2>1. "remove" \notin Failures /\ "chmod" \notin Failures /\ "crash" \notin Failures
          /\ "write" \notin Failures
        BY DEF CleanFailures
    <2>. QED BY <1>1, <1>4, <2>1 DEF CopyFiles
<1>. QED BY <1>5, <1>6, <1>7, <1>8, <1>9

\* A step that leaves the rows' directories and the disk alone keeps the
\* stores in agreement.
LEMMA NoDirChange ==
    ASSUME StoresInv, TypeInv', LiveDirs' = LiveDirs, UNCHANGED disk,
           PredefinedOwnerless'
    PROVE  PredefinedOwnerless' /\ StoresAgree'
<1>1. DirsFrame({}, {})
    BY DEF DirsFrame
<1>. QED BY <1>1, DirsAgree DEF StoresInv

LEMMA ModifyStores ==
    ASSUME NoPredefinedMark, StoresInv, TypeInv', NEW u \in Users, NEW r \in rfs,
           NEW m \in ModifyInputs, Modify(u, r, m[1], m[2], m[3], m[4])
    PROVE  PredefinedOwnerless' /\ StoresAgree'
<1>. DEFINE r1 == ModifiedFields(r, m[1], m[2], m[3])
            r2 == [r1 EXCEPT !.params[m[4][1]].value = m[4][2]]
<1>1. r.owner = u /\ u # NoOwner /\ UNCHANGED <<disk, trash>>
    BY DEF Modify
<1>2. ~r.predefined
    BY <1>1 DEF StoresInv, PredefinedOwnerless
<1>3. m[3] \in {NoValue, FALSE}
    BY DEF NoPredefinedMark, ModifyInputs
<1>4. /\ r1.uuid = r.uuid /\ r1.owner = r.owner /\ ~r1.predefined
      /\ r2.uuid = r.uuid /\ r2.owner = r.owner /\ ~r2.predefined
    BY <1>2, <1>3 DEF StoresInv, IInv, TypeInv, TypeOK, RowOK, Row, ModifiedFields
<1>5. PICK q : /\ rfs' = (rfs \ {r}) \cup {q}
               /\ q.uuid = r.uuid /\ q.owner = r.owner /\ ~q.predefined
    BY <1>4 DEF Modify
<1>6. RowPath(q) = RowPath(r)
    BY <1>2, <1>5 DEF RowPath
<1>7. LiveDirs' = LiveDirs
    BY <1>1, <1>5, <1>6 DEF LiveDirs
<1>8. PredefinedOwnerless'
    BY <1>5 DEF StoresInv, PredefinedOwnerless
<1>. QED BY <1>1, <1>7, <1>8, NoDirChange

\* move_report_format_dir without the EXDEV failures: it either moves the
\* directory or changes nothing.
LEMMA CleanMoveDir ==
    ASSUME CleanFailures, NEW src, NEW dst, NEW ok \in BOOLEAN, MoveDir(src, dst, ok)
    PROVE  IF ok THEN disk' = [disk EXCEPT ![dst] = disk[src], ![src] = "none"]
           ELSE UNCHANGED disk
BY DEF CleanFailures, MoveDir

LEMMA SoftDeleteStores ==
    ASSUME CleanFailures, StoresInv, TypeInv', NEW u \in Users, NEW r \in rfs,
           SoftDelete(u, r)
    PROVE  PredefinedOwnerless' /\ StoresAgree'
<1>0. r.owner = u /\ u # NoOwner
    BY DEF SoftDelete
<1>1. RowPath(r) = OwnerPath(u, r.uuid) /\ ~r.predefined
    BY <1>0, UserRowPath DEF StoresInv
<1>. DEFINE src == OwnerPath(u, r.uuid)
            dst == TrashPath(nextTrash)
            t   == TrashedRow(u, r, nextTrash)
<1>2. CASE UNCHANGED <<rfs, trash, disk>>
    BY <1>2, NoDirChange DEF LiveDirs, StoresInv, PredefinedOwnerless
<1>3. CASE /\ nextTrash <= MaxTrashId
           /\ \E ok \in BOOLEAN : /\ MoveDir(src, dst, ok)
                                  /\ ok => rfs' = rfs \ {r} /\ trash' = trash \cup {t}
                                  /\ ~ok => UNCHANGED <<rfs, trash>>
    <2>1. PICK ok \in BOOLEAN : /\ MoveDir(src, dst, ok)
                                /\ ok => rfs' = rfs \ {r} /\ trash' = trash \cup {t}
                                /\ ~ok => UNCHANGED <<rfs, trash>>
        BY <1>3
    <2>2. CASE ~ok
        BY <2>1, <2>2, CleanMoveDir, NoDirChange DEF LiveDirs, StoresInv,
           PredefinedOwnerless
    <2>3. CASE ok
        <3>1. disk' = [disk EXCEPT ![dst] = disk[src], ![src] = "none"]
            BY <2>1, <2>3, CleanMoveDir
        <3>2. /\ disk \in [Paths -> DirStates] /\ disk[src] = "intact"
              /\ src \in Paths /\ dst \in Paths /\ src # dst
            BY <1>1, <1>3, PathsDistinct DEF StoresInv, IInv, TypeInv, TypeOK, RowOK,
               Row, StoresAgree, RowHasDir, Paths, OwnerPaths, TrashPaths
        <3>3. t.id = nextTrash
            BY DEF TrashedRow
        <3>4. LiveDirs' = (LiveDirs \ {src}) \cup {dst}
            <4>1. \A q \in rfs \ {r} : RowPath(q) # src
                BY <1>1, RowDirOwn DEF StoresInv
            <4>2. \A s \in trash : TrashPath(s.id) # src
                BY PathsDistinct
            <4>. QED BY <1>1, <2>1, <2>3, <3>3, <4>1, <4>2 DEF LiveDirs
        <3>5. DirsFrame({src}, {dst})
            BY <3>1, <3>2, <3>4 DEF DirsFrame
        <3>6. PredefinedOwnerless'
            BY <2>1, <2>3 DEF StoresInv, PredefinedOwnerless
        <3>. QED BY <3>5, <3>6, DirsAgree DEF StoresInv
    <2>. QED BY <2>2, <2>3
<1>. QED BY <1>2, <1>3, CleanMoveDir DEF SoftDelete, CleanFailures

LEMMA DeleteActiveStores ==
    ASSUME CleanFailures, StoresInv, TypeInv', NEW u \in Users, NEW r \in rfs,
           DeleteActive(u, r)
    PROVE  PredefinedOwnerless' /\ StoresAgree'
<1>. DEFINE p == OwnerPath(u, r.uuid)
<1>1. CASE UNCHANGED <<rfs, trash, disk>>
    BY <1>1, NoDirChange DEF LiveDirs, StoresInv, PredefinedOwnerless
<1>2. CASE disk' = [disk EXCEPT ![p] = "none"] /\ rfs' = rfs \ {r} /\ UNCHANGED trash
    <2>1. RowPath(r) = p
        BY UserRowPath DEF DeleteActive, StoresInv
    <2>2. LiveDirs' = (LiveDirs \ {p}) \cup {}
        <3>1. \A q \in rfs \ {r} : RowPath(q) # p
            BY <2>1, RowDirOwn DEF StoresInv
        <3>2. \A s \in trash : TrashPath(s.id) # p
            BY PathsDistinct
        <3>. QED BY <1>2, <2>1, <3>1, <3>2 DEF LiveDirs
    <2>3. DirsFrame({p}, {})
        BY <1>2, <2>2 DEF DirsFrame, StoresInv, IInv, TypeInv, TypeOK
    <2>4. PredefinedOwnerless'
        BY <1>2 DEF StoresInv, PredefinedOwnerless
    <2>. QED BY <2>3, <2>4, DirsAgree DEF StoresInv
<1>. QED BY <1>1, <1>2 DEF DeleteActive, CleanFailures

LEMMA DeleteTrashStores ==
    ASSUME CleanFailures, StoresInv, TypeInv', NEW u \in Users, NEW t \in trash,
           NEW ult, DeleteTrash(u, t, ult)
    PROVE  PredefinedOwnerless' /\ StoresAgree'
<1>. DEFINE p == TrashPath(t.id)
<1>0. UNCHANGED rfs
    BY DEF DeleteTrash
<1>1. CASE UNCHANGED <<trash, disk>>
    BY <1>0, <1>1, NoDirChange DEF LiveDirs, StoresInv, PredefinedOwnerless
<1>2. CASE disk' = [disk EXCEPT ![p] = "none"] /\ trash' = trash \ {t}
    <2>1. LiveDirs' = (LiveDirs \ {p}) \cup {}
        BY <1>0, <1>2, TrashDirOwn DEF LiveDirs, StoresInv
    <2>2. DirsFrame({p}, {})
        BY <1>2, <2>1 DEF DirsFrame, StoresInv, IInv, TypeInv, TypeOK
    <2>3. PredefinedOwnerless'
        BY <1>0 DEF StoresInv, PredefinedOwnerless
    <2>. QED BY <2>2, <2>3, DirsAgree DEF StoresInv
<1>. QED BY <1>1, <1>2 DEF DeleteTrash, CleanFailures

LEMMA RestoreStores ==
    ASSUME CleanFailures, StoresInv, TypeInv', NEW u \in Users, NEW t \in trash,
           Restore(u, t)
    PROVE  PredefinedOwnerless' /\ StoresAgree'
<1>. DEFINE src == TrashPath(t.id)
            dst == OwnerPath(t.owner, t.orig)
            row == RestoredRow(t)
<1>1. CASE UNCHANGED <<rfs, trash, disk>>
    BY <1>1, NoDirChange DEF LiveDirs, StoresInv, PredefinedOwnerless
<1>2. CASE \E ok \in BOOLEAN : /\ MoveDir(src, dst, ok)
                               /\ ok => rfs' = rfs \cup {row} /\ trash' = trash \ {t}
                               /\ ~ok => UNCHANGED <<rfs, trash>>
    <2>1. PICK ok \in BOOLEAN : /\ MoveDir(src, dst, ok)
                                /\ ok => rfs' = rfs \cup {row} /\ trash' = trash \ {t}
                                /\ ~ok => UNCHANGED <<rfs, trash>>
        BY <1>2
    <2>2. CASE ~ok
        BY <2>1, <2>2, CleanMoveDir, NoDirChange DEF LiveDirs, StoresInv,
           PredefinedOwnerless
    <2>3. CASE ok
        <3>1. disk' = [disk EXCEPT ![dst] = disk[src], ![src] = "none"]
            BY <2>1, <2>3, CleanMoveDir
        <3>2. /\ disk \in [Paths -> DirStates] /\ disk[src] = "intact"
              /\ src \in Paths /\ dst \in Paths /\ src # dst
            BY PathsDistinct DEF StoresInv, IInv, TypeInv, TypeOK, TrashRowOK,
               TrashRow, StoresAgree, RowHasDir, Paths, OwnerPaths, TrashPaths
        <3>3. RowPath(row) = dst /\ ~row.predefined
            BY DEF RestoredRow, RowPath
        <3>4. LiveDirs' = (LiveDirs \ {src}) \cup {dst}
            <4>1. /\ \A s \in trash \ {t} : TrashPath(s.id) # src
                  /\ \A q \in rfs : RowPath(q) # src
                BY TrashDirOwn DEF StoresInv
            <4>. QED BY <2>1, <2>3, <3>3, <4>1 DEF LiveDirs
        <3>5. DirsFrame({src}, {dst})
            BY <3>1, <3>2, <3>4 DEF DirsFrame
        <3>6. PredefinedOwnerless'
            BY <2>1, <2>3, <3>3 DEF StoresInv, PredefinedOwnerless
        <3>. QED BY <3>5, <3>6, DirsAgree DEF StoresInv
    <2>. QED BY <2>2, <2>3
<1>. QED BY <1>1, <1>2, CleanMoveDir DEF Restore, CleanFailures

LEMMA EmptyTrashStores ==
    ASSUME CleanFailures, StoresInv, TypeInv', NEW u \in Users, EmptyTrash(u)
    PROVE  PredefinedOwnerless' /\ StoresAgree'
<1>. DEFINE mine == {t \in trash : t.owner = u}
            Gone == {TrashPath(i) : i \in OwnTrashIds(u)}
<1>1. /\ disk' = RemovedTrashDirs(OwnTrashIds(u))
      /\ trash' = trash \ mine
      /\ UNCHANGED rfs
    BY DEF EmptyTrash, CleanFailures
<1>2. \A p \in Paths : disk'[p] = IF p \in {} THEN "intact"
                                  ELSE IF p \in Gone THEN "none" ELSE disk[p]
    BY <1>1 DEF RemovedTrashDirs
<1>3. LiveDirs' = (LiveDirs \ Gone) \cup {}
    <2>1. \A r \in rfs : RowPath(r) \notin Gone
        BY PathsDistinct DEF RowPath
    <2>2. \A s \in trash \ mine : TrashPath(s.id) \notin Gone
        <3>1. \A s \in trash \ mine, q \in mine : s.id # q.id
            BY DEF StoresInv, IInv, IdentitiesUnique
        <3>. QED BY <3>1, PathsDistinct DEF OwnTrashIds
    <2>3. \A s \in mine : TrashPath(s.id) \in Gone
        BY DEF OwnTrashIds
    <2>. QED BY <1>1, <2>1, <2>2, <2>3 DEF LiveDirs
<1>4. DirsFrame(Gone, {})
    BY <1>2, <1>3 DEF DirsFrame
<1>5. PredefinedOwnerless'
    BY <1>1 DEF StoresInv, PredefinedOwnerless
<1>. QED BY <1>4, <1>5, DirsAgree DEF StoresInv

-----------------------------------------------------------------------------
(* The startup checks. *)

\* On a stable feed the daemon starts on the disk it left, but for the
\* trash directories when the trash was lost: the feed rewrites only the
\* directories of predefined formats, which were intact already.
LEMMA StableStartupDisk ==
    ASSUME FeedStable, StoresInv, NEW lost, NEW f \in [Predefined -> FeedStates],
           NEW p \in Paths, ~(lost /\ p \in TrashPaths)
    PROVE  StartupDisk(lost, f)[p] = disk[p]
<1>1. CASE p \in {FeedPath(x) : x \in Predefined}
    <2>1. PICK x \in Predefined : p = FeedPath(x)
        BY <1>1
    <2>2. PICK r \in rfs : r.uuid = x
        BY DEF StoresInv, IInv, FeedOwned, ActiveUuids
    <2>3. r.owner = NoOwner /\ r.predefined
        BY <2>2 DEF StoresInv, IInv, FeedOwned, TypeInv, FeedRowsPredefined
    <2>4. disk[p] = "intact"
        BY <2>1, <2>2, <2>3 DEF StoresInv, StoresAgree, RowHasDir, RowPath
    <2>5. p[2] = x
        BY <2>1 DEF FeedPath
    <2>6. f[x] = "intact"
        BY DEF FeedStable
    <2>. QED BY <1>1, <2>4, <2>5, <2>6 DEF StartupDisk
<1>2. CASE p \notin {FeedPath(x) : x \in Predefined}
    BY <1>2 DEF StartupDisk
<1>. QED BY <1>1, <1>2

\* On a stable feed the feed walk keeps the directory of every row and
\* marks predefined only the formats without owner.
LEMMA StableRestartDirs ==
    ASSUME FeedStable, StoresInv, rfs' = FeedSynced(Predefined)
    PROVE  /\ {RowPath(q) : q \in rfs'} = {RowPath(r) : r \in rfs}
           /\ PredefinedOwnerless'
<1>0. \A r \in rfs : /\ RowOK(r) /\ (r.uuid \in Predefined <=> r.owner = NoOwner)
                     /\ (r.owner = NoOwner => r.predefined)
    BY DEF StoresInv, IInv, TypeInv, TypeOK, FeedOwned, FeedRowsPredefined
<1>1. \A r \in rfs : FeedUpdated(r).uuid = r.uuid /\ FeedUpdated(r).owner = NoOwner
                     /\ FeedUpdated(r).predefined
    BY <1>0, FeedUpdatedType
<1>. DEFINE Feed == {FeedUpdated(r) : r \in {s \in rfs : s.uuid \in Predefined}}
            Own  == {r \in rfs : r.uuid \notin Predefined}
<1>2. rfs' = Feed \cup Own
    <2>1. Predefined \ ActiveUuids = {}
        BY DEF StoresInv, IInv, FeedOwned
    <2>2. {r \in rfs : r.owner # NoOwner /\ r.uuid \notin Predefined} = Own
        BY <1>0
    <2>. QED BY <2>1, <2>2 DEF FeedSynced
<1>3. \A r \in rfs : r.uuid \in Predefined => RowPath(FeedUpdated(r)) = RowPath(r)
    BY <1>0, <1>1 DEF RowPath
<1>4. {RowPath(q) : q \in rfs'} = {RowPath(r) : r \in rfs}
    BY <1>2, <1>3
<1>5. PredefinedOwnerless'
    BY <1>1, <1>2 DEF StoresInv, PredefinedOwnerless
<1>. QED BY <1>4, <1>5

LEMMA RestartStores ==
    ASSUME StoresHyp, StoresInv, TypeInv', Restart
    PROVE  PredefinedOwnerless' /\ StoresAgree'
<1>1. PICK lost \in LossChoices, f \in [Predefined -> FeedStates] : StartupChecks(lost, f)
    BY DEF Restart
<1>. DEFINE disk0  == StartupDisk(lost, f)
            trash1 == CheckedTrash(trashRoot /\ ~lost)
<1>2. /\ rfs' = FeedSynced(Predefined)
      /\ trash' = trash1
      /\ disk' = [p \in Paths |-> IF OrphanTrashDir(disk0, trash1, p) THEN "none"
                                  ELSE disk0[p]]
    BY <1>1, StableFeedOk DEF StartupChecks, StoresHyp, CleanFailures
<1>3. {RowPath(q) : q \in rfs'} = {RowPath(r) : r \in rfs} /\ PredefinedOwnerless'
    BY <1>2, StableRestartDirs DEF StoresHyp
<1>4. \A p \in Paths \ TrashPaths : disk'[p] = disk[p]
    BY <1>2, StableStartupDisk DEF StoresHyp, OrphanTrashDir
<1>5. \A r \in rfs : RowPath(r) \notin TrashPaths
    BY PathsDistinct DEF RowPath, TrashPaths
<1>6. CASE trashRoot /\ ~lost
    <2>1. trash1 = trash
        BY <1>6 DEF CheckedTrash
    <2>2. \A p \in TrashPaths : disk'[p] = disk[p]
        <3>1. \A p \in TrashPaths : p \in Paths /\ disk0[p] = disk[p]
            BY <1>6, StableStartupDisk DEF StoresHyp, Paths
        <3>2. \A p \in TrashPaths : ~OrphanTrashDir(disk0, trash, p)
            BY <3>1 DEF OrphanTrashDir, StoresInv, StoresAgree, NoOrphanDir, RowPath,
               TrashPaths, TrashPath, OwnerPath, FeedPath
        <3>. QED BY <1>2, <2>1, <3>1, <3>2
    <2>3. LiveDirs' = LiveDirs
        BY <1>2, <1>3, <2>1 DEF LiveDirs
    <2>4. DirsFrame({}, {})
        BY <1>4, <2>2, <2>3 DEF DirsFrame
    <2>. QED BY <1>3, <2>4, DirsAgree DEF StoresInv
<1>7. CASE ~(trashRoot /\ ~lost)
    <2>1. trash1 = {}
        BY <1>7 DEF CheckedTrash
    <2>2. \A p \in TrashPaths : disk'[p] = "none"
        <3>1. \A p \in TrashPaths : p \in Paths
            BY DEF Paths
        <3>. QED BY <1>2, <2>1, <3>1 DEF OrphanTrashDir
    <2>3. LiveDirs' = (LiveDirs \ TrashPaths) \cup {}
        <3>1. \A t \in trash : TrashPath(t.id) \in TrashPaths
            BY DEF StoresInv, IInv, TypeInv, TypeOK, TrashRowOK, TrashRow, TrashPaths
        <3>. QED BY <1>2, <1>3, <1>5, <2>1, <3>1 DEF LiveDirs
    <2>4. DirsFrame(TrashPaths, {})
        BY <1>4, <2>2, <2>3 DEF DirsFrame
    <2>. QED BY <1>3, <2>4, DirsAgree DEF StoresInv
<1>. QED BY <1>6, <1>7

-----------------------------------------------------------------------------
(* The theorems. *)

LEMMA InitStores == Init => StoresInv
<1>. SUFFICES ASSUME Init PROVE StoresInv
    OBVIOUS
<1>1. IInv
    BY InitIInv
<1>2. PredefinedOwnerless
    BY DEF Init, FeedRow, PredefinedOwnerless
<1>3. RowHasDir
    <2>1. \A x \in Predefined : FeedPath(x) \in Paths
        BY DEF Paths
    <2>. QED BY <2>1 DEF Init, FeedRow, RowPath, RowHasDir
<1>4. NoOrphanDir
    <2>1. \A p \in OwnerPaths : p \in Paths /\ p \notin {FeedPath(x) : x \in Predefined}
        BY DEF Paths, OwnerPaths, OwnerPath, FeedPath
    <2>2. \A p \in TrashPaths : p \in Paths /\ p \notin {FeedPath(x) : x \in Predefined}
        BY DEF Paths, TrashPaths, TrashPath, FeedPath
    <2>. QED BY <2>1, <2>2 DEF Init, NoOrphanDir
<1>. QED BY <1>1, <1>2, <1>3, <1>4 DEF StoresInv, StoresAgree

LEMMA NextStores ==
    ASSUME StoresHyp
    PROVE  StoresInv /\ [Next]_vars => StoresInv'
<1>. SUFFICES ASSUME StoresInv, [Next]_vars PROVE StoresInv'
    OBVIOUS
<1>0. IInv' /\ TypeInv' /\ CleanFailures /\ NoPredefinedMark
    BY NextIInv DEF StoresHyp, StoresInv, IInv
<1>1. PredefinedOwnerless' /\ StoresAgree'
    <2>1. CASE \E u \in Users, x \in Uuids, b \in Names, ps \in ParamInputs,
                  fs \in FileInputs : Create(u, x, b, ps, fs)
        BY <1>0, <2>1, CreateStores
    <2>2. CASE \E u \in Users, s \in rfs : Copy(u, s)
        BY <1>0, <2>2, CopyStores
    <2>3. CASE \E u \in Users, r \in rfs, m \in ModifyInputs :
                  Modify(u, r, m[1], m[2], m[3], m[4])
        BY <1>0, <2>3, ModifyStores
    <2>4. CASE \E u \in Users, r \in rfs : SoftDelete(u, r) \/ DeleteActive(u, r)
        BY <1>0, <2>4, SoftDeleteStores, DeleteActiveStores
    <2>5. CASE \E u \in Users, t \in trash, ult \in BOOLEAN : DeleteTrash(u, t, ult)
        BY <1>0, <2>5, DeleteTrashStores
    <2>6. CASE \E u \in Users, t \in trash : Restore(u, t)
        BY <1>0, <2>6, RestoreStores
    <2>7. CASE \E u \in Users : EmptyTrash(u)
        BY <1>0, <2>7, EmptyTrashStores
    <2>8. CASE Restart
        BY <1>0, <2>8, RestartStores
    <2>9. CASE UNCHANGED vars
        BY <2>9 DEF vars, StoresInv, PredefinedOwnerless, StoresAgree, RowHasDir,
                    NoOrphanDir
    <2>. QED BY <2>1, <2>2, <2>3, <2>4, <2>5, <2>6, <2>7, <2>8, <2>9 DEF Next
<1>. QED BY <1>0, <1>1 DEF StoresInv

\* On a stable feed, with only the failures the handlers roll back cleanly
\* (mkdir, rename, the loss of the trash directory) and no predefined mark
\* given to modify, every active and every trashed report format always
\* has all of its files: create and copy fill the directory before the
\* commit, delete and restore move it with the row, and the startup checks
\* drop the trash rows whose directories were lost.
THEOREM RowsHaveDirs == StoresHyp => (Spec => []RowHasDir)
<1>. SUFFICES ASSUME StoresHyp PROVE Spec => []RowHasDir
    OBVIOUS
<1>1. StoresInv /\ [Next]_vars => StoresInv'
    BY NextStores
<1>2. StoresInv => RowHasDir
    BY DEF StoresInv, StoresAgree
<1>. QED BY InitStores, <1>1, <1>2, PTL DEF Spec

\* Under the same hypotheses no directory under report_formats or
\* report_formats_trash is ever left behind: a failing mkdir removes what
\* it made, a failing rename changes nothing, and
\* check_db_report_formats_trash removes the trash directories no trash
\* row has.
THEOREM NoOrphanDirs == StoresHyp => (Spec => []NoOrphanDir)
<1>. SUFFICES ASSUME StoresHyp PROVE Spec => []NoOrphanDir
    OBVIOUS
<1>1. StoresInv /\ [Next]_vars => StoresInv'
    BY NextStores
<1>2. StoresInv => NoOrphanDir
    BY DEF StoresInv, StoresAgree
<1>. QED BY InitStores, <1>1, <1>2, PTL DEF Spec

=============================================================================
