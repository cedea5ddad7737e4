------------------------- MODULE ReportFormatsSafety -------------------------
(***************************************************************************)
(* Proofs of the identity invariants of the report format lifecycle: uuids *)
(* and trash ids stay unique, and no directory exists at a trash id the    *)
(* sequence has not handed out.                                            *)
(*                                                                         *)
(* Neither invariant is inductive alone.  Uniqueness of uuids needs that   *)
(* every uuid of a row or of a trash row's original is in used, so that a  *)
(* freshly minted uuid is new; uniqueness of trash ids and the freshness   *)
(* of the trash directories need that every trash row's id was handed out *)
(* already, i.e. is below nextTrash.                                       *)
(***************************************************************************)
EXTENDS ReportFormatsProofs

USE ConstantsAssumption, IntWidthAssumption

\* Every uuid a row or a trash row carries was given to create or minted.
UuidsMinted == ActiveUuids \cup TrashOrigs \subseteq used

\* Every trash row's id was taken from the sequence.
TrashIdsIssued == \A t \in trash : t.id < nextTrash

\* The feed leaves every predefined directory intact between two starts.
FeedStable == FeedStates = {"intact"}

\* The formats without owner are exactly those with a predefined uuid,
\* every predefined uuid has an active format, and no trashed format has
\* one.
FeedOwned ==
    /\ \A r \in rfs : r.uuid \in Predefined <=> r.owner = NoOwner
    /\ Predefined \subseteq ActiveUuids
    /\ TrashOrigs \cap Predefined = {}

IInv == /\ TypeInv
        /\ IdentitiesUnique
        /\ UuidsMinted
        /\ TrashIdsIssued
        /\ FreshTrashIdsUnused
        /\ FeedOwned

-----------------------------------------------------------------------------
(* Paths. *)

\* A trash directory is not a directory of an owner, nor of the feed, and
\* two trash ids have two directories.
LEMMA PathsDistinct ==
    /\ \A u, x, i : OwnerPath(u, x) # TrashPath(i)
    /\ \A x, i : FeedPath(x) # TrashPath(i)
    /\ \A i, j : TrashPath(i) = TrashPath(j) => i = j
BY DEF OwnerPath, TrashPath, FeedPath

\* move_report_format_dir changes no directory but its two arguments.
LEMMA MoveDirFrame ==
    ASSUME disk \in [Paths -> DirStates], NEW src, NEW dst, NEW ok,
           MoveDir(src, dst, ok), NEW p \in Paths, p # src, p # dst
    PROVE  disk'[p] = disk[p]
BY DEF MoveDir

\* The trash directories at the ids not handed out stay absent when none of
\* them changes and the sequence does not go back.
LEMMA FreshFrame ==
    ASSUME FreshTrashIdsUnused, nextTrash \in Int, nextTrash' \in Int,
           nextTrash <= nextTrash',
           \A i \in nextTrash' .. MaxTrashId : disk'[TrashPath(i)] = disk[TrashPath(i)]
    PROVE  FreshTrashIdsUnused'
BY DEF FreshTrashIdsUnused

\* A step that only removes rows and trash rows, mints uuids and does not
\* move the sequence back keeps the identities unique.
LEMMA ShrinkIds ==
    ASSUME IInv, rfs' \subseteq rfs, trash' \subseteq trash, used \subseteq used',
           nextTrash' \in Int, nextTrash <= nextTrash'
    PROVE  IdentitiesUnique' /\ UuidsMinted' /\ TrashIdsIssued'
<1>1. nextTrash \in Int
    BY DEF IInv, TypeInv, TypeOK
<1>2. \A t \in trash : t.id \in Int
    BY DEF IInv, TypeInv, TypeOK, TrashRowOK, TrashRow
<1>. QED BY <1>1, <1>2 DEF IInv, IdentitiesUnique, UuidsMinted, TrashIdsIssued,
            ActiveUuids, TrashOrigs

\* A step that adds at most a row of a user under a uuid no active row has,
\* and keeps or drops trash rows, keeps the rows of the feed as they are.
LEMMA AddUserRowFeed ==
    ASSUME FeedOwned, NEW row, row.uuid \notin ActiveUuids, row.owner # NoOwner,
           rfs' = rfs \/ rfs' = rfs \cup {row}, trash' \subseteq trash
    PROVE  FeedOwned'
BY DEF FeedOwned, ActiveUuids, TrashOrigs

\* Replacing a row by one of the same uuid and owner keeps the feed rows.
LEMMA ReplaceRowFeed ==
    ASSUME FeedOwned, NEW r \in rfs, NEW q, q.uuid = r.uuid, q.owner = r.owner,
           rfs' = (rfs \ {r}) \cup {q}, UNCHANGED trash
    PROVE  FeedOwned'
BY DEF FeedOwned, ActiveUuids, TrashOrigs

\* Removing a row of a user, into the trash or for good, keeps the feed
\* rows: a user's row has no predefined uuid.
LEMMA RemoveUserRowFeed ==
    ASSUME FeedOwned, NEW r \in rfs, r.owner # NoOwner,
           rfs' = rfs \/ rfs' = rfs \ {r},
           \A t \in trash' : t \in trash \/ t.orig = r.uuid
    PROVE  FeedOwned'
<1>1. r.uuid \notin Predefined
    BY DEF FeedOwned
<1>2. Predefined \subseteq ActiveUuids'
    <2>1. ASSUME NEW x \in Predefined PROVE x \in ActiveUuids'
        <3>1. PICK q \in rfs : q.uuid = x
            BY DEF FeedOwned, ActiveUuids
        <3>2. q # r
            BY <1>1, <3>1
        <3>. QED BY <3>1, <3>2 DEF ActiveUuids
    <2>. QED BY <2>1
<1>3. TrashOrigs' \cap Predefined = {}
    BY <1>1 DEF FeedOwned, TrashOrigs
<1>. QED BY <1>2, <1>3 DEF FeedOwned

LEMMA InitIInv == Init => IInv
<1>. SUFFICES ASSUME Init PROVE IInv
    OBVIOUS
<1>1. TypeInv
    BY InitTypeInv
<1>0. \A x : FeedRow(x).uuid = x /\ FeedRow(x).owner = NoOwner
    BY DEF FeedRow
<1>6. ActiveUuids = Predefined
    <2>1. rfs = {FeedRow(x) : x \in Predefined}
        BY DEF Init
    <2>2. ASSUME NEW x \in Predefined PROVE x \in ActiveUuids
        BY <1>0, <2>1 DEF ActiveUuids
    <2>3. ASSUME NEW y \in ActiveUuids PROVE y \in Predefined
        BY <1>0, <2>1 DEF ActiveUuids
    <2>. QED BY <2>2, <2>3
<1>2. \A r1, r2 \in rfs : r1.uuid = r2.uuid => r1 = r2
    <2>. SUFFICES ASSUME NEW r1 \in rfs, NEW r2 \in rfs, r1.uuid = r2.uuid
                  PROVE r1 = r2
        OBVIOUS
    <2>1. PICK a \in Predefined : r1 = FeedRow(a)
        BY DEF Init
    <2>2. PICK b \in Predefined : r2 = FeedRow(b)
        BY DEF Init
    <2>. QED BY <1>0, <2>1, <2>2
<1>3. IdentitiesUnique /\ UuidsMinted /\ TrashIdsIssued
    BY <1>2, <1>6 DEF Init, IdentitiesUnique, UuidsMinted,
                TrashIdsIssued, TrashOrigs
<1>4. FreshTrashIdsUnused
    <2>1. ASSUME NEW i \in 1 .. MaxTrashId PROVE disk[TrashPath(i)] = "none"
        <3>1. TrashPath(i) \in Paths /\ TrashPath(i) \notin {FeedPath(x) : x \in Predefined}
            BY PathsDistinct DEF Paths, TrashPaths
        <3>. QED BY <3>1 DEF Init
    <2>. QED BY <2>1 DEF Init, FreshTrashIdsUnused
<1>5. FeedOwned
    <2>1. \A r \in rfs : r.uuid \in Predefined /\ r.owner = NoOwner
        BY <1>0 DEF Init
    <2>. QED BY <1>6, <2>1 DEF Init, FeedOwned, TrashOrigs
<1>. QED BY <1>1, <1>3, <1>4, <1>5 DEF IInv

-----------------------------------------------------------------------------
(* The handlers that insert a row under a new uuid. *)

\* A step that adds at most one row, under a uuid no row and no trash row
\* has, marks that uuid used, and leaves the trash alone keeps the
\* identities unique.
LEMMA AddRowIds ==
    ASSUME IInv, NEW row, NEW y, row.uuid = y, y \notin ActiveUuids \cup TrashOrigs,
           rfs' = rfs \/ rfs' = rfs \cup {row}, used' = used \cup {y},
           UNCHANGED <<trash, nextTrash>>
    PROVE  IdentitiesUnique' /\ UuidsMinted' /\ TrashIdsIssued'
BY DEF IInv, IdentitiesUnique, UuidsMinted, TrashIdsIssued, ActiveUuids, TrashOrigs

\* A step that changes one owner directory and nothing else of the disk
\* leaves every trash directory alone.
LEMMA OwnerDirOnly ==
    ASSUME disk \in [Paths -> DirStates], NEW u, NEW y,
           disk' = disk \/ \E v : disk' = [disk EXCEPT ![OwnerPath(u, y)] = v],
           nextTrash \in 1 .. MaxTrashId + 1, nextTrash' = nextTrash
    PROVE  \A i \in nextTrash' .. MaxTrashId : disk'[TrashPath(i)] = disk[TrashPath(i)]
<1>1. \A i \in 1 .. MaxTrashId : TrashPath(i) \in Paths /\ TrashPath(i) # OwnerPath(u, y)
    BY PathsDistinct DEF Paths, TrashPaths
<1>. QED BY <1>1

LEMMA WriteFormatIInv ==
    ASSUME IInv, NEW u \in Users, NEW y \in Uuids, y \notin ActiveUuids \cup TrashOrigs,
           NEW b \in Names, NEW ps \in ParamInputs, NEW code \in Codes,
           code = 0 => ParamsCode(ps) = 0, FreeSuffixes(u, b) # {},
           WriteFormat(u, y, b, ps, code)
    PROVE  IInv'
<1>0. TypeOK
    BY DEF IInv, TypeInv
<1>1. TypeInv'
    BY WriteFormatTypeOK DEF IInv
<1>2. \E v : disk' = [disk EXCEPT ![OwnerPath(u, y)] = v]
    BY DEF WriteFormat
<1>3. FreshTrashIdsUnused'
    <2>1. nextTrash \in 1 .. MaxTrashId + 1 /\ nextTrash' = nextTrash
        BY <1>0 DEF WriteFormat, TypeOK
    <2>2. \A i \in nextTrash' .. MaxTrashId : disk'[TrashPath(i)] = disk[TrashPath(i)]
        BY <1>0, <1>2, <2>1, OwnerDirOnly DEF TypeOK
    <2>. QED BY <2>1, <2>2, FreshFrame DEF IInv
<1>4. IdentitiesUnique' /\ UuidsMinted' /\ TrashIdsIssued'
    <2>1. CreatedRow(u, y, b, ps).uuid = y
        BY DEF CreatedRow
    <2>2. /\ rfs' = rfs \/ rfs' = rfs \cup {CreatedRow(u, y, b, ps)}
          /\ used' = used \cup {y} /\ UNCHANGED <<trash, nextTrash>>
        BY DEF WriteFormat
    <2>. QED BY <2>1, <2>2, AddRowIds
<1>5. FeedOwned'
    <2>1. CreatedRow(u, y, b, ps).uuid \notin ActiveUuids
          /\ CreatedRow(u, y, b, ps).owner # NoOwner
        BY DEF CreatedRow
    <2>2. (rfs' = rfs \/ rfs' = rfs \cup {CreatedRow(u, y, b, ps)}) /\ trash' \subseteq trash
        BY DEF WriteFormat
    <2>. QED BY <2>1, <2>2, AddUserRowFeed DEF IInv
<1>. QED BY <1>1, <1>3, <1>4, <1>5 DEF IInv

LEMMA CreateIInv ==
    ASSUME IInv, NEW u \in Users, NEW x \in Uuids, NEW b \in Names,
           NEW ps \in ParamInputs, NEW fs \in FileInputs, Create(u, x, b, ps, fs)
    PROVE  IInv'
<1>1. FreeSuffixes(u, b) # {}
    BY DEF Create
<1>2. ASSUME NEW y \in (IF UuidInUse(x) THEN Uuids \ used ELSE {x})
      PROVE  y \in Uuids /\ y \notin ActiveUuids \cup TrashOrigs
    <2>1. CASE UuidInUse(x)
        BY <1>2, <2>1 DEF IInv, UuidsMinted
    <2>2. CASE ~UuidInUse(x)
        BY <1>2, <2>2 DEF UuidInUse
    <2>. QED BY <2>1, <2>2
<1>3. CASE "" \in fs
    <2>1. PICK y \in (IF UuidInUse(x) THEN Uuids \ used ELSE {x}) :
              WriteFormat(u, y, b, ps, 2)
        BY <1>3, Zenon DEF Create
    <2>2. 2 \in Codes
        BY SmallCodes
    <2>. QED BY <1>1, <1>2, <2>1, <2>2, WriteFormatIInv
<1>4. CASE "" \notin fs
    <2>1. PICK y \in (IF UuidInUse(x) THEN Uuids \ used ELSE {x}) :
              WriteFormat(u, y, b, ps, ParamsCode(ps))
        BY <1>4, Zenon DEF Create
    <2>2. ParamsCode(ps) \in Codes
        BY SmallCodes, ParamsCodeRange
    <2>. QED BY <1>1, <1>2, <2>1, <2>2, WriteFormatIInv
<1>. QED BY <1>3, <1>4

LEMMA CopyIInv ==
    ASSUME IInv, NEW u \in Users, NEW s \in rfs, Copy(u, s)
    PROVE  IInv'
<1>0. TypeOK
    BY DEF IInv, TypeInv
<1>1. PICK y \in Uuids \ used : CopyFiles(u, s, y)
    BY DEF Copy
<1>2. TypeInv'
    <2>1. FreeSuffixes(u, s.name[1]) # {}
        BY DEF Copy
    <2>. QED BY <1>1, <2>1, CopyFilesTypeOK DEF IInv
<1>3. FreshTrashIdsUnused'
    <2>1. disk' = disk \/ \E v : disk' = [disk EXCEPT ![OwnerPath(u, y)] = v]
        BY <1>1 DEF CopyFiles
    <2>2. nextTrash \in 1 .. MaxTrashId + 1 /\ nextTrash' = nextTrash
        BY <1>0, <1>1 DEF CopyFiles, TypeOK
    <2>3. \A i \in nextTrash' .. MaxTrashId : disk'[TrashPath(i)] = disk[TrashPath(i)]
        BY <1>0, <2>1, <2>2, OwnerDirOnly DEF TypeOK
    <2>. QED BY <2>2, <2>3, FreshFrame DEF IInv
<1>4. IdentitiesUnique' /\ UuidsMinted' /\ TrashIdsIssued'
    <2>1. CopiedRow(u, s, y).uuid = y /\ y \notin ActiveUuids \cup TrashOrigs
        BY <1>1 DEF CopiedRow, IInv, UuidsMinted
    <2>2. /\ rfs' = rfs \/ rfs' = rfs \cup {CopiedRow(u, s, y)}
          /\ used' = used \cup {y} /\ UNCHANGED <<trash, nextTrash>>
        BY <1>1 DEF CopyFiles
    <2>. QED BY <2>1, <2>2, AddRowIds
<1>5. FeedOwned'
    <2>1. CopiedRow(u, s, y).uuid \notin ActiveUuids /\ CopiedRow(u, s, y).owner # NoOwner
        BY <1>1 DEF CopiedRow, IInv, UuidsMinted
    <2>2. (rfs' = rfs \/ rfs' = rfs \cup {CopiedRow(u, s, y)}) /\ trash' \subseteq trash
        BY <1>1 DEF CopyFiles
    <2>. QED BY <2>1, <2>2, AddUserRowFeed DEF IInv
<1>. QED BY <1>2, <1>3, <1>4, <1>5 DEF IInv

-----------------------------------------------------------------------------
(* modify: a row is replaced by one with the same uuid. *)

LEMMA ReplaceRowIds ==
    ASSUME IInv, NEW r \in rfs, NEW q, q.uuid = r.uuid,
           rfs' = (rfs \ {r}) \cup {q}, UNCHANGED <<trash, nextTrash, used>>
    PROVE  IdentitiesUnique' /\ UuidsMinted' /\ TrashIdsIssued'
BY DEF IInv, IdentitiesUnique, UuidsMinted, TrashIdsIssued, ActiveUuids, TrashOrigs

LEMMA ModifyIInv ==
    ASSUME IInv, NEW u \in Users, NEW r \in rfs, NEW m \in ModifyInputs,
           Modify(u, r, m[1], m[2], m[3], m[4])
    PROVE  IInv'
<1>. DEFINE r1 == ModifiedFields(r, m[1], m[2], m[3])
            r2 == [r1 EXCEPT !.params[m[4][1]].value = m[4][2]]
<1>0. RowOK(r)
    BY DEF IInv, TypeInv, TypeOK
<1>1. TypeInv'
    BY ModifyTypeOK DEF IInv
<1>2. r1.uuid = r.uuid /\ r2.uuid = r.uuid
    BY <1>0 DEF ModifiedFields, RowOK, Row
<1>3. rfs' = (rfs \ {r}) \cup {r1} \/ rfs' = (rfs \ {r}) \cup {r2}
    BY DEF Modify, ParamHolders
<1>4. UNCHANGED <<trash, nextTrash, used, disk>>
    BY DEF Modify, ParamHolders
<1>5. IdentitiesUnique' /\ UuidsMinted' /\ TrashIdsIssued'
    BY <1>2, <1>3, <1>4, ReplaceRowIds
<1>6. FreshTrashIdsUnused'
    BY <1>4 DEF FreshTrashIdsUnused, IInv
<1>7. FeedOwned'
    <2>1. r1.owner = r.owner /\ r2.owner = r.owner
        BY <1>0 DEF ModifiedFields, RowOK, Row
    <2>2. CASE rfs' = (rfs \ {r}) \cup {r1}
        BY <1>2, <1>4, <2>1, <2>2, ReplaceRowFeed DEF IInv
    <2>3. CASE rfs' = (rfs \ {r}) \cup {r2}
        BY <1>2, <1>4, <2>1, <2>3, ReplaceRowFeed DEF IInv
    <2>. QED BY <1>3, <2>2, <2>3
<1>. QED BY <1>1, <1>5, <1>6, <1>7 DEF IInv

-----------------------------------------------------------------------------
(* delete to the trash: the row moves to the trash under the next id. *)

\* Moving row r to the trash under the id the sequence hands out keeps the
\* identities unique: no other row has r's uuid, no trash row has it as its
\* original, and every trash id handed out before is smaller.
LEMMA MoveToTrashIds ==
    ASSUME IInv, NEW r \in rfs, NEW t, t.orig = r.uuid, t.id = nextTrash,
           rfs' = rfs \ {r}, trash' = trash \cup {t}, nextTrash' = nextTrash + 1,
           UNCHANGED used
    PROVE  IdentitiesUnique' /\ UuidsMinted' /\ TrashIdsIssued'
<1>0. nextTrash \in Int /\ \A s \in trash : s.id \in Int
    BY DEF IInv, TypeInv, TypeOK, TrashRowOK, TrashRow
<1>1. \A q \in rfs' : q.uuid # t.orig
    BY DEF IInv, IdentitiesUnique
<1>2. \A s \in trash : s.orig # t.orig /\ s.id # t.id
    BY <1>0 DEF IInv, IdentitiesUnique, TrashIdsIssued
<1>3. IdentitiesUnique'
    BY <1>1, <1>2 DEF IInv, IdentitiesUnique
<1>4. UuidsMinted'
    BY DEF IInv, UuidsMinted, ActiveUuids, TrashOrigs
<1>5. TrashIdsIssued'
    BY <1>0 DEF IInv, TrashIdsIssued
<1>. QED BY <1>3, <1>4, <1>5

LEMMA SoftDeleteIInv ==
    ASSUME IInv, NEW u \in Users, NEW r \in rfs, SoftDelete(u, r)
    PROVE  IInv'
<1>0. TypeOK /\ RowOK(r)
    BY DEF IInv, TypeInv, TypeOK
<1>1. TypeInv'
    BY SoftDeleteTypeOK DEF IInv
<1>. DEFINE src == OwnerPath(u, r.uuid)
            dst == TrashPath(nextTrash)
            t   == TrashedRow(u, r, nextTrash)
<1>2. \/ UNCHANGED <<rfs, trash, nextTrash, trashRoot, disk, used>>
      \/ /\ nextTrash <= MaxTrashId
         /\ nextTrash' = nextTrash + 1 /\ UNCHANGED used
         /\ \E ok \in BOOLEAN : MoveDir(src, dst, ok)
         /\ \/ UNCHANGED <<rfs, trash>>
            \/ rfs' = rfs \ {r} /\ trash' = trash \cup {t}
    BY DEF SoftDelete
<1>9. FeedOwned'
    <2>1. r.owner # NoOwner /\ t.orig = r.uuid
        BY DEF SoftDelete, TrashedRow
    <2>2. /\ rfs' = rfs \/ rfs' = rfs \ {r}
          /\ \A s \in trash' : s \in trash \/ s.orig = r.uuid
        BY <1>2, <2>1
    <2>. QED BY <2>1, <2>2, RemoveUserRowFeed DEF IInv
<1>3. CASE UNCHANGED <<rfs, trash, nextTrash, trashRoot, disk, used>>
    BY <1>1, <1>3, <1>9 DEF IInv, IdentitiesUnique, UuidsMinted, TrashIdsIssued,
                      FreshTrashIdsUnused, ActiveUuids, TrashOrigs
<1>4. CASE /\ nextTrash <= MaxTrashId
           /\ nextTrash' = nextTrash + 1 /\ UNCHANGED used
           /\ \E ok \in BOOLEAN : MoveDir(src, dst, ok)
           /\ \/ UNCHANGED <<rfs, trash>>
              \/ rfs' = rfs \ {r} /\ trash' = trash \cup {t}
    <2>0. nextTrash \in 1 .. MaxTrashId
        BY <1>0, <1>4 DEF TypeOK
    <2>1. FreshTrashIdsUnused'
        <3>1. ASSUME NEW i \in nextTrash' .. MaxTrashId
              PROVE  disk'[TrashPath(i)] = disk[TrashPath(i)]
            <4>1. TrashPath(i) \in Paths /\ TrashPath(i) # src /\ TrashPath(i) # dst
                BY <1>4, <2>0, PathsDistinct DEF Paths, TrashPaths
            <4>. QED BY <1>0, <1>4, <4>1, MoveDirFrame DEF TypeOK
        <3>. QED BY <1>4, <2>0, <3>1, FreshFrame DEF IInv
    <2>2. CASE UNCHANGED <<rfs, trash>>
        <3>1. /\ rfs' \subseteq rfs /\ trash' \subseteq trash /\ used \subseteq used'
              /\ nextTrash' \in Int /\ nextTrash <= nextTrash'
            BY <1>4, <2>0, <2>2
        <3>. QED BY <1>1, <1>9, <2>1, <3>1, ShrinkIds DEF IInv
    <2>3. CASE rfs' = rfs \ {r} /\ trash' = trash \cup {t}
        <3>1. t.orig = r.uuid /\ t.id = nextTrash
            BY DEF TrashedRow
        <3>2. /\ rfs' = rfs \ {r} /\ trash' = trash \cup {t}
              /\ nextTrash' = nextTrash + 1 /\ UNCHANGED used
            BY <1>4, <2>3
        <3>. QED BY <1>1, <1>9, <2>1, <3>1, <3>2, MoveToTrashIds DEF IInv
    <2>. QED BY <1>4, <2>2, <2>3
<1>. QED BY <1>2, <1>3, <1>4

-----------------------------------------------------------------------------
(* The handlers that remove rows and directories. *)

\* A step that changes at most the directory of a trash id already handed
\* out leaves the directories of the fresh ids alone.
LEMMA IssuedTrashDirOnly ==
    ASSUME disk \in [Paths -> DirStates], nextTrash \in 1 .. MaxTrashId + 1, NEW i \in Int,
           i < nextTrash, nextTrash' = nextTrash,
           disk' = disk \/ \E v : disk' = [disk EXCEPT ![TrashPath(i)] = v]
    PROVE  \A j \in nextTrash' .. MaxTrashId : disk'[TrashPath(j)] = disk[TrashPath(j)]
<1>1. \A j \in nextTrash .. MaxTrashId : TrashPath(j) \in Paths /\ TrashPath(j) # TrashPath(i)
    <2>1. \A j \in nextTrash .. MaxTrashId : j # i /\ j \in 1 .. MaxTrashId
        OBVIOUS
    <2>. QED BY <2>1, PathsDistinct DEF Paths, TrashPaths
<1>. QED BY <1>1

LEMMA DeleteActiveIInv ==
    ASSUME IInv, NEW u \in Users, NEW r \in rfs, DeleteActive(u, r)
    PROVE  IInv'
<1>0. TypeOK
    BY DEF IInv, TypeInv
<1>1. TypeInv'
    BY DeleteActiveTypeOK DEF IInv
<1>2. /\ rfs' \subseteq rfs /\ UNCHANGED <<trash, nextTrash, used>>
      /\ disk' = disk \/ \E v : disk' = [disk EXCEPT ![OwnerPath(u, r.uuid)] = v]
    BY DEF DeleteActive
<1>3. nextTrash \in 1 .. MaxTrashId + 1
    BY <1>0 DEF TypeOK
<1>4. FreshTrashIdsUnused'
    <2>1. \A i \in nextTrash' .. MaxTrashId : disk'[TrashPath(i)] = disk[TrashPath(i)]
        BY <1>0, <1>2, <1>3, OwnerDirOnly DEF TypeOK
    <2>. QED BY <1>2, <1>3, <2>1, FreshFrame DEF IInv
<1>5. IdentitiesUnique' /\ UuidsMinted' /\ TrashIdsIssued'
    BY <1>2, <1>3, ShrinkIds
<1>6. FeedOwned'
    <2>1. r.owner # NoOwner /\ (rfs' = rfs \/ rfs' = rfs \ {r})
        BY DEF DeleteActive
    <2>. QED BY <1>2, <2>1, RemoveUserRowFeed DEF IInv
<1>. QED BY <1>1, <1>4, <1>5, <1>6 DEF IInv

LEMMA DeleteTrashIInv ==
    ASSUME IInv, NEW u \in Users, NEW t \in trash, NEW ult \in BOOLEAN,
           DeleteTrash(u, t, ult)
    PROVE  IInv'
<1>0. TypeOK /\ t.id \in Int /\ t.id < nextTrash
    BY DEF IInv, TypeInv, TypeOK, TrashRowOK, TrashRow, TrashIdsIssued
<1>1. TypeInv'
    BY DeleteTrashTypeOK DEF IInv
<1>2. /\ trash' \subseteq trash /\ UNCHANGED <<rfs, nextTrash, used>>
      /\ disk' = disk \/ \E v : disk' = [disk EXCEPT ![TrashPath(t.id)] = v]
    BY DEF DeleteTrash
<1>3. nextTrash \in 1 .. MaxTrashId + 1
    BY <1>0 DEF TypeOK
<1>4. FreshTrashIdsUnused'
    <2>1. \A i \in nextTrash' .. MaxTrashId : disk'[TrashPath(i)] = disk[TrashPath(i)]
        BY <1>0, <1>2, <1>3, IssuedTrashDirOnly DEF TypeOK
    <2>. QED BY <1>2, <1>3, <2>1, FreshFrame DEF IInv
<1>5. IdentitiesUnique' /\ UuidsMinted' /\ TrashIdsIssued'
    BY <1>2, <1>3, ShrinkIds
<1>6. FeedOwned'
    BY <1>2 DEF IInv, FeedOwned, ActiveUuids, TrashOrigs
<1>. QED BY <1>1, <1>4, <1>5, <1>6 DEF IInv

-----------------------------------------------------------------------------
(* restore: the trash row comes back under its original uuid. *)

\* Restoring t under its original uuid, which no active row has, keeps the
\* identities unique: no other trash row has that original uuid.
LEMMA RestoreRowIds ==
    ASSUME IInv, NEW t \in trash, t.orig \notin ActiveUuids,
           rfs' = rfs \cup {RestoredRow(t)}, trash' = trash \ {t},
           UNCHANGED <<nextTrash, used>>
    PROVE  IdentitiesUnique' /\ UuidsMinted' /\ TrashIdsIssued'
<1>1. RestoredRow(t).uuid = t.orig
    BY DEF RestoredRow
<1>2. \A s \in trash' : s.orig # t.orig
    BY DEF IInv, IdentitiesUnique
<1>3. IdentitiesUnique'
    BY <1>1, <1>2 DEF IInv, IdentitiesUnique, ActiveUuids
<1>4. UuidsMinted'
    BY <1>1 DEF IInv, UuidsMinted, ActiveUuids, TrashOrigs
<1>5. TrashIdsIssued'
    BY DEF IInv, TrashIdsIssued
<1>. QED BY <1>3, <1>4, <1>5

LEMMA RestoreIInv ==
    ASSUME IInv, NEW u \in Users, NEW t \in trash, Restore(u, t)
    PROVE  IInv'
<1>0. TypeOK /\ TrashRowOK(t) /\ t.id < nextTrash
    BY DEF IInv, TypeInv, TypeOK, TrashIdsIssued
<1>1. TypeInv'
    BY RestoreTypeOK DEF IInv
<1>. DEFINE src == TrashPath(t.id)
            dst == OwnerPath(t.owner, t.orig)
<1>2. \/ UNCHANGED <<rfs, trash, disk, nextTrash, used>>
      \/ /\ t.orig \notin ActiveUuids /\ UNCHANGED <<nextTrash, used>>
         /\ \E ok \in BOOLEAN : MoveDir(src, dst, ok)
         /\ \/ UNCHANGED <<rfs, trash>>
            \/ rfs' = rfs \cup {RestoredRow(t)} /\ trash' = trash \ {t}
    BY DEF Restore
<1>9. FeedOwned'
    <2>1. RestoredRow(t).uuid = t.orig /\ RestoredRow(t).owner # NoOwner
        BY <1>0 DEF RestoredRow, TrashRowOK, TrashRow
    <2>2. CASE UNCHANGED <<rfs, trash, disk, nextTrash, used>>
        BY <2>2 DEF IInv, FeedOwned, ActiveUuids, TrashOrigs
    <2>3. CASE /\ t.orig \notin ActiveUuids
               /\ \/ UNCHANGED <<rfs, trash>>
                  \/ rfs' = rfs \cup {RestoredRow(t)} /\ trash' = trash \ {t}
        BY <2>1, <2>3, AddUserRowFeed DEF IInv
    <2>. QED BY <1>2, <2>2, <2>3
<1>3. nextTrash \in 1 .. MaxTrashId + 1
    BY <1>0 DEF TypeOK
<1>4. CASE UNCHANGED <<rfs, trash, disk, nextTrash, used>>
    BY <1>1, <1>4, <1>9 DEF IInv, IdentitiesUnique, UuidsMinted, TrashIdsIssued,
                      FreshTrashIdsUnused, ActiveUuids, TrashOrigs
<1>5. CASE /\ t.orig \notin ActiveUuids /\ UNCHANGED <<nextTrash, used>>
           /\ \E ok \in BOOLEAN : MoveDir(src, dst, ok)
           /\ \/ UNCHANGED <<rfs, trash>>
              \/ rfs' = rfs \cup {RestoredRow(t)} /\ trash' = trash \ {t}
    <2>1. FreshTrashIdsUnused'
        <3>1. ASSUME NEW i \in nextTrash' .. MaxTrashId
              PROVE  disk'[TrashPath(i)] = disk[TrashPath(i)]
            <4>1. i \in 1 .. MaxTrashId /\ i # t.id
                BY <1>0, <1>3, <1>5 DEF TrashRowOK, TrashRow
            <4>2. TrashPath(i) \in Paths /\ TrashPath(i) # src /\ TrashPath(i) # dst
                BY <4>1, PathsDistinct DEF Paths, TrashPaths
            <4>. QED BY <1>0, <1>5, <4>2, MoveDirFrame DEF TypeOK
        <3>. QED BY <1>3, <1>5, <3>1, FreshFrame DEF IInv
    <2>2. CASE UNCHANGED <<rfs, trash>>
        <3>1. /\ rfs' \subseteq rfs /\ trash' \subseteq trash /\ used \subseteq used'
              /\ nextTrash' \in Int /\ nextTrash <= nextTrash'
            BY <1>3, <1>5, <2>2
        <3>. QED BY <1>1, <1>9, <2>1, <3>1, ShrinkIds DEF IInv
    <2>3. CASE rfs' = rfs \cup {RestoredRow(t)} /\ trash' = trash \ {t}
        <3>1. /\ t.orig \notin ActiveUuids /\ UNCHANGED <<nextTrash, used>>
              /\ rfs' = rfs \cup {RestoredRow(t)} /\ trash' = trash \ {t}
            BY <1>5, <2>3
        <3>. QED BY <1>1, <1>9, <2>1, <3>1, RestoreRowIds DEF IInv
    <2>. QED BY <1>5, <2>2, <2>3
<1>. QED BY <1>2, <1>4, <1>5

-----------------------------------------------------------------------------
(* empty-trash and the startup checks. *)

LEMMA EmptyTrashIInv ==
    ASSUME IInv, NEW u \in Users, EmptyTrash(u)
    PROVE  IInv'
<1>0. TypeOK
    BY DEF IInv, TypeInv
<1>1. TypeInv'
    BY EmptyTrashTypeOK DEF IInv
<1>. DEFINE ids == OwnTrashIds(u)
<1>2. nextTrash \in 1 .. MaxTrashId + 1 /\ \A i \in ids : i \in Int /\ i < nextTrash
    BY <1>0 DEF IInv, TypeOK, TrashIdsIssued, TrashRowOK, TrashRow, OwnTrashIds
<1>3. UNCHANGED <<rfs, nextTrash, used>> /\ trash' \subseteq trash
    BY DEF EmptyTrash
<1>4. FreshTrashIdsUnused'
    <2>1. ASSUME NEW j \in nextTrash' .. MaxTrashId
          PROVE  disk'[TrashPath(j)] = disk[TrashPath(j)]
        <3>1. TrashPath(j) \in Paths /\ \A i \in ids : TrashPath(j) # TrashPath(i)
            BY <1>2, <1>3, PathsDistinct DEF Paths, TrashPaths
        <3>2. \A g \in SUBSET ids : RemovedTrashDirs(g)[TrashPath(j)] = disk[TrashPath(j)]
            BY <3>1 DEF RemovedTrashDirs
        <3>3. CASE disk' = RemovedTrashDirs(ids)
            BY <3>2, <3>3
        <3>4. CASE \E g \in SUBSET ids, f \in ids :
                      disk' = [RemovedTrashDirs(g) EXCEPT ![TrashPath(f)] = Damaged(@)]
            <4>1. PICK g \in SUBSET ids, f \in ids :
                      disk' = [RemovedTrashDirs(g) EXCEPT ![TrashPath(f)] = Damaged(RemovedTrashDirs(g)[TrashPath(f)])]
                BY <3>4
            <4>2. DOMAIN RemovedTrashDirs(g) = Paths /\ TrashPath(j) # TrashPath(f)
                BY <3>1 DEF RemovedTrashDirs
            <4>. QED BY <3>2, <4>1, <4>2
        <3>5. CASE \E g \in SUBSET ids : disk' = RemovedTrashDirs(g)
            BY <3>2, <3>5
        <3>. QED BY <3>3, <3>4, <3>5 DEF EmptyTrash
    <2>. QED BY <1>2, <1>3, <2>1, FreshFrame DEF IInv
<1>5. IdentitiesUnique' /\ UuidsMinted' /\ TrashIdsIssued'
    BY <1>2, <1>3, ShrinkIds
<1>6. FeedOwned'
    BY <1>3 DEF IInv, FeedOwned, ActiveUuids, TrashOrigs
<1>. QED BY <1>1, <1>4, <1>5, <1>6 DEF IInv

\* On a stable feed every predefined directory holds a readable descriptor.
LEMMA StableFeedOk ==
    ASSUME FeedStable, NEW lost, NEW f \in [Predefined -> FeedStates]
    PROVE  FeedOk(StartupDisk(lost, f)) = Predefined
<1>1. ASSUME NEW x \in Predefined
      PROVE  StartupDisk(lost, f)[FeedPath(x)] = "intact"
    <2>1. FeedPath(x) \in Paths /\ FeedPath(x) \notin TrashPaths /\ FeedPath(x)[2] = x
        BY PathsDistinct DEF Paths, FeedPath, TrashPaths
    <2>2. FeedPath(x) \in {FeedPath(z) : z \in Predefined}
        OBVIOUS
    <2>. QED BY <2>1, <2>2 DEF StartupDisk, FeedStable
<1>. QED BY <1>1 DEF FeedOk

\* On a stable feed the reconciliation rewrites the formats of the feed in
\* place: every row keeps its uuid and its owner, and none is added.
LEMMA StableFeedRows ==
    ASSUME IInv, rfs' = FeedSynced(Predefined)
    PROVE  /\ \A q \in rfs' : \E r \in rfs : q.uuid = r.uuid /\ q.owner = r.owner
           /\ \A r \in rfs : \E q \in rfs' : q.uuid = r.uuid /\ q.owner = r.owner
           /\ \A q1, q2 \in rfs' : q1.uuid = q2.uuid => q1 = q2
<1>0. \A r \in rfs : RowOK(r) /\ (r.uuid \in Predefined <=> r.owner = NoOwner)
    BY DEF IInv, TypeInv, TypeOK, FeedOwned
<1>1. \A r \in rfs : FeedUpdated(r).uuid = r.uuid /\ FeedUpdated(r).owner = NoOwner
    BY <1>0, FeedUpdatedType
<1>. DEFINE Feed == {FeedUpdated(r) : r \in {s \in rfs : s.uuid \in Predefined}}
            Own  == {r \in rfs : r.uuid \notin Predefined}
<1>2. rfs' = Feed \cup Own
    <2>1. Predefined \ ActiveUuids = {}
        BY DEF IInv, FeedOwned
    <2>2. {r \in rfs : r.owner # NoOwner /\ r.uuid \notin Predefined} = Own
        BY <1>0
    <2>. QED BY <2>1, <2>2 DEF FeedSynced
<1>3. ASSUME NEW q \in rfs'
      PROVE  \E r \in rfs : q.uuid = r.uuid /\ q.owner = r.owner
    <2>1. CASE q \in Feed
        <3>1. PICK r \in rfs : r.uuid \in Predefined /\ q = FeedUpdated(r)
            BY <2>1
        <3>. QED BY <1>0, <1>1, <3>1
    <2>2. CASE q \in Own
        BY <2>2
    <2>. QED BY <1>2, <2>1, <2>2
<1>4. ASSUME NEW r \in rfs
      PROVE  \E q \in rfs' : q.uuid = r.uuid /\ q.owner = r.owner
    <2>1. CASE r.uuid \in Predefined
        <3>1. FeedUpdated(r) \in rfs'
            BY <1>2, <2>1
        <3>. QED BY <1>0, <1>1, <2>1, <3>1
    <2>2. CASE r.uuid \notin Predefined
        BY <1>2, <2>2
    <2>. QED BY <2>1, <2>2
<1>5. ASSUME NEW q1 \in rfs', NEW q2 \in rfs', q1.uuid = q2.uuid
      PROVE  q1 = q2
    <2>1. \A r1, r2 \in rfs : r1.uuid = r2.uuid => r1 = r2
        BY DEF IInv, IdentitiesUnique
    <2>2. CASE q1 \in Feed /\ q2 \in Feed
        <3>1. PICK r1 \in rfs : r1.uuid \in Predefined /\ q1 = FeedUpdated(r1)
            BY <2>2
        <3>2. PICK r2 \in rfs : r2.uuid \in Predefined /\ q2 = FeedUpdated(r2)
            BY <2>2
        <3>. QED BY <1>1, <1>5, <2>1, <3>1, <3>2
    <2>3. CASE q1 \in Own /\ q2 \in Own
        BY <1>5, <2>1, <2>3
    <2>4. \A q \in Feed : q.uuid \in Predefined
        BY <1>1
    <2>5. CASE (q1 \in Feed /\ q2 \in Own) \/ (q1 \in Own /\ q2 \in Feed)
        BY <1>5, <2>4, <2>5
    <2>6. (q1 \in Feed \/ q1 \in Own) /\ (q2 \in Feed \/ q2 \in Own)
        BY <1>2
    <2>. QED BY <2>2, <2>3, <2>5, <2>6, Zenon
<1>. QED BY <1>3, <1>4, <1>5

\* On a stable feed a startup keeps every row's uuid and owner, adds no
\* row, and only drops trash rows.
LEMMA StableRestartRows ==
    ASSUME FeedStable, IInv, Restart
    PROVE  /\ \A q \in rfs' : \E r \in rfs : q.uuid = r.uuid /\ q.owner = r.owner
           /\ \A r \in rfs : \E q \in rfs' : q.uuid = r.uuid /\ q.owner = r.owner
           /\ \A q1, q2 \in rfs' : q1.uuid = q2.uuid => q1 = q2
           /\ trash' \subseteq trash /\ UNCHANGED <<nextTrash, used>>
<1>1. PICK lost \in LossChoices, f \in [Predefined -> FeedStates] : StartupChecks(lost, f)
    BY DEF Restart
<1>2. rfs' = FeedSynced(Predefined)
    BY <1>1, StableFeedOk DEF StartupChecks
<1>3. trash' \subseteq trash /\ UNCHANGED <<nextTrash, used>>
    BY <1>1 DEF StartupChecks, CheckedTrash
<1>. QED BY <1>2, <1>3, StableFeedRows

\* On a stable feed the startup checks keep the invariant: they rewrite
\* the rows of the feed in place, drop trash rows and remove only trash
\* directories that exist.
LEMMA RestartIInv ==
    ASSUME FeedStable, IInv, Restart
    PROVE  IInv'
<1>0. TypeOK /\ nextTrash \in 1 .. MaxTrashId + 1
    BY DEF IInv, TypeInv, TypeOK
<1>1. TypeInv'
    BY RestartTypeOK DEF IInv
<1>2. PICK lost \in LossChoices, f \in [Predefined -> FeedStates] : StartupChecks(lost, f)
    BY DEF Restart
<1>. DEFINE disk0  == StartupDisk(lost, f)
            trash1 == CheckedTrash(trashRoot /\ ~lost)
<1>4. trash' \subseteq trash /\ UNCHANGED <<nextTrash, used>>
    BY StableRestartRows
<1>5. /\ \A q \in rfs' : \E r \in rfs : q.uuid = r.uuid /\ q.owner = r.owner
      /\ \A r \in rfs : \E q \in rfs' : q.uuid = r.uuid /\ q.owner = r.owner
      /\ \A q1, q2 \in rfs' : q1.uuid = q2.uuid => q1 = q2
    BY StableRestartRows
<1>6. ActiveUuids' = ActiveUuids
    BY <1>5 DEF ActiveUuids
<1>7. IdentitiesUnique'
    BY <1>4, <1>5 DEF IInv, IdentitiesUnique
<1>8. UuidsMinted' /\ TrashIdsIssued'
    BY <1>4, <1>6 DEF IInv, UuidsMinted, TrashIdsIssued, TrashOrigs
<1>9. FeedOwned'
    <2>1. \A q \in rfs' : q.uuid \in Predefined <=> q.owner = NoOwner
        BY <1>5 DEF IInv, FeedOwned
    <2>. QED BY <1>4, <1>6, <2>1 DEF IInv, FeedOwned, TrashOrigs
<1>10. FreshTrashIdsUnused'
    <2>1. ASSUME NEW j \in nextTrash' .. MaxTrashId
          PROVE  disk'[TrashPath(j)] = "none"
        <3>. DEFINE p == TrashPath(j)
        <3>1. p \in Paths /\ p \in TrashPaths /\ disk[p] = "none"
            BY <1>0, <1>4 DEF IInv, FreshTrashIdsUnused, Paths, TrashPaths
        <3>2. p \notin {FeedPath(x) : x \in Predefined}
            BY PathsDistinct
        <3>3. disk0[p] = "none"
            BY <3>1, <3>2 DEF StartupDisk
        <3>4. ~OrphanTrashDir(disk0, trash1, p)
            BY <3>3 DEF OrphanTrashDir
        <3>5. CASE disk' = [d \in Paths |-> IF OrphanTrashDir(disk0, trash1, d) THEN "none"
                                            ELSE disk0[d]]
            BY <3>1, <3>3, <3>5
        <3>6. CASE \E g \in SUBSET {d \in Paths : OrphanTrashDir(disk0, trash1, d)}, h \in Paths :
                      /\ OrphanTrashDir(disk0, trash1, h) /\ h \notin g
                      /\ disk' = [d \in Paths |-> IF d \in g THEN "none"
                                                  ELSE IF d = h THEN Damaged(disk0[d])
                                                  ELSE disk0[d]]
            <4>1. PICK g \in SUBSET {d \in Paths : OrphanTrashDir(disk0, trash1, d)}, h \in Paths :
                      /\ OrphanTrashDir(disk0, trash1, h) /\ h \notin g
                      /\ disk' = [d \in Paths |-> IF d \in g THEN "none"
                                                  ELSE IF d = h THEN Damaged(disk0[d])
                                                  ELSE disk0[d]]
                BY <3>6
            <4>2. p # h
                BY <3>4, <4>1
            <4>. QED BY <3>1, <3>3, <4>1, <4>2
        <3>. QED BY <1>2, <3>5, <3>6 DEF StartupChecks
    <2>. QED BY <2>1 DEF FreshTrashIdsUnused
<1>. QED BY <1>1, <1>7, <1>8, <1>9, <1>10 DEF IInv

-----------------------------------------------------------------------------
(* The theorems. *)

LEMMA NextIInv ==
    ASSUME FeedStable
    PROVE  IInv /\ [Next]_vars => IInv'
<1>. SUFFICES ASSUME IInv, [Next]_vars PROVE IInv'
    OBVIOUS
<1>1. CASE \E u \in Users, x \in Uuids, b \in Names, ps \in ParamInputs,
             fs \in FileInputs : Create(u, x, b, ps, fs)
    BY <1>1, CreateIInv
<1>2. CASE \E u \in Users, s \in rfs : Copy(u, s)
    BY <1>2, CopyIInv
<1>3. CASE \E u \in Users, r \in rfs, m \in ModifyInputs :
             Modify(u, r, m[1], m[2], m[3], m[4])
    BY <1>3, ModifyIInv
<1>4. CASE \E u \in Users, r \in rfs : SoftDelete(u, r) \/ DeleteActive(u, r)
    BY <1>4, SoftDeleteIInv, DeleteActiveIInv
<1>5. CASE \E u \in Users, t \in trash, ult \in BOOLEAN : DeleteTrash(u, t, ult)
    BY <1>5, DeleteTrashIInv
<1>6. CASE \E u \in Users, t \in trash : Restore(u, t)
    BY <1>6, RestoreIInv
<1>7. CASE \E u \in Users : EmptyTrash(u)
    BY <1>7, EmptyTrashIInv
<1>8. CASE Restart
    BY <1>8, RestartIInv
<1>9. CASE UNCHANGED vars
    BY <1>9 DEF vars, IInv, TypeInv, TypeOK, FeedRowsPredefined, IdentitiesUnique,
                UuidsMinted, TrashIdsIssued, FreshTrashIdsUnused, FeedOwned,
                ActiveUuids, TrashOrigs
<1>. QED BY <1>1, <1>2, <1>3, <1>4, <1>5, <1>6, <1>7, <1>8, <1>9 DEF Next

\* Uuids stay unique: no two report formats, no report format and trashed
\* format, and no two trashed formats share a uuid, and trash ids are
\* unique (the collision check of create_report_format, the fresh uuid of
\* copy_report_format, the uuid check of restore_report_format and the
\* trash sequence of delete_report_format).
THEOREM UuidsUnique == FeedStable => (Spec => []IdentitiesUnique)
<1>. SUFFICES ASSUME FeedStable PROVE Spec => []IdentitiesUnique
    OBVIOUS
<1>1. IInv => IdentitiesUnique
    BY DEF IInv
<1>2. IInv /\ [Next]_vars => IInv'
    BY NextIInv
<1>. QED BY InitIInv, <1>1, <1>2, PTL DEF Spec

\* No directory exists at a trash id the sequence has not handed out, in
\* any reachable state, whatever file system calls fail and wherever the
\* process crashes: a delete_report_format that is rolled back does not
\* give its id back, and check_db_report_formats_trash removes only the
\* directories of ids that were handed out.
THEOREM FreshTrashDirsAbsent == FeedStable => (Spec => []FreshTrashIdsUnused)
<1>. SUFFICES ASSUME FeedStable PROVE Spec => []FreshTrashIdsUnused
    OBVIOUS
<1>1. IInv => FreshTrashIdsUnused
    BY DEF IInv
<1>2. IInv /\ [Next]_vars => IInv'
    BY NextIInv
<1>. QED BY InitIInv, <1>1, <1>2, PTL DEF Spec

\* The invariant holds in every state of a behaviour on a stable feed.
LEMMA IInvAlways ==
    ASSUME FeedStable
    PROVE  Spec => []IInv
<1>1. IInv /\ [Next]_vars => IInv'
    BY NextIInv
<1>. QED BY InitIInv, <1>1, PTL DEF Spec

-----------------------------------------------------------------------------
(* The in-use checks of delete. *)

\* A step keeps every active format a live alert uses when it keeps all
\* rows but one, and that one is not in use or is replaced by a row with
\* its uuid.
LiveRefKept == \A x \in LiveRefUuids : x \in ActiveUuids => x \in ActiveUuids'

LEMMA NextLiveRefKept ==
    ASSUME FeedStable
    PROVE  IInv /\ [Next]_vars => LiveRefKept
<1>. SUFFICES ASSUME IInv, [Next]_vars PROVE LiveRefKept
    OBVIOUS
<1>0. TypeInv
    BY DEF IInv
<1>0a. CASE rfs \subseteq rfs'
    BY <1>0a DEF LiveRefKept, ActiveUuids
<1>1. CASE ActiveUuids \subseteq ActiveUuids'
    BY <1>1 DEF LiveRefKept
<1>2. CASE \E r \in rfs : \E q : q.uuid = r.uuid /\ rfs' = (rfs \ {r}) \cup {q}
    BY <1>2 DEF LiveRefKept, ActiveUuids
<1>3. CASE \E r \in rfs : ~ReportFormatInUse(r.uuid) /\ rfs' = rfs \ {r}
    BY <1>3 DEF LiveRefKept, ActiveUuids, ReportFormatInUse
<1>4. \/ rfs \subseteq rfs'
      \/ ActiveUuids \subseteq ActiveUuids'
      \/ \E r \in rfs : \E q : q.uuid = r.uuid /\ rfs' = (rfs \ {r}) \cup {q}
      \/ \E r \in rfs : ~ReportFormatInUse(r.uuid) /\ rfs' = rfs \ {r}
    <2>1. CASE \E u \in Users, x \in Uuids, b \in Names, ps \in ParamInputs,
                 fs \in FileInputs : Create(u, x, b, ps, fs)
        <3>1. PICK u \in Users, x \in Uuids, b \in Names, ps \in ParamInputs,
                   fs \in FileInputs : Create(u, x, b, ps, fs)
            BY <2>1
        <3>2. \E y, c : WriteFormat(u, y, b, ps, c)
            BY <3>1, Zenon DEF Create
        <3>. QED BY <3>2 DEF WriteFormat
    <2>2. CASE \E u \in Users, s \in rfs : Copy(u, s)
        BY <2>2 DEF Copy, CopyFiles
    <2>3. CASE \E u \in Users, r \in rfs, m \in ModifyInputs :
                 Modify(u, r, m[1], m[2], m[3], m[4])
        <3>1. PICK u \in Users, r \in rfs, m \in ModifyInputs :
                  Modify(u, r, m[1], m[2], m[3], m[4])
            BY <2>3
        <3>. DEFINE r1 == ModifiedFields(r, m[1], m[2], m[3])
                    r2 == [r1 EXCEPT !.params[m[4][1]].value = m[4][2]]
        <3>2. r1.uuid = r.uuid /\ r2.uuid = r.uuid
            BY DEF TypeInv, TypeOK, ModifiedFields, RowOK, Row
        <3>3. rfs' = (rfs \ {r}) \cup {r1} \/ rfs' = (rfs \ {r}) \cup {r2}
            BY <3>1 DEF Modify, ParamHolders
        <3>. QED BY <3>2, <3>3
    <2>4. CASE \E u \in Users, r \in rfs : SoftDelete(u, r) \/ DeleteActive(u, r)
        BY <2>4 DEF SoftDelete, DeleteActive
    <2>5. CASE \/ \E u \in Users, t \in trash, ult \in BOOLEAN : DeleteTrash(u, t, ult)
               \/ \E u \in Users, t \in trash : Restore(u, t)
               \/ \E u \in Users : EmptyTrash(u)
               \/ UNCHANGED vars
        BY <2>5 DEF DeleteTrash, Restore, EmptyTrash, vars
    <2>6. CASE Restart
        <3>1. \A q \in rfs' : \E r \in rfs : q.uuid = r.uuid
            BY <2>6, StableRestartRows
        <3>2. \A r \in rfs : \E q \in rfs' : q.uuid = r.uuid
            BY <2>6, StableRestartRows
        <3>. QED BY <3>2 DEF ActiveUuids
    <2>. QED BY <2>1, <2>2, <2>3, <2>4, <2>5, <2>6 DEF Next
<1>. QED BY <1>0a, <1>1, <1>2, <1>3, <1>4

\* A report format that a live alert uses is never deleted, neither to the
\* trash nor for good: the report_format_in_use checks of
\* delete_report_format, whatever fails or crashes.
THEOREM LiveRefsKept == FeedStable => (Spec => LiveRefProtected)
<1>. SUFFICES ASSUME FeedStable PROVE Spec => LiveRefProtected
    OBVIOUS
<1>1. IInv /\ [Next]_vars => [LiveRefKept]_vars
    BY NextLiveRefKept
<1>. QED BY IInvAlways, <1>1, PTL DEF LiveRefProtected, LiveRefKept, Spec

=============================================================================
