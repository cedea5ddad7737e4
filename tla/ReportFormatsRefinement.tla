----------------------- MODULE ReportFormatsRefinement -----------------------
(***************************************************************************)
(* Proof that the handlers of manage_sql_report_formats.c implement the    *)
(* catalog of ReportFormatCatalog under the mapping of ReportFormats: a    *)
(* row of report_formats is the entry <<uuid, owner>>, a row of            *)
(* report_formats_trash the entry <<original uuid, owner>> of the bin.     *)
(*                                                                         *)
(* The argument rests on the invariant IInv of ReportFormatsSafety, and so *)
(* on a feed that leaves the predefined directories intact (FeedStable):   *)
(*  - a new uuid is one no row and no trash row has (UuidsMinted and the   *)
(*    collision check of create);                                          *)
(*  - removing a row or a trash row removes exactly one entry, because     *)
(*    uuids are unique (IdentitiesUnique);                                 *)
(*  - a startup keeps every row's uuid and owner (StableRestartRows).      *)
(***************************************************************************)
EXTENDS ReportFormatsSafety

USE ConstantsAssumption, IntWidthAssumption

-----------------------------------------------------------------------------
(* The catalog steps the row changes map to. *)

\* The initial rows are the feed's entries, and the trash is empty.
LEMMA CatalogInit == Init => Catalog!Init
<1>. SUFFICES ASSUME Init PROVE Catalog!Init
    OBVIOUS
<1>0. rfs = {FeedRow(x) : x \in Predefined}
    BY DEF Init
<1>a. \A x : FeedRow(x).uuid = x /\ FeedRow(x).owner = NoOwner
    BY DEF FeedRow
<1>b. {<<r.uuid, r.owner>> : r \in rfs} \subseteq {<<x, NoOwner>> : x \in Predefined}
    BY <1>0, <1>a
<1>c. {<<x, NoOwner>> : x \in Predefined} \subseteq {<<r.uuid, r.owner>> : r \in rfs}
    <2>. SUFFICES ASSUME NEW x \in Predefined
                  PROVE  \E r \in rfs : <<x, NoOwner>> = <<r.uuid, r.owner>>
        OBVIOUS
    <2>1. FeedRow(x) \in rfs
        BY <1>0
    <2>. QED BY <1>a, <2>1
<1>1. {<<r.uuid, r.owner>> : r \in rfs} = {<<x, NoOwner>> : x \in Predefined}
    BY <1>b, <1>c
<1>2. {<<t.orig, t.owner>> : t \in trash} = {}
    BY DEF Init
<1>. QED BY <1>1, <1>2 DEF Catalog!Init

\* A step that keeps the uuids and owners of the rows and of the trash rows
\* leaves the catalog alone.
LEMMA CatalogStutter ==
    ASSUME {<<r.uuid, r.owner>> : r \in rfs'} = {<<r.uuid, r.owner>> : r \in rfs},
           {<<t.orig, t.owner>> : t \in trash'} = {<<t.orig, t.owner>> : t \in trash}
    PROVE  [Catalog!Next]_Catalog!vars
BY DEF Catalog!vars

\* Replacing a row by one of the same uuid and owner keeps the entries.
LEMMA ReplaceEntries ==
    ASSUME NEW r \in rfs, NEW q, q.uuid = r.uuid, q.owner = r.owner,
           rfs' = (rfs \ {r}) \cup {q}
    PROVE  {<<s.uuid, s.owner>> : s \in rfs'} = {<<s.uuid, s.owner>> : s \in rfs}
BY Zenon

\* A row inserted under a uuid no row and no trash row has is an Add.
LEMMA CatalogAdd ==
    ASSUME NEW q, q.uuid \in Uuids, q.owner \in Users \cup {NoOwner},
           q.uuid \notin ActiveUuids \cup TrashOrigs,
           rfs' = rfs \cup {q}, trash' = trash
    PROVE  [Catalog!Next]_Catalog!vars
<1>. DEFINE e == <<q.uuid, q.owner>>
<1>1. e \in Catalog!Entries
    BY DEF Catalog!Entries
<1>2. e[1] \notin Catalog!Known
    BY DEF Catalog!Known, Catalog!Active, ActiveUuids, TrashOrigs
<1>3. {<<s.uuid, s.owner>> : s \in rfs'} = {<<s.uuid, s.owner>> : s \in rfs} \cup {e}
    OBVIOUS
<1>4. Catalog!Add(e)
    BY <1>2, <1>3 DEF Catalog!Add
<1>. QED BY <1>1, <1>4 DEF Catalog!Next

\* With unique uuids, removing a row removes exactly its entry.
LEMMA RemoveEntry ==
    ASSUME IdentitiesUnique, NEW r \in rfs, rfs' = rfs \ {r}
    PROVE  {<<s.uuid, s.owner>> : s \in rfs'}
               = {<<s.uuid, s.owner>> : s \in rfs} \ {<<r.uuid, r.owner>>}
BY DEF IdentitiesUnique

\* With unique original uuids, removing a trash row removes exactly its
\* entry of the bin.
LEMMA RemoveBinEntry ==
    ASSUME IdentitiesUnique, NEW t \in trash, trash' = trash \ {t}
    PROVE  {<<s.orig, s.owner>> : s \in trash'}
               = {<<s.orig, s.owner>> : s \in trash} \ {<<t.orig, t.owner>>}
BY DEF IdentitiesUnique

\* Removing a row no live alert uses, keeping or dropping its trash copy,
\* is a Trash or a Discard.
LEMMA CatalogRemove ==
    ASSUME IInv, NEW r \in rfs, ~ReportFormatInUse(r.uuid), rfs' = rfs \ {r},
           \/ trash' = trash
           \/ \E t : t.orig = r.uuid /\ t.owner = r.owner /\ trash' = trash \cup {t}
    PROVE  [Catalog!Next]_Catalog!vars
<1>. DEFINE e == <<r.uuid, r.owner>>
<1>1. e \in Catalog!Entries
    BY DEF IInv, TypeInv, TypeOK, RowOK, Row, Catalog!Entries
<1>2. {<<s.uuid, s.owner>> : s \in rfs'} = {<<s.uuid, s.owner>> : s \in rfs} \ {e}
    BY RemoveEntry DEF IInv
<1>3. e \in {<<s.uuid, s.owner>> : s \in rfs} /\ e[1] \notin LiveRefUuids
    BY DEF ReportFormatInUse
<1>4. CASE trash' = trash
    <2>1. Catalog!Discard(e)
        BY <1>2, <1>3, <1>4 DEF Catalog!Discard
    <2>. QED BY <1>1, <2>1 DEF Catalog!Next
<1>5. CASE \E t : t.orig = r.uuid /\ t.owner = r.owner /\ trash' = trash \cup {t}
    <2>1. PICK t : t.orig = r.uuid /\ t.owner = r.owner /\ trash' = trash \cup {t}
        BY <1>5
    <2>2. {<<s.orig, s.owner>> : s \in trash'} = {<<s.orig, s.owner>> : s \in trash} \cup {e}
        BY <2>1
    <2>3. Catalog!Trash(e)
        BY <1>2, <1>3, <2>2 DEF Catalog!Trash
    <2>. QED BY <1>1, <2>3 DEF Catalog!Next
<1>. QED BY <1>4, <1>5

\* Bringing a trash row back under its original uuid, when no row has that
\* uuid, is a Restore.
LEMMA CatalogRestore ==
    ASSUME IInv, NEW t \in trash, t.orig \notin ActiveUuids,
           NEW q, q.uuid = t.orig, q.owner = t.owner,
           rfs' = rfs \cup {q}, trash' = trash \ {t}
    PROVE  [Catalog!Next]_Catalog!vars
<1>. DEFINE e == <<t.orig, t.owner>>
<1>1. e \in Catalog!Entries
    BY DEF IInv, TypeInv, TypeOK, TrashRowOK, TrashRow, Catalog!Entries
<1>2. {<<s.orig, s.owner>> : s \in trash'} = {<<s.orig, s.owner>> : s \in trash} \ {e}
    BY RemoveBinEntry DEF IInv
<1>3. {<<s.uuid, s.owner>> : s \in rfs'} = {<<s.uuid, s.owner>> : s \in rfs} \cup {e}
    OBVIOUS
<1>4. e[1] \notin Catalog!Active
    BY DEF Catalog!Active, ActiveUuids
<1>5. Catalog!Restore(e)
    BY <1>2, <1>3, <1>4 DEF Catalog!Restore
<1>. QED BY <1>1, <1>5 DEF Catalog!Next

\* Dropping trash rows while the entries of the rows stay is a Purge.
LEMMA CatalogPurge ==
    ASSUME {<<r.uuid, r.owner>> : r \in rfs'} = {<<r.uuid, r.owner>> : r \in rfs},
           trash' \subseteq trash
    PROVE  [Catalog!Next]_Catalog!vars
<1>1. Catalog!Purge
    BY DEF Catalog!Purge
<1>. QED BY <1>1 DEF Catalog!Next

-----------------------------------------------------------------------------
(* Each handler is a catalog step or leaves the catalog alone. *)

\* A step that keeps the rows and drops trash rows, if any.
LEMMA CatalogKeepRows ==
    ASSUME rfs' = rfs, trash' \subseteq trash
    PROVE  [Catalog!Next]_Catalog!vars
BY CatalogPurge

\* create_report_format inserts its row under a uuid nobody has, or fails.
LEMMA CreateRefines ==
    ASSUME IInv, NEW u \in Users, NEW x \in Uuids, NEW b \in Names,
           NEW ps \in ParamInputs, NEW fs \in FileInputs, Create(u, x, b, ps, fs)
    PROVE  [Catalog!Next]_Catalog!vars
<1>0. PICK y \in (IF UuidInUse(x) THEN Uuids \ used ELSE {x}) :
          \E c : WriteFormat(u, y, b, ps, c)
    BY Zenon DEF Create
<1>1. PICK c : WriteFormat(u, y, b, ps, c)
    BY <1>0
<1>2. y \in Uuids /\ y \notin ActiveUuids \cup TrashOrigs
    <2>1. CASE UuidInUse(x)
        BY <1>0, <2>1 DEF IInv, UuidsMinted
    <2>2. CASE ~UuidInUse(x)
        BY <1>0, <2>2 DEF UuidInUse
    <2>. QED BY <2>1, <2>2
<1>3. /\ trash' = trash
      /\ rfs' = rfs \/ rfs' = rfs \cup {CreatedRow(u, y, b, ps)}
    BY <1>1 DEF WriteFormat
<1>4. CreatedRow(u, y, b, ps).uuid = y /\ CreatedRow(u, y, b, ps).owner = u
    BY DEF CreatedRow
<1>. QED BY <1>2, <1>3, <1>4, CatalogAdd, CatalogKeepRows

\* copy_report_format inserts its row under a freshly minted uuid, or fails.
LEMMA CopyRefines ==
    ASSUME IInv, NEW u \in Users, NEW s \in rfs, Copy(u, s)
    PROVE  [Catalog!Next]_Catalog!vars
<1>1. PICK y \in Uuids \ used : CopyFiles(u, s, y)
    BY DEF Copy
<1>2. y \notin ActiveUuids \cup TrashOrigs
    BY <1>1 DEF IInv, UuidsMinted
<1>3. /\ trash' = trash
      /\ rfs' = rfs \/ rfs' = rfs \cup {CopiedRow(u, s, y)}
    BY <1>1 DEF CopyFiles
<1>4. CopiedRow(u, s, y).uuid = y /\ CopiedRow(u, s, y).owner = u
    BY DEF CopiedRow
<1>. QED BY <1>1, <1>2, <1>3, <1>4, CatalogAdd, CatalogKeepRows

\* modify_report_format replaces a row by one of the same uuid and owner.
LEMMA ModifyRefines ==
    ASSUME IInv, NEW u \in Users, NEW r \in rfs, NEW m \in ModifyInputs,
           Modify(u, r, m[1], m[2], m[3], m[4])
    PROVE  [Catalog!Next]_Catalog!vars
<1>. DEFINE r1 == ModifiedFields(r, m[1], m[2], m[3])
            r2 == [r1 EXCEPT !.params[m[4][1]].value = m[4][2]]
<1>1. r1.uuid = r.uuid /\ r1.owner = r.owner /\ r2.uuid = r.uuid /\ r2.owner = r.owner
    BY DEF IInv, TypeInv, TypeOK, ModifiedFields, RowOK, Row
<1>2. /\ trash' = trash
      /\ rfs' = (rfs \ {r}) \cup {r1} \/ rfs' = (rfs \ {r}) \cup {r2}
    BY DEF Modify, ParamHolders
<1>3. {<<s.uuid, s.owner>> : s \in rfs'} = {<<s.uuid, s.owner>> : s \in rfs}
    BY <1>1, <1>2, ReplaceEntries
<1>. QED BY <1>2, <1>3, CatalogStutter

\* delete_report_format to the trash moves a row no live alert uses to the
\* trash under its uuid, or fails.
LEMMA SoftDeleteRefines ==
    ASSUME IInv, NEW u \in Users, NEW r \in rfs, SoftDelete(u, r)
    PROVE  [Catalog!Next]_Catalog!vars
<1>. DEFINE t == TrashedRow(u, r, nextTrash)
<1>1. t.orig = r.uuid /\ t.owner = r.owner
    BY DEF SoftDelete, TrashedRow
<1>2. \/ rfs' = rfs /\ trash' = trash
      \/ /\ ~ReportFormatInUse(r.uuid)
         /\ rfs' = rfs \ {r} /\ trash' = trash \cup {t}
    BY DEF SoftDelete
<1>. QED BY <1>1, <1>2, CatalogRemove, CatalogKeepRows

\* delete_report_format for good removes a row no live alert uses, or fails.
LEMMA DeleteActiveRefines ==
    ASSUME IInv, NEW u \in Users, NEW r \in rfs, DeleteActive(u, r)
    PROVE  [Catalog!Next]_Catalog!vars
<1>1. /\ trash' = trash
      /\ \/ rfs' = rfs
         \/ ~ReportFormatInUse(r.uuid) /\ rfs' = rfs \ {r}
    BY DEF DeleteActive
<1>. QED BY <1>1, CatalogRemove, CatalogKeepRows

\* restore_report_format brings a trash row back under its original uuid,
\* which no row has, or fails.
LEMMA RestoreRefines ==
    ASSUME IInv, NEW u \in Users, NEW t \in trash, Restore(u, t)
    PROVE  [Catalog!Next]_Catalog!vars
<1>1. RestoredRow(t).uuid = t.orig /\ RestoredRow(t).owner = t.owner
    BY DEF RestoredRow
<1>2. \/ rfs' = rfs /\ trash' = trash
      \/ /\ t.orig \notin ActiveUuids
         /\ rfs' = rfs \cup {RestoredRow(t)} /\ trash' = trash \ {t}
    BY DEF Restore
<1>. QED BY <1>1, <1>2, CatalogRestore, CatalogKeepRows

\* On a stable feed a startup keeps every row's entry and drops trash rows.
LEMMA RestartRefines ==
    ASSUME FeedStable, IInv, Restart
    PROVE  [Catalog!Next]_Catalog!vars
<1>1. /\ \A q \in rfs' : \E r \in rfs : q.uuid = r.uuid /\ q.owner = r.owner
      /\ \A r \in rfs : \E q \in rfs' : q.uuid = r.uuid /\ q.owner = r.owner
      /\ trash' \subseteq trash
    BY StableRestartRows
<1>2. {<<r.uuid, r.owner>> : r \in rfs'} = {<<r.uuid, r.owner>> : r \in rfs}
    BY <1>1
<1>. QED BY <1>1, <1>2, CatalogPurge

\* Every step of the handlers is a step of the catalog or a stutter of it.
LEMMA StepRefines ==
    ASSUME FeedStable, IInv, [Next]_vars
    PROVE  [Catalog!Next]_Catalog!vars
<1>1. CASE \E u \in Users, x \in Uuids, b \in Names, ps \in ParamInputs,
             fs \in FileInputs : Create(u, x, b, ps, fs)
    BY <1>1, CreateRefines
<1>2. CASE \E u \in Users, s \in rfs : Copy(u, s)
    BY <1>2, CopyRefines
<1>3. CASE \E u \in Users, r \in rfs, m \in ModifyInputs :
             Modify(u, r, m[1], m[2], m[3], m[4])
    BY <1>3, ModifyRefines
<1>4. CASE \E u \in Users, r \in rfs : SoftDelete(u, r) \/ DeleteActive(u, r)
    BY <1>4, SoftDeleteRefines, DeleteActiveRefines
<1>5. CASE \E u \in Users, t \in trash, ult \in BOOLEAN : DeleteTrash(u, t, ult)
    <2>1. rfs' = rfs /\ trash' \subseteq trash
        BY <1>5 DEF DeleteTrash
    <2>. QED BY <2>1, CatalogKeepRows
<1>6. CASE \E u \in Users, t \in trash : Restore(u, t)
    BY <1>6, RestoreRefines
<1>7. CASE \E u \in Users : EmptyTrash(u)
    <2>1. rfs' = rfs /\ trash' \subseteq trash
        BY <1>7 DEF EmptyTrash
    <2>. QED BY <2>1, CatalogKeepRows
<1>8. CASE Restart
    BY <1>8, RestartRefines
<1>9. CASE UNCHANGED vars
    BY <1>9, CatalogKeepRows DEF vars
<1>. QED BY <1>1, <1>2, <1>3, <1>4, <1>5, <1>6, <1>7, <1>8, <1>9 DEF Next

\* On a feed that leaves the predefined directories intact, the handlers
\* of manage_sql_report_formats.c and the startup checks implement the
\* catalog: create and copy add formats under uuids nobody has (the
\* collision check of create_report_format, make_uuid), no handler changes
\* a format's owner, delete_report_format removes no format a live alert
\* uses (report_format_in_use), restore_report_format brings a format back
\* under its original uuid, and the trash is only ever purged.
THEOREM CatalogRefinement == FeedStable => (Spec => CatalogRefined)
<1>. SUFFICES ASSUME FeedStable PROVE Spec => CatalogRefined
    OBVIOUS
<1>1. IInv /\ [Next]_vars => [Catalog!Next]_Catalog!vars
    BY StepRefines
<1>. QED BY CatalogInit, IInvAlways, <1>1, PTL DEF Spec, CatalogRefined, Catalog!Spec

=============================================================================
