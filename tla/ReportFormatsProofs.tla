------------------------- MODULE ReportFormatsProofs -------------------------
(***************************************************************************)
(* Proofs about the report format lifecycle of ReportFormats, for every    *)
(* value of the constants that satisfies ConstantsAssumption.              *)
(***************************************************************************)
EXTENDS ReportFormats, WellFoundedInduction, TLAPS

USE ConstantsAssumption, IntWidthAssumption

-----------------------------------------------------------------------------
(* Helpers. *)

\* A nonempty set of naturals has a least element: the first failing
\* parameter of create_report_format's loop and the first free name suffix
\* exist.
LEMMA MinExists ==
    ASSUME NEW T, T \subseteq Nat, T # {}
    PROVE  \E i \in T : \A j \in T : i <= j
<1>1. PICK x \in T : \A y \in T : ~(<<y, x>> \in OpToRel(<, Nat))
    BY WFMin, NatLessThanWellFounded
<1>2. ASSUME NEW y \in T PROVE ~(y < x)
    <2>1. <<y, x>> \in Nat \X Nat
        OBVIOUS
    <2>. QED BY <1>1, <2>1 DEF OpToRel
<1>. QED BY <1>2

\* The extremes of long long int are integers, LLONG_MIN below 0 below
\* LLONG_MAX.
LEMMA LLongRange ==
    /\ LLongMin \in Int /\ LLongMax \in Int
    /\ LLongMin < 0 /\ 0 < LLongMax
BY DEF LLongMin, LLongMax

\* Min of FiniteSetsExt picks the least element of a nonempty set of
\* naturals.
LEMMA MinIsLeast ==
    ASSUME NEW T, T \subseteq Nat, T # {}
    PROVE  Min(T) \in T /\ \A j \in T : Min(T) <= j
BY MinExists DEF Min

\* When the parameter loop of create_report_format returns 0, no
\* parameter failed a check.
LEMMA ParamsCodeZero ==
    ASSUME NEW ps \in Seq(ParamInput(ParamNames)), ParamsCode(ps) = 0
    PROVE  \A i \in 1 .. Len(ps) : ParamError(ps[i], NamesBefore(ps, i)) = 0
<1>. DEFINE failing == {i \in 1 .. Len(ps) :
                          ParamError(ps[i], NamesBefore(ps, i)) # 0}
<1>1. SUFFICES ASSUME failing # {} PROVE FALSE
    OBVIOUS
<1>2. Min(failing) \in failing
    <2>1. failing \subseteq Nat
        OBVIOUS
    <2>. QED BY <1>1, <2>1, MinIsLeast
<1>3. ParamsCode(ps) = ParamError(ps[Min(failing)], NamesBefore(ps, Min(failing)))
    BY <1>1 DEF ParamsCode
<1>. QED BY <1>2, <1>3

\* A parameter that passes every check is stored with a known type and
\* integer value, default and bounds.
LEMMA StoredType ==
    ASSUME NEW p \in ParamInput(ParamNames), NEW seen, ParamError(p, seen) = 0
    PROVE  Stored(p) \in StoredParam
<1>1. p.type \in KnownTypes /\ p.fallback \in Int
    BY DEF ParamError, ParamInput, KnownTypes
<1>2. /\ (IF p.min = NoValue THEN LLongMin ELSE StrToLL(p.min)) \in Int
      /\ (IF p.max = NoValue THEN LLongMax ELSE StrToLL(p.max)) \in Int
    BY LLongRange DEF StrToLL, ParamInput
<1>. QED BY <1>1, <1>2 DEF Stored, StoredParam, ParamInput

\* The parameters of a format that create_report_format stores.
LEMMA StoredParamsType ==
    ASSUME NEW ps \in Seq(ParamInput(ParamNames)), ParamsCode(ps) = 0
    PROVE  /\ DOMAIN StoredParams(ps) \subseteq ParamNames
           /\ StoredParams(ps) \in [DOMAIN StoredParams(ps) -> StoredParam]
<1>. DEFINE D == {ps[i].name : i \in 1 .. Len(ps)}
<1>1. \A i \in 1 .. Len(ps) : ps[i] \in ParamInput(ParamNames)
    OBVIOUS
<1>2. D \subseteq ParamNames
    BY <1>1 DEF ParamInput
<1>3. ASSUME NEW n \in D
      PROVE  Stored(ps[CHOOSE i \in 1 .. Len(ps) : ps[i].name = n]) \in StoredParam
    <2>. DEFINE k == CHOOSE i \in 1 .. Len(ps) : ps[i].name = n
    <2>1. k \in 1 .. Len(ps)
        BY <1>3
    <2>2. ParamError(ps[k], NamesBefore(ps, k)) = 0
        BY <2>1, ParamsCodeZero
    <2>. QED BY <2>1, <2>2, <1>1, StoredType
<1>. QED BY <1>2, <1>3 DEF StoredParams

\* The suffix loop of create and copy picks a name of NameSpace.
LEMMA CandidateNameType ==
    ASSUME NEW u, NEW base \in Names, FreeSuffixes(u, base) # {}
    PROVE  CandidateName(u, base) \in NameSpace
<1>1. FreeSuffixes(u, base) \subseteq Nat
    BY DEF FreeSuffixes
<1>2. Min(FreeSuffixes(u, base)) \in FreeSuffixes(u, base)
    BY <1>1, MinIsLeast
<1>3. Min(FreeSuffixes(u, base)) \in 1 .. MaxNameSuffix
    BY <1>2 DEF FreeSuffixes
<1>. QED BY <1>3 DEF CandidateName, NameSpace

-----------------------------------------------------------------------------
(* Type correctness. *)

\* The rows without an owner are the predefined ones the feed installed:
\* every handler that inserts a row gives it the calling user as owner,
\* and modify only touches the caller's own rows.  Copy needs this to know
\* that its source directory is one of Paths.
FeedRowsPredefined == \A r \in rfs : r.owner = NoOwner => r.predefined

\* The inductive invariant behind TypeOK.
TypeInv == TypeOK /\ FeedRowsPredefined

\* The rows the handlers insert have the type of report_formats rows.
LEMMA CreatedRowType ==
    ASSUME NEW u \in Users, NEW y \in Uuids, NEW b \in Names,
           NEW ps \in ParamInputs, ParamsCode(ps) = 0,
           FreeSuffixes(u, b) # {}
    PROVE  RowOK(CreatedRow(u, y, b, ps))
<1>1. ps \in Seq(ParamInput(ParamNames))
    OBVIOUS
<1>2. CandidateName(u, b) \in NameSpace
    BY CandidateNameType
<1>. QED BY <1>1, <1>2, StoredParamsType DEF RowOK, Row, CreatedRow

LEMMA CopiedRowType ==
    ASSUME NEW u \in Users, NEW s, RowOK(s), NEW y \in Uuids,
           FreeSuffixes(u, s.name[1]) # {}
    PROVE  RowOK(CopiedRow(u, s, y))
<1>1. s.name[1] \in Names
    BY DEF RowOK, Row, NameSpace
<1>2. CandidateName(u, s.name[1]) \in NameSpace
    BY <1>1, CandidateNameType
<1>3. CopiedParams(s.params) \in [DOMAIN s.params -> StoredParam]
    BY DEF RowOK, Row, CopiedParams, StoredParam
<1>. QED BY <1>2, <1>3 DEF RowOK, Row, CopiedRow, CopiedParams

LEMMA TrashedRowType ==
    ASSUME NEW u \in Users, NEW r, RowOK(r), NEW id \in 1 .. MaxTrashId
    PROVE  TrashRowOK(TrashedRow(u, r, id))
BY DEF RowOK, Row, TrashRowOK, TrashRow, TrashedRow

LEMMA RestoredRowType ==
    ASSUME NEW t, TrashRowOK(t)
    PROVE  RowOK(RestoredRow(t))
BY DEF RowOK, Row, TrashRowOK, TrashRow, RestoredRow

\* A row whose fields are updated keeps its type.
LEMMA ModifiedRowType ==
    ASSUME NEW r, RowOK(r),
           NEW nm \in ModifyNames \cup {NoValue}, NEW act \in {NoValue, TRUE, FALSE},
           NEW pred \in {NoValue, TRUE, FALSE}
    PROVE  RowOK(ModifiedFields(r, nm, act, pred))
BY DEF RowOK, Row, ModifiedFields

\* Setting the value of a parameter keeps the row's type.
LEMMA SetParamRowType ==
    ASSUME NEW r, RowOK(r), NEW n \in DOMAIN r.params, NEW v \in Int
    PROVE  RowOK([r EXCEPT !.params[n].value = v])
<1>1. r.params[n] \in StoredParam
    BY DEF RowOK, Row
<1>2. [r.params[n] EXCEPT !.value = v] \in StoredParam
    BY <1>1 DEF StoredParam
<1>3. [r.params EXCEPT ![n] = [r.params[n] EXCEPT !.value = v]]
        \in [DOMAIN r.params -> StoredParam]
    BY <1>2 DEF RowOK, Row
<1>4. [r EXCEPT !.params[n].value = v]
        = [r EXCEPT !.params = [r.params EXCEPT ![n] = [r.params[n] EXCEPT !.value = v]]]
    OBVIOUS
<1>. QED BY <1>3, <1>4 DEF RowOK, Row

LEMMA InitTypeOK == Init => TypeOK
<1>. SUFFICES ASSUME Init PROVE TypeOK
    OBVIOUS
<1>1. \A x \in Predefined : RowOK(FeedRow(x))
    <2>1. <<CHOOSE n \in Names : TRUE, 1>> \in NameSpace
        BY DEF NameSpace
    <2>. QED BY <2>1 DEF FeedRow, RowOK, Row
<1>2. \A r \in rfs : RowOK(r)
    BY <1>1 DEF Init
<1>3. disk \in [Paths -> DirStates]
    BY DEF Init, DirStates
<1>4. last.op \in Ops /\ last.code \in Codes
    BY DEF Init, Ops, Codes
<1>5. nextTrash \in 1 .. MaxTrashId + 1
    <2>1. nextTrash = 1
        BY DEF Init
    <2>. QED BY <2>1
<1>6. used \subseteq Uuids /\ trash = {} /\ trashRoot \in BOOLEAN
    BY DEF Init
<1>. QED BY <1>2, <1>3, <1>4, <1>5, <1>6 DEF TypeOK

\* The result of the parameter loop is a return code of create.
LEMMA ParamsCodeRange ==
    ASSUME NEW ps \in Seq(ParamInput(ParamNames))
    PROVE  ParamsCode(ps) \in 0 .. 9
<1>1. \A p, seen : ParamError(p, seen) \in 0 .. 9
    BY DEF ParamError
<1>. QED BY <1>1 DEF ParamsCode

\* Changing one directory keeps the disk a map to directory states.
LEMMA DiskUpdate ==
    ASSUME disk \in [Paths -> DirStates], NEW p, NEW v \in DirStates
    PROVE  [disk EXCEPT ![p] = v] \in [Paths -> DirStates]
OBVIOUS

\* move_report_format_dir between two directories of the tree keeps the
\* disk a map to directory states.
LEMMA MoveDirType ==
    ASSUME disk \in [Paths -> DirStates], NEW src \in Paths, NEW dst \in Paths,
           NEW ok, MoveDir(src, dst, ok)
    PROVE  disk' \in [Paths -> DirStates]
<1>1. Damaged(disk[src]) \in DirStates
    BY DEF Damaged, DirStates
<1>. QED BY <1>1 DEF MoveDir, DirStates

LEMMA DamagedType ==
    ASSUME NEW d \in DirStates
    PROVE  Damaged(d) \in DirStates /\ Cleaned(d) \subseteq DirStates
BY DEF Damaged, Cleaned, DirStates

\* The steps of create once the uuid is chosen keep the types.
LEMMA WriteFormatTypeOK ==
    ASSUME TypeInv, NEW u \in Users, NEW y \in Uuids, NEW b \in Names,
           NEW ps \in ParamInputs, NEW code \in Codes,
           code = 0 => ParamsCode(ps) = 0, FreeSuffixes(u, b) # {},
           WriteFormat(u, y, b, ps, code)
    PROVE  TypeInv'
<1>. DEFINE p == OwnerPath(u, y)
<1>0. TypeOK
    BY DEF TypeInv
<1>1. disk[p] \in DirStates
    BY <1>0 DEF TypeOK, Paths, OwnerPaths
<1>2. /\ Damaged(disk[p]) \in DirStates
      /\ Cleaned("partial") \subseteq DirStates
      /\ Cleaned("intact") \subseteq DirStates
    BY <1>1, DamagedType DEF DirStates
<1>3. disk' \in [Paths -> DirStates]
    BY <1>0, <1>2, DiskUpdate DEF WriteFormat, TypeOK, DirStates
<1>4. \A r \in rfs' : RowOK(r)
    BY <1>0, CreatedRowType DEF WriteFormat, TypeOK
<1>7. FeedRowsPredefined'
    BY DEF WriteFormat, CreatedRow, TypeInv, FeedRowsPredefined
<1>5. last'.op \in Ops /\ last'.code \in Codes
    <2>1. {2, -1, Crashed, 0} \subseteq Codes
        BY DEF Codes, Crashed
    <2>2. \E c \in Codes : last' = [op |-> "create", code |-> c, arg |-> NoValue]
        BY <2>1 DEF WriteFormat, Finish
    <2>. QED BY <2>2 DEF Ops
<1>6. used' \subseteq Uuids /\ UNCHANGED <<trash, nextTrash, trashRoot>>
    BY <1>0 DEF WriteFormat, TypeOK
<1>. QED BY <1>0, <1>3, <1>4, <1>5, <1>6, <1>7 DEF TypeOK, TypeInv

LEMMA SmallCodes == 0 .. 9 \subseteq Codes
BY DEF Codes

\* create: an empty file name gives code 2, otherwise the code of the
\* parameter loop; in both cases the rest is WriteFormat.
LEMMA CreateTypeOK ==
    ASSUME TypeInv, NEW u \in Users, NEW x \in Uuids, NEW b \in Names,
           NEW ps \in ParamInputs, NEW fs \in FileInputs, Create(u, x, b, ps, fs)
    PROVE  TypeInv'
<1>1. FreeSuffixes(u, b) # {}
    BY DEF Create
<1>2. CASE "" \in fs
    <2>1. PICK y \in (IF UuidInUse(x) THEN Uuids \ used ELSE {x}) :
              WriteFormat(u, y, b, ps, 2)
        BY <1>2, Zenon DEF Create
    <2>2. y \in Uuids /\ 2 \in Codes
        BY <2>1, SmallCodes
    <2>. QED BY <1>1, <2>1, <2>2, WriteFormatTypeOK
<1>3. CASE "" \notin fs
    <2>1. PICK y \in (IF UuidInUse(x) THEN Uuids \ used ELSE {x}) :
              WriteFormat(u, y, b, ps, ParamsCode(ps))
        BY <1>3, Zenon DEF Create
    <2>2. y \in Uuids /\ ParamsCode(ps) \in Codes
        BY <2>1, SmallCodes, ParamsCodeRange
    <2>. QED BY <1>1, <2>1, <2>2, WriteFormatTypeOK
<1>. QED BY <1>2, <1>3

\* The directory a copy reads is one of the tree: a predefined source is
\* read from the feed, any other from its owner's directory.
LEMMA CopySourceInPaths ==
    ASSUME TypeInv, NEW s \in rfs
    PROVE  CopySource(s) \in Paths
<1>1. RowOK(s)
    BY DEF TypeInv, TypeOK
<1>2. CASE s.predefined
    BY <1>1, <1>2 DEF CopySource, Paths, RowOK, Row
<1>3. CASE ~s.predefined
    <2>1. s.owner \in Users
        BY <1>1, <1>3 DEF TypeInv, FeedRowsPredefined, RowOK, Row
    <2>. QED BY <1>1, <1>3, <2>1 DEF CopySource, Paths, OwnerPaths, RowOK, Row
<1>. QED BY <1>2, <1>3

LEMMA CopyFilesTypeOK ==
    ASSUME TypeInv, NEW u \in Users, NEW s \in rfs, NEW y \in Uuids,
           FreeSuffixes(u, s.name[1]) # {}, CopyFiles(u, s, y)
    PROVE  TypeInv'
<1>. DEFINE src == CopySource(s)
            c   == OwnerPath(u, y)
<1>0. TypeOK /\ RowOK(s)
    BY DEF TypeInv, TypeOK
<1>1. disk[src] \in DirStates /\ disk[c] \in DirStates
    BY <1>0, CopySourceInPaths DEF TypeOK, Paths, OwnerPaths
<1>2. /\ Damaged(disk[c]) \in DirStates
      /\ {"empty", "partial"} \subseteq DirStates
    BY <1>1, DamagedType DEF DirStates
<1>3. disk' \in [Paths -> DirStates]
    BY <1>0, <1>1, <1>2, DiskUpdate DEF CopyFiles, TypeOK, DirStates
<1>4. \A r \in rfs' : RowOK(r)
    BY <1>0, CopiedRowType DEF CopyFiles, TypeOK
<1>5. last'.op \in Ops /\ last'.code \in Codes
    <2>1. {-1, Crashed, 0} \subseteq Codes
        BY DEF Codes, Crashed
    <2>2. \E k \in Codes : last' = [op |-> "copy", code |-> k, arg |-> NoValue]
        BY <2>1 DEF CopyFiles, Finish
    <2>. QED BY <2>2 DEF Ops
<1>6. used' \subseteq Uuids /\ UNCHANGED <<trash, nextTrash, trashRoot>>
    BY <1>0 DEF CopyFiles, TypeOK
<1>7. FeedRowsPredefined'
    BY DEF CopyFiles, CopiedRow, TypeInv, FeedRowsPredefined
<1>. QED BY <1>0, <1>3, <1>4, <1>5, <1>6, <1>7 DEF TypeOK, TypeInv

LEMMA CopyTypeOK ==
    ASSUME TypeInv, NEW u \in Users, NEW s \in rfs, Copy(u, s)
    PROVE  TypeInv'
<1>1. PICK y \in Uuids \ used : CopyFiles(u, s, y)
    BY DEF Copy
<1>. QED BY <1>1, CopyFilesTypeOK DEF Copy

\* modify replaces the caller's row r by one with updated fields, or with
\* updated fields and one parameter value set.
LEMMA ModifyTypeOK ==
    ASSUME TypeInv, NEW u \in Users, NEW r \in rfs, NEW m \in ModifyInputs,
           Modify(u, r, m[1], m[2], m[3], m[4])
    PROVE  TypeInv'
<1>. DEFINE nm == m[1]  act == m[2]  pred == m[3]  prm == m[4]
<1>a. /\ nm \in ModifyNames \cup {NoValue}
      /\ act \in {NoValue, TRUE, FALSE}
      /\ pred \in {NoValue, TRUE, FALSE}
      /\ prm \in {NoValue} \cup (ParamNames \X ModifyValues)
    BY DEF ModifyInputs
<1>. DEFINE r1 == ModifiedFields(r, nm, act, pred)
            r2 == [r1 EXCEPT !.params[prm[1]].value = prm[2]]
<1>0. TypeOK /\ RowOK(r) /\ r.owner = u
    BY DEF TypeInv, TypeOK, Modify, ParamHolders
<1>1. RowOK(r1) /\ r1.owner = u
    <2>1. RowOK(r1)
        BY <1>0, <1>a, ModifiedRowType
    <2>2. r1.owner = r.owner
        BY <1>0 DEF ModifiedFields, RowOK, Row
    <2>. QED BY <1>0, <2>1, <2>2
<1>2. ASSUME prm # NoValue, prm[1] \in DOMAIN r1.params
      PROVE  RowOK(r2) /\ r2.owner = u
    <2>1. prm[2] \in Int
        BY <1>a, <1>2
    <2>. QED BY <1>1, <1>2, <2>1, SetParamRowType DEF RowOK, Row
<1>3. \/ rfs' = (rfs \ {r}) \cup {r1}
      \/ prm # NoValue /\ prm[1] \in DOMAIN r1.params
         /\ rfs' = (rfs \ {r}) \cup {r2}
    BY DEF Modify, ParamHolders
<1>4. \A q \in rfs' : RowOK(q) /\ (q.owner = NoOwner => q.predefined)
    BY <1>0, <1>1, <1>2, <1>3 DEF TypeInv, TypeOK, FeedRowsPredefined
<1>5. last'.op \in Ops /\ last'.code \in Codes
    <2>1. {0, 3, 4, Aborted} \subseteq Codes
        BY DEF Codes, Aborted
    <2>2. \E k \in Codes : \E a : last' = [op |-> "modify", code |-> k, arg |-> a]
        BY <2>1 DEF Modify, ParamHolders
    <2>. QED BY <2>2 DEF Ops
<1>6. UNCHANGED <<trash, nextTrash, trashRoot, disk, used>>
    BY DEF Modify, ParamHolders
<1>. QED BY <1>0, <1>4, <1>5, <1>6 DEF TypeOK, TypeInv, FeedRowsPredefined

\* The codes the delete, restore and empty-trash handlers return.
LEMMA HandlerCodes == {-1, 0, 1, 3, 4, Crashed} \subseteq Codes
BY DEF Codes, Crashed

\* A soft delete takes the next trash id and moves the directory there.
LEMMA SoftDeleteTypeOK ==
    ASSUME TypeInv, NEW u \in Users, NEW r \in rfs, SoftDelete(u, r)
    PROVE  TypeInv'
<1>0. TypeOK /\ RowOK(r) /\ r.owner = u
    BY DEF TypeInv, TypeOK, SoftDelete
<1>1. \E k \in Codes : last' = [op |-> "delete", code |-> k, arg |-> NoValue]
    BY HandlerCodes DEF SoftDelete, Finish
<1>. DEFINE src == OwnerPath(u, r.uuid)
            dst == TrashPath(nextTrash)
<1>3. \/ UNCHANGED <<rfs, trash, nextTrash, trashRoot, disk>>
      \/ /\ nextTrash <= MaxTrashId /\ trashRoot' = TRUE
         /\ nextTrash' = nextTrash + 1
         /\ \E ok \in BOOLEAN : MoveDir(src, dst, ok)
         /\ \/ UNCHANGED <<rfs, trash>>
            \/ rfs' = rfs \ {r} /\ trash' = trash \cup {TrashedRow(u, r, nextTrash)}
    BY DEF SoftDelete
<1>4. CASE UNCHANGED <<rfs, trash, nextTrash, trashRoot, disk>>
    BY <1>0, <1>1, <1>4 DEF SoftDelete, TypeInv, TypeOK, FeedRowsPredefined, Ops
<1>5. CASE /\ nextTrash <= MaxTrashId /\ trashRoot' = TRUE
           /\ nextTrash' = nextTrash + 1
           /\ \E ok \in BOOLEAN : MoveDir(src, dst, ok)
           /\ \/ UNCHANGED <<rfs, trash>>
              \/ rfs' = rfs \ {r} /\ trash' = trash \cup {TrashedRow(u, r, nextTrash)}
    <2>1. nextTrash \in 1 .. MaxTrashId /\ nextTrash' \in 1 .. MaxTrashId + 1
        BY <1>0, <1>5 DEF TypeOK
    <2>2. src \in Paths /\ dst \in Paths
        BY <1>0, <2>1 DEF Paths, OwnerPaths, TrashPaths, RowOK, Row
    <2>3. disk' \in [Paths -> DirStates]
        BY <1>0, <1>5, <2>2, MoveDirType DEF TypeOK
    <2>4. TrashRowOK(TrashedRow(u, r, nextTrash))
        BY <1>0, <2>1, TrashedRowType
    <2>5. /\ \A q \in rfs' : RowOK(q) /\ (q.owner = NoOwner => q.predefined)
          /\ \A t \in trash' : TrashRowOK(t)
        BY <1>0, <1>5, <2>4 DEF TypeInv, TypeOK, FeedRowsPredefined
    <2>6. UNCHANGED used
        BY DEF SoftDelete
    <2>7. last'.op \in Ops /\ last'.code \in Codes
        BY <1>1 DEF Ops
    <2>. QED BY <1>0, <1>5, <2>1, <2>3, <2>5, <2>6, <2>7 DEF TypeInv, TypeOK,
                FeedRowsPredefined
<1>. QED BY <1>3, <1>4, <1>5

\* Removing an active format for good deletes its row and its directory.
LEMMA DeleteActiveTypeOK ==
    ASSUME TypeInv, NEW u \in Users, NEW r \in rfs, DeleteActive(u, r)
    PROVE  TypeInv'
<1>0. TypeOK
    BY DEF TypeInv
<1>1. disk[OwnerPath(u, r.uuid)] \in DirStates
    BY <1>0 DEF TypeOK, RowOK, Row, Paths, OwnerPaths
<1>2. Damaged(disk[OwnerPath(u, r.uuid)]) \in DirStates
    BY <1>1, DamagedType
<1>3. disk' \in [Paths -> DirStates]
    BY <1>0, <1>2, DiskUpdate DEF DeleteActive, TypeOK, DirStates
<1>4. rfs' \subseteq rfs
    BY DEF DeleteActive
<1>5. \E k \in Codes : last' = [op |-> "delete", code |-> k, arg |-> NoValue]
    BY HandlerCodes DEF DeleteActive, Finish
<1>. QED BY <1>0, <1>3, <1>4, <1>5 DEF DeleteActive, TypeInv, TypeOK,
            FeedRowsPredefined, Ops

\* Removing a trashed format for good deletes its trash row and directory.
LEMMA DeleteTrashTypeOK ==
    ASSUME TypeInv, NEW u \in Users, NEW t \in trash, NEW ult \in BOOLEAN,
           DeleteTrash(u, t, ult)
    PROVE  TypeInv'
<1>0. TypeOK
    BY DEF TypeInv
<1>1. disk[TrashPath(t.id)] \in DirStates
    BY <1>0 DEF TypeOK, TrashRowOK, TrashRow, Paths, TrashPaths
<1>2. Damaged(disk[TrashPath(t.id)]) \in DirStates
    BY <1>1, DamagedType
<1>3. disk' \in [Paths -> DirStates]
    BY <1>0, <1>2, DiskUpdate DEF DeleteTrash, TypeOK, DirStates
<1>4. trash' \subseteq trash
    BY DEF DeleteTrash
<1>5. \E k \in Codes : last' = [op |-> "delete", code |-> k, arg |-> NoValue]
    BY HandlerCodes DEF DeleteTrash, Finish
<1>. QED BY <1>0, <1>3, <1>4, <1>5 DEF DeleteTrash, TypeInv, TypeOK,
            FeedRowsPredefined, Ops

\* A restore inserts the row under its original uuid and moves the
\* directory back.
LEMMA RestoreTypeOK ==
    ASSUME TypeInv, NEW u \in Users, NEW t \in trash, Restore(u, t)
    PROVE  TypeInv'
<1>0. TypeOK /\ TrashRowOK(t)
    BY DEF TypeInv, TypeOK
<1>1. TrashPath(t.id) \in Paths /\ OwnerPath(t.owner, t.orig) \in Paths
    BY <1>0 DEF TrashRowOK, TrashRow, Paths, TrashPaths, OwnerPaths
<1>2. RowOK(RestoredRow(t)) /\ RestoredRow(t).owner \in Users
    BY <1>0, RestoredRowType DEF RestoredRow, TrashRowOK, TrashRow
<1>3. \/ UNCHANGED <<rfs, trash, disk>>
      \/ /\ \E ok \in BOOLEAN :
               MoveDir(TrashPath(t.id), OwnerPath(t.owner, t.orig), ok)
         /\ \/ UNCHANGED <<rfs, trash>>
            \/ rfs' = rfs \cup {RestoredRow(t)} /\ trash' = trash \ {t}
    BY DEF Restore
<1>4. disk' \in [Paths -> DirStates]
    BY <1>0, <1>1, <1>3, MoveDirType DEF TypeOK
<1>5. /\ \A q \in rfs' : RowOK(q) /\ (q.owner = NoOwner => q.predefined)
      /\ \A s \in trash' : TrashRowOK(s)
    BY <1>0, <1>2, <1>3 DEF TypeInv, TypeOK, FeedRowsPredefined
<1>6. \E k \in Codes : last' = [op |-> "restore", code |-> k, arg |-> NoValue]
    BY HandlerCodes DEF Restore, Finish
<1>7. UNCHANGED <<nextTrash, trashRoot, used>>
    BY DEF Restore
<1>. QED BY <1>0, <1>4, <1>5, <1>6, <1>7 DEF TypeInv, TypeOK,
            FeedRowsPredefined, Ops

\* Whatever a directory held, a failed removal or move leaves a state.
LEMMA DamagedAny == \A d : Damaged(d) \in DirStates
BY DEF Damaged, DirStates

\* Emptying the trash removes some of the user's trash directories and
\* at most all of the user's trash rows.
LEMMA EmptyTrashTypeOK ==
    ASSUME TypeInv, NEW u \in Users, EmptyTrash(u)
    PROVE  TypeInv'
<1>0. TypeOK
    BY DEF TypeInv
<1>1. disk' \in [Paths -> DirStates]
    BY <1>0, DamagedAny DEF EmptyTrash, RemovedTrashDirs, TypeOK, DirStates
<1>2. trash' \subseteq trash
    BY DEF EmptyTrash
<1>3. \E k \in Codes : last' = [op |-> "empty_trash", code |-> k, arg |-> NoValue]
    BY HandlerCodes DEF EmptyTrash, Finish
<1>4. UNCHANGED <<rfs, nextTrash, trashRoot, used>>
    BY DEF EmptyTrash
<1>. QED BY <1>0, <1>1, <1>2, <1>3, <1>4 DEF TypeInv, TypeOK,
            FeedRowsPredefined, Ops

\* The disk the daemon starts on is a directory tree: the feed leaves a
\* predefined directory in one of FeedStates.
LEMMA StartupDiskType ==
    ASSUME TypeOK, NEW lost \in BOOLEAN, NEW f \in [Predefined -> FeedStates]
    PROVE  StartupDisk(lost, f) \in [Paths -> DirStates]
<1>1. ASSUME NEW p \in Paths
      PROVE  StartupDisk(lost, f)[p] \in DirStates
    <2>1. CASE lost /\ p \in TrashPaths
        BY <2>1 DEF StartupDisk, DirStates
    <2>2. CASE ~(lost /\ p \in TrashPaths) /\ p \in {FeedPath(x) : x \in Predefined}
        <3>1. PICK x \in Predefined : p = FeedPath(x)
            BY <2>2
        <3>2. p[2] = x
            BY <3>1 DEF FeedPath
        <3>3. StartupDisk(lost, f)[p] = f[x]
            BY <2>2, <3>2 DEF StartupDisk
        <3>. QED BY <3>3 DEF DirStates
    <2>3. CASE ~(lost /\ p \in TrashPaths) /\ p \notin {FeedPath(x) : x \in Predefined}
        BY <2>3 DEF StartupDisk, TypeOK
    <2>. QED BY <2>1, <2>2, <2>3
<1>2. StartupDisk(lost, f) = [p \in Paths |-> StartupDisk(lost, f)[p]]
    BY DEF StartupDisk
<1>. QED BY <1>1, <1>2, Zenon

\* A format the feed installs has no owner, is marked predefined and has
\* no parameters.
LEMMA FeedRowType ==
    ASSUME NEW x \in Uuids
    PROVE  /\ RowOK(FeedRow(x))
           /\ FeedRow(x).uuid = x /\ FeedRow(x).owner = NoOwner /\ FeedRow(x).predefined
           /\ FeedRow(x).name \in NameSpace /\ FeedRow(x).params \in [{} -> StoredParam]
<1>1. FeedRow(x).name \in NameSpace
    <2>1. 1 \in 1 .. MaxNameSuffix
        OBVIOUS
    <2>. QED BY <2>1 DEF FeedRow, NameSpace
<1>2. DOMAIN FeedRow(x).params = {} /\ FeedRow(x).params \in [{} -> StoredParam]
    BY DEF FeedRow
<1>3. FeedRow(x) \in Row({})
    BY <1>1, <1>2 DEF FeedRow, Row
<1>4. FeedRow(x).uuid = x /\ FeedRow(x).owner = NoOwner /\ FeedRow(x).predefined
    BY DEF FeedRow
<1>. QED BY <1>1, <1>2, <1>3, <1>4 DEF RowOK

\* The UPDATE of check_report_format_create keeps the uuid and gives the
\* row to the feed, marked predefined.
LEMMA FeedUpdatedType ==
    ASSUME NEW r, RowOK(r)
    PROVE  /\ RowOK(FeedUpdated(r))
           /\ FeedUpdated(r).uuid = r.uuid /\ FeedUpdated(r).owner = NoOwner
           /\ FeedUpdated(r).predefined
<1>1. r.uuid \in Uuids
    BY DEF RowOK, Row
<1>2. FeedRow(r.uuid).name \in NameSpace /\ FeedRow(r.uuid).params \in [{} -> StoredParam]
    BY <1>1, FeedRowType
<1>3. CASE r.owner = NoOwner
    <2>1. FeedUpdated(r) = [r EXCEPT !.owner = NoOwner, !.name = FeedRow(r.uuid).name,
                                      !.predefined = TRUE, !.active = TRUE,
                                      !.params = FeedRow(r.uuid).params]
        BY <1>3 DEF FeedUpdated
    <2>2. DOMAIN FeedRow(r.uuid).params = {}
        BY DEF FeedRow
    <2>. QED BY <1>2, <2>1, <2>2 DEF RowOK, Row
<1>4. CASE r.owner # NoOwner
    <2>1. FeedUpdated(r) = [r EXCEPT !.owner = NoOwner, !.name = FeedRow(r.uuid).name,
                                      !.predefined = TRUE, !.active = TRUE]
        BY <1>4 DEF FeedUpdated
    <2>. QED BY <1>2, <2>1 DEF RowOK, Row
<1>. QED BY <1>3, <1>4

\* The rows the reconciliation of the feed leaves have their types, and
\* those without owner are marked predefined.
LEMMA FeedSyncedType ==
    ASSUME TypeInv, NEW ok \in SUBSET Predefined
    PROVE  \A q \in FeedSynced(ok) : RowOK(q) /\ (q.owner = NoOwner => q.predefined)
<1>. SUFFICES ASSUME NEW q \in FeedSynced(ok)
              PROVE  RowOK(q) /\ (q.owner = NoOwner => q.predefined)
    OBVIOUS
<1>1. CASE \E r \in rfs : q = FeedUpdated(r)
    BY <1>1, FeedUpdatedType DEF TypeInv, TypeOK
<1>2. CASE q \in rfs
    BY <1>2 DEF TypeInv, TypeOK, FeedRowsPredefined
<1>3. CASE \E x \in ok : q = FeedRow(x)
    BY <1>3, FeedRowType
<1>. QED BY <1>1, <1>2, <1>3 DEF FeedSynced

\* The startup checks drop trash rows, prune trash directories and
\* reconcile the formats without owner with the feed.
LEMMA RestartTypeOK ==
    ASSUME TypeInv, Restart
    PROVE  TypeInv'
<1>0. TypeOK
    BY DEF TypeInv
<1>1. PICK lost \in LossChoices, f \in [Predefined -> FeedStates] : StartupChecks(lost, f)
    BY DEF Restart
<1>. DEFINE disk0 == StartupDisk(lost, f)
<1>2. disk0 \in [Paths -> DirStates]
    BY <1>0, StartupDiskType DEF LossChoices
<1>3. disk' \in [Paths -> DirStates]
    <2>. DEFINE trash1 == CheckedTrash(trashRoot /\ ~lost)
    <2>1. CASE disk' = [p \in Paths |-> IF OrphanTrashDir(disk0, trash1, p) THEN "none"
                                        ELSE disk0[p]]
        BY <1>2, <2>1 DEF DirStates
    <2>2. CASE \E g \in SUBSET Paths, h \in Paths :
                  disk' = [p \in Paths |-> IF p \in g THEN "none"
                                          ELSE IF p = h THEN Damaged(disk0[p])
                                          ELSE disk0[p]]
        BY <1>2, <2>2, DamagedAny DEF DirStates
    <2>. QED BY <1>1, <2>1, <2>2 DEF StartupChecks
<1>4. trash' \subseteq trash
    BY <1>1 DEF StartupChecks, CheckedTrash
<1>5. \E k \in Codes : last' = [op |-> "restart", code |-> k, arg |-> NoValue]
    BY <1>1, HandlerCodes DEF StartupChecks, Finish
<1>6. UNCHANGED <<nextTrash, used>> /\ trashRoot' \in BOOLEAN
    BY <1>1 DEF StartupChecks
<1>7. \A q \in rfs' : RowOK(q) /\ (q.owner = NoOwner => q.predefined)
    <2>1. FeedOk(disk0) \in SUBSET Predefined
        BY DEF FeedOk
    <2>. QED BY <1>1, <2>1, FeedSyncedType DEF StartupChecks
<1>. QED BY <1>0, <1>3, <1>4, <1>5, <1>6, <1>7 DEF TypeInv, TypeOK,
            FeedRowsPredefined, Ops

LEMMA InitTypeInv == Init => TypeInv
<1>1. Init => FeedRowsPredefined
    BY DEF Init, FeedRow, FeedRowsPredefined
<1>. QED BY <1>1, InitTypeOK DEF TypeInv

\* Every handler, the startup checks and a stuttering step keep TypeInv.
LEMMA NextTypeInv == TypeInv /\ [Next]_vars => TypeInv'
<1>. SUFFICES ASSUME TypeInv, [Next]_vars PROVE TypeInv'
    OBVIOUS
<1>1. CASE \E u \in Users, x \in Uuids, b \in Names, ps \in ParamInputs,
             fs \in FileInputs : Create(u, x, b, ps, fs)
    BY <1>1, CreateTypeOK
<1>2. CASE \E u \in Users, s \in rfs : Copy(u, s)
    BY <1>2, CopyTypeOK
<1>3. CASE \E u \in Users, r \in rfs, m \in ModifyInputs :
             Modify(u, r, m[1], m[2], m[3], m[4])
    BY <1>3, ModifyTypeOK
<1>4. CASE \E u \in Users, r \in rfs : SoftDelete(u, r) \/ DeleteActive(u, r)
    BY <1>4, SoftDeleteTypeOK, DeleteActiveTypeOK
<1>5. CASE \E u \in Users, t \in trash, ult \in BOOLEAN : DeleteTrash(u, t, ult)
    BY <1>5, DeleteTrashTypeOK
<1>6. CASE \E u \in Users, t \in trash : Restore(u, t)
    BY <1>6, RestoreTypeOK
<1>7. CASE \E u \in Users : EmptyTrash(u)
    BY <1>7, EmptyTrashTypeOK
<1>8. CASE Restart
    BY <1>8, RestartTypeOK
<1>9. CASE UNCHANGED vars
    BY <1>9 DEF vars, TypeInv, TypeOK, FeedRowsPredefined
<1>. QED BY <1>1, <1>2, <1>3, <1>4, <1>5, <1>6, <1>7, <1>8, <1>9 DEF Next

\* Type correctness of the lifecycle: in every reachable state the rows of
\* report_formats and report_formats_trash, the trash sequence, the
\* directory tree and the handlers' results have their types.
THEOREM TypeCorrect == Spec => []TypeOK
<1>1. TypeInv => TypeOK
    BY DEF TypeInv
<1>. QED BY InitTypeInv, NextTypeInv, <1>1, PTL DEF Spec

=============================================================================
