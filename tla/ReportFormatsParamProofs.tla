----------------------- MODULE ReportFormatsParamProofs -----------------------
(***************************************************************************)
(* Proofs about the stored parameter values of the report format          *)
(* lifecycle.  validate_param_value checks an integer against the bounds  *)
(* stored with the same parameter, so every integer value and default     *)
(* stays within its bounds for every input.  A selection value is checked *)
(* against options that copy_report_format does not copy and that         *)
(* set_report_format_param takes from whichever format has a parameter of *)
(* that name (runs copy_selection and modify_param), so what is proved is *)
(* the part of ParamValuesValid about the parameters that are not         *)
(* selections; the selection part is violated, and stays with TLC.        *)
(***************************************************************************)
EXTENDS ReportFormatsProofs

USE ConstantsAssumption, IntWidthAssumption

\* The value and the default of a stored parameter that is not a
\* selection are acceptable for it.
ParamOK(sp) ==
    sp.type # "selection" => Acceptable(sp, sp.value) /\ Acceptable(sp, sp.fallback)

\* Every parameter of the row r is ParamOK.
RowParamsOK(r) == \A n \in DOMAIN r.params : ParamOK(r.params[n])

\* Every integer parameter of report_formats and of the trash has its
\* value and its default within its stored bounds.
NonSelectionValid == \A r \in rfs \cup trash : RowParamsOK(r)

-----------------------------------------------------------------------------
(* validate_param_value and the checks of create. *)

\* A value validate_param_value accepts with the parameter's own options
\* is acceptable; with options of another row it still is, unless the
\* parameter is a selection.
LEMMA ValidWithAcceptable ==
    ASSUME NEW sp \in StoredParam, NEW opts, NEW v \in Int, ValidWith(sp, opts, v),
           sp.type # "selection" \/ opts = sp.opts
    PROVE  Acceptable(sp, v)
<1>1. StrToLL(v) \in Int
    BY LLongRange DEF StrToLL
<1>. QED BY <1>1 DEF ValidWith, Acceptable, StoredParam

\* A parameter that passes every check of create_report_format is stored
\* with an acceptable value and default.
LEMMA StoredAcceptable ==
    ASSUME NEW p \in ParamInput(ParamNames), NEW seen, ParamError(p, seen) = 0
    PROVE  /\ Acceptable(Stored(p), Stored(p).value)
           /\ Acceptable(Stored(p), Stored(p).fallback)
           /\ Stored(p).type = p.type
<1>1. Stored(p) \in StoredParam
    BY StoredType
<1>2. p.fallback \in Int /\ p.value \in Int
    BY DEF ParamError, ParamInput
<1>3. ValidValue(Stored(p), p.value) /\ ValidValue(Stored(p), p.fallback)
    BY DEF ParamError
<1>4. Stored(p).value = p.value /\ Stored(p).fallback = p.fallback
      /\ Stored(p).type = p.type
    BY DEF Stored
<1>. QED BY <1>1, <1>2, <1>3, <1>4, ValidWithAcceptable DEF ValidValue

\* The parameters create_report_format stores when its loop returns 0 are
\* acceptable, and each has the type of one of the inputs.
LEMMA StoredParamsAcceptable ==
    ASSUME NEW ps \in Seq(ParamInput(ParamNames)), ParamsCode(ps) = 0,
           NEW n \in DOMAIN StoredParams(ps)
    PROVE  /\ Acceptable(StoredParams(ps)[n], StoredParams(ps)[n].value)
           /\ Acceptable(StoredParams(ps)[n], StoredParams(ps)[n].fallback)
           /\ \E i \in 1 .. Len(ps) : StoredParams(ps)[n].type = ps[i].type
<1>. DEFINE k == CHOOSE i \in 1 .. Len(ps) : ps[i].name = n
<1>1. n \in {ps[i].name : i \in 1 .. Len(ps)}
    BY DEF StoredParams
<1>2. k \in 1 .. Len(ps) /\ StoredParams(ps)[n] = Stored(ps[k])
    BY <1>1 DEF StoredParams
<1>3. ParamError(ps[k], NamesBefore(ps, k)) = 0 /\ ps[k] \in ParamInput(ParamNames)
    BY <1>2, ParamsCodeZero
<1>. QED BY <1>2, <1>3, StoredAcceptable

-----------------------------------------------------------------------------
(* The handlers keep the stored values acceptable. *)

\* What the proof keeps of a row: its non-selection parameters are
\* acceptable.
RowGood(r) == RowParamsOK(r)

ParamsInv == TypeInv /\ \A r \in rfs \cup trash : RowGood(r)

\* Whether a row is good depends on its parameters only.
LEMMA SameParamsGood ==
    ASSUME NEW q, NEW r, RowGood(r), q.params = r.params
    PROVE  RowGood(q)
BY DEF RowGood, RowParamsOK

\* A row without parameters is good.
LEMMA NoParamsGood ==
    ASSUME NEW q, DOMAIN q.params = {}
    PROVE  RowGood(q)
BY DEF RowGood, RowParamsOK

\* A step whose rows all carry the parameters of an earlier row, or are
\* good, keeps every row good.
LEMMA GoodFrame ==
    ASSUME \A r \in rfs \cup trash : RowGood(r),
           \A q \in rfs' \cup trash' : (\E r \in rfs \cup trash : q.params = r.params)
                                       \/ RowGood(q)
    PROVE  \A q \in rfs' \cup trash' : RowGood(q)
BY SameParamsGood

LEMMA CreatedRowGood ==
    ASSUME NEW u, NEW y, NEW b, NEW ps \in ParamInputs, ParamsCode(ps) = 0
    PROVE  RowGood(CreatedRow(u, y, b, ps))
<1>1. ps \in Seq(ParamInput(ParamNames))
    OBVIOUS
<1>2. CreatedRow(u, y, b, ps).params = StoredParams(ps)
    BY DEF CreatedRow
<1>3. ASSUME NEW n \in DOMAIN StoredParams(ps)
      PROVE  ParamOK(StoredParams(ps)[n])
    BY <1>1, StoredParamsAcceptable DEF ParamOK
<1>. QED BY <1>2, <1>3 DEF RowGood, RowParamsOK

LEMMA CopiedRowGood ==
    ASSUME NEW u, NEW s, RowOK(s), RowGood(s), NEW y
    PROVE  RowGood(CopiedRow(u, s, y))
<1>1. CopiedRow(u, s, y).params = CopiedParams(s.params)
    BY DEF CopiedRow
<1>2. ASSUME NEW n \in DOMAIN s.params
      PROVE  /\ CopiedParams(s.params)[n].type = s.params[n].type
             /\ CopiedParams(s.params)[n].value = s.params[n].value
             /\ CopiedParams(s.params)[n].fallback = s.params[n].fallback
             /\ CopiedParams(s.params)[n].min = s.params[n].min
             /\ CopiedParams(s.params)[n].max = s.params[n].max
    BY DEF RowOK, Row, StoredParam, CopiedParams
<1>3. DOMAIN CopiedParams(s.params) = DOMAIN s.params
    BY DEF CopiedParams
<1>. QED BY <1>1, <1>2, <1>3 DEF RowGood, RowParamsOK, ParamOK, Acceptable

\* set_report_format_param stores only a value validate_param_value
\* accepted for the bounds of the parameter of the format modified.
LEMMA SetParamGood ==
    ASSUME NEW r, RowOK(r), RowGood(r), NEW n \in DOMAIN r.params, NEW opts,
           NEW v \in Int, ValidWith(r.params[n], opts, v)
    PROVE  RowGood([r EXCEPT !.params[n].value = v])
<1>. DEFINE sp == r.params[n]
            q  == [r EXCEPT !.params[n].value = v]
<1>1. sp \in StoredParam
    BY DEF RowOK, Row
<1>2. q.params = [r.params EXCEPT ![n] = [sp EXCEPT !.value = v]]
    BY DEF RowOK, Row
<1>3. sp.type # "selection" => Acceptable(sp, v)
    BY <1>1, ValidWithAcceptable
<1>4. ParamOK([sp EXCEPT !.value = v])
    <2>1. ParamOK(sp)
        BY DEF RowGood, RowParamsOK
    <2>. QED BY <1>1, <1>3, <2>1 DEF ParamOK, Acceptable, StoredParam
<1>. QED BY <1>1, <1>2, <1>4 DEF RowGood, RowParamsOK, StoredParam

LEMMA ModifyGood ==
    ASSUME ParamsInv, NEW u \in Users, NEW r \in rfs, NEW m \in ModifyInputs,
           Modify(u, r, m[1], m[2], m[3], m[4])
    PROVE  \A q \in rfs' \cup trash' : (\E s \in rfs \cup trash : q.params = s.params)
                                       \/ RowGood(q)
<1>. DEFINE prm == m[4]
            r1  == ModifiedFields(r, m[1], m[2], m[3])
            r2  == [r1 EXCEPT !.params[prm[1]].value = prm[2]]
<1>0. RowOK(r) /\ RowGood(r) /\ UNCHANGED trash
    BY DEF ParamsInv, TypeInv, TypeOK, Modify
<1>1. RowOK(r1) /\ r1.params = r.params
    <2>1. RowOK(r1)
        BY <1>0, ModifiedRowType DEF ModifyInputs
    <2>. QED BY <1>0, <2>1 DEF ModifiedFields, RowOK, Row
<1>2. ASSUME prm # NoValue, prm[1] \in DOMAIN r1.params,
             \E h : ValidWith(r1.params[prm[1]], h.params[prm[1]].opts, prm[2])
      PROVE  RowGood(r2)
    <2>1. prm[2] \in Int
        BY <1>2 DEF ModifyInputs
    <2>2. RowGood(r1)
        BY <1>0, <1>1, SameParamsGood
    <2>3. PICK h : ValidWith(r1.params[prm[1]], h.params[prm[1]].opts, prm[2])
        BY <1>2
    <2>. QED BY <1>1, <1>2, <2>1, <2>2, <2>3, SetParamGood
<1>3. \/ rfs' = (rfs \ {r}) \cup {r1}
      \/ /\ prm # NoValue /\ prm[1] \in DOMAIN r1.params
         /\ \E h : ValidWith(r1.params[prm[1]], h.params[prm[1]].opts, prm[2])
         /\ rfs' = (rfs \ {r}) \cup {r2}
    BY DEF Modify, ParamHolders
<1>. QED BY <1>0, <1>1, <1>2, <1>3

\* The startup checks keep the parameters of every row they keep or give
\* to the feed, and insert rows without parameters.
LEMMA RestartGood ==
    ASSUME ParamsInv, Restart
    PROVE  \A q \in rfs' \cup trash' : (\E s \in rfs \cup trash : q.params = s.params)
                                       \/ RowGood(q)
<1>1. PICK lost \in LossChoices, f \in [Predefined -> FeedStates] : StartupChecks(lost, f)
    BY DEF Restart
<1>2. PICK ok : rfs' = FeedSynced(ok)
    BY <1>1 DEF StartupChecks
<1>3. trash' \subseteq trash
    BY <1>1 DEF StartupChecks, CheckedTrash
<1>4. \A x : DOMAIN FeedRow(x).params = {}
    BY DEF FeedRow
<1>5. \A r \in rfs : FeedUpdated(r).params = r.params
                     \/ DOMAIN FeedUpdated(r).params = {}
    BY <1>4 DEF FeedUpdated, ParamsInv, TypeInv, TypeOK, RowOK, Row
<1>. QED BY <1>2, <1>3, <1>4, <1>5, NoParamsGood DEF FeedSynced

\* create_report_format inserts at most its row, and only when every
\* check returned 0.
LEMMA WriteFormatRows ==
    ASSUME NEW u, NEW y, NEW b, NEW ps, NEW code, WriteFormat(u, y, b, ps, code)
    PROVE  /\ UNCHANGED trash
           /\ rfs' = rfs \/ (code = 0 /\ rfs' = rfs \cup {CreatedRow(u, y, b, ps)})
BY DEF WriteFormat

LEMMA InitParams == Init => ParamsInv
<1>. SUFFICES ASSUME Init PROVE ParamsInv
    OBVIOUS
<1>1. \A r \in rfs \cup trash : DOMAIN r.params = {}
    BY DEF Init, FeedRow
<1>. QED BY <1>1, NoParamsGood, InitTypeInv DEF ParamsInv

LEMMA NextParams == ParamsInv /\ [Next]_vars => ParamsInv'
<1>. SUFFICES ASSUME ParamsInv, [Next]_vars PROVE ParamsInv'
    OBVIOUS
<1>0. TypeInv' /\ \A r \in rfs \cup trash : RowGood(r)
    BY NextTypeInv DEF ParamsInv
<1>. DEFINE Kept == \A q \in rfs' \cup trash' : (\E s \in rfs \cup trash : q.params = s.params)
                                               \/ RowGood(q)
<1>1. Kept
    <2>1. CASE \E u \in Users, x \in Uuids, b \in Names, ps \in ParamInputs,
                  fs \in FileInputs : Create(u, x, b, ps, fs)
        <3>1. PICK u \in Users, x \in Uuids, b \in Names, ps \in ParamInputs,
                   fs \in FileInputs : Create(u, x, b, ps, fs)
            BY <2>1
        <3>2. CASE "" \in fs
            <4>1. PICK y : WriteFormat(u, y, b, ps, 2)
                BY <3>1, <3>2, Zenon DEF Create
            <4>. QED BY <4>1, WriteFormatRows
        <3>3. CASE "" \notin fs
            <4>1. PICK y : WriteFormat(u, y, b, ps, ParamsCode(ps))
                BY <3>1, <3>3, Zenon DEF Create
            <4>. QED BY <4>1, WriteFormatRows, CreatedRowGood
        <3>. QED BY <3>2, <3>3
    <2>2. CASE \E u \in Users, s \in rfs : Copy(u, s)
        <3>1. PICK u \in Users, s \in rfs : Copy(u, s)
            BY <2>2
        <3>2. PICK y : CopyFiles(u, s, y)
            BY <3>1 DEF Copy
        <3>3. RowOK(s) /\ RowGood(s)
            BY <1>0 DEF ParamsInv, TypeInv, TypeOK
        <3>. QED BY <3>2, <3>3, CopiedRowGood DEF CopyFiles
    <2>3. CASE \E u \in Users, r \in rfs, m \in ModifyInputs :
                  Modify(u, r, m[1], m[2], m[3], m[4])
        BY <2>3, ModifyGood
    <2>4. CASE \E u \in Users, r \in rfs : SoftDelete(u, r) \/ DeleteActive(u, r)
        <3>1. PICK u \in Users, r \in rfs : SoftDelete(u, r) \/ DeleteActive(u, r)
            BY <2>4
        <3>2. TrashedRow(u, r, nextTrash).params = r.params
            BY DEF TrashedRow
        <3>. QED BY <3>1, <3>2 DEF SoftDelete, DeleteActive
    <2>5. CASE \E u \in Users, t \in trash, ult \in BOOLEAN : DeleteTrash(u, t, ult)
        BY <2>5 DEF DeleteTrash
    <2>6. CASE \E u \in Users, t \in trash : Restore(u, t)
        <3>1. PICK u \in Users, t \in trash : Restore(u, t)
            BY <2>6
        <3>2. RestoredRow(t).params = t.params
            BY DEF RestoredRow
        <3>. QED BY <3>1, <3>2 DEF Restore
    <2>7. CASE \E u \in Users : EmptyTrash(u)
        BY <2>7 DEF EmptyTrash
    <2>8. CASE Restart
        BY <2>8, RestartGood
    <2>9. CASE UNCHANGED vars
        BY <2>9 DEF vars
    <2>. QED BY <2>1, <2>2, <2>3, <2>4, <2>5, <2>6, <2>7, <2>8, <2>9 DEF Next
<1>. QED BY <1>0, <1>1, GoodFrame DEF ParamsInv

\* Every integer parameter of every active and trashed report format
\* always has its value and its default within the bounds stored with it,
\* for every input: create_report_format stores only what passed
\* validate_param_value, set_report_format_param checks the new value
\* against the bounds of the parameter it updates, and copy, delete,
\* restore and the feed walk carry the parameters over unchanged.
THEOREM IntegerParamsInBounds == Spec => []NonSelectionValid
<1>1. ParamsInv => NonSelectionValid
    BY DEF ParamsInv, RowGood, NonSelectionValid
<1>. QED BY InitParams, NextParams, <1>1, PTL DEF Spec

=============================================================================
