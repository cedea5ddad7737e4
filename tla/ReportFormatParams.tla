------------------------- MODULE ReportFormatParams -------------------------
(***************************************************************************)
(* Report format parameters: the per-parameter checks that                 *)
(* create_report_format makes before it commits, and validate_param_value, *)
(* which create_report_format and set_report_format_param use to accept a  *)
(* value.                                                                  *)
(*                                                                         *)
(* A string that the code reads with strtoll is modelled by the integer it *)
(* spells; StrToLL is strtoll's saturation at the extremes of long long.   *)
(* Selection options are compared with strcmp, so a value and an option    *)
(* are equal exactly when the integers that stand for them are.            *)
(***************************************************************************)
EXTENDS Integers, Sequences, FiniteSets, FiniteSetsExt

CONSTANTS
    IntWidth,     \* bits of long long int (64 in the build)
    NoValue       \* a NULL string: a missing type, bound or default

ASSUME IntWidthAssumption ==
    /\ IntWidth \in Nat /\ IntWidth >= 2
    /\ 2 ^ (IntWidth - 1) \in Nat /\ 2 ^ (IntWidth - 1) >= 2

LLongMin == -(2 ^ (IntWidth - 1))
LLongMax == 2 ^ (IntWidth - 1) - 1

\* strtoll: a number out of range comes back as LLONG_MIN or LLONG_MAX.
StrToLL(n) == IF n < LLongMin THEN LLongMin
              ELSE IF n > LLongMax THEN LLongMax
              ELSE n

\* Type names report_format_param_type_from_name recognises.  "boolean"
\* stands for every type validate_param_value does not check.
KnownTypes == {"integer", "selection", "boolean"}

\* A parameter as create_report_format receives it: a type name that may be
\* missing or not one of KnownTypes ("other"), bounds and a default that
\* may be missing, and the options of a selection.
ParamInput(PNames) ==
    [name : PNames, type : KnownTypes \cup {NoValue, "other"}, value : Int,
     fallback : Int \cup {NoValue}, min : Int \cup {NoValue},
     max : Int \cup {NoValue}, opts : SUBSET Int]

\* A parameter as stored in report_format_params and
\* report_format_param_options.  A missing bound is stored as the sentinel
\* LLONG_MIN / LLONG_MAX.
StoredParam == [type : KnownTypes, value : Int, fallback : Int,
                min : Int, max : Int, opts : SUBSET Int]

\* The row create_report_format inserts for parameter p.
Stored(p) ==
    [type     |-> p.type,
     value    |-> p.value,
     fallback |-> p.fallback,
     min      |-> IF p.min = NoValue THEN LLongMin ELSE StrToLL(p.min),
     max      |-> IF p.max = NoValue THEN LLongMax ELSE StrToLL(p.max),
     opts     |-> p.opts]

\* Mutant: the max bound of an integer is not checked.
ValidWithNoMax(sp, opts, v) ==
    CASE sp.type = "integer"   -> ~(StrToLL(v) < sp.min)
      [] sp.type = "selection" -> v \in opts
      [] OTHER                 -> TRUE

\* validate_param_value: whether value v is acceptable for a parameter of
\* type, bounds sp and the options opts.  The options come from the
\* parameter row the caller looked up, which set_report_format_param does
\* not take from the same report format as the type and the bounds.
ValidWith(sp, opts, v) ==
    CASE sp.type = "integer"   -> /\ ~(StrToLL(v) < sp.min)
                                  /\ ~(StrToLL(v) > sp.max)
      [] sp.type = "selection" -> v \in opts
      [] OTHER                 -> TRUE

ValidValue(sp, v) == ValidWith(sp, sp.opts, v)

\* The checks of the parameter loop of create_report_format, in the order
\* of its early returns; seen is the set of names inserted before p.
ParamError(p, seen) ==
    IF p.type = NoValue THEN 7
    ELSE IF p.type \notin KnownTypes THEN 9
    ELSE IF p.min # NoValue /\ StrToLL(p.min) = LLongMin THEN 6
    ELSE IF p.max # NoValue /\ StrToLL(p.max) = LLongMax THEN 6
    ELSE IF p.fallback = NoValue THEN 5
    ELSE IF p.name \in seen THEN 8
    ELSE IF ~ValidValue(Stored(p), p.value) THEN 3
    ELSE IF ~ValidValue(Stored(p), p.fallback) THEN 4
    ELSE 0

NamesBefore(ps, i) == {ps[j].name : j \in 1 .. i - 1}

\* The result of the whole loop: the code of the first parameter that
\* fails, 0 when all pass.
ParamsCode(ps) ==
    LET failing == {i \in 1 .. Len(ps) : ParamError(ps[i], NamesBefore(ps, i)) # 0}
    IN  IF failing = {} THEN 0
        ELSE ParamError(ps[Min(failing)], NamesBefore(ps, Min(failing)))

\* The parameters of a report format created from the input ps.
StoredParams(ps) ==
    [n \in {ps[i].name : i \in 1 .. Len(ps)} |->
        Stored(ps[CHOOSE i \in 1 .. Len(ps) : ps[i].name = n])]

=============================================================================
