--------------------------- MODULE MC_ReportFormats ---------------------------
(***************************************************************************)
(* Small instances of ReportFormats for TLC.  long long int is 3 bits wide *)
(* (-4 .. 3), so the strtoll sentinels are reachable with small numbers.   *)
(***************************************************************************)
EXTENDS ReportFormats, TLC

CONSTANTS u1, u2, x1, x2, x3

MCUsers == {u1, u2}
MCUuids == {x1, x2, x3}
MCPredefined == {x1}

\* An integer parameter "p" in 0 .. 1, and inputs that trip the checks of
\* the parameter loop: a default out of range (4), a bound at the
\* sentinel (6) and a duplicate name (8).
IntParam(v, d, lo) ==
    [name |-> "p", type |-> "integer", value |-> v, fallback |-> d,
     min |-> lo, max |-> 1, opts |-> {}]
SelParam(v, os) ==
    [name |-> "p", type |-> "selection", value |-> v, fallback |-> v,
     min |-> NoValue, max |-> NoValue, opts |-> os]

MCParamInputs == {<<>>, <<IntParam(1, 0, 0)>>, <<IntParam(1, 3, 0)>>,
                  <<IntParam(0, 0, -4)>>, <<IntParam(0, 0, 0), IntParam(1, 1, 0)>>}
MCSelParamInputs == {<<>>, <<SelParam(1, {0, 1})>>}
\* Two formats with a selection parameter "p" of different options.
MCForeignSelInputs == {<<SelParam(0, {0})>>, <<SelParam(3, {3})>>}
\* The same, and a format without parameters.
MCModifyParamInputs == MCForeignSelInputs \cup {<<>>}

\* The smaller instance for the runs with every failure enabled.
MCOneUser == {u1}
MCFewParamInputs == {<<>>, <<IntParam(1, 0, 0)>>}

MCFileInputs == {{"f"}, {"", "f"}}
MCModifyValues == {0, 3}
MCModifyNames == {<<"n", 1>>}

MCLiveRefs == {<<x2, "other">>}
MCTrashRefs == {<<x3, "notice">>}
MCTrashScpRefs == {<<x3, "other">>}
\* A live alert that attaches the predefined format.
MCFeedLiveRefs == {<<x1, "notice">>}

MCSafeFailures == {"mkdir", "rename", "trashloss"}
MCAllFailures == FailureKinds

MCSymmetry == Permutations(MCUsers)
=============================================================================
