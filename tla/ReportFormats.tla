---------------------------- MODULE ReportFormats ----------------------------
(***************************************************************************)
(* The report format lifecycle of manage_sql_report_formats.c: the rows of *)
(* report_formats and report_formats_trash (with their parameters) and the *)
(* directories that hold each format's files, kept by create, copy,        *)
(* modify, delete (to the trash or for good), restore and empty-trash, and *)
(* the startup checks that repair the trash.                               *)
(*                                                                         *)
(* Every handler runs in one exclusive transaction, so one handler is one  *)
(* step; the file system operations happen inside the transaction, before *)
(* the commit.  A failing file system call, and a crash of the process     *)
(* after the disk changed and before the commit, are alternatives of the   *)
(* step, enabled by the kinds listed in Failures.  A crash rolls back the  *)
(* repository and keeps the disk as it was at the crash.                   *)
(*                                                                         *)
(* A directory is abstracted to its state: absent ("none"), created with   *)
(* no files ("empty"), holding some but not all of its files ("partial")   *)
(* or holding all of them ("intact").                                      *)
(***************************************************************************)
EXTENDS ReportFormatParams

CONSTANTS
    Users,          \* user uuids
    Uuids,          \* report format uuids: given to create, or minted
    Predefined,     \* uuids of the formats the feed installed
    Names,          \* names a caller gives to create
    MaxNameSuffix,  \* bound on the "<name> <n>" loop of create
    MaxTrashId,     \* bound on the ids of report_formats_trash
    ParamNames,     \* parameter names
    ParamInputs,    \* parameter lists given to create
    FileInputs,     \* sets of file names given to create
    ModifyNames,    \* names given to modify
    ModifyValues,   \* parameter values given to modify
    ModifyMarks,    \* predefined marks given to modify
    LiveRefs,       \* <<uuid, method>> of the alerts that are not in the trash
    TrashRefs,      \* <<uuid, method>> of the alerts in the trash
    Failures,       \* the kinds of failure that may happen
    FeedStates,     \* states the feed may leave a predefined directory in
    NoOwner         \* owner of a predefined format (NULL)

Methods == {"notice", "other"}
FailureKinds == {"mkdir", "chmod", "rename", "xdev", "write", "remove", "crash",
                 "trashloss"}
NameSpace == Names \X (1 .. MaxNameSuffix)

ASSUME ConstantsAssumption ==
    /\ Predefined \subseteq Uuids
    /\ MaxNameSuffix \in Nat \ {0}
    /\ MaxTrashId \in Nat
    /\ NoOwner \notin Users
    /\ Names # {}
    /\ ModifyNames \subseteq NameSpace
    /\ LiveRefs \subseteq Uuids \X Methods
    /\ TrashRefs \subseteq Uuids \X Methods
    /\ Failures \subseteq FailureKinds
    /\ FeedStates \subseteq {"none", "partial", "intact"}
    /\ ParamInputs \subseteq Seq(ParamInput(ParamNames))
    /\ ModifyValues \subseteq Int
    /\ ModifyMarks \subseteq BOOLEAN
    /\ NoValue \notin NameSpace \cup BOOLEAN \cup Int

-----------------------------------------------------------------------------
(* The directory tree. *)

OwnerPath(u, x) == <<"owner", u, x>>
\* GVMD_STATE_DIR/report_formats_trash/<trash row id>  (report_format_trash_dir)
TrashPath(t) == <<"trash", t>>
\* predefined_report_format_dir (<format uuid>)
FeedPath(x) == <<"feed", x>>

OwnerPaths == {OwnerPath(u, x) : u \in Users, x \in Uuids}
TrashPaths == {TrashPath(t) : t \in 1 .. MaxTrashId}
Paths == OwnerPaths \cup TrashPaths \cup {FeedPath(x) : x \in Uuids}
DirStates == {"none", "empty", "partial", "intact"}

\* What is left of a directory when a removal or a move out of it fails
\* part way through.
Damaged(s) == IF s = "empty" THEN "empty" ELSE "partial"

\* The states a directory in state s may be left in by the best-effort
\* gvm_file_remove_recurse of a failure branch.
Cleaned(s) == {"none"} \cup (IF "remove" \in Failures /\ s # "none"
                              THEN {Damaged(s)} ELSE {})

-----------------------------------------------------------------------------
(* The repository. *)

\* Rows whose parameters have the names D.
Row(D) == [uuid : Uuids, owner : Users \cup {NoOwner}, name : NameSpace,
           predefined : BOOLEAN, active : BOOLEAN, params : [D -> StoredParam]]

TrashRow(D) == [id : 1 .. MaxTrashId, orig : Uuids, owner : Users,
                name : NameSpace, active : BOOLEAN, params : [D -> StoredParam]]

\* A row of report_formats, of report_formats_trash.
RowOK(r) == DOMAIN r.params \subseteq ParamNames /\ r \in Row(DOMAIN r.params)
TrashRowOK(t) == DOMAIN t.params \subseteq ParamNames
                 /\ t \in TrashRow(DOMAIN t.params)

Ops == {"init", "create", "copy", "modify", "delete", "restore",
        "empty_trash", "restart"}
\* The outcome of a handler: its return code, or one of two outcomes with no
\* return code, a crash of the process before the commit and an abort()
\* (sql_int finding no row).
Crashed == -100
Aborted == -101
Codes == (-1 .. 99) \cup {Crashed, Aborted}

VARIABLES
    rfs,        \* rows of report_formats (with their params and options)
    trash,      \* rows of report_formats_trash
    nextTrash,  \* next id of the report_formats_trash sequence
    trashRoot,  \* whether GVMD_STATE_DIR/report_formats_trash exists
    disk,       \* state of every report format directory
    used,       \* uuids in use or ever minted (gvm_uuid_make never repeats)
    last        \* the last handler, its result code and its modify arguments

vars == <<rfs, trash, nextTrash, trashRoot, disk, used, last>>

ActiveUuids == {r.uuid : r \in rfs}
TrashOrigs == {t.orig : t \in trash}
OwnedNames(u) == {r.name : r \in {s \in rfs : s.owner = u}}
LiveRefUuids == {ref[1] : ref \in LiveRefs}
TrashRefUuids == {ref[1] : ref \in TrashRefs}

\* Mutant: report_format_in_use counts only the notice methods.
ReportFormatInUseNoticeOnly(x) ==
    x \in {ref[1] : ref \in {f \in LiveRefs : f[2] = "notice"}}

\* report_format_in_use: a live alert uses the format in one of its methods.
ReportFormatInUse(x) == x \in LiveRefUuids

\* trash_report_format_in_use: an alert in the trash uses the format.
TrashReportFormatInUse(x) == x \in TrashRefUuids

\* The trash check of the ultimate delete of an active format: only the
\* notice_attach_format and notice_report_format methods are counted.
TrashNoticeInUse(x) ==
    x \in {ref[1] : ref \in {f \in TrashRefs : f[2] = "notice"}}

\* Mutant: the collision check forgets report_formats_trash.
UuidInUseActiveOnly(x) == x \in ActiveUuids

\* The collision check of create_report_format: an active format has the
\* uuid, or a trashed one has it as its original uuid.
UuidInUse(x) == x \in ActiveUuids \cup TrashOrigs

\* The directory of an active row: run_report_format_script takes the feed
\* directory of a format marked predefined, whoever owns it.
RowPath(r) == IF r.predefined THEN FeedPath(r.uuid)
              ELSE OwnerPath(r.owner, r.uuid)

Finish(op, code) == last' = [op |-> op, code |-> code, arg |-> NoValue]

-----------------------------------------------------------------------------
(* Names: resource_with_name_exists and the suffix loop of create. *)

\* resource_with_name_exists (name, "report_format", 0): a format of the
\* current user has the name.
NameTaken(u, n) == n \in OwnedNames(u)

\* The candidates the loop tries: "<name>", "<name> 2", "<name> 3", ...
FreeSuffixes(u, base) ==
    {k \in 1 .. MaxNameSuffix : ~NameTaken(u, <<base, k>>)}

\* Mutant: the name loop is skipped.
CandidateNameNoLoop(u, base) == <<base, 1>>

CandidateName(u, base) == <<base, Min(FreeSuffixes(u, base))>>

FeedRow(x) ==
    [uuid |-> x, owner |-> NoOwner, name |-> <<CHOOSE n \in Names : TRUE, 1>>,
     predefined |-> TRUE, active |-> TRUE, params |-> [n \in {} |-> 0]]

Init ==
    /\ rfs = {FeedRow(x) : x \in Predefined}
    /\ trash = {}
    /\ nextTrash = 1
    /\ trashRoot = FALSE
    /\ disk = [p \in Paths |-> IF p \in {FeedPath(x) : x \in Predefined}
                                THEN "intact" ELSE "none"]
    /\ used = Predefined
    /\ last = [op |-> "init", code |-> 0, arg |-> NoValue]

-----------------------------------------------------------------------------
(***************************************************************************)
(* create_report_format by user u of a format with the given uuid x, name  *)
(* base, parameter list ps and file names fs.  A uuid that an active row   *)
(* or a trashed row's original uuid already has is replaced by a fresh one.*)
(* The directory is emptied, created, chmod-ed and filled before the rows  *)
(* are inserted; a file with an empty name (2) or a failing parameter      *)
(* check (3..9) removes the directory and rolls back.                      *)
(***************************************************************************)
\* The row create_report_format inserts: flags 0, so not active.
CreatedRow(u, y, base, ps) ==
    [uuid |-> y, owner |-> u, name |-> CandidateName(u, base),
     predefined |-> FALSE, active |-> FALSE, params |-> StoredParams(ps)]

\* The part of create_report_format after the uuid y is chosen, with the
\* result code of the file and parameter checks: the directory is emptied,
\* created, chmod-ed and filled, then the rows are inserted.
WriteFormat(u, y, base, ps, code) ==
    LET p == OwnerPath(u, y)
    IN
    /\ used' = used \cup {y}
    /\ UNCHANGED <<trash, nextTrash, trashRoot>>
    /\ \/ \* removing a leftover directory fails
          /\ disk[p] # "none" /\ "remove" \in Failures
          /\ disk' = [disk EXCEPT ![p] = Damaged(@)]
          /\ UNCHANGED rfs /\ Finish("create", -1)
       \/ \* g_mkdir_with_parents fails
          /\ "mkdir" \in Failures
          /\ disk' = [disk EXCEPT ![p] = "none"]
          /\ UNCHANGED rfs /\ Finish("create", -1)
       \/ \* chmod of the new directory fails: it is left behind
          /\ "chmod" \in Failures
          /\ disk' = [disk EXCEPT ![p] = "empty"]
          /\ UNCHANGED rfs /\ Finish("create", -1)
       \/ \* an empty file name, or writing a file fails
          /\ code = 2 \/ "write" \in Failures
          /\ \E s \in Cleaned("partial") : disk' = [disk EXCEPT ![p] = s]
          /\ UNCHANGED rfs /\ Finish("create", IF code = 2 THEN 2 ELSE -1)
       \/ \* a parameter check fails after the files are written
          /\ code \notin {0, 2}
          /\ \E s \in Cleaned("intact") : disk' = [disk EXCEPT ![p] = s]
          /\ UNCHANGED rfs /\ Finish("create", code)
       \/ \* crash after the files are written, before the commit
          /\ code = 0 /\ "crash" \in Failures
          /\ disk' = [disk EXCEPT ![p] = "intact"]
          /\ UNCHANGED rfs /\ Finish("create", Crashed)
       \/ /\ code = 0
          /\ disk' = [disk EXCEPT ![p] = "intact"]
          /\ rfs' = rfs \cup {CreatedRow(u, y, base, ps)}
          /\ Finish("create", 0)

Create(u, x, base, ps, fs) ==
    /\ FreeSuffixes(u, base) # {}
    /\ \E y \in (IF UuidInUse(x) THEN Uuids \ used ELSE {x}) :
          WriteFormat(u, y, base, ps, IF "" \in fs THEN 2 ELSE ParamsCode(ps))

(***************************************************************************)
(* copy_report_format by user u of the format s: copy_resource_lock        *)
(* inserts a row with a fresh uuid, then the parameters are copied (their  *)
(* options are not) and the files are copied from the source directory.   *)
(***************************************************************************)
CopiedParams(m) == [n \in DOMAIN m |-> [m[n] EXCEPT !.opts = {}]]

\* The source directory: the feed directory when the source is marked
\* predefined, else the owner's directory.
CopySource(s) == IF s.predefined THEN FeedPath(s.uuid)
                 ELSE OwnerPath(s.owner, s.uuid)

\* The row copy_resource_lock and the parameter copy insert.
CopiedRow(u, s, y) ==
    [uuid |-> y, owner |-> u, name |-> CandidateName(u, s.name[1]),
     predefined |-> FALSE, active |-> s.active,
     params |-> CopiedParams(s.params)]

\* The part of copy_report_format after copy_resource_lock minted the uuid
\* y: the directory of the copy is emptied, created, chmod-ed and filled
\* from the source directory.
CopyFiles(u, s, y) ==
    LET src == CopySource(s)
        c   == OwnerPath(u, y)
    IN
    /\ used' = used \cup {y}
    /\ UNCHANGED <<trash, nextTrash, trashRoot>>
    /\ \/ \* the source directory is missing
          /\ disk[src] = "none"
          /\ UNCHANGED <<rfs, disk>> /\ Finish("copy", -1)
       \/ /\ disk[src] # "none"
          /\ \/ /\ disk[c] # "none" /\ "remove" \in Failures
                /\ disk' = [disk EXCEPT ![c] = Damaged(@)]
                /\ UNCHANGED rfs /\ Finish("copy", -1)
             \/ /\ "mkdir" \in Failures
                /\ disk' = [disk EXCEPT ![c] = "none"]
                /\ UNCHANGED rfs /\ Finish("copy", -1)
             \/ \* chmod fails, or copying a file fails: no cleanup
                /\ \E s2 \in (IF "chmod" \in Failures THEN {"empty"} ELSE {})
                             \cup (IF "write" \in Failures THEN {"empty", "partial"}
                                   ELSE {}) :
                       disk' = [disk EXCEPT ![c] = s2]
                /\ UNCHANGED rfs /\ Finish("copy", -1)
             \/ /\ "crash" \in Failures
                /\ disk' = [disk EXCEPT ![c] = disk[src]]
                /\ UNCHANGED rfs /\ Finish("copy", Crashed)
             \/ /\ disk' = [disk EXCEPT ![c] = disk[src]]
                /\ rfs' = rfs \cup {CopiedRow(u, s, y)}
                /\ Finish("copy", 0)

Copy(u, s) ==
    /\ s \in rfs
    /\ s.owner \in {u, NoOwner}
    /\ FreeSuffixes(u, s.name[1]) # {}
    /\ \E y \in Uuids \ used : CopyFiles(u, s, y)

(***************************************************************************)
(* modify_report_format by user u of its format r.  Name, active flag and  *)
(* predefined mark are updated and committed; then, if a parameter is      *)
(* given, set_report_format_param runs in a transaction of its own.  It    *)
(* looks the parameter up by name in every format, takes the type and the  *)
(* bounds from format r but the options from the row it found, and updates *)
(* the row of r with that name.  When r has no such parameter the type     *)
(* query of report_format_param_type finds no row, and sql_int aborts the  *)
(* process after the fields were committed.                                *)
(***************************************************************************)
\* Mutant: the fields are set whether or not they were given.
ModifiedFieldsUnguarded(r, nm, act, pred) ==
    [r EXCEPT !.name = nm, !.active = act, !.predefined = pred]

\* The updates of name, active flag and predefined mark, each only when
\* given (set_report_format_name, set_report_format_active,
\* resource_set_predefined).
ModifiedFields(r, nm, act, pred) ==
    [r EXCEPT !.name       = IF nm = NoValue THEN @ ELSE nm,
              !.active     = IF act = NoValue THEN @ ELSE act,
              !.predefined = IF pred = NoValue THEN @ ELSE pred]

\* The parameter row set_report_format_param looks up by name alone, in
\* any report format.
ParamHolders(rs, n) == {q \in rs : n \in DOMAIN q.params}

Modify(u, r, nm, act, pred, prm) ==
    LET r1   == ModifiedFields(r, nm, act, pred)
        rfs1 == (rfs \ {r}) \cup {r1}
        done(code) == last' = [op |-> "modify", code |-> code,
                               arg |-> IF prm = NoValue THEN NoValue
                                       ELSE <<r.uuid, prm[1], prm[2]>>]
    IN
    /\ r \in rfs
    /\ r.owner = u
    /\ UNCHANGED <<trash, nextTrash, trashRoot, disk, used>>
    /\ \/ /\ prm = NoValue
          /\ rfs' = rfs1 /\ done(0)
       \/ /\ prm # NoValue
          /\ ParamHolders(rfs1, prm[1]) = {}
          /\ rfs' = rfs1 /\ done(3)
       \/ /\ prm # NoValue
          /\ \E h \in ParamHolders(rfs1, prm[1]) :
               IF prm[1] \notin DOMAIN r1.params
               THEN rfs' = rfs1 /\ done(Aborted)
               ELSE IF ValidWith(r1.params[prm[1]], h.params[prm[1]].opts, prm[2])
                    THEN /\ rfs' = (rfs \ {r})
                                   \cup {[r1 EXCEPT !.params[prm[1]].value = prm[2]]}
                         /\ done(0)
                    ELSE rfs' = rfs1 /\ done(4)

(***************************************************************************)
(* move_report_format_dir (src, dst): rename, or across devices a move of  *)
(* each entry; it fails when src is missing or the rename fails.  ok says  *)
(* whether it succeeded.                                                   *)
(***************************************************************************)
\* Mutant: the result of rename is not checked.
MoveDirUncheckedRename(src, dst, ok) ==
    \/ /\ ~ok /\ disk[src] = "none" /\ UNCHANGED disk
    \/ /\ ok /\ disk[src] # "none" /\ disk[dst] \in {"none", "empty"}
       /\ disk' = [disk EXCEPT ![dst] = disk[src], ![src] = "none"]
    \/ /\ ok /\ disk[src] # "none" /\ "rename" \in Failures
       /\ UNCHANGED disk

\* Mutant: the source is not removed after the move.
MoveDirKeepsSource(src, dst, ok) ==
    \/ /\ ~ok /\ disk[src] = "none" /\ UNCHANGED disk
    \/ /\ ok /\ disk[src] # "none" /\ disk[dst] \in {"none", "empty"}
       /\ disk' = [disk EXCEPT ![dst] = disk[src]]
    \/ /\ ~ok /\ disk[src] # "none"
       /\ disk[dst] \notin {"none", "empty"} \/ "rename" \in Failures
       /\ UNCHANGED disk

MoveDir(src, dst, ok) ==
    \/ /\ ~ok /\ disk[src] = "none"
       /\ UNCHANGED disk
    \/ /\ ok /\ disk[src] # "none" /\ disk[dst] \in {"none", "empty"}
       /\ disk' = [disk EXCEPT ![dst] = disk[src], ![src] = "none"]
    \/ /\ ~ok /\ disk[src] # "none"
       /\ disk[dst] \notin {"none", "empty"} \/ "rename" \in Failures
       /\ UNCHANGED disk
    \/ \* EXDEV, and moving one of the entries fails
       /\ ~ok /\ disk[src] # "none" /\ "xdev" \in Failures
       /\ disk' = [disk EXCEPT ![dst] = "partial", ![src] = Damaged(disk[src])]
    \/ \* EXDEV, all entries moved, the unchecked removal of src fails
       /\ ok /\ disk[src] # "none" /\ disk[dst] \in {"none", "empty"}
       /\ {"xdev", "remove"} \subseteq Failures
       /\ disk' = [disk EXCEPT ![dst] = disk[src], ![src] = Damaged(disk[src])]

(***************************************************************************)
(* delete_report_format (uuid of r, 0) by user u: move an active format to *)
(* the trash.  The trash row is inserted (taking an id of the sequence,    *)
(* which a rollback does not give back), the rows are deleted and the      *)
(* directory is moved last.                                                *)
(***************************************************************************)
\* The report_formats_trash row of a soft delete (id from the sequence).
TrashedRow(u, r, id) ==
    [id |-> id, orig |-> r.uuid, owner |-> u, name |-> r.name,
     active |-> r.active, params |-> r.params]

\* Mutant: a rolled back delete gives its trash id back.
SoftDeleteReusingId(u, r) ==
    LET t == TrashedRow(u, r, nextTrash)
    IN
    /\ r \in rfs /\ r.owner = u /\ ~r.predefined /\ ~ReportFormatInUse(r.uuid)
    /\ nextTrash <= MaxTrashId
    /\ UNCHANGED used
    /\ trashRoot' = TRUE
    /\ \E ok \in BOOLEAN :
         /\ MoveDir(OwnerPath(u, r.uuid), TrashPath(nextTrash), ok)
         /\ nextTrash' = IF ok THEN nextTrash + 1 ELSE nextTrash
         /\ IF ok THEN rfs' = rfs \ {r} /\ trash' = trash \cup {t}
                   /\ Finish("delete", 0)
                 ELSE UNCHANGED <<rfs, trash>> /\ Finish("delete", -1)

SoftDelete(u, r) ==
    LET t == TrashedRow(u, r, nextTrash)
    IN
    /\ r \in rfs
    /\ r.owner = u
    /\ UNCHANGED used
    /\ \/ /\ r.predefined
          /\ UNCHANGED <<rfs, trash, nextTrash, trashRoot, disk>>
          /\ Finish("delete", 3)
       \/ /\ ~r.predefined /\ ReportFormatInUse(r.uuid)
          /\ UNCHANGED <<rfs, trash, nextTrash, trashRoot, disk>>
          /\ Finish("delete", 1)
       \/ /\ ~r.predefined /\ ~ReportFormatInUse(r.uuid)
          /\ ~trashRoot /\ "mkdir" \in Failures
          /\ UNCHANGED <<rfs, trash, nextTrash, trashRoot, disk>>
          /\ Finish("delete", -1)
       \/ /\ ~r.predefined /\ ~ReportFormatInUse(r.uuid)
          /\ nextTrash <= MaxTrashId
          /\ trashRoot' = TRUE
          /\ nextTrash' = nextTrash + 1
          /\ \E ok \in BOOLEAN :
               /\ MoveDir(OwnerPath(u, r.uuid), TrashPath(nextTrash), ok)
               /\ \/ /\ ok
                     /\ rfs' = rfs \ {r} /\ trash' = trash \cup {t}
                     /\ Finish("delete", 0)
                  \/ /\ ~ok
                     /\ UNCHANGED <<rfs, trash>> /\ Finish("delete", -1)
                  \/ \* crash after the move, before the commit
                     /\ ok /\ "crash" \in Failures
                     /\ UNCHANGED <<rfs, trash>> /\ Finish("delete", Crashed)

(***************************************************************************)
(* delete_report_format (uuid of r, 1) by user u: remove an active format  *)
(* for good.  Refused for a predefined format, for one a trashed alert     *)
(* uses as notice_attach_format or notice_report_format, and for one a     *)
(* live alert uses.  The directory is removed before the rows.             *)
(***************************************************************************)
DeleteActive(u, r) ==
    LET p == OwnerPath(u, r.uuid)
    IN
    /\ r \in rfs
    /\ r.owner = u
    /\ UNCHANGED <<trash, nextTrash, trashRoot, used>>
    /\ \/ /\ r.predefined
          /\ UNCHANGED <<rfs, disk>> /\ Finish("delete", 3)
       \/ /\ ~r.predefined
          /\ (TrashNoticeInUse(r.uuid) \/ ReportFormatInUse(r.uuid))
          /\ UNCHANGED <<rfs, disk>> /\ Finish("delete", 1)
       \/ /\ ~r.predefined
          /\ ~TrashNoticeInUse(r.uuid) /\ ~ReportFormatInUse(r.uuid)
          /\ \/ /\ disk[p] # "none" /\ "remove" \in Failures
                /\ disk' = [disk EXCEPT ![p] = Damaged(@)]
                /\ UNCHANGED rfs /\ Finish("delete", -1)
             \/ /\ disk' = [disk EXCEPT ![p] = "none"]
                /\ rfs' = rfs \ {r} /\ Finish("delete", 0)
             \/ /\ "crash" \in Failures
                /\ disk' = [disk EXCEPT ![p] = "none"]
                /\ UNCHANGED rfs /\ Finish("delete", Crashed)

(***************************************************************************)
(* delete_report_format (trash uuid of t, ultimate) by user u.  A format   *)
(* already in the trash is left there when ultimate is 0; with ultimate 1  *)
(* it is removed unless a trashed alert uses it: rows first, then the      *)
(* directory, then the signature link.                                     *)
(***************************************************************************)
DeleteTrash(u, t, ultimate) ==
    LET p == TrashPath(t.id)
    IN
    /\ t \in trash
    /\ t.owner = u
    /\ UNCHANGED <<rfs, nextTrash, trashRoot, used>>
    /\ \/ /\ ~ultimate
          /\ UNCHANGED <<trash, disk>> /\ Finish("delete", 0)
       \/ /\ ultimate /\ TrashReportFormatInUse(t.orig)
          /\ UNCHANGED <<trash, disk>> /\ Finish("delete", 1)
       \/ /\ ultimate /\ ~TrashReportFormatInUse(t.orig)
          /\ \/ /\ disk[p] # "none" /\ "remove" \in Failures
                /\ disk' = [disk EXCEPT ![p] = Damaged(@)]
                /\ UNCHANGED trash /\ Finish("delete", -1)
             \/ /\ disk' = [disk EXCEPT ![p] = "none"]
                /\ trash' = trash \ {t} /\ Finish("delete", 0)
             \/ /\ "crash" \in Failures
                /\ disk' = [disk EXCEPT ![p] = "none"]
                /\ UNCHANGED trash /\ Finish("delete", Crashed)

(***************************************************************************)
(* restore_report_format (trash uuid of t) by user u.  Refused when u has  *)
(* an active format of that name (3) or an active format has the original *)
(* uuid (4); else the row is inserted under its original uuid, the trash   *)
(* rows are deleted and the directory is moved back last.                  *)
(***************************************************************************)
\* The row restore_report_format inserts, under the original uuid.
RestoredRow(t) ==
    [uuid |-> t.orig, owner |-> t.owner, name |-> t.name,
     predefined |-> FALSE, active |-> t.active, params |-> t.params]

Restore(u, t) ==
    LET row == RestoredRow(t)
    IN
    /\ t \in trash
    /\ t.owner = u
    /\ UNCHANGED <<nextTrash, trashRoot, used>>
    /\ \/ /\ NameTaken(u, t.name)
          /\ UNCHANGED <<rfs, trash, disk>> /\ Finish("restore", 3)
       \/ /\ ~NameTaken(u, t.name) /\ t.orig \in ActiveUuids
          /\ UNCHANGED <<rfs, trash, disk>> /\ Finish("restore", 4)
       \/ /\ ~NameTaken(u, t.name) /\ t.orig \notin ActiveUuids
          /\ \E ok \in BOOLEAN :
               /\ MoveDir(TrashPath(t.id), OwnerPath(t.owner, t.orig), ok)
               /\ \/ /\ ok
                     /\ rfs' = rfs \cup {row} /\ trash' = trash \ {t}
                     /\ Finish("restore", 0)
                  \/ /\ ~ok
                     /\ UNCHANGED <<rfs, trash>> /\ Finish("restore", -1)
                  \/ /\ ok /\ "crash" \in Failures
                     /\ UNCHANGED <<rfs, trash>> /\ Finish("restore", Crashed)

(***************************************************************************)
(* empty_trashcan_report_formats for user u: delete all of u's trash rows, *)
(* then remove their directories one by one.  When a removal fails the     *)
(* rows are rolled back, but the directories removed before it stay gone. *)
(***************************************************************************)
\* The disk once the trash directories of the ids g are removed.
RemovedTrashDirs(g) == [p \in Paths |-> IF \E i \in g : p = TrashPath(i)
                                        THEN "none" ELSE disk[p]]

\* The ids of the trash rows of user u.
OwnTrashIds(u) == {t.id : t \in {s \in trash : s.owner = u}}

EmptyTrash(u) ==
    LET mine == {t \in trash : t.owner = u}
        ids  == OwnTrashIds(u)
    IN
    /\ UNCHANGED <<rfs, nextTrash, trashRoot, used>>
    /\ \/ /\ disk' = RemovedTrashDirs(ids)
          /\ trash' = trash \ mine /\ Finish("empty_trash", 0)
       \/ /\ "remove" \in Failures
          /\ \E g \in SUBSET ids, f \in ids :
               /\ f \notin g /\ disk[TrashPath(f)] # "none"
               /\ disk' = [RemovedTrashDirs(g) EXCEPT ![TrashPath(f)] = Damaged(@)]
          /\ UNCHANGED trash /\ Finish("empty_trash", -1)
       \/ /\ "crash" \in Failures
          /\ \E g \in SUBSET ids : disk' = RemovedTrashDirs(g)
          /\ UNCHANGED trash /\ Finish("empty_trash", Crashed)

(***************************************************************************)
(* Startup: check_db_report_formats runs check_db_trash_report_formats,    *)
(* which deletes every trash row when the trash directory is missing, then *)
(* reconciles the formats without owner with the feed directories;         *)
(* check_db_report_formats_trash then removes each trash directory that no *)
(* trash row has.  The uuid migrations of check_db_report_formats are left *)
(* out: their old uuids are never minted, and make_report_format_uuids_    *)
(* unique finds no duplicate in a repository where IdentitiesUnique holds. *)
(***************************************************************************)
\* The disk as the daemon finds it when it starts: while it was stopped the
\* feed may have removed, replaced or added the directory of a predefined
\* format (f gives the state it left each one in: "partial" is a descriptor
\* that cannot be read or parsed), and GVMD_STATE_DIR/report_formats_trash
\* may have been lost with everything under it.
StartupDisk(lost, f) ==
    [p \in Paths |-> IF lost /\ p \in TrashPaths THEN "none"
                     ELSE IF p \in {FeedPath(x) : x \in Predefined} THEN f[p[2]]
                     ELSE disk[p]]

\* Whether the trash directory may be lost while the daemon is stopped.
LossChoices == {l \in BOOLEAN : l => "trashloss" \in Failures}

\* Mutant: the trash rows are kept when the trash directory is missing.
CheckedTrashKeepsRows(root) == trash

\* check_db_trash_report_formats: the trash rows that survive startup when
\* the trash directory exists (root) or not.
CheckedTrash(root) == IF root THEN trash ELSE {}

\* check_report_format_create on the row r of a uuid the feed has: the
\* UPDATE sets owner NULL, the descriptor's name and the ACTIVE flag, and
\* resource_set_predefined marks it, whoever owned it.  The parameters
\* become the descriptor's only where report_format_params_check held the
\* old ones, which it does for rows that had no owner; the descriptors of
\* the model carry no parameters, so a row that had an owner keeps its own.
FeedUpdated(r) ==
    [r EXCEPT !.owner = NoOwner, !.name = FeedRow(r.uuid).name,
              !.predefined = TRUE, !.active = TRUE,
              !.params = IF r.owner = NoOwner THEN FeedRow(r.uuid).params ELSE @]

\* Mutant: the formats the feed no longer has are kept.
FeedSyncedKeepsStale(ok) ==
    {FeedUpdated(r) : r \in {s \in rfs : s.uuid \in ok}}
    \cup {r \in rfs : r.uuid \notin ok}
    \cup {FeedRow(x) : x \in ok \ ActiveUuids}

\* Mutant: the walk only updates, never inserts a format new to the feed.
FeedSyncedUpdateOnly(ok) ==
    {FeedUpdated(r) : r \in {s \in rfs : s.uuid \in ok}}
    \cup {r \in rfs : r.owner # NoOwner /\ r.uuid \notin ok}

\* check_db_report_formats after the trash check: check_report_format for
\* each feed directory whose descriptor reads (ok) updates the row of that
\* uuid or inserts one; the rows that had no owner and were not kept in
\* report_formats_check are deleted, whether an alert uses them or not.
FeedSynced(ok) ==
    {FeedUpdated(r) : r \in {s \in rfs : s.uuid \in ok}}
    \cup {r \in rfs : r.owner # NoOwner /\ r.uuid \notin ok}
    \cup {FeedRow(x) : x \in ok \ ActiveUuids}

\* check_db_report_formats_trash: p is a trash directory of d that no trash
\* row of tr has.
OrphanTrashDir(d, tr, p) ==
    p \in TrashPaths /\ d[p] # "none" /\ ~\E t \in tr : p = TrashPath(t.id)

\* The uuids of the feed whose descriptor check_report_format can read in d.
FeedOk(d) == {x \in Predefined : d[FeedPath(x)] = "intact"}

\* The startup checks on the disk the daemon finds (see StartupDisk).
StartupChecks(lost, f) ==
    LET disk0  == StartupDisk(lost, f)
        trash1 == CheckedTrash(trashRoot /\ ~lost)
    IN
    /\ trash' = trash1
    /\ trashRoot' = (trashRoot /\ ~lost)
    /\ rfs' = FeedSynced(FeedOk(disk0))
    /\ \/ /\ disk' = [p \in Paths |-> IF OrphanTrashDir(disk0, trash1, p) THEN "none"
                                       ELSE disk0[p]]
          /\ Finish("restart", 0)
       \/ \* a removal fails: check_db_report_formats_trash stops there
          /\ "remove" \in Failures
          /\ \E g \in SUBSET {p \in Paths : OrphanTrashDir(disk0, trash1, p)}, h \in Paths :
               /\ OrphanTrashDir(disk0, trash1, h) /\ h \notin g
               /\ disk' = [p \in Paths |-> IF p \in g THEN "none"
                                           ELSE IF p = h THEN Damaged(disk0[p])
                                           ELSE disk0[p]]
          /\ Finish("restart", -1)
    /\ UNCHANGED <<nextTrash, used>>

Restart ==
    \E lost \in LossChoices, f \in [Predefined -> FeedStates] : StartupChecks(lost, f)

-----------------------------------------------------------------------------

ModifyInputs == (ModifyNames \cup {NoValue}) \X {NoValue, TRUE, FALSE}
                \X ({NoValue} \cup ModifyMarks)
                \X ({NoValue} \cup (ParamNames \X ModifyValues))

Next ==
    \/ \E u \in Users, x \in Uuids, b \in Names, ps \in ParamInputs,
          fs \in FileInputs : Create(u, x, b, ps, fs)
    \/ \E u \in Users, s \in rfs : Copy(u, s)
    \/ \E u \in Users, r \in rfs, m \in ModifyInputs :
          Modify(u, r, m[1], m[2], m[3], m[4])
    \/ \E u \in Users, r \in rfs : SoftDelete(u, r) \/ DeleteActive(u, r)
    \/ \E u \in Users, t \in trash, ult \in BOOLEAN : DeleteTrash(u, t, ult)
    \/ \E u \in Users, t \in trash : Restore(u, t)
    \/ \E u \in Users : EmptyTrash(u)
    \/ Restart

Spec == Init /\ [][Next]_vars

-----------------------------------------------------------------------------
(* Properties. *)

TypeOK ==
    /\ \A r \in rfs : RowOK(r)
    /\ \A t \in trash : TrashRowOK(t)
    /\ nextTrash \in 1 .. MaxTrashId + 1
    /\ trashRoot \in BOOLEAN
    /\ disk \in [Paths -> DirStates]
    /\ used \subseteq Uuids
    /\ last.op \in Ops /\ last.code \in Codes

\* Every active row and every trash row has all of its files: the
\* directories run_report_format_script, copy_report_format and
\* restore_report_format read are never missing or half written.
RowHasDir ==
    /\ \A r \in rfs : disk[RowPath(r)] = "intact"
    /\ \A t \in trash : disk[TrashPath(t.id)] = "intact"

\* No directory under report_formats or report_formats_trash is left
\* behind by a failed or rolled back create, copy, delete or restore.
NoOrphanDir ==
    \A p \in OwnerPaths \cup TrashPaths :
        disk[p] # "none" => \/ \E r \in rfs : p = RowPath(r)
                            \/ \E t \in trash : p = TrashPath(t.id)

\* The two stores agree: every row has its intact directory, and every
\* directory under report_formats or report_formats_trash belongs to a row.
StoresAgree == RowHasDir /\ NoOrphanDir

\* The collision check of create, the fresh uuid of copy and the uuid
\* check of restore keep uuids unique across report_formats and the
\* original uuids of report_formats_trash; trash ids are unique.
IdentitiesUnique ==
    /\ \A r1, r2 \in rfs : r1.uuid = r2.uuid => r1 = r2
    /\ \A r \in rfs, t \in trash : r.uuid # t.orig
    /\ \A t1, t2 \in trash : t1.orig = t2.orig \/ t1.id = t2.id => t1 = t2

\* No user has two active report formats of the same name: the suffix
\* loop of create and copy, and the name check of restore.
NameUnique ==
    \A r1, r2 \in rfs :
        r1.owner = r2.owner /\ r1.owner # NoOwner /\ r1.name = r2.name
            => r1 = r2

\* What the parameter model promises of a value: an integer within the
\* stored bounds, a selection equal to one of the stored options.
Acceptable(sp, v) ==
    /\ sp.type = "integer" => StrToLL(v) \in sp.min .. sp.max
    /\ sp.type = "selection" => v \in sp.opts

\* Every stored parameter value and default is acceptable for the bounds
\* and options stored with it, in report_formats and in the trash.
ParamValuesValid ==
    \A r \in rfs \cup trash : \A n \in DOMAIN r.params :
        /\ Acceptable(r.params[n], r.params[n].value)
        /\ Acceptable(r.params[n], r.params[n].fallback)

\* No directory exists at a trash id the sequence has not handed out yet,
\* so the move of a later delete never lands on a leftover of a rolled back
\* one: ids taken by a failed delete are not given back.
FreshTrashIdsUnused ==
    \A i \in nextTrash .. MaxTrashId : disk[TrashPath(i)] = "none"

\* A report format that a live alert uses is never deleted (the in-use
\* checks of delete_report_format).
LiveRefProtected ==
    [][\A x \in LiveRefUuids : x \in ActiveUuids => x \in ActiveUuids']_vars

\* A report format that an alert in the trash uses stays, active or in the
\* trash, so that restoring the alert finds it (the trash checks of
\* delete_report_format).
TrashRefProtected ==
    [][\A x \in TrashRefUuids :
          x \in ActiveUuids \cup TrashOrigs => x \in ActiveUuids' \cup TrashOrigs']_vars

\* A modify that sets a parameter and returns 0 has stored the value in
\* that parameter of that report format, and the value is valid for the
\* bounds and the options of that parameter (modify_report_format,
\* set_report_format_param and validate_param_value).
ModifyParamApplied ==
    [][/\ last'.op = "modify" /\ last'.arg # NoValue /\ last'.code = 0
       => \E r \in rfs' : /\ r.uuid = last'.arg[1]
                          /\ last'.arg[2] \in DOMAIN r.params
                          /\ r.params[last'.arg[2]].value = last'.arg[3]
                          /\ Acceptable(r.params[last'.arg[2]], last'.arg[3])]_vars

\* A crash between a directory operation and the commit is recovered by
\* the startup checks rather than losing data: after them every row has
\* its files.
RecoveryRestoresConsistency ==
    [][last'.op = "restart" => RowHasDir']_vars

\* A handler that fails leaves report_formats and report_formats_trash as
\* they were: each runs in one transaction that it rolls back.
FailureRollsBack ==
    [][last'.code # 0 /\ last'.op # "restart" => rfs' = rfs /\ trash' = trash]_vars

\* After every startup, and until the next one, the formats without owner
\* are exactly those whose feed directory holds a readable descriptor: the
\* feed walk of check_db_report_formats installs each one, takes over a row
\* of its uuid, and deletes the ones the feed dropped.
FeedMirrored ==
    {r.uuid : r \in {s \in rfs : s.owner = NoOwner}}
        = {x \in Predefined : disk[FeedPath(x)] = "intact"}


-----------------------------------------------------------------------------
(* The catalog the handlers keep: every row of report_formats is an entry  *)
(* <<uuid, owner>> of the catalog, every row of report_formats_trash an    *)
(* entry <<original uuid, owner>> of the bin.                              *)

Catalog == INSTANCE ReportFormatCatalog WITH
    Owners    <- Users \cup {NoOwner},
    FeedOwner <- NoOwner,
    InUse     <- LiveRefUuids,
    Initial   <- {<<x, NoOwner>> : x \in Predefined},
    catalog   <- {<<r.uuid, r.owner>> : r \in rfs},
    bin       <- {<<t.orig, t.owner>> : t \in trash}

\* Every handler and every startup is a step of the catalog or leaves it
\* alone: create, copy and the feed add formats under uuids no format has
\* (the collision checks of create_report_format, make_uuid, and the
\* lookups of check_db_report_formats), no step changes the owner of a
\* format, delete and the feed remove no format an alert uses
\* (report_format_in_use), and restore brings a format back under its
\* original uuid.
CatalogRefined == Catalog!Spec

=============================================================================
