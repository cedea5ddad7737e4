# Report formats of gvmd: a TLA+ model

This directory models the report format lifecycle in
`src/src/manage_sql_report_formats.c`. A report format is stored in two places,
and every handler has to keep them in step:

- **The database.** A row of `report_formats` (or of `report_formats_trash`
  after a delete to the trash) holds the uuid, owner, name and flags. Its
  parameters sit in `report_format_params` and `report_format_param_options`.
- **The disk.** A directory holds the format's files. It is one of:
  - `report_formats/<owner uuid>/<uuid>` for an owned format;
  - `report_formats_trash/<trash id>` for a format in the trash;
  - the feed directory for a predefined format.

Every handler runs in one SQL transaction (`sql_begin_immediate` ...
`sql_commit`), so the handlers are serialised. Inside a transaction each
handler works on the directory first: it removes, creates, writes or moves
it. Only then does it insert or delete rows and commit. A failure rolls the
rows back but not the disk. So does a crash of the process.

## Modules

| module | models |
|---|---|
| `ReportFormatParams` | the parameter loop of `create_report_format` (the early returns 7, 9, 6, 5, 8, 3, 4 in the code's order), strtoll's saturation at the width of `long long`, and `validate_param_value` |
| `ReportFormats` | the state (rows, trash rows, trash id sequence, trash root, directory tree, uuids handed out, last result) and one action per handler: `Create` (with `WriteFormat`), `Copy` (with `CopyFiles`), `Modify`, `SoftDelete`, `DeleteActive`, `DeleteTrash`, `Restore`, `EmptyTrash` and `Restart` (the startup checks and the feed walk). `MoveDir` is `move_report_format_dir`. |
| `ReportFormatCatalog` | the abstract catalog the handlers promise: entries `<<uuid, owner>>`, active or in the bin |
| `MC_ReportFormats` | the small instances TLC runs |
| `ReportFormatsProofs` | type correctness (TLAPS) |
| `ReportFormatsSafety` | uuid uniqueness, fresh trash ids and in-use protection (TLAPS) |
| `ReportFormatsRefinement` | that `ReportFormats` implements `ReportFormatCatalog` (TLAPS) |
| `ReportFormatsInvariants` | the feed rows mirror the feed, and names stay unique (TLAPS) |
| `ReportFormatsStores` | the rows and the directory tree agree (TLAPS) |
| `ReportFormatsParamProofs` | stored parameter values are valid (TLAPS) |

### State

| variable | code |
|---|---|
| `rfs` | `report_formats` with its parameters, as records |
| `trash` | `report_formats_trash` |
| `nextTrash` | the Postgres id sequence of the trash table. It is not rolled back. |
| `trashRoot` | whether `report_formats_trash` exists on disk |
| `disk` | for each path, one of `none`, `empty`, `partial`, `intact` |
| `used` | uuids already minted by `make_uuid` |
| `last` | the handler that ran and its return code, which the action properties read |

The directory contents are abstracted to four states. File names, modes and
contents are not told apart by any property.

### Actions

Each action is the whole handler. Its guard is the code's checks in the
code's order, and every early return is a disjunct.

- The failure branches are enabled by the constant `Failures`, a subset of
  `FailureKinds`:
  - `mkdir`, `chmod`, `write`, `remove`;
  - `rename` and `xdev`, for a rename that fails, and a per-entry move
    across devices that stops part way;
  - `crash`, for a crash between the disk work and the commit.
- A failing handler leaves the rows unchanged (the rollback). It leaves the
  disk as the failure left it.
- The `FreeSuffixes` loop of create and copy is bounded by `MaxNameSuffix`.
  So is the trash id sequence, by `MaxTrashId`. The actions are disabled at
  the bound.
- Alert references are constants:
  - `LiveRefs`: alerts in use;
  - `TrashRefs`: alerts in the trash, with their method.
- `ModifyMarks` is the set of predefined marks a modify may pass. With
  `{TRUE}` a user can mark a format predefined, as the code allows.
- `RowPath` follows the mark, as `run_report_format_script` does:
  - the feed directory for a format marked predefined, whoever owns it;
  - else the owner's directory.

### Startup

`Restart` is `check_db_report_formats` in one step. It first builds the disk
the daemon finds (`StartupDisk`):

- While the daemon was stopped, the feed may have removed, broken or
  reinstalled each predefined directory. `FeedStates` lists the states it may
  leave them in. `partial` stands for a `report_format.xml` that cannot be
  read or parsed.
- With the failure `trashloss`, `GVMD_STATE_DIR/report_formats_trash` may
  have been lost with everything under it.

Then, in the code's order:

1. `check_db_trash_report_formats` (`CheckedTrash`): all trash rows are
   deleted when the trash directory is missing.
2. The feed walk (`FeedSynced`), over the uuids whose descriptor reads
   (`FeedOk`):
   - a row with that uuid is updated and handed to the feed, whoever owned
     it (`FeedUpdated`);
   - else a feed row is inserted (`FeedRow`);
   - the rows without owner that the walk did not keep are deleted.
3. `check_db_report_formats_trash` (`OrphanTrashDir`): every trash
   directory without a trash row is removed. The check stops at the first
   removal that fails.

## Runs

All runs are `MC_ReportFormats` with a cfg of their own. Every run uses
these bounds:

- 3 uuids, one of them predefined;
- one name with 2 suffixes;
- trash ids 1..2;
- `long long` of 3 bits (-4..3), so that the strtoll sentinels are reached
  by small numbers.

**Passing runs.** Between them they fire every action and every disjunct.

- `consistent`:
  - setup: 2 users, with symmetry over users. The failures are `mkdir`,
    `rename` and `trashloss`, the ones the code recovers from cleanly. The
    feed directory stays intact.
  - checks: `TypeOK`, `RowHasDir`, `NoOrphanDir`, `IdentitiesUnique`,
    `NameUnique`, `ParamValuesValid`, `LiveRefProtected` and
    `CatalogRefined`.
  - result: 11,020 distinct states.
- `failures`:
  - setup: 1 user, every failure kind, crashes, an intact feed.
  - checks: `TypeOK`, `IdentitiesUnique`, `NameUnique`,
    `ParamValuesValid`, `FreshTrashIdsUnused`, `LiveRefProtected` and
    `CatalogRefined`.
  - result: 81,351 distinct states.
- `feed`:
  - setup: 1 user, few parameter inputs, no symmetry. The feed may leave
    the predefined directory missing, broken or intact at every start.
  - checks: `TypeOK`, `RowHasDir`, `NameUnique` and `FeedMirrored` (after
    each start, the formats without owner are those with a readable
    descriptor).
  - result: 355,711 distinct states, about 70 seconds.

The bounds are enough for what the properties need:

- Two users make the per-owner name check and the foreign-owner copy
  reachable.
- Three uuids allow a collision with an active row, with a trash row and
  with the feed.
- Two trash ids let a rolled back delete consume an id before a later one.
- Two starts with a changing feed let a uuid leave the feed, be taken by a
  user and come back.

**Violation runs.** Each checks one claim of the spec, of the code's
comments or of the design. TLC finds it violated by what the code does; see
`findings` in `PROJECT.json`.

| run | property | what happens |
|---|---|---|
| `crash_restart` | `RecoveryRestoresConsistency` | a crash after the move to the trash leaves the active row without files, and the startup checks only prune trash directories |
| `dir_failures` | `StoresAgree` | a partial `gvm_file_remove_recurse` or cross-device move damages a row's directory; a failed chmod or write, or a crash of create before its commit, leaves a directory with no row |
| `modify_name` | `NameUnique` | a rename has no uniqueness check |
| `trash_ref` | `TrashRefProtected` | the ultimate delete counts notice alerts only, and emptying the trash has no in-use check |
| `copy_selection` | `ParamValuesValid` | a copy drops the selection options |
| `modify_param` | `ModifyParamApplied` | the options a value is validated against are taken from another format's parameter of that name, so a selection stores a value none of its own options allow |
| `modify_partial` | `FailureRollsBack` | modify commits before the parameter update fails |
| `mark_predefined` | `RowHasDir` | the owner marks a format predefined (the check at line 1423 is dead after the assert at 1399); its files are then looked for in the feed directory |
| `feed_catalog` | `CatalogRefined` | the feed drops a format a live alert attaches, and the startup deletes it after a warning; spec.md 4.7 says it is kept |

TLC also finds two feed sequences that no run in the list reports (see
`hazards` in `PROJECT.json`). Both start the same way: the feed drops uuid
x1, then a user creates a format with uuid x1.

- If the feed then reinstalls x1, the UPDATE of
  `check_report_format_create` hands the user's row to the feed. This
  violates `CatalogRefined` and `NoOrphanDir`.
- If the user trashes the format before the feed reinstalls x1, the INSERT
  does not look at the trash. An active row and a trash row then share a
  uuid (`IdentitiesUnique`).

There is no fairness and no liveness property. Every handler is a single
request, and nothing in this file promises that anything eventually
happens. The cfgs check deadlock: `Restart` is always enabled.

## Refinement

`ReportFormatCatalog` states what the handlers promise of identities,
whatever they do to names, parameters and files. An entry is a uuid and an
owner. The catalog holds the active formats and the bin the trashed ones.
Its steps are:

- `Add` under a uuid no entry has, active or trashed;
- `Trash` and `Discard` of an entry no live alert uses;
- `Restore` of a bin entry whose uuid no active entry has;
- `Purge` of the bin;
- `Startup`: the feed removes its own entries that no alert uses, and adds
  new ones.

`ReportFormats` maps each row to `<<uuid, owner>>` and each trash row to
`<<original uuid, owner>>` (`Catalog`). `CatalogRefined` is the catalog's
`Spec`, checked as a property. The mapping is:

- create and copy are an `Add`;
- modify replaces a row by one of the same uuid and owner, so the catalog
  stutters;
- the soft delete is a `Trash`, the ultimate delete of an active format a
  `Discard`;
- restore is a `Restore`;
- the ultimate delete of a trash row, emptying the trash and the trash loss
  at startup are a `Purge`;
- a failed handler stutters.

## Proofs

TLAPS proves ten theorems for every value of the constants. They assume
only the `ASSUME`s of the two modules:

- the predefined uuids are uuids;
- the bounds are naturals, with `MaxNameSuffix >= 1`;
- `NoOwner` is not a user, and `NoValue` is no name, Boolean or integer;
- the inputs are drawn from their types;
- `IntWidth >= 2`.

Finiteness is not assumed.

- **`TypeCorrect`** (`ReportFormatsProofs`): `Spec => []TypeOK`, for every
  feed behaviour.
  - `TypeOK` alone is not inductive. Copy reads the owner directory of the
    source row, and that is a path only if the row has an owner or is
    predefined.
  - The inductive invariant `TypeInv` adds `FeedRowsPredefined`. This
    lemma is also what makes `assert (owner_uuid)` in `copy_report_format`
    hold.
  - There is one lemma per action, plus lemmas on the operators the actions
    use:
    - `ParamsCode` is one of 0..9;
    - `Min` of the failing set is its least element;
    - `MoveDir`, `Damaged` and `StartupDisk` keep the directory states;
    - `FeedUpdated`, `FeedRow` and `FeedSynced` give rows of the type.

The other four theorems hold when the feed leaves the predefined
directories intact (`FeedStable`, that is `FeedStates = {"intact"}`). The
runs and the hazards above show why they fail otherwise.

- **`UuidsUnique`** (`ReportFormatsSafety`):
  `FeedStable => (Spec => []IdentitiesUnique)`.
- **`FreshTrashDirsAbsent`** (`ReportFormatsSafety`):
  `FeedStable => (Spec => []FreshTrashIdsUnused)`.
  - Both rest on `IInv`. It adds to `TypeInv` that:
    - every uuid in a row has been minted (`UuidsMinted`), which is why
      Copy's fresh uuid is new;
    - every trash id is below the sequence (`TrashIdsIssued`), which is why
      a new trash id is unused;
    - the formats without owner are exactly the predefined uuids, each
      predefined uuid has a row, and none is in the trash (`FeedOwned`).
      This is why the feed walk on a stable feed updates the feed's own rows
      in place and inserts nothing (`StableFeedRows`).
  - TLC checked `IInv`'s conjuncts on the `failures` run before they were
    proved.
- **`LiveRefsKept`** (`ReportFormatsSafety`):
  `FeedStable => (Spec => LiveRefProtected)`.
  - This is an action property. It is proved from `[]IInv`.
  - Every step either:
    - keeps the rows;
    - replaces a row by one of the same uuid;
    - removes a row that `report_format_in_use` says no alert uses;
    - or, at startup, keeps the uuid and owner of every row.
- **`CatalogRefinement`** (`ReportFormatsRefinement`):
  `FeedStable => (Spec => CatalogRefined)`.
  - `Init` maps to the catalog's `Init`.
  - Under `IInv` every step maps to a catalog step or a stutter, with one
    lemma per handler.
  - `IdentitiesUnique` makes a removed row remove exactly one entry.
  - `UuidsMinted` makes a created or copied uuid new to the catalog.

Three more modules prove the invariants of the passing runs.

- **`FeedMirroredAlways`** (`ReportFormatsInvariants`):
  `Spec => []FeedMirrored`, for every feed behaviour, failure and crash.
  - The inductive invariant is `MirrorInv == TypeInv /\ FeedMirrored`.
  - A handler never adds or changes a row without owner, and never touches
    a feed directory (`OwnerNotFeed`, `MoveDirKeepsFeed`).
  - At startup, `FeedSynced` keeps a row without owner only where the feed
    directory was found intact. The disk after startup leaves the feed
    directories alone (`RestartFeedDirs`).
- **`NamesUnique`** (`ReportFormatsInvariants`):
  `NoRename => (Spec => []NameUnique)`. `NoRename` says modify is given no
  new name (`ModifyNames = {}`).
  - The run `modify_name` shows that the hypothesis is needed:
    `modify_report_format` renames without checking the other names.
  - The inductive invariant is `NamesInv == TypeInv /\ NameUnique`.
  - Create and copy take a name that the uniquify loop found free
    (`CandidateNameFree`). Restore refuses a name already in use. The feed
    walk changes only rows without owner, and keeps the rows of users
    (`RestartUserRows`).
- **`RowsHaveDirs`** and **`NoOrphanDirs`** (`ReportFormatsStores`):
  `StoresHyp => (Spec => []RowHasDir)` and the same for `NoOrphanDir`.
  `StoresHyp` is the configuration of the `consistent` run. It has three
  parts, and a violation run shows that each one is needed:
  - `FeedStable`. Without it, the feed can drop a predefined uuid, a user
    can create a format with that uuid, and the feed can reinstall it.
    The UPDATE of `check_report_format_create` (line 2952) then gives the
    user's row to the feed, and `NoOrphanDir` fails. This is the hazard at
    line 2952. TLC finds the violation on the `feed` constants in four
    steps; the `feed` run does not check `NoOrphanDir` for that reason.
  - `CleanFailures`. The only failures are of mkdir and rename, and the
    loss of the trash directory. The other failure branches leave
    directories behind (run `dir_failures`).
  - `NoPredefinedMark`. Modify never marks a format predefined. Such a
    row's directory is looked up in the feed (run `mark_predefined`).
  - The inductive invariant is `StoresInv`. It is `IInv`, plus
    `PredefinedOwnerless`, plus `StoresAgree`.
  - The proof works on `LiveDirs`, the directories the rows own. Each
    handler is shown to satisfy `DirsFrame(Gone, New)`: it removes the
    directories `Gone`, fills the directories `New`, and its rows own
    exactly those directories. `DirsAgree` then gives `StoresAgree'`.
    `IInv` is needed because a created uuid, and a trash id handed out,
    must not name a directory that already exists.
  - TLC checked `StoresInv` as an invariant of the `consistent`
    configuration (11,020 distinct states) before the proof.
  - The `feed` run shows that `RowHasDir` also holds for an unstable feed.
    That case is only model-checked.
- **`IntegerParamsInBounds`** (`ReportFormatsParamProofs`):
  `Spec => []NonSelectionValid`, for every width of `long long`. Every
  stored parameter that is not a selection has its value and its default
  within its min and max.
  - It follows from the checks of `create_report_format`, from strtoll's
    saturation (`StrToLL` is in range), and from `validate_param_value`
    in modify.
- `ParamValuesValid` itself is not proved. Its selection part is violated:
  a copied selection has no options (run `copy_selection`), and modify
  validates a selection against another format's options (run
  `modify_param`). Proving it under a hypothesis that excludes selections
  would only restate `IntegerParamsInBounds`.
  - The inductive invariant of `IntegerParamsInBounds` is `ParamsInv`:
    `TypeInv` and every row `RowGood`, that is with its integer parameters
    in bounds.

Only model-checked, not proved:

- `RowHasDir` for an unstable feed (run `feed`);
- `ParamValuesValid` as the passing runs check it. Those runs give create
  no selection parameter, so there it says what `IntegerParamsInBounds`
  proves;
- the violation runs (`TrashRefProtected`, `ModifyParamApplied`,
  `StoresAgree`, `CatalogRefined` with a changing feed,
  `RecoveryRestoresConsistency`, `NameUnique` with renames,
  `ParamValuesValid` with selections, `FailureRollsBack`). These are
  properties that fail, so there is nothing to prove.

Liveness and `ENABLED` are out of the prover's reach in any case.

## Not modelled

- **Descriptor parsing** (`check_report_format_parse`,
  `check_report_format_add_params`). The feed's descriptors carry no
  parameters in the model. So the NULL `type_min` and `type_max` that a feed
  parameter without bounds gets (line 3303) are not reached.
- **Signature verification and trust.**
- **Report generation.** Only the directory it reads is modelled (`RowPath`).
- **The uuid migration** (`update_report_format_uuids`,
  `make_report_format_uuids_unique`). Its old uuids are never minted, and
  no duplicate exists where `IdentitiesUnique` holds.
- **User inheritance and deletion.** Users are a constant.
- **The iterators and getters.**
- **The signature symlink.** `create_report_format` makes it on a uuid
  collision, and delete unlinks it.
- **The deletion of `alert_method_data_trash`** when the trash root is
  missing. Alert references are constants.
- **Removal of the trash root by the daemon.** No handler removes it. Its
  loss while the daemon is stopped is the failure `trashloss`.

`PROJECT.json` lists these, with the reasons.
