------------------------- MODULE ReportFormatCatalog -------------------------
(***************************************************************************)
(* What the report format handlers promise of the identities they keep,    *)
(* whatever they do to names, parameters and files.  An entry is the uuid *)
(* of a format and its owner.  The catalog holds the active formats, the   *)
(* bin the trashed ones under their original uuid.                         *)
(*                                                                         *)
(*  - a format joins the catalog under a uuid no format has, active or     *)
(*    trashed;                                                             *)
(*  - it keeps its uuid and its owner until it leaves;                     *)
(*  - a format an alert uses is neither trashed nor removed;               *)
(*  - a trashed format comes back under its original uuid, when no active  *)
(*    format has it;                                                       *)
(*  - trashed formats may be purged;                                       *)
(*  - at startup the feed may remove formats it owns that no alert uses,   *)
(*    and add formats of its own under new uuids.                          *)
(***************************************************************************)
CONSTANTS
    Uuids,      \* format uuids
    Owners,     \* owners, the feed's included
    FeedOwner,  \* the owner of the formats the feed installs
    InUse,      \* uuids the alerts use
    Initial     \* the entries the repository starts with

VARIABLES catalog, bin

vars == <<catalog, bin>>

Entries == Uuids \X Owners

\* The uuids of the catalog, and those of the catalog and the bin.
Active == {e[1] : e \in catalog}
Known == Active \cup {e[1] : e \in bin}

TypeOK == catalog \subseteq Entries /\ bin \subseteq Entries

Init == catalog = Initial /\ bin = {}

Add(e) ==
    /\ e[1] \notin Known
    /\ catalog' = catalog \cup {e}
    /\ UNCHANGED bin

Trash(e) ==
    /\ e \in catalog
    /\ e[1] \notin InUse
    /\ catalog' = catalog \ {e}
    /\ bin' = bin \cup {e}

Discard(e) ==
    /\ e \in catalog
    /\ e[1] \notin InUse
    /\ catalog' = catalog \ {e}
    /\ UNCHANGED bin

Restore(e) ==
    /\ e \in bin
    /\ e[1] \notin Active
    /\ bin' = bin \ {e}
    /\ catalog' = catalog \cup {e}

Purge ==
    /\ bin' \subseteq bin
    /\ UNCHANGED catalog

\* One startup: feed entries no alert uses leave, new feed entries join,
\* and trashed entries are purged, in one step.
Startup ==
    /\ catalog \ catalog' \subseteq {e \in catalog : e[2] = FeedOwner /\ e[1] \notin InUse}
    /\ catalog' \ catalog \subseteq {e \in Entries : e[2] = FeedOwner /\ e[1] \notin Known}
    /\ bin' \subseteq bin

Next ==
    \/ \E e \in Entries : Add(e) \/ Trash(e) \/ Discard(e) \/ Restore(e)
    \/ Purge
    \/ Startup

Spec == Init /\ [][Next]_vars
=============================================================================
