--------------------------- MODULE SnapshotManager ---------------------------
(***************************************************************************)
(* rusty-core/src/state/snapshot_manager.rs and the part of                *)
(* state/state_manager.rs that drives it: snapshots of the state, kept in  *)
(* files that survive a crash, and the table of the known snapshots, which *)
(* is rebuilt from the files.                                              *)
(*                                                                         *)
(* A file is named after a hash: of the whole snapshot when it is written  *)
(* ("whole"), of the metadata alone when it is looked up or removed        *)
(* ("meta").  The two never agree, so no lookup finds a file and no file   *)
(* is ever removed.  Times and sizes are left out.                         *)
(***************************************************************************)
EXTENDS Integers, FiniteSets, FiniteSetsExt, Maps

CONSTANTS
    SnapBranches,       \* competing branches of the chain
    MaxSnapHeight,      \* bound: heights
    SnapshotInterval,   \* snapshot_interval
    MaxSnapshots,       \* max_snapshots
    U64Range,           \* 2^64: the width of a height
    SnapCrashes         \* bound: crashes

VARIABLES
    snUp,       \* the process is running
    snHeight,   \* StateManager::current_height
    snRoot,     \* StateManager::current_state_root: the branch it commits to
    snKnown,    \* snapshots: height -> metadata
    snLast,     \* last_snapshot_height
    snFiles,    \* the files of snapshot_dir
    snCrashes

snVars == <<snUp, snHeight, snRoot, snKnown, snLast, snFiles, snCrashes>>
snState == <<snHeight, snRoot>>
snTable == <<snKnown, snLast>>

NoRoot == "zeros"

Meta(h, b, inc) == [height |-> h, branch |-> b, inc |-> inc]
File(ext, hashed, meta) == [ext |-> ext, hashed |-> hashed, meta |-> meta]
DataExt(meta) == IF meta.inc THEN "inc" ELSE "snapshot"

SnInit ==
    /\ snUp = TRUE
    /\ snHeight = 0 /\ snRoot = NoRoot
    /\ snKnown = EmptyMap /\ snLast = 0
    /\ snFiles = {}
    /\ snCrashes = 0

\* The subtraction wraps below zero.
should_create_snapshot(h) ==
    h > 0 /\ (h - snLast) % U64Range >= SnapshotInterval

\* save_snapshot, save_incremental_snapshot: the data, then the metadata; a
\* write may fail, and a crash may stop it after `written` of the two.
save_snapshot(meta, written) ==
    {File(IF i = 1 THEN DataExt(meta) ELSE "meta", "whole", meta) : i \in 1 .. written}

\* What cleanup_old_snapshots drops: the lowest heights beyond the limit.
Oldest(known) ==
    {h \in DOMAIN known :
        Cardinality({g \in DOMAIN known : g > h}) >= MaxSnapshots}

cleanup_old_snapshots(known, files) ==
    [known |-> Without(known, Oldest(known)),
     files |-> files \ UNION {{File(DataExt(known[h]), "meta", known[h]),
                               File("meta", "meta", known[h])} : h \in Oldest(known)}]

\* A fault: the snapshot is entered in the table whether or not it was saved.
EnterUnsaved(h, b, written) ==
    LET meta == Meta(h, b, FALSE)
        clean == cleanup_old_snapshots(Put(snKnown, h, meta),
                                       snFiles \cup save_snapshot(meta, written))
    IN  /\ snFiles' = clean.files
        /\ snKnown' = clean.known
        /\ snLast' = h

\* create_snapshot: the table is changed only when both files are written.
create_snapshot(h, b, written) ==
    LET meta == Meta(h, b, FALSE)
        files == snFiles \cup save_snapshot(meta, written)
        clean == cleanup_old_snapshots(Put(snKnown, h, meta), files)
    IN  IF written = 2
        THEN /\ snFiles' = clean.files
             /\ snKnown' = clean.known
             /\ snLast' = h
        ELSE snFiles' = files /\ UNCHANGED snTable

-----------------------------------------------------------------------------
\* update_state: the next block, or one of a branch that replaces blocks.  The
\* height and the root have changed when the snapshot fails.
SnUpdate(h, b) ==
    /\ snUp
    /\ snHeight' = h /\ snRoot' = b
    /\ \/ ~should_create_snapshot(h) /\ UNCHANGED <<snTable, snFiles>>
       \/ should_create_snapshot(h) /\ \E written \in 0 .. 2 : create_snapshot(h, b, written)
    /\ UNCHANGED <<snUp, snCrashes>>

\* create_snapshot of the StateManager: of the height it is at.
SnCreate(written) ==
    /\ snUp /\ snRoot # NoRoot
    /\ create_snapshot(snHeight, snRoot, written)
    /\ UNCHANGED <<snUp, snState, snCrashes>>

\* create_incremental_snapshot: no cleanup, and last_snapshot_height stays.
SnIncremental(written) ==
    LET meta == Meta(snHeight, snRoot, TRUE)
    IN  /\ snUp /\ snRoot # NoRoot
        /\ snFiles' = snFiles \cup save_snapshot(meta, written)
        /\ snKnown' = IF written = 2 THEN Put(snKnown, snHeight, meta) ELSE snKnown
        /\ UNCHANGED <<snUp, snState, snLast, snCrashes>>

\* load_full_snapshot looks for a file named after the metadata; the base that
\* reconstruct_state_from_incremental finds for an incremental snapshot is that
\* snapshot itself, and the recursion ends with the stack.
load_snapshot(h) ==
    CASE snKnown[h].inc -> "overflow"
      [] File("snapshot", "meta", snKnown[h]) \in snFiles -> "loaded"
      [] OTHER -> "error"

\* rollback_to_height and load_state_from_snapshot.
SnRollback(target) ==
    LET known == {h \in DOMAIN snKnown : h <= target}
        h == Max(known)
    IN  /\ snUp /\ known # {}
        /\ load_snapshot(h) # "error"
        /\ IF load_snapshot(h) = "loaded"
           THEN /\ snHeight' = h /\ snRoot' = snKnown[h].branch
                /\ UNCHANGED <<snUp, snTable, snFiles, snCrashes>>
           ELSE /\ snUp' = FALSE
                /\ UNCHANGED <<snState, snTable, snFiles, snCrashes>>

SnCrash ==
    /\ snUp /\ snCrashes < SnapCrashes
    /\ snUp' = FALSE
    /\ snCrashes' = snCrashes + 1
    /\ UNCHANGED <<snState, snTable, snFiles>>

Metas == {f.meta : f \in {g \in snFiles : g.ext = "meta"}}

\* load_existing_snapshots: of several files for one height, the one that the
\* directory lists last.
load_existing_snapshots ==
    LET heights == {m.height : m \in Metas}
    IN  \E pick \in [heights -> Metas] :
            /\ \A h \in heights : pick[h].height = h
            /\ snKnown' = pick
            /\ snLast' = Max(heights \cup {0})

\* StateManager::new
SnRestart ==
    /\ ~snUp
    /\ snUp' = TRUE
    /\ load_existing_snapshots
    /\ snHeight' = 0 /\ snRoot' = NoRoot
    /\ UNCHANGED <<snFiles, snCrashes>>

SnNext ==
    \/ \E h \in 1 .. MaxSnapHeight, b \in SnapBranches :
            h <= snHeight + 1 /\ SnUpdate(h, b)
    \/ \E written \in 0 .. 2 : SnCreate(written) \/ SnIncremental(written)
    \/ \E target \in 0 .. MaxSnapHeight : SnRollback(target)
    \/ SnCrash
    \/ SnRestart

SnSpec == SnInit /\ [][SnNext]_snVars

-----------------------------------------------------------------------------
(* Properties.                                                             *)

\* A restart finds every snapshot the process knew of when it stopped
\* (create_snapshot, cleanup_old_snapshots, load_existing_snapshots).
RestartForgetsNothing ==
    [][~snUp /\ snUp' => DOMAIN snKnown \subseteq DOMAIN snKnown']_snVars
=============================================================================
