--------------------------- MODULE BridgeInstall ---------------------------
(***************************************************************************)
(* How hermes gateway setup gets the vector-bridge binary: an in-tree      *)
(* build, a prebuilt of the plugin's release with its version stamp, or a  *)
(* cargo build.  The prebuilt and its stamp are two files, written one     *)
(* after the other, and the process may die between any two steps.         *)
(***************************************************************************)
EXTENDS Naturals

CONSTANTS MaxVersion    \* bound: versions of the plugin

ASSUME MaxVersionAssumption == MaxVersion \in Nat \ {0}

VARIABLES
    plugin,     \* version of the plugin on disk, the tag it wants
    override,   \* VECTOR_BRIDGE_BIN: "unset", "present" or "missing"
    tree,       \* version of the in-tree release build, 0 when there is none
    prebuilt,   \* version of the installed prebuilt, 0 when there is none
    stamp,      \* what the .version file says, 0 when missing or cut
    ensure      \* how far _ensure_bridge_binary is

installVars == <<plugin, override, tree, prebuilt, stamp, ensure>>
installFiles == <<plugin, override, tree, prebuilt, stamp>>

Versions == 1..MaxVersion

\* "idle": not called; "found", "missing": the call has returned.
EnsureStages == {"idle", "resolve", "fetch", "replace", "stamp", "cargo",
                 "found", "missing"}

\* Mutant of Resolves: the gateway, too, wants a stamp that matches.
ResolvesStamped(requireCurrent) ==
    \/ override = "present"
    \/ override = "unset" /\ (tree # 0 \/ (prebuilt # 0 /\ stamp = plugin))

\* resolve_bridge_bin: is there a file at the path it returns?
Resolves(requireCurrent) ==
    \/ override = "present"
    \/ /\ override = "unset"
       /\ tree # 0 \/ (prebuilt # 0 /\ (requireCurrent => stamp = plugin))

\* What the gateway starts.
Runnable == Resolves(FALSE)

\* Release v may have been installed, built, or both, by any earlier version.
InstallInit ==
    /\ plugin = 1
    /\ override \in {"unset", "present", "missing"}
    /\ tree \in {0, 1}
    /\ \/ prebuilt = 0 /\ stamp = 0
       \/ prebuilt = 1 /\ stamp \in {0, 1}
    /\ ensure = "idle"

-------------------------------------------------------------------------------
EnterEnsure == ensure' = "resolve" /\ UNCHANGED installFiles

Resolve ==
    /\ ensure = "resolve"
    /\ IF Resolves(TRUE)
       THEN ensure' = "found"
       ELSE ensure' = IF override = "missing" THEN "missing" ELSE "fetch"
    /\ UNCHANGED installFiles

\* The release, its checksums and the asset are downloaded, verified and written
\* to a temporary file; or one of these fails and cargo is tried.
Fetch ==
    /\ ensure = "fetch"
    /\ ensure' \in {"replace", "cargo"}
    /\ UNCHANGED installFiles

\* Mutant of ReplaceBinary: the stamp is written with the download.
ReplaceStampsFirst ==
    /\ ensure = "replace"
    /\ stamp' = plugin
    /\ \/ prebuilt' = plugin /\ ensure' = "stamp"
       \/ ensure' = "cargo" /\ UNCHANGED prebuilt
    /\ UNCHANGED <<plugin, override, tree>>

\* os.replace of the temporary file, or its failure.
ReplaceBinary ==
    /\ ensure = "replace"
    /\ \/ prebuilt' = plugin /\ ensure' = "stamp"
       \/ ensure' = "cargo" /\ UNCHANGED prebuilt
    /\ UNCHANGED <<plugin, override, tree, stamp>>

\* write_text truncates the stamp, then writes it; an OSError may come between,
\* and counts as a failed download although the binary is in place.
WriteStamp ==
    /\ ensure = "stamp"
    /\ \/ stamp' = plugin /\ ensure' = "found"
       \/ stamp' \in {stamp, 0} /\ ensure' = "cargo"
    /\ UNCHANGED <<plugin, override, tree, prebuilt>>

\* cargo build --release; without cargo or a recent rustc, or when the build
\* fails or times out, there is no binary to return.
CargoBuild ==
    /\ ensure = "cargo"
    /\ \/ tree' = plugin /\ ensure' = "found"
       \/ ensure' = "missing" /\ UNCHANGED tree
    /\ UNCHANGED <<plugin, override, prebuilt, stamp>>

EnsureStep == Resolve \/ Fetch \/ ReplaceBinary \/ WriteStamp \/ CargoBuild

\* The process ends in the middle of the call; the stamp may be cut.
AbandonEnsure ==
    /\ ensure' = "idle"
    /\ stamp' \in IF ensure = "stamp" THEN {stamp, 0} ELSE {stamp}
    /\ UNCHANGED <<plugin, override, tree, prebuilt>>

LeaveEnsure == ensure' = "idle" /\ UNCHANGED installFiles

\* hermes plugins update: external.  The in-tree build and the prebuilt stay.
UpdatePlugin ==
    /\ ensure = "idle"
    /\ plugin < MaxVersion
    /\ plugin' = plugin + 1
    /\ UNCHANGED <<override, tree, prebuilt, stamp, ensure>>

-------------------------------------------------------------------------------
InstallTypeOK ==
    /\ plugin \in Versions
    /\ override \in {"unset", "present", "missing"}
    /\ {tree, prebuilt, stamp} \subseteq 0..MaxVersion
    /\ ensure \in EnsureStages

\* A stamp that makes setup use the prebuilt without a download is the stamp of
\* that prebuilt, although the two files are written one after the other and
\* either write may be cut.
StampIsBinary == stamp = plugin => prebuilt = plugin

\* CHANGELOG "Gateway start now uses the installed prebuilt anyway": once the
\* gateway has a sidecar to start, no update, failed download, failed build or
\* crash takes it away.
RunnableStays == [][Runnable => Runnable']_installVars
===============================================================================
