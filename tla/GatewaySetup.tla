---------------------------- MODULE GatewaySetup ----------------------------
(***************************************************************************)
(* hermes gateway setup: the wizard that keeps, creates or imports the     *)
(* identity of the bot, and the vector-bridge --setup child it runs.       *)
(* identity.nsec and identity.mnemonic are moved to .bak while a new       *)
(* identity is made, and put back when that fails.  The wizard may be      *)
(* interrupted (Ctrl+C) or killed at any step; a killed one leaves its     *)
(* child running.  The next wizard starts when that child has ended.       *)
(***************************************************************************)
EXTENDS BridgeInstall

CONSTANTS
    Identities,     \* keys a bot can have; a mnemonic is named by its key
    MaxWizards      \* bound: runs of the wizard

ASSUME SetupAssumption ==
    /\ Identities \intersect {"none", "empty", "bad"} = {}
    /\ MaxWizards \in Nat

Name == {"nsec", "mnemonic"}

\* What a file holds: an identity, text that is no key, nothing; or no file.
Content == Identities \union {"none", "empty", "bad"}

VARIABLES
    file,       \* identity.nsec and identity.mnemonic
    bak,        \* the two .bak files
    npub,       \* VECTOR_NPUB of the .env, "none" when unset
    stage,      \* where the wizard is, "idle" when none runs
    todo,       \* files its loop has still to visit
    wipe,       \* the operator agreed to replace the identity
    source,     \* "create", or what the operator imports
    moved,      \* files renamed by the _backup_identity under way
    baks,       \* files it returned
    result,     \* identity the child reported, "none" before and on failure
    child,      \* the vector-bridge --setup process
    wizards,    \* wizards started
    halted,     \* some wizard since the last complete one was cut short
    unrestored  \* history: some backup could not be put back

wizardVars == <<stage, todo, wipe, source, moved, baks, result>>
setupVars == <<file, bak, npub, wizardVars, child, wizards, halted, unrestored,
               installVars>>

Stages == {"idle", "adopt", "confirm", "decline", "binary", "readopt", "check",
           "choose", "backup", "run", "wait", "finally", "save"}

\* What the child makes a key of, and the key for an import.
Create == [how |-> "create", id |-> "none"]
Sources == {Create} \union [how : {"nsec", "mnemonic"}, id : Identities]

\* open: the file the child is at is truncated and not yet written.
NoChild == [at |-> "none", open |-> FALSE, source |-> Create, agreed |-> FALSE,
            id |-> "none"]

\* The mnemonic may have been deleted after an offline copy was made, and a key
\* file may have been damaged by hand.
Fresh == Identities \ ({file[n] : n \in Name} \union {bak[n] : n \in Name} \union {npub})

SetupInit ==
    /\ InstallInit
    /\ \/ file = [n \in Name |-> "none"] /\ npub = "none"
       \/ \E i \in Identities, m \in BOOLEAN : \E k \in {i, "bad"} :
            /\ file = [nsec |-> k, mnemonic |-> IF m THEN i ELSE "none"]
            /\ npub = i
    /\ bak = [n \in Name |-> "none"]
    /\ stage = "idle" /\ todo = {} /\ wipe = FALSE /\ source = Create
    /\ moved = {} /\ baks = {} /\ result = "none"
    /\ child = NoChild
    /\ wizards = 0
    /\ halted = FALSE
    /\ unrestored = FALSE

disk == <<file, bak>>
frame == <<npub, child, wizards, halted, unrestored>>

Goto(s) == stage' = s /\ UNCHANGED <<todo, wipe, source, moved, baks, result>>
GotoLoop(s) ==
    /\ stage' = s /\ todo' = Name
    /\ UNCHANGED <<wipe, source, moved, baks, result>>

\* A loop over the two files visits identity.nsec first.
Turn(n) == n \in todo /\ ("nsec" \in todo => n = "nsec")
Visit(n) == Turn(n) /\ todo' = todo \ {n}

-------------------------------------------------------------------------------
(***************************************************************************)
(* The identity files                                                      *)
(***************************************************************************)

\* _restore_identity_backup: unlink, then rename.  Either may fail.
Restore(n) ==
    IF bak[n] = "none"
    THEN UNCHANGED <<disk, unrestored>>
    ELSE \/ /\ file' = [file EXCEPT ![n] = bak[n]]
            /\ bak' = [bak EXCEPT ![n] = "none"]
            /\ UNCHANGED unrestored
         \/ /\ file' \in {file, [file EXCEPT ![n] = "none"]}
            /\ unrestored' = TRUE
            /\ UNCHANGED bak

\* _backup_identity_file, without and with an OSError.
Backup(n) ==
    IF file[n] = "none"
    THEN UNCHANGED <<disk, moved>>
    ELSE /\ bak' = [bak EXCEPT ![n] = file[n]]
         /\ file' = [file EXCEPT ![n] = "none"]
         /\ moved' = moved \union {n}

BackupFails(n) ==
    /\ file[n] # "none"
    /\ bak' \in {bak, [bak EXCEPT ![n] = "none"]}
    /\ UNCHANGED <<file, moved>>

\* _discard_identity_backup: a failure is ignored.
Discard(n) ==
    /\ bak' \in {bak, [bak EXCEPT ![n] = "none"]}
    /\ UNCHANGED <<file, unrestored>>

-------------------------------------------------------------------------------
(***************************************************************************)
(* The wizard                                                              *)
(***************************************************************************)

StartWizard ==
    /\ stage = "idle" /\ child = NoChild /\ ensure = "idle"
    /\ wizards < MaxWizards
    /\ wizards' = wizards + 1
    /\ stage' = "adopt" /\ todo' = Name /\ wipe' = FALSE /\ source' = Create
    /\ moved' = {} /\ baks' = {} /\ result' = "none"
    /\ UNCHANGED <<disk, npub, child, halted, unrestored, installVars>>

\* Mutant of Adopt: a file that is there but empty counts as one.
AdoptMissing(n) ==
    /\ stage \in {"adopt", "readopt"} /\ Visit(n)
    /\ IF file[n] = "none" THEN Restore(n) ELSE UNCHANGED <<disk, unrestored>>
    /\ UNCHANGED <<npub, stage, wipe, source, moved, baks, result, child,
                   wizards, halted, installVars>>

\* Mutant of Adopt: whatever backup there is comes back.
AdoptAlways(n) ==
    /\ stage \in {"adopt", "readopt"} /\ Visit(n)
    /\ Restore(n)
    /\ UNCHANGED <<npub, stage, wipe, source, moved, baks, result, child,
                   wizards, halted, installVars>>

\* _adopt_stale_identity_backup, run before the question and again after it.
Adopt(n) ==
    /\ stage \in {"adopt", "readopt"} /\ Visit(n)
    /\ IF file[n] \in {"none", "empty"}
       THEN Restore(n)
       ELSE UNCHANGED <<disk, unrestored>>
    /\ UNCHANGED <<npub, stage, wipe, source, moved, baks, result, child,
                   wizards, halted, installVars>>

Adopted ==
    /\ todo = {}
    /\ \/ stage = "adopt" /\ Goto("confirm")
       \/ stage = "readopt" /\ Goto("check")
    /\ UNCHANGED <<disk, frame, installVars>>

\* With a VECTOR_NPUB the operator is asked first; a no still ensures a binary.
Confirm ==
    /\ stage = "confirm"
    /\ \/ Goto("binary")
       \/ npub # "none" /\ Goto("decline")
    /\ EnterEnsure
    /\ UNCHANGED <<disk, frame>>

BinaryStep == EnsureStep /\ UNCHANGED <<disk, wizardVars, frame>>

BinaryEnsured ==
    /\ ensure \in {"found", "missing"}
    /\ IF stage = "binary" /\ ensure = "found" THEN GotoLoop("readopt") ELSE Goto("idle")
    /\ LeaveEnsure
    /\ UNCHANGED <<disk, frame>>

\* vector-bridge --check, its answer and the operator's.  No identity: one is
\* chosen.  An existing one is kept, or replaced on a yes.  Of the failures (the
\* key is no key, or the check could not run) only one that lies in the file is
\* offered a replacement; the others end the wizard.
Check ==
    /\ stage = "check"
    /\ \E runs, yes \in BOOLEAN :
        LET agreed ==
                \/ runs /\ file["nsec"] \in Identities \union {"bad"}
                \/ ~runs /\ file["nsec"] = "empty"
            goesOn == (yes /\ agreed) \/ (runs /\ file["nsec"] # "bad")
        IN  /\ stage' = (IF goesOn THEN "choose" ELSE "idle")
            /\ wipe' = (yes /\ agreed)
    /\ UNCHANGED <<disk, todo, source, moved, baks, result, frame, installVars>>

\* Create or import (nothing to choose for an identity that is kept), profile,
\* operator npub: an answer may end the wizard.
Choose ==
    /\ stage = "choose"
    /\ \/ /\ source' \in IF wipe \/ file["nsec"] \notin Identities THEN Sources ELSE {Create}
          /\ stage' = IF wipe THEN "backup" ELSE "run"
          /\ todo' = IF wipe THEN Name ELSE todo
          /\ UNCHANGED <<wipe, moved, baks, result>>
       \/ Goto("idle")
    /\ UNCHANGED <<disk, frame, installVars>>

\* The body of the try ends: the finally clause visits what baks holds.
Finally(ok) ==
    /\ stage' = "finally" /\ todo' = baks
    /\ result' = ok
    /\ UNCHANGED <<wipe, source, moved, baks>>

BackupOne(n) ==
    /\ stage = "backup"
    /\ \/ /\ Visit(n) /\ Backup(n)
          /\ UNCHANGED <<stage, wipe, source, baks, result>>
       \/ Turn(n) /\ BackupFails(n) /\ Finally("none")
    /\ UNCHANGED <<frame, installVars>>

\* Only the return of _backup_identity tells the wizard what it moved.
BackedUp ==
    /\ stage = "backup" /\ todo = {}
    /\ baks' = moved
    /\ stage' = "run"
    /\ UNCHANGED <<disk, todo, wipe, source, moved, result, frame, installVars>>

\* The temporary secret is written and the child started, or one of them fails.
RunSetup ==
    /\ stage = "run"
    /\ \/ /\ child' = [NoChild EXCEPT !.at = "read", !.source = source, !.agreed = wipe]
          /\ Goto("wait")
       \/ Finally("none") /\ UNCHANGED child
    /\ UNCHANGED <<disk, npub, wizards, halted, unrestored, installVars>>

\* Mutant of SetupReturned: an npub in the output is taken for success.
SetupReturnedAnyway ==
    /\ stage = "wait"
    /\ Finally(child.id)
    /\ child' = NoChild
    /\ UNCHANGED <<disk, npub, wizards, halted, unrestored, installVars>>

\* The child ended, or timed out and was killed.
SetupReturned ==
    /\ stage = "wait"
    /\ Finally(IF child.at = "done" THEN child.id ELSE "none")
    /\ child' = NoChild
    /\ UNCHANGED <<disk, npub, wizards, halted, unrestored, installVars>>

\* Mutant of FinallyOne: the backups are discarded on failure, too.
FinallyDiscards(n) ==
    /\ stage = "finally" /\ Visit(n)
    /\ Discard(n)
    /\ UNCHANGED <<npub, stage, wipe, source, moved, baks, result, child,
                   wizards, halted, installVars>>

FinallyOne(n) ==
    /\ stage = "finally" /\ Visit(n)
    /\ IF result # "none" THEN Discard(n) ELSE Restore(n)
    /\ UNCHANGED <<npub, stage, wipe, source, moved, baks, result, child,
                   wizards, halted, installVars>>

FinallyDone ==
    /\ stage = "finally" /\ todo = {}
    /\ Goto(IF result # "none" THEN "save" ELSE "idle")
    /\ UNCHANGED <<disk, frame, installVars>>

SaveEnv ==
    /\ stage = "save"
    /\ npub' = result
    /\ halted' = FALSE
    /\ Goto("idle")
    /\ UNCHANGED <<disk, child, wizards, unrestored, installVars>>

\* Ctrl+C.  Inside the try it runs the finally clause, and subprocess.run kills
\* the child; elsewhere it ends the wizard.
Interrupt ==
    /\ stage # "idle"
    /\ IF stage \in {"backup", "run", "wait"}
       THEN Finally("none") /\ UNCHANGED <<halted, installVars>>
       ELSE /\ Goto("idle")
            /\ halted' = (halted \/ stage \in {"finally", "save"})
            /\ AbandonEnsure
    /\ child' = NoChild
    /\ UNCHANGED <<disk, npub, wizards, unrestored>>

\* The wizard's process is killed; its child goes on.
Kill ==
    /\ stage # "idle"
    /\ Goto("idle")
    /\ halted' = TRUE
    /\ AbandonEnsure
    /\ UNCHANGED <<disk, npub, child, wizards, unrestored>>

-------------------------------------------------------------------------------
(***************************************************************************)
(* vector-bridge --setup                                                   *)
(***************************************************************************)

ChildTo(at) == child' = [child EXCEPT !.at = at]
ChildFrame == UNCHANGED <<npub, wizardVars, wizards, halted, unrestored, installVars>>

\* An existing identity is reported and nothing is written.
ChildRead ==
    /\ child.at = "read"
    /\ LET key == file["nsec"] IN
       \/ /\ key \in Identities
          /\ child' = [child EXCEPT !.id = key, !.at = "done"]
       \/ /\ key \in {"none", "empty"}
          /\ \E i \in IF child.source = Create THEN Fresh ELSE {child.source.id} :
                child' = [child EXCEPT !.id = i, !.at = "nsec"]
       \/ ChildTo("failed")     \* no key, or nothing that can be imported
    /\ UNCHANGED disk /\ ChildFrame

AfterWrite(n) ==
    IF n = "nsec" /\ child.source.how # "nsec" THEN "mnemonic" ELSE "done"

\* write_restricted: the file is truncated, then written in one call.
ChildOpen(n) ==
    /\ child.at = n /\ ~child.open
    /\ file' = [file EXCEPT ![n] = "empty"]
    /\ child' = [child EXCEPT !.open = TRUE]
    /\ UNCHANGED bak /\ ChildFrame

ChildWrite(n) ==
    /\ child.at = n /\ child.open
    /\ file' = [file EXCEPT ![n] = child.id]
    /\ child' = [child EXCEPT !.at = AfterWrite(n), !.open = FALSE]
    /\ UNCHANGED bak /\ ChildFrame

\* An open or a write fails, or the child dies.
ChildFails ==
    /\ child.at \notin {"none", "failed", "done"}
    /\ ChildTo("failed")
    /\ UNCHANGED disk /\ ChildFrame

\* A child whose wizard was killed ends unheard.
OrphanEnds ==
    /\ stage = "idle" /\ child.at \in {"failed", "done"}
    /\ child' = NoChild
    /\ UNCHANGED disk /\ ChildFrame

-------------------------------------------------------------------------------
Update == stage = "idle" /\ UpdatePlugin /\ UNCHANGED <<disk, wizardVars, frame>>

Wizard ==
    \/ StartWizard \/ Adopted \/ Confirm \/ BinaryStep \/ BinaryEnsured \/ Check
    \/ Choose \/ BackedUp \/ RunSetup \/ SetupReturned \/ FinallyDone \/ SaveEnv
    \/ \E n \in Name : Adopt(n) \/ BackupOne(n) \/ FinallyOne(n)

Child ==
    \/ ChildRead \/ ChildFails \/ OrphanEnds
    \/ \E n \in Name : ChildOpen(n) \/ ChildWrite(n)

SetupNext == Wizard \/ Child \/ Interrupt \/ Kill \/ Update

SetupSpec == SetupInit /\ [][SetupNext]_setupVars

-------------------------------------------------------------------------------
(***************************************************************************)
(* Properties                                                              *)
(***************************************************************************)

SetupTypeOK ==
    /\ InstallTypeOK
    /\ {file, bak} \subseteq [Name -> Content]
    /\ {npub, result, child.id} \subseteq Identities \union {"none"}
    /\ {source, child.source} \subseteq Sources
    /\ stage \in Stages
    /\ {moved, baks} \subseteq SUBSET Name
    /\ wizards \in 0..MaxWizards

OnDisk(i) == i \in {file["nsec"], bak["nsec"]}

\* "Replacing identity.nsec creates a NEW bot.  Contacts will not recognize it":
\* no wizard, however the ones before it ended, puts another key into
\* identity.nsec while the old key is still there or in the backup, unless its
\* operator agreed, or a backup could not be put back.
NoSilentNewBot ==
    [][\A i \in Identities :
        file'["nsec"] = i /\ file["nsec"] # i /\ bak["nsec"] \in Identities \ {i}
        => child.agreed \/ unrestored]_setupVars

\* There is always a complete key, in place or as the backup, once there was one;
\* a damaged or cut key is put back over the key of a setup that failed.
Keyed == file["nsec"] \in Identities \/ bak["nsec"] \in Identities
IdentityKept ==
    [][Keyed => Keyed' \/ unrestored \/ bak["nsec"] \in {"empty", "bad"}]_setupVars

\* The seed of a key that is on disk is lost only in a wizard whose operator agreed
\* to replace that key (or imports its seed again): not by what an earlier wizard
\* left behind.
Seed(i) == i \in {file["mnemonic"], bak["mnemonic"]}
SeedKept ==
    [][\A i \in Identities :
        OnDisk(i) /\ Seed(i) /\ OnDisk(i)'
        => Seed(i)' \/ wipe \/ child.id = i \/ unrestored]_setupVars

\* The npub the operator shares is that of a key on disk, unless the last wizard
\* was cut short, a backup could not be put back, or the key was damaged.
ReportedIsOnDisk ==
    stage = "idle" /\ ~halted /\ ~unrestored /\ npub # "none"
        /\ "bad" \notin {file["nsec"], bak["nsec"]}
    => OnDisk(npub)
===============================================================================
