-------------------------- MODULE GatewaySetup_proofs --------------------------
(***************************************************************************)
(* Proofs about setup, for any identities, wizards and versions: what      *)
(* wizards that fail, are interrupted or are killed at any step, and the   *)
(* children they leave behind, do to identity.nsec, identity.mnemonic and  *)
(* their backups, and what they and the updates do to the install.         *)
(***************************************************************************)
EXTENDS GatewaySetup, TLAPS

ChildStages == {"none", "read", "nsec", "mnemonic", "failed", "done"}

\* SetupTypeOK, without the install and with what the rest needs of it.
TypeInv ==
    /\ file \in [Name -> Content] /\ bak \in [Name -> Content]
    /\ npub \in Identities \union {"none"} /\ result \in Identities \union {"none"}
    /\ stage \in Stages /\ todo \subseteq Name
    /\ wipe \in BOOLEAN /\ halted \in BOOLEAN /\ unrestored \in BOOLEAN
    /\ source \in Sources
    /\ moved \subseteq Name /\ baks \subseteq Name
    /\ child \in [at : ChildStages, open : BOOLEAN, source : Sources,
                  agreed : BOOLEAN, id : Identities \union {"none"}]

\* Where the wizard is, and what it holds there.  Its child runs while it waits, or
\* after it was killed.
StageInv ==
    /\ child.at # "none" => stage = "wait" \/ (stage = "idle" /\ halted)
    /\ child.at = "none" => child = NoChild /\ stage # "wait"
    /\ stage = "backup" => wipe
    /\ stage \in {"adopt", "confirm", "decline", "binary", "readopt", "check",
                  "choose", "backup"} => baks = {}
    /\ baks # {} => wipe
    /\ stage = "finally" => todo \subseteq baks
    /\ child.at # "none" => child.agreed = wipe
    /\ ensure # "idle" => stage \in {"binary", "decline"}

\* A key that is damaged is not in place over a complete one.
NoKeyUnderBad == file["nsec"] = "bad" => bak["nsec"] \notin Identities

\* No backup waits to be put in place of a missing identity.nsec.
Settled ==
    file["nsec"] \in {"none", "empty"} => bak["nsec"] = "none" \/ unrestored

\* Once the wizard has adopted what an earlier one left, until it moves the file.
SettledInv ==
    \/ stage = "readopt" /\ "nsec" \notin todo
    \/ stage \in {"check", "choose"}
    \/ stage = "backup" /\ "nsec" \in todo
    \/ stage = "run" /\ ~wipe
    \/ child.at = "read" /\ ~child.agreed
    => Settled

\* The child writes a key only where there is none, and without the operator's
\* consent only where no backup holds another one.
ChildInv ==
    /\ child.at \in {"nsec", "mnemonic", "done"} => child.id \in Identities
    /\ child.at = "nsec" => file["nsec"] \in {"none", "empty"}
    /\ child.at \in {"mnemonic", "done"} => file["nsec"] = child.id
    /\ child.at = "mnemonic" /\ child.open => file["mnemonic"] = "empty"
    /\ child.at \in {"nsec", "mnemonic"} /\ ~child.agreed
        => bak["nsec"] \notin Identities \/ unrestored

\* A wizard that reports success has the key in place.
ResultInv ==
    stage \in {"finally", "save"} /\ result # "none" => file["nsec"] = result
SavedInv == stage = "save" => result # "none"

IdentityInv ==
    /\ TypeInv /\ StageInv /\ NoKeyUnderBad /\ SettledInv /\ ChildInv
    /\ ResultInv /\ SavedInv

-------------------------------------------------------------------------------
(***************************************************************************)
(* The invariant is inductive                                              *)
(***************************************************************************)

\* Before the first wizard there is no backup and no child.
LEMMA IdentityInvInit == SetupInit => IdentityInv
  <1> SUFFICES ASSUME SetupInit PROVE IdentityInv
    OBVIOUS
  <1>1. TypeInv
    <2>1. file \in [Name -> Content] /\ npub \in Identities \union {"none"}
      BY DEF SetupInit, Name, Content
    <2> QED
      BY <2>1
         DEF SetupInit, TypeInv, Name, Content, Stages, Sources, Create, NoChild,
             ChildStages
  <1>2. IdentityInv
    BY <1>1, SetupAssumption
     DEF SetupInit, InstallInit, IdentityInv, TypeInv, StageInv, NoKeyUnderBad, SettledInv,
         Settled, ChildInv, ResultInv, SavedInv, Name, Content, Stages, Sources,
         Create, NoChild, ChildStages
  <1> QED BY <1>2

\* An identity is none of the other things a file may hold.
LEMMA NotAKey ==
    /\ "none" \notin Identities /\ "empty" \notin Identities
    /\ "bad" \notin Identities
  BY SetupAssumption

\* The steps on the identity files keep each of them a file.
LEMMA FilesTyped ==
    ASSUME file \in [Name -> Content], bak \in [Name -> Content],
           unrestored \in BOOLEAN, moved \subseteq Name, NEW n \in Name
    PROVE  /\ Restore(n) \/ Discard(n)
                => /\ file' \in [Name -> Content] /\ bak' \in [Name -> Content]
                   /\ unrestored' \in BOOLEAN
           /\ Backup(n) \/ BackupFails(n)
                => /\ file' \in [Name -> Content] /\ bak' \in [Name -> Content]
                   /\ moved' \subseteq Name
  <1>1. "none" \in Content /\ file[n] \in Content /\ bak[n] \in Content
    BY DEF Content
  <1>2. Restore(n) \/ Discard(n)
          => /\ file' \in [Name -> Content] /\ bak' \in [Name -> Content]
             /\ unrestored' \in BOOLEAN
    BY <1>1 DEF Restore, Discard, disk
  <1>3. Backup(n) \/ BackupFails(n)
          => /\ file' \in [Name -> Content] /\ bak' \in [Name -> Content]
             /\ moved' \subseteq Name
    BY <1>1 DEF Backup, BackupFails, disk
  <1> QED BY <1>2, <1>3

\* What an import names is an identity.
LEMMA ImportsNameIdentities ==
    /\ Create \in Sources
    /\ \A s \in Sources : /\ s # Create => s.id \in Identities
                         /\ s.id \in Identities \union {"none"}
BY DEF Create, Sources

\* The types, one step per action of the wizard and of its child.
LEMMA TypeInvNext ==
    ASSUME TypeInv, [SetupNext]_setupVars
    PROVE  TypeInv'
  <1> USE ImportsNameIdentities, FilesTyped DEF TypeInv, Stages, ChildStages
  <1>0. CASE UNCHANGED setupVars
    BY <1>0 DEF setupVars, wizardVars
  <1>1. CASE StartWizard
    BY <1>1 DEF StartWizard, disk, Name
  <1>2. CASE Adopted
    BY <1>2 DEF Adopted, Goto, disk, frame
  <1>3. CASE Confirm
    BY <1>3 DEF Confirm, Goto, disk, frame
  <1>4. CASE BinaryStep
    BY <1>4 DEF BinaryStep, disk, frame, wizardVars
  <1>5. CASE BinaryEnsured
    BY <1>5 DEF BinaryEnsured, Goto, GotoLoop, disk, frame
  <1>6. CASE Check
    BY <1>6 DEF Check, disk, frame
  <1>7. CASE Choose
    BY <1>7 DEF Choose, Goto, disk, frame
  <1>8. CASE BackedUp
    BY <1>8 DEF BackedUp, disk, frame
  <1>9. CASE RunSetup
    BY <1>9 DEF RunSetup, Goto, Finally, NoChild, disk
  <1>10. CASE SetupReturned
    BY <1>10 DEF SetupReturned, Finally, NoChild, disk
  <1>11. CASE FinallyDone
    BY <1>11 DEF FinallyDone, Goto, disk, frame
  <1>12. CASE SaveEnv
    BY <1>12 DEF SaveEnv, Goto, disk
  <1>13. ASSUME NEW n \in Name, Adopt(n) PROVE TypeInv'
    BY <1>13 DEF Adopt, Visit, disk
  <1>14. ASSUME NEW n \in Name, BackupOne(n) PROVE TypeInv'
    BY <1>14 DEF BackupOne, Visit, Finally, disk, frame
  <1>15. ASSUME NEW n \in Name, FinallyOne(n) PROVE TypeInv'
    BY <1>15 DEF FinallyOne, Visit, disk
  <1>16. CASE ChildRead
    <2> DEFINE C == [at : ChildStages, open : BOOLEAN, source : Sources,
                     agreed : BOOLEAN, id : Identities \union {"none"}]
    <2>1. child' \in C
      <3>1. CASE /\ file["nsec"] \in Identities
                 /\ child' = [child EXCEPT !.id = file["nsec"], !.at = "done"]
        BY <3>1
      <3>2. ASSUME NEW i \in IF child.source = Create THEN Fresh ELSE {child.source.id},
                   child' = [child EXCEPT !.id = i, !.at = "nsec"]
            PROVE  child' \in C
        BY <3>2 DEF Fresh
      <3>3. CASE ChildTo("failed")
        BY <3>3 DEF ChildTo
      <3> QED BY <1>16, <3>1, <3>2, <3>3 DEF ChildRead
    <2> QED BY <1>16, <2>1 DEF ChildRead, ChildFrame, wizardVars, disk
  <1>17. CASE ChildFails
    BY <1>17 DEF ChildFails, ChildTo, ChildFrame, wizardVars, disk
  <1>18. CASE OrphanEnds
    BY <1>18 DEF OrphanEnds, NoChild, ChildFrame, wizardVars, disk
  <1>19. ASSUME NEW n \in Name, ChildOpen(n) PROVE TypeInv'
    BY <1>19 DEF ChildOpen, ChildFrame, wizardVars, Content
  <1>20. ASSUME NEW n \in Name, ChildWrite(n) PROVE TypeInv'
    <2>1. AfterWrite(n) \in ChildStages
      BY DEF AfterWrite
    <2>2. child.id \in Content
      BY DEF Content
    <2>3. file' \in [Name -> Content]
      BY <1>20, <2>2 DEF ChildWrite
    <2>4. child' \in [at : ChildStages, open : BOOLEAN, source : Sources,
                      agreed : BOOLEAN, id : Identities \union {"none"}]
      BY <1>20, <2>1 DEF ChildWrite
    <2> QED BY <1>20, <2>3, <2>4 DEF ChildWrite, ChildFrame, wizardVars
  <1>21. CASE Interrupt
    BY <1>21 DEF Interrupt, Goto, Finally, NoChild, disk
  <1>22. CASE Kill
    BY <1>22 DEF Kill, Goto, disk
  <1>23. CASE Update
    BY <1>23 DEF Update, wizardVars, disk, frame
  <1> QED
    BY <1>0, <1>1, <1>2, <1>3, <1>4, <1>5, <1>6, <1>7, <1>8, <1>9, <1>10, <1>11,
       <1>12, <1>13, <1>14, <1>15, <1>16, <1>17, <1>18, <1>19, <1>20, <1>21,
       <1>22, <1>23
       DEF SetupNext, Wizard, Child

\* What relates the wizard and its child to the files, action by action.
LEMMA IdentityInvNext ==
    ASSUME IdentityInv, [SetupNext]_setupVars
    PROVE  IdentityInv'
  <1> USE NotAKey
      DEF IdentityInv, TypeInv, StageInv, NoKeyUnderBad, SettledInv, Settled,
          ChildInv, ResultInv, SavedInv, Name, Content, Stages, Sources, Create,
          NoChild, ChildStages, disk, frame, wizardVars, installVars
  <1>a. TypeInv'
    BY TypeInvNext
  <1>0. CASE UNCHANGED setupVars
    BY <1>0 DEF setupVars
  <1>1. CASE StartWizard
    <2>1. StageInv'
      BY <1>1 DEF StartWizard
    <2>2. NoKeyUnderBad' /\ SettledInv'
      BY <1>1 DEF StartWizard
    <2>3. ChildInv'
      BY <1>1 DEF StartWizard
    <2>4. ResultInv' /\ SavedInv'
      BY <1>1 DEF StartWizard
    <2> QED BY <1>a, <2>1, <2>2, <2>3, <2>4
  <1>2. CASE Adopted
    <2>1. StageInv'
      BY <1>2 DEF Adopted, Goto
    <2>2. NoKeyUnderBad'
      BY <1>2 DEF Adopted, Goto
    <2>3. SettledInv'
      BY <1>2 DEF Adopted, Goto
    <2>4. ChildInv'
      BY <1>2 DEF Adopted, Goto
    <2>5. ResultInv'
      BY <1>2 DEF Adopted, Goto
    <2>6. SavedInv'
      BY <1>2 DEF Adopted, Goto
    <2> QED BY <1>a, <2>1, <2>2, <2>3, <2>4, <2>5, <2>6
  <1>3. CASE Confirm
    <2>1. /\ stage = "confirm" /\ stage' \in {"binary", "decline"}
          /\ UNCHANGED <<todo, wipe, source, moved, baks, result>>
          /\ UNCHANGED <<disk, frame>>
      BY <1>3 DEF Confirm, Goto
    <2>2. StageInv'
      BY <2>1
    <2>3. /\ NoKeyUnderBad' /\ SettledInv' /\ ChildInv'
          /\ ResultInv' /\ SavedInv'
      BY <2>1
    <2> QED BY <1>a, <2>2, <2>3
  <1>4. CASE BinaryStep
    <2>1. ensure # "idle" /\ UNCHANGED <<disk, wizardVars, frame>>
      BY <1>4 DEF BinaryStep, EnsureStep, Resolve, Fetch, ReplaceBinary,
                  WriteStamp, CargoBuild
    <2> QED BY <2>1
  <1>5. CASE BinaryEnsured
    <2>1. StageInv'
      BY <1>5 DEF BinaryEnsured, Goto, GotoLoop, LeaveEnsure
    <2>2. NoKeyUnderBad'
      BY <1>5 DEF BinaryEnsured, Goto, GotoLoop, LeaveEnsure
    <2>3. SettledInv'
      BY <1>5 DEF BinaryEnsured, Goto, GotoLoop, LeaveEnsure
    <2>4. ChildInv'
      BY <1>5 DEF BinaryEnsured, Goto, GotoLoop, LeaveEnsure
    <2>5. ResultInv'
      BY <1>5 DEF BinaryEnsured, Goto, GotoLoop, LeaveEnsure
    <2>6. SavedInv'
      BY <1>5 DEF BinaryEnsured, Goto, GotoLoop, LeaveEnsure
    <2> QED BY <1>a, <2>1, <2>2, <2>3, <2>4, <2>5, <2>6
  <1>6. CASE Check
    <2>1. StageInv'
      BY <1>6 DEF Check
    <2>2. NoKeyUnderBad'
      BY <1>6 DEF Check
    <2>3. SettledInv'
      BY <1>6 DEF Check
    <2>4. ChildInv'
      BY <1>6 DEF Check
    <2>5. ResultInv'
      BY <1>6 DEF Check
    <2>6. SavedInv'
      BY <1>6 DEF Check
    <2> QED BY <1>a, <2>1, <2>2, <2>3, <2>4, <2>5, <2>6
  <1>7. CASE Choose
    <2>1. StageInv'
      BY <1>7 DEF Choose, Goto
    <2>2. NoKeyUnderBad'
      BY <1>7 DEF Choose, Goto
    <2>3. SettledInv'
      BY <1>7 DEF Choose, Goto
    <2>4. ChildInv'
      BY <1>7 DEF Choose, Goto
    <2>5. ResultInv'
      BY <1>7 DEF Choose, Goto
    <2>6. SavedInv'
      BY <1>7 DEF Choose, Goto
    <2> QED BY <1>a, <2>1, <2>2, <2>3, <2>4, <2>5, <2>6
  <1>8. CASE BackedUp
    <2>1. StageInv'
      BY <1>8 DEF BackedUp
    <2>2. NoKeyUnderBad'
      BY <1>8 DEF BackedUp
    <2>3. SettledInv'
      BY <1>8 DEF BackedUp
    <2>4. ChildInv'
      BY <1>8 DEF BackedUp
    <2>5. ResultInv'
      BY <1>8 DEF BackedUp
    <2>6. SavedInv'
      BY <1>8 DEF BackedUp
    <2> QED BY <1>a, <2>1, <2>2, <2>3, <2>4, <2>5, <2>6
  <1>9. CASE RunSetup
    <2>1. StageInv'
      BY <1>9 DEF RunSetup, Goto, Finally
    <2>2. NoKeyUnderBad' /\ SettledInv'
      BY <1>9 DEF RunSetup, Goto, Finally
    <2>3. ChildInv'
      BY <1>9 DEF RunSetup, Goto, Finally
    <2>4. ResultInv' /\ SavedInv'
      BY <1>9 DEF RunSetup, Goto, Finally
    <2> QED BY <1>a, <2>1, <2>2, <2>3, <2>4
  <1>10. CASE SetupReturned
    <2>1. StageInv'
      BY <1>10 DEF SetupReturned, Finally
    <2>2. NoKeyUnderBad' /\ SettledInv'
      BY <1>10 DEF SetupReturned, Finally
    <2>3. ChildInv'
      BY <1>10 DEF SetupReturned, Finally
    <2>4. ResultInv' /\ SavedInv'
      BY <1>10 DEF SetupReturned, Finally
    <2> QED BY <1>a, <2>1, <2>2, <2>3, <2>4
  <1>11. CASE FinallyDone
    <2>1. StageInv'
      BY <1>11 DEF FinallyDone, Goto
    <2>2. NoKeyUnderBad' /\ SettledInv'
      BY <1>11 DEF FinallyDone, Goto
    <2>3. ChildInv'
      BY <1>11 DEF FinallyDone, Goto
    <2>4. ResultInv' /\ SavedInv'
      BY <1>11 DEF FinallyDone, Goto
    <2> QED BY <1>a, <2>1, <2>2, <2>3, <2>4
  <1>12. CASE SaveEnv
    <2>1. StageInv'
      BY <1>12 DEF SaveEnv, Goto
    <2>2. NoKeyUnderBad' /\ SettledInv'
      BY <1>12 DEF SaveEnv, Goto
    <2>3. ChildInv'
      BY <1>12 DEF SaveEnv, Goto
    <2>4. ResultInv' /\ SavedInv'
      BY <1>12 DEF SaveEnv, Goto
    <2> QED BY <1>a, <2>1, <2>2, <2>3, <2>4
  <1>13. ASSUME NEW n \in Name, Adopt(n) PROVE IdentityInv'
    <2>1. StageInv'
      BY <1>13 DEF Adopt, Visit, Turn, Restore
    <2>2. NoKeyUnderBad'
      BY <1>13 DEF Adopt, Visit, Turn, Restore
    <2>3. SettledInv'
      BY <1>13 DEF Adopt, Visit, Turn, Restore
    <2>4. ChildInv'
      BY <1>13 DEF Adopt, Visit, Turn, Restore
    <2>5. ResultInv'
      BY <1>13 DEF Adopt, Visit, Turn, Restore
    <2>6. SavedInv'
      BY <1>13 DEF Adopt, Visit, Turn, Restore
    <2> QED BY <1>a, <2>1, <2>2, <2>3, <2>4, <2>5, <2>6
  <1>14. ASSUME NEW n \in Name, BackupOne(n) PROVE IdentityInv'
    <2>1. StageInv'
      BY <1>14 DEF BackupOne, Visit, Turn, Backup, BackupFails, Finally
    <2>2. NoKeyUnderBad'
      <3>1. CASE Backup(n)
        BY <1>14, <3>1 DEF Backup
      <3>2. CASE BackupFails(n)
        BY <1>14, <3>2 DEF BackupFails
      <3> QED BY <1>14, <3>1, <3>2 DEF BackupOne
    <2>3. SettledInv'
      BY <1>14 DEF BackupOne, Visit, Turn, Backup, BackupFails, Finally
    <2>4. ChildInv'
      BY <1>14 DEF BackupOne, Visit, Turn, Backup, BackupFails, Finally
    <2>5. ResultInv'
      BY <1>14 DEF BackupOne, Visit, Turn, Backup, BackupFails, Finally
    <2>6. SavedInv'
      BY <1>14 DEF BackupOne, Visit, Turn, Backup, BackupFails, Finally
    <2> QED BY <1>a, <2>1, <2>2, <2>3, <2>4, <2>5, <2>6
  <1>15. ASSUME NEW n \in Name, FinallyOne(n) PROVE IdentityInv'
    <2>1. StageInv'
      BY <1>15 DEF FinallyOne, Visit, Turn, Discard, Restore
    <2>2. NoKeyUnderBad'
      BY <1>15 DEF FinallyOne, Visit, Turn, Discard, Restore
    <2>3. SettledInv'
      BY <1>15 DEF FinallyOne, Visit, Turn, Discard, Restore
    <2>4. ChildInv'
      BY <1>15 DEF FinallyOne, Visit, Turn, Discard, Restore
    <2>5. ResultInv'
      BY <1>15 DEF FinallyOne, Visit, Turn, Discard, Restore
    <2>6. SavedInv'
      BY <1>15 DEF FinallyOne, Visit, Turn, Discard, Restore
    <2> QED BY <1>a, <2>1, <2>2, <2>3, <2>4, <2>5, <2>6
  <1>16. CASE ChildRead
    <2>1. CASE /\ file["nsec"] \in Identities
               /\ child' = [child EXCEPT !.id = file["nsec"], !.at = "done"]
      <3>1. StageInv' /\ NoKeyUnderBad'
        BY <1>16, <2>1 DEF ChildRead, ChildFrame
      <3>2. SettledInv' /\ ChildInv' /\ ResultInv' /\ SavedInv'
        BY <1>16, <2>1 DEF ChildRead, ChildFrame
      <3> QED BY <1>a, <3>1, <3>2
    <2>2. ASSUME file["nsec"] \in {"none", "empty"}, child.at = "read",
                 NEW i \in IF child.source = Create THEN Fresh ELSE {child.source.id},
                 child' = [child EXCEPT !.id = i, !.at = "nsec"]
          PROVE  IdentityInv'
      <3>1. i \in Identities
        BY <2>2 DEF Fresh
      <3>2. StageInv' /\ NoKeyUnderBad'
        BY <1>16, <2>2, <3>1 DEF ChildRead, ChildFrame
      <3>3. SettledInv' /\ ChildInv' /\ ResultInv' /\ SavedInv'
        BY <1>16, <2>2, <3>1 DEF ChildRead, ChildFrame
      <3> QED BY <1>a, <3>2, <3>3
    <2>3. CASE ChildTo("failed")
      BY <1>16, <2>3 DEF ChildRead, ChildTo, ChildFrame
    <2> QED BY <1>16, <2>1, <2>2, <2>3 DEF ChildRead
  <1>17. CASE ChildFails
    <2>1. StageInv'
      BY <1>17 DEF ChildFails, ChildTo, ChildFrame
    <2>2. NoKeyUnderBad' /\ SettledInv'
      BY <1>17 DEF ChildFails, ChildTo, ChildFrame
    <2>3. ChildInv'
      BY <1>17 DEF ChildFails, ChildTo, ChildFrame
    <2>4. ResultInv' /\ SavedInv'
      BY <1>17 DEF ChildFails, ChildTo, ChildFrame
    <2> QED BY <1>a, <2>1, <2>2, <2>3, <2>4
  <1>18. CASE OrphanEnds
    <2>1. StageInv'
      BY <1>18 DEF OrphanEnds, ChildFrame
    <2>2. NoKeyUnderBad' /\ SettledInv'
      BY <1>18 DEF OrphanEnds, ChildFrame
    <2>3. ChildInv'
      BY <1>18 DEF OrphanEnds, ChildFrame
    <2>4. ResultInv' /\ SavedInv'
      BY <1>18 DEF OrphanEnds, ChildFrame
    <2> QED BY <1>a, <2>1, <2>2, <2>3, <2>4
  <1>19. ASSUME NEW n \in Name, ChildOpen(n) PROVE IdentityInv'
    <2>1. StageInv'
      BY <1>19 DEF ChildOpen, ChildFrame
    <2>2. NoKeyUnderBad'
      BY <1>19 DEF ChildOpen, ChildFrame
    <2>3. SettledInv'
      BY <1>19 DEF ChildOpen, ChildFrame
    <2>4. ChildInv'
      BY <1>19 DEF ChildOpen, ChildFrame
    <2>5. ResultInv'
      BY <1>19 DEF ChildOpen, ChildFrame
    <2>6. SavedInv'
      BY <1>19 DEF ChildOpen, ChildFrame
    <2> QED BY <1>a, <2>1, <2>2, <2>3, <2>4, <2>5, <2>6
  <1>20. ASSUME NEW n \in Name, ChildWrite(n) PROVE IdentityInv'
    <2>1. StageInv'
      BY <1>20 DEF ChildWrite, ChildFrame, AfterWrite
    <2>2. NoKeyUnderBad'
      BY <1>20 DEF ChildWrite, ChildFrame, AfterWrite
    <2>3. SettledInv'
      BY <1>20 DEF ChildWrite, ChildFrame, AfterWrite
    <2>4. ChildInv'
      BY <1>20 DEF ChildWrite, ChildFrame, AfterWrite
    <2>5. ResultInv'
      BY <1>20 DEF ChildWrite, ChildFrame, AfterWrite
    <2>6. SavedInv'
      BY <1>20 DEF ChildWrite, ChildFrame, AfterWrite
    <2> QED BY <1>a, <2>1, <2>2, <2>3, <2>4, <2>5, <2>6
  <1>21. CASE Interrupt
    <2>1. StageInv'
      BY <1>21 DEF Interrupt, Goto, Finally, AbandonEnsure
    <2>2. NoKeyUnderBad' /\ SettledInv'
      BY <1>21 DEF Interrupt, Goto, Finally, AbandonEnsure
    <2>3. ChildInv'
      BY <1>21 DEF Interrupt, Goto, Finally, AbandonEnsure
    <2>4. ResultInv' /\ SavedInv'
      BY <1>21 DEF Interrupt, Goto, Finally, AbandonEnsure
    <2> QED BY <1>a, <2>1, <2>2, <2>3, <2>4
  <1>22. CASE Kill
    <2>1. StageInv'
      BY <1>22 DEF Kill, Goto, AbandonEnsure
    <2>2. NoKeyUnderBad' /\ SettledInv'
      BY <1>22 DEF Kill, Goto, AbandonEnsure
    <2>3. ChildInv'
      BY <1>22 DEF Kill, Goto, AbandonEnsure
    <2>4. ResultInv' /\ SavedInv'
      BY <1>22 DEF Kill, Goto, AbandonEnsure
    <2> QED BY <1>a, <2>1, <2>2, <2>3, <2>4
  <1>23. CASE Update
    <2>1. StageInv'
      BY <1>23 DEF Update, UpdatePlugin
    <2>2. NoKeyUnderBad' /\ SettledInv'
      BY <1>23 DEF Update, UpdatePlugin
    <2>3. ChildInv'
      BY <1>23 DEF Update, UpdatePlugin
    <2>4. ResultInv' /\ SavedInv'
      BY <1>23 DEF Update, UpdatePlugin
    <2> QED BY <1>a, <2>1, <2>2, <2>3, <2>4
  <1> QED
    BY <1>0, <1>1, <1>2, <1>3, <1>4, <1>5, <1>6, <1>7, <1>8, <1>9, <1>10, <1>11,
       <1>12, <1>13, <1>14, <1>15, <1>16, <1>17, <1>18, <1>19, <1>20, <1>21,
       <1>22, <1>23
       DEF SetupNext, Wizard, Child

LEMMA IdentityInvAlways == SetupSpec => []IdentityInv
  BY IdentityInvInit, IdentityInvNext, PTL DEF SetupSpec
-------------------------------------------------------------------------------
(***************************************************************************)
(* What a step may do to the identity files                                *)
(***************************************************************************)

\* Five steps touch the four files: adopting, backing up, putting back or
\* discarding one, and the two halves of a write of the child.
LEMMA FileSteps ==
    ASSUME [SetupNext]_setupVars
    PROVE  \/ UNCHANGED disk
           \/ \E n \in Name : \/ Adopt(n) \/ BackupOne(n) \/ FinallyOne(n)
                              \/ ChildOpen(n) \/ ChildWrite(n)
  BY DEF SetupNext, Wizard, Child, setupVars, disk, StartWizard, Adopted, Confirm,
         BinaryStep, BinaryEnsured, Check, Choose, BackedUp, RunSetup,
         SetupReturned, FinallyDone, SaveEnv, ChildRead, ChildFails, OrphanEnds,
         Interrupt, Kill, Update

\* A key is never the last one to go.  A backup is overwritten only while
\* identity.nsec is complete or the backup is worth nothing (SettledInv,
\* NoKeyUnderBad), and discarded only when a new key is in place (ResultInv).
THEOREM AKeyIsKept == SetupSpec => IdentityKept
  <1>1. ASSUME IdentityInv, [SetupNext]_setupVars, Keyed
        PROVE  Keyed' \/ unrestored \/ bak["nsec"] \in {"empty", "bad"}
    <2> USE NotAKey DEF IdentityInv, TypeInv, Name, Content, Keyed, disk
    <2>1. CASE UNCHANGED disk
      BY <1>1, <2>1
    <2>2. ASSUME NEW n \in Name, Adopt(n) PROVE Keyed'
      BY <1>1, <2>2 DEF Adopt, Restore
    <2>3. ASSUME NEW n \in Name, BackupOne(n) PROVE Keyed' \/ unrestored
      BY <1>1, <2>3 DEF BackupOne, Visit, Turn, Backup, BackupFails,
                        NoKeyUnderBad, SettledInv, Settled
    <2>4. ASSUME NEW n \in Name, FinallyOne(n)
          PROVE  Keyed' \/ bak["nsec"] \in {"empty", "bad"}
      BY <1>1, <2>4 DEF FinallyOne, Restore, Discard, ResultInv
    <2>5. ASSUME NEW n \in Name, ChildOpen(n) PROVE Keyed'
      BY <1>1, <2>5 DEF ChildOpen, ChildInv
    <2>6. ASSUME NEW n \in Name, ChildWrite(n) PROVE Keyed'
      BY <1>1, <2>6 DEF ChildWrite, ChildInv
    <2> QED BY <1>1, <2>1, <2>2, <2>3, <2>4, <2>5, <2>6, FileSteps
  <1> QED BY <1>1, IdentityInvAlways, PTL DEF SetupSpec, IdentityKept

\* Only a child puts a key where another one was; without the operator's consent
\* it found no other key in the backup, and no wizard runs meanwhile (ChildInv).
THEOREM NoBotIsReplacedSilently == SetupSpec => NoSilentNewBot
  <1>1. ASSUME IdentityInv, [SetupNext]_setupVars
        PROVE  \A i \in Identities :
                  file'["nsec"] = i /\ file["nsec"] # i
                      /\ bak["nsec"] \in Identities \ {i}
                  => child.agreed \/ unrestored
    <2> SUFFICES ASSUME NEW i \in Identities, file'["nsec"] = i, file["nsec"] # i,
                        bak["nsec"] \in Identities \ {i}
                 PROVE  child.agreed \/ unrestored
      OBVIOUS
    <2> USE NotAKey DEF IdentityInv, TypeInv, Name, disk
    <2>1. CASE UNCHANGED disk
      BY <1>1, <2>1
    <2>2. ASSUME NEW n \in Name, Adopt(n) PROVE FALSE
      BY <1>1, <2>2 DEF Adopt, Restore
    <2>3. ASSUME NEW n \in Name, BackupOne(n) PROVE FALSE
      BY <1>1, <2>3 DEF BackupOne, Backup, BackupFails
    <2>4. ASSUME NEW n \in Name, FinallyOne(n) PROVE FALSE
      BY <1>1, <2>4 DEF FinallyOne, Restore, Discard
    <2>5. ASSUME NEW n \in Name, ChildOpen(n) PROVE FALSE
      BY <1>1, <2>5 DEF ChildOpen
    <2>6. ASSUME NEW n \in Name, ChildWrite(n) PROVE child.agreed \/ unrestored
      BY <1>1, <2>6 DEF ChildWrite, ChildInv
    <2> QED BY <1>1, <2>1, <2>2, <2>3, <2>4, <2>5, <2>6, FileSteps
  <1> QED BY <1>1, IdentityInvAlways, PTL DEF SetupSpec, NoSilentNewBot

\* A wizard without consent touches a seed only to put it back where there is
\* none, and its child overwrites only the seed of a key that is nowhere on disk.
THEOREM TheSeedIsKept == SetupSpec => SeedKept
  <1>1. ASSUME IdentityInv, [SetupNext]_setupVars
        PROVE  \A i \in Identities :
                  OnDisk(i) /\ Seed(i) /\ OnDisk(i)'
                  => Seed(i)' \/ wipe \/ child.id = i \/ unrestored
    <2> SUFFICES ASSUME NEW i \in Identities, OnDisk(i), Seed(i), OnDisk(i)'
                 PROVE  Seed(i)' \/ wipe \/ child.id = i \/ unrestored
      OBVIOUS
    <2> USE NotAKey DEF IdentityInv, TypeInv, Name, disk, Seed, OnDisk
    <2>1. CASE UNCHANGED disk
      BY <1>1, <2>1
    <2>2. ASSUME NEW n \in Name, Adopt(n) PROVE Seed(i)'
      BY <1>1, <2>2 DEF Adopt, Restore
    <2>3. ASSUME NEW n \in Name, BackupOne(n) PROVE wipe
      BY <1>1, <2>3 DEF BackupOne, StageInv
    <2>4. ASSUME NEW n \in Name, FinallyOne(n) PROVE wipe
      BY <1>1, <2>4 DEF FinallyOne, Visit, Turn, StageInv
    <2>5. ASSUME NEW n \in Name, ChildOpen(n)
          PROVE  Seed(i)' \/ wipe \/ child.id = i \/ unrestored
      BY <1>1, <2>5 DEF ChildOpen, ChildInv, StageInv
    <2>6. ASSUME NEW n \in Name, ChildWrite(n) PROVE Seed(i)'
      BY <1>1, <2>6 DEF ChildWrite, ChildInv
    <2> QED BY <1>1, <2>1, <2>2, <2>3, <2>4, <2>5, <2>6, FileSteps
  <1> QED BY <1>1, IdentityInvAlways, PTL DEF SetupSpec, SeedKept
-------------------------------------------------------------------------------
(***************************************************************************)
(* The npub the operator shares                                            *)
(***************************************************************************)

\* The key of an npub, or a damaged one, is in place, or in the backup of a file
\* that is missing or cut.
InPlace(v) == file["nsec"] = v \/ (file["nsec"] \in {"none", "empty"} /\ bak["nsec"] = v)

Reported(v) ==
    CASE stage \in {"run", "wait"} ->
            IF "nsec" \in baks THEN bak["nsec"] = v ELSE file["nsec"] = v
      [] stage = "backup" ->
            IF "nsec" \in todo THEN file["nsec"] = v
            ELSE /\ bak["nsec"] = v /\ file["nsec"] = "none" /\ "nsec" \in moved
      [] stage = "finally" /\ result = "none" ->
            IF "nsec" \in todo THEN bak["nsec"] = v ELSE InPlace(v)
      [] stage = "save" \/ (stage = "finally" /\ result # "none") -> TRUE
      [] OTHER -> InPlace(v)

ReportedInv ==
    ~halted /\ ~unrestored /\ npub # "none" => Reported(npub) \/ Reported("bad")

\* Nothing is installed, no wizard runs and no backup exists at the start.
LEMMA ReportedInit == SetupInit => ReportedInv
  BY NotAKey DEF SetupInit, ReportedInv, Reported, InPlace, Name

\* One step per action; the steps of a child that has lost its wizard, and those
\* that end a wizard in the middle of its last steps, leave halted set.
LEMMA ReportedNext ==
    ASSUME IdentityInv, ReportedInv, [SetupNext]_setupVars
    PROVE  ReportedInv'
  <1> USE NotAKey
      DEF IdentityInv, TypeInv, StageInv, ReportedInv, Reported, InPlace, Name, disk,
          frame, wizardVars
  <1>0. CASE UNCHANGED setupVars
    BY <1>0 DEF setupVars
  <1>1. CASE StartWizard
    BY <1>1 DEF StartWizard
  <1>2. CASE Adopted
    BY <1>2 DEF Adopted, Goto
  <1>3. CASE Confirm
    BY <1>3 DEF Confirm, Goto
  <1>4. CASE BinaryStep
    BY <1>4 DEF BinaryStep
  <1>5. CASE BinaryEnsured
    BY <1>5 DEF BinaryEnsured, Goto, GotoLoop
  <1>6. CASE Check
    BY <1>6 DEF Check
  <1>7. CASE Choose
    BY <1>7 DEF Choose, Goto, SettledInv, Settled
  <1>8. CASE BackedUp
    BY <1>8 DEF BackedUp
  <1>9. CASE RunSetup
    BY <1>9 DEF RunSetup, Goto, Finally
  <1>10. CASE SetupReturned
    BY <1>10 DEF SetupReturned, Finally
  <1>11. CASE FinallyDone
    BY <1>11 DEF FinallyDone, Goto
  <1>12. CASE SaveEnv
    BY <1>12 DEF SaveEnv, Goto, ResultInv, SavedInv
  <1>13. ASSUME NEW n \in Name, Adopt(n) PROVE ReportedInv'
    BY <1>13 DEF Adopt, Visit, Turn, Restore
  <1>14. ASSUME NEW n \in Name, BackupOne(n) PROVE ReportedInv'
    <2>1. CASE Visit(n) /\ Backup(n) /\ UNCHANGED <<stage, wipe, source, baks, result>>
      BY <1>14, <2>1 DEF BackupOne, Visit, Turn, Backup
    <2>2. CASE Turn(n) /\ BackupFails(n) /\ Finally("none")
      BY <1>14, <2>2 DEF BackupOne, Turn, BackupFails, Finally
    <2> QED BY <1>14, <2>1, <2>2 DEF BackupOne
  <1>15. ASSUME NEW n \in Name, FinallyOne(n) PROVE ReportedInv'
    BY <1>15 DEF FinallyOne, Visit, Turn, Discard, Restore
  <1>16. CASE ChildRead
    BY <1>16 DEF ChildRead, ChildTo, ChildFrame, Fresh
  <1>17. CASE ChildFails
    BY <1>17 DEF ChildFails, ChildTo, ChildFrame
  <1>18. CASE OrphanEnds
    BY <1>18 DEF OrphanEnds, ChildFrame
  <1>19. ASSUME NEW n \in Name, ChildOpen(n) PROVE ReportedInv'
    BY <1>19 DEF ChildOpen, ChildFrame, ChildInv
  <1>20. ASSUME NEW n \in Name, ChildWrite(n) PROVE ReportedInv'
    BY <1>20 DEF ChildWrite, ChildFrame, AfterWrite, ChildInv
  <1>21. CASE Interrupt
    BY <1>21 DEF Interrupt, Goto, Finally
  <1>22. CASE Kill
    BY <1>22 DEF Kill, Goto
  <1>23. CASE Update
    BY <1>23 DEF Update
  <1> QED
    BY <1>0, <1>1, <1>2, <1>3, <1>4, <1>5, <1>6, <1>7, <1>8, <1>9, <1>10, <1>11,
       <1>12, <1>13, <1>14, <1>15, <1>16, <1>17, <1>18, <1>19, <1>20, <1>21,
       <1>22, <1>23
       DEF SetupNext, Wizard, Child

\* Outside a wizard that was cut short the npub of the .env is that of a key on
\* disk, or a damaged file is in the way: ReportedInv follows the key through the
\* stages of the wizard.
THEOREM ReportedKeyIsOnDisk == SetupSpec => []ReportedIsOnDisk
  <1>1. IdentityInv /\ ReportedInv => ReportedIsOnDisk
    BY NotAKey DEF ReportedInv, Reported, InPlace, ReportedIsOnDisk, OnDisk
  <1>2. SetupSpec => []ReportedInv
    BY ReportedInit, ReportedNext, IdentityInvAlways, PTL DEF SetupSpec
  <1> QED BY <1>1, <1>2, IdentityInvAlways, PTL

-------------------------------------------------------------------------------

(***************************************************************************)
(* The install of vector-bridge, in every run of wizards and updates.       *)
(***************************************************************************)

\* What the wizards and the updates do to the install.
InstallNext ==
    EnterEnsure \/ EnsureStep \/ AbandonEnsure \/ LeaveEnsure \/ UpdatePlugin

\* Every step of a setup is one of the install, or leaves it alone.
LEMMA SetupIsInstall == SetupNext => InstallNext \/ UNCHANGED installVars
<1> SUFFICES ASSUME SetupNext PROVE InstallNext \/ UNCHANGED installVars
  OBVIOUS
<1>1. CASE Wizard
  <2>1. CASE StartWizard
    BY <2>1 DEF StartWizard
  <2>2. CASE Adopted
    BY <2>2 DEF Adopted
  <2>3. CASE Confirm
    BY <2>3 DEF Confirm, InstallNext
  <2>4. CASE BinaryStep
    BY <2>4 DEF BinaryStep, InstallNext
  <2>5. CASE BinaryEnsured
    BY <2>5 DEF BinaryEnsured, InstallNext
  <2>6. CASE Check
    BY <2>6 DEF Check
  <2>7. CASE Choose
    BY <2>7 DEF Choose
  <2>8. CASE BackedUp
    BY <2>8 DEF BackedUp
  <2>9. CASE RunSetup
    BY <2>9 DEF RunSetup
  <2>10. CASE SetupReturned
    BY <2>10 DEF SetupReturned
  <2>11. CASE FinallyDone
    BY <2>11 DEF FinallyDone
  <2>12. CASE SaveEnv
    BY <2>12 DEF SaveEnv
  <2>13. CASE \E n \in Name : Adopt(n) \/ BackupOne(n) \/ FinallyOne(n)
    BY <2>13 DEF Adopt, BackupOne, FinallyOne
  <2> QED
    BY <1>1, <2>1, <2>2, <2>3, <2>4, <2>5, <2>6, <2>7, <2>8, <2>9, <2>10, <2>11,
       <2>12, <2>13 DEF Wizard
<1>2. CASE Child
  BY <1>2 DEF Child, ChildRead, ChildFails, OrphanEnds, ChildOpen, ChildWrite,
     ChildFrame
<1>3. CASE Interrupt
  BY <1>3 DEF Interrupt, InstallNext
<1>4. CASE Kill
  BY <1>4 DEF Kill, InstallNext
<1>5. CASE Update
  BY <1>5 DEF Update, InstallNext
<1> QED
  BY <1>1, <1>2, <1>3, <1>4, <1>5 DEF SetupNext

-------------------------------------------------------------------------------

\* The inductive invariant: between the two writes the binary is the plugin's,
\* and no stamp is ahead of the plugin.
InstallInv ==
    /\ InstallTypeOK
    /\ StampIsBinary
    /\ ensure = "stamp" => prebuilt = plugin
    /\ stamp <= plugin

LEMMA InstallInvInit == SetupInit => InstallInv
BY MaxVersionAssumption DEF SetupInit, InstallInit, InstallInv, InstallTypeOK,
   StampIsBinary, Versions, EnsureStages

LEMMA InstallInvNext == InstallInv /\ [SetupNext]_setupVars => InstallInv'
<1> SUFFICES ASSUME InstallInv, [SetupNext]_setupVars PROVE InstallInv'
  OBVIOUS
<1> USE MaxVersionAssumption DEF InstallInv, InstallTypeOK, StampIsBinary, Versions,
        EnsureStages, installFiles
<1>1. CASE UNCHANGED installVars
  BY <1>1 DEF installVars
<1>2. CASE EnterEnsure
  BY <1>2 DEF EnterEnsure
<1>3. CASE EnsureStep
  <2>1. CASE Resolve
    BY <2>1 DEF Resolve
  <2>2. CASE Fetch
    BY <2>2 DEF Fetch
  <2>3. CASE ReplaceBinary
    BY <2>3 DEF ReplaceBinary
  <2>4. CASE WriteStamp
    BY <2>4 DEF WriteStamp
  <2>5. CASE CargoBuild
    BY <2>5 DEF CargoBuild
  <2> QED
    BY <1>3, <2>1, <2>2, <2>3, <2>4, <2>5 DEF EnsureStep
<1>4. CASE AbandonEnsure
  BY <1>4 DEF AbandonEnsure
<1>5. CASE LeaveEnsure
  BY <1>5 DEF LeaveEnsure
<1>6. CASE UpdatePlugin
  BY <1>6 DEF UpdatePlugin
<1> QED
  BY <1>1, <1>2, <1>3, <1>4, <1>5, <1>6, SetupIsInstall DEF InstallNext, setupVars

LEMMA InstallInvariant == SetupSpec => []InstallInv
BY InstallInvInit, InstallInvNext, PTL DEF SetupSpec

\* The install has its type in every reachable state.
LEMMA InstallTyped == SetupSpec => []InstallTypeOK
<1>1. InstallInv => InstallTypeOK
  BY DEF InstallInv
<1> QED
  BY <1>1, InstallInvariant, PTL

\* A stamp that spares a download names the installed binary, whatever crashes
\* and failed writes came before (_try_install_prebuilt_bridge).
THEOREM StampTrue == SetupSpec => []StampIsBinary
<1>1. InstallInv => StampIsBinary
  BY DEF InstallInv
<1> QED
  BY <1>1, InstallInvariant, PTL

-------------------------------------------------------------------------------

\* A binary, once there, stays: no step of the install removes one, and the
\* gateway (resolve_bridge_bin without require_current) asks for no stamp.
LEMMA RunnableStep == InstallInv /\ [SetupNext]_setupVars => (Runnable => Runnable')
<1> SUFFICES ASSUME InstallInv, [SetupNext]_setupVars, Runnable PROVE Runnable'
  OBVIOUS
<1> USE MaxVersionAssumption DEF Runnable, Resolves, InstallInv, InstallTypeOK,
        Versions, installFiles
<1>1. CASE UNCHANGED installVars
  BY <1>1 DEF installVars
<1>2. CASE EnterEnsure \/ LeaveEnsure
  BY <1>2 DEF EnterEnsure, LeaveEnsure
<1>3. CASE EnsureStep
  BY <1>3 DEF EnsureStep, Resolve, Fetch, ReplaceBinary, WriteStamp, CargoBuild
<1>4. CASE AbandonEnsure
  BY <1>4 DEF AbandonEnsure
<1>5. CASE UpdatePlugin
  BY <1>5 DEF UpdatePlugin
<1> QED
  BY <1>1, <1>2, <1>3, <1>4, <1>5, SetupIsInstall DEF InstallNext, setupVars

\* Nothing that setup or an update does takes the sidecar away from the gateway.
THEOREM RunnableKept == SetupSpec => RunnableStays
<1>1. InstallInv /\ [SetupNext]_setupVars => [Runnable => Runnable']_installVars
  BY RunnableStep
<1> QED
  BY <1>1, InstallInvariant, PTL DEF SetupSpec, RunnableStays
===============================================================================
