----------------------------- MODULE ProjectUpdate -----------------------------
(* The project updater, src/sdk/project_updater.cpp, as a sequence of file       *)
(* operations of several urk.exe processes (the window and command lines) on one *)
(* project, while its user edits files, any operation may fail and any process   *)
(* may die.  What protects the project:                                          *)
(*   - a lock file that Windows removes with the process (UpdateLock);           *)
(*   - a backup of every file about to change, named by a journal from before    *)
(*     the first write until after the last one (WriteJournal);                  *)
(*   - hashes taken by the check and compared again before anything is written.  *)
(* UpdatePlan says what an update does; this module how it is done and undone.   *)
(*                                                                             *)
(* A file is replaced by renaming a finished copy over it and is whole at any    *)
(* moment; the journal is written in place and is not.                           *)
EXTENDS UpdatePlan, Sequences, SequencesExt

CONSTANTS Updaters,
          Sorted,     \* the files in the order of SortChanges
          MaxEdits,   \* bound on the user's edits
          MaxFaults,  \* bound on failed operations and crashes
          NoOne       \* nobody has the lock

ASSUME SortedAssumption == Sorted \in Seq(File) /\ IsInjective(Sorted) /\ ToSet(Sorted) = File
ASSUME BoundsAssumption == MaxEdits \in Nat /\ MaxFaults \in Nat /\ NoOne \notin Updaters

VARIABLES
    disk,       \* the project's files and metadata
    journal,    \* .urk/update-journal.ini: "none", "torn" (opened, not written) or "whole"
    backup,     \* the files of the backup that the journal names, or is about to
    lock,       \* the process that holds the lock file
    pc,         \* per process, the operation it is about to do
    plan,       \* per process, the project its check saw
    settled,    \* per process, whether no update was half done then (history)
    overwrite,  \* the option the lock's holder applies its plan with
    rest,       \* the entries it has still to write or restore, in order
    failed,     \* whether a restore has missed an entry
    owner,      \* history, per file: "generator" (never edited), "user" (edited while
                \* no update was under way), "backup" (then copied), "busy" (edited in one)
    guessed,    \* history: an update was applied from a check that was not settled
    edits, faults

project == <<disk, journal, backup>>
holder == <<overwrite, rest, failed>>
seen == <<plan, settled>>
past == <<owner, guessed>>
vars == <<project, lock, pc, seen, holder, past, edits, faults>>

Nothing == [p \in {} |-> "absent"]

(* The entries of a backup are written and restored in one order, the metadata last. *)
Order == Sorted \o <<"generated", "editable", "reviewed">>
Rank(p) == CHOOSE i \in DOMAIN Order : Order[i] = p
Entries == DOMAIN backup
IsNext(p) == p \in rest /\ \A q \in rest : Rank(p) <= Rank(q)
Done(p) == rest' = rest \ {p}
Unseen == Fresh(FALSE, FALSE)

Holding == {"backup", "open", "write", "apply", "publish", "finish", "rollback", "restore"}
Journal(s) == journal' = s /\ UNCHANGED <<disk, backup>>
Fault == faults < MaxFaults /\ faults' = faults + 1

(* A process goes on, or takes the lock and goes on. *)
Go(u, at) == pc' = [pc EXCEPT ![u] = at] /\ UNCHANGED <<lock, seen>>
Take(u, at) == lock = NoOne /\ lock' = u /\ pc' = [pc EXCEPT ![u] = at] /\ UNCHANGED seen

(* A call returns: its variables are gone, and the handle of the lock is closed. *)
Forget(u) == plan' = [plan EXCEPT ![u] = Unseen] /\ settled' = [settled EXCEPT ![u] = TRUE]
Stop(u) == pc' = [pc EXCEPT ![u] = "idle"] /\ Forget(u) /\ UNCHANGED <<lock, holder>>
Release(u, at) ==
    /\ lock' = NoOne /\ overwrite' = FALSE /\ rest' = {} /\ failed' = FALSE
    /\ pc' = [pc EXCEPT ![u] = at] /\ Forget(u)

TypeOK ==
    /\ Project(disk)
    /\ journal \in {"none", "torn", "whole"}
    /\ DOMAIN backup \subseteq File \cup Ledgers
    /\ pc \in [Updaters -> {"idle", "contend", "checked", "planned"} \cup Holding]
    /\ lock \in Updaters \cup {NoOne} /\ \A u \in Updaters : lock = u <=> pc[u] \in Holding
    /\ \A u \in Updaters : Project(plan[u])
    /\ settled \in [Updaters -> BOOLEAN] /\ overwrite \in BOOLEAN
    /\ rest \subseteq File \cup Ledgers /\ failed \in BOOLEAN
    /\ owner \in [File -> {"generator", "user", "backup", "busy"}] /\ guessed \in BOOLEAN
    /\ edits \in 0 .. MaxEdits /\ faults \in 0 .. MaxFaults

Init ==
    /\ \E found \in Found : disk = Fresh(found[1], found[2])
    /\ journal = "none" /\ backup = Nothing
    /\ lock = NoOne /\ pc = [u \in Updaters |-> "idle"]
    /\ plan = [u \in Updaters |-> Unseen] /\ settled = [u \in Updaters |-> TRUE]
    /\ overwrite = FALSE /\ rest = {} /\ failed = FALSE
    /\ owner = [f \in File |-> "generator"] /\ guessed = FALSE
    /\ edits = 0 /\ faults = 0

-----------------------------------------------------------------------------
(* The check: RecoverInterruptedUpdate and PreviewUpdate *)

(* The journal is looked for without the lock. *)
StartCheck(u) ==
    /\ pc[u] \in {"idle", "planned"}
    /\ pc' = [pc EXCEPT ![u] = IF journal = "none" THEN "checked" ELSE "contend"]
    /\ Forget(u)
    /\ UNCHANGED <<project, lock, holder, past, edits, faults>>

(* Another process has the lock, or the journal is gone or names no backup. *)
RecoverRefused(u) ==
    /\ pc[u] = "contend"
    /\ lock # NoOne \/ journal # "whole"
    /\ Stop(u)
    /\ UNCHANGED <<project, past, edits, faults>>

Recover(u) ==
    /\ pc[u] = "contend" /\ journal = "whole"
    /\ Take(u, "restore")
    /\ rest' = Entries /\ failed' = FALSE
    /\ UNCHANGED <<project, overwrite, past, edits, faults>>

(* Mutant: the ledgers are not restored with the files. *)
RestoreFile(u) ==
    /\ pc[u] \in {"restore", "rollback"}
    /\ \E p \in Entries :
          /\ IsNext(p) /\ Done(p)
          /\ disk' = IF p \in File THEN [disk EXCEPT ![p] = backup[p]] ELSE disk
    /\ UNCHANGED <<journal, backup, lock, pc, seen, overwrite, failed, past, edits, faults>>

RestoreEntry(u) ==
    /\ pc[u] \in {"restore", "rollback"}
    /\ \E p \in Entries : IsNext(p) /\ Done(p) /\ disk' = [disk EXCEPT ![p] = backup[p]]
    /\ UNCHANGED <<journal, backup, lock, pc, seen, overwrite, failed, past, edits, faults>>

(* The loop of RestoreBackup goes on after an entry that fails. *)
RestoreEntryFails(u) ==
    /\ pc[u] \in {"restore", "rollback"}
    /\ Fault
    /\ \E p \in Entries : IsNext(p) /\ Done(p)
    /\ failed' = TRUE
    /\ UNCHANGED <<project, lock, pc, seen, overwrite, past, edits>>

(* Mutant: the journal is removed whether or not every entry was restored. *)
RestoredAnyway(u) ==
    /\ pc[u] \in {"restore", "rollback"} /\ rest = {}
    /\ journal' = "none" /\ backup' = Nothing
    /\ Release(u, IF pc[u] = "restore" THEN "checked" ELSE "idle")
    /\ UNCHANGED <<disk, past, edits, faults>>

(* Mutant: the journal is not removed after a restore. *)
RestoredOnly(u) ==
    /\ pc[u] \in {"restore", "rollback"} /\ rest = {} /\ ~failed
    /\ Release(u, IF pc[u] = "restore" THEN "checked" ELSE "idle")
    /\ UNCHANGED <<project, past, edits, faults>>

Restored(u) ==
    /\ pc[u] \in {"restore", "rollback"} /\ rest = {} /\ ~failed
    /\ journal' = "none" /\ backup' = Nothing
    /\ Release(u, IF pc[u] = "restore" THEN "checked" ELSE "idle")
    /\ UNCHANGED <<disk, past, edits, faults>>

(* An entry was missed, or the journal cannot be removed: it stays, for the next check. *)
RestoreFailed(u) ==
    /\ pc[u] \in {"restore", "rollback"} /\ rest = {}
    /\ (failed /\ faults' = faults) \/ (~failed /\ Fault)
    /\ Release(u, "idle")
    /\ UNCHANGED <<project, past, edits>>

(* All files are read in one step.  The planned ones are read again before anything  *)
(* is written; what a check makes of the others when it runs beside an update, the   *)
(* step shows as well.                                                               *)
PreviewUpdate(u) ==
    /\ pc[u] = "checked"
    /\ plan' = [plan EXCEPT ![u] = disk]
    /\ settled' = [settled EXCEPT ![u] = journal = "none"]
    /\ pc' = [pc EXCEPT ![u] = "planned"]
    /\ UNCHANGED <<project, lock, holder, past, edits, faults>>

-----------------------------------------------------------------------------
(* ApplyUpdate, at any time after the check *)

(* Mutant: the check's hashes are trusted. *)
VerifiedByTheCheck(u) == TRUE

Verified(u) == \A f \in Changes(plan[u]) : disk[f] = plan[u][f]
Stages(u, option) == Conflicts(plan[u]) # {} /\ ~option
HasWork(u, option) == IsApplied(plan[u], option) # {} \/ MetadataChanges(plan[u])

ApplyRefused(u) ==
    /\ pc[u] = "planned"
    /\ lock # NoOne \/ journal # "none" \/ ~Verified(u)
    /\ Stop(u)
    /\ UNCHANGED <<project, past, edits, faults>>

(* With conflicts the candidate is staged beside the project. *)
LeavesProject(u) ==
    /\ pc[u] = "planned" /\ lock = NoOne /\ journal = "none" /\ Verified(u)
    /\ \E option \in BOOLEAN : Stages(u, option) \/ ~HasWork(u, option)
    /\ Stop(u)
    /\ UNCHANGED <<project, past, edits, faults>>

ApplyUpdate(u) ==
    /\ pc[u] = "planned" /\ journal = "none" /\ Verified(u)
    /\ Take(u, "backup")
    /\ overwrite' \in {option \in BOOLEAN : ~Stages(u, option) /\ HasWork(u, option)}
    /\ UNCHANGED <<project, rest, failed, past, edits, faults>>

BackedUp(u) ==
    [p \in IsApplied(plan[u], overwrite) \cup Ledgers |->
        IF p \in File /\ plan[u][p] = "absent" THEN "absent" ELSE disk[p]]

TakeBackup(u) ==
    /\ pc[u] = "backup"
    /\ backup' = BackedUp(u)
    /\ owner' = [f \in File |-> IF f \in DOMAIN backup' /\ backup'[f] = "edit" /\ owner[f] = "user"
                                THEN "backup" ELSE owner[f]]
    /\ Go(u, "open")
    /\ UNCHANGED <<disk, journal, holder, guessed, edits, faults>>

BackupFails(u) ==
    /\ pc[u] = "backup" /\ Fault
    /\ Release(u, "idle")
    /\ UNCHANGED <<project, past, edits>>

(* The journal is created empty, filled and flushed, in place. *)
OpenJournal(u) ==
    /\ pc[u] = "open"
    /\ Journal("torn")
    /\ Go(u, "write")
    /\ UNCHANGED <<holder, past, edits, faults>>

WriteJournal(u) ==
    /\ pc[u] = "write"
    /\ Journal("whole")
    /\ rest' = Entries
    /\ Go(u, "apply")
    /\ UNCHANGED <<overwrite, failed, past, edits, faults>>

WriteJournalFails(u) ==
    /\ pc[u] = "write" /\ Fault
    /\ Release(u, "idle")
    /\ backup' = Nothing
    /\ UNCHANGED <<disk, journal, past, edits>>

Write(p, value) == disk' = [disk EXCEPT ![p] = value] /\ UNCHANGED <<journal, backup>>

(* InstallFile and RemoveFile, then the metadata; the ledgers are renamed into place. *)
Install(u) ==
    /\ pc[u] \in {"apply", "publish"}
    /\ \E p \in Entries : IsNext(p) /\ Done(p) /\ Write(p, Planned(plan[u], p))
    /\ Go(u, "apply")
    /\ UNCHANGED <<overwrite, failed, past, edits, faults>>

(* WriteLedgerAt: a ledger that cannot be renamed over is removed, and renamed again. *)
RemoveLedger(u) ==
    /\ pc[u] = "apply"
    /\ Fault
    /\ \E p \in {"editable", "reviewed"} : IsNext(p) /\ Write(p, NoLedger)
    /\ Go(u, "publish")
    /\ UNCHANGED <<holder, past, edits>>

Rollback(u) == rest' = Entries /\ failed' = FALSE /\ Go(u, "rollback") /\ UNCHANGED overwrite

InstallFails(u) ==
    /\ pc[u] \in {"apply", "publish"} /\ rest # {}
    /\ Fault
    /\ Rollback(u)
    /\ UNCHANGED <<project, past, edits>>

Matches(u) == \A f \in IsApplied(plan[u], overwrite) : disk[f] = Candidate[f]

Verify(u) ==
    /\ pc[u] = "apply" /\ rest = {} /\ Matches(u)
    /\ Go(u, "finish")
    /\ UNCHANGED <<project, holder, past, edits, faults>>

VerifyFails(u) ==
    /\ pc[u] = "apply" /\ rest = {}
    /\ (~Matches(u) /\ faults' = faults) \/ Fault
    /\ Rollback(u)
    /\ UNCHANGED <<project, past, edits>>

Finish(u) ==
    /\ pc[u] = "finish"
    /\ journal' = "none" /\ backup' = Nothing
    /\ Release(u, "idle")
    /\ guessed' = (guessed \/ ~settled[u])
    /\ UNCHANGED <<disk, owner, edits, faults>>

(* A journal that cannot be removed is only a warning, and the update is reported done. *)
FinishWarns(u) ==
    /\ pc[u] = "finish" /\ Fault
    /\ Release(u, "idle")
    /\ UNCHANGED <<project, past, edits>>

(* Mutant: the lock file outlives its process. *)
CrashKeepsLock(u) ==
    /\ pc[u] \in Holding /\ Fault
    /\ Stop(u)
    /\ backup' = IF journal = "whole" THEN backup ELSE Nothing
    /\ UNCHANGED <<disk, journal, past, edits>>

Crash(u) ==
    /\ pc[u] \in Holding /\ Fault
    /\ Release(u, "idle")
    /\ backup' = IF journal = "whole" THEN backup ELSE Nothing
    /\ UNCHANGED <<disk, journal, past, edits>>

(* The user writes a file in an editor. *)
UserEdits(f) ==
    /\ edits < MaxEdits /\ edits' = edits + 1
    /\ disk' = [disk EXCEPT ![f] = "edit"]
    /\ owner' = [owner EXCEPT ![f] = IF lock = NoOne /\ journal # "whole" THEN "user" ELSE "busy"]
    /\ UNCHANGED <<journal, backup, lock, pc, seen, holder, guessed, faults>>

Step(u) ==
    \/ RecoverRefused(u) \/ Recover(u) \/ RestoreEntry(u) \/ RestoreEntryFails(u)
    \/ Restored(u) \/ RestoreFailed(u) \/ PreviewUpdate(u)
    \/ TakeBackup(u) \/ BackupFails(u) \/ OpenJournal(u) \/ WriteJournal(u) \/ WriteJournalFails(u)
    \/ Install(u) \/ RemoveLedger(u) \/ InstallFails(u)
    \/ Verify(u) \/ VerifyFails(u) \/ Finish(u) \/ FinishWarns(u)

Next ==
    \/ \E u \in Updaters : Step(u) \/ StartCheck(u) \/ Crash(u)
    \/ \E u \in Updaters : ApplyRefused(u) \/ LeavesProject(u) \/ ApplyUpdate(u)
    \/ \E f \in File : UserEdits(f)

Spec == Init /\ [][Next]_vars

(* A process that runs goes on, and the user checks the project again and again. *)
(* Whether a plan is ever applied is left to the user.                           *)
FairSpec == Spec /\ \A u \in Updaters : WF_vars(Step(u)) /\ WF_vars(StartCheck(u))

-----------------------------------------------------------------------------
(* Properties *)

(* What the next check will make of the project: an update in progress counts only   *)
(* once its journal is removed, and from the moment its plan was verified the files   *)
(* it is about to write count as the backup has, or will have, them.                  *)
Underway ==
    IF journal = "whole" \/ (lock # NoOne /\ pc[lock] \in {"open", "write"}) THEN backup
    ELSE IF lock # NoOne /\ pc[lock] = "backup"
         THEN [f \in {g \in IsApplied(plan[lock], overwrite) : plan[lock][g] = "absent"} |-> "absent"]
         ELSE Nothing
Recoverable == [p \in File \cup Ledgers |-> IF p \in DOMAIN Underway THEN Underway[p] ELSE disk[p]]

Atomic == INSTANCE AtomicUpdate WITH project <- Recoverable

(* All or nothing: whatever fails, and wherever a process dies, what the next check   *)
(* leaves of the project is the project before the update or the whole plan, besides  *)
(* the user's edits.  The rollback, the journal's two ends and the restore have to    *)
(* work together for it.                                                              *)
RefinesAtomicUpdate == Atomic!Spec

(* An edit made while no update was under way is never lost: it is in the project or, *)
(* for a generated file, in a backup.  The user's own files are never replaced.       *)
EditsAreKept ==
    /\ \A f \in File : owner[f] = "user" => disk[f] = "edit"
    /\ \A f \in Templates : owner[f] # "backup"

(* "A generated file that still matches is replaced.  One that you edited is a       *)
(* conflict": a file that was never edited is not taken for an edited one, after any   *)
(* sequence of updates, failures and recoveries.  The exception is an update applied   *)
(* from a check that ran beside another update: the verification before the backup     *)
(* covers the planned files only, and a file that the other update had written, and    *)
(* then rolled back, is not in the plan.                                               *)
OnlyEditsConflict ==
    lock = NoOne /\ journal # "whole" /\ ~guessed /\ disk["generated"].there
        => \A f \in Conflicts(disk) : owner[f] # "generator"

(* Once nobody works on it, a project whose journal names its backup is restored: the *)
(* failures of a restore leave enough behind for the next one.                        *)
RecoveryCompletes == journal = "whole" /\ lock = NoOne ~> journal = "none"

(* SDK_HANDBOOK.md: "If the process dies halfway, the next check restores the backup  *)
(* before doing anything else."  A journal that was created and not written names no  *)
(* backup: every later check and update refuses it, for ever.                         *)
InterruptedUpdateIsRestored == journal # "none" /\ lock = NoOne ~> journal = "none"

=============================================================================
