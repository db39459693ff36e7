-------------------------- MODULE ProjectUpdateProofs --------------------------
(* Theorems about the project updater, for any files, versions, updaters, edits    *)
(* and faults: it implements AtomicUpdate, and the user's edits survive it.        *)
EXTENDS ProjectUpdate, TLAPS

(* The user may have saved a file since it was written, backed up or read.          *)
IsOrEdited(p, value) == disk[p] = value \/ (p \in File /\ disk[p] = "edit")
AsBackedUp(p) == IsOrEdited(p, backup[p])
AsPlanned(u, p) == IsOrEdited(p, Planned(plan[u], p))

(* How far the lock's holder is with the journal, the backup and the files.         *)
JournalFits ==
    \A u \in Updaters :
        /\ pc[u] \in {"backup", "open"} => journal = "none"
        /\ pc[u] = "write" => journal = "torn"
        /\ pc[u] \in {"apply", "publish", "finish", "rollback", "restore"} => journal = "whole"

Named == journal = "whole" \/ \E u \in Updaters : pc[u] \in {"open", "write"}

BackupFits ==
    Named => /\ Ledgers \subseteq DOMAIN backup
             /\ \A f \in DOMAIN backup \cap File :
                   /\ backup[f] \in Content /\ owner[f] # "user"
                   /\ backup[f] = "edit" => owner[f] # "generator"
             /\ \A l \in Ledgers : backup[l] \in Ledger

BacksUp(u) == \* the plan was verified, and its files are now in the backup
    /\ pc[u] = "backup" =>
          \A f \in IsApplied(plan[u], overwrite) :
              disk[f] = plan[u][f] \/ (disk[f] = "edit" /\ owner[f] = "busy")
    /\ pc[u] \in {"backup", "open", "write", "apply", "publish", "finish"} =>
          Conflicts(plan[u]) = {} \/ overwrite
    /\ pc[u] \in {"open", "write", "apply", "publish", "finish"} =>
          DOMAIN backup = IsApplied(plan[u], overwrite) \cup Ledgers
    /\ pc[u] \in {"open", "write"} => \A p \in DOMAIN backup : AsBackedUp(p)

Installs(u) ==
    /\ pc[u] \in {"apply", "publish", "finish"} =>
          \A p \in DOMAIN backup \ rest : AsPlanned(u, p)
    /\ pc[u] = "finish" => rest = {}

Restores(u) ==
    pc[u] \in {"restore", "rollback"} /\ ~failed => \A p \in DOMAIN backup \ rest : AsBackedUp(p)

WorkFits == \A u \in Updaters : BacksUp(u) /\ Installs(u) /\ Restores(u)

(* Whose a file is, in the project and in the ledgers: no ledger has an edited      *)
(* template's hash, or its file would be taken for an old template.                 *)
OwnerFits ==
    \A f \in File :
        /\ owner[f] = "user" => disk[f] = "edit"
        /\ owner[f] = "generator" => disk[f] # "edit"
        /\ f \in Templates => owner[f] # "backup"

NeverEdited(ledger) == \A f \in File : ledger.hash[f] # "edit"
LedgersFit ==
    /\ NeverEdited(disk["editable"])
    /\ \A u \in Updaters : NeverEdited(plan[u]["editable"])
    /\ Named => NeverEdited(backup["editable"])

(* A file that a settled check found up to date, and that nobody edited, still is:   *)
(* no update writes it, and none will restore it.                                   *)
UpToDate(p, f) == owner[f] = "generator" /\ Candidate[f] # "absent" /\ p[f] = Candidate[f]
Seen(u, f) ==
    settled[u] /\ UpToDate(plan[u], f) => disk[f] = Candidate[f] /\ f \notin DOMAIN Underway
Opened(u, f) == pc[u] = "open" /\ f \in DOMAIN backup => ~UpToDate(backup, f)
SeenFits == \A u \in Updaters, f \in File : Seen(u, f) /\ Opened(u, f)

(* A generated file that nobody edited is absent, up to date or what its ledger says. *)
Tidy(p) ==
    p["generated"].there =>
        \A f \in Generated : owner[f] = "generator" /\ Candidate[f] # "absent"
            => p[f] \in {"absent", Candidate[f], p["generated"].hash[f]}

Shaped ==
    /\ DOMAIN disk = File \cup Ledgers
    /\ DOMAIN plan = Updaters /\ DOMAIN owner = File

Base == TypeOK /\ Shaped /\ JournalFits /\ BackupFits /\ WorkFits /\ OwnerFits /\ LedgersFit /\ SeenFits
IInv == Base /\ (guessed \/ Tidy(Recoverable))

-----------------------------------------------------------------------------
(* What a plan is: lemmas about UpdatePlan *)

LEMMA FilesAreNoLedgers == File \cap Ledgers = {}
  BY KindsAssumption DEF Ledgers

LEMMA AppliedIsChanged ==
  ASSUME NEW p, NEW o \in BOOLEAN
  PROVE  IsApplied(p, o) \subseteq Changes(p) /\ Changes(p) \subseteq File
  BY DEF IsApplied, Changes, OfKind

(* A file that is up to date is in no plan, *)
LEMMA UpToDateIsNotApplied ==
  ASSUME NEW p, NEW o \in BOOLEAN, NEW f \in IsApplied(p, o), Candidate[f] # "absent"
  PROVE  p[f] # Candidate[f]
<1>1. f \in File /\ ChangeKind(p, f) \in {"added", "modified", "removed", "conflict"}
  BY DEF IsApplied, OfKind
<1>2. CASE f \in Templates
  BY <1>1, <1>2 DEF ChangeKind, TemplateKind
<1>3. CASE f \notin Templates
  BY <1>1, <1>3 DEF ChangeKind, GeneratedKind
<1> QED BY <1>2, <1>3

(* and one that no plan is about is up to date. *)
LEMMA NotAppliedIsUpToDate ==
  ASSUME NEW p, NEW o \in BOOLEAN, NEW f \in Generated, f \notin IsApplied(p, o),
         Candidate[f] # "absent", Conflicts(p) = {} \/ o
  PROVE  p[f] = Candidate[f]
<1>1. f \in File /\ f \notin Templates
  BY KindsAssumption DEF File
<1>2. ChangeKind(p, f) \notin {"added", "modified", "removed", "conflict"}
  BY <1>1 DEF IsApplied, Conflicts, OfKind
<1> QED BY <1>1, <1>2 DEF ChangeKind, GeneratedKind

(* An edited template is never replaced, if no ledger has its hash. *)
LEMMA EditedTemplateIsNotApplied ==
  ASSUME NEW p, NEW o \in BOOLEAN, NEW f \in Templates, p[f] = "edit", NeverEdited(p["editable"])
  PROVE  f \notin IsApplied(p, o)
<1>1. f \in File /\ Candidate[f] = "new"
  BY VersionsAssumption DEF File
<1>2. ChangeKind(p, f) \in {"review", "same"}
  BY <1>1 DEF ChangeKind, TemplateKind, NeverEdited
<1> QED BY <1>2 DEF IsApplied, OfKind

LEMMA CandidateIsContent == \A f \in File : Candidate[f] \in Content \ {"edit"} /\ Installed[f] \in Content \ {"edit"}
  BY VersionsAssumption DEF Content

LEMMA NoLedgerIsLedger == NoLedger \in Ledger /\ NeverEdited(NoLedger)
  BY DEF NoLedger, Ledger, Unlisted, Content, NeverEdited

LEMMA OnlyIsHashes ==
  ASSUME NEW S, NEW hash, \A f \in File : hash[f] \in Content
  PROVE  Only(S, hash) \in [File -> Content]
  BY DEF Only, Content

LEMMA PlannedFits ==
  ASSUME NEW p, Project(p), NeverEdited(p["editable"])
  PROVE  /\ \A f \in File : Planned(p, f) = Candidate[f]
         /\ \A l \in Ledgers : Planned(p, l) \in Ledger
         /\ NeverEdited(Planned(p, "editable"))
         /\ Planned(p, "generated") = Lists(Only(Owned \cup Generated, Candidate))
<1>1. \A f \in File : Planned(p, f) = Candidate[f]
  BY KindsAssumption DEF Planned
<1>2. Planned(p, "generated") = Lists(Only(Owned \cup Generated, Candidate))
  BY KindsAssumption DEF Planned
<1>3. Planned(p, "editable") = Lists(EditableBaselines(p))
  BY KindsAssumption DEF Planned
<1>4. Planned(p, "reviewed") = Lists(ReviewedTemplates(p))
  BY KindsAssumption DEF Planned
<1>5. \A f \in File : p["editable"].hash[f] \in Content \ {"edit"}
  BY DEF Project, Ledgers, Ledger, NeverEdited
<1>6. EditableBaselines(p) \in [File -> Content \ {"edit"}]
  BY <1>5, CandidateIsContent DEF EditableBaselines
<1>7. Only(Owned \cup Generated, Candidate) \in [File -> Content]
  BY CandidateIsContent, OnlyIsHashes
<1>8. ReviewedTemplates(p) \in [File -> Content]
  BY CandidateIsContent, OnlyIsHashes DEF ReviewedTemplates
<1>9. \A hash \in [File -> Content] : Lists(hash) \in Ledger /\ Lists(hash).hash = hash
  BY DEF Lists, Ledger
<1>10. EditableBaselines(p) \in [File -> Content]
  BY <1>6
<1>11. NeverEdited(Planned(p, "editable"))
  BY <1>3, <1>6, <1>9, <1>10 DEF NeverEdited
<1>12. \A l \in Ledgers : Planned(p, l) \in Ledger
  BY <1>2, <1>3, <1>4, <1>7, <1>8, <1>9, <1>10 DEF Ledgers
<1> QED BY <1>1, <1>2, <1>11, <1>12

LEMMA FreshFits ==
  ASSUME NEW g \in BOOLEAN, NEW e \in BOOLEAN
  PROVE  /\ Project(Fresh(g, e)) /\ NeverEdited(Fresh(g, e)["editable"])
         /\ DOMAIN Fresh(g, e) = File \cup Ledgers
         /\ \A f \in File : Fresh(g, e)[f] = Installed[f] /\ ~UpToDate(Fresh(g, e), f)
         /\ Fresh(g, e)["generated"].there => \A f \in Generated : Fresh(g, e)["generated"].hash[f] = Installed[f]
<1> DEFINE F == Fresh(g, e)
<1>1. \A f \in File : F[f] = Installed[f]
  BY KindsAssumption DEF Fresh
<1>2. F["generated"] = IF g THEN Lists(Only(Owned \cup Generated, Installed)) ELSE NoLedger
  BY KindsAssumption DEF Fresh, Ledgers
<1>3. F["editable"] = IF e THEN Lists(Only(Templates, Installed)) ELSE NoLedger
  BY KindsAssumption DEF Fresh, Ledgers
<1>4. F["reviewed"] = NoLedger
  BY KindsAssumption DEF Fresh, Ledgers
<1>5. \A S : Only(S, Installed) \in [File -> Content]
  BY CandidateIsContent, OnlyIsHashes
<1>6. \A hash \in [File -> Content] : Lists(hash) \in Ledger /\ Lists(hash).hash = hash /\ Lists(hash).there
  BY DEF Lists, Ledger
<1>7. \A S : NeverEdited(Lists(Only(S, Installed)))
  BY <1>5, <1>6, CandidateIsContent DEF NeverEdited, Only
<1>8. \A l \in Ledgers : F[l] \in Ledger
  BY <1>2, <1>3, <1>4, <1>5, <1>6, NoLedgerIsLedger DEF Ledgers
<1>9. \A f \in Generated : Only(Owned \cup Generated, Installed)[f] = Installed[f]
  BY DEF Only, File
<1>10. NoLedger.there = FALSE
  BY DEF NoLedger
<1>11. F["generated"].there => \A f \in Generated : F["generated"].hash[f] = Installed[f]
  BY <1>2, <1>5, <1>6, <1>9, <1>10
<1>12. \A f \in File : ~UpToDate(F, f)
  BY <1>1, VersionsAssumption DEF UpToDate
<1>13. DOMAIN F = File \cup Ledgers
  BY DEF Fresh
<1>14. Project(F)
  BY <1>1, <1>8, CandidateIsContent DEF Project
<1>15. NeverEdited(F["editable"])
  BY <1>3, <1>7, NoLedgerIsLedger
<1> QED BY <1>1, <1>11, <1>12, <1>13, <1>14, <1>15

-----------------------------------------------------------------------------
(* What one step leaves alone *)

(* What a step may make of the project that the next check will find, besides the    *)
(* end of an update.                                                                 *)
KeepsProject ==
    \A p \in File \cup Ledgers :
        \/ Recoverable'[p] = Recoverable[p]
        \/ p \in File /\ Recoverable'[p] = "edit" /\ owner'[p] # "generator"

Absent(u) == [f \in {g \in IsApplied(plan[u], overwrite) : plan[u][g] = "absent"} |-> "absent"]

LEMMA HolderIsAlone ==
  ASSUME TypeOK, NEW u \in Updaters, pc[u] \in Holding
  PROVE  lock = u /\ lock # NoOne /\ \A v \in Updaters : v # u => pc[v] \notin Holding
  BY BoundsAssumption DEF TypeOK

LEMMA UnderwayIs ==
  ASSUME TypeOK, JournalFits
  PROVE  /\ journal = "whole" => Underway = backup
         /\ \A u \in Updaters : pc[u] \in {"open", "write"} => Underway = backup
         /\ \A u \in Updaters : pc[u] = "backup" => Underway = Absent(u)
         /\ journal # "whole" /\ lock = NoOne => Underway = Nothing
<1>1. \A u \in Updaters : pc[u] \in {"open", "write", "backup"} => lock = u /\ lock # NoOne
  BY HolderIsAlone DEF Holding
<1>2. journal = "whole" => Underway = backup
  BY DEF Underway
<1>3. \A u \in Updaters : pc[u] \in {"open", "write"} => Underway = backup
  BY <1>1 DEF Underway
<1>4. \A u \in Updaters : pc[u] = "backup" => journal # "whole"
  BY DEF JournalFits
<1>5. \A u \in Updaters : pc[u] = "backup" => Underway = Absent(u)
  BY <1>1, <1>4 DEF Underway, Absent
<1>6. journal # "whole" /\ lock = NoOne => Underway = Nothing
  BY DEF Underway
<1> QED BY <1>2, <1>3, <1>5, <1>6

LEMMA RecoverableAt ==
  \A p \in File \cup Ledgers : Recoverable[p] = IF p \in DOMAIN Underway THEN Underway[p] ELSE disk[p]
  BY DEF Recoverable

(* A process without the lock goes on, with what its check has seen or nothing. *)
Aside(u, at, found, sure) ==
    /\ pc[u] \notin Holding /\ pc' = [pc EXCEPT ![u] = at]
    /\ plan' = [plan EXCEPT ![u] = found] /\ settled' = [settled EXCEPT ![u] = sure]
    /\ UNCHANGED <<disk, journal, backup, lock, overwrite, rest, failed, owner, guessed, edits, faults>>

LEMMA AsideKeeps ==
  ASSUME Base, NEW u \in Updaters, NEW at \in {"idle", "contend", "checked", "planned"},
         NEW found, NEW sure \in BOOLEAN, Aside(u, at, found, sure),
         Project(found), NeverEdited(found["editable"]),
         sure => \A f \in File : UpToDate(found, f) => disk[f] = Candidate[f] /\ f \notin DOMAIN Underway
  PROVE  Base' /\ KeepsProject /\ \A v \in Updaters \ {u} : plan'[v] = plan[v]
<1>1. TypeOK /\ Shaped /\ JournalFits /\ BackupFits /\ WorkFits /\ OwnerFits /\ LedgersFit /\ SeenFits
  BY DEF Base
<1>2. /\ pc[u] \notin Holding /\ at \notin Holding
      /\ \A v \in Updaters : pc'[v] = IF v = u THEN at ELSE pc[v]
      /\ \A v \in Updaters : plan'[v] = IF v = u THEN found ELSE plan[v]
      /\ \A v \in Updaters : settled'[v] = IF v = u THEN sure ELSE settled[v]
      /\ DOMAIN plan' = Updaters
  BY <1>1 DEF Aside, TypeOK, Shaped, Holding
<1>3. UNCHANGED <<disk, journal, backup, lock, overwrite, rest, failed, owner, guessed, edits, faults>>
  BY DEF Aside
<1>4. pc' \in [Updaters -> {"idle", "contend", "checked", "planned"} \cup Holding] /\ settled' \in [Updaters -> BOOLEAN]
  BY <1>1 DEF Aside, TypeOK
<1>5. \A v \in Updaters : pc[v] \in Holding => v # u
  BY <1>2
<1>6. \A v \in Updaters : (pc[v] \in Holding \/ pc'[v] \in Holding) => pc'[v] = pc[v] /\ plan'[v] = plan[v]
  BY <1>2
<1>7. TypeOK'
  BY <1>1, <1>2, <1>3, <1>4 DEF TypeOK, Project
<1>8. Shaped'
  BY <1>1, <1>2, <1>3 DEF Shaped
<1>9. JournalFits'
  BY <1>1, <1>3, <1>6 DEF JournalFits, Holding
<1>10. Named' <=> Named
  BY <1>3, <1>6 DEF Named, Holding
<1>11. BackupFits'
  BY <1>1, <1>3, <1>10 DEF BackupFits
<1>12. WorkFits'
  <2>1. SUFFICES ASSUME NEW v \in Updaters, pc'[v] \in Holding
                 PROVE  BacksUp(v)' /\ Installs(v)' /\ Restores(v)'
    BY DEF WorkFits, BacksUp, Installs, Restores, Holding
  <2>2. pc'[v] = pc[v] /\ plan'[v] = plan[v] /\ BacksUp(v) /\ Installs(v) /\ Restores(v)
    BY <1>1, <1>6, <2>1 DEF WorkFits
  <2>3. BacksUp(v)'
    BY <1>3, <2>2 DEF BacksUp, AsBackedUp, IsOrEdited
  <2>4. Installs(v)'
    BY <1>3, <2>2 DEF Installs, AsPlanned, IsOrEdited
  <2>5. Restores(v)'
    BY <1>3, <2>2 DEF Restores, AsBackedUp, IsOrEdited
  <2> QED BY <2>3, <2>4, <2>5
<1>13. OwnerFits'
  BY <1>1, <1>3 DEF OwnerFits
<1>14. LedgersFit'
  BY <1>1, <1>2, <1>3, <1>10 DEF LedgersFit, NeverEdited
<1>15. Underway' = Underway
  <2>1. CASE lock = NoOne
    BY <1>3, <2>1 DEF Underway
  <2>2. CASE lock # NoOne
    <3>1. lock \in Updaters /\ pc[lock] \in Holding
      BY <1>1, <2>2 DEF TypeOK
    <3>2. pc'[lock'] = pc[lock] /\ plan'[lock'] = plan[lock]
      BY <1>3, <1>6, <3>1
    <3> QED BY <1>3, <3>2 DEF Underway
  <2> QED BY <2>1, <2>2
<1>17. SeenFits'
  <2>1. SUFFICES ASSUME NEW v \in Updaters, NEW f \in File
                 PROVE  Seen(v, f)' /\ Opened(v, f)'
    BY DEF SeenFits
  <2>2. Seen(v, f) /\ Opened(v, f)
    BY <1>1 DEF SeenFits
  <2>3. Seen(v, f)'
    BY <1>2, <1>3, <1>15, <2>2 DEF Seen, UpToDate
  <2>4. Opened(v, f)'
    BY <1>2, <1>3, <2>2 DEF Opened, UpToDate, Holding
  <2> QED BY <2>3, <2>4
<1>18. Base'
  BY <1>7, <1>8, <1>9, <1>11, <1>12, <1>13, <1>14, <1>17 DEF Base
<1>19. \A p \in File \cup Ledgers : Recoverable'[p] = Recoverable[p]
  BY <1>3, <1>15 DEF Recoverable
<1> QED BY <1>2, <1>18, <1>19 DEF KeepsProject

(* A holder gives up the lock, with its journal left whole or none that counts. *)
Leaves(u, at) ==
    /\ pc[u] \in Holding /\ Release(u, at) /\ UNCHANGED <<disk, owner>>
    /\ \/ journal = "whole" /\ UNCHANGED <<journal, backup>>
       \/ journal' \in {"none", "torn"} /\ backup' \in {backup, Nothing}
    /\ guessed' \in BOOLEAN /\ edits' \in 0 .. MaxEdits /\ faults' \in 0 .. MaxFaults

LEMMA LeavesKeeps ==
  ASSUME Base, NEW u \in Updaters, NEW at \in {"idle", "checked"}, Leaves(u, at)
  PROVE  /\ Base' /\ \A v \in Updaters \ {u} : plan'[v] = plan[v]
         /\ journal' = "whole" => \A p \in File \cup Ledgers : Recoverable'[p] = Recoverable[p]
         /\ journal' # "whole" => \A p \in File \cup Ledgers : Recoverable'[p] = disk[p]
<1>1. TypeOK /\ Shaped /\ JournalFits /\ BackupFits /\ OwnerFits /\ LedgersFit /\ SeenFits
  BY DEF Base
<1>2. /\ disk' = disk /\ owner' = owner /\ lock' = NoOne /\ overwrite' = FALSE /\ rest' = {} /\ failed' = FALSE
      /\ guessed' \in BOOLEAN /\ edits' \in 0 .. MaxEdits /\ faults' \in 0 .. MaxFaults
  BY DEF Leaves, Release
<1>3. \/ journal = "whole" /\ journal' = "whole" /\ backup' = backup
      \/ journal' \in {"none", "torn"} /\ backup' \in {backup, Nothing}
  BY DEF Leaves
<1>4. /\ pc' \in [Updaters -> {"idle", "contend", "checked", "planned"} \cup Holding]
      /\ settled' \in [Updaters -> BOOLEAN] /\ DOMAIN plan' = Updaters
      /\ \A v \in Updaters : pc'[v] = IF v = u THEN at ELSE pc[v]
      /\ \A v \in Updaters : plan'[v] = IF v = u THEN Unseen ELSE plan[v]
      /\ \A v \in Updaters : v # u => settled'[v] = settled[v]
  BY <1>1 DEF Leaves, Release, Forget, TypeOK, Shaped
<1>5. \A v \in Updaters : pc'[v] \notin Holding
  BY <1>1, <1>4, HolderIsAlone DEF Leaves, Holding
<1>6. Project(Unseen) /\ NeverEdited(Unseen["editable"]) /\ \A f \in File : ~UpToDate(Unseen, f)
  BY FreshFits DEF Unseen
<1>7. TypeOK'
  <2>1. DOMAIN backup' \subseteq File \cup Ledgers /\ journal' \in {"none", "torn", "whole"}
    BY <1>1, <1>3 DEF TypeOK, Nothing
  <2>2. \A v \in Updaters : lock' = v <=> pc'[v] \in Holding
    BY <1>2, <1>5, BoundsAssumption
  <2>3. \A v \in Updaters : Project(plan'[v])
    BY <1>1, <1>4, <1>6 DEF TypeOK
  <2> QED BY <1>1, <1>2, <1>4, <2>1, <2>2, <2>3 DEF TypeOK, Project
<1>8. Shaped'
  BY <1>1, <1>2, <1>4 DEF Shaped
<1>9. JournalFits'
  BY <1>5 DEF JournalFits, Holding
<1>10. Named' => journal = "whole" /\ journal' = "whole" /\ backup' = backup
  BY <1>3, <1>5 DEF Named, Holding
<1>11. Named' => Named
  BY <1>10 DEF Named
<1>12. BackupFits'
  BY <1>1, <1>2, <1>10, <1>11 DEF BackupFits
<1>13. WorkFits'
  BY <1>5 DEF WorkFits, BacksUp, Installs, Restores, Holding
<1>14. OwnerFits'
  BY <1>1, <1>2 DEF OwnerFits
<1>15. LedgersFit'
  BY <1>1, <1>2, <1>4, <1>6, <1>10, <1>11 DEF LedgersFit, NeverEdited
<1>16. Underway' = IF journal' = "whole" THEN Underway ELSE Nothing
  BY <1>2, <1>3 DEF Underway
<1>17. SeenFits'
  <2>1. SUFFICES ASSUME NEW v \in Updaters, NEW f \in File
                 PROVE  Seen(v, f)' /\ Opened(v, f)'
    BY DEF SeenFits
  <2>2. Seen(v, f)
    BY <1>1 DEF SeenFits
  <2>3. DOMAIN Nothing = {}
    BY DEF Nothing
  <2>4. Seen(v, f)'
    BY <1>2, <1>4, <1>6, <1>16, <2>2, <2>3 DEF Seen, UpToDate
  <2>5. Opened(v, f)'
    BY <1>5 DEF Opened, Holding
  <2> QED BY <2>4, <2>5
<1>18. Base'
  BY <1>7, <1>8, <1>9, <1>12, <1>13, <1>14, <1>15, <1>17 DEF Base
<1>19. DOMAIN Nothing = {}
  BY DEF Nothing
<1>20. \A p \in File \cup Ledgers : Recoverable'[p] = IF journal' = "whole" THEN Recoverable[p] ELSE disk[p]
  BY <1>2, <1>16, <1>19 DEF Recoverable
<1> QED BY <1>4, <1>18, <1>20

(* The holder writes entries of the backup that the journal names. *)
Works(u, at) ==
    /\ pc[u] \in {"apply", "publish", "restore", "rollback"} /\ pc' = [pc EXCEPT ![u] = at]
    /\ at \in {"apply", "publish", "finish"} => pc[u] \in {"apply", "publish"}
    /\ UNCHANGED <<journal, backup, lock, plan, settled, overwrite, owner, guessed, edits>>
    /\ rest' \subseteq File \cup Ledgers /\ failed' \in BOOLEAN /\ faults' \in 0 .. MaxFaults
    /\ DOMAIN disk' = DOMAIN disk
    /\ \A p \in File \cup Ledgers :
          \/ disk'[p] = disk[p]
          \/ p \in DOMAIN backup /\ disk'[p] = backup[p]
          \/ p \in DOMAIN backup /\ disk'[p] = Planned(plan[u], p)
          \/ p \in Ledgers /\ disk'[p] = NoLedger

LEMMA WorksKeeps ==
  ASSUME Base, NEW u \in Updaters, NEW at \in {"apply", "publish", "finish", "restore", "rollback"},
         Works(u, at), Installs(u)', Restores(u)'
  PROVE  Base' /\ KeepsProject
<1>1. TypeOK /\ Shaped /\ JournalFits /\ BackupFits /\ WorkFits /\ OwnerFits /\ LedgersFit /\ SeenFits
  BY DEF Base
<1>2. /\ journal' = journal /\ backup' = backup /\ lock' = lock /\ plan' = plan /\ settled' = settled
      /\ overwrite' = overwrite /\ owner' = owner /\ guessed' = guessed /\ edits' = edits
      /\ rest' \subseteq File \cup Ledgers /\ failed' \in BOOLEAN /\ faults' \in 0 .. MaxFaults
      /\ DOMAIN disk' = DOMAIN disk
  BY DEF Works
<1>3. /\ pc[u] \in {"apply", "publish", "restore", "rollback"} /\ pc[u] \in Holding /\ at \in Holding
      /\ at \in {"apply", "publish", "finish"} => pc[u] \in {"apply", "publish"}
  BY DEF Works, Holding
<1>4. /\ pc' \in [Updaters -> {"idle", "contend", "checked", "planned"} \cup Holding]
      /\ \A v \in Updaters : pc'[v] = IF v = u THEN at ELSE pc[v]
  BY <1>1, <1>3 DEF Works, TypeOK
<1>5. lock = u /\ \A v \in Updaters : v # u => pc[v] \notin Holding /\ pc'[v] \notin Holding
  BY <1>1, <1>3, <1>4, HolderIsAlone
<1>6. journal = "whole" /\ Named /\ Underway = backup /\ Underway' = backup
  BY <1>1, <1>2, <1>3 DEF JournalFits, Named, Underway
<1>7. /\ Ledgers \subseteq DOMAIN backup /\ DOMAIN backup \subseteq File \cup Ledgers
      /\ \A f \in DOMAIN backup \cap File :
            backup[f] \in Content /\ owner[f] # "user" /\ (backup[f] = "edit" => owner[f] # "generator")
      /\ \A l \in Ledgers : backup[l] \in Ledger
  BY <1>1, <1>6 DEF BackupFits, TypeOK
<1>8. /\ \A f \in File : Planned(plan[u], f) \in Content \ {"edit"}
      /\ \A l \in Ledgers : Planned(plan[u], l) \in Ledger
      /\ NeverEdited(Planned(plan[u], "editable"))
  BY <1>1, PlannedFits, CandidateIsContent DEF TypeOK, LedgersFit
<1>9. /\ \A f \in File : disk'[f] = disk[f] \/ (f \in DOMAIN backup /\ disk'[f] \in {backup[f], Planned(plan[u], f)})
      /\ \A l \in Ledgers : disk'[l] \in {disk[l], backup[l], Planned(plan[u], l), NoLedger}
      /\ \A p \in File \cup Ledgers : p \notin DOMAIN backup => disk'[p] = disk[p]
  BY <1>7, FilesAreNoLedgers DEF Works
<1>10. Project(disk')
  BY <1>1, <1>7, <1>8, <1>9, NoLedgerIsLedger DEF TypeOK, Project
<1>11. TypeOK'
  BY <1>1, <1>2, <1>3, <1>4, <1>10 DEF TypeOK, Project
<1>12. Shaped'
  BY <1>1, <1>2 DEF Shaped
<1>13. JournalFits'
  BY <1>2, <1>4, <1>5, <1>6 DEF JournalFits, Holding
<1>14. BackupFits'
  BY <1>2, <1>7 DEF BackupFits
<1>15. WorkFits'
  <2>1. \A v \in Updaters : v # u => BacksUp(v)' /\ Installs(v)' /\ Restores(v)'
    BY <1>5 DEF BacksUp, Installs, Restores, Holding
  <2>2. BacksUp(u)'
    BY <1>1, <1>2, <1>3, <1>4 DEF WorkFits, BacksUp
  <2> QED BY <2>1, <2>2 DEF WorkFits
<1>16. OwnerFits'
  BY <1>1, <1>2, <1>7, <1>8, <1>9 DEF OwnerFits
<1>17. LedgersFit'
  <2>1. NeverEdited(backup["editable"]) /\ NeverEdited(disk["editable"])
    BY <1>1, <1>6 DEF LedgersFit
  <2>2. NeverEdited(disk'["editable"])
    BY <1>8, <1>9, <2>1, NoLedgerIsLedger DEF Ledgers
  <2> QED BY <1>1, <1>2, <2>1, <2>2 DEF LedgersFit, NeverEdited
<1>18. SeenFits'
  <2>1. SUFFICES ASSUME NEW v \in Updaters, NEW f \in File
                 PROVE  Seen(v, f)' /\ Opened(v, f)'
    BY DEF SeenFits
  <2>2. Seen(v, f)
    BY <1>1 DEF SeenFits
  <2>3. Seen(v, f)'
    BY <1>2, <1>6, <1>9, <2>2 DEF Seen, UpToDate
  <2>4. Opened(v, f)'
    BY <1>4, <1>5 DEF Opened, Holding
  <2> QED BY <2>3, <2>4
<1>19. Base'
  BY <1>11, <1>12, <1>13, <1>14, <1>15, <1>16, <1>17, <1>18 DEF Base
<1>20. \A p \in File \cup Ledgers : Recoverable'[p] = Recoverable[p]
  BY <1>6, <1>9 DEF Recoverable
<1> QED BY <1>19, <1>20 DEF KeepsProject

-----------------------------------------------------------------------------
(* The steps, one by one *)

(* All steps but the end of an update: an updater has nothing to answer for. *)
Quiet(u) ==
    /\ Base' /\ KeepsProject /\ guessed' = guessed
    /\ \A f \in File : owner'[f] = "generator" => owner[f] = "generator"
    /\ \A v \in Updaters \ {u} : plan'[v] = plan[v]

LEMMA UnseenFits ==
  Project(Unseen) /\ NeverEdited(Unseen["editable"]) /\ \A f \in File : ~UpToDate(Unseen, f)
  BY FreshFits DEF Unseen

LEMMA FaultFits ==
  ASSUME TypeOK, Fault \/ faults' = faults
  PROVE  faults' \in 0 .. MaxFaults
  BY BoundsAssumption DEF TypeOK, Fault

LEMMA ForgetsStep ==
  ASSUME Base, NEW u \in Updaters,
         StartCheck(u) \/ RecoverRefused(u) \/ ApplyRefused(u) \/ LeavesProject(u)
  PROVE  Quiet(u)
<1>1. PICK at \in {"idle", "contend", "checked"} : Aside(u, at, Unseen, TRUE)
  <2>1. CASE StartCheck(u)
    <3>1. Aside(u, IF journal = "none" THEN "checked" ELSE "contend", Unseen, TRUE)
      BY <2>1 DEF StartCheck, Aside, Forget, Holding, project, holder, past
    <3> QED BY <3>1
  <2>2. CASE RecoverRefused(u)
    <3>1. Aside(u, "idle", Unseen, TRUE)
      BY <2>2 DEF RecoverRefused, Stop, Aside, Forget, Holding, project, holder, past
    <3> QED BY <3>1
  <2>3. CASE ApplyRefused(u)
    <3>1. Aside(u, "idle", Unseen, TRUE)
      BY <2>3 DEF ApplyRefused, Stop, Aside, Forget, Holding, project, holder, past
    <3> QED BY <3>1
  <2>4. CASE LeavesProject(u)
    <3>1. Aside(u, "idle", Unseen, TRUE)
      BY <2>4 DEF LeavesProject, Stop, Aside, Forget, Holding, project, holder, past
    <3> QED BY <3>1
  <2> QED BY <2>1, <2>2, <2>3, <2>4
<1>2. Base' /\ KeepsProject /\ \A v \in Updaters \ {u} : plan'[v] = plan[v]
  BY <1>1, AsideKeeps, UnseenFits
<1> QED BY <1>1, <1>2 DEF Quiet, Aside

(* A check that runs while no journal is there takes no file that an update is about  *)
(* to write for one that is up to date: that file would not be in the plan.           *)
LEMMA PreviewStep ==
  ASSUME Base, NEW u \in Updaters, PreviewUpdate(u)
  PROVE  Quiet(u)
<1>1. TypeOK /\ JournalFits /\ BackupFits /\ WorkFits /\ OwnerFits /\ LedgersFit /\ SeenFits
  BY DEF Base
<1>2. Aside(u, "planned", disk, journal = "none")
  BY DEF PreviewUpdate, Aside, Holding, project, holder, past
<1>3. ASSUME journal = "none", NEW f \in File, UpToDate(disk, f)
      PROVE  f \notin DOMAIN Underway
  <2>1. CASE lock = NoOne
    <3>1. Underway = Nothing
      BY <1>1, <1>3, <2>1, UnderwayIs
    <3> QED BY <3>1 DEF Nothing
  <2>2. CASE lock # NoOne
    <3>1. lock \in Updaters /\ pc[lock] \in Holding
      BY <1>1, <2>2 DEF TypeOK
    <3>2. pc[lock] \in {"backup", "open"}
      BY <1>1, <1>3, <3>1 DEF JournalFits, Holding
    <3>3. CASE pc[lock] = "backup"
      <4>1. Underway = Absent(lock)
        BY <1>1, <3>1, <3>3, UnderwayIs
      <4>2. ASSUME f \in IsApplied(plan[lock], overwrite) PROVE plan[lock][f] # "absent"
        BY <1>1, <1>3, <3>1, <3>3, <4>2 DEF WorkFits, BacksUp, UpToDate
      <4> QED BY <4>1, <4>2 DEF Absent
    <3>4. CASE pc[lock] = "open"
      <4>1. Underway = backup
        BY <1>1, <3>1, <3>4, UnderwayIs
      <4>2. ASSUME f \in DOMAIN backup PROVE FALSE
        <5>1. IsOrEdited(f, backup[f])
          BY <1>1, <3>1, <3>4, <4>2 DEF WorkFits, BacksUp, AsBackedUp
        <5>2. backup[f] = Candidate[f]
          BY <1>3, <5>1, CandidateIsContent DEF IsOrEdited, UpToDate
        <5>3. UpToDate(backup, f)
          BY <1>3, <5>2 DEF UpToDate
        <5> QED BY <1>1, <3>1, <3>4, <4>2, <5>3 DEF SeenFits, Opened
      <4> QED BY <4>1, <4>2
    <3> QED BY <3>2, <3>3, <3>4
  <2> QED BY <2>1, <2>2
<1>4. Project(disk) /\ NeverEdited(disk["editable"]) /\ (journal = "none") \in BOOLEAN
  BY <1>1 DEF TypeOK, LedgersFit
<1>5. (journal = "none") => \A f \in File : UpToDate(disk, f) => disk[f] = Candidate[f] /\ f \notin DOMAIN Underway
  BY <1>3 DEF UpToDate
<1>6. Base' /\ KeepsProject /\ \A v \in Updaters \ {u} : plan'[v] = plan[v]
  BY <1>2, <1>4, <1>5, AsideKeeps
<1> QED BY <1>2, <1>6 DEF Quiet, Aside

LEMMA RestoreEntryStep ==
  ASSUME Base, NEW u \in Updaters, RestoreEntry(u) \/ RestoreEntryFails(u)
  PROVE  Quiet(u)
<1>1. TypeOK /\ Shaped /\ BackupFits /\ WorkFits
  BY DEF Base
<1>2. PICK p \in DOMAIN backup :
        /\ rest' = rest \ {p}
        /\ \/ disk' = [disk EXCEPT ![p] = backup[p]] /\ UNCHANGED <<failed, faults>>
           \/ disk' = disk /\ failed' = TRUE /\ Fault
  BY DEF RestoreEntry, RestoreEntryFails, Entries, IsNext, Done, project
<1>3. /\ pc[u] \in {"restore", "rollback"} /\ pc' = pc
      /\ UNCHANGED <<journal, backup, lock, plan, settled, overwrite, owner, guessed, edits>>
  BY DEF RestoreEntry, RestoreEntryFails, project, seen, past
<1>4. DOMAIN disk' = DOMAIN disk /\ p \in File \cup Ledgers /\ DOMAIN backup \subseteq File \cup Ledgers
  BY <1>1, <1>2 DEF TypeOK
<1>5. \A q \in File \cup Ledgers : disk'[q] = disk[q] \/ (q = p /\ disk'[q] = backup[q])
  BY <1>1, <1>2 DEF Shaped
<1>6. failed' = FALSE => failed = FALSE /\ disk'[p] = backup[p]
  BY <1>1, <1>2, <1>4 DEF Shaped, TypeOK
<1>7. faults' \in 0 .. MaxFaults /\ failed' \in BOOLEAN /\ rest' \subseteq File \cup Ledgers
  <2>1. faults' \in 0 .. MaxFaults
    BY <1>1, <1>2, FaultFits
  <2> QED BY <1>1, <1>2, <2>1 DEF TypeOK
<1>8. pc' = [pc EXCEPT ![u] = pc[u]]
  BY <1>1, <1>3 DEF TypeOK
<1>9. Works(u, pc[u])
  BY <1>2, <1>3, <1>4, <1>5, <1>7, <1>8 DEF Works
<1>10. Installs(u)'
  BY <1>3 DEF Installs
<1>11. Restores(u)'
  <2>1. ASSUME ~failed', NEW q \in DOMAIN backup \ rest' PROVE AsBackedUp(q)'
    <3>1. ~failed /\ disk'[p] = backup[p]
      BY <1>1, <1>6, <1>7, <2>1 DEF TypeOK
    <3>2. q \in DOMAIN backup /\ q \in File \cup Ledgers /\ (q = p \/ q \notin rest)
      BY <1>2, <1>4, <2>1
    <3>3. q \notin rest => AsBackedUp(q)
      BY <1>1, <1>3, <2>1, <3>1 DEF WorkFits, Restores
    <3> QED BY <1>3, <1>5, <3>1, <3>2, <3>3 DEF AsBackedUp, IsOrEdited
  <2> QED BY <1>3, <2>1 DEF Restores
<1>12. Base' /\ KeepsProject
  BY <1>3, <1>9, <1>10, <1>11, WorksKeeps
<1> QED BY <1>3, <1>12 DEF Quiet

(* Writing goes on: at the end every file of the backup is as planned. *)
LEMMA InstallStep ==
  ASSUME Base, NEW u \in Updaters, Install(u) \/ RemoveLedger(u) \/ Verify(u)
  PROVE  Quiet(u)
<1>1. TypeOK /\ Shaped /\ JournalFits /\ BackupFits /\ WorkFits
  BY DEF Base
<1>2. /\ pc[u] \in {"apply", "publish"}
      /\ UNCHANGED <<journal, backup, lock, plan, settled, overwrite, owner, guessed, edits, failed>>
  BY DEF Install, RemoveLedger, Verify, Go, Write, project, seen, past, holder
<1>3. journal = "whole" /\ Ledgers \subseteq DOMAIN backup
  BY <1>1, <1>2 DEF JournalFits, BackupFits, Named
<1>4. PICK at \in {"apply", "publish", "finish"}, p \in DOMAIN backup :
        /\ pc' = [pc EXCEPT ![u] = at]
        /\ \/ rest' = rest \ {p} /\ disk' = [disk EXCEPT ![p] = Planned(plan[u], p)]
           \/ rest' = rest /\ p \in rest /\ p \in Ledgers /\ disk' = [disk EXCEPT ![p] = NoLedger]
           \/ rest' = rest /\ disk' = disk
        /\ at = "finish" => rest' = {}
        /\ Fault \/ faults' = faults
  <2>1. CASE Install(u)
    BY <2>1 DEF Install, Entries, IsNext, Done, Go, Write, past
  <2>2. CASE RemoveLedger(u)
    BY <1>3, <2>2 DEF RemoveLedger, Ledgers, IsNext, Go, Write, past, holder
  <2>3. CASE Verify(u)
    BY <1>3, <2>3 DEF Verify, Go, holder, project, Ledgers
  <2> QED BY <2>1, <2>2, <2>3
<1>5. DOMAIN disk' = DOMAIN disk /\ p \in File \cup Ledgers /\ DOMAIN backup \subseteq File \cup Ledgers
  BY <1>1, <1>4 DEF TypeOK
<1>6. \A q \in File \cup Ledgers :
        \/ disk'[q] = disk[q]
        \/ q = p /\ p \notin rest' /\ disk'[q] = Planned(plan[u], q)
        \/ q = p /\ p \in rest' /\ q \in Ledgers /\ disk'[q] = NoLedger
  BY <1>1, <1>4 DEF Shaped
<1>7. rest' = rest \/ (rest' = rest \ {p} /\ disk'[p] = Planned(plan[u], p))
  BY <1>1, <1>4, <1>5 DEF Shaped
<1>8. faults' \in 0 .. MaxFaults /\ failed' \in BOOLEAN /\ rest' \subseteq File \cup Ledgers
  <2>1. faults' \in 0 .. MaxFaults
    BY <1>1, <1>4, FaultFits
  <2> QED BY <1>1, <1>2, <1>7, <2>1 DEF TypeOK
<1>9. /\ pc' = [pc EXCEPT ![u] = at] /\ pc'[u] = at /\ (at = "finish" => rest' = {})
  BY <1>1, <1>4 DEF TypeOK
<1>10. Works(u, at)
  BY <1>2, <1>5, <1>6, <1>8, <1>9 DEF Works
<1>11. ASSUME NEW q \in DOMAIN backup \ rest' PROVE AsPlanned(u, q)'
  <2>1. q \in File \cup Ledgers /\ (q \notin rest \/ (q = p /\ disk'[q] = Planned(plan[u], q)))
    BY <1>5, <1>7, <1>11
  <2>2. q \notin rest => AsPlanned(u, q)
    BY <1>1, <1>2, <1>11 DEF WorkFits, Installs
  <2>3. disk'[q] \in {disk[q], Planned(plan[u], q)}
    BY <1>6, <1>11, <2>1
  <2>4. disk'[q] = Planned(plan[u], q) \/ (q \in File /\ disk'[q] = "edit")
    BY <2>1, <2>2, <2>3 DEF AsPlanned, IsOrEdited
  <2>5. plan' = plan
    BY <1>2
  <2> QED BY <2>4, <2>5 DEF AsPlanned, IsOrEdited
<1>12. Installs(u)'
  BY <1>2, <1>9, <1>11 DEF Installs
<1>13. Restores(u)'
  BY <1>4, <1>9 DEF Restores
<1>14. Base' /\ KeepsProject
  BY <1>10, <1>12, <1>13, WorksKeeps
<1> QED BY <1>2, <1>14 DEF Quiet

(* A rollback starts: every entry of the backup is still to be restored. *)
LEMMA RollbackStep ==
  ASSUME Base, NEW u \in Updaters, InstallFails(u) \/ VerifyFails(u)
  PROVE  Quiet(u)
<1>1. TypeOK
  BY DEF Base
<1>2. /\ pc[u] \in {"apply", "publish"} /\ pc' = [pc EXCEPT ![u] = "rollback"]
      /\ rest' = DOMAIN backup /\ failed' = FALSE
      /\ UNCHANGED <<disk, journal, backup, lock, plan, settled, overwrite, owner, guessed, edits>>
      /\ Fault \/ faults' = faults
  BY DEF InstallFails, VerifyFails, Rollback, Go, Entries, project, seen, past
<1>3. pc'[u] = "rollback" /\ DOMAIN backup \subseteq File \cup Ledgers /\ faults' \in 0 .. MaxFaults
  BY <1>1, <1>2, FaultFits DEF TypeOK
<1>4. Works(u, "rollback")
  BY <1>2, <1>3 DEF Works
<1>5. Installs(u)' /\ Restores(u)'
  BY <1>2, <1>3 DEF Installs, Restores
<1>6. Base' /\ KeepsProject
  BY <1>4, <1>5, WorksKeeps
<1> QED BY <1>2, <1>6 DEF Quiet

(* Before anything is written, and once everything is restored, the project is in    *)
(* order without its journal.                                                        *)
LEMMA NothingHalfDone ==
  ASSUME Base, NEW u \in Updaters,
         \/ pc[u] \in {"backup", "open", "write"}
         \/ pc[u] \in {"restore", "rollback"} /\ rest = {} /\ ~failed
  PROVE  \A p \in File \cup Ledgers : IsOrEdited(p, Recoverable[p])
<1>1. TypeOK /\ JournalFits /\ WorkFits
  BY DEF Base
<1>2. CASE pc[u] = "backup"
  <2>1. Underway = Absent(u)
    BY <1>1, <1>2, UnderwayIs
  <2>2. \A p \in DOMAIN Absent(u) : p \in File /\ plan[u][p] = "absent" /\ Absent(u)[p] = "absent" /\ p \in IsApplied(plan[u], overwrite)
    BY <1>1, AppliedIsChanged DEF Absent, TypeOK
  <2>3. \A p \in DOMAIN Absent(u) : IsOrEdited(p, "absent")
    BY <1>1, <1>2, <2>2 DEF WorkFits, BacksUp, IsOrEdited
  <2> QED BY <2>1, <2>2, <2>3, RecoverableAt DEF IsOrEdited
<1>3. CASE pc[u] \in {"open", "write", "restore", "rollback"}
  <2>1. Underway = backup
    BY <1>1, <1>3, UnderwayIs DEF JournalFits
  <2>2. \A p \in DOMAIN backup : IsOrEdited(p, backup[p])
    BY <1>1, <1>3 DEF WorkFits, BacksUp, Restores, AsBackedUp
  <2> QED BY <2>1, <2>2, RecoverableAt DEF IsOrEdited
<1> QED BY <1>2, <1>3

LEMMA LeavesStep ==
  ASSUME Base, NEW u \in Updaters,
         \/ BackupFails(u) \/ WriteJournalFails(u) \/ FinishWarns(u)
         \/ Restored(u) \/ RestoreFailed(u) \/ Crash(u)
  PROVE  Quiet(u)
<1>1. TypeOK /\ JournalFits /\ OwnerFits
  BY DEF Base
<1>2. PICK at \in {"idle", "checked"} :
        /\ pc[u] \in Holding /\ Release(u, at) /\ UNCHANGED <<disk, owner, guessed, edits>>
        /\ Fault \/ faults' = faults
        /\ \/ UNCHANGED <<journal, backup>>
           \/ pc[u] \in {"write", "restore", "rollback"} /\ journal' \in {journal, "none"} /\ backup' = Nothing
              /\ (pc[u] # "write" => rest = {} /\ ~failed /\ journal' = "none")
           \/ journal' = journal /\ journal # "whole" /\ backup' = Nothing
  <2>1. CASE BackupFails(u)
    BY <2>1 DEF BackupFails, Holding, project, past
  <2>2. CASE WriteJournalFails(u)
    BY <2>2 DEF WriteJournalFails, Holding, past
  <2>3. CASE FinishWarns(u)
    BY <2>3 DEF FinishWarns, Holding, project, past
  <2>4. CASE Restored(u)
    <3>1. Release(u, "checked") \/ Release(u, "idle")
      BY <2>4 DEF Restored
    <3> QED BY <2>4, <3>1 DEF Restored, Holding, past
  <2>5. CASE RestoreFailed(u)
    BY <2>5 DEF RestoreFailed, Holding, project, past
  <2>6. CASE Crash(u)
    BY <2>6 DEF Crash, past
  <2> QED BY <2>1, <2>2, <2>3, <2>4, <2>5, <2>6
<1>3. faults' \in 0 .. MaxFaults /\ edits' \in 0 .. MaxEdits /\ guessed' \in BOOLEAN
  BY <1>1, <1>2, FaultFits DEF TypeOK
<1>4. journal \in {"none", "torn", "whole"} /\ (pc[u] = "write" => journal = "torn")
  BY <1>1 DEF TypeOK, JournalFits
<1>5. Leaves(u, at)
  BY <1>2, <1>3, <1>4 DEF Leaves
<1>6. journal' # "whole" =>
        \/ pc[u] \in {"backup", "open", "write"}
        \/ pc[u] \in {"restore", "rollback"} /\ rest = {} /\ ~failed
  BY <1>1, <1>2, <1>4 DEF JournalFits, Holding
<1>7. /\ Base' /\ \A v \in Updaters \ {u} : plan'[v] = plan[v]
      /\ journal' = "whole" => \A p \in File \cup Ledgers : Recoverable'[p] = Recoverable[p]
      /\ journal' # "whole" => \A p \in File \cup Ledgers : Recoverable'[p] = disk[p]
  BY <1>5, LeavesKeeps
<1>8. KeepsProject
  <2>1. CASE journal' = "whole"
    BY <1>7, <2>1 DEF KeepsProject
  <2>2. CASE journal' # "whole"
    <3>1. \A p \in File \cup Ledgers : IsOrEdited(p, Recoverable[p]) /\ Recoverable'[p] = disk[p]
      BY <1>6, <1>7, <2>2, NothingHalfDone
    <3>2. \A f \in File : disk[f] = "edit" => owner'[f] # "generator"
      BY <1>1, <1>2 DEF OwnerFits
    <3> QED BY <3>1, <3>2 DEF KeepsProject, IsOrEdited
  <2> QED BY <2>1, <2>2
<1> QED BY <1>2, <1>7, <1>8 DEF Quiet

(* The user's edit is in the project at once, or with the backup that the next check *)
(* restores.                                                                         *)
LEMMA UserEditsStep ==
  ASSUME Base, NEW f \in File, UserEdits(f)
  PROVE  /\ Base' /\ KeepsProject /\ plan' = plan /\ guessed' = guessed
         /\ \A g \in File : owner'[g] = "generator" => owner[g] = "generator"
<1>1. TypeOK /\ Shaped /\ JournalFits /\ BackupFits /\ WorkFits /\ OwnerFits /\ LedgersFit /\ SeenFits
  BY DEF Base
<1>2. /\ UNCHANGED <<journal, backup, lock, pc, plan, settled, overwrite, rest, failed, guessed, faults>>
      /\ edits' \in 0 .. MaxEdits
  BY <1>1, BoundsAssumption DEF UserEdits, seen, holder, TypeOK
<1>3. DOMAIN disk' = DOMAIN disk /\ \A p \in File \cup Ledgers : disk'[p] = IF p = f THEN "edit" ELSE disk[p]
  BY <1>1 DEF UserEdits, Shaped
<1>4. PICK who \in {"user", "busy"} :
        /\ owner' = [owner EXCEPT ![f] = who]
        /\ who = "user" <=> lock = NoOne /\ journal # "whole"
  BY DEF UserEdits
<1>5. /\ owner' \in [File -> {"generator", "user", "backup", "busy"}]
      /\ \A g \in File : owner'[g] = IF g = f THEN who ELSE owner[g]
  BY <1>1, <1>4 DEF TypeOK
<1>6. Underway' = Underway
  BY <1>2 DEF Underway
<1>7. \A l \in Ledgers : disk'[l] = disk[l]
  BY <1>3, FilesAreNoLedgers
<1>8. (Named <=> Named') /\ (Named => who = "busy")
  <2>1. \A u \in Updaters : pc[u] \in {"open", "write"} => lock # NoOne
    BY <1>1, HolderIsAlone DEF Holding
  <2> QED BY <1>2, <1>4, <2>1 DEF Named
<1>9. TypeOK'
  <2>1. Project(disk')
    BY <1>1, <1>3, <1>7 DEF TypeOK, Project, Content
  <2> QED BY <1>1, <1>2, <1>5, <2>1 DEF TypeOK, Project
<1>10. Shaped'
  BY <1>1, <1>2, <1>3, <1>5 DEF Shaped
<1>11. JournalFits'
  BY <1>1, <1>2 DEF JournalFits
<1>12. BackupFits'
  BY <1>1, <1>2, <1>5, <1>8 DEF BackupFits
<1>13. WorkFits'
  <2>1. SUFFICES ASSUME NEW u \in Updaters
                 PROVE  BacksUp(u)' /\ Installs(u)' /\ Restores(u)'
    BY DEF WorkFits
  <2>2. BacksUp(u) /\ Installs(u) /\ Restores(u)
    BY <1>1 DEF WorkFits
  <2>3. \A p \in File \cup Ledgers : disk'[p] = disk[p] \/ (p \in File /\ disk'[p] = "edit")
    BY <1>3
  <2>4. \A p \in File \cup Ledgers : (AsBackedUp(p) => AsBackedUp(p)') /\ (AsPlanned(u, p) => AsPlanned(u, p)')
    BY <1>2, <2>3 DEF AsBackedUp, AsPlanned, IsOrEdited
  <2>5. DOMAIN backup \subseteq File \cup Ledgers /\ IsApplied(plan[u], overwrite) \subseteq File
    BY <1>1, AppliedIsChanged DEF TypeOK
  <2>6. pc[u] = "backup" => who = "busy"
    BY <1>1, <1>4, HolderIsAlone DEF Holding
  <2>7. BacksUp(u)'
    BY <1>2, <1>3, <1>5, <2>2, <2>4, <2>5, <2>6 DEF BacksUp
  <2>8. Installs(u)'
    BY <1>2, <2>2, <2>4, <2>5 DEF Installs
  <2>9. Restores(u)'
    BY <1>2, <2>2, <2>4, <2>5 DEF Restores
  <2> QED BY <2>7, <2>8, <2>9
<1>14. OwnerFits'
  BY <1>1, <1>3, <1>5 DEF OwnerFits
<1>15. LedgersFit'
  BY <1>1, <1>2, <1>7, <1>8 DEF LedgersFit, NeverEdited, Ledgers
<1>16. SeenFits'
  <2>1. SUFFICES ASSUME NEW u \in Updaters, NEW g \in File
                 PROVE  Seen(u, g)' /\ Opened(u, g)'
    BY DEF SeenFits
  <2>2. Seen(u, g) /\ Opened(u, g)
    BY <1>1 DEF SeenFits
  <2>3. owner'[g] = "generator" => owner[g] = "generator" /\ disk'[g] = disk[g]
    BY <1>3, <1>5
  <2>4. Seen(u, g)'
    BY <1>2, <1>6, <2>2, <2>3 DEF Seen, UpToDate
  <2>5. Opened(u, g)'
    BY <1>2, <2>2, <2>3 DEF Opened, UpToDate
  <2> QED BY <2>4, <2>5
<1>17. Base'
  BY <1>9, <1>10, <1>11, <1>12, <1>13, <1>14, <1>15, <1>16 DEF Base
<1>18. KeepsProject
  BY <1>3, <1>5, <1>6 DEF KeepsProject, Recoverable
<1> QED BY <1>2, <1>5, <1>17, <1>18

(* The lock's holder, old or new, prepares: the project stays as it is. *)
Prepares(u, at) ==
    /\ at \in Holding /\ pc' = [pc EXCEPT ![u] = at]
    /\ lock' = u /\ (lock = NoOne \/ pc[u] \in Holding)
    /\ UNCHANGED <<disk, plan, settled, guessed, edits, faults>>
    /\ owner' \in [File -> {"generator", "user", "backup", "busy"}]
    /\ \A f \in File : owner'[f] = owner[f] \/ (owner[f] = "user" /\ owner'[f] = "backup" /\ f \notin Templates)
    /\ overwrite' \in BOOLEAN /\ failed' \in BOOLEAN /\ journal' \in {"none", "torn", "whole"}
    /\ rest' \subseteq File \cup Ledgers /\ DOMAIN backup' \subseteq File \cup Ledgers

LEMMA PreparesKeeps ==
  ASSUME Base, NEW u \in Updaters, NEW at, Prepares(u, at),
         at \in {"backup", "open"} => journal' = "none",
         at = "write" => journal' = "torn",
         at \notin {"backup", "open", "write"} => journal' = "whole",
         BackupFits', Named' => NeverEdited(backup'["editable"]),
         BacksUp(u)', Installs(u)', Restores(u)',
         \A f \in File : Opened(u, f)',
         \A f \in File : UpToDate(disk, f) /\ f \notin DOMAIN Underway => f \notin DOMAIN Underway',
         \A p \in File \cup Ledgers : Recoverable'[p] = Recoverable[p]
  PROVE  Quiet(u)
<1>1. TypeOK /\ Shaped /\ JournalFits /\ WorkFits /\ OwnerFits /\ LedgersFit /\ SeenFits
  BY DEF Base
<1>2. /\ at \in Holding /\ lock' = u
      /\ disk' = disk /\ plan' = plan /\ settled' = settled /\ guessed' = guessed /\ edits' = edits /\ faults' = faults
      /\ owner' \in [File -> {"generator", "user", "backup", "busy"}]
      /\ \A f \in File : owner'[f] = owner[f] \/ (owner[f] = "user" /\ owner'[f] = "backup" /\ f \notin Templates)
      /\ overwrite' \in BOOLEAN /\ failed' \in BOOLEAN /\ journal' \in {"none", "torn", "whole"}
      /\ rest' \subseteq File \cup Ledgers /\ DOMAIN backup' \subseteq File \cup Ledgers
  BY DEF Prepares
<1>3. /\ pc' \in [Updaters -> {"idle", "contend", "checked", "planned"} \cup Holding]
      /\ \A v \in Updaters : pc'[v] = IF v = u THEN at ELSE pc[v]
  BY <1>1 DEF Prepares, TypeOK
<1>4. \A v \in Updaters : v # u => pc[v] \notin Holding /\ pc'[v] \notin Holding
  <2>1. CASE lock = NoOne
    BY <1>1, <1>3, <2>1, BoundsAssumption DEF TypeOK
  <2>2. CASE lock # NoOne
    BY <1>1, <1>3, <2>2, HolderIsAlone DEF Prepares
  <2> QED BY <2>1, <2>2
<1>5. TypeOK'
  <2>1. \A v \in Updaters : lock' = v <=> pc'[v] \in Holding
    BY <1>2, <1>3, <1>4
  <2> QED BY <1>1, <1>2, <1>3, <2>1 DEF TypeOK, Project
<1>6. Shaped'
  BY <1>1, <1>2 DEF Shaped
<1>7. JournalFits'
  BY <1>3, <1>4 DEF JournalFits, Holding
<1>8. WorkFits'
  <2>1. \A v \in Updaters : v # u => BacksUp(v)' /\ Installs(v)' /\ Restores(v)'
    BY <1>4 DEF BacksUp, Installs, Restores, Holding
  <2> QED BY <2>1 DEF WorkFits
<1>9. OwnerFits'
  BY <1>1, <1>2 DEF OwnerFits
<1>10. LedgersFit'
  BY <1>1, <1>2 DEF LedgersFit, NeverEdited
<1>11. SeenFits'
  <2>1. SUFFICES ASSUME NEW v \in Updaters, NEW f \in File
                 PROVE  Seen(v, f)' /\ Opened(v, f)'
    BY DEF SeenFits
  <2>2. Seen(v, f)
    BY <1>1 DEF SeenFits
  <2>3. owner'[f] = "generator" => owner[f] = "generator"
    BY <1>2
  <2>4. Seen(v, f)'
    BY <1>2, <2>2, <2>3 DEF Seen, UpToDate
  <2>5. Opened(v, f)'
    BY <1>4 DEF Opened, Holding
  <2> QED BY <2>4, <2>5
<1>12. Base'
  BY <1>5, <1>6, <1>7, <1>8, <1>9, <1>10, <1>11 DEF Base
<1> QED BY <1>2, <1>12 DEF Quiet, KeepsProject

LEMMA RecoverStep ==
  ASSUME Base, NEW u \in Updaters, Recover(u)
  PROVE  Quiet(u)
<1>1. TypeOK /\ Shaped /\ JournalFits /\ BackupFits /\ LedgersFit
  BY DEF Base
<1>2. /\ UNCHANGED <<disk, journal, backup, plan, settled, overwrite, owner, guessed, edits, faults>>
      /\ lock = NoOne /\ lock' = u /\ pc' = [pc EXCEPT ![u] = "restore"] /\ journal = "whole"
      /\ rest' = DOMAIN backup /\ failed' = FALSE
  BY DEF Recover, Take, Entries, project, seen, past
<1>3. pc'[u] = "restore" /\ DOMAIN backup \subseteq File \cup Ledgers
  BY <1>1, <1>2 DEF TypeOK
<1>4. Prepares(u, "restore")
  BY <1>1, <1>2, <1>3 DEF Prepares, TypeOK, Holding
<1>5. BackupFits' /\ NeverEdited(backup'["editable"])
  BY <1>1, <1>2 DEF BackupFits, LedgersFit, Named
<1>6. BacksUp(u)' /\ Installs(u)' /\ Restores(u)' /\ \A f \in File : Opened(u, f)'
  BY <1>2, <1>3 DEF BacksUp, Installs, Restores, Opened
<1>7. Underway' = Underway
  BY <1>2 DEF Underway
<1>8. \A p \in File \cup Ledgers : Recoverable'[p] = Recoverable[p]
  BY <1>2, <1>7 DEF Recoverable
<1> QED BY <1>2, <1>4, <1>5, <1>6, <1>7, <1>8, PreparesKeeps

LEMMA ApplyStep ==
  ASSUME Base, NEW u \in Updaters, ApplyUpdate(u)
  PROVE  Quiet(u)
<1>1. TypeOK /\ Shaped /\ JournalFits /\ OwnerFits
  BY DEF Base
<1>2. /\ UNCHANGED <<disk, journal, backup, plan, settled, rest, failed, owner, guessed, edits, faults>>
      /\ lock = NoOne /\ lock' = u /\ pc' = [pc EXCEPT ![u] = "backup"] /\ journal = "none"
      /\ overwrite' \in BOOLEAN /\ (Conflicts(plan[u]) = {} \/ overwrite')
      /\ \A f \in Changes(plan[u]) : disk[f] = plan[u][f]
  BY DEF ApplyUpdate, Take, Verified, Stages, project, seen, past
<1>3. pc'[u] = "backup"
  BY <1>1, <1>2 DEF TypeOK
<1>4. Prepares(u, "backup")
  BY <1>1, <1>2, <1>3 DEF Prepares, TypeOK, Holding
<1>5. ~Named'
  <2>1. \A v \in Updaters : pc'[v] \notin {"open", "write"}
    BY <1>1, <1>2, BoundsAssumption DEF TypeOK, Holding
  <2> QED BY <1>2, <2>1 DEF Named
<1>6. BackupFits'
  BY <1>5 DEF BackupFits
<1>7. IsApplied(plan[u], overwrite') \subseteq Changes(plan[u]) /\ Changes(plan[u]) \subseteq File
  BY <1>2, AppliedIsChanged
<1>8. BacksUp(u)'
  <2>1. \A f \in IsApplied(plan[u], overwrite') : disk[f] = plan[u][f]
    BY <1>2, <1>7
  <2>2. plan' = plan /\ disk' = disk
    BY <1>2
  <2>3. (\A f \in IsApplied(plan[u], overwrite) : disk[f] = plan[u][f])'
    BY <2>1, <2>2
  <2>4. (Conflicts(plan[u]) = {} \/ overwrite)'
    BY <1>2
  <2> QED BY <1>3, <2>3, <2>4 DEF BacksUp
<1>9. Installs(u)' /\ Restores(u)' /\ \A f \in File : Opened(u, f)'
  BY <1>3 DEF Installs, Restores, Opened
<1>10. Underway = Nothing
  BY <1>1, <1>2, UnderwayIs
<1>11. Underway' = [f \in {g \in IsApplied(plan[u], overwrite') : plan[u][g] = "absent"} |-> "absent"]
  BY <1>2, <1>3, BoundsAssumption DEF Underway
<1>12. \A f \in DOMAIN Underway' : f \in File /\ disk[f] = "absent" /\ Underway'[f] = "absent"
  BY <1>2, <1>7, <1>11
<1>13. \A p \in File \cup Ledgers : Recoverable'[p] = Recoverable[p]
  BY <1>2, <1>10, <1>12 DEF Recoverable, Nothing
<1>14. \A f \in File : UpToDate(disk, f) => f \notin DOMAIN Underway'
  BY <1>12 DEF UpToDate
<1> QED BY <1>2, <1>4, <1>5, <1>6, <1>8, <1>9, <1>13, <1>14, PreparesKeeps

(* The backup is taken of what the check saw, or of an edit made since. *)
LEMMA TakeBackupStep ==
  ASSUME Base, NEW u \in Updaters, TakeBackup(u)
  PROVE  Quiet(u)
<1>1. TypeOK /\ Shaped /\ JournalFits /\ WorkFits /\ OwnerFits /\ LedgersFit
  BY DEF Base
<1> DEFINE B == BackedUp(u)
           Applied == IsApplied(plan[u], overwrite)
<1>2. /\ UNCHANGED <<disk, journal, lock, plan, settled, overwrite, rest, failed, guessed, edits, faults>>
      /\ pc[u] = "backup" /\ pc' = [pc EXCEPT ![u] = "open"] /\ backup' = B
      /\ owner' = [f \in File |-> IF f \in DOMAIN B /\ B[f] = "edit" /\ owner[f] = "user"
                                  THEN "backup" ELSE owner[f]]
  BY DEF TakeBackup, Go, holder, seen
<1>3. lock = u /\ pc'[u] = "open" /\ journal = "none"
  BY <1>1, <1>2, HolderIsAlone DEF TypeOK, Holding, JournalFits
<1>4. Applied \subseteq File /\ overwrite \in BOOLEAN
  BY <1>1, AppliedIsChanged DEF TypeOK
<1>5. DOMAIN B = Applied \cup Ledgers
  BY DEF BackedUp
<1>6. \A f \in Applied : B[f] = IF plan[u][f] = "absent" THEN "absent" ELSE disk[f]
  BY <1>4 DEF BackedUp
<1>7. \A l \in Ledgers : B[l] = disk[l]
  BY FilesAreNoLedgers DEF BackedUp
<1>8. \A f \in Applied : disk[f] = plan[u][f] \/ (disk[f] = "edit" /\ owner[f] = "busy")
  BY <1>1, <1>2 DEF WorkFits, BacksUp
<1>9. \A f \in File : /\ disk[f] \in Content
                      /\ owner[f] \in {"generator", "user", "backup", "busy"}
                      /\ owner[f] = "user" => disk[f] = "edit"
                      /\ owner[f] = "generator" => disk[f] # "edit"
  BY <1>1 DEF TypeOK, Project, OwnerFits
<1> HIDE DEF B
<1>10. DOMAIN B \cap File = Applied
  BY <1>4, <1>5, FilesAreNoLedgers
<1>11. \A f \in File : owner'[f] = IF f \in Applied /\ B[f] = "edit" /\ owner[f] = "user" THEN "backup" ELSE owner[f]
  BY <1>2, <1>10
<1>12. \A f \in Applied : B[f] = "edit" /\ owner[f] = "user" => f \notin Templates
  <2>1. ASSUME NEW f \in Applied, B[f] = "edit", owner[f] = "user" PROVE plan[u][f] = "edit"
    BY <1>4, <1>6, <1>8, <1>9, <2>1
  <2>2. NeverEdited(plan[u]["editable"])
    BY <1>1 DEF LedgersFit
  <2> QED BY <1>4, <2>1, <2>2, EditedTemplateIsNotApplied
<1>13. Prepares(u, "open")
  <2>1. \A f \in File : owner'[f] = owner[f] \/ (owner[f] = "user" /\ owner'[f] = "backup" /\ f \notin Templates)
    BY <1>11, <1>12
  <2>2. owner' \in [File -> {"generator", "user", "backup", "busy"}]
    BY <1>2, <1>9
  <2>3. DOMAIN backup' \subseteq File \cup Ledgers
    BY <1>2, <1>4, <1>5
  <2>4. rest' \subseteq File \cup Ledgers /\ overwrite' \in BOOLEAN /\ failed' \in BOOLEAN
        /\ journal' \in {"none", "torn", "whole"}
    BY <1>1, <1>2 DEF TypeOK
  <2>5. pc[u] \in Holding /\ "open" \in Holding
    BY <1>2 DEF Holding
  <2> QED BY <1>2, <1>3, <2>1, <2>2, <2>3, <2>4, <2>5 DEF Prepares
<1>14. BackupFits'
  <2>1. Ledgers \subseteq DOMAIN B /\ \A l \in Ledgers : B[l] \in Ledger
    BY <1>1, <1>5, <1>7 DEF TypeOK, Project
  <2>2. ASSUME NEW f \in Applied
        PROVE  /\ B[f] \in Content /\ owner'[f] # "user"
               /\ B[f] = "edit" => owner'[f] # "generator"
    BY <1>4, <1>6, <1>8, <1>9, <1>11 DEF Content
  <2>3. \A f \in DOMAIN B \cap File : /\ B[f] \in Content /\ owner'[f] # "user"
                                      /\ B[f] = "edit" => owner'[f] # "generator"
    BY <1>10, <2>2
  <2> QED BY <1>2, <2>1, <2>3 DEF BackupFits
<1>15. NeverEdited(backup'["editable"])
  BY <1>1, <1>2, <1>7 DEF LedgersFit, Ledgers
<1>16. BacksUp(u)'
  <2>1. Conflicts(plan[u]) = {} \/ overwrite
    BY <1>1, <1>2 DEF WorkFits, BacksUp
  <2>2. \A p \in DOMAIN B : disk[p] = B[p] \/ (p \in File /\ disk[p] = "edit")
    BY <1>4, <1>5, <1>6, <1>7, <1>8
  <2>3. \A p \in DOMAIN B : AsBackedUp(p)'
    BY <1>2, <2>2 DEF AsBackedUp, IsOrEdited
  <2> QED BY <1>2, <1>3, <1>5, <2>1, <2>3 DEF BacksUp
<1>17. Installs(u)' /\ Restores(u)'
  BY <1>3 DEF Installs, Restores
<1>18. \A f \in File : Opened(u, f)'
  <2>1. ASSUME NEW f \in Applied, owner'[f] = "generator", Candidate[f] # "absent", B[f] = Candidate[f] PROVE FALSE
    <3>1. owner[f] = "generator" /\ plan[u][f] = Candidate[f]
      BY <1>4, <1>6, <1>8, <1>11, <2>1
    <3> QED BY <1>4, <2>1, <3>1, UpToDateIsNotApplied
  <2> QED BY <1>2, <1>10, <2>1 DEF Opened, UpToDate
<1>19. Underway = Absent(u)
  BY <1>1, <1>2, UnderwayIs
<1>20. Underway' = B
  BY <1>2, <1>3, BoundsAssumption DEF Underway
<1>21. \A f \in File : UpToDate(disk, f) /\ f \notin DOMAIN Underway => f \notin DOMAIN Underway'
  <2>1. ASSUME NEW f \in Applied, UpToDate(disk, f) PROVE FALSE
    <3>1. plan[u][f] = Candidate[f] /\ Candidate[f] # "absent"
      BY <1>4, <1>8, <2>1 DEF UpToDate
    <3> QED BY <1>4, <3>1, UpToDateIsNotApplied
  <2> QED BY <1>10, <1>20, <2>1
<1>22. \A p \in File \cup Ledgers : Recoverable'[p] = Recoverable[p]
  <2>1. \A p \in File \cup Ledgers : Recoverable[p] = IF p \in Applied /\ plan[u][p] = "absent" THEN "absent" ELSE disk[p]
    BY <1>19, RecoverableAt DEF Absent
  <2>2. \A p \in File \cup Ledgers : Recoverable'[p] = IF p \in DOMAIN B THEN B[p] ELSE disk[p]
    BY <1>2, <1>20 DEF Recoverable
  <2>3. \A l \in Ledgers : l \notin Applied
    BY <1>4, FilesAreNoLedgers
  <2> QED BY <1>4, <1>5, <1>6, <1>7, <2>1, <2>2, <2>3
<1> QED BY <1>2, <1>3, <1>13, <1>14, <1>15, <1>16, <1>17, <1>18, <1>21, <1>22, PreparesKeeps

LEMMA JournalStep ==
  ASSUME Base, NEW u \in Updaters, OpenJournal(u) \/ WriteJournal(u)
  PROVE  Quiet(u)
<1>1. TypeOK /\ Shaped /\ JournalFits /\ BackupFits /\ WorkFits /\ LedgersFit
  BY DEF Base
<1>2. PICK at \in {"write", "apply"} :
        /\ UNCHANGED <<disk, backup, lock, plan, settled, overwrite, owner, failed, guessed, edits, faults>>
        /\ pc[u] \in {"open", "write"} /\ pc' = [pc EXCEPT ![u] = at]
        /\ journal' = IF at = "write" THEN "torn" ELSE "whole"
        /\ rest' = IF at = "write" THEN rest ELSE DOMAIN backup
  BY DEF OpenJournal, WriteJournal, Journal, Go, Entries, holder, seen, past
<1>3. lock = u /\ pc'[u] = at /\ pc[u] \in Holding /\ at \in Holding
  BY <1>1, <1>2, HolderIsAlone DEF TypeOK, Holding
<1>4. Prepares(u, at)
  BY <1>1, <1>2, <1>3 DEF Prepares, TypeOK
<1>5. Named
  BY <1>2 DEF Named
<1>6. BackupFits' /\ NeverEdited(backup'["editable"])
  BY <1>1, <1>2, <1>5 DEF BackupFits, LedgersFit
<1>7. BacksUp(u)'
  <2>1. /\ BacksUp(u)
        /\ \A p \in DOMAIN backup : AsBackedUp(p)
    BY <1>1, <1>2 DEF WorkFits, BacksUp
  <2>2. \A p \in DOMAIN backup : AsBackedUp(p)'
    BY <1>2, <2>1 DEF AsBackedUp, IsOrEdited
  <2> QED BY <1>2, <1>3, <2>1, <2>2 DEF BacksUp
<1>8. Installs(u)' /\ Restores(u)' /\ \A f \in File : Opened(u, f)'
  BY <1>2, <1>3 DEF Installs, Restores, Opened
<1>9. Underway = backup
  BY <1>1, <1>2, UnderwayIs
<1>10. Underway' = backup
  BY <1>2, <1>3, BoundsAssumption DEF Underway
<1>11. \A p \in File \cup Ledgers : Recoverable'[p] = Recoverable[p]
  BY <1>2, <1>9, <1>10 DEF Recoverable
<1> QED BY <1>2, <1>4, <1>6, <1>7, <1>8, <1>9, <1>10, <1>11, PreparesKeeps

(* The end of an update: every file of its plan, and none besides, is as planned. *)
LEMMA FinishStep ==
  ASSUME Base, NEW u \in Updaters, Finish(u)
  PROVE  /\ Base' /\ (guessed' = (guessed \/ ~settled[u])) /\ owner' = owner
         /\ \A v \in Updaters \ {u} : plan'[v] = plan[v]
         /\ Conflicts(plan[u]) = {} \/ overwrite
         /\ \A p \in File \cup Ledgers :
               /\ Recoverable'[p] = disk[p]
               /\ IF p \in IsApplied(plan[u], overwrite) \cup Ledgers
                  THEN IsOrEdited(p, Planned(plan[u], p))
                  ELSE Recoverable[p] = disk[p]
<1>1. TypeOK /\ JournalFits /\ WorkFits
  BY DEF Base
<1>2. /\ pc[u] = "finish" /\ Release(u, "idle") /\ journal' = "none" /\ backup' = Nothing
      /\ guessed' = (guessed \/ ~settled[u]) /\ UNCHANGED <<disk, owner, edits, faults>>
  BY DEF Finish
<1>3. guessed' \in BOOLEAN /\ edits' \in 0 .. MaxEdits /\ faults' \in 0 .. MaxFaults
  BY <1>1, <1>2 DEF TypeOK
<1>4. Leaves(u, "idle")
  BY <1>2, <1>3 DEF Leaves, Holding
<1>5. /\ Base' /\ \A v \in Updaters \ {u} : plan'[v] = plan[v]
      /\ \A p \in File \cup Ledgers : Recoverable'[p] = disk[p]
  BY <1>2, <1>4, LeavesKeeps
<1>6. Underway = backup
  BY <1>1, <1>2, UnderwayIs DEF JournalFits
<1>7. /\ DOMAIN backup = IsApplied(plan[u], overwrite) \cup Ledgers
      /\ Conflicts(plan[u]) = {} \/ overwrite
      /\ \A p \in DOMAIN backup : IsOrEdited(p, Planned(plan[u], p))
  BY <1>1, <1>2 DEF WorkFits, BacksUp, Installs, AsPlanned
<1>8. \A p \in File \cup Ledgers : p \notin DOMAIN backup => Recoverable[p] = disk[p]
  BY <1>6, RecoverableAt
<1> QED BY <1>2, <1>5, <1>7, <1>8

-----------------------------------------------------------------------------
(* The invariant *)

LEMMA InitFits == Init => IInv
<1> SUFFICES ASSUME Init PROVE IInv
  OBVIOUS
<1>1. PICK found \in Found : disk = Fresh(found[1], found[2])
  BY DEF Init
<1>2. PICK g \in BOOLEAN, e \in BOOLEAN : disk = Fresh(g, e)
  BY <1>1, VersionsAssumption
<1>3. /\ journal = "none" /\ backup = Nothing /\ lock = NoOne
      /\ pc = [u \in Updaters |-> "idle"] /\ plan = [u \in Updaters |-> Unseen]
      /\ settled = [u \in Updaters |-> TRUE] /\ overwrite = FALSE /\ rest = {} /\ failed = FALSE
      /\ owner = [f \in File |-> "generator"] /\ guessed = FALSE /\ edits = 0 /\ faults = 0
  BY DEF Init
<1>4. /\ Project(disk) /\ NeverEdited(disk["editable"]) /\ DOMAIN disk = File \cup Ledgers
      /\ \A f \in File : disk[f] = Installed[f] /\ disk[f] # "edit"
      /\ disk["generated"].there => \A f \in Generated : disk["generated"].hash[f] = Installed[f]
  <2>1. \A f \in File : Installed[f] # "edit"
    BY CandidateIsContent
  <2>2. Project(disk) /\ NeverEdited(disk["editable"]) /\ DOMAIN disk = File \cup Ledgers
    BY <1>2, FreshFits, Zenon
  <2>3. \A f \in File : disk[f] = Installed[f]
    BY <1>2, FreshFits, Zenon
  <2>4. disk["generated"].there => \A f \in Generated : disk["generated"].hash[f] = Installed[f]
    BY <1>2, FreshFits, Zenon
  <2> QED BY <2>1, <2>2, <2>3, <2>4
<1>5. \A u \in Updaters : pc[u] = "idle" /\ plan[u] = Unseen
  BY <1>3
<1>6. TypeOK
  <2>1. \A u \in Updaters : (lock = u <=> pc[u] \in Holding) /\ Project(plan[u])
    BY <1>3, <1>5, UnseenFits, BoundsAssumption DEF Holding
  <2>2. DOMAIN backup = {}
    BY <1>3 DEF Nothing
  <2>3. edits \in 0 .. MaxEdits /\ faults \in 0 .. MaxFaults
    BY <1>3, BoundsAssumption
  <2>4. /\ pc \in [Updaters -> {"idle", "contend", "checked", "planned"} \cup Holding]
        /\ settled \in [Updaters -> BOOLEAN]
        /\ owner \in [File -> {"generator", "user", "backup", "busy"}]
    BY <1>3
  <2> QED BY <1>3, <1>4, <2>1, <2>2, <2>3, <2>4 DEF TypeOK
<1>7. Shaped /\ JournalFits /\ OwnerFits
  BY <1>3, <1>4, <1>5 DEF Shaped, JournalFits, OwnerFits
<1>8. ~Named
  BY <1>3, <1>5 DEF Named
<1>9. BackupFits /\ WorkFits
  BY <1>5, <1>8 DEF BackupFits, WorkFits, BacksUp, Installs, Restores
<1>10. LedgersFit /\ SeenFits
  BY <1>4, <1>5, <1>8, UnseenFits DEF LedgersFit, SeenFits, Seen, Opened
<1>11. \A p \in File \cup Ledgers : Recoverable[p] = disk[p]
  BY <1>3, <1>6, <1>7, UnderwayIs, RecoverableAt DEF Nothing
<1>12. Tidy(Recoverable)
  BY <1>4, <1>11 DEF Tidy, File, Ledgers
<1> QED BY <1>6, <1>7, <1>9, <1>10, <1>12 DEF IInv, Base

LEMMA QuietStep ==
  ASSUME Base, NEW u \in Updaters,
         \/ Step(u) /\ ~Finish(u)
         \/ StartCheck(u) \/ Crash(u) \/ ApplyRefused(u) \/ LeavesProject(u) \/ ApplyUpdate(u)
  PROVE  Quiet(u)
<1>1. StartCheck(u) \/ RecoverRefused(u) \/ ApplyRefused(u) \/ LeavesProject(u) => Quiet(u)
  BY ForgetsStep
<1>2. PreviewUpdate(u) => Quiet(u)
  BY PreviewStep
<1>3. RestoreEntry(u) \/ RestoreEntryFails(u) => Quiet(u)
  BY RestoreEntryStep
<1>4. Install(u) \/ RemoveLedger(u) \/ Verify(u) => Quiet(u)
  BY InstallStep
<1>5. InstallFails(u) \/ VerifyFails(u) => Quiet(u)
  BY RollbackStep
<1>6. /\ BackupFails(u) \/ WriteJournalFails(u) \/ FinishWarns(u) => Quiet(u)
      /\ Restored(u) \/ RestoreFailed(u) \/ Crash(u) => Quiet(u)
  BY LeavesStep
<1>7. (Recover(u) => Quiet(u)) /\ (ApplyUpdate(u) => Quiet(u))
  BY RecoverStep, ApplyStep
<1>8. (TakeBackup(u) => Quiet(u)) /\ (OpenJournal(u) \/ WriteJournal(u) => Quiet(u))
  BY TakeBackupStep, JournalStep
<1> QED BY <1>1, <1>2, <1>3, <1>4, <1>5, <1>6, <1>7, <1>8 DEF Step

(* Nothing but the end of an update gives a file to the generator's ledger. *)
LEMMA TidyKept ==
  ASSUME Tidy(Recoverable), KeepsProject,
         \A f \in File : owner'[f] = "generator" => owner[f] = "generator"
  PROVE  Tidy(Recoverable)'
<1>1. Generated \subseteq File /\ "generated" \in Ledgers /\ "generated" \notin File
  BY FilesAreNoLedgers DEF File, Ledgers
<1>2. Recoverable'["generated"] = Recoverable["generated"]
  BY <1>1 DEF KeepsProject
<1>3. \A f \in Generated : owner'[f] = "generator" => Recoverable'[f] = Recoverable[f]
  BY <1>1 DEF KeepsProject
<1> QED BY <1>1, <1>2, <1>3 DEF Tidy

(* An update from a settled check leaves the ledger with every file as it is. *)
LEMMA FinishIsTidy ==
  ASSUME Base, NEW u \in Updaters, Finish(u)
  PROVE  guessed' \/ Tidy(Recoverable)'
<1> SUFFICES ASSUME ~guessed' PROVE Tidy(Recoverable)'
  OBVIOUS
<1> DEFINE Applied == IsApplied(plan[u], overwrite)
<1>1. TypeOK /\ OwnerFits /\ LedgersFit /\ SeenFits
  BY DEF Base
<1>2. /\ owner' = owner /\ settled[u] /\ (Conflicts(plan[u]) = {} \/ overwrite)
      /\ \A p \in File \cup Ledgers :
            /\ Recoverable'[p] = disk[p]
            /\ p \in Applied \cup Ledgers => IsOrEdited(p, Planned(plan[u], p))
  BY <1>1, FinishStep DEF TypeOK
<1>3. /\ \A f \in File : Planned(plan[u], f) = Candidate[f]
      /\ Planned(plan[u], "generated") = Lists(Only(Owned \cup Generated, Candidate))
  BY <1>1, PlannedFits DEF TypeOK, LedgersFit
<1>4. Generated \subseteq File /\ "generated" \in Ledgers /\ "generated" \notin File
  BY FilesAreNoLedgers DEF File, Ledgers
<1>5. Recoverable'["generated"] = Lists(Only(Owned \cup Generated, Candidate))
  BY <1>2, <1>3, <1>4 DEF IsOrEdited
<1>6. ASSUME NEW f \in Generated, owner[f] = "generator", Candidate[f] # "absent"
      PROVE  Recoverable'[f] = Candidate[f]
  <2>1. CASE f \in Applied
    BY <1>1, <1>2, <1>3, <1>4, <1>6, <2>1 DEF IsOrEdited, OwnerFits
  <2>2. CASE f \notin Applied
    <3>1. plan[u][f] = Candidate[f]
      BY <1>1, <1>2, <1>6, <2>2, NotAppliedIsUpToDate DEF TypeOK
    <3>2. disk[f] = Candidate[f]
      BY <1>1, <1>2, <1>4, <1>6, <3>1 DEF SeenFits, Seen, UpToDate
    <3> QED BY <1>2, <1>4, <3>2
  <2> QED BY <2>1, <2>2
<1> QED BY <1>2, <1>5, <1>6 DEF Tidy

LEMMA NextFits == IInv /\ [Next]_vars => IInv'
<1> SUFFICES ASSUME IInv, [Next]_vars PROVE IInv'
  OBVIOUS
<1>1. Base
  BY DEF IInv
<1>2. ASSUME NEW u \in Updaters, Quiet(u) PROVE IInv'
  BY <1>2, TidyKept DEF IInv, Quiet
<1>3. ASSUME NEW u \in Updaters, Step(u) \/ StartCheck(u) \/ Crash(u) PROVE IInv'
  <2>1. CASE Finish(u)
    BY <1>1, <2>1, FinishStep, FinishIsTidy DEF IInv
  <2>2. CASE ~Finish(u)
    BY <1>1, <1>2, <1>3, <2>2, QuietStep
  <2> QED BY <2>1, <2>2
<1>4. ASSUME NEW u \in Updaters, ApplyRefused(u) \/ LeavesProject(u) \/ ApplyUpdate(u) PROVE IInv'
  BY <1>1, <1>2, <1>4, QuietStep
<1>5. ASSUME NEW f \in File, UserEdits(f) PROVE IInv'
  BY <1>1, <1>5, UserEditsStep, TidyKept DEF IInv
<1>6. CASE UNCHANGED vars
  <2>1. /\ UNCHANGED <<disk, journal, backup, lock, pc, plan, settled, overwrite, rest, failed>>
        /\ UNCHANGED <<owner, guessed, edits, faults>>
    BY <1>6 DEF vars, project, seen, holder, past
  <2>2. Underway' = Underway
    BY <2>1 DEF Underway
  <2>3. Recoverable' = Recoverable
    BY <2>1, <2>2 DEF Recoverable
  <2>4. Named' = Named
    BY <2>1 DEF Named
  <2>5. TypeOK' /\ Shaped' /\ JournalFits' /\ OwnerFits'
    BY <1>1, <2>1 DEF Base, TypeOK, Project, Shaped, JournalFits, OwnerFits
  <2>6. BackupFits' /\ LedgersFit'
    BY <1>1, <2>1, <2>4 DEF Base, BackupFits, LedgersFit, NeverEdited
  <2>7. WorkFits'
    BY <1>1, <2>1 DEF Base, WorkFits, BacksUp, Installs, Restores, AsBackedUp, AsPlanned, IsOrEdited
  <2>8. SeenFits'
    BY <1>1, <2>1, <2>2 DEF Base, SeenFits, Seen, Opened, UpToDate
  <2>9. Tidy(Recoverable)' <=> Tidy(Recoverable)
    BY <2>1, <2>3 DEF Tidy
  <2> QED BY <2>1, <2>5, <2>6, <2>7, <2>8, <2>9 DEF IInv, Base
<1> QED BY <1>3, <1>4, <1>5, <1>6 DEF Next

(* Every state fits: what the journal names is what the holder has written, and what  *)
(* the ledgers say is true of every file that nobody edited.                          *)
THEOREM UpdateInvariant == Spec => []IInv
<1>1. Init => IInv
  BY InitFits
<1>2. IInv /\ [Next]_vars => IInv'
  BY NextFits
<1> QED BY <1>1, <1>2, PTL DEF Spec

(* Every file is absent, old, new or edited, and a process is in the middle of an     *)
(* update if and only if it has the lock.                                             *)
THEOREM UpdateTypes == Spec => []TypeOK
<1>1. IInv => TypeOK
  BY DEF IInv, Base
<1> QED BY <1>1, UpdateInvariant, PTL

(* However updates, failures, crashes and edits follow each other, no edit made while *)
(* nothing was under way is lost, and no template that the user changed is replaced.  *)
THEOREM NoEditIsLost == Spec => []EditsAreKept
<1>1. IInv => EditsAreKept
  BY DEF IInv, Base, OwnerFits, EditsAreKept, File
<1> QED BY <1>1, UpdateInvariant, PTL

(* A file that was never edited is never taken for a conflict, as long as no update   *)
(* was applied from a check that ran beside another update.                           *)
THEOREM UneditedIsNoConflict == Spec => []OnlyEditsConflict
<1>1. ASSUME IInv PROVE OnlyEditsConflict
  <2>1. SUFFICES ASSUME lock = NoOne, journal # "whole", ~guessed, disk["generated"].there,
                        NEW f \in Conflicts(disk), owner[f] = "generator"
                 PROVE  FALSE
    BY DEF OnlyEditsConflict
  <2>2. TypeOK /\ JournalFits /\ Tidy(Recoverable)
    BY <1>1, <2>1 DEF IInv, Base
  <2>3. \A p \in File \cup Ledgers : Recoverable[p] = disk[p]
    BY <2>1, <2>2, UnderwayIs, RecoverableAt DEF Nothing
  <2>4. f \in File /\ ChangeKind(disk, f) = "conflict"
    BY DEF Conflicts, OfKind
  <2>5. f \notin Templates
    BY <2>4 DEF ChangeKind, TemplateKind
  <2>6. GeneratedKind(disk, f) = "conflict"
    BY <2>4, <2>5 DEF ChangeKind
  <2>7. /\ f \notin Owned /\ Candidate[f] # "absent"
        /\ disk[f] \notin {"absent", Candidate[f], disk["generated"].hash[f]}
    BY <2>6 DEF GeneratedKind
  <2>8. f \in Generated /\ "generated" \in Ledgers
    BY <2>4, <2>5, <2>7 DEF File, Ledgers
  <2> QED BY <2>1, <2>2, <2>3, <2>4, <2>7, <2>8 DEF Tidy
<1> QED BY <1>1, UpdateInvariant, PTL

-----------------------------------------------------------------------------
(* The refinement *)

(* AtomicUpdate plans with the same operators. *)
LEMMA AtomicPlan ==
  /\ Atomic!File = File /\ Atomic!Ledgers = Ledgers
  /\ \A p, o : Atomic!IsApplied(p, o) = IsApplied(p, o)
  /\ \A p, q : Atomic!Planned(p, q) = Planned(p, q)
<1>1. Atomic!File = File /\ Atomic!Ledgers = Ledgers
  BY DEF Atomic!File, File, Atomic!Ledgers, Ledgers
<1>2. \A p, f : Atomic!Moved(p, f) = Moved(p, f)
  BY DEF Atomic!Moved, Moved
<1>3. \A p, f : Atomic!TemplateKind(p, f) = TemplateKind(p, f)
  BY <1>2 DEF Atomic!TemplateKind, TemplateKind
<1>4. \A p, f : Atomic!GeneratedKind(p, f) = GeneratedKind(p, f)
  BY DEF Atomic!GeneratedKind, GeneratedKind
<1>5. \A p, f : Atomic!ChangeKind(p, f) = ChangeKind(p, f)
  BY <1>3, <1>4 DEF Atomic!ChangeKind, ChangeKind
<1>6. \A p, kinds : Atomic!OfKind(p, kinds) = OfKind(p, kinds)
  BY <1>1, <1>5 DEF Atomic!OfKind, OfKind
<1>7. \A p, o : Atomic!IsApplied(p, o) = IsApplied(p, o)
  BY <1>6 DEF Atomic!IsApplied, IsApplied
<1>8. \A S, hash : Atomic!Only(S, hash) = Only(S, hash)
  BY <1>1 DEF Atomic!Only, Only
<1>9. \A p : Atomic!ReviewedTemplates(p) = ReviewedTemplates(p)
  BY <1>2, <1>8 DEF Atomic!ReviewedTemplates, ReviewedTemplates
<1>10. \A p : Atomic!EditableBaselines(p) = EditableBaselines(p)
  BY <1>1 DEF Atomic!EditableBaselines, EditableBaselines
<1>11. \A hash : Atomic!Lists(hash) = Lists(hash)
  BY DEF Atomic!Lists, Lists
<1>12. \A p, q : Atomic!Planned(p, q) = Planned(p, q)
  BY <1>1, <1>8, <1>9, <1>10, <1>11 DEF Atomic!Planned, Planned
<1> QED BY <1>1, <1>7, <1>12

LEMMA AtomicFresh ==
  ASSUME NEW g, NEW e
  PROVE  Atomic!Fresh(g, e) = Fresh(g, e)
<1>1. Atomic!NoLedger = NoLedger
  BY AtomicPlan DEF Atomic!NoLedger, NoLedger, Atomic!Unlisted, Unlisted
<1>2. \A S, hash : Atomic!Only(S, hash) = Only(S, hash)
  BY AtomicPlan DEF Atomic!Only, Only
<1>3. \A hash : Atomic!Lists(hash) = Lists(hash)
  BY DEF Atomic!Lists, Lists
<1> QED BY <1>1, <1>2, <1>3, AtomicPlan DEF Atomic!Fresh, Fresh

LEMMA FreshIsFunction ==
  ASSUME NEW g, NEW e
  PROVE  Fresh(g, e) = [p \in File \cup Ledgers |-> Fresh(g, e)[p]]
<1> DEFINE V(p) == CASE p \in File -> Installed[p]
                     [] p = "generated" -> IF g THEN Lists(Only(Owned \cup Generated, Installed)) ELSE NoLedger
                     [] p = "editable" -> IF e THEN Lists(Only(Templates, Installed)) ELSE NoLedger
                     [] p = "reviewed" -> NoLedger
<1>1. Fresh(g, e) = [p \in File \cup Ledgers |-> V(p)]
  BY DEF Fresh
<1> HIDE DEF V
<1> QED BY <1>1

LEMMA AtomicInit == Init => Atomic!Init
<1> SUFFICES ASSUME Init PROVE Atomic!Init
  OBVIOUS
<1>1. PICK found \in Found : disk = Fresh(found[1], found[2])
  BY DEF Init
<1>2. IInv /\ lock = NoOne /\ journal = "none"
  BY InitFits DEF Init
<1>3. Underway = Nothing
  BY <1>2, UnderwayIs DEF IInv, Base
<1>4. Recoverable = [p \in File \cup Ledgers |-> disk[p]]
  BY <1>3 DEF Recoverable, Nothing
<1>5. disk = [p \in File \cup Ledgers |-> disk[p]]
  BY <1>1, FreshIsFunction
<1>6. Recoverable = Atomic!Fresh(found[1], found[2])
  BY <1>1, <1>4, <1>5, AtomicFresh
<1>7. plan \in [Updaters -> {Atomic!Fresh(FALSE, FALSE)}]
  BY AtomicFresh DEF Init, Unseen
<1> QED BY <1>6, <1>7 DEF Atomic!Init

(* Between the ends of updates the project changes by the user's edits alone. *)
LEMMA KeepsIsEdited ==
  ASSUME KeepsProject
  PROVE  Atomic!Edited(Recoverable, Recoverable')
  BY AtomicPlan, FilesAreNoLedgers DEF KeepsProject, Atomic!Edited

LEMMA AtomicStep == IInv /\ [Next]_vars => [Atomic!Next]_(Atomic!vars)
<1> SUFFICES ASSUME IInv, [Next]_vars PROVE [Atomic!Next]_(Atomic!vars)
  OBVIOUS
<1>1. Base
  BY DEF IInv
<1>2. ASSUME NEW u \in Updaters, Quiet(u) PROVE Atomic!Next
  <2>1. Atomic!Check(u)
    BY <1>2, KeepsIsEdited DEF Quiet, Atomic!Check
  <2> QED BY <2>1 DEF Atomic!Next
<1>3. ASSUME NEW u \in Updaters, Finish(u) PROVE Atomic!Next
  <2> DEFINE Applied == IsApplied(plan[u], overwrite) \cup Ledgers
  <2>1. /\ \A v \in Updaters \ {u} : plan'[v] = plan[v]
        /\ \A p \in File \cup Ledgers :
              /\ Recoverable'[p] = disk[p]
              /\ p \in Applied => IsOrEdited(p, Planned(plan[u], p))
              /\ p \notin Applied => Recoverable[p] = disk[p]
    BY <1>1, <1>3, FinishStep
  <2>2. overwrite \in BOOLEAN
    BY <1>1 DEF Base, TypeOK
  <2>3. \A p \in File \cup Ledgers :
           Atomic!Applied(plan[u], overwrite)[p] = IF p \in Applied THEN Planned(plan[u], p) ELSE Recoverable[p]
    BY AtomicPlan DEF Atomic!Applied
  <2>4. \A p \in File \cup Ledgers :
           \/ Recoverable'[p] = Atomic!Applied(plan[u], overwrite)[p]
           \/ p \in File /\ Recoverable'[p] = "edit"
    BY <2>1, <2>3 DEF IsOrEdited
  <2>5. Atomic!Edited(Atomic!Applied(plan[u], overwrite), Recoverable')
    BY <2>4, AtomicPlan, FilesAreNoLedgers DEF Atomic!Edited
  <2>6. Atomic!Update(u)
    BY <2>1, <2>2, <2>5 DEF Atomic!Update
  <2> QED BY <2>6 DEF Atomic!Next
<1>4. ASSUME NEW u \in Updaters, Step(u) \/ StartCheck(u) \/ Crash(u), ~Finish(u) PROVE Atomic!Next
  BY <1>1, <1>2, <1>4, QuietStep
<1>5. ASSUME NEW u \in Updaters, ApplyRefused(u) \/ LeavesProject(u) \/ ApplyUpdate(u) PROVE Atomic!Next
  BY <1>1, <1>2, <1>5, QuietStep
<1>6. ASSUME NEW f \in File, UserEdits(f) PROVE Atomic!Next
  <2>1. KeepsProject /\ plan' = plan
    BY <1>1, <1>6, UserEditsStep
  <2>2. Atomic!UserEdits
    BY <2>1, KeepsIsEdited DEF Atomic!UserEdits
  <2> QED BY <2>2 DEF Atomic!Next
<1>7. CASE UNCHANGED vars
  <2>1. UNCHANGED <<disk, journal, backup, lock, pc, plan, overwrite>>
    BY <1>7 DEF vars, project, seen, holder
  <2>2. Underway' = Underway
    BY <2>1 DEF Underway
  <2>3. Recoverable' = Recoverable
    BY <2>1, <2>2 DEF Recoverable
  <2> QED BY <2>1, <2>3 DEF Atomic!vars
<1> QED BY <1>3, <1>4, <1>5, <1>6, <1>7 DEF Next

(* All or nothing: whatever fails and wherever a process dies, the project that the   *)
(* next check finds or restores changes by whole updates and by the user's edits.     *)
THEOREM UpdatesAreAtomic == Spec => RefinesAtomicUpdate
<1>1. Init => Atomic!Init
  BY AtomicInit
<1>2. IInv /\ [Next]_vars => [Atomic!Next]_(Atomic!vars)
  BY AtomicStep
<1> QED BY <1>1, <1>2, UpdateInvariant, PTL DEF Spec, RefinesAtomicUpdate, Atomic!Spec
=============================================================================
