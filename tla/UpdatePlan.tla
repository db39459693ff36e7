------------------------------ MODULE UpdatePlan ------------------------------
(* What an update of a mod project is going to do: BuildPlan of                  *)
(* src/sdk/project_updater.cpp classifies every file of the project by comparing *)
(* it with the candidate (the project as the new SDK generates it) and with the  *)
(* hashes that the ledgers under .urk/ recorded when it was generated.           *)
(*                                                                             *)
(* A file's content is one of four values, which is all the hashes tell apart;   *)
(* a project is a function from its files and its ledgers.  The manifest is       *)
(* written beside the generated-file ledger, by the same loop, and comes with it. *)
EXTENDS Naturals

CONSTANTS Owned,      \* files of the generator's own tree, sdk/<backend>/
          Generated,  \* other generated files
          Templates,  \* the user's files under mod/ and locales/, which have a template
          Installed,  \* the files as the project's SDK generated them
          Candidate,  \* the files as the new SDK generates them
          Found       \* which of the generated and the editable ledger projects have

File == Owned \cup Generated \cup Templates
Content == {"absent", "old", "new", "edit"}

ASSUME KindsAssumption ==
    /\ Owned \cap Generated = {} /\ Owned \cap Templates = {} /\ Generated \cap Templates = {}
    /\ File \cap {"generated", "editable", "reviewed", "manifest"} = {}
ASSUME VersionsAssumption ==
    /\ Installed \in [File -> {"absent", "old"}]
    /\ Candidate \in [File -> {"absent", "new"}]
    /\ \A f \in Templates : Candidate[f] = "new"
    /\ Found \subseteq BOOLEAN \X BOOLEAN

Ledgers == {"generated", "editable", "reviewed"}

(* A ledger maps a file to a hash; a file it does not list has the hash "absent". *)
Ledger == [there : BOOLEAN, hash : [File -> Content]]
Lists(hash) == [there |-> TRUE, hash |-> hash]
Unlisted == [f \in File |-> "absent"]
NoLedger == [there |-> FALSE, hash |-> Unlisted]
Only(S, hash) == [f \in File |-> IF f \in S THEN hash[f] ELSE "absent"]

(* The kind of change of a generated file, "same" when it is in no plan. *)
GeneratedKind(project, f) ==
    LET known == project["generated"].hash[f]
        unedited == f \in Owned \/ project[f] = known
    IN  IF project[f] = Candidate[f] THEN "same"
        ELSE IF project[f] = "absent" THEN "added"
        ELSE CASE Candidate[f] # "absent" /\ unedited -> "modified"
               [] Candidate[f] # "absent" /\ ~unedited -> "conflict"
               [] Candidate[f] = "absent" /\ unedited -> "removed"
               [] Candidate[f] = "absent" /\ ~unedited -> IF known = "absent" THEN "same" ELSE "review"

(* A template that the user changed is kept, and reported if it moved since. *)
Moved(project, f) ==
    /\ project[f] \notin {"absent", Candidate[f], project["editable"].hash[f]}
    /\ project["editable"].hash[f] # Candidate[f]

TemplateKind(project, f) ==
    CASE project[f] = "absent" -> "added"
      [] project[f] \notin {"absent", Candidate[f]} /\ project[f] = project["editable"].hash[f] -> "modified"
      [] Moved(project, f) /\ project["reviewed"].hash[f] # Candidate[f] -> "review"
      [] OTHER -> "same"

ChangeKind(project, f) == IF f \in Templates THEN TemplateKind(project, f) ELSE GeneratedKind(project, f)
OfKind(project, kinds) == {f \in File : ChangeKind(project, f) \in kinds}
Changes(project) == OfKind(project, {"added", "modified", "removed", "conflict", "review"})
Conflicts(project) == OfKind(project, {"conflict"})

IsApplied(project, overwrite) ==
    OfKind(project, {"added", "modified", "removed"} \cup IF overwrite THEN {"conflict"} ELSE {})

(* The ledgers as they are once the plan is carried out. *)
EditableBaselines(project) ==
    [f \in File |->
        IF f \in Templates /\ project[f] \in {"absent", Candidate[f], project["editable"].hash[f]}
        THEN Candidate[f] ELSE project["editable"].hash[f]]
ReviewedTemplates(project) == Only({f \in Templates : Moved(project, f)}, Candidate)

(* What the plan made of `project` writes to the file or ledger p. *)
Planned(project, p) ==
    CASE p \in File -> Candidate[p]
      [] p = "manifest" -> "new"
      [] p = "generated" -> Lists(Only(Owned \cup Generated, Candidate))
      [] p = "editable" -> Lists(EditableBaselines(project))
      [] p = "reviewed" -> Lists(ReviewedTemplates(project))

MetadataChanges(project) ==
    \/ project["generated"] # Planned(project, "generated")
    \/ ~project["editable"].there
    \/ OfKind(project, {"review"}) # {}

-----------------------------------------------------------------------------
Project(p) == \* the states of one project
    /\ \A f \in File : p[f] \in Content
    /\ \A l \in Ledgers : p[l] \in Ledger

(* Projects as they are found: just generated, or by a release without ledgers. *)
Fresh(hasGenerated, hasEditable) ==
    [p \in File \cup Ledgers |->
        CASE p \in File -> Installed[p]
          [] p = "generated" -> IF hasGenerated THEN Lists(Only(Owned \cup Generated, Installed)) ELSE NoLedger
          [] p = "editable" -> IF hasEditable THEN Lists(Only(Templates, Installed)) ELSE NoLedger
          [] p = "reviewed" -> NoLedger]
=============================================================================
