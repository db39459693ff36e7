----------------------------- MODULE AtomicUpdate -----------------------------
(* What the project updater promises: besides the user's edits, the project only *)
(* ever changes by a whole update, which is exactly the plan of one check.  There *)
(* are no half-written projects, crashes and journals here.                      *)
EXTENDS UpdatePlan

CONSTANT Updaters
VARIABLES project,  \* the project as it is, or as the next check will restore it
          plan      \* per updater, the project its last check saw

vars == <<project, plan>>

Init ==
    /\ \E found \in Found : project = Fresh(found[1], found[2])
    /\ plan \in [Updaters -> {Fresh(FALSE, FALSE)}]

(* The user edits any number of files, also while another step is under way. *)
Edited(before, after) ==
    /\ \A f \in File : after[f] \in {before[f], "edit"}
    /\ \A m \in Ledgers : after[m] = before[m]

UserEdits == Edited(project, project') /\ UNCHANGED plan

(* What a check sees is left open, another update may be half done; an update that   *)
(* fails has only forgotten what its check saw.                                      *)
Check(u) ==
    /\ Edited(project, project')
    /\ \A v \in Updaters \ {u} : plan'[v] = plan[v]

Applied(snapshot, overwrite) ==
    [p \in File \cup Ledgers |->
        IF p \in IsApplied(snapshot, overwrite) \cup Ledgers THEN Planned(snapshot, p) ELSE project[p]]

Update(u) ==
    /\ \E overwrite \in BOOLEAN : Edited(Applied(plan[u], overwrite), project')
    /\ \A v \in Updaters \ {u} : plan'[v] = plan[v]

Next == UserEdits \/ \E u \in Updaters : Check(u) \/ Update(u)

Spec == Init /\ [][Next]_vars
=============================================================================
