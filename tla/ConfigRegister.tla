-------------------------- MODULE ConfigRegister ---------------------------
(***************************************************************************)
(* What configuration distribution promises, without saying how: the       *)
(* control plane issues sets numbered 1, 2, 3, ... within one lifetime of  *)
(* its process, and each data plane holds one issued set and replaces it   *)
(* only by an issued set with a higher number, so nothing "can move a data *)
(* plane backwards" (README, versioned updates).                           *)
(***************************************************************************)
EXTENDS Integers

CONSTANTS
  DataPlane,
  Content,      \* what a set may say
  NoContent

VARIABLES
  epoch,        \* lifetimes of the control-plane process so far
  latest,       \* number of the set issued last in this lifetime, 0: none
  issued,       \* every set ever issued
  held          \* data plane -> the set it holds

regVars == <<epoch, latest, issued, held>>

Nothing == [epoch |-> 0, version |-> 0, content |-> NoContent]

RegInit ==
  /\ epoch = 1
  /\ latest = 0
  /\ issued = {}
  /\ held = [d \in DataPlane |-> Nothing]

Issue(c) ==
  /\ latest' = latest + 1
  /\ issued' = issued \cup {[epoch |-> epoch, version |-> latest + 1, content |-> c]}
  /\ UNCHANGED <<epoch, held>>

Restart ==
  /\ epoch' = epoch + 1
  /\ latest' = 0
  /\ UNCHANGED <<issued, held>>

Adopt(d, m) ==
  /\ m.version > held[d].version
  /\ held' = [held EXCEPT ![d] = m]
  /\ UNCHANGED <<epoch, latest, issued>>

(* A data-plane process restarts with an empty list. *)
Forget(d) ==
  /\ held' = [held EXCEPT ![d] = Nothing]
  /\ UNCHANGED <<epoch, latest, issued>>

RegNext ==
  \/ \E c \in Content : Issue(c)
  \/ Restart
  \/ \E d \in DataPlane : Forget(d) \/ \E m \in issued : Adopt(d, m)

RegSpec == RegInit /\ [][RegNext]_regVars

=============================================================================
