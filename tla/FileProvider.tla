---------------------------- MODULE FileProvider ----------------------------
(***************************************************************************)
(* The file-backed backend provider (internal/pool/file.go) under its two  *)
(* kinds of caller: the reconcile loop of the control plane and an         *)
(* administrator's forceRepublish of one group, while the file is being    *)
(* edited.                                                                 *)
(*                                                                         *)
(* Grain of atomicity.  Every system call (stat, stat again, read) and     *)
(* every critical section of p.mu is a step of its own, so that edits and  *)
(* the other caller fall anywhere between them.                            *)
(*                                                                         *)
(* Abstractions.  A file is absent, malformed, or a map from groups to     *)
(* lists of entries.  It is saved either by a rename or in place, which    *)
(* truncates it first: an empty file parses, as no groups at all.  A write *)
(* is seen whole or not at all, and every write gets a modification time   *)
(* of its own.  Publishing is reduced to the list that is published: the   *)
(* overrides and versions are in ControlPlane.                             *)
(***************************************************************************)
EXTENDS Integers, Sequences

CONSTANTS
  Group,         \* groups the file may list
  Blank,         \* the empty address
  Content,       \* contents the file may be saved with
  Republisher,   \* administrator requests that republish a group
  NoList,        \* nothing published yet
  MaxFileWrites, \* bound: writes of the file
  MaxRequests    \* bound: administrator requests

ASSUME FileProviderAssumption ==
  /\ MaxFileWrites \in Nat /\ MaxRequests \in Nat
  /\ "reconcile" \notin Republisher
  /\ NoList \notin Group
  /\ \A c \in Content : DOMAIN c.groups \subseteq Group

FileCaller == {"reconcile"} \cup Republisher

VARIABLES
  file,        \* the file: its state, groups and modification time
  halfSaved,   \* is the file truncated, its new content still to come?
  cache,       \* p.groups and p.modTime
  call,        \* caller -> where it is in a call of the provider
  listed,      \* group -> the backends last published for it
  requests,    \* bound: administrator requests so far
  wholes       \* history: every list a whole file gave a group

fpVars == <<file, halfSaved, cache, call, listed, requests, wholes>>

NoGroups == [g \in {} |-> <<>>]

(* yaml.Unmarshal and the loop over the entries: an entry without an       *)
(* address rejects the whole file.                                         *)
Parses(f) ==
  /\ f.state = "ok"
  /\ \A g \in DOMAIN f.groups : \A i \in DOMAIN f.groups[g] :
       f.groups[g][i].address # Blank

ListsOf(f, g) == {f.groups[h] : h \in {h \in DOMAIN f.groups : h = g /\ Parses(f)}}

(* A caller at a step: todo are the groups reconcile has yet to snapshot,  *)
(* group the one being snapshot, NoList while the call is Groups.          *)
Caller(step, group, todo) ==
  [step |-> step, group |-> group, todo |-> todo, mt |-> 0, groups |-> NoGroups,
   backends |-> <<>>]

Resting == Caller("idle", NoList, {})

(* The next Snapshot of the reconcile loop, or its end. *)
NextGroup(c, todo) ==
  IF todo = {} THEN call' = [call EXCEPT ![c] = Resting]
  ELSE \E g \in todo : call' = [call EXCEPT ![c] = Caller("stat", g, todo \ {g})]

(* A call returns an error: Groups ends the reconcile, Snapshot leaves     *)
(* this group for the next tick.                                           *)
CallFails(c) ==
  IF call[c].group = NoList THEN call' = [call EXCEPT ![c] = Resting]
  ELSE NextGroup(c, call[c].todo)

(* NewFileProvider has read the file. *)
FPInit ==
  /\ \E c \in Content : /\ file = [state |-> c.state, groups |-> c.groups, mtime |-> 1]
                        /\ Parses(file)
  /\ halfSaved = FALSE
  /\ cache = [groups |-> file.groups, modTime |-> 1]
  /\ call = [c \in FileCaller |-> Resting]
  /\ listed = [g \in Group |-> NoList]
  /\ requests = 0
  /\ wholes = [g \in Group |-> ListsOf(file, g)]

-----------------------------------------------------------------------------
(* The editor of the file, which is not part of the program.               *)

WriteFile(c) ==
  /\ file' = [state |-> c.state, groups |-> c.groups, mtime |-> file.mtime + 1]
  /\ wholes' = [g \in Group |-> wholes[g] \cup ListsOf(c, g)]
  /\ UNCHANGED <<cache, call, listed, requests>>

(* The new content is renamed over the old, or the file is removed. *)
Rename(c) ==
  /\ file.mtime <= MaxFileWrites /\ ~halfSaved
  /\ WriteFile(c)
  /\ UNCHANGED halfSaved

Truncate ==
  /\ file.mtime <= MaxFileWrites /\ ~halfSaved /\ file.state # "absent"
  /\ halfSaved' = TRUE
  /\ file' = [state |-> "ok", groups |-> NoGroups, mtime |-> file.mtime + 1]
  /\ UNCHANGED <<cache, call, listed, requests, wholes>>

WriteOut(c) ==
  /\ file.mtime <= MaxFileWrites /\ halfSaved /\ c.state # "absent"
  /\ halfSaved' = FALSE
  /\ WriteFile(c)

-----------------------------------------------------------------------------
Callers(A) ==
  /\ A
  /\ UNCHANGED <<file, halfSaved, wholes>>

(* reconcile begins, with provider.Groups. *)
ReconcileTick ==
  /\ call["reconcile"].step = "idle"
  /\ call' = [call EXCEPT !["reconcile"] = Caller("stat", NoList, {})]
  /\ UNCHANGED <<cache, listed, requests>>

(* forceRepublish begins, with provider.Snapshot. *)
Republish(c, g) ==
  /\ call[c].step = "idle"
  /\ requests < MaxRequests
  /\ requests' = requests + 1
  /\ call' = [call EXCEPT ![c] = Caller("stat", g, {})]
  /\ UNCHANGED <<cache, listed>>

(* reloadIfChanged: os.Stat. *)
StatFile(c) ==
  /\ call[c].step = "stat"
  /\ IF file.state = "absent" THEN CallFails(c)
     ELSE call' = [call EXCEPT ![c].step = "compare", ![c].mt = file.mtime]
  /\ UNCHANGED <<cache, listed, requests>>

(* reloadIfChanged: the comparison under the read lock. *)
Compare(c) ==
  /\ call[c].step = "compare"
  /\ call' = [call EXCEPT ![c].mt = 0, ![c].step = IF call[c].mt = cache.modTime
                                                  THEN "answer" ELSE "restat"]
  /\ UNCHANGED <<cache, listed, requests>>

(* reload: os.Stat again. *)
Restat(c) ==
  /\ call[c].step = "restat"
  /\ IF file.state = "absent" THEN CallFails(c)
     ELSE call' = [call EXCEPT ![c].step = "read", ![c].mt = file.mtime]
  /\ UNCHANGED <<cache, listed, requests>>

(* reload: os.ReadFile and the parse. *)
ReadFile(c) ==
  /\ call[c].step = "read"
  /\ IF Parses(file)
     THEN call' = [call EXCEPT ![c].step = "swap", ![c].groups = file.groups]
     ELSE CallFails(c)
  /\ UNCHANGED <<cache, listed, requests>>

(* Mutant: the modification time is looked up when the content is in. *)
SwapLateStat(c) ==
  /\ call[c].step = "swap"
  /\ cache' = [groups |-> call[c].groups, modTime |-> file.mtime]
  /\ call' = [call EXCEPT ![c].step = "answer", ![c].mt = 0,
                          ![c].groups = NoGroups]
  /\ UNCHANGED <<listed, requests>>

(* reload: the swap under the lock. *)
Swap(c) ==
  /\ call[c].step = "swap"
  /\ cache' = [groups |-> call[c].groups, modTime |-> call[c].mt]
  /\ call' = [call EXCEPT ![c].step = "answer", ![c].mt = 0,
                          ![c].groups = NoGroups]
  /\ UNCHANGED <<listed, requests>>

(* Groups returns the cached groups, whichever caller loaded them. *)
AnswerGroups(c) ==
  /\ call[c].step = "answer" /\ call[c].group = NoList
  /\ NextGroup(c, DOMAIN cache.groups)
  /\ UNCHANGED <<cache, listed, requests>>

(* Mutant: a group that is not in the file has no backends. *)
AnswerSnapshotEmpty(c) ==
  /\ call[c].step = "answer" /\ call[c].group # NoList
  /\ call' = [call EXCEPT ![c].step = "publish",
                          ![c].backends = IF call[c].group \in DOMAIN cache.groups
                                          THEN cache.groups[call[c].group] ELSE <<>>]
  /\ UNCHANGED <<cache, listed, requests>>

(* Snapshot returns a copy of the group's list; an unknown group is an     *)
(* error.                                                                  *)
AnswerSnapshot(c) ==
  /\ call[c].step = "answer" /\ call[c].group # NoList
  /\ IF call[c].group \in DOMAIN cache.groups
     THEN call' = [call EXCEPT ![c].step = "publish",
                               ![c].backends = cache.groups[call[c].group]]
     ELSE CallFails(c)
  /\ UNCHANGED <<cache, listed, requests>>

(* publishIfChanged and forceRepublish, as far as the list goes. *)
PublishList(c) ==
  /\ call[c].step = "publish"
  /\ listed' = [listed EXCEPT ![call[c].group] = call[c].backends]
  /\ NextGroup(c, call[c].todo)
  /\ UNCHANGED <<cache, requests>>

FPStep(c) ==
  \/ Callers(StatFile(c))
  \/ Callers(Compare(c))
  \/ Callers(Restat(c))
  \/ Callers(ReadFile(c))
  \/ Callers(Swap(c))
  \/ Callers(AnswerGroups(c))
  \/ Callers(AnswerSnapshot(c))
  \/ Callers(PublishList(c))

FPNext ==
  \/ \E c \in Content : Rename(c) \/ WriteOut(c)
  \/ Truncate
  \/ Callers(ReconcileTick)
  \/ \E c \in Republisher, g \in Group : Callers(Republish(c, g))
  \/ \E c \in FileCaller : FPStep(c)

FPSpec == FPInit /\ [][FPNext]_fpVars

-----------------------------------------------------------------------------
(* What is published for a group is a list that some whole save of the     *)
(* file gave it: a save in progress, a malformed file, a missing file and  *)
(* a group that vanishes between Groups and Snapshot never empty or shorten*)
(* it.                                                                     *)
PublishedWhole == \A g \in Group : listed[g] = NoList \/ listed[g] \in wholes[g]

PublishedAsFiled == \A g \in DOMAIN file.groups : listed[g] = file.groups[g]

=============================================================================
