---------------------------- MODULE InputsProofs ----------------------------
(***************************************************************************)
(* What the parts that follow the world outside promise, for any contents, *)
(* callers, pairs of files, addresses, instances and changes: the file     *)
(* provider, the certificate reloader and the providers that ask.          *)
(***************************************************************************)
EXTENDS FileProvider, CertReloader, Providers,
        FiniteSetTheorems, SequenceTheorems, WellFoundedInduction, TLAPS

USE ZenonT(10), SMTT(30)

(* A non-empty set of naturals has a least element. *)
LEMMA LeastNatural ==
  ASSUME NEW S \in SUBSET Nat, S # {}
  PROVE  \E x \in S : \A y \in S : x <= y
<1> DEFINE R == OpToRel(<, Nat)
<1>1. IsWellFoundedOn(R, Nat)
  BY NatLessThanWellFounded
<1>2. PICK x \in S : \A y \in S : ~(<<y, x>> \in R)
  <2> HIDE DEF R
  <2> QED BY <1>1, WFMin
<1>3. \A y \in S : x <= y
  <2>1. \A m, n \in Nat : m < n => <<m, n>> \in R
    BY DEF OpToRel
  <2>2. TAKE y \in S
  <2>3. x \in Nat /\ y \in Nat
    OBVIOUS
  <2>4. ~(y < x)
    <3> HIDE DEF R
    <3> QED BY <1>2, <2>1, <2>3, Zenon
  <2> QED BY <2>3, <2>4
<1> QED BY <1>3

-----------------------------------------------------------------------------
(* The file provider *)

FileGroups == {c.groups : c \in Content} \cup {NoGroups}
FileLists == {<<>>} \cup {f[g] : f \in FileGroups, g \in Group}

CallType ==
  [step : {"idle", "stat", "compare", "restat", "read", "swap", "answer", "publish"},
   group : Group \cup {NoList}, todo : SUBSET Group, mt : Nat,
   groups : FileGroups, backends : FileLists]

FPTypeInv ==
  /\ file \in [state : {"absent"} \cup {c.state : c \in Content} \cup {"ok"},
               groups : FileGroups, mtime : Nat]
  /\ cache \in [groups : FileGroups, modTime : Nat]
  /\ call \in [FileCaller -> CallType]
  /\ DOMAIN listed = Group /\ listed = [g \in Group |-> listed[g]]
  /\ DOMAIN wholes = Group

(* Every list of groups is one that whole files gave. *)
WholeGroups(groups) == \A g \in DOMAIN groups : groups[g] \in wholes[g]

(* Everything on the way from the file to what is published is whole. *)
FPInv ==
  /\ FPTypeInv
  /\ Parses(file) => WholeGroups(file.groups)
  /\ WholeGroups(cache.groups)
  /\ \A c \in FileCaller :
       /\ WholeGroups(call[c].groups)
       /\ call[c].step = "publish" =>
            call[c].group \in Group /\ call[c].backends \in wholes[call[c].group]
  /\ PublishedWhole

LEMMA FileGroupsDomain ==
  ASSUME NEW groups \in FileGroups
  PROVE  DOMAIN groups \subseteq Group
BY FileProviderAssumption DEF FileGroups, NoGroups

LEMMA FreshCaller ==
  ASSUME FPInv, NEW c \in FileCaller, NEW step, NEW group \in Group \cup {NoList},
         NEW todo \in SUBSET Group, step \in {"idle", "stat"},
         call' = [call EXCEPT ![c] = Caller(step, group, todo)],
         UNCHANGED <<file, wholes, cache, listed>>
  PROVE  FPInv'
<1>1. Caller(step, group, todo) \in CallType
  BY DEF Caller, CallType, FileGroups, FileLists
<1>2. /\ Caller(step, group, todo).groups = NoGroups
      /\ Caller(step, group, todo).step # "publish"
  BY DEF Caller
<1>3. call' \in [FileCaller -> CallType]
  BY <1>1 DEF FPInv, FPTypeInv
<1>4. ASSUME NEW d \in FileCaller
      PROVE  /\ \A g \in DOMAIN call'[d].groups : call'[d].groups[g] \in wholes[g]
             /\ call'[d].step = "publish" =>
                  call'[d].group \in Group /\ call'[d].backends \in wholes[call'[d].group]
  <2>1. CASE d = c
    <3>1. call'[d] = Caller(step, group, todo)
      BY <2>1 DEF FPInv, FPTypeInv
    <3> QED BY <1>2, <3>1 DEF NoGroups
  <2>2. CASE d # c
    <3>1. call'[d] = call[d]
      BY <2>2 DEF FPInv, FPTypeInv
    <3> QED BY <3>1 DEF FPInv, WholeGroups
  <2> QED BY <2>1, <2>2
<1>5. FPTypeInv'
  BY <1>3 DEF FPInv, FPTypeInv
<1> QED BY <1>4, <1>5 DEF FPInv, WholeGroups, PublishedWhole, Parses

(* A caller goes on to its next group, or rests. *)
LEMMA NextGroupKeeps ==
  ASSUME FPInv, NEW c \in FileCaller, NEW todo \in SUBSET Group, NextGroup(c, todo),
         UNCHANGED <<file, wholes, cache, listed>>
  PROVE  FPInv'
<1>1. CASE todo = {}
  <2>1. call' = [call EXCEPT ![c] = Caller("idle", NoList, {})]
    BY <1>1 DEF NextGroup, Resting
  <2>2. "idle" \in {"idle", "stat"} /\ NoList \in Group \cup {NoList} /\ {} \in SUBSET Group
    OBVIOUS
  <2> QED BY <2>1, <2>2, FreshCaller
<1>2. CASE todo # {}
  <2>1. PICK g \in todo : call' = [call EXCEPT ![c] = Caller("stat", g, todo \ {g})]
    BY <1>2 DEF NextGroup
  <2>2. g \in Group \cup {NoList} /\ todo \ {g} \in SUBSET Group
    OBVIOUS
  <2> QED BY <2>1, <2>2, FreshCaller
<1> QED BY <1>1, <1>2

LEMMA CallFailsKeeps ==
  ASSUME FPInv, NEW c \in FileCaller, CallFails(c),
         UNCHANGED <<file, wholes, cache, listed>>
  PROVE  FPInv'
<1>1. call[c].todo \in SUBSET Group
  BY DEF FPInv, FPTypeInv, CallType
<1>2. CASE call[c].group = NoList
  <2>1. call' = [call EXCEPT ![c] = Caller("idle", NoList, {})]
    BY <1>2 DEF CallFails, Resting
  <2>2. "idle" \in {"idle", "stat"} /\ NoList \in Group \cup {NoList} /\ {} \in SUBSET Group
    OBVIOUS
  <2> QED BY <2>1, <2>2, FreshCaller
<1> QED BY <1>1, <1>2, NextGroupKeeps DEF CallFails

(* A caller moves on within its call. *)
LEMMA CallerKeeps ==
  ASSUME FPInv, NEW c \in FileCaller, NEW r \in CallType,
         call' = [call EXCEPT ![c] = r],
         WholeGroups(r.groups),
         r.step = "publish" => r.group \in Group /\ r.backends \in wholes[r.group],
         cache' \in [groups : FileGroups, modTime : Nat], WholeGroups(cache'.groups),
         UNCHANGED <<file, wholes, listed>>
  PROVE  FPInv'
<1>1. call' \in [FileCaller -> CallType]
  BY DEF FPInv, FPTypeInv
<1>2. ASSUME NEW d \in FileCaller
      PROVE  /\ \A g \in DOMAIN call'[d].groups : call'[d].groups[g] \in wholes[g]
             /\ call'[d].step = "publish" =>
                  call'[d].group \in Group /\ call'[d].backends \in wholes[call'[d].group]
  <2>1. CASE d = c
    <3>1. call'[d] = r
      BY <2>1 DEF FPInv, FPTypeInv
    <3> QED BY <3>1 DEF WholeGroups
  <2>2. CASE d # c
    <3>1. call'[d] = call[d]
      BY <2>2 DEF FPInv, FPTypeInv
    <3> QED BY <3>1 DEF FPInv, WholeGroups
  <2> QED BY <2>1, <2>2
<1>3. FPTypeInv'
  BY <1>1 DEF FPInv, FPTypeInv
<1> QED BY <1>2, <1>3 DEF FPInv, WholeGroups, PublishedWhole, Parses

(* The editor only ever adds to what whole files gave. *)
LEMMA WriteKeeps ==
  ASSUME FPInv, NEW c \in Content, WriteFile(c)
  PROVE  FPInv'
<1>1. \A g \in Group : wholes[g] \subseteq wholes'[g]
  BY DEF WriteFile
<1>2. file'.groups = c.groups /\ file'.state = c.state /\ file'.groups \in FileGroups
  BY DEF WriteFile, FileGroups
<1>3. FPTypeInv'
  BY <1>2 DEF WriteFile, FPInv, FPTypeInv
<1>4. ASSUME Parses(file)', NEW g \in DOMAIN file'.groups
      PROVE  file'.groups[g] \in wholes'[g]
  <2>1. g \in Group
    BY <1>2, <1>4, FileGroupsDomain
  <2>2. Parses(c)
    BY <1>2, <1>4 DEF Parses
  <2>3. c.groups[g] \in ListsOf(c, g)
    BY <1>2, <1>4, <2>2 DEF ListsOf
  <2> QED BY <1>2, <2>1, <2>3 DEF WriteFile
<1>5. ASSUME NEW groups \in FileGroups, WholeGroups(groups), NEW g \in DOMAIN groups
      PROVE  groups[g] \in wholes'[g]
  <2>1. g \in Group
    BY <1>5, FileGroupsDomain
  <2> QED BY <1>1, <1>5, <2>1 DEF WholeGroups
<1>6. \A g \in DOMAIN cache'.groups : cache'.groups[g] \in wholes'[g]
  BY <1>5 DEF FPInv, FPTypeInv, WriteFile
<1>7. ASSUME NEW d \in FileCaller
      PROVE  /\ \A g \in DOMAIN call'[d].groups : call'[d].groups[g] \in wholes'[g]
             /\ call'[d].step = "publish" =>
                  call'[d].group \in Group /\ call'[d].backends \in wholes'[call'[d].group]
  <2>1. call'[d] = call[d] /\ call[d].groups \in FileGroups
    BY DEF WriteFile, FPInv, FPTypeInv, CallType
  <2> QED BY <1>1, <1>5, <2>1 DEF FPInv
<1>8. \A g \in Group : listed'[g] = NoList \/ listed'[g] \in wholes'[g]
  BY <1>1 DEF WriteFile, FPInv, PublishedWhole
<1> QED BY <1>3, <1>4, <1>6, <1>7, <1>8 DEF FPInv, WholeGroups, PublishedWhole

LEMMA FPStepKeeps == FPInv /\ [FPNext]_fpVars => FPInv'
<1> SUFFICES ASSUME FPInv, [FPNext]_fpVars
             PROVE  FPInv'
  OBVIOUS
<1>1. ASSUME NEW c \in Content, Rename(c) \/ WriteOut(c) PROVE FPInv'
  BY <1>1, WriteKeeps DEF Rename, WriteOut
<1>2. CASE Truncate
  <2>1. file' = [state |-> "ok", groups |-> NoGroups, mtime |-> file.mtime + 1]
        /\ UNCHANGED <<cache, call, listed, wholes>>
    BY <1>2 DEF Truncate
  <2>2. FPTypeInv'
    BY <2>1 DEF FPInv, FPTypeInv, FileGroups
  <2>3. \A g \in DOMAIN file'.groups : file'.groups[g] \in wholes'[g]
    BY <2>1 DEF NoGroups
  <2> QED BY <2>1, <2>2, <2>3 DEF FPInv, WholeGroups, PublishedWhole
<1>3. CASE Callers(ReconcileTick)
  <2>1. /\ "reconcile" \in FileCaller /\ "stat" \in {"idle", "stat"}
        /\ NoList \in Group \cup {NoList} /\ {} \in SUBSET Group
    BY DEF FileCaller
  <2>2. /\ call' = [call EXCEPT !["reconcile"] = Caller("stat", NoList, {})]
        /\ UNCHANGED <<file, wholes, cache, listed>>
    BY <1>3 DEF Callers, ReconcileTick
  <2> QED BY <2>1, <2>2, FreshCaller
<1>4. ASSUME NEW c \in Republisher, NEW g \in Group, Callers(Republish(c, g)) PROVE FPInv'
  <2>1. /\ c \in FileCaller /\ "stat" \in {"idle", "stat"}
        /\ g \in Group \cup {NoList} /\ {} \in SUBSET Group
    BY DEF FileCaller
  <2>2. /\ call' = [call EXCEPT ![c] = Caller("stat", g, {})]
        /\ UNCHANGED <<file, wholes, cache, listed>>
    BY <1>4 DEF Callers, Republish
  <2> QED BY <2>1, <2>2, FreshCaller
<1>5. ASSUME NEW c \in FileCaller, FPStep(c) PROVE FPInv'
  <2>1. /\ call[c] \in CallType /\ file.mtime \in Nat /\ cache.modTime \in Nat
        /\ call \in [FileCaller -> CallType]
        /\ WholeGroups(call[c].groups) /\ WholeGroups(cache.groups)
        /\ cache \in [groups : FileGroups, modTime : Nat]
        /\ file.groups \in FileGroups
    BY DEF FPInv, FPTypeInv
  <2>2. WholeGroups(NoGroups) /\ NoGroups \in FileGroups
    BY DEF WholeGroups, NoGroups, FileGroups
  <2>3. CASE Callers(StatFile(c))
    <3>1. UNCHANGED <<file, wholes, cache, listed>>
      BY <2>3 DEF Callers, StatFile
    <3>2. CASE call' = [call EXCEPT ![c].step = "compare", ![c].mt = file.mtime]
      <4> DEFINE r == [call[c] EXCEPT !.step = "compare", !.mt = file.mtime]
      <4>1. r \in CallType /\ r.groups = call[c].groups /\ r.step # "publish"
        BY <2>1 DEF CallType
      <4>2. call' = [call EXCEPT ![c] = r]
        BY <2>1, <3>2
      <4> HIDE DEF r
      <4> QED BY <2>1, <3>1, <4>1, <4>2, CallerKeeps
    <3> QED BY <2>3, <3>1, <3>2, CallFailsKeeps DEF Callers, StatFile
  <2>4. CASE Callers(Compare(c))
    <3> DEFINE r == [call[c] EXCEPT !.mt = 0, !.step = IF call[c].mt = cache.modTime
                                                       THEN "answer" ELSE "restat"]
    <3>1. r \in CallType /\ r.groups = call[c].groups /\ r.step # "publish"
      BY <2>1 DEF CallType
    <3>2. call' = [call EXCEPT ![c] = r] /\ UNCHANGED <<file, wholes, cache, listed>>
      BY <2>1, <2>4 DEF Callers, Compare
    <3> HIDE DEF r
    <3> QED BY <2>1, <3>1, <3>2, CallerKeeps
  <2>5. CASE Callers(Restat(c))
    <3>1. UNCHANGED <<file, wholes, cache, listed>>
      BY <2>5 DEF Callers, Restat
    <3>2. CASE call' = [call EXCEPT ![c].step = "read", ![c].mt = file.mtime]
      <4> DEFINE r == [call[c] EXCEPT !.step = "read", !.mt = file.mtime]
      <4>1. r \in CallType /\ r.groups = call[c].groups /\ r.step # "publish"
        BY <2>1 DEF CallType
      <4>2. call' = [call EXCEPT ![c] = r]
        BY <2>1, <3>2
      <4> HIDE DEF r
      <4> QED BY <2>1, <3>1, <4>1, <4>2, CallerKeeps
    <3> QED BY <2>5, <3>1, <3>2, CallFailsKeeps DEF Callers, Restat
  <2>6. CASE Callers(ReadFile(c))
    <3>1. UNCHANGED <<file, wholes, cache, listed>>
      BY <2>6 DEF Callers, ReadFile
    <3>2. CASE Parses(file)
      <4> DEFINE r == [call[c] EXCEPT !.step = "swap", !.groups = file.groups]
      <4>1. r \in CallType /\ r.groups = file.groups /\ r.step # "publish"
        BY <2>1 DEF CallType
      <4>2. call' = [call EXCEPT ![c] = r]
        BY <2>1, <2>6, <3>2 DEF Callers, ReadFile
      <4>3. WholeGroups(file.groups)
        BY <3>2 DEF FPInv
      <4> HIDE DEF r
      <4> QED BY <2>1, <3>1, <4>1, <4>2, <4>3, CallerKeeps
    <3>3. CASE ~Parses(file)
      BY <2>6, <3>1, <3>3, CallFailsKeeps DEF Callers, ReadFile
    <3> QED BY <3>2, <3>3
  <2>7. CASE Callers(Swap(c))
    <3> DEFINE r == [call[c] EXCEPT !.step = "answer", !.mt = 0, !.groups = NoGroups]
    <3>1. r \in CallType /\ r.groups = NoGroups /\ r.step # "publish"
      BY <2>1, <2>2 DEF CallType
    <3>2. call' = [call EXCEPT ![c] = r] /\ UNCHANGED <<file, wholes, listed>>
      BY <2>1, <2>7 DEF Callers, Swap
    <3>3. cache' = [groups |-> call[c].groups, modTime |-> call[c].mt]
      BY <2>7 DEF Callers, Swap
    <3>4. cache' \in [groups : FileGroups, modTime : Nat] /\ WholeGroups(cache'.groups)
      BY <2>1, <3>3 DEF CallType
    <3> HIDE DEF r
    <3> QED BY <2>1, <2>2, <3>1, <3>2, <3>4, CallerKeeps
  <2>8. CASE Callers(AnswerGroups(c))
    <3>1. DOMAIN cache.groups \in SUBSET Group
      BY <2>1, FileGroupsDomain
    <3> QED BY <2>8, <3>1, NextGroupKeeps DEF Callers, AnswerGroups
  <2>9. CASE Callers(AnswerSnapshot(c))
    <3>1. UNCHANGED <<file, wholes, cache, listed>>
      BY <2>9 DEF Callers, AnswerSnapshot
    <3>2. CASE call[c].group \in DOMAIN cache.groups
      <4> DEFINE g == call[c].group
                 r == [call[c] EXCEPT !.step = "publish", !.backends = cache.groups[g]]
      <4>1. g \in Group /\ cache.groups[g] \in FileLists /\ cache.groups[g] \in wholes[g]
        BY <2>1, <3>2, FileGroupsDomain DEF FileLists, WholeGroups
      <4>2. /\ r \in CallType /\ r.groups = call[c].groups
            /\ r.group = g /\ r.backends = cache.groups[g]
        BY <2>1, <4>1 DEF CallType
      <4>3. call' = [call EXCEPT ![c] = r]
        BY <2>1, <2>9, <3>2 DEF Callers, AnswerSnapshot
      <4> HIDE DEF g, r
      <4> QED BY <2>1, <3>1, <4>1, <4>2, <4>3, CallerKeeps
    <3>3. CASE call[c].group \notin DOMAIN cache.groups
      BY <2>9, <3>1, <3>3, CallFailsKeeps DEF Callers, AnswerSnapshot
    <3> QED BY <3>2, <3>3
  <2>10. CASE Callers(PublishList(c))
    <3>1. call[c].group \in Group /\ call[c].backends \in wholes[call[c].group]
      BY <2>10 DEF Callers, PublishList, FPInv
    <3>2. /\ listed' = [listed EXCEPT ![call[c].group] = call[c].backends]
          /\ NextGroup(c, call[c].todo) /\ UNCHANGED <<file, wholes, cache>>
      BY <2>10 DEF Callers, PublishList
    <3>3. PICK t \in {"idle", "stat"}, g \in Group \cup {NoList}, todo \in SUBSET Group :
            call' = [call EXCEPT ![c] = Caller(t, g, todo)]
      <4>1. call[c].todo \in SUBSET Group
        BY <2>1 DEF CallType
      <4>2. CASE call[c].todo = {}
        <5>1. call' = [call EXCEPT ![c] = Caller("idle", NoList, {})]
          BY <3>2, <4>2 DEF NextGroup, Resting
        <5> QED BY <5>1
      <4>3. CASE call[c].todo # {}
        <5>1. PICK g \in call[c].todo :
                call' = [call EXCEPT ![c] = Caller("stat", g, call[c].todo \ {g})]
          BY <3>2, <4>3 DEF NextGroup
        <5>2. g \in Group \cup {NoList} /\ call[c].todo \ {g} \in SUBSET Group
          BY <4>1
        <5> QED BY <5>1, <5>2
      <4> QED BY <4>2, <4>3
    <3>4. /\ listed' = [h \in Group |-> listed'[h]] /\ DOMAIN listed' = Group
          /\ \A h \in Group : listed'[h] = NoList \/ listed'[h] \in wholes[h]
      BY <3>1, <3>2 DEF FPInv, FPTypeInv, PublishedWhole
    <3>5. Caller(t, g, todo) \in CallType
      BY DEF Caller, CallType, FileGroups, FileLists
    <3>6. call' \in [FileCaller -> CallType]
      BY <2>1, <3>3, <3>5
    <3>7. ASSUME NEW d \in FileCaller
          PROVE  /\ \A h \in DOMAIN call'[d].groups : call'[d].groups[h] \in wholes[h]
                 /\ call'[d].step = "publish" =>
                      call'[d].group \in Group /\ call'[d].backends \in wholes[call'[d].group]
      <4>1. CASE d = c
        <5>1. call'[d] = Caller(t, g, todo)
          BY <2>1, <3>3, <4>1
        <5>2. call'[d].groups = NoGroups /\ call'[d].step # "publish"
          BY <5>1 DEF Caller
        <5> QED BY <5>2 DEF NoGroups
      <4>2. CASE d # c
        <5>1. call'[d] = call[d]
          BY <2>1, <3>3, <4>2
        <5> QED BY <5>1 DEF FPInv, WholeGroups
      <4> QED BY <4>1, <4>2
    <3>8. FPTypeInv'
      BY <3>2, <3>4, <3>6 DEF FPInv, FPTypeInv
    <3> QED BY <3>2, <3>4, <3>7, <3>8 DEF FPInv, WholeGroups, PublishedWhole, Parses
  <2> QED BY <1>5, <2>3, <2>4, <2>5, <2>6, <2>7, <2>8, <2>9, <2>10 DEF FPStep
<1>6. CASE UNCHANGED fpVars
  BY <1>6 DEF fpVars, FPInv, FPTypeInv, WholeGroups, PublishedWhole, Parses
<1> QED BY <1>1, <1>2, <1>3, <1>4, <1>5, <1>6 DEF FPNext

(* THEOREM: whatever the editor of the file does while reconcile and       *)
(* forceRepublish are in reload, what is published for a group is a list   *)
(* that a whole save of the file gave it.                                  *)
THEOREM PublishedIsWhole == FPSpec => []PublishedWhole
<1>1. FPInit => FPInv
  <2> SUFFICES ASSUME FPInit PROVE FPInv
    OBVIOUS
  <2>1. PICK c \in Content : /\ file = [state |-> c.state, groups |-> c.groups, mtime |-> 1]
                             /\ Parses(file)
    BY DEF FPInit
  <2>2. Resting \in CallType /\ Resting.groups = NoGroups /\ Resting.step = "idle"
    BY DEF Resting, Caller, CallType, FileGroups, FileLists
  <2>3. file.groups \in FileGroups
    BY <2>1 DEF FileGroups
  <2>4. FPTypeInv
    BY <2>1, <2>2, <2>3 DEF FPInit, FPTypeInv
  <2>5. ASSUME NEW g \in DOMAIN file.groups PROVE file.groups[g] \in wholes[g]
    <3>1. g \in Group
      BY <2>3, FileGroupsDomain
    <3> QED BY <2>1, <3>1 DEF FPInit, ListsOf
  <2>6. \A c2 \in FileCaller : call[c2] = Resting
    BY DEF FPInit
  <2> QED BY <2>2, <2>4, <2>5, <2>6
          DEF FPInit, FPInv, WholeGroups, PublishedWhole, NoGroups
<1>2. FPInv => PublishedWhole
  BY DEF FPInv
<1> QED BY <1>1, <1>2, FPStepKeeps, PTL DEF FPSpec

-----------------------------------------------------------------------------
(* The certificate reloader *)

Gen == 1..MaxGen
KeyPair == [cert : Gen, key : Gen]

(* What a load holds: the pairs before the one it is at are complete, and  *)
(* so is this one from the point where its key was accepted.               *)
LoadGood(r) ==
  /\ r = [step |-> r.step, pair |-> r.pair, have |-> r.have, stamps |-> r.stamps,
          late |-> r.late, cert |-> r.cert, read |-> r.read, key |-> r.key]
  /\ r.pair \in 1..NPairs + 1
  /\ r.have \in Seq(KeyPair) /\ Len(r.have) = r.pair - 1
  /\ \A i \in 1..Len(r.have) : r.have[i].cert = r.have[i].key
  /\ r.step \in {"cert", "key", "statCert", "statKey"} => r.pair \in Pair
  /\ r.step \in {"statCert", "statKey"} => r.cert \in Gen /\ r.cert = r.key
  /\ r.step = "swap" => r.pair = NPairs + 1

CertsGood ==
  /\ certs \in [Pair -> KeyPair]
  /\ \A i \in Pair : certs[i].cert = certs[i].key

CRInv ==
  /\ onDisk = [f \in CertFile |-> onDisk[f]]
  /\ \A f \in CertFile : onDisk[f].gen \in Gen \cup {Missing}
  /\ loading = [l \in Loader |-> loading[l]]
  /\ \A l \in Loader : LoadGood(loading[l])
  /\ CertsGood

LEMMA FreshLoadGood == LoadGood(NotLoading) /\ LoadGood(StartLoad)
<1>1. 1 \in 1..NPairs + 1 /\ 1 \in Pair
  BY CertReloaderAssumption DEF Pair
<1>2. <<>> \in Seq(KeyPair) /\ Len(<<>>) = 0
  OBVIOUS
<1>3. LoadGood(NotLoading)
  BY <1>1, <1>2 DEF LoadGood, NotLoading, Load
<1>4. LoadGood(StartLoad)
  BY <1>1, <1>2 DEF LoadGood, StartLoad, Load
<1> QED BY <1>3, <1>4

(* A load moves on within its pair. *)
LEMMA MovedOn ==
  ASSUME NEW r, LoadGood(r), NEW step, NEW stamps, NEW late, NEW cert, NEW read, NEW key,
         r.pair \in Pair, step \in {"key", "statCert", "statKey"},
         step # "key" => cert \in Gen /\ cert = key
  PROVE  LoadGood([step |-> step, pair |-> r.pair, have |-> r.have, stamps |-> stamps,
                   late |-> late, cert |-> cert, read |-> read, key |-> key])
<1> DEFINE q == [step |-> step, pair |-> r.pair, have |-> r.have, stamps |-> stamps,
                 late |-> late, cert |-> cert, read |-> read, key |-> key]
<1>1. /\ q.step = step /\ q.pair = r.pair /\ q.have = r.have /\ q.stamps = stamps
      /\ q.late = late /\ q.cert = cert /\ q.read = read /\ q.key = key
  OBVIOUS
<1>2. q = [step |-> q.step, pair |-> q.pair, have |-> q.have, stamps |-> q.stamps,
           late |-> q.late, cert |-> q.cert, read |-> q.read, key |-> q.key]
  OBVIOUS
<1>3. step # "swap"
  OBVIOUS
<1>4. LoadGood(q)
  <2> HIDE DEF q
  <2> QED BY <1>1, <1>2, <1>3 DEF LoadGood
<1> QED BY <1>4

(* A step of a load leaves a good load. *)
LEMMA LoadKeeps ==
  ASSUME CRInv, NEW l \in Loader, NEW r, LoadGood(r),
         loading' = [loading EXCEPT ![l] = r], CertsGood', UNCHANGED onDisk
  PROVE  CRInv'
<1>1. loading' = [k \in Loader |-> loading'[k]]
  BY DEF CRInv
<1>2. \A k \in Loader : loading'[k] = IF k = l THEN r ELSE loading[k]
  BY DEF CRInv
<1>3. \A k \in Loader : LoadGood(loading'[k])
  BY <1>2 DEF CRInv
<1> QED BY <1>1, <1>3 DEF CRInv

LEMMA CRStepKeeps == CRInv /\ [CRNext]_crVars => CRInv'
<1> SUFFICES ASSUME CRInv, [CRNext]_crVars
             PROVE  CRInv'
  OBVIOUS
<1>1. ASSUME NEW f \in CertFile, Renew(f) PROVE CRInv'
  <2>1. UNCHANGED <<certs, loading>>
    BY <1>1 DEF Renew
  <2>2. PICK v \in [gen : Gen \cup {Missing}, mtime : {0, writes + 2}] :
          onDisk' = [onDisk EXCEPT ![f] = v]
    <3>1. CASE \E gen \in 1..MaxGen :
                 onDisk' = [onDisk EXCEPT ![f] = [gen |-> gen, mtime |-> writes + 2]]
      <4>1. PICK gen \in 1..MaxGen :
              onDisk' = [onDisk EXCEPT ![f] = [gen |-> gen, mtime |-> writes + 2]]
        BY <3>1
      <4>2. [gen |-> gen, mtime |-> writes + 2] \in [gen : Gen \cup {Missing}, mtime : {0, writes + 2}]
        BY DEF Gen
      <4> QED BY <4>1, <4>2
    <3>2. CASE onDisk' = [onDisk EXCEPT ![f] = [gen |-> Missing, mtime |-> 0]]
      <4>1. [gen |-> Missing, mtime |-> 0] \in [gen : Gen \cup {Missing}, mtime : {0, writes + 2}]
        OBVIOUS
      <4> QED BY <3>2, <4>1
    <3> QED BY <1>1, <3>1, <3>2 DEF Renew
  <2>3. onDisk' = [g \in CertFile |-> onDisk'[g]]
    BY <2>2 DEF CRInv
  <2>4. \A g \in CertFile : onDisk'[g].gen \in Gen \cup {Missing}
    BY <2>2 DEF CRInv
  <2> QED BY <2>1, <2>3, <2>4 DEF CRInv, CertsGood
<1>2. CASE WatchTick
  <2>1. "watch" \in Loader /\ CertsGood'
    BY <1>2 DEF WatchTick, Loader, CRInv, CertsGood
  <2>2. loading' = [loading EXCEPT !["watch"] = StartLoad] /\ UNCHANGED onDisk
    BY <1>2 DEF WatchTick
  <2> QED BY <2>1, <2>2, FreshLoadGood, LoadKeeps
<1>3. CASE Hangup
  <2>1. "hup" \in Loader /\ CertsGood'
    BY <1>3 DEF Hangup, Loader, CRInv, CertsGood
  <2>2. loading' = [loading EXCEPT !["hup"] = StartLoad] /\ UNCHANGED onDisk
    BY <1>3 DEF Hangup
  <2> QED BY <2>1, <2>2, FreshLoadGood, LoadKeeps
<1>4. ASSUME NEW l \in Loader, CRStep(l) PROVE CRInv'
  <2> DEFINE r == loading[l]
  <2>1. LoadGood(r) /\ CertsGood /\ loading = [k \in Loader |-> loading[k]]
    BY DEF CRInv
  <2>a. UNCHANGED certs => CertsGood'
    BY <2>1 DEF CertsGood
  <2>b. r = [step |-> r.step, pair |-> r.pair, have |-> r.have, stamps |-> r.stamps,
             late |-> r.late, cert |-> r.cert, read |-> r.read, key |-> r.key]
    BY <2>1 DEF LoadGood
  <2>2. CASE ReadCert(l)
    <3> DEFINE f == onDisk[<<loading[l].pair, "cert">>]
               x == [r.read EXCEPT ![1] = f.mtime]
    <3>1. r.pair \in Pair
      BY <2>1, <2>2 DEF ReadCert, LoadGood
    <3>2. loading' = [loading EXCEPT ![l] =
            [r EXCEPT !.step = "key", !.cert = f.gen, !.read = x]]
      BY <2>1, <2>2 DEF ReadCert, LoadGood
    <3> HIDE DEF f, x, r
    <3>4. [r EXCEPT !.step = "key", !.cert = f.gen, !.read = x] =
            [step |-> "key", pair |-> r.pair, have |-> r.have, stamps |-> r.stamps,
             late |-> r.late, cert |-> f.gen, read |-> x, key |-> r.key]
      <4> DEFINE u == [r EXCEPT !.step = "key"]
                 v == [u EXCEPT !.cert = f.gen]
                 w == [v EXCEPT !.read = x]
      <4>1. [r EXCEPT !.step = "key", !.cert = f.gen, !.read = x] = w
        OBVIOUS
      <4>2. u = [step |-> "key", pair |-> r.pair, have |-> r.have, stamps |-> r.stamps,
                 late |-> r.late, cert |-> r.cert, read |-> r.read, key |-> r.key]
        BY <2>b
      <4> HIDE DEF u
      <4>3. v = [step |-> "key", pair |-> r.pair, have |-> r.have, stamps |-> r.stamps,
                 late |-> r.late, cert |-> f.gen, read |-> r.read, key |-> r.key]
        BY <4>2
      <4> HIDE DEF v
      <4>4. w = [step |-> "key", pair |-> r.pair, have |-> r.have, stamps |-> r.stamps,
                 late |-> r.late, cert |-> f.gen, read |-> x, key |-> r.key]
        BY <4>3
      <4> QED BY <4>1, <4>4
    <3>a. "key" \in {"key", "statCert", "statKey"}
      OBVIOUS
    <3>3. LoadGood([step |-> "key", pair |-> r.pair, have |-> r.have, stamps |-> r.stamps,
                    late |-> r.late, cert |-> f.gen, read |-> x, key |-> r.key])
      BY <2>1, <3>1, <3>a, MovedOn, Zenon
    <3> QED BY <2>2, <2>a, <3>2, <3>3, <3>4, LoadKeeps DEF ReadCert
  <2>3. CASE ReadKey(l)
    <3> DEFINE f == onDisk[<<loading[l].pair, "key">>]
               x == [r.read EXCEPT ![2] = f.mtime]
    <3>1. CASE ~(loading[l].cert = f.gen /\ f.gen # Missing)
      <4>1. loading' = [loading EXCEPT ![l] = NotLoading]
        BY <2>1, <2>3, <3>1 DEF ReadKey
      <4> QED BY <2>3, <2>a, <4>1, FreshLoadGood, LoadKeeps DEF ReadKey
    <3>2. CASE loading[l].cert = f.gen /\ f.gen # Missing
      <4>1. loading' = [loading EXCEPT ![l] =
              [r EXCEPT !.step = "statCert", !.key = f.gen, !.read = x]]
        BY <2>1, <2>3, <3>2 DEF ReadKey, LoadGood
      <4>2. r.pair \in Pair /\ f.gen \in Gen /\ r.cert = f.gen
        <5>1. r.pair \in Pair
          BY <2>1, <2>3 DEF ReadKey, LoadGood
        <5>2. <<r.pair, "key">> \in CertFile
          BY <5>1 DEF CertFile
        <5> QED BY <3>2, <5>1, <5>2 DEF CRInv
      <4> HIDE DEF f, x, r
      <4>4. [r EXCEPT !.step = "statCert", !.key = f.gen, !.read = x] =
              [step |-> "statCert", pair |-> r.pair, have |-> r.have, stamps |-> r.stamps,
               late |-> r.late, cert |-> r.cert, read |-> x, key |-> f.gen]
        <5> DEFINE u == [r EXCEPT !.step = "statCert"]
                   v == [u EXCEPT !.key = f.gen]
                   w == [v EXCEPT !.read = x]
        <5>1. [r EXCEPT !.step = "statCert", !.key = f.gen, !.read = x] = w
          OBVIOUS
        <5>2. u = [step |-> "statCert", pair |-> r.pair, have |-> r.have, stamps |-> r.stamps,
                   late |-> r.late, cert |-> r.cert, read |-> r.read, key |-> r.key]
          BY <2>b
        <5> HIDE DEF u
        <5>3. v = [step |-> "statCert", pair |-> r.pair, have |-> r.have, stamps |-> r.stamps,
                   late |-> r.late, cert |-> r.cert, read |-> r.read, key |-> f.gen]
          BY <5>2
        <5> HIDE DEF v
        <5>4. w = [step |-> "statCert", pair |-> r.pair, have |-> r.have, stamps |-> r.stamps,
                   late |-> r.late, cert |-> r.cert, read |-> x, key |-> f.gen]
          BY <5>3
        <5> QED BY <5>1, <5>4
      <4>a. "statCert" \in {"key", "statCert", "statKey"}
        OBVIOUS
      <4>3. LoadGood([step |-> "statCert", pair |-> r.pair, have |-> r.have,
                      stamps |-> r.stamps, late |-> r.late, cert |-> r.cert, read |-> x,
                      key |-> f.gen])
        BY <2>1, <4>2, <4>a, MovedOn, Zenon
      <4> QED BY <2>3, <2>a, <4>1, <4>3, <4>4, LoadKeeps DEF ReadKey
    <3> QED BY <3>1, <3>2
  <2>4. CASE StatCert(l)
    <3> DEFINE s == Stamped(l, "cert", 1)
    <3>6. s = [r EXCEPT !.stamps = s.stamps, !.late = s.late]
      BY <2>1 DEF LoadGood, Stamped
    <3>1. s = [step |-> r.step, pair |-> r.pair, have |-> r.have, stamps |-> s.stamps,
               late |-> s.late, cert |-> r.cert, read |-> r.read, key |-> r.key]
      <4> HIDE DEF r, s
      <4> QED BY <2>b, <3>6
    <3>2. loading' = [loading EXCEPT ![l] = [s EXCEPT !.step = "statKey"]]
      BY <2>4 DEF StatCert
    <3>3. r.pair \in Pair /\ r.cert \in Gen /\ r.cert = r.key
      BY <2>1, <2>4 DEF StatCert, LoadGood
    <3> HIDE DEF s, r
    <3>a. "statKey" \in {"key", "statCert", "statKey"}
      OBVIOUS
    <3>4. [s EXCEPT !.step = "statKey"] =
            [step |-> "statKey", pair |-> r.pair, have |-> r.have, stamps |-> s.stamps,
             late |-> s.late, cert |-> r.cert, read |-> r.read, key |-> r.key]
      BY <3>1
    <3>5. LoadGood([step |-> "statKey", pair |-> r.pair, have |-> r.have,
                    stamps |-> s.stamps, late |-> s.late, cert |-> r.cert,
                    read |-> r.read, key |-> r.key])
      BY <2>1, <3>3, <3>a, MovedOn, Zenon
    <3> QED BY <2>4, <2>a, <3>2, <3>4, <3>5, LoadKeeps DEF StatCert
  <2>5. CASE StatKey(l)
    <3> DEFINE s == Stamped(l, "key", 2)
               h == Append(r.have, [cert |-> r.cert, key |-> r.key])
    <3>1. /\ s.pair = r.pair /\ s.have = r.have /\ s.cert = r.cert /\ s.key = r.key
      BY <2>1 DEF LoadGood, Stamped
    <3>2. PICK m, late : loading' = [loading EXCEPT ![l] =
            Load(IF r.pair = NPairs THEN "swap" ELSE "cert", r.pair + 1, h, m, late)]
      <4>1. loading' = [loading EXCEPT ![l] =
              Load(IF s.pair = NPairs THEN "swap" ELSE "cert", s.pair + 1,
                   Append(s.have, [cert |-> s.cert, key |-> s.key]), s.stamps, s.late)]
        BY <2>5 DEF StatKey
      <4> HIDE DEF s
      <4> QED BY <3>1, <4>1
    <3>3. /\ r.pair \in Pair /\ r.cert \in Gen /\ r.cert = r.key
          /\ r.have \in Seq(KeyPair) /\ Len(r.have) = r.pair - 1
          /\ \A i \in 1..Len(r.have) : r.have[i].cert = r.have[i].key
      BY <2>1, <2>5 DEF StatKey, LoadGood
    <3>4. [cert |-> r.cert, key |-> r.key] \in KeyPair
      BY <3>3 DEF KeyPair
    <3>5. /\ h \in Seq(KeyPair) /\ Len(h) = r.pair
          /\ \A i \in 1..Len(h) : h[i].cert = h[i].key
      <4> DEFINE x == [cert |-> r.cert, key |-> r.key]
                 b == r.have
      <4>1. x \in KeyPair /\ x.cert = x.key
        BY <3>3, <3>4
      <4>2. b \in Seq(KeyPair) /\ Len(b) \in Nat /\ \A i \in 1..Len(b) : b[i].cert = b[i].key
        BY <3>3
      <4>3. r.pair = Len(b) + 1
        BY <3>3, CertReloaderAssumption DEF Pair
      <4> HIDE DEF x, b, r
      <4>4. /\ Append(b, x) \in Seq(KeyPair) /\ Len(Append(b, x)) = Len(b) + 1
            /\ \A i \in 1..Len(b) : Append(b, x)[i] = b[i]
            /\ Append(b, x)[Len(b) + 1] = x
        BY <4>1, <4>2
      <4>5. \A i \in 1..Len(b) + 1 : i = Len(b) + 1 \/ i \in 1..Len(b)
        BY <4>2
      <4>6. /\ Append(b, x) \in Seq(KeyPair) /\ Len(Append(b, x)) = r.pair
            /\ \A i \in 1..Len(Append(b, x)) : Append(b, x)[i].cert = Append(b, x)[i].key
        BY <4>1, <4>2, <4>3, <4>4, <4>5
      <4> QED BY <4>6 DEF x, b
    <3> HIDE DEF h
    <3>6. r.pair + 1 \in 1..NPairs + 1 /\ (r.pair # NPairs => r.pair + 1 \in Pair)
      BY <3>3, CertReloaderAssumption DEF Pair
    <3>8. Len(h) = (r.pair + 1) - 1 /\ r.pair \in Nat
      BY <3>3, <3>5, CertReloaderAssumption DEF Pair
    <3>7. LoadGood(Load(IF r.pair = NPairs THEN "swap" ELSE "cert", r.pair + 1, h, m, late))
      <4>1. CASE r.pair = NPairs
        <5>1. LoadGood(Load("swap", r.pair + 1, h, m, late))
          BY <3>5, <3>6, <3>8, <4>1 DEF LoadGood, Load
        <5> QED BY <4>1, <5>1
      <4>2. CASE r.pair # NPairs
        <5>1. LoadGood(Load("cert", r.pair + 1, h, m, late))
          BY <3>5, <3>6, <3>8, <4>2 DEF LoadGood, Load
        <5> QED BY <4>2, <5>1
      <4> QED BY <4>1, <4>2
    <3> QED BY <2>5, <2>a, <3>2, <3>7, LoadKeeps DEF StatKey
  <2>6. CASE SwapCerts(l)
    <3>1. certs' = r.have /\ r.pair = NPairs + 1
      BY <2>1, <2>6 DEF SwapCerts, LoadGood
    <3>2. r.have \in Seq(KeyPair) /\ Len(r.have) = NPairs
          /\ \A i \in 1..Len(r.have) : r.have[i].cert = r.have[i].key
      BY <2>1, <3>1, CertReloaderAssumption DEF LoadGood
    <3>3. CertsGood'
      BY <3>1, <3>2, CertReloaderAssumption DEF CertsGood, Pair
    <3> QED BY <2>6, <3>3, FreshLoadGood, LoadKeeps DEF SwapCerts
  <2> QED BY <1>4, <2>2, <2>3, <2>4, <2>5, <2>6 DEF CRStep
<1>5. CASE UNCHANGED crVars
  BY <1>5 DEF crVars, CRInv, CertsGood
<1> QED BY <1>1, <1>2, <1>3, <1>4, <1>5 DEF CRNext

(* GetCertificate finds a covering certificate if there is one. *)
LEMMA ChoiceCovers ==
  ASSUME CertsGood, NEW name
  PROVE  /\ GetCertificate(name) \in Pair
         /\ name # NoName => ((\E i \in Pair : certMatchesName(i, name)) =>
                                certMatchesName(GetCertificate(name), name))
<1> DEFINE covering == {i \in DOMAIN certs : name # NoName /\ certMatchesName(i, name)}
<1>1. DOMAIN certs = Pair /\ covering \in SUBSET Nat
  BY CertReloaderAssumption DEF CertsGood, Pair
<1>2. 1 \in Pair
  BY CertReloaderAssumption DEF Pair
<1>3. CASE covering = {}
  <2>1. GetCertificate(name) = 1
    BY <1>3 DEF GetCertificate
  <2>2. \A i \in Pair : ~(name # NoName /\ certMatchesName(i, name))
    BY <1>1, <1>3
  <2> QED BY <1>2, <2>1, <2>2
<1>4. CASE covering # {}
  <2>1. GetCertificate(name) = CHOOSE i \in covering : \A j \in covering : i <= j
    BY <1>4 DEF GetCertificate
  <2>2. \E i \in covering : \A j \in covering : i <= j
    <3> HIDE DEF covering
    <3> QED BY <1>1, <1>4, LeastNatural
  <2>3. GetCertificate(name) \in covering
    <3> HIDE DEF covering
    <3> QED BY <2>1, <2>2
  <2>4. GetCertificate(name) \in Pair /\ certMatchesName(GetCertificate(name), name)
    <3> DEFINE g == GetCertificate(name)
    <3>1. g \in covering
      BY <2>3
    <3> HIDE DEF g
    <3>2. g \in Pair /\ certMatchesName(g, name)
      BY <1>1, <3>1
    <3> QED BY <3>2 DEF g
  <2> QED BY <2>4
<1> QED BY <1>3, <1>4

(* THEOREM: however renewals, the watcher and SIGHUP interleave, every     *)
(* configured pair stays loaded, a handshake gets a certificate with the   *)
(* key that belongs to it, and one for the name asked for if any is loaded.*)
THEOREM HandshakesAreServed == CRSpec => []HandshakeServed
<1>1. CRInit => CRInv
  <2> SUFFICES ASSUME CRInit PROVE CRInv
    OBVIOUS
  <2>1. CertsGood
    BY CertReloaderAssumption DEF CRInit, CertsGood, KeyPair, Gen
  <2>2. /\ onDisk = [f \in CertFile |-> onDisk[f]]
        /\ \A f \in CertFile : onDisk[f].gen \in Gen \cup {Missing}
    BY CertReloaderAssumption DEF CRInit, Gen
  <2>3. /\ loading = [l \in Loader |-> loading[l]]
        /\ \A l \in Loader : LoadGood(loading[l])
    BY FreshLoadGood DEF CRInit
  <2> QED BY <2>1, <2>2, <2>3 DEF CRInv
<1>2. CRInv => HandshakeServed
  <2> SUFFICES ASSUME CRInv, NEW name \in ServerName \cup {NoName}
               PROVE  /\ DOMAIN certs = Pair
                      /\ certs[GetCertificate(name)].cert = certs[GetCertificate(name)].key
                      /\ certs[GetCertificate(name)].cert # Missing
                      /\ (\E i \in Pair : certMatchesName(i, name)) =>
                           certMatchesName(GetCertificate(name), name)
    BY DEF HandshakeServed, CRInv, CertsGood
  <2>1. GetCertificate(name) \in Pair
    BY ChoiceCovers DEF CRInv
  <2>2. \A i \in Pair : certs[i].cert = certs[i].key /\ certs[i].cert # Missing
    BY CertReloaderAssumption DEF CRInv, CertsGood, KeyPair, Gen
  <2>3. DOMAIN certs = Pair
    BY DEF CRInv, CertsGood
  <2>5. \A i \in Pair : ~certMatchesName(i, NoName)
    BY CertReloaderAssumption DEF CRInv, CertsGood, KeyPair, Gen, Pair, certMatchesName
  <2>4. (\E i \in Pair : certMatchesName(i, name)) => certMatchesName(GetCertificate(name), name)
    BY <2>5, ChoiceCovers DEF CRInv
  <2> QED BY <2>1, <2>2, <2>3, <2>4
<1> QED BY <1>1, <1>2, CRStepKeeps, PTL DEF CRSpec

-----------------------------------------------------------------------------
(* The providers *)

Config == [ip : IP \cup {NoIP}, primary : BOOLEAN]

GoodReport(r) ==
  /\ \A i, j \in DOMAIN r : r[i].address = r[j].address => i = j
  /\ \A i \in DOMAIN r : r[i].address # NoIP /\ r[i].weight > 0

PortsDistinct ==
  \A g, h \in FakeGroup : \A i \in DOMAIN fake[g], j \in DOMAIN fake[h] :
    fake[g][i] = fake[h][j] => g = h /\ i = j

(* Instances share no address, whatever their interfaces are. *)
InstancesApart ==
  /\ vms = [i \in Instance |-> vms[i]]
  /\ \A i \in Instance : vms[i].configs \in Seq(Config)
  /\ \A i, j \in Instance : i # j =>
       Addresses(vms[i].configs) \cap Addresses(vms[j].configs) = {}

ReportsGood ==
  /\ report = [kube |-> report.kube, azure |-> report.azure]
  /\ GoodReport(report.kube) /\ GoodReport(report.azure)

PVInv ==
  /\ weight \in Int
  /\ InstancesApart
  /\ asking.ids \in SUBSET Instance
  /\ ReportsGood
  /\ fake \in [FakeGroup -> Seq(Nat)]
  /\ PortsDistinct

(* The addresses of a set in some order make a good report. *)
LEMMA OrderOfSet ==
  ASSUME NEW S, IsFiniteSet(S), NEW f \in Orders(S)
  PROVE  /\ f \in Seq(S) /\ DOMAIN f = 1..Len(f)
         /\ \A i, j \in DOMAIN f : f[i] = f[j] => i = j
<1>1. Cardinality(S) \in Nat
  BY FS_CardinalityType
<1> QED BY <1>1 DEF Orders, Injection, IsInjective

LEMMA OrderIsOnto ==
  ASSUME NEW S, IsFiniteSet(S), NEW f \in Orders(S), NEW x \in S
  PROVE  \E i \in DOMAIN f : f[i] = x
<1> DEFINE D == 1..Cardinality(S)
<1>1. Cardinality(S) \in Nat
  BY FS_CardinalityType
<1>2. IsFiniteSet(D) /\ Cardinality(D) = Cardinality(S)
  BY <1>1, FS_Interval
<1>3. f \in [D -> S] /\ f \in Injection(D, S)
  BY DEF Orders, Injection, IsInjective
<1>4. f \in Surjection(D, S)
  BY <1>2, <1>3, FS_Injection
<1> QED BY <1>3, <1>4 DEF Surjection

LEMMA BackendsGood ==
  ASSUME weight \in Int, NEW ips, NEW D, ips = [i \in D |-> ips[i]],
         \A i \in D : ips[i] # NoIP,
         \A i, j \in D : ips[i] = ips[j] => i = j
  PROVE  GoodReport(Backends(ips))
<1> DEFINE w == GroupWeight
<1>1. w > 0
  BY DEF GroupWeight
<1> HIDE DEF w
<1>2. Backends(ips) = [i \in D |-> [address |-> ips[i], weight |-> w]]
  BY DEF Backends, w
<1> QED BY <1>1, <1>2 DEF GoodReport

LEMMA SlicesJoined ==
  ASSUME NEW S \in SUBSET IP, NEW T \in SUBSET IP,
         NEW first \in Orders(S), NEW more \in Orders(T \ S), weight \in Int
  PROVE  GoodReport(Backends(first \o more))
<1> DEFINE ips == first \o more
<1>1. IsFiniteSet(S) /\ IsFiniteSet(T \ S)
  BY FS_Subset, ProvidersAssumption
<1>2. /\ first \in Seq(S) /\ DOMAIN first = 1..Len(first)
      /\ \A i, j \in DOMAIN first : first[i] = first[j] => i = j
  BY <1>1, OrderOfSet
<1>3. /\ more \in Seq(T \ S) /\ DOMAIN more = 1..Len(more)
      /\ \A i, j \in DOMAIN more : more[i] = more[j] => i = j
  BY <1>1, OrderOfSet
<1>4. /\ Len(first) \in Nat /\ Len(more) \in Nat
      /\ \A i \in 1..Len(first) : first[i] \in S
      /\ \A i \in 1..Len(more) : more[i] \in T /\ more[i] \notin S
  BY <1>2, <1>3
<1> DEFINE n == Len(first)
           m == Len(more)
<1>5. /\ ips \in Seq(IP) /\ Len(ips) = n + m
      /\ \A i \in 1..n + m : ips[i] = IF i <= n THEN first[i] ELSE more[i - n]
  <2>1. first \in Seq(IP) /\ more \in Seq(IP)
    BY <1>2, <1>3
  <2> HIDE DEF ips, n, m
  <2> QED BY <2>1, ConcatProperties DEF ips, n, m
<1> HIDE DEF ips, n, m
<1>6. /\ n \in Nat /\ m \in Nat
      /\ \A i \in 1..n : first[i] \in S
      /\ \A i, j \in 1..n : first[i] = first[j] => i = j
      /\ \A i \in 1..m : more[i] \in T /\ more[i] \notin S
      /\ \A i, j \in 1..m : more[i] = more[j] => i = j
  BY <1>2, <1>3, <1>4 DEF n, m
<1>7. \A i \in 1..n + m : /\ i <= n => i \in 1..n /\ ips[i] = first[i]
                          /\ i > n => i - n \in 1..m /\ ips[i] = more[i - n]
  BY <1>5, <1>6
<1>8. \A i \in 1..n + m : ips[i] # NoIP
  BY <1>6, <1>7, ProvidersAssumption
<1>9. ASSUME NEW i \in 1..n + m, NEW j \in 1..n + m, ips[i] = ips[j]
      PROVE  i = j
  <2>1. CASE i <= n /\ j <= n
    BY <1>6, <1>7, <1>9, <2>1
  <2>2. CASE i > n /\ j > n
    <3>1. i - n = j - n
      BY <1>6, <1>7, <1>9, <2>2
    <3> QED BY <1>6, <3>1
  <2>3. CASE i <= n /\ j > n
    BY <1>6, <1>7, <1>9, <2>3
  <2>4. CASE i > n /\ j <= n
    BY <1>6, <1>7, <1>9, <2>4
  <2> QED BY <1>6, <2>1, <2>2, <2>3, <2>4
<1>10. ips = [i \in 1..n + m |-> ips[i]]
  BY <1>5
<1>11. GoodReport(Backends(ips))
  BY <1>8, <1>9, <1>10, BackendsGood
<1> QED BY <1>11 DEF ips

(* The address an interface is given up for is one of its own. *)
LEMMA PrimaryIsOwn ==
  ASSUME NEW configs \in Seq(Config)
  PROVE  primaryPrivateIP(configs) # NoIP =>
           primaryPrivateIP(configs) \in Addresses(configs)
<1> DEFINE usable == {k \in DOMAIN configs : configs[k].ip # NoIP}
           primary == {k \in usable : configs[k].primary}
           S == IF primary = {} THEN usable ELSE primary
<1>1. usable \in SUBSET Nat /\ S \subseteq usable
  OBVIOUS
<1>2. primaryPrivateIP(configs) = IF usable = {} THEN NoIP ELSE configs[Min(S)].ip
  BY DEF primaryPrivateIP
<1>3. usable # {} => S # {}
  OBVIOUS
<1>4. ASSUME usable # {} PROVE Min(S) \in usable
  <2>1. S # {} /\ S \in SUBSET Nat
    BY <1>1, <1>3, <1>4
  <2> HIDE DEF S, usable
  <2>2. \E x \in S : \A y \in S : x <= y
    BY <2>1, LeastNatural
  <2>3. Min(S) \in S
    BY <2>2 DEF Min
  <2> QED BY <1>1, <2>3
<1>5. ASSUME NEW k \in usable PROVE configs[k].ip \in Addresses(configs)
  <2>1. k \in DOMAIN configs /\ configs[k].ip # NoIP
    OBVIOUS
  <2>2. configs[k] \in Range(configs)
    BY <2>1 DEF Range
  <2> QED BY <2>1, <2>2 DEF Addresses
<1> HIDE DEF S, usable
<1> QED BY <1>2, <1>4, <1>5

(* Instances that share no address report different ones. *)
LEMMA InterfacesReport ==
  ASSUME InstancesApart, weight \in Int, asking.ids \in SUBSET Instance,
         NEW found \in Orders({i \in asking.ids : listPrivateIPs[i] # NoIP})
  PROVE  GoodReport(Backends([k \in DOMAIN found |-> listPrivateIPs[found[k]]]))
<1> DEFINE S == {i \in asking.ids : listPrivateIPs[i] # NoIP}
           ips == [k \in DOMAIN found |-> listPrivateIPs[found[k]]]
<1>1. S \in SUBSET Instance
  OBVIOUS
<1>2. IsFiniteSet(S)
  BY <1>1, FS_Subset, ProvidersAssumption
<1>3. /\ found \in Seq(S) /\ DOMAIN found = 1..Len(found)
      /\ \A i, j \in DOMAIN found : found[i] = found[j] => i = j
  <2> HIDE DEF S
  <2>1. found \in Orders(S)
    BY DEF S
  <2> QED BY <1>2, <2>1, OrderOfSet
<1>4. \A k \in DOMAIN found : found[k] \in S
  <2> HIDE DEF S
  <2> QED BY <1>3
<1>5. ASSUME NEW i \in S
      PROVE  listPrivateIPs[i] # NoIP /\ listPrivateIPs[i] \in Addresses(vms[i].configs)
  <2>1. listPrivateIPs[i] = primaryPrivateIP(vms[i].configs)
    BY <1>1 DEF listPrivateIPs
  <2>2. vms[i].configs \in Seq(Config)
    BY <1>1 DEF InstancesApart
  <2> QED BY <2>1, <2>2, PrimaryIsOwn
<1> HIDE DEF S
<1>6. \A k \in DOMAIN found : ips[k] # NoIP
  BY <1>4, <1>5
<1>7. ASSUME NEW j \in DOMAIN found, NEW k \in DOMAIN found, ips[j] = ips[k]
      PROVE  j = k
  <2>1. found[j] \in Instance /\ found[k] \in Instance
    BY <1>1, <1>4
  <2>2. /\ ips[j] \in Addresses(vms[found[j]].configs)
        /\ ips[k] \in Addresses(vms[found[k]].configs)
    BY <1>4, <1>5
  <2>3. found[j] = found[k]
    <3> HIDE DEF ips
    <3> QED BY <1>7, <2>1, <2>2, Zenon DEF InstancesApart
  <2> QED BY <1>3, <2>3
<1>8. ips = [k \in DOMAIN found |-> ips[k]]
  OBVIOUS
<1> HIDE DEF ips
<1>9. GoodReport(Backends(ips))
  BY <1>6, <1>7, <1>8, BackendsGood
<1> QED BY <1>9 DEF ips

(* The ports in use are finitely many. *)
LEMMA UsedFinite ==
  ASSUME NEW f \in [FakeGroup -> Seq(Nat)]
  PROVE  IsFiniteSet(UNION {Range(f[h]) : h \in FakeGroup})
<1>1. ASSUME NEW h \in FakeGroup PROVE IsFiniteSet(Range(f[h]))
  <2> DEFINE s == f[h]
  <2>1. s \in Seq(Nat)
    OBVIOUS
  <2> HIDE DEF s
  <2>2. Len(s) \in Nat /\ DOMAIN s = 1..Len(s)
    BY <2>1
  <2>3. s \in Surjection(1..Len(s), Range(s))
    BY <2>1, <2>2 DEF Surjection, Range
  <2>4. IsFiniteSet(1..Len(s))
    BY <2>2, FS_Interval
  <2>5. IsFiniteSet(Range(s))
    BY <2>3, <2>4, FS_Surjection
  <2> QED BY <2>5 DEF s
<1> DEFINE Sets == {Range(f[h]) : h \in FakeGroup}
           F == [h \in FakeGroup |-> Range(f[h])]
<1>2. F \in Surjection(FakeGroup, Sets)
  BY DEF Surjection
<1>3. IsFiniteSet(Sets)
  <2> HIDE DEF F, Sets
  <2> QED BY <1>2, FS_Surjection, ProvidersAssumption
<1>4. \A T \in Sets : IsFiniteSet(T)
  BY <1>1
<1> HIDE DEF Sets
<1>5. IsFiniteSet(UNION Sets)
  BY <1>3, <1>4, FS_UNION
<1> QED BY <1>5 DEF Sets

(* Of the numbers up to the size of a finite set, the least that is not in *)
(* it.                                                                     *)
LEMMA LowestFree ==
  ASSUME NEW used, IsFiniteSet(used)
  PROVE  LET n == CHOOSE n \in 0..Cardinality(used) :
                    n \notin used /\ \A m \in 0..n - 1 : m \in used
         IN  n \in Nat /\ n \notin used
<1> DEFINE c == Cardinality(used)
           free == {n \in 0..c : n \notin used}
<1>1. c \in Nat
  BY FS_CardinalityType
<1> HIDE DEF c
<1>2. free # {}
  <2> SUFFICES ASSUME free = {} PROVE FALSE
    OBVIOUS
  <2>1. (0..c) \in SUBSET used
    OBVIOUS
  <2>2. Cardinality(0..c) = c + 1
    BY <1>1, FS_Interval
  <2>3. Cardinality(0..c) <= c
    BY <2>1, FS_Subset DEF c
  <2> QED BY <1>1, <2>2, <2>3
<1>3. PICK n \in free : \A m \in free : n <= m
  <2>1. free \in SUBSET Nat
    BY <1>1
  <2> HIDE DEF free
  <2> QED BY <1>2, <2>1, LeastNatural
<1>4. n \in 0..c /\ n \notin used /\ \A m \in 0..n - 1 : m \in used
  BY <1>1, <1>3
<1> QED BY <1>1, <1>4 DEF c

(* A new backend gets a port that no group uses. *)
LEMMA ScaleUpKeeps ==
  ASSUME NEW g \in FakeGroup, fake \in [FakeGroup -> Seq(Nat)], PortsDistinct,
         fake' = [fake EXCEPT ![g] = Append(@, nextPortForGroup(g))]
  PROVE  fake' \in [FakeGroup -> Seq(Nat)] /\ PortsDistinct'
<1> DEFINE used == UNION {Range(fake[h]) : h \in FakeGroup}
           p == nextPortForGroup(g)
           n == Len(fake[g])
<1>1. p \in Nat /\ p \notin used
  <2>1. IsFiniteSet(used)
    BY UsedFinite
  <2>2. p = CHOOSE k \in 0..Cardinality(used) :
              k \notin used /\ \A m \in 0..k - 1 : m \in used
    BY DEF nextPortForGroup
  <2> HIDE DEF used, p
  <2> QED BY <2>1, <2>2, LowestFree
<1>2. ASSUME NEW h \in FakeGroup, NEW i \in DOMAIN fake[h] PROVE fake[h][i] # p
  <2>1. fake[h][i] \in used
    BY DEF Range
  <2> HIDE DEF used, p
  <2> QED BY <1>1, <2>1
<1> HIDE DEF p, used
<1>3. /\ fake[g] \in Seq(Nat) /\ n \in Nat /\ DOMAIN fake[g] = 1..n
      /\ fake'[g] = Append(fake[g], p)
      /\ \A h \in FakeGroup \ {g} : fake'[h] = fake[h]
  BY DEF p
<1>4. fake' \in [FakeGroup -> Seq(Nat)]
  BY <1>1 DEF p
<1>5. /\ DOMAIN fake'[g] = 1..n + 1
      /\ fake'[g][n + 1] = p
      /\ \A i \in 1..n : fake'[g][i] = fake[g][i]
  BY <1>1, <1>3
<1> HIDE DEF n
<1>6. ASSUME NEW h \in FakeGroup, NEW i \in DOMAIN fake'[h]
      PROVE  \/ h = g /\ i = n + 1 /\ fake'[h][i] = p
             \/ i \in DOMAIN fake[h] /\ fake'[h][i] = fake[h][i]
  <2>1. CASE h = g
    BY <1>3, <1>5, <1>6, <2>1
  <2>2. CASE h # g
    BY <1>3, <1>6, <2>2
  <2> QED BY <2>1, <2>2
<1>7. PortsDistinct'
  BY <1>2, <1>6 DEF PortsDistinct
<1> QED BY <1>4, <1>7

(* A sequence without its element i. *)
LEMMA RemovedAt ==
  ASSUME NEW s \in Seq(Nat), NEW i \in DOMAIN s
  PROVE  /\ Without(s, i) \in Seq(Nat)
         /\ DOMAIN Without(s, i) = 1..Len(s) - 1
         /\ \A k \in 1..Len(s) - 1 :
              Without(s, i)[k] = IF k < i THEN s[k] ELSE s[k + 1]
<1> DEFINE n == Len(s)
           a == SubSeq(s, 1, i - 1)
           b == SubSeq(s, i + 1, n)
<1>1. n \in Nat /\ i \in 1..n /\ \A k \in 1..n : s[k] \in Nat
  OBVIOUS
<1>2. Without(s, i) = a \o b
  BY DEF Without
<1> HIDE DEF n
<1>3. a \in Seq(Nat) /\ Len(a) = i - 1 /\ \A k \in 1..i - 1 : a[k] = s[k]
  <2>1. i - 1 \in Int /\ i - 1 <= n /\ \A k \in 1..i - 1 : s[k] \in Nat
    BY <1>1
  <2>2. /\ a \in Seq(Nat) /\ Len(a) = IF 1 <= i - 1 THEN (i - 1) - 1 + 1 ELSE 0
        /\ \A k \in 1..(i - 1) - 1 + 1 : a[k] = s[1 + k - 1]
    <3> DEFINE m == i - 1
    <3> HIDE DEF m
    <3>1. m \in Int /\ \A k \in 1..m : s[k] \in Nat
      BY <2>1 DEF m
    <3>2. /\ SubSeq(s, 1, m) \in Seq(Nat)
          /\ Len(SubSeq(s, 1, m)) = IF 1 <= m THEN m - 1 + 1 ELSE 0
          /\ \A k \in 1..m - 1 + 1 : SubSeq(s, 1, m)[k] = s[1 + k - 1]
      BY <3>1, SubSeqProperties
    <3> QED BY <3>2 DEF m
  <2> HIDE DEF a
  <2>3. Len(a) = i - 1
    BY <1>1, <2>2
  <2>4. (i - 1) - 1 + 1 = i - 1 /\ \A k \in Int : 1 + k - 1 = k
    BY <1>1
  <2> QED BY <2>2, <2>3, <2>4
<1>4. b \in Seq(Nat) /\ Len(b) = n - i /\ \A k \in 1..n - i : b[k] = s[i + k]
  <2> DEFINE m == i + 1
  <2>1. m \in Int /\ n \in Int /\ \A k \in m..n : s[k] \in Nat
    BY <1>1
  <2> HIDE DEF m
  <2>2. /\ SubSeq(s, m, n) \in Seq(Nat)
        /\ Len(SubSeq(s, m, n)) = IF m <= n THEN n - m + 1 ELSE 0
        /\ \A k \in 1..n - m + 1 : SubSeq(s, m, n)[k] = s[m + k - 1]
    BY <2>1, SubSeqProperties
  <2>3. b = SubSeq(s, m, n)
    BY DEF m
  <2> HIDE DEF b
  <2>4. Len(b) = n - i
    BY <1>1, <2>2, <2>3 DEF m
  <2>5. n - m + 1 = n - i /\ \A k \in Int : m + k - 1 = i + k
    BY <1>1 DEF m
  <2>6. ASSUME NEW k \in 1..n - i PROVE b[k] = s[i + k]
    <3>1. m + k - 1 = i + k /\ k \in 1..n - m + 1
      BY <1>1, <2>5
    <3> QED BY <2>2, <2>3, <3>1
  <2> QED BY <2>2, <2>3, <2>4, <2>6
<1> HIDE DEF a, b
<1>5. /\ a \o b \in Seq(Nat) /\ Len(a \o b) = Len(a) + Len(b)
      /\ \A k \in 1..Len(a) + Len(b) :
           (a \o b)[k] = IF k <= Len(a) THEN a[k] ELSE b[k - Len(a)]
  BY <1>3, <1>4, ConcatProperties
<1>6. Len(a) + Len(b) = n - 1
  BY <1>1, <1>3, <1>4
<1>7. ASSUME NEW k \in 1..n - 1
      PROVE  (a \o b)[k] = IF k < i THEN s[k] ELSE s[k + 1]
  <2>1. (a \o b)[k] = IF k <= Len(a) THEN a[k] ELSE b[k - Len(a)]
    BY <1>5, <1>6
  <2>2. CASE k < i
    <3>1. k <= Len(a) /\ k \in 1..i - 1
      BY <1>1, <1>3, <2>2
    <3> QED BY <1>3, <2>1, <2>2, <3>1
  <2>3. CASE ~(k < i)
    <3>1. ~(k <= Len(a)) /\ k - Len(a) \in 1..n - i /\ i + (k - Len(a)) = k + 1
      BY <1>1, <1>3, <2>3
    <3> QED BY <1>4, <2>1, <2>3, <3>1
  <2> QED BY <2>2, <2>3
<1>8. DOMAIN (a \o b) = 1..n - 1
  BY <1>5, <1>6
<1> QED BY <1>2, <1>5, <1>7, <1>8 DEF n

LEMMA ScaleDownKeeps ==
  ASSUME NEW g \in FakeGroup, fake \in [FakeGroup -> Seq(Nat)], PortsDistinct,
         NEW i \in DOMAIN fake[g], fake' = [fake EXCEPT ![g] = Without(@, i)]
  PROVE  fake' \in [FakeGroup -> Seq(Nat)] /\ PortsDistinct'
<1> DEFINE s == fake[g]
           n == Len(s)
           at(h, k) == IF h = g /\ k >= i THEN k + 1 ELSE k
<1>1. /\ s \in Seq(Nat) /\ n \in Nat /\ DOMAIN s = 1..n /\ i \in 1..n
      /\ fake'[g] = Without(s, i)
      /\ \A h \in FakeGroup \ {g} : fake'[h] = fake[h]
  OBVIOUS
<1>2. /\ Without(s, i) \in Seq(Nat) /\ DOMAIN Without(s, i) = 1..n - 1
      /\ \A k \in 1..n - 1 : Without(s, i)[k] = IF k < i THEN s[k] ELSE s[k + 1]
  BY RemovedAt
<1>3. fake' \in [FakeGroup -> Seq(Nat)]
  BY <1>2
<1>4. ASSUME NEW h \in FakeGroup, NEW k \in DOMAIN fake'[h]
      PROVE  /\ k \in Nat /\ at(h, k) \in DOMAIN fake[h]
             /\ fake'[h][k] = fake[h][at(h, k)]
  <2>1. CASE h = g
    <3>1. k \in 1..n - 1
      BY <1>1, <1>2, <1>4, <2>1
    <3>2. fake'[h][k] = IF k < i THEN s[k] ELSE s[k + 1]
      BY <1>1, <1>2, <2>1, <3>1
    <3> HIDE DEF n
    <3>3. k \in Nat /\ i \in Nat /\ k \in 1..n /\ k + 1 \in 1..n
      BY <1>1, <3>1
    <3>4. CASE k < i
      BY <1>1, <2>1, <3>2, <3>3, <3>4
    <3>5. CASE ~(k < i)
      BY <1>1, <2>1, <3>2, <3>3, <3>5
    <3> QED BY <3>4, <3>5
  <2>2. CASE h # g
    <3>1. fake'[h] = fake[h] /\ k \in DOMAIN fake[h]
      BY <1>1, <1>4, <2>2
    <3>2. k \in Nat
      <4>1. fake[h] \in Seq(Nat)
        OBVIOUS
      <4> QED BY <3>1, <4>1
    <3> QED BY <2>2, <3>1, <3>2
  <2> QED BY <2>1, <2>2
<1>5. ASSUME NEW h \in FakeGroup, NEW e \in FakeGroup,
             NEW j \in DOMAIN fake'[h], NEW k \in DOMAIN fake'[e],
             fake'[h][j] = fake'[e][k]
      PROVE  h = e /\ j = k
  <2>1. h = e /\ at(h, j) = at(e, k)
    <3> HIDE DEF at
    <3> QED BY <1>4, <1>5 DEF PortsDistinct
  <2>2. j \in Nat /\ k \in Nat /\ i \in Nat
    BY <1>1, <1>4
  <2> QED BY <2>1, <2>2
<1> QED BY <1>3, <1>5 DEF PortsDistinct

(* The groups take their first ports one after the other. *)
LEMMA FirstPortsGrow ==
  ASSUME NEW order \in Orders(FakeGroup), NEW first \in FirstPorts(order),
         NEW k \in DOMAIN order, NEW l \in DOMAIN order, k < l
  PROVE  first[k] + InitialCount[order[k]] <= first[l]
<1> DEFINE top == first[k] + InitialCount[order[k]]
           bad == {j \in DOMAIN order : j > k /\ first[j] < top}
<1>1. order \in Seq(FakeGroup) /\ DOMAIN order = 1..Len(order) /\ Len(order) \in Nat
  BY OrderOfSet, ProvidersAssumption
<1>2. \A j \in DOMAIN order : order[j] \in FakeGroup /\ InitialCount[order[j]] \in Nat
  BY <1>1, ProvidersAssumption
<1>3. MaxPerGroup * Cardinality(FakeGroup) \in Nat
  BY FS_CardinalityType, ProvidersAssumption
<1> DEFINE N == MaxPerGroup * Cardinality(FakeGroup)
<1> HIDE DEF N
<1>4. /\ first \in [DOMAIN order -> 0..N]
      /\ \A j \in DOMAIN order :
           first[j] = IF j = 1 THEN 0 ELSE first[j - 1] + InitialCount[order[j - 1]]
  BY DEF FirstPorts, N
<1>5. \A j \in DOMAIN order : first[j] \in Nat /\ j \in Nat
  BY <1>1, <1>3, <1>4 DEF N
<1>6. top \in Nat
  BY <1>2, <1>5
<1>7. ASSUME bad # {} PROVE FALSE
  <2>1. bad \in SUBSET Nat
    BY <1>5
  <2>2. PICK j \in bad : \A m \in bad : j <= m
    <3> HIDE DEF bad
    <3> QED BY <1>7, <2>1, LeastNatural
  <2>3. j \in DOMAIN order /\ j > k /\ first[j] < top /\ j - 1 \in DOMAIN order /\ j # 1
    BY <1>1, <1>5, <2>2
  <2>4. first[j] = first[j - 1] + InitialCount[order[j - 1]]
    BY <1>4, <2>3
  <2>5. CASE j - 1 = k
    BY <1>5, <1>6, <2>3, <2>4, <2>5
  <2>6. CASE j - 1 # k
    <3>1. j - 1 > k /\ j - 1 \notin bad
      BY <1>5, <2>1, <2>2, <2>3, <2>6
    <3>2. first[j - 1] >= top
      <4> HIDE DEF top
      <4> QED BY <1>5, <1>6, <2>3, <3>1
    <3> HIDE DEF top
    <3> QED BY <1>2, <1>5, <1>6, <2>3, <2>4, <3>2
  <2> QED BY <2>5, <2>6
<1> QED BY <1>5, <1>6, <1>7

LEMMA StartingPorts ==
  ASSUME PVInit
  PROVE  fake \in [FakeGroup -> Seq(Nat)] /\ PortsDistinct
<1>1. PICK order \in Orders(FakeGroup) : \E first \in FirstPorts(order) :
        fake = [g \in FakeGroup |-> LET k == CHOOSE k \in DOMAIN order : order[k] = g
                                    IN  NumberedFrom(first[k], InitialCount[g])]
  BY DEF PVInit
<1>2. PICK first \in FirstPorts(order) :
        fake = [g \in FakeGroup |-> LET k == CHOOSE k \in DOMAIN order : order[k] = g
                                    IN  NumberedFrom(first[k], InitialCount[g])]
  BY <1>1
<1> DEFINE at == [g \in FakeGroup |-> CHOOSE k \in DOMAIN order : order[k] = g]
<1>3. \A g \in FakeGroup : at[g] \in DOMAIN order /\ order[at[g]] = g
  BY OrderIsOnto, ProvidersAssumption
<1>4. order \in Seq(FakeGroup) /\ DOMAIN order = 1..Len(order) /\ Len(order) \in Nat
  BY OrderOfSet, ProvidersAssumption
<1>5. fake = [g \in FakeGroup |-> NumberedFrom(first[at[g]], InitialCount[g])]
  BY <1>2
<1> HIDE DEF at
<1>6. \A g \in FakeGroup : InitialCount[g] \in Nat /\ first[at[g]] \in Nat
  <2>1. MaxPerGroup * Cardinality(FakeGroup) \in Nat
    BY FS_CardinalityType, ProvidersAssumption
  <2>2. \A k \in DOMAIN order : first[k] \in Nat
    BY <2>1 DEF FirstPorts
  <2> QED BY <1>3, <2>2, ProvidersAssumption
<1>7. ASSUME NEW g \in FakeGroup
      PROVE  /\ fake[g] \in Seq(Nat) /\ DOMAIN fake[g] = 1..InitialCount[g]
             /\ \A i \in 1..InitialCount[g] : fake[g][i] = first[at[g]] + i - 1
  <2> DEFINE b == first[at[g]]
             n == InitialCount[g]
  <2>1. b \in Nat /\ n \in Nat
    BY <1>6
  <2>2. fake[g] = [i \in 1..n |-> b + i - 1]
    BY <1>5 DEF NumberedFrom
  <2> HIDE DEF b, n
  <2>3. \A i \in 1..n : b + i - 1 \in Nat
    BY <2>1
  <2>4. fake[g] \in Seq(Nat)
    BY <2>1, <2>2, <2>3
  <2> QED BY <2>2, <2>4 DEF b, n
<1>8. fake \in [FakeGroup -> Seq(Nat)]
  <2>1. fake = [g \in FakeGroup |-> fake[g]]
    BY <1>5
  <2> QED BY <1>7, <2>1
<1>9. ASSUME NEW g \in FakeGroup, NEW h \in FakeGroup, at[g] < at[h],
             NEW i \in DOMAIN fake[g], NEW j \in DOMAIN fake[h]
      PROVE  fake[g][i] # fake[h][j]
  <2>1. first[at[g]] + InitialCount[g] <= first[at[h]]
    BY <1>3, <1>9, FirstPortsGrow
  <2>2. /\ i \in 1..InitialCount[g] /\ j \in 1..InitialCount[h]
        /\ fake[g][i] = first[at[g]] + i - 1 /\ fake[h][j] = first[at[h]] + j - 1
    BY <1>7
  <2> QED BY <1>6, <2>1, <2>2
<1>10. ASSUME NEW g \in FakeGroup, NEW h \in FakeGroup,
              NEW i \in DOMAIN fake[g], NEW j \in DOMAIN fake[h],
              fake[g][i] = fake[h][j]
       PROVE  g = h /\ i = j
  <2>1. at[g] \in Nat /\ at[h] \in Nat
    BY <1>3, <1>4
  <2>2. at[g] = at[h]
    BY <1>9, <1>10, <2>1
  <2>3. g = h
    BY <1>3, <2>2
  <2>4. /\ i \in 1..InitialCount[g] /\ j \in 1..InitialCount[g]
        /\ first[at[g]] + i - 1 = first[at[g]] + j - 1
    BY <1>7, <1>10, <2>3
  <2> QED BY <1>6, <2>3, <2>4
<1> QED BY <1>8, <1>10 DEF PortsDistinct

LEMMA PVStepKeeps == PVInv /\ [PVNext]_pvVars => PVInv'
<1> SUFFICES ASSUME PVInv, [PVNext]_pvVars PROVE PVInv'
  OBVIOUS
<1> USE DEF PVInv
<1>a. weight' = weight
  BY DEF PVNext, KubernetesNext, AzureNext, FakeNext, EndpointChange, KubernetesSnapshot,
         InstanceChange, ListRunning, ListInterfaces, ListingFails, ScaleUp, ScaleDown, pvVars
<1>b. report' = report => ReportsGood'
  BY DEF ReportsGood, GoodReport
<1>c. vms' = vms => InstancesApart'
  BY DEF InstancesApart
<1>d. fake' = fake => fake' \in [FakeGroup -> Seq(Nat)] /\ PortsDistinct'
  BY DEF PortsDistinct
<1>1. ASSUME NEW s \in Slice, NEW p \in IP, EndpointChange(s, p) PROVE PVInv'
  BY <1>a, <1>b, <1>c, <1>d, <1>1 DEF EndpointChange
<1>2. CASE KubernetesSnapshot
  <2> DEFINE in(s) == {p \in IP : endpointReady(slices[s][p])}
  <2>1. PICK first \in Orders(in(1)), more \in Orders(in(2) \ in(1)) :
          report' = [report EXCEPT !.kube = Backends(first \o more)]
    BY <1>2 DEF KubernetesSnapshot
  <2>2. in(1) \in SUBSET IP /\ in(2) \in SUBSET IP
    OBVIOUS
  <2>3. GoodReport(Backends(first \o more))
    <3> HIDE DEF in
    <3> QED BY <2>2, SlicesJoined
  <2> DEFINE b == Backends(first \o more)
  <2> HIDE DEF b
  <2>4. report' = [kube |-> b, azure |-> report.azure]
    BY <2>1 DEF b, ReportsGood
  <2>5. ReportsGood'
    <3>1. GoodReport(b) /\ GoodReport(report.azure)
      BY <2>3 DEF b, ReportsGood
    <3> QED BY <2>4, <3>1 DEF ReportsGood, GoodReport
  <2> QED BY <1>a, <1>b, <1>c, <1>d, <1>2, <2>4, <2>5 DEF KubernetesSnapshot
<1>3. ASSUME NEW i \in Instance, InstanceChange(i) PROVE PVInv'
  <2>1. PICK configs \in IPConfigs, p \in BOOLEAN, r \in BOOLEAN :
          /\ \A j \in Instance \ {i} : Addresses(configs) \cap Addresses(vms[j].configs) = {}
          /\ vms' = [vms EXCEPT ![i] = [provisioned |-> p, running |-> r, configs |-> configs]]
    BY <1>3 DEF InstanceChange
  <2>2. configs \in Seq(Config)
    BY ProvidersAssumption DEF Config
  <2>3. /\ vms' = [j \in Instance |-> vms'[j]]
        /\ vms'[i].configs = configs
        /\ \A j \in Instance \ {i} : vms'[j] = vms[j]
    BY <2>1 DEF InstancesApart
  <2>4. InstancesApart'
    BY <2>1, <2>2, <2>3 DEF InstancesApart
  <2> QED BY <1>a, <1>b, <1>c, <1>d, <1>3, <2>4 DEF InstanceChange
<1>4. CASE ListRunning
  BY <1>a, <1>b, <1>c, <1>d, <1>4 DEF ListRunning
<1>5. CASE ListInterfaces
  <2>1. PICK found \in Orders({i \in asking.ids : listPrivateIPs[i] # NoIP}) :
          report' = [report EXCEPT !.azure =
                       Backends([k \in DOMAIN found |-> listPrivateIPs[found[k]]])]
    BY <1>5 DEF ListInterfaces
  <2> DEFINE b == Backends([k \in DOMAIN found |-> listPrivateIPs[found[k]]])
  <2>2. GoodReport(b)
    BY InterfacesReport
  <2> HIDE DEF b
  <2>3. report' = [kube |-> report.kube, azure |-> b]
    BY <2>1 DEF b, ReportsGood
  <2>4. ReportsGood'
    <3>1. GoodReport(b) /\ GoodReport(report.kube)
      BY <2>2 DEF ReportsGood
    <3> QED BY <2>3, <3>1 DEF ReportsGood, GoodReport
  <2> QED BY <1>a, <1>b, <1>c, <1>d, <1>5, <2>3, <2>4 DEF ListInterfaces, NotAsking
<1>6. CASE ListingFails
  BY <1>a, <1>b, <1>c, <1>d, <1>6 DEF ListingFails, NotAsking
<1>7. ASSUME NEW g \in FakeGroup, ScaleUp(g) PROVE PVInv'
  BY <1>a, <1>b, <1>c, <1>d, <1>7, ScaleUpKeeps DEF ScaleUp
<1>8. ASSUME NEW g \in FakeGroup, ScaleDown(g) PROVE PVInv'
  <2>1. PICK i \in DOMAIN fake[g] : fake' = [fake EXCEPT ![g] = Without(@, i)]
    BY <1>8 DEF ScaleDown
  <2>2. fake' \in [FakeGroup -> Seq(Nat)] /\ PortsDistinct'
    BY <2>1, ScaleDownKeeps
  <2> QED BY <1>a, <1>b, <1>c, <1>d, <1>8, <2>2 DEF ScaleDown
<1>9. CASE UNCHANGED pvVars
  BY <1>a, <1>b, <1>c, <1>d, <1>9 DEF pvVars
<1> QED
  BY <1>1, <1>2, <1>3, <1>4, <1>5, <1>6, <1>7, <1>8, <1>9
  DEF PVNext, KubernetesNext, AzureNext, FakeNext

(* THEOREM: whatever moves between two listings, however an address is     *)
(* spread over endpoint slices and whatever the simulated pool has been    *)
(* through, a report names an address once, never the empty one, with a    *)
(* positive weight, and no two simulated backends share a port.            *)
THEOREM ReportsAreDistinct == PVSpec => []ReportsDistinct
<1>1. PVInit => PVInv
  <2> SUFFICES ASSUME PVInit PROVE PVInv
    OBVIOUS
  <2>1. fake \in [FakeGroup -> Seq(Nat)] /\ PortsDistinct
    BY StartingPorts
  <2>2. weight \in Int
    BY ProvidersAssumption DEF PVInit
  <2>3. InstancesApart
    <3>1. /\ vms = [i \in Instance |-> vms[i]]
          /\ \A i \in Instance : vms[i].configs = <<>>
      BY DEF PVInit, Gone
    <3>2. <<>> \in Seq(Config) /\ Addresses(<<>>) = {}
      BY DEF Addresses, Range
    <3> QED BY <3>1, <3>2 DEF InstancesApart
  <2>4. asking.ids \in SUBSET Instance
    BY DEF PVInit, NotAsking
  <2>5. ReportsGood
    BY DEF PVInit, ReportsGood, GoodReport
  <2> QED BY <2>1, <2>2, <2>3, <2>4, <2>5 DEF PVInv
<1>2. PVInv => ReportsDistinct
  BY DEF PVInv, ReportsGood, GoodReport, PortsDistinct, ReportsDistinct
<1> QED BY <1>1, <1>2, PVStepKeeps, PTL DEF PVSpec

=============================================================================
