---------------------------- MODULE RoutesProofs ----------------------------
(***************************************************************************)
(* The route table from the store to the data planes, for any editors,     *)
(* data planes, tables, channel capacity and number of crashes: what holds *)
(* for any overlap of edits, and what holds while no two edits overlap.    *)
(***************************************************************************)
EXTENDS Routes, SequenceTheorems, TLAPS

USE ZenonT(10), SMTT(30)

Snapshot == [routes : Table, version : Nat]
Wires == {WireTable(t) : t \in Table}
Locals == {LocalTable(w) : w \in Wires}
Message == [version : Nat, routes : Wires, epoch : Nat \ {0}]
Held == [version : Nat, routes : Locals \cup {<<>>}, epoch : Nat]
EditorState ==
  [step : {"idle", "save", "write", "rename", "version", "routes", "send"},
   snapshot : [routes : Table \cup {<<>>}, version : Nat],
   version : Nat, routes : Wires \cup {<<>>}]

RoutesTypeInv ==
  /\ mem \in [routes : Table \cup {<<>>}, version : Nat]
  /\ history \in Seq(Table)
  /\ ed \in [Editor -> EditorState]
  /\ fd \in [Editor -> {Absent, "tmp", "file", "unlinked"}]
  /\ last \in Message \cup {NoTable}
  /\ subs \in SUBSET DataPlane
  /\ chan \in [DataPlane -> Seq(Message)]
  /\ wire \in [DataPlane -> Seq(Message)]
  /\ dp \in [DataPlane -> Held]
  /\ conn \in [DataPlane -> {"down", "open", "broken"}]
  /\ handed \in [DataPlane -> Nat]
  /\ epoch \in Nat \ {0}

(* x is a table that was set, with its version. *)
WasSet(x) ==
  x \in Snapshot /\ x.version \in 1..Len(history) /\ x.routes = history[x.version]

(* The version of m was set, and its routes were set as it or later. *)
Covered(m) ==
  /\ m.version \in 1..Len(history)
  /\ \E v \in m.version..Len(history) : m.routes = WireTable(history[v])

(* The same of a table that a data plane holds. *)
CoveredHere(t) ==
  /\ t.version \in 1..Len(history)
  /\ \E v \in t.version..Len(history) : t.routes = Local(history[v])

(* The store, the editors and what can be loaded after a crash.  A         *)
(* temporary file left by a crash is looked at only after it is truncated. *)
StoreInv ==
  /\ mem.version = Len(history)
  /\ mem.version = 0 => mem.routes = <<>>
  /\ mem.version # 0 => mem.routes = history[mem.version]
  /\ file \in {Absent, Empty, Torn} \/ WasSet(file)
  /\ \A e \in Editor :
       /\ ed[e].step # "idle" => Len(history) >= 1
       /\ ed[e].step \in {"save", "write"} => WasSet(ed[e].snapshot)
       /\ ed[e].step \in {"write", "rename"} =>
            tmp \in {Absent, Empty, Torn} \/ WasSet(tmp)
       /\ ed[e].step = "routes" => ed[e].version \in 1..Len(history)
       /\ ed[e].step = "send" => Covered(ed[e])

(* Everything published in this lifetime of the control plane is covered. *)
PublishedInv ==
  /\ last # NoTable => Covered(last) /\ last.epoch = epoch
  /\ \A d \in DataPlane :
       /\ \A m \in Range(chan[d]) : Covered(m) /\ m.epoch = epoch
       /\ \A m \in Range(wire[d]) : m.epoch <= epoch /\ (m.epoch = epoch => Covered(m))
       /\ dp[d].epoch <= epoch
       /\ dp[d].epoch = epoch => CoveredHere(dp[d])
       /\ dp[d].epoch = 0 => dp[d] = Nothing

(* The highest version handed to an open stream is on its way or was       *)
(* overtaken by what the data plane holds.                                 *)
HandedInv ==
  \A d \in DataPlane : conn[d] = "open" =>
    dp[d].version >= handed[d] \/ \E m \in InTransit(d) : m.version = handed[d]

RoutesInv == RoutesTypeInv /\ StoreInv /\ PublishedInv /\ HandedInv

-----------------------------------------------------------------------------
(* Facts the steps rest on *)

LEMMA RangeAppend ==
  ASSUME NEW S, NEW s \in Seq(S), NEW m \in S
  PROVE  Range(Append(s, m)) = Range(s) \cup {m}
<1>1. /\ Len(s) \in Nat /\ DOMAIN s = 1..Len(s)
      /\ DOMAIN Append(s, m) = 1..Len(s) + 1
      /\ Append(s, m)[Len(s) + 1] = m
      /\ \A i \in 1..Len(s) : Append(s, m)[i] = s[i]
  OBVIOUS
<1>2. m \in Range(Append(s, m)) /\ Range(s) \subseteq Range(Append(s, m))
  BY <1>1 DEF Range
<1>3. ASSUME NEW i \in 1..Len(s) + 1 PROVE Append(s, m)[i] \in Range(s) \cup {m}
  <2>1. CASE i = Len(s) + 1
    BY <1>1, <2>1
  <2>2. CASE i # Len(s) + 1
    BY <1>1, <2>2 DEF Range
  <2> QED BY <2>1, <2>2
<1>4. Range(Append(s, m)) \subseteq Range(s) \cup {m}
  BY <1>1, <1>3 DEF Range
<1> QED BY <1>2, <1>4

LEMMA RangeOfQueue ==
  ASSUME NEW S, NEW s \in Seq(S), s # <<>>
  PROVE  /\ Head(s) \in S /\ Tail(s) \in Seq(S)
         /\ Range(s) = {Head(s)} \cup Range(Tail(s))
<1>1. /\ Head(s) \in S /\ Tail(s) \in Seq(S) /\ Len(s) \in Nat \ {0}
      /\ DOMAIN s = 1..Len(s) /\ DOMAIN Tail(s) = 1..Len(s) - 1 /\ Head(s) = s[1]
      /\ \A i \in 1..Len(s) - 1 : Tail(s)[i] = s[i + 1]
  OBVIOUS
<1>2. ASSUME NEW i \in 1..Len(s) PROVE s[i] \in {Head(s)} \cup Range(Tail(s))
  <2>1. CASE i = 1
    BY <1>1, <2>1
  <2>2. CASE i # 1
    <3>1. i - 1 \in 1..Len(s) - 1 /\ (i - 1) + 1 = i
      BY <1>1, <2>2
    <3>2. Tail(s)[i - 1] = s[i]
      BY <1>1, <3>1
    <3> QED BY <1>1, <3>1, <3>2 DEF Range
  <2> QED BY <2>1, <2>2
<1>3. Head(s) \in Range(s)
  BY <1>1 DEF Range
<1>4. ASSUME NEW i \in 1..Len(s) - 1 PROVE Tail(s)[i] \in Range(s)
  <2>1. i + 1 \in 1..Len(s)
    BY <1>1
  <2> QED BY <1>1, <2>1 DEF Range
<1> QED BY <1>1, <1>2, <1>3, <1>4 DEF Range

LEMMA EmptyTable == WireTable(<<>>) = <<>> /\ LocalTable(<<>>) = <<>> /\ Local(<<>>) = <<>>
BY DEF WireTable, LocalTable, Local

(* What a starting process loads. *)
LEMMA LoadedFacts ==
  ASSUME StoreInv, RoutesTypeInv
  PROVE  /\ Loaded \in [routes : Table \cup {<<>>}, version : Nat]
         /\ Loaded.version \in 0..Len(history)
         /\ Loaded.version = 0 => Loaded.routes = <<>>
         /\ Loaded.version # 0 => Loaded.routes = history[Loaded.version]
         /\ Loaded.version # 0 => file = Loaded
<1>1. CASE file \in {Absent, Empty, Torn}
  BY <1>1 DEF Loaded, RoutesTypeInv
<1>2. CASE file \notin {Absent, Empty, Torn}
  BY <1>2 DEF Loaded, StoreInv, WasSet, Snapshot
<1> QED BY <1>1, <1>2

(* An edit adds to the history. *)
LEMMA HistoryGrows ==
  ASSUME RoutesTypeInv, NEW t \in Table, history' = Append(history, t)
  PROVE  /\ history' \in Seq(Table) /\ Len(history') = Len(history) + 1
         /\ Len(history) \in Nat
         /\ \A v \in 1..Len(history) : history'[v] = history[v]
         /\ history'[Len(history) + 1] = t
BY DEF RoutesTypeInv

(* A crash keeps the history up to what is loaded. *)
LEMMA HistoryCut ==
  ASSUME RoutesTypeInv, NEW n \in 0..Len(history), history' = SubSeq(history, 1, n)
  PROVE  /\ history' \in Seq(Table) /\ Len(history') = n
         /\ \A v \in 1..n : history'[v] = history[v]
<1>1. history \in Seq(Table) /\ Len(history) \in Nat /\ n \in Int
  BY DEF RoutesTypeInv
<1>2. \A i \in 1..n : history[i] \in Table
  BY <1>1
<1>3. /\ history' \in Seq(Table) /\ Len(history') = IF 1 <= n THEN n - 1 + 1 ELSE 0
      /\ \A i \in 1..n - 1 + 1 : history'[i] = history[1 + i - 1]
  BY <1>1, <1>2, SubSeqProperties
<1>4. n - 1 + 1 = n /\ \A i \in Int : 1 + i - 1 = i
  BY <1>1
<1>5. Len(history') = n
  BY <1>1, <1>3
<1> QED BY <1>3, <1>4, <1>5

-----------------------------------------------------------------------------
(* Types *)

LEMMA PublishedIsMessage ==
  ASSUME RoutesTypeInv, StoreInv, NEW e \in Editor, ed[e].step = "send"
  PROVE  Published(e) \in Message
<1>1. Covered(ed[e]) /\ ed[e].version \in Nat
  BY DEF StoreInv, RoutesTypeInv, EditorState
<1>2. PICK v \in ed[e].version..Len(history) : ed[e].routes = WireTable(history[v])
  BY <1>1 DEF Covered
<1>3. history[v] \in Table
  BY <1>1, <1>2 DEF Covered, RoutesTypeInv
<1>4. ed[e].routes \in Wires
  BY <1>2, <1>3 DEF Wires
<1> QED BY <1>1, <1>4 DEF Published, Message, RoutesTypeInv

LEMMA EditorTypeStep ==
  ASSUME RoutesTypeInv, StoreInv, NEW e \in Editor,
         EditorStep(e) \/ SaveFails(e) \/ \E t \in Table : Set(e, t)
  PROVE  RoutesTypeInv'
<1>x. ed[e] \in EditorState /\ mem.version \in Nat
  BY DEF RoutesTypeInv
<1> USE DEF RoutesTypeInv
<1>0. Idle \in EditorState
  BY DEF Idle, EditorState
<1>1. ASSUME NEW t \in Table, Set(e, t) PROVE RoutesTypeInv'
  <2>1. mem' \in [routes : Table \cup {<<>>}, version : Nat]
    BY <1>1 DEF Set
  <2>2. [ed[e] EXCEPT !.step = "save", !.snapshot = mem'] \in EditorState
    BY <1>x, <2>1 DEF EditorState
  <2>3. ed' \in [Editor -> EditorState]
    BY <1>1, <2>2 DEF Set
  <2>4. history' \in Seq(Table)
    BY <1>1 DEF Set
  <2> QED BY <1>1, <2>1, <2>3, <2>4 DEF Set, streamVars, pubVars, linkVars
<1>2. CASE SaveFails(e)
  BY <1>0, <1>2 DEF SaveFails, streamVars, pubVars, linkVars
<1>3. ASSUME NEW s \in {"write", "rename", "version"}, GoTo(e, s)
      PROVE  ed' \in [Editor -> EditorState]
  <2>1. [ed[e] EXCEPT !.step = s] \in EditorState
    BY <1>x DEF EditorState
  <2> QED BY <1>3, <2>1 DEF GoTo
<1>4. CASE OpenTmp(e)
  <2>1. ed' \in [Editor -> EditorState]
    BY <1>3, <1>4 DEF OpenTmp
  <2> QED BY <1>4, <2>1 DEF OpenTmp, ghostVars, streamVars, pubVars, linkVars
<1>5. CASE WriteTmp(e)
  <2>1. ed' \in [Editor -> EditorState]
    BY <1>3, <1>5 DEF WriteTmp
  <2> QED BY <1>5, <2>1 DEF WriteTmp, ghostVars, streamVars, pubVars, linkVars
<1>6. CASE Rename(e)
  <2>1. ed' \in [Editor -> EditorState]
    BY <1>0, <1>3, <1>6 DEF Rename
  <2>2. fd' \in [Editor -> {Absent, "tmp", "file", "unlinked"}]
    <3>1. CASE fd' = fd
      BY <3>1
    <3>2. CASE fd' = [f \in Editor |-> CASE fd[f] = "tmp" -> "file"
                                         [] fd[f] = "file" -> "unlinked"
                                         [] OTHER -> fd[f]]
      BY <3>2
    <3> QED BY <1>6, <3>1, <3>2 DEF Rename
  <2> QED BY <1>6, <2>1, <2>2 DEF Rename, streamVars, pubVars, linkVars
<1>7. CASE Upsert(e)
  <2>1. ed' \in [Editor -> EditorState]
    BY <1>3, <1>7 DEF Upsert
  <2> QED BY <1>7, <2>1 DEF Upsert, ghostVars, streamVars, pubVars, linkVars
<1>8. CASE ReadVersion(e)
  <2>1. ed' \in [Editor -> EditorState]
    <3>1. [ed[e] EXCEPT !.version = mem.version, !.step = "routes"] \in EditorState
      BY <1>x DEF EditorState
    <3> QED BY <1>8, <3>1 DEF ReadVersion
  <2> QED BY <1>8, <2>1 DEF ReadVersion, ghostVars, streamVars, pubVars, linkVars
<1>9. CASE ReadRoutes(e)
  <2>1. mem.version # 0 /\ mem.version \in 1..Len(history)
    BY <1>9 DEF ReadRoutes, StoreInv
  <2>2. WireTable(mem.routes) \in Wires
    BY <2>1 DEF StoreInv, Wires
  <2>3. ed' \in [Editor -> EditorState]
    <3>1. [ed[e] EXCEPT !.routes = WireTable(mem.routes), !.step = "send"] \in EditorState
      BY <1>x, <2>2 DEF EditorState
    <3> QED BY <1>9, <3>1 DEF ReadRoutes
  <2> QED BY <1>9, <2>3 DEF ReadRoutes, ghostVars, streamVars, pubVars, linkVars
<1>10. CASE SendTable(e)
  <2>1. last' \in Message
    BY <1>10, PublishedIsMessage DEF SendTable
  <2>2. ed' \in [Editor -> EditorState]
    BY <1>0, <1>10 DEF SendTable
  <2>3. chan' \in [DataPlane -> Seq(Message)]
    BY <1>10, <2>1 DEF SendTable
  <2>4. last'.version \in Nat
    BY <2>1 DEF Message
  <2>5. handed' \in [DataPlane -> Nat]
    BY <1>10, <2>4 DEF SendTable, Larger
  <2> QED BY <1>10, <2>1, <2>2, <2>3, <2>5 DEF SendTable, ghostVars, linkVars
<1> QED BY <1>1, <1>2, <1>4, <1>5, <1>6, <1>7, <1>8, <1>9, <1>10 DEF EditorStep

LEMMA StreamTypeStep ==
  ASSUME RoutesTypeInv, StoreInv, NEW d \in DataPlane,
         StreamStep(d) \/ Break(d) \/ DPRestart(d)
  PROVE  RoutesTypeInv'
<1> USE DEF RoutesTypeInv
<1>a. storeVars' = storeVars => /\ mem' = mem /\ history' = history
                                /\ ed' = ed /\ fd' = fd
  BY DEF storeVars, ghostVars
<1>b. pubVars' = pubVars => /\ last' = last /\ subs' = subs
                            /\ chan' = chan /\ handed' = handed
  BY DEF pubVars
<1>1. CASE Connect(d)
  <2>1. (IF last = NoTable THEN <<>> ELSE <<last>>) \in Seq(Message)
    OBVIOUS
  <2>2. (IF last = NoTable THEN 0 ELSE last.version) \in Nat
    BY DEF Message
  <2>3. wire' \in [DataPlane -> Seq(Message)] /\ handed' \in [DataPlane -> Nat]
    BY <1>1, <2>1, <2>2 DEF Connect
  <2>4. chan' \in [DataPlane -> Seq(Message)]
    BY <1>1 DEF Connect
  <2> QED BY <1>a, <1>1, <2>3, <2>4 DEF Connect
<1>2. CASE Forward(d)
  <2>1. <<Head(chan[d])>> \in Seq(Message) /\ Tail(chan[d]) \in Seq(Message)
    BY <1>2, RangeOfQueue DEF Forward
  <2> QED BY <1>a, <1>2, <2>1 DEF Forward
<1>3. CASE Receive(d)
  <2> DEFINE m == Head(wire[d])
  <2>1. m \in Message /\ Tail(wire[d]) \in Seq(Message)
    BY <1>3, RangeOfQueue DEF Receive
  <2>2. dp' = [dp EXCEPT ![d] = IF Newer(@, m)
                                THEN [m EXCEPT !.routes = LocalTable(@)] ELSE @]
    BY <1>3 DEF Receive
  <2> HIDE DEF m
  <2>3. [m EXCEPT !.routes = LocalTable(@)] \in Held
    BY <2>1 DEF Message, Held, Locals
  <2>4. dp' \in [DataPlane -> Held]
    BY <2>2, <2>3
  <2> QED BY <1>a, <1>b, <1>3, <2>1, <2>4 DEF Receive
<1>4. CASE Hangup(d)
  BY <1>a, <1>b, <1>4 DEF Hangup
<1>5. CASE Break(d)
  BY <1>a, <1>5 DEF Break
<1>6. CASE DPRestart(d)
  <2>1. Nothing \in Held
    BY DEF Nothing, Held
  <2> QED BY <1>a, <1>6, <2>1 DEF DPRestart
<1> QED BY <1>1, <1>2, <1>3, <1>4, <1>5, <1>6 DEF StreamStep

LEMMA RestartTypeStep ==
  ASSUME RoutesTypeInv, StoreInv, CPRestart
  PROVE  RoutesTypeInv'
<1>1. mem' \in [routes : Table \cup {<<>>}, version : Nat]
  BY LoadedFacts DEF CPRestart
<1>2. history' \in Seq(Table)
  BY LoadedFacts, HistoryCut DEF CPRestart
<1>3. Idle \in EditorState
  BY DEF Idle, EditorState
<1>4. conn' \in [DataPlane -> {"down", "open", "broken"}]
  BY DEF CPRestart, RoutesTypeInv
<1> QED BY <1>1, <1>2, <1>3, <1>4 DEF CPRestart, RoutesTypeInv

-----------------------------------------------------------------------------
(* The store *)

(* What was set or covered stays so when the history grows. *)
LEMMA StaysSet ==
  ASSUME RoutesTypeInv, NEW t \in Table,
         history' = Append(history, t) \/ history' = history
  PROVE  /\ \A x : WasSet(x) => /\ x \in Snapshot /\ x.version \in 1..Len(history')
                                /\ x.routes = history'[x.version]
         /\ \A m : Covered(m) =>
              /\ m.version \in 1..Len(history')
              /\ \E v \in m.version..Len(history') : m.routes = WireTable(history'[v])
         /\ \A m : CoveredHere(m) =>
              /\ m.version \in 1..Len(history')
              /\ \E v \in m.version..Len(history') : m.routes = Local(history'[v])
<1>1. /\ Len(history) \in Nat /\ Len(history') \in Nat /\ Len(history) <= Len(history')
      /\ \A v \in 1..Len(history) : history'[v] = history[v]
  BY HistoryGrows DEF RoutesTypeInv
<1>2. ASSUME NEW x, WasSet(x)
      PROVE  /\ x \in Snapshot /\ x.version \in 1..Len(history')
             /\ x.routes = history'[x.version]
  BY <1>1, <1>2 DEF WasSet
<1>3. ASSUME NEW m, Covered(m)
      PROVE  /\ m.version \in 1..Len(history')
             /\ \E v \in m.version..Len(history') : m.routes = WireTable(history'[v])
  <2>1. PICK v \in m.version..Len(history) : m.routes = WireTable(history[v])
    BY <1>3 DEF Covered
  <2>2. m.version \in 1..Len(history)
    BY <1>3 DEF Covered
  <2>3. v \in m.version..Len(history') /\ history'[v] = history[v]
    BY <1>1, <2>2
  <2> QED BY <1>1, <2>1, <2>2, <2>3
<1>4. ASSUME NEW m, CoveredHere(m)
      PROVE  /\ m.version \in 1..Len(history')
             /\ \E v \in m.version..Len(history') : m.routes = Local(history'[v])
  <2>1. PICK v \in m.version..Len(history) : m.routes = Local(history[v])
    BY <1>4 DEF CoveredHere
  <2>2. m.version \in 1..Len(history)
    BY <1>4 DEF CoveredHere
  <2>3. v \in m.version..Len(history') /\ history'[v] = history[v]
    BY <1>1, <2>2
  <2> QED BY <1>1, <2>1, <2>2, <2>3
<1> QED BY <1>2, <1>3, <1>4

(* What StoreInv says of one editor. *)
EditorGood(e) ==
  /\ ed[e].step # "idle" => Len(history) >= 1
  /\ ed[e].step \in {"save", "write"} => WasSet(ed[e].snapshot)
  /\ ed[e].step \in {"write", "rename"} => tmp \in {Absent, Empty, Torn} \/ WasSet(tmp)
  /\ ed[e].step = "routes" => ed[e].version \in 1..Len(history)
  /\ ed[e].step = "send" => Covered(ed[e])

LEMMA StoreInvParts ==
  StoreInv <=> /\ mem.version = Len(history)
               /\ mem.version = 0 => mem.routes = <<>>
               /\ mem.version # 0 => mem.routes = history[mem.version]
               /\ file \in {Absent, Empty, Torn} \/ WasSet(file)
               /\ \A e \in Editor : EditorGood(e)
BY DEF StoreInv, EditorGood

LEMMA EditorStoreStep ==
  ASSUME RoutesTypeInv, StoreInv, NEW e \in Editor,
         EditorStep(e) \/ SaveFails(e) \/ \E t \in Table : Set(e, t)
  PROVE  StoreInv'
<1>a. /\ mem.version = Len(history) /\ Len(history) \in Nat
      /\ mem.version = 0 => mem.routes = <<>>
      /\ mem.version # 0 => mem.routes = history[mem.version]
      /\ file \in {Absent, Empty, Torn} \/ WasSet(file)
      /\ \A f \in Editor : EditorGood(f)
      /\ \A f \in Editor : ed[f] \in EditorState
      /\ ed = [f \in Editor |-> ed[f]]
  BY StoreInvParts DEF RoutesTypeInv
<1>b. ASSUME history' = history, mem' = mem,
             file' \in {Absent, Empty, Torn} \/ WasSet(file'),
             \A f \in Editor \ {e} : EditorGood(f)', EditorGood(e)'
      PROVE  StoreInv'
  BY <1>a, <1>b DEF StoreInv, EditorGood, WasSet
<1>c. ASSUME history' = history, \A f \in Editor \ {e} : ed'[f] = ed[f],
             tmp' \in {Absent, Empty, Torn} \/ WasSet(tmp') \/ tmp' = tmp
      PROVE  \A f \in Editor \ {e} : EditorGood(f)'
  BY <1>a, <1>c DEF EditorGood, WasSet, Covered
<1>1. ASSUME NEW t \in Table, Set(e, t) PROVE StoreInv'
  <2>1. history' = Append(history, t) /\ mem' = [routes |-> t, version |-> mem.version + 1]
    BY <1>1 DEF Set
  <2>2. /\ Len(history') = Len(history) + 1 /\ history'[Len(history) + 1] = t
    BY <2>1, HistoryGrows
  <2>3. mem'.version = Len(history') /\ mem'.version # 0 /\ mem'.routes = history'[mem'.version]
    BY <1>a, <2>1, <2>2
  <2>4. file' \in {Absent, Empty, Torn} \/ WasSet(file)'
    BY <1>a, <1>1, <2>1, StaysSet DEF Set, WasSet
  <2>5. EditorGood(e)'
    <3>1. ed'[e].step = "save" /\ ed'[e].snapshot = mem'
      BY <1>a, <1>1 DEF Set, EditorState
    <3>2. mem' \in Snapshot
      BY <1>a, <2>1 DEF Snapshot
    <3> QED BY <1>a, <2>2, <2>3, <3>1, <3>2 DEF EditorGood, WasSet
  <2>6. ASSUME NEW f \in Editor \ {e} PROVE EditorGood(f)'
    <3>1. ed'[f] = ed[f] /\ tmp' = tmp
      BY <1>a, <1>1 DEF Set
    <3>2. EditorGood(f) /\ Len(history') >= Len(history)
      BY <1>a, <2>2
    <3>3. \A x : WasSet(x) => /\ x \in Snapshot /\ x.version \in 1..Len(history')
                               /\ x.routes = history'[x.version]
      BY <2>1, StaysSet
    <3>4. \A m : Covered(m) =>
            /\ m.version \in 1..Len(history')
            /\ \E v \in m.version..Len(history') : m.routes = WireTable(history'[v])
      BY <2>1, StaysSet
    <3>5. /\ ed[f].step \in {"save", "write"} => WasSet(ed[f].snapshot)'
          /\ ed[f].step \in {"write", "rename"} =>
               tmp \in {Absent, Empty, Torn} \/ WasSet(tmp)'
      BY <3>1, <3>2, <3>3 DEF EditorGood, WasSet
    <3>6. ed[f].step = "send" => Covered(ed[f])'
      BY <3>1, <3>2, <3>4 DEF EditorGood, Covered
    <3>7. /\ ed[f].step # "idle" => Len(history') >= 1
          /\ ed[f].step = "routes" => ed[f].version \in 1..Len(history')
      BY <1>a, <2>2, <3>2 DEF EditorGood
    <3> QED BY <3>1, <3>5, <3>6, <3>7 DEF EditorGood, WasSet, Covered
  <2> QED BY <2>3, <2>4, <2>5, <2>6 DEF StoreInv, EditorGood
<1>2. CASE SaveFails(e)
  <2>1. ed'[e] = Idle /\ \A f \in Editor \ {e} : ed'[f] = ed[f]
    BY <1>a, <1>2 DEF SaveFails
  <2>2. /\ history' = history /\ mem' = mem /\ file' = file /\ tmp' = tmp
    BY <1>2 DEF SaveFails
  <2>3. EditorGood(e)'
    BY <2>1 DEF EditorGood, Idle
  <2> QED BY <1>a, <1>b, <1>c, <2>1, <2>2, <2>3
<1>3. CASE OpenTmp(e)
  <2>1. /\ ed'[e] = [ed[e] EXCEPT !.step = "write"] /\ ed[e].step = "save"
        /\ \A f \in Editor \ {e} : ed'[f] = ed[f]
    BY <1>a, <1>3 DEF OpenTmp, GoTo
  <2>2. history' = history /\ mem' = mem /\ file' = file /\ tmp' = Empty
    BY <1>3 DEF OpenTmp, ghostVars
  <2>3. ed'[e].step = "write" /\ ed'[e].snapshot = ed[e].snapshot
    BY <1>a, <2>1 DEF EditorState
  <2>4. EditorGood(e)'
    BY <1>a, <2>1, <2>2, <2>3 DEF EditorGood, WasSet
  <2> QED BY <1>a, <1>b, <1>c, <2>1, <2>2, <2>4
<1>4. CASE WriteTmp(e)
  <2>1. /\ ed'[e] = [ed[e] EXCEPT !.step = "rename"] /\ ed[e].step = "write"
        /\ \A f \in Editor \ {e} : ed'[f] = ed[f]
    BY <1>a, <1>4 DEF WriteTmp, GoTo
  <2>2. history' = history /\ mem' = mem
    BY <1>4 DEF WriteTmp, ghostVars
  <2>3. /\ file' = file \/ file' = Torn \/ file' = ed[e].snapshot
        /\ tmp' = tmp \/ tmp' = Torn \/ tmp' = ed[e].snapshot
    BY <1>4 DEF WriteTmp, Overwritten
  <2>4. WasSet(ed[e].snapshot) /\ (tmp \in {Absent, Empty, Torn} \/ WasSet(tmp))
    BY <1>a, <2>1 DEF EditorGood
  <2>5. ed'[e].step = "rename"
    BY <1>a, <2>1 DEF EditorState
  <2>6. /\ tmp' \in {Absent, Empty, Torn} \/ WasSet(tmp')
        /\ file' \in {Absent, Empty, Torn} \/ WasSet(file')
    BY <1>a, <2>3, <2>4
  <2>7. EditorGood(e)'
    BY <1>a, <2>1, <2>2, <2>5, <2>6 DEF EditorGood, WasSet
  <2> QED BY <1>b, <1>c, <2>1, <2>2, <2>6, <2>7
<1>5. CASE Rename(e)
  <2>1. /\ history' = history /\ mem' = mem /\ ed[e].step = "rename"
        /\ \A f \in Editor \ {e} : ed'[f] = ed[f]
    BY <1>a, <1>5 DEF Rename, GoTo
  <2>2. tmp \in {Absent, Empty, Torn} \/ WasSet(tmp)
    BY <1>a, <2>1 DEF EditorGood
  <2>3. /\ file' \in {Absent, Empty, Torn} \/ WasSet(file')
        /\ tmp' = Absent
    BY <1>a, <1>5, <2>2 DEF Rename
  <2>4. ed'[e] = Idle \/ ed'[e] = [ed[e] EXCEPT !.step = "version"]
    BY <1>a, <1>5 DEF Rename, GoTo
  <2>5. ed'[e].step \in {"idle", "version"}
    BY <1>a, <2>4 DEF EditorState, Idle
  <2>6. EditorGood(e)'
    BY <1>a, <2>1, <2>5 DEF EditorGood
  <2> QED BY <1>b, <1>c, <2>1, <2>3, <2>6
<1>6. CASE Upsert(e)
  <2>1. /\ ed'[e] = [ed[e] EXCEPT !.step = "version"] /\ ed[e].step = "save"
        /\ \A f \in Editor \ {e} : ed'[f] = ed[f]
    BY <1>a, <1>6 DEF Upsert, GoTo
  <2>2. history' = history /\ mem' = mem /\ file' = ed[e].snapshot /\ tmp' = tmp
    BY <1>6 DEF Upsert, ghostVars
  <2>3. WasSet(file') /\ ed'[e].step = "version"
    BY <1>a, <2>1, <2>2 DEF EditorGood, EditorState
  <2>4. EditorGood(e)'
    BY <1>a, <2>1, <2>2, <2>3 DEF EditorGood
  <2> QED BY <1>b, <1>c, <2>1, <2>2, <2>3, <2>4
<1>7. CASE ReadVersion(e)
  <2>1. /\ ed'[e] = [ed[e] EXCEPT !.version = mem.version, !.step = "routes"]
        /\ ed[e].step = "version" /\ \A f \in Editor \ {e} : ed'[f] = ed[f]
    BY <1>a, <1>7 DEF ReadVersion
  <2>2. history' = history /\ mem' = mem /\ file' = file /\ tmp' = tmp
    BY <1>7 DEF ReadVersion, ghostVars
  <2>3. ed'[e].step = "routes" /\ ed'[e].version = mem.version
    BY <1>a, <2>1 DEF EditorState
  <2>4. EditorGood(e)'
    BY <1>a, <2>1, <2>2, <2>3 DEF EditorGood
  <2> QED BY <1>a, <1>b, <1>c, <2>1, <2>2, <2>4
<1>8. CASE ReadRoutes(e)
  <2>1. /\ ed'[e] = [ed[e] EXCEPT !.routes = WireTable(mem.routes), !.step = "send"]
        /\ ed[e].step = "routes" /\ \A f \in Editor \ {e} : ed'[f] = ed[f]
    BY <1>a, <1>8 DEF ReadRoutes
  <2>2. history' = history /\ mem' = mem /\ file' = file /\ tmp' = tmp
    BY <1>8 DEF ReadRoutes, ghostVars
  <2>3. /\ ed'[e].step = "send" /\ ed'[e].version = ed[e].version
        /\ ed'[e].routes = WireTable(mem.routes)
    BY <1>a, <2>1 DEF EditorState
  <2>4. ed[e].version \in 1..Len(history) /\ mem.routes = history[Len(history)]
    BY <1>a, <2>1 DEF EditorGood
  <2>5. Covered(ed[e])'
    BY <1>a, <2>2, <2>3, <2>4 DEF Covered
  <2>6. EditorGood(e)'
    BY <1>a, <2>2, <2>3, <2>4, <2>5 DEF EditorGood
  <2> QED BY <1>a, <1>b, <1>c, <2>1, <2>2, <2>6
<1>9. CASE SendTable(e)
  <2>1. ed'[e] = Idle /\ \A f \in Editor \ {e} : ed'[f] = ed[f]
    BY <1>a, <1>9 DEF SendTable
  <2>2. history' = history /\ mem' = mem /\ file' = file /\ tmp' = tmp
    BY <1>9 DEF SendTable, ghostVars
  <2>3. EditorGood(e)'
    BY <2>1 DEF EditorGood, Idle
  <2> QED BY <1>a, <1>b, <1>c, <2>1, <2>2, <2>3
<1> QED BY <1>1, <1>2, <1>3, <1>4, <1>5, <1>6, <1>7, <1>8, <1>9 DEF EditorStep

LEMMA RestartStoreStep ==
  ASSUME RoutesTypeInv, StoreInv, CPRestart
  PROVE  StoreInv'
<1>1. /\ mem' = Loaded /\ history' = SubSeq(history, 1, Loaded.version)
      /\ file' = file /\ \A e \in Editor : ed'[e].step = "idle"
  BY DEF CPRestart, Idle
<1>2. /\ Len(history') = Loaded.version
      /\ \A v \in 1..Loaded.version : history'[v] = history[v]
  BY <1>1, LoadedFacts, HistoryCut
<1>3. /\ Loaded.version \in Nat
      /\ Loaded.version = 0 => mem'.routes = <<>>
      /\ Loaded.version # 0 => mem'.routes = history'[Loaded.version]
  BY <1>1, <1>2, LoadedFacts
<1>4. file' \in {Absent, Empty, Torn} \/ WasSet(file)'
  <2>1. CASE file \in {Absent, Empty, Torn}
    BY <1>1, <2>1
  <2>2. CASE file \notin {Absent, Empty, Torn}
    <3>1. WasSet(file) /\ Loaded = file
      BY <2>2 DEF StoreInv, Loaded
    <3> QED BY <1>1, <1>2, <1>3, <3>1 DEF WasSet
  <2> QED BY <2>1, <2>2
<1> QED BY <1>1, <1>2, <1>3, <1>4 DEF StoreInv

-----------------------------------------------------------------------------
(* What is published *)

(* What PublishedInv says of one data plane. *)
StreamGood(d) ==
  /\ \A m \in Range(chan[d]) : Covered(m) /\ m.epoch = epoch
  /\ \A m \in Range(wire[d]) : m.epoch <= epoch /\ (m.epoch = epoch => Covered(m))
  /\ dp[d].epoch <= epoch
  /\ dp[d].epoch = epoch => CoveredHere(dp[d])
  /\ dp[d].epoch = 0 => dp[d] = Nothing

LEMMA EditorPublishedStep ==
  ASSUME RoutesTypeInv, StoreInv, PublishedInv, NEW e \in Editor,
         EditorStep(e) \/ SaveFails(e) \/ \E t \in Table : Set(e, t)
  PROVE  PublishedInv'
<1>1. CASE SendTable(e)
  <2>1. /\ history' = history /\ epoch' = epoch /\ wire' = wire /\ dp' = dp
        /\ last' = Published(e)
    BY <1>1 DEF SendTable, ghostVars, linkVars
  <2>2. Covered(Published(e)) /\ Published(e).epoch = epoch
    BY <1>1 DEF SendTable, StoreInv, Published, Covered
  <2>3. Published(e) \in Message
    BY <1>1, PublishedIsMessage DEF SendTable
  <2>4. ASSUME NEW d \in DataPlane
        PROVE  \A m \in Range(chan'[d]) : Covered(m) /\ m.epoch = epoch
    <3>1. \A m \in Range(chan[d]) : Covered(m) /\ m.epoch = epoch
      BY DEF PublishedInv
    <3>2. chan'[d] = chan[d] \/ chan'[d] = Append(chan[d], Published(e))
      BY <1>1, <2>1 DEF SendTable
    <3>3. chan[d] \in Seq(Message)
      BY DEF RoutesTypeInv
    <3>4. Range(Append(chan[d], Published(e))) = Range(chan[d]) \cup {Published(e)}
      <4> DEFINE s == chan[d]
                 p == Published(e)
      <4>1. s \in Seq(Message) /\ p \in Message
        BY <2>3, <3>3
      <4> HIDE DEF s, p
      <4>2. Range(Append(s, p)) = Range(s) \cup {p}
        BY <4>1, RangeAppend
      <4> QED BY <4>2 DEF s, p
    <3> QED BY <2>2, <3>1, <3>2, <3>4
  <2> QED BY <2>1, <2>2, <2>4 DEF PublishedInv, Covered, CoveredHere
<1>2. CASE ~SendTable(e)
  <2>1. /\ last' = last /\ chan' = chan /\ wire' = wire /\ dp' = dp /\ epoch' = epoch
    BY <1>2 DEF EditorStep, OpenTmp, WriteTmp, Rename, Upsert, ReadVersion, ReadRoutes,
                SaveFails, Set, streamVars, pubVars, linkVars
  <2>2. PICK t \in Table \cup {<<>>} :
          history' = history \/ (t \in Table /\ history' = Append(history, t))
    <3>1. history' = history \/ \E t \in Table : history' = Append(history, t)
      BY <1>2 DEF EditorStep, OpenTmp, WriteTmp, Rename, Upsert, ReadVersion, ReadRoutes,
                  SaveFails, Set, ghostVars
    <3> QED BY <3>1
  <2>3. CASE history' = history
    BY <2>1, <2>3 DEF PublishedInv, Covered, CoveredHere
  <2>4. CASE t \in Table /\ history' = Append(history, t)
    <3>1. \A m : Covered(m) =>
            /\ m.version \in 1..Len(history')
            /\ \E v \in m.version..Len(history') : m.routes = WireTable(history'[v])
      BY <2>4, StaysSet
    <3>2. \A m : CoveredHere(m) =>
            /\ m.version \in 1..Len(history')
            /\ \E v \in m.version..Len(history') : m.routes = Local(history'[v])
      BY <2>4, StaysSet
    <3>3. last' # NoTable => Covered(last)' /\ last'.epoch = epoch'
      BY <2>1, <3>1 DEF PublishedInv, Covered
    <3>4. ASSUME NEW d \in DataPlane PROVE StreamGood(d)'
      <4>1. StreamGood(d)
        BY DEF PublishedInv, StreamGood
      <4>2. \A m \in Range(chan'[d]) : Covered(m)' /\ m.epoch = epoch'
        BY <2>1, <3>1, <4>1 DEF StreamGood, Covered
      <4>3. \A m \in Range(wire'[d]) :
               m.epoch <= epoch' /\ (m.epoch = epoch' => Covered(m)')
        BY <2>1, <3>1, <4>1 DEF StreamGood, Covered
      <4>4. dp'[d].epoch = epoch' => CoveredHere(dp[d])'
        BY <2>1, <3>2, <4>1 DEF StreamGood, CoveredHere
      <4> QED BY <2>1, <4>1, <4>2, <4>3, <4>4 DEF StreamGood
    <3> QED BY <3>3, <3>4 DEF PublishedInv, StreamGood
  <2> QED BY <2>2, <2>3, <2>4
<1> QED BY <1>1, <1>2

(* A step of a stream leaves the history and the last table alone. *)
LEMMA StreamPublishedStep ==
  ASSUME RoutesTypeInv, PublishedInv, NEW d \in DataPlane,
         StreamStep(d) \/ Break(d) \/ DPRestart(d)
  PROVE  PublishedInv'
<1>a. /\ history' = history /\ epoch' = epoch /\ last' = last
      /\ \A c \in DataPlane \ {d} : chan'[c] = chan[c] /\ wire'[c] = wire[c] /\ dp'[c] = dp[c]
  BY DEF StreamStep, Connect, Forward, Receive, Hangup, Break, DPRestart, storeVars,
         ghostVars, pubVars, RoutesTypeInv
<1>b. \A c \in DataPlane : StreamGood(c)
  BY DEF PublishedInv, StreamGood
<1>c. /\ last # NoTable => Covered(last) /\ last.epoch = epoch
      /\ epoch \in Nat \ {0}
  BY DEF PublishedInv, RoutesTypeInv
<1>d. Range(<<>>) = {} /\ \A m : Range(<<m>>) = {m}
  BY DEF Range
<1>e. ASSUME \A m \in Range(chan'[d]) : Covered(m) /\ m.epoch = epoch,
             \A m \in Range(wire'[d]) : m.epoch <= epoch /\ (m.epoch = epoch => Covered(m)),
             dp'[d].epoch <= epoch,
             dp'[d].epoch = epoch => CoveredHere(dp'[d]),
             dp'[d].epoch = 0 => dp'[d] = Nothing
      PROVE  PublishedInv'
  <2>1. StreamGood(d)'
    BY <1>a, <1>e DEF StreamGood, Covered, CoveredHere
  <2>2. \A c \in DataPlane \ {d} : StreamGood(c)'
    BY <1>a, <1>b DEF StreamGood, Covered, CoveredHere
  <2>3. last' # NoTable => Covered(last)' /\ last'.epoch = epoch'
    BY <1>a, <1>c DEF Covered
  <2> QED BY <2>1, <2>2, <2>3 DEF PublishedInv, StreamGood
<1>1. CASE Connect(d)
  <2>1. /\ chan'[d] = <<>> /\ dp' = dp
        /\ wire'[d] = IF last = NoTable THEN <<>> ELSE <<last>>
    BY <1>1 DEF Connect, RoutesTypeInv
  <2> QED BY <1>b, <1>c, <1>d, <1>e, <2>1 DEF StreamGood
<1>2. CASE Forward(d)
  <2>1. /\ chan'[d] = Tail(chan[d]) /\ wire'[d] = <<Head(chan[d])>> /\ dp' = dp
        /\ chan[d] # <<>> /\ chan[d] \in Seq(Message)
    BY <1>2 DEF Forward, RoutesTypeInv
  <2>2. Range(chan[d]) = {Head(chan[d])} \cup Range(Tail(chan[d]))
    BY <2>1, RangeOfQueue
  <2> QED BY <1>b, <1>c, <1>d, <1>e, <2>1, <2>2 DEF StreamGood
<1>3. CASE Receive(d)
  <2> DEFINE m == Head(wire[d])
  <2>1. /\ chan' = chan /\ wire'[d] = Tail(wire[d])
        /\ wire[d] # <<>> /\ wire[d] \in Seq(Message)
    BY <1>3 DEF Receive, RoutesTypeInv, pubVars
  <2>2. Range(wire[d]) = {m} \cup Range(Tail(wire[d])) /\ m \in Message
    BY <2>1, RangeOfQueue
  <2>3. dp'[d] = dp[d] \/ dp'[d] = [m EXCEPT !.routes = LocalTable(@)]
    BY <1>3 DEF Receive, RoutesTypeInv
  <2> HIDE DEF m
  <2>4. CASE dp'[d] = dp[d]
    BY <1>b, <1>e, <2>1, <2>2, <2>4 DEF StreamGood
  <2>5. CASE dp'[d] = [m EXCEPT !.routes = LocalTable(@)]
    <3>1. /\ dp'[d].version = m.version /\ dp'[d].epoch = m.epoch
          /\ dp'[d].routes = LocalTable(m.routes) /\ m.epoch # 0
      BY <2>2, <2>5 DEF Message
    <3>2. m.epoch <= epoch /\ (m.epoch = epoch => Covered(m))
      BY <1>b, <2>2 DEF StreamGood
    <3>3. dp'[d].epoch = epoch => CoveredHere(dp'[d])
      BY <3>1, <3>2 DEF Covered, CoveredHere, Local
    <3> QED BY <1>b, <1>e, <2>1, <2>2, <3>1, <3>2, <3>3 DEF StreamGood
  <2> QED BY <2>3, <2>4, <2>5
<1>4. CASE Hangup(d)
  <2>1. chan' = chan /\ wire'[d] = <<>> /\ dp' = dp
    BY <1>4 DEF Hangup, RoutesTypeInv, pubVars
  <2> QED BY <1>b, <1>d, <1>e, <2>1 DEF StreamGood
<1>5. CASE Break(d)
  <2>1. chan'[d] = <<>> /\ wire' = wire /\ dp' = dp
    BY <1>5 DEF Break, RoutesTypeInv
  <2> QED BY <1>b, <1>d, <1>e, <2>1 DEF StreamGood
<1>6. CASE DPRestart(d)
  <2>1. chan'[d] = <<>> /\ wire'[d] = <<>> /\ dp'[d] = Nothing
    BY <1>6 DEF DPRestart, RoutesTypeInv
  <2> QED BY <1>c, <1>d, <1>e, <2>1 DEF Nothing
<1> QED BY <1>1, <1>2, <1>3, <1>4, <1>5, <1>6 DEF StreamStep

LEMMA RestartPublishedStep ==
  ASSUME RoutesTypeInv, PublishedInv, CPRestart
  PROVE  PublishedInv'
<1>1. /\ last' = NoTable /\ epoch' = epoch + 1 /\ wire' = wire /\ dp' = dp
      /\ chan' = [d \in DataPlane |-> <<>>]
  BY DEF CPRestart
<1>2. Range(<<>>) = {} /\ epoch \in Nat
  BY DEF Range, RoutesTypeInv
<1>3. ASSUME NEW d \in DataPlane PROVE StreamGood(d)'
  <2>1. StreamGood(d) /\ dp[d].epoch \in Nat
    BY DEF PublishedInv, StreamGood, RoutesTypeInv, Held
  <2>2. \A m \in Range(wire[d]) : m.epoch \in Nat
    <3>1. wire[d] \in Seq(Message)
      BY DEF RoutesTypeInv
    <3>2. \A m \in Range(wire[d]) : m \in Message
      BY <3>1 DEF Range
    <3> QED BY <3>2 DEF Message
  <2>3. \A m \in Range(wire[d]) : m.epoch < epoch'
    BY <1>1, <1>2, <2>1, <2>2 DEF StreamGood
  <2>4. dp[d].epoch < epoch'
    BY <1>1, <1>2, <2>1 DEF StreamGood
  <2> QED BY <1>1, <1>2, <2>1, <2>2, <2>3, <2>4 DEF StreamGood
<1> QED BY <1>1, <1>3 DEF PublishedInv, StreamGood

-----------------------------------------------------------------------------
(* What streams were handed *)

LEMMA SendHandedStep ==
  ASSUME RoutesTypeInv, StoreInv, HandedInv, NEW e \in Editor, SendTable(e)
  PROVE  HandedInv'
<1> DEFINE p == Published(e)
<1>1. /\ last' = p /\ conn' = conn /\ wire' = wire /\ dp' = dp
  BY DEF SendTable, linkVars
<1>2. p \in Message
  BY PublishedIsMessage DEF SendTable
<1>3. ASSUME NEW d \in DataPlane
      PROVE  \/ chan'[d] = chan[d] /\ handed'[d] = handed[d]
             \/ /\ chan'[d] = Append(chan[d], p)
                /\ handed'[d] = Larger(handed[d], p.version)
  BY DEF SendTable
<1> HIDE DEF p
<1>4. ASSUME NEW d \in DataPlane, conn[d] = "open"
      PROVE  \/ dp'[d].version >= handed'[d]
             \/ \E m \in Range(wire'[d]) \cup Range(chan'[d]) : m.version = handed'[d]
  <2>1. \/ dp[d].version >= handed[d]
        \/ \E m \in Range(wire[d]) \cup Range(chan[d]) : m.version = handed[d]
    BY <1>4 DEF HandedInv, InTransit
  <2>2. CASE chan'[d] = chan[d] /\ handed'[d] = handed[d]
    BY <1>1, <2>1, <2>2
  <2>3. CASE /\ chan'[d] = Append(chan[d], p)
             /\ handed'[d] = Larger(handed[d], p.version)
    <3>1. chan[d] \in Seq(Message) /\ handed[d] \in Nat /\ p.version \in Nat
      BY <1>2 DEF RoutesTypeInv, Message
    <3>2. Range(chan'[d]) = Range(chan[d]) \cup {p}
      <4> DEFINE s == chan[d]
      <4>1. s \in Seq(Message)
        BY <3>1
      <4> HIDE DEF s
      <4>2. Range(Append(s, p)) = Range(s) \cup {p}
        BY <1>2, <4>1, RangeAppend
      <4> QED BY <2>3, <4>2 DEF s
    <3>3. handed'[d] = handed[d] \/ handed'[d] = p.version
      BY <2>3 DEF Larger
    <3> QED BY <1>1, <2>1, <3>2, <3>3
  <2> QED BY <1>3, <2>2, <2>3
<1> QED BY <1>1, <1>4 DEF HandedInv, InTransit

LEMMA StreamHandedStep ==
  ASSUME RoutesTypeInv, HandedInv, NEW d \in DataPlane,
         StreamStep(d) \/ Break(d) \/ DPRestart(d)
  PROVE  HandedInv'
<1> DEFINE Good(c) == conn[c] = "open" =>
             \/ dp[c].version >= handed[c]
             \/ \E m \in Range(wire[c]) \cup Range(chan[c]) : m.version = handed[c]
<1>a. \A c \in DataPlane \ {d} :
        /\ chan'[c] = chan[c] /\ wire'[c] = wire[c] /\ dp'[c] = dp[c]
        /\ conn'[c] = conn[c] /\ handed'[c] = handed[c]
  BY DEF StreamStep, Connect, Forward, Receive, Hangup, Break, DPRestart, pubVars,
         RoutesTypeInv
<1>b. \A c \in DataPlane : Good(c)
  BY DEF HandedInv, InTransit
<1>c. ASSUME Good(d)' PROVE HandedInv'
  <2>1. \A c \in DataPlane \ {d} : Good(c)'
    BY <1>a, <1>b
  <2> QED BY <1>c, <2>1 DEF HandedInv, InTransit
<1>d. Range(<<>>) = {} /\ \A m : Range(<<m>>) = {m}
  BY DEF Range
<1>1. CASE Connect(d)
  <2>1. /\ wire'[d] = IF last = NoTable THEN <<>> ELSE <<last>>
        /\ handed'[d] = IF last = NoTable THEN 0 ELSE last.version
        /\ dp' = dp /\ dp[d].version \in Nat
    BY <1>1 DEF Connect, RoutesTypeInv, Held
  <2>2. CASE last = NoTable
    <3>1. handed'[d] = 0 /\ dp'[d].version >= 0
      BY <2>1, <2>2
    <3> QED BY <1>c, <3>1
  <2>3. CASE last # NoTable
    <3>1. last \in Range(wire'[d]) /\ last.version = handed'[d]
      BY <1>d, <2>1, <2>3
    <3> QED BY <1>c, <3>1
  <2> QED BY <2>2, <2>3
<1>2. CASE Forward(d)
  <2>1. /\ chan'[d] = Tail(chan[d]) /\ wire'[d] = <<Head(chan[d])>> /\ wire[d] = <<>>
        /\ dp' = dp /\ handed' = handed /\ conn' = conn
        /\ chan[d] # <<>> /\ chan[d] \in Seq(Message)
    BY <1>2 DEF Forward, RoutesTypeInv
  <2>2. Range(chan[d]) = {Head(chan[d])} \cup Range(Tail(chan[d]))
    BY <2>1, RangeOfQueue
  <2>3. Good(d)'
    BY <1>b, <1>d, <2>1, <2>2
  <2> QED BY <1>c, <2>3
<1>3. CASE Receive(d)
  <2> DEFINE m == Head(wire[d])
  <2>1. /\ chan' = chan /\ handed' = handed /\ conn' = conn
        /\ wire'[d] = Tail(wire[d]) /\ wire[d] # <<>> /\ wire[d] \in Seq(Message)
    BY <1>3 DEF Receive, RoutesTypeInv, pubVars
  <2>2. Range(wire[d]) = {m} \cup Range(Tail(wire[d])) /\ m \in Message
    BY <2>1, RangeOfQueue
  <2>3. dp'[d] = IF Newer(dp[d], m) THEN [m EXCEPT !.routes = LocalTable(@)] ELSE dp[d]
    BY <1>3 DEF Receive, RoutesTypeInv
  <2> HIDE DEF m
  <2>4. m.version \in Nat /\ dp[d].version \in Nat /\ handed[d] \in Nat
    BY <2>2 DEF Message, RoutesTypeInv, Held
  <2>5. dp'[d].version >= m.version /\ dp'[d].version >= dp[d].version
    <3>1. CASE Newer(dp[d], m)
      <4>1. dp'[d].version = m.version
        BY <2>2, <2>3, <3>1 DEF Message
      <4> QED BY <2>4, <3>1, <4>1 DEF Newer
    <3>2. CASE ~Newer(dp[d], m)
      BY <2>3, <2>4, <3>2 DEF Newer
    <3> QED BY <3>1, <3>2
  <2>6. dp'[d].version \in Nat
    BY <2>2, <2>3, <2>4 DEF Message
  <2>7. Good(d)'
    <3>1. CASE conn[d] # "open"
      BY <2>1, <3>1
    <3>2. CASE dp[d].version >= handed[d]
      BY <2>1, <2>4, <2>5, <2>6, <3>2
    <3>3. ASSUME NEW x \in Range(wire[d]) \cup Range(chan[d]), x.version = handed[d]
          PROVE  Good(d)'
      <4>1. CASE x = m
        BY <2>1, <2>5, <3>3, <4>1
      <4>2. CASE x # m
        BY <2>1, <2>2, <3>3, <4>2
      <4> QED BY <4>1, <4>2
    <3> QED BY <1>b, <3>1, <3>2, <3>3
  <2> QED BY <1>c, <2>7
<1>4. CASE Hangup(d) \/ Break(d) \/ DPRestart(d)
  <2>1. conn'[d] # "open"
    BY <1>4 DEF Hangup, Break, DPRestart, RoutesTypeInv
  <2> QED BY <1>c, <2>1
<1> QED BY <1>1, <1>2, <1>3, <1>4 DEF StreamStep

LEMMA HandedStep ==
  ASSUME RoutesTypeInv, StoreInv, HandedInv, [RoutesNext]_routeVars
  PROVE  HandedInv'
<1>1. ASSUME NEW e \in Editor, EditorStep(e) \/ SaveFails(e) \/ \E t \in Table : Set(e, t),
             ~SendTable(e)
      PROVE  HandedInv'
  <2>1. conn' = conn /\ chan' = chan /\ wire' = wire /\ dp' = dp /\ handed' = handed
    BY <1>1 DEF EditorStep, OpenTmp, WriteTmp, Rename, Upsert, ReadVersion, ReadRoutes,
                SaveFails, Set, streamVars, pubVars, linkVars
  <2> QED BY <2>1 DEF HandedInv, InTransit
<1>2. CASE CPRestart
  <2>1. \A d \in DataPlane : conn'[d] # "open"
    BY <1>2 DEF CPRestart
  <2> QED BY <2>1 DEF HandedInv
<1>3. CASE UNCHANGED routeVars
  BY <1>3 DEF routeVars, pubVars, linkVars, HandedInv, InTransit
<1> QED BY <1>1, <1>2, <1>3, SendHandedStep, StreamHandedStep DEF RoutesNext

-----------------------------------------------------------------------------
(* The theorems *)

LEMMA RoutesInvInit == RoutesInit => RoutesInv
<1> SUFFICES ASSUME RoutesInit PROVE RoutesInv
  OBVIOUS
<1>1. Range(<<>>) = {} /\ <<>> \in Seq(Message) /\ <<>> \in Seq(Table) /\ Len(<<>>) = 0
  BY DEF Range
<1>2. Idle \in EditorState /\ Nothing \in Held
  BY DEF Idle, EditorState, Nothing, Held
<1>3. RoutesTypeInv
  BY <1>1, <1>2 DEF RoutesInit, RoutesTypeInv
<1>4. StoreInv
  BY <1>1 DEF RoutesInit, StoreInv, Idle
<1>5. PublishedInv
  BY <1>1 DEF RoutesInit, PublishedInv, Nothing
<1>6. HandedInv
  BY DEF RoutesInit, HandedInv
<1> QED BY <1>3, <1>4, <1>5, <1>6 DEF RoutesInv

LEMMA RoutesInvStep == RoutesInv /\ [RoutesNext]_routeVars => RoutesInv'
<1> SUFFICES ASSUME RoutesInv, [RoutesNext]_routeVars PROVE RoutesInv'
  OBVIOUS
<1>a. RoutesTypeInv /\ StoreInv /\ PublishedInv /\ HandedInv
  BY DEF RoutesInv
<1>b. HandedInv'
  BY <1>a, HandedStep
<1>1. ASSUME NEW e \in Editor, EditorStep(e) \/ SaveFails(e) \/ \E t \in Table : Set(e, t)
      PROVE  RoutesInv'
  <2>1. RoutesTypeInv' /\ StoreInv' /\ PublishedInv'
    BY <1>a, <1>1, EditorTypeStep, EditorStoreStep, EditorPublishedStep
  <2> QED BY <1>b, <2>1 DEF RoutesInv
<1>2. ASSUME NEW d \in DataPlane, StreamStep(d) \/ Break(d) \/ DPRestart(d)
      PROVE  RoutesInv'
  <2>1. RoutesTypeInv' /\ PublishedInv'
    BY <1>a, <1>2, StreamTypeStep, StreamPublishedStep
  <2>2. storeVars' = storeVars
    BY <1>2 DEF StreamStep, Connect, Forward, Receive, Hangup, Break, DPRestart
  <2>3. StoreInv'
    BY <1>a, <2>2 DEF storeVars, ghostVars, StoreInv, WasSet, Covered
  <2> QED BY <1>b, <2>1, <2>3 DEF RoutesInv
<1>3. CASE CPRestart
  <2>1. RoutesTypeInv' /\ StoreInv' /\ PublishedInv'
    BY <1>a, <1>3, RestartTypeStep, RestartStoreStep, RestartPublishedStep
  <2> QED BY <1>b, <2>1 DEF RoutesInv
<1>4. CASE UNCHANGED routeVars
  <2>1. RoutesTypeInv'
    BY <1>a, <1>4 DEF routeVars, storeVars, ghostVars, pubVars, linkVars, RoutesTypeInv
  <2>2. StoreInv'
    BY <1>a, <1>4 DEF routeVars, storeVars, ghostVars, StoreInv, WasSet, Covered
  <2>3. PublishedInv'
    BY <1>a, <1>4 DEF routeVars, storeVars, ghostVars, pubVars, linkVars, PublishedInv,
                      Covered, CoveredHere
  <2> QED BY <1>b, <2>1, <2>2, <2>3 DEF RoutesInv
<1> QED BY <1>1, <1>2, <1>3, <1>4 DEF RoutesNext

LEMMA RoutesInvHolds == RoutesSpec => []RoutesInv
BY RoutesInvInit, RoutesInvStep, PTL DEF RoutesSpec

(* THEOREM: whatever is published under a version is the table set as that *)
(* version or as a later one, because publishRoutes reads the version      *)
(* before the routes, for any overlap of edits, failures and crashes.      *)
THEOREM VersionsCoverContent == RoutesSpec => []VersionCoversContent
<1>1. RoutesInv => VersionCoversContent
  BY DEF RoutesInv, PublishedInv, Covered, VersionCoversContent
<1> QED BY <1>1, RoutesInvHolds, PTL

(* THEOREM: a data plane whose open stream was handed the store's version  *)
(* has the store's table once nothing is in flight, for any overlap of     *)
(* edits.                                                                  *)
THEOREM SubscribersAreCurrent == RoutesSpec => []SubscribersCurrent
<1>1. RoutesInv => SubscribersCurrent
  <2> SUFFICES ASSUME RoutesInv, NEW d \in DataPlane, conn[d] = "open",
                      handed[d] = mem.version, InTransit(d) = {}, dp[d].epoch \in {0, epoch}
               PROVE  dp[d].routes = Local(mem.routes)
    BY DEF SubscribersCurrent
  <2>1. /\ mem.version = Len(history) /\ Len(history) \in Nat
        /\ mem.version = 0 => mem.routes = <<>>
        /\ mem.version # 0 => mem.routes = history[mem.version]
    BY DEF RoutesInv, StoreInv, RoutesTypeInv
  <2>2. dp[d].version >= mem.version /\ dp[d].version \in Nat
    BY DEF RoutesInv, HandedInv, RoutesTypeInv, Held
  <2>3. CASE dp[d].epoch = 0
    <3>1. dp[d] = Nothing
      BY <2>3 DEF RoutesInv, PublishedInv
    <3>2. dp[d].version = 0 /\ dp[d].routes = <<>>
      BY <3>1 DEF Nothing
    <3> QED BY <2>1, <2>2, <3>2, EmptyTable
  <2>4. CASE dp[d].epoch = epoch
    <3>1. CoveredHere(dp[d])
      BY <2>4 DEF RoutesInv, PublishedInv
    <3>2. dp[d].version = Len(history) /\ Len(history) # 0
      BY <2>1, <2>2, <3>1 DEF CoveredHere
    <3> QED BY <2>1, <3>1, <3>2 DEF CoveredHere
  <2> QED BY <2>3, <2>4
<1> QED BY <1>1, RoutesInvHolds, PTL

-----------------------------------------------------------------------------
(* Edits one at a time *)

(* m is the table set as its version, and a crash does not lose that one. *)
Kept(m) ==
  m.version \in 1..Loaded.version /\ m.routes = WireTable(history[m.version])

(* While no two edits have overlapped, one editor at a time takes its      *)
(* table from the store through the file to the streams.                   *)
SerialInv ==
  /\ file \notin {Empty, Torn}
  /\ \A e, f \in Editor : ed[e].step # "idle" /\ ed[f].step # "idle" => e = f
  /\ \A e \in Editor :
       /\ fd[e] # Absent => ed[e].step = "write"
       /\ ed[e].step \in {"save", "write", "rename"} => ed[e].snapshot = mem
       /\ ed[e].step = "write" => fd[e] = "tmp" /\ tmp = Empty
       /\ ed[e].step = "rename" => tmp = mem
       /\ ed[e].step \in {"version", "routes", "send"} => file = mem
       /\ ed[e].step \in {"routes", "send"} => ed[e].version = mem.version
       /\ ed[e].step = "send" => ed[e].routes = WireTable(mem.routes)
  /\ last # NoTable => Kept(last)
  /\ \A d \in DataPlane :
       /\ \A m \in InTransit(d) : Kept(m)
       /\ \/ dp[d].version = 0 /\ dp[d].routes = <<>>
          \/ /\ dp[d].version \in 1..Loaded.version
             /\ dp[d].routes = Local(history[dp[d].version])

(* The inductive invariant, on top of the one for overlapping edits. *)
SerialRoutesInv == RoutesInv /\ (~overlap => SerialInv)

-----------------------------------------------------------------------------
(* Edits that do not overlap *)

SerialEditor(e) ==
  /\ fd[e] # Absent => ed[e].step = "write"
  /\ ed[e].step \in {"save", "write", "rename"} => ed[e].snapshot = mem
  /\ ed[e].step = "write" => fd[e] = "tmp" /\ tmp = Empty
  /\ ed[e].step = "rename" => tmp = mem
  /\ ed[e].step \in {"version", "routes", "send"} => file = mem
  /\ ed[e].step \in {"routes", "send"} => ed[e].version = mem.version
  /\ ed[e].step = "send" => ed[e].routes = WireTable(mem.routes)

KeptHere(t) ==
  \/ t.version = 0 /\ t.routes = <<>>
  \/ t.version \in 1..Loaded.version /\ t.routes = Local(history[t.version])

SerialStreams ==
  /\ last # NoTable => Kept(last)
  /\ \A d \in DataPlane :
       (\A m \in Range(wire[d]) \cup Range(chan[d]) : Kept(m)) /\ KeptHere(dp[d])

LEMMA SerialParts ==
  SerialInv <=> /\ file \notin {Empty, Torn}
                /\ \A e, f \in Editor : ed[e].step # "idle" /\ ed[f].step # "idle" => e = f
                /\ \A e \in Editor : SerialEditor(e)
                /\ SerialStreams
BY DEF SerialInv, SerialEditor, SerialStreams, KeptHere, InTransit

(* What streams hold stays kept while the file goes forward. *)
LEMMA KeptStays ==
  ASSUME SerialStreams, Loaded.version \in Nat, Loaded'.version \in Nat,
         Loaded.version <= Loaded'.version,
         \A v \in 1..Loaded.version : history'[v] = history[v],
         last' = last, wire' = wire, chan' = chan, dp' = dp
  PROVE  SerialStreams'
<1>1. \A m : Kept(m) => Kept(m)'
  BY DEF Kept
<1>2. ASSUME NEW d \in DataPlane PROVE KeptHere(dp[d])'
  <2>1. KeptHere(dp[d]) /\ dp'[d] = dp[d]
    BY DEF SerialStreams
  <2> QED BY <2>1 DEF KeptHere
<1>3. ASSUME NEW d \in DataPlane, NEW m \in Range(wire'[d]) \cup Range(chan'[d])
      PROVE  Kept(m)'
  BY <1>1, <1>3 DEF SerialStreams
<1>4. last' # NoTable => Kept(last)'
  BY DEF SerialStreams, Kept
<1> QED BY <1>2, <1>3, <1>4 DEF SerialStreams

LEMMA SerialEditorStep ==
  ASSUME RoutesTypeInv, StoreInv, SerialInv, ~overlap', NEW e \in Editor,
         EditorStep(e) \/ SaveFails(e) \/ \E t \in Table : Set(e, t)
  PROVE  SerialInv'
<1>a. /\ file \notin {Empty, Torn} /\ \A f \in Editor : SerialEditor(f)
      /\ SerialStreams
      /\ \A f \in Editor : ed[f] \in EditorState
      /\ ed = [f \in Editor |-> ed[f]] /\ fd = [f \in Editor |-> fd[f]]
      /\ mem \in [routes : Table \cup {<<>>}, version : Nat]
      /\ mem.version = Len(history) /\ Len(history) \in Nat
  BY SerialParts DEF RoutesTypeInv, StoreInv
<1>b. \A f \in Editor \ {e} : ed[f].step = "idle" /\ fd[f] = Absent
  <2>1. CASE \E t \in Table : Set(e, t)
    BY <1>a, <2>1 DEF Set, SerialEditor
  <2>2. CASE EditorStep(e) \/ SaveFails(e)
    <3>1. ed[e].step # "idle"
      BY <2>2 DEF EditorStep, SaveFails, OpenTmp, WriteTmp, Rename, Upsert, ReadVersion,
                  ReadRoutes, SendTable
    <3> QED BY <1>a, <3>1 DEF SerialInv, SerialEditor
  <2> QED BY <2>1, <2>2
<1>c. ASSUME \A f \in Editor \ {e} : ed'[f] = ed[f] /\ fd'[f] = fd[f],
             file' \notin {Empty, Torn}, SerialEditor(e)', SerialStreams'
      PROVE  SerialInv'
  <2>1. \A f \in Editor \ {e} : SerialEditor(f)' /\ ed'[f].step = "idle"
    BY <1>b, <1>c DEF SerialEditor
  <2>2. \A f, g \in Editor : ed'[f].step # "idle" /\ ed'[g].step # "idle" => f = g
    BY <2>1
  <2>3. \A f \in Editor : SerialEditor(f)'
    BY <1>c, <2>1
  <2> QED BY <1>c, <2>2, <2>3 DEF SerialInv, SerialEditor, SerialStreams, KeptHere, InTransit
<1>d. Loaded.version \in 0..Len(history)
  BY LoadedFacts
<1>e. ASSUME file' = file PROVE Loaded' = Loaded
  BY <1>e DEF Loaded
<1>f. ed[e].step # "idle" => /\ mem.version \in 1..Len(history) /\ mem \in Snapshot
                             /\ mem \notin {Absent, Empty, Torn}
                             /\ mem.routes = history[mem.version]
  <2> SUFFICES ASSUME ed[e].step # "idle"
               PROVE  /\ mem.version \in 1..Len(history) /\ mem \in Snapshot
                      /\ mem \notin {Absent, Empty, Torn}
                      /\ mem.routes = history[mem.version]
    OBVIOUS
  <2>1. mem.version \in 1..Len(history) /\ mem.routes = history[mem.version]
    BY <1>a DEF StoreInv
  <2>2. mem.routes \in Table
    BY <2>1 DEF RoutesTypeInv
  <2>3. mem \in Snapshot
    BY <1>a, <2>2 DEF Snapshot
  <2> QED BY <2>1, <2>3, RoutesAssumption DEF Snapshot
<1>g. ASSUME history' = history, file' = file, last' = last, wire' = wire, chan' = chan,
             dp' = dp
      PROVE  SerialStreams'
  BY <1>a, <1>d, <1>e, <1>g, KeptStays
<1>h. ASSUME history' = history, file' = mem, last' = last, wire' = wire, chan' = chan,
             dp' = dp, ed[e].step # "idle"
      PROVE  SerialStreams'
  <2>1. Loaded' = mem
    BY <1>f, <1>h DEF Loaded
  <2> QED BY <1>a, <1>d, <1>h, <2>1, KeptStays
<1>1. ASSUME NEW t \in Table, Set(e, t) PROVE SerialInv'
  <2>1. /\ ed' = [ed EXCEPT ![e].step = "save", ![e].snapshot = mem']
        /\ fd' = fd /\ file' = file /\ history' = Append(history, t)
        /\ last' = last /\ wire' = wire /\ chan' = chan /\ dp' = dp
        /\ ed[e].step = "idle"
    BY <1>1 DEF Set, streamVars, pubVars, linkVars
  <2>2. ed'[e].step = "save" /\ ed'[e].snapshot = mem'
    BY <1>a, <2>1 DEF EditorState
  <2>3. SerialEditor(e)'
    BY <1>a, <2>1, <2>2 DEF SerialEditor
  <2>4. \A v \in 1..Loaded.version : history'[v] = history[v]
    BY <1>a, <1>d, <2>1, HistoryGrows
  <2>5. SerialStreams'
    BY <1>a, <1>d, <1>e, <2>1, <2>4, KeptStays
  <2> QED BY <1>a, <1>c, <2>1, <2>3, <2>5
<1>2. CASE SaveFails(e)
  <2>1. /\ ed' = [ed EXCEPT ![e] = Idle] /\ fd' = [fd EXCEPT ![e] = Absent]
        /\ file' = file /\ history' = history
        /\ last' = last /\ wire' = wire /\ chan' = chan /\ dp' = dp
    BY <1>2 DEF SaveFails, streamVars, pubVars, linkVars
  <2>2. SerialEditor(e)'
    BY <1>a, <2>1 DEF SerialEditor, Idle
  <2> QED BY <1>a, <1>c, <1>g, <2>1, <2>2
<1>3. CASE OpenTmp(e)
  <2>1. /\ ed' = [ed EXCEPT ![e].step = "write"] /\ fd' = [fd EXCEPT ![e] = "tmp"]
        /\ tmp' = Empty /\ file' = file /\ mem' = mem /\ history' = history
        /\ last' = last /\ wire' = wire /\ chan' = chan /\ dp' = dp
        /\ ed[e].step = "save"
    BY <1>3 DEF OpenTmp, GoTo, ghostVars, streamVars, pubVars, linkVars
  <2>2. ed'[e].step = "write" /\ ed'[e].snapshot = ed[e].snapshot /\ fd'[e] = "tmp"
    BY <1>a, <2>1 DEF EditorState
  <2>3. SerialEditor(e)'
    BY <1>a, <2>1, <2>2 DEF SerialEditor
  <2> QED BY <1>a, <1>c, <1>g, <2>1, <2>3
<1>4. CASE WriteTmp(e)
  <2>1. /\ ed' = [ed EXCEPT ![e].step = "rename"] /\ fd' = [fd EXCEPT ![e] = Absent]
        /\ mem' = mem /\ history' = history
        /\ last' = last /\ wire' = wire /\ chan' = chan /\ dp' = dp
        /\ ed[e].step = "write"
    BY <1>4 DEF WriteTmp, GoTo, ghostVars, streamVars, pubVars, linkVars
  <2>2. fd[e] = "tmp" /\ tmp = Empty /\ ed[e].snapshot = mem
    BY <1>a, <2>1 DEF SerialEditor
  <2>3. tmp' = mem /\ file' = file
    BY <1>4, <2>2 DEF WriteTmp, Overwritten
  <2>4. ed'[e].step = "rename" /\ ed'[e].snapshot = mem /\ fd'[e] = Absent
    BY <1>a, <2>1, <2>2 DEF EditorState
  <2>5. SerialEditor(e)'
    BY <2>1, <2>3, <2>4 DEF SerialEditor
  <2> QED BY <1>a, <1>c, <1>g, <2>1, <2>3, <2>5
<1>5. CASE Rename(e)
  <2>1. ed[e].step = "rename" /\ tmp = mem /\ mem # Absent /\ fd[e] = Absent
    BY <1>a, <1>f, <1>5 DEF Rename, SerialEditor
  <2>2. /\ ed' = [ed EXCEPT ![e].step = "version"] /\ file' = mem
        /\ fd' = [f \in Editor |-> CASE fd[f] = "tmp" -> "file"
                                     [] fd[f] = "file" -> "unlinked"
                                     [] OTHER -> fd[f]]
        /\ mem' = mem /\ history' = history
        /\ last' = last /\ wire' = wire /\ chan' = chan /\ dp' = dp
    BY <1>5, <2>1 DEF Rename, GoTo, streamVars, pubVars, linkVars
  <2>3. \A f \in Editor : fd'[f] = Absent
    <3>1. \A f \in Editor : fd[f] = Absent
      BY <1>b, <2>1
    <3> QED BY <2>2, <3>1, RoutesAssumption
  <2>4. ed'[e].step = "version"
    BY <1>a, <2>2 DEF EditorState
  <2>5. SerialEditor(e)'
    BY <2>2, <2>3, <2>4 DEF SerialEditor
  <2> QED BY <1>a, <1>b, <1>c, <1>f, <1>h, <2>1, <2>2, <2>3, <2>5
<1>6. CASE Upsert(e)
  <2>1. /\ ed' = [ed EXCEPT ![e].step = "version"] /\ fd' = fd
        /\ file' = ed[e].snapshot /\ mem' = mem /\ history' = history
        /\ last' = last /\ wire' = wire /\ chan' = chan /\ dp' = dp
        /\ ed[e].step = "save"
    BY <1>6 DEF Upsert, GoTo, ghostVars, streamVars, pubVars, linkVars
  <2>2. file' = mem /\ fd[e] = Absent
    BY <1>a, <2>1 DEF SerialEditor
  <2>3. ed'[e].step = "version"
    BY <1>a, <2>1 DEF EditorState
  <2>4. SerialEditor(e)'
    BY <2>1, <2>2, <2>3 DEF SerialEditor
  <2> QED BY <1>a, <1>c, <1>f, <1>h, <2>1, <2>2, <2>4
<1>7. CASE ReadVersion(e)
  <2>1. /\ ed' = [ed EXCEPT ![e].version = mem.version, ![e].step = "routes"] /\ fd' = fd
        /\ file' = file /\ mem' = mem /\ history' = history
        /\ last' = last /\ wire' = wire /\ chan' = chan /\ dp' = dp
        /\ ed[e].step = "version"
    BY <1>7 DEF ReadVersion, ghostVars, streamVars, pubVars, linkVars
  <2>2. file = mem /\ fd[e] = Absent
    BY <1>a, <2>1 DEF SerialEditor
  <2>3. ed'[e].step = "routes" /\ ed'[e].version = mem.version
    BY <1>a, <2>1 DEF EditorState
  <2>4. SerialEditor(e)'
    BY <2>1, <2>2, <2>3 DEF SerialEditor
  <2> QED BY <1>a, <1>c, <1>g, <2>1, <2>4
<1>8. CASE ReadRoutes(e)
  <2>1. /\ ed' = [ed EXCEPT ![e].routes = WireTable(mem.routes), ![e].step = "send"]
        /\ fd' = fd /\ file' = file /\ mem' = mem /\ history' = history
        /\ last' = last /\ wire' = wire /\ chan' = chan /\ dp' = dp
        /\ ed[e].step = "routes"
    BY <1>8 DEF ReadRoutes, ghostVars, streamVars, pubVars, linkVars
  <2>2. file = mem /\ fd[e] = Absent /\ ed[e].version = mem.version
    BY <1>a, <2>1 DEF SerialEditor
  <2>3. /\ ed'[e].step = "send" /\ ed'[e].version = ed[e].version
        /\ ed'[e].routes = WireTable(mem.routes)
    BY <1>a, <2>1 DEF EditorState
  <2>4. SerialEditor(e)'
    BY <2>1, <2>2, <2>3 DEF SerialEditor
  <2> QED BY <1>a, <1>c, <1>g, <2>1, <2>4
<1>9. CASE SendTable(e)
  <2> DEFINE p == Published(e)
  <2>1. /\ ed' = [ed EXCEPT ![e] = Idle] /\ fd' = fd
        /\ file' = file /\ mem' = mem /\ history' = history
        /\ last' = p /\ wire' = wire /\ dp' = dp
        /\ ed[e].step = "send"
    BY <1>9 DEF SendTable, ghostVars, linkVars
  <2>2. /\ file = mem /\ fd[e] = Absent /\ ed[e].version = mem.version
        /\ ed[e].routes = WireTable(mem.routes)
    BY <1>a, <2>1 DEF SerialEditor
  <2>3. SerialEditor(e)'
    BY <1>a, <2>1, <2>2 DEF SerialEditor, Idle
  <2>4. Loaded = mem
    BY <1>f, <2>1, <2>2 DEF Loaded
  <2>5. Kept(p)
    BY <1>f, <1>a, <2>1, <2>2, <2>4 DEF Kept, Published
  <2>6. p \in Message
    BY <2>1, PublishedIsMessage
  <2>7. \A d \in DataPlane : chan'[d] = chan[d] \/ chan'[d] = Append(chan[d], p)
    BY <1>9, <2>1 DEF SendTable
  <2> HIDE DEF p
  <2>8. ASSUME NEW d \in DataPlane, NEW m \in Range(wire'[d]) \cup Range(chan'[d])
        PROVE  Kept(m)
    <3>1. \A x \in Range(wire[d]) \cup Range(chan[d]) : Kept(x)
      BY <1>a DEF SerialStreams
    <3>2. Range(chan'[d]) \subseteq Range(chan[d]) \cup {p}
      <4> DEFINE s == chan[d]
      <4>1. s \in Seq(Message)
        BY DEF RoutesTypeInv
      <4> HIDE DEF s
      <4>2. Range(Append(s, p)) = Range(s) \cup {p}
        BY <2>6, <4>1, RangeAppend
      <4> QED BY <2>7, <4>2 DEF s
    <3> QED BY <2>1, <2>5, <2>8, <3>1, <3>2
  <2>9. Loaded' = Loaded
    BY <1>e, <2>1
  <2>10. \A m : Kept(m) => Kept(m)'
    BY <2>1, <2>9 DEF Kept
  <2>11. last' # NoTable => Kept(last)'
    BY <2>1, <2>5, <2>9 DEF Kept
  <2>12. \A d \in DataPlane : KeptHere(dp[d])'
    BY <1>a, <2>1, <2>9 DEF SerialStreams, KeptHere
  <2>13. SerialStreams'
    BY <2>8, <2>10, <2>11, <2>12 DEF SerialStreams
  <2> QED BY <1>a, <1>c, <2>1, <2>3, <2>13
<1> QED BY <1>1, <1>2, <1>3, <1>4, <1>5, <1>6, <1>7, <1>8, <1>9 DEF EditorStep

LEMMA SerialStreamStep ==
  ASSUME RoutesTypeInv, SerialInv, NEW d \in DataPlane,
         StreamStep(d) \/ Break(d) \/ DPRestart(d)
  PROVE  SerialInv'
<1>a. /\ file' = file /\ tmp' = tmp /\ fd' = fd /\ ed' = ed /\ mem' = mem
      /\ history' = history /\ last' = last
      /\ \A c \in DataPlane \ {d} : chan'[c] = chan[c] /\ wire'[c] = wire[c] /\ dp'[c] = dp[c]
  BY DEF StreamStep, Connect, Forward, Receive, Hangup, Break, DPRestart, storeVars,
         ghostVars, pubVars, RoutesTypeInv
<1>b. Loaded' = Loaded
  BY <1>a DEF Loaded
<1>c. /\ SerialStreams
      /\ \A m \in Range(wire[d]) \cup Range(chan[d]) : Kept(m)
      /\ KeptHere(dp[d])
  BY SerialParts DEF SerialStreams
<1>d. Range(<<>>) = {} /\ \A m : Range(<<m>>) = {m}
  BY DEF Range
<1>e. /\ \A m : Kept(m) => Kept(m)'
      /\ last' # NoTable => Kept(last)'
  BY <1>a, <1>b, <1>c DEF Kept, SerialStreams
<1>f. ASSUME \A m \in Range(wire'[d]) \cup Range(chan'[d]) : Kept(m), KeptHere(dp'[d])
      PROVE  SerialInv'
  <2>1. KeptHere(dp[d])'
    BY <1>a, <1>b, <1>f DEF KeptHere
  <2>2. ASSUME NEW c \in DataPlane
        PROVE  /\ \A m \in Range(wire'[c]) \cup Range(chan'[c]) : Kept(m)'
               /\ KeptHere(dp[c])'
    <3>1. CASE c = d
      BY <1>e, <1>f, <2>1, <3>1
    <3>2. CASE c # d
      <4>1. /\ \A m \in Range(wire[c]) \cup Range(chan[c]) : Kept(m)
            /\ KeptHere(dp[c])
        BY <1>c DEF SerialStreams
      <4>2. KeptHere(dp[c])'
        BY <1>a, <1>b, <3>2, <4>1 DEF KeptHere
      <4> QED BY <1>a, <1>e, <3>2, <4>1, <4>2
    <3> QED BY <3>1, <3>2
  <2>3. SerialStreams'
    BY <1>e, <2>2 DEF SerialStreams
  <2>4. /\ file' \notin {Empty, Torn}
        /\ \A e, f \in Editor : ed'[e].step # "idle" /\ ed'[f].step # "idle" => e = f
        /\ \A e \in Editor : SerialEditor(e)'
    BY <1>a, SerialParts DEF SerialEditor
  <2> QED BY <2>3, <2>4 DEF SerialInv, SerialEditor, SerialStreams, KeptHere, InTransit
<1>1. CASE Connect(d)
  <2>1. /\ chan'[d] = <<>> /\ dp' = dp
        /\ wire'[d] = IF last = NoTable THEN <<>> ELSE <<last>>
    BY <1>1 DEF Connect, RoutesTypeInv
  <2>2. last # NoTable => Kept(last)
    BY <1>c DEF SerialStreams
  <2> QED BY <1>c, <1>d, <1>f, <2>1, <2>2
<1>2. CASE Forward(d)
  <2>1. /\ chan'[d] = Tail(chan[d]) /\ wire'[d] = <<Head(chan[d])>> /\ dp' = dp
        /\ chan[d] # <<>> /\ chan[d] \in Seq(Message)
    BY <1>2 DEF Forward, RoutesTypeInv
  <2>2. Range(chan[d]) = {Head(chan[d])} \cup Range(Tail(chan[d]))
    BY <2>1, RangeOfQueue
  <2> QED BY <1>c, <1>d, <1>f, <2>1, <2>2
<1>3. CASE Receive(d)
  <2> DEFINE m == Head(wire[d])
  <2>1. /\ chan' = chan /\ wire'[d] = Tail(wire[d])
        /\ wire[d] # <<>> /\ wire[d] \in Seq(Message)
    BY <1>3 DEF Receive, RoutesTypeInv, pubVars
  <2>2. Range(wire[d]) = {m} \cup Range(Tail(wire[d])) /\ m \in Message
    BY <2>1, RangeOfQueue
  <2>3. dp'[d] = dp[d] \/ dp'[d] = [m EXCEPT !.routes = LocalTable(@)]
    BY <1>3 DEF Receive, RoutesTypeInv
  <2> HIDE DEF m
  <2>4. Kept(m)
    BY <1>c, <2>2
  <2>5. KeptHere(dp'[d])
    <3>1. CASE dp'[d] = dp[d]
      BY <1>c, <3>1
    <3>2. CASE dp'[d] = [m EXCEPT !.routes = LocalTable(@)]
      <4>1. dp'[d].version = m.version /\ dp'[d].routes = LocalTable(m.routes)
        BY <2>2, <3>2 DEF Message
      <4> QED BY <2>4, <4>1 DEF Kept, KeptHere, Local
    <3> QED BY <2>3, <3>1, <3>2
  <2> QED BY <1>c, <1>f, <2>1, <2>2, <2>5
<1>4. CASE Hangup(d)
  <2>1. chan' = chan /\ wire'[d] = <<>> /\ dp' = dp
    BY <1>4 DEF Hangup, RoutesTypeInv, pubVars
  <2> QED BY <1>c, <1>d, <1>f, <2>1
<1>5. CASE Break(d)
  <2>1. chan'[d] = <<>> /\ wire' = wire /\ dp' = dp
    BY <1>5 DEF Break, RoutesTypeInv
  <2> QED BY <1>c, <1>d, <1>f, <2>1
<1>6. CASE DPRestart(d)
  <2>1. chan'[d] = <<>> /\ wire'[d] = <<>> /\ dp'[d] = Nothing
    BY <1>6 DEF DPRestart, RoutesTypeInv
  <2>2. KeptHere(Nothing)
    BY DEF KeptHere, Nothing
  <2> QED BY <1>d, <1>f, <2>1, <2>2
<1> QED BY <1>1, <1>2, <1>3, <1>4, <1>5, <1>6 DEF StreamStep

LEMMA SerialRestartStep ==
  ASSUME RoutesTypeInv, StoreInv, SerialInv, CPRestart
  PROVE  SerialInv'
<1>1. /\ history' = SubSeq(history, 1, Loaded.version) /\ file' = file
      /\ fd' = [e \in Editor |-> Absent] /\ ed' = [e \in Editor |-> Idle]
      /\ last' = NoTable /\ wire' = wire /\ dp' = dp
      /\ chan' = [d \in DataPlane |-> <<>>]
  BY DEF CPRestart
<1>2. Loaded' = Loaded
  BY <1>1 DEF Loaded
<1>3. \A v \in 1..Loaded.version : history'[v] = history[v]
  BY <1>1, LoadedFacts, HistoryCut
<1>4. \A m : Kept(m) => Kept(m)'
  BY <1>2, <1>3 DEF Kept
<1>5. SerialStreams /\ file \notin {Empty, Torn} /\ Range(<<>>) = {}
  BY SerialParts DEF Range
<1>6. ASSUME NEW d \in DataPlane
      PROVE  /\ \A m \in Range(wire'[d]) \cup Range(chan'[d]) : Kept(m)'
             /\ KeptHere(dp[d])'
  <2>1. (\A m \in Range(wire[d]) : Kept(m)) /\ KeptHere(dp[d])
    BY <1>5 DEF SerialStreams
  <2>2. KeptHere(dp[d])'
    BY <1>1, <1>2, <1>3, <2>1 DEF KeptHere
  <2> QED BY <1>1, <1>4, <1>5, <2>1, <2>2
<1>7. SerialStreams'
  BY <1>1, <1>6 DEF SerialStreams
<1>8. \A e \in Editor : SerialEditor(e)' /\ ed'[e].step = "idle"
  BY <1>1 DEF SerialEditor, Idle
<1> QED BY <1>1, <1>5, <1>7, <1>8
        DEF SerialInv, SerialEditor, SerialStreams, KeptHere, InTransit

-----------------------------------------------------------------------------
(* The theorem *)

LEMMA SerialRoutesInit == RoutesInit => SerialRoutesInv
<1> SUFFICES ASSUME RoutesInit PROVE SerialRoutesInv
  OBVIOUS
<1>1. Range(<<>>) = {}
  BY DEF Range
<1>2. SerialInv
  BY <1>1, RoutesAssumption DEF RoutesInit, SerialInv, InTransit, Idle, Nothing
<1> QED BY <1>2, RoutesInvInit DEF SerialRoutesInv

LEMMA SerialRoutesStep == SerialRoutesInv /\ [RoutesNext]_routeVars => SerialRoutesInv'
<1> SUFFICES ASSUME SerialRoutesInv, [RoutesNext]_routeVars, ~overlap' PROVE SerialInv'
  BY RoutesInvStep DEF SerialRoutesInv
<1>a. RoutesTypeInv /\ StoreInv /\ PublishedInv /\ HandedInv /\ (~overlap => SerialInv)
  BY DEF SerialRoutesInv, RoutesInv
<1>1. ASSUME NEW e \in Editor, EditorStep(e) \/ SaveFails(e) \/ \E t \in Table : Set(e, t)
      PROVE  SerialInv'
  <2>1. ~overlap
    BY <1>1 DEF EditorStep, OpenTmp, WriteTmp, Rename, Upsert, ReadVersion, ReadRoutes,
                SendTable, SaveFails, Set, ghostVars
  <2> QED BY <1>a, <1>1, <2>1, SerialEditorStep
<1>2. ASSUME NEW d \in DataPlane, StreamStep(d) \/ Break(d) \/ DPRestart(d)
      PROVE  SerialInv'
  <2>1. storeVars' = storeVars
    BY <1>2 DEF StreamStep, Connect, Forward, Receive, Hangup, Break, DPRestart
  <2>2. overlap' = overlap
    BY <2>1 DEF storeVars, ghostVars
  <2> QED BY <1>a, <1>2, <2>2, SerialStreamStep
<1>3. CASE CPRestart
  <2>1. overlap' = overlap
    BY <1>3 DEF CPRestart
  <2> QED BY <1>a, <1>3, <2>1, SerialRestartStep
<1>4. CASE UNCHANGED routeVars
  BY <1>a, <1>4 DEF routeVars, storeVars, ghostVars, pubVars, linkVars, SerialInv,
                    Kept, Loaded, InTransit
<1> QED BY <1>1, <1>2, <1>3, <1>4 DEF RoutesNext

LEMMA SerialRoutesHolds == RoutesSpec => []SerialRoutesInv
BY SerialRoutesInit, SerialRoutesStep, PTL DEF RoutesSpec

(* THEOREM: as long as no two calls of SetRoutes were in progress together,*)
(* the saved file is always a whole table, no data plane is ahead of the   *)
(* store, and one with the store's version has the store's routes, through *)
(* any failures, crashes and reconnections.                                *)
THEOREM SerialEditsAreConsistent == RoutesSpec => []SerialEditsConsistent
<1>1. SerialRoutesInv => SerialEditsConsistent
  <2> SUFFICES ASSUME SerialRoutesInv, ~overlap
               PROVE  /\ file \notin {Empty, Torn}
                      /\ \A d \in DataPlane :
                           /\ dp[d].version <= mem.version
                           /\ dp[d].version = mem.version => dp[d].routes = Local(mem.routes)
    BY DEF SerialEditsConsistent
  <2>1. RoutesTypeInv /\ StoreInv /\ SerialInv
    BY DEF SerialRoutesInv, RoutesInv
  <2>2. Loaded.version \in 0..Len(history) /\ Len(history) \in Nat
    BY <2>1, LoadedFacts DEF RoutesTypeInv
  <2>3. ASSUME NEW d \in DataPlane
        PROVE  /\ dp[d].version <= mem.version
               /\ dp[d].version = mem.version => dp[d].routes = Local(mem.routes)
    <3>1. KeptHere(dp[d])
      BY <2>1 DEF SerialInv, KeptHere
    <3>2. CASE dp[d].version = 0 /\ dp[d].routes = <<>>
      BY <2>1, <2>2, <3>2, EmptyTable DEF StoreInv
    <3>3. CASE /\ dp[d].version \in 1..Loaded.version
               /\ dp[d].routes = Local(history[dp[d].version])
      <4>1. dp[d].version <= mem.version /\ dp[d].version # 0
        BY <2>1, <2>2, <3>3 DEF StoreInv
      <4>2. mem.version # 0 => mem.routes = history[mem.version]
        BY <2>1 DEF StoreInv
      <4> QED BY <3>3, <4>1, <4>2
    <3> QED BY <3>1, <3>2, <3>3 DEF KeptHere
  <2> QED BY <2>1, <2>3 DEF SerialInv
<1> QED BY <1>1, SerialRoutesHolds, PTL

=============================================================================
