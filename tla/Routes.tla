------------------------------ MODULE Routes --------------------------------
(***************************************************************************)
(* The life of the route table: handlers that set it in the control plane  *)
(* (Server.SetRoutes, RouteStore.Set), the blob store they save it in      *)
(* (internal/controlplane/blobstore.go), publishRoutes, one StreamRoutes   *)
(* stream per data plane, internal/dataplane/routesubscriber.go and        *)
(* RouteTable.Update.                                                      *)
(*                                                                         *)
(* An editor is a handler goroutine.  Its steps are the lock sections and  *)
(* system calls of SetRoutes: change the store, save, then read version    *)
(* and routes again, each under its own lock, and hand the table out.      *)
(*                                                                         *)
(* FileBlobStore.Save writes through one temporary name.  A handler's open *)
(* file is known here by the name its file has by now: a rename moves the  *)
(* file other handlers are still writing.  A write onto what another       *)
(* handler wrote replaces it or, being shorter, leaves its tail behind.    *)
(***************************************************************************)
EXTENDS RouteMatch

CONSTANTS
  Editor,         \* handler goroutines
  DataPlane,
  Table,          \* the route tables administrators submit
  Request,        \* the requests a table is asked about
  DefaultGroup,   \* the -group flag of a data plane
  NoTable,        \* nil: no table published in this lifetime
  Absent,         \* content of a name that does not exist
  Empty,          \* content of a file that was just truncated
  Torn,           \* content that no JSON parser accepts
  ChanCap,        \* capacity of a subscriber channel
  FailuresPossible, \* whether saving may fail
  Backends,       \* the configured blob stores to consider
  MaxEdits,       \* bound: SetRoutes calls
  MaxCrashes,     \* bound: control-plane restarts
  MaxBreaks       \* bound: stream breaks and data-plane restarts

ASSUME RoutesAssumption ==
  /\ Absent \notin {Empty, Torn, "tmp", "file", "unlinked"}
  /\ \A x \in {Absent, Empty, Torn} : x \notin [routes : Table, version : Nat]

VARIABLES
  backend,        \* the configured blob store
  mem,            \* the route store: routes and version
  file, tmp,      \* contents of the two names on disk
  fd,             \* editor -> name of the file it has open
  ed,             \* editor -> its step and what it has read
  last,           \* lastRoutes
  subs, chan,     \* registered streams and their channels
  wire,           \* data plane -> messages sent and not yet received
  conn,           \* data plane -> state of its stream
  dp,             \* data plane -> the table it holds
  epoch,          \* lifetimes of the control-plane process
  history,        \* ghost: history[v] is the table set as version v
  overlap,        \* ghost: two SetRoutes calls were in progress together
  handed,         \* ghost: data plane -> highest version handed to its stream
  dropped,        \* ghost: data plane -> its channel was full
  failed,         \* ghost: a SetRoutes call returned an error
  edits, breaks   \* bounds

ghostVars == <<history, overlap, failed, edits>>
storeVars == <<backend, mem, file, tmp, fd, ed, ghostVars>>
pubVars == <<last, subs, chan, handed, dropped>>
linkVars == <<wire, conn, dp, breaks>>
streamVars == <<pubVars, linkVars, epoch>>
routeVars == <<storeVars, pubVars, linkVars, epoch>>

Idle == [step |-> "idle", snapshot |-> [routes |-> <<>>, version |-> 0],
         version |-> 0, routes |-> <<>>]
Nothing == [version |-> 0, routes |-> <<>>, epoch |-> 0]

RoutesInit ==
  /\ backend \in Backends
  /\ mem = [routes |-> <<>>, version |-> 0]
  /\ file = Absent /\ tmp = Absent
  /\ fd = [e \in Editor |-> Absent]
  /\ ed = [e \in Editor |-> Idle]
  /\ last = NoTable
  /\ subs = {} /\ chan = [d \in DataPlane |-> <<>>]
  /\ wire = [d \in DataPlane |-> <<>>]
  /\ conn = [d \in DataPlane |-> "down"]
  /\ dp = [d \in DataPlane |-> Nothing]
  /\ epoch = 1
  /\ history = <<>>
  /\ overlap = FALSE /\ failed = FALSE
  /\ handed = [d \in DataPlane |-> 0]
  /\ dropped = [d \in DataPlane |-> FALSE]
  /\ edits = 0 /\ breaks = 0

GoTo(e, step) == ed' = [ed EXCEPT ![e].step = step]

-----------------------------------------------------------------------------
(* RouteStore.Set: routes and version under one lock; the snapshot to save *)
(* is taken there too.                                                     *)
Set(e, routes) ==
  /\ ed[e].step = "idle"
  /\ edits < MaxEdits
  /\ edits' = edits + 1
  /\ mem' = [routes |-> routes, version |-> mem.version + 1]
  /\ ed' = [ed EXCEPT ![e].step = "save", ![e].snapshot = mem']
  /\ history' = Append(history, routes)
  /\ overlap' = (overlap \/ \E f \in Editor \ {e} : ed[f].step # "idle")
  /\ UNCHANGED <<backend, file, tmp, fd, failed, streamVars>>

(* The handler returns the error to its caller and publishes nothing. *)
SaveFails(e) ==
  /\ FailuresPossible
  /\ ed[e].step \in {"save", "write", "rename"}
  /\ ed' = [ed EXCEPT ![e] = Idle]
  /\ fd' = [fd EXCEPT ![e] = Absent]
  /\ failed' = TRUE
  /\ UNCHANGED <<backend, mem, file, tmp, history, overlap, edits, streamVars>>

(* os.WriteFile opens the temporary name and truncates what is there. *)
OpenTmp(e) ==
  /\ backend = "file" /\ ed[e].step = "save"
  /\ tmp' = Empty
  /\ fd' = [fd EXCEPT ![e] = "tmp"]
  /\ GoTo(e, "write")
  /\ UNCHANGED <<backend, mem, file, ghostVars, streamVars>>

(* What a file holds after x is written at the start of content. *)
Overwritten(content, x) ==
  IF content \in {Empty, x} THEN {x} ELSE {x, Torn}

(* os.WriteFile writes and closes, wherever the open file is by now. *)
WriteTmp(e) ==
  /\ ed[e].step = "write"
  /\ LET x == ed[e].snapshot IN
       \/ fd[e] = "tmp" /\ tmp' \in Overwritten(tmp, x) /\ UNCHANGED file
       \/ fd[e] = "file" /\ file' \in Overwritten(file, x) /\ UNCHANGED tmp
       \/ fd[e] = "unlinked" /\ UNCHANGED <<tmp, file>>
  /\ fd' = [fd EXCEPT ![e] = Absent]
  /\ GoTo(e, "rename")
  /\ UNCHANGED <<backend, mem, ghostVars, streamVars>>

(* os.Rename; it fails if another handler has renamed the file already. *)
Rename(e) ==
  /\ ed[e].step = "rename"
  /\ IF tmp = Absent
     THEN /\ ed' = [ed EXCEPT ![e] = Idle]
          /\ failed' = TRUE
          /\ UNCHANGED <<file, tmp, fd>>
     ELSE /\ file' = tmp
          /\ tmp' = Absent
          /\ fd' = [f \in Editor |-> CASE fd[f] = "tmp" -> "file"
                                       [] fd[f] = "file" -> "unlinked"
                                       [] OTHER -> fd[f]]
          /\ GoTo(e, "version")
          /\ UNCHANGED failed
  /\ UNCHANGED <<backend, mem, history, overlap, edits, streamVars>>

(* PostgresBlobStore.Save: one upsert. *)
Upsert(e) ==
  /\ backend = "postgres" /\ ed[e].step = "save"
  /\ file' = ed[e].snapshot
  /\ GoTo(e, "version")
  /\ UNCHANGED <<backend, mem, tmp, fd, ghostVars, streamVars>>

-----------------------------------------------------------------------------
(* publishRoutes reads the version ... *)
ReadVersion(e) ==
  /\ ed[e].step = "version"
  /\ ed' = [ed EXCEPT ![e].version = mem.version, ![e].step = "routes"]
  /\ UNCHANGED <<backend, mem, file, tmp, fd, ghostVars, streamVars>>

(* ... and then the routes, which it converts. *)
ReadRoutes(e) ==
  /\ ed[e].step = "routes"
  /\ ed' = [ed EXCEPT ![e].routes = WireTable(mem.routes), ![e].step = "send"]
  /\ UNCHANGED <<backend, mem, file, tmp, fd, ghostVars, streamVars>>

Larger(m, n) == IF m > n THEN m ELSE n

(* Mutant: the version is read when the table is handed out. *)
PublishedLate(e) == [version |-> mem.version, routes |-> ed[e].routes, epoch |-> epoch]

(* The table put together from the two reads. *)
Published(e) == [version |-> ed[e].version, routes |-> ed[e].routes, epoch |-> epoch]

(* publishRoutes: the table becomes the last one and goes to every stream  *)
(* whose channel has room.                                                 *)
SendTable(e) ==
  /\ ed[e].step = "send"
  /\ last' = Published(e)
  /\ LET room == {d \in subs : Len(chan[d]) < ChanCap} IN
       /\ chan' = [d \in DataPlane |-> IF d \in room THEN Append(chan[d], last')
                                       ELSE chan[d]]
       /\ handed' = [d \in DataPlane |-> IF d \in room
                                         THEN Larger(handed[d], last'.version)
                                         ELSE handed[d]]
       /\ dropped' = [d \in DataPlane |-> dropped[d] \/ d \in subs \ room]
  /\ ed' = [ed EXCEPT ![e] = Idle]
  /\ UNCHANGED <<backend, mem, file, tmp, fd, ghostVars, subs, linkVars, epoch>>

-----------------------------------------------------------------------------
(* StreamRoutes: registered and the last table read in one lock section;   *)
(* the table is sent, if there is one, before anything from the channel.   *)
Connect(d) ==
  /\ conn[d] = "down"
  /\ conn' = [conn EXCEPT ![d] = "open"]
  /\ subs' = subs \cup {d}
  /\ chan' = [chan EXCEPT ![d] = <<>>]
  /\ wire' = [wire EXCEPT ![d] = IF last = NoTable THEN <<>> ELSE <<last>>]
  /\ handed' = [handed EXCEPT ![d] = IF last = NoTable THEN 0 ELSE last.version]
  /\ dropped' = [dropped EXCEPT ![d] = FALSE]
  /\ UNCHANGED <<storeVars, last, dp, breaks, epoch>>

(* StreamRoutes: the next update goes from the channel to the transport,   *)
(* which holds one message here.                                           *)
Forward(d) ==
  /\ conn[d] = "open" /\ chan[d] # <<>>
  /\ wire[d] = <<>>
  /\ wire' = [wire EXCEPT ![d] = <<Head(chan[d])>>]
  /\ chan' = [chan EXCEPT ![d] = Tail(@)]
  /\ UNCHANGED <<storeVars, last, subs, handed, dropped, conn, dp, breaks, epoch>>

(* Mutant: every table that arrives is taken. *)
NewerAlways(held, m) == TRUE

(* Mutant: the next version is not new enough. *)
NewerByTwo(held, m) == m.version > held.version + 1 \/ held.version = 0

(* RouteTable.Update ignores a table that is not newer than the one held. *)
Newer(held, m) == m.version > held.version \/ held.version = 0

(* streamOnce: Recv, then Update. *)
Receive(d) ==
  /\ wire[d] # <<>>
  /\ LET m == Head(wire[d]) IN
       dp' = [dp EXCEPT ![d] = IF Newer(@, m)
                               THEN [m EXCEPT !.routes = LocalTable(@)] ELSE @]
  /\ wire' = [wire EXCEPT ![d] = Tail(@)]
  /\ UNCHANGED <<storeVars, pubVars, conn, breaks, epoch>>

(* The connection is lost; what is in flight may still arrive. *)
Break(d) ==
  /\ breaks < MaxBreaks
  /\ breaks' = breaks + 1
  /\ conn[d] = "open"
  /\ conn' = [conn EXCEPT ![d] = "broken"]
  /\ subs' = subs \ {d}
  /\ chan' = [chan EXCEPT ![d] = <<>>]
  /\ UNCHANGED <<storeVars, last, handed, dropped, wire, dp, epoch>>

(* streamOnce returns the error; Run waits and connects again. *)
Hangup(d) ==
  /\ conn[d] = "broken"
  /\ conn' = [conn EXCEPT ![d] = "down"]
  /\ wire' = [wire EXCEPT ![d] = <<>>]
  /\ UNCHANGED <<storeVars, pubVars, dp, breaks, epoch>>

(* A data-plane process restarts with an empty table. *)
DPRestart(d) ==
  /\ breaks < MaxBreaks
  /\ breaks' = breaks + 1
  /\ conn' = [conn EXCEPT ![d] = "down"]
  /\ wire' = [wire EXCEPT ![d] = <<>>]
  /\ dp' = [dp EXCEPT ![d] = Nothing]
  /\ subs' = subs \ {d}
  /\ chan' = [chan EXCEPT ![d] = <<>>]
  /\ UNCHANGED <<storeVars, last, handed, dropped, epoch>>

(* Mutant: the version is not loaded. *)
LoadedRoutesOnly ==
  IF file \in {Absent, Empty, Torn} THEN [routes |-> <<>>, version |-> 0]
  ELSE [file EXCEPT !.version = 0]

(* NewRouteStoreWithBackend: what a starting process takes from the store; *)
(* nothing from a file that is missing, empty or does not parse.           *)
Loaded ==
  IF file \in {Absent, Empty, Torn} THEN [routes |-> <<>>, version |-> 0]
  ELSE file

(* The control plane restarts; no table has been published yet. *)
CPRestart ==
  /\ epoch <= MaxCrashes
  /\ epoch' = epoch + 1
  /\ mem' = Loaded
  /\ history' = SubSeq(history, 1, mem'.version)
  /\ fd' = [e \in Editor |-> Absent]
  /\ ed' = [e \in Editor |-> Idle]
  /\ last' = NoTable
  /\ subs' = {} /\ chan' = [d \in DataPlane |-> <<>>]
  /\ conn' = [d \in DataPlane |-> IF conn[d] = "down" THEN "down" ELSE "broken"]
  /\ UNCHANGED <<backend, file, tmp, overlap, failed, edits, handed, dropped, wire,
                 dp, breaks>>

EditorStep(e) ==
  \/ OpenTmp(e) \/ WriteTmp(e) \/ Rename(e) \/ Upsert(e)
  \/ ReadVersion(e) \/ ReadRoutes(e) \/ SendTable(e)

StreamStep(d) == Connect(d) \/ Forward(d) \/ Receive(d) \/ Hangup(d)

RoutesNext ==
  \/ \E e \in Editor : EditorStep(e) \/ SaveFails(e) \/ \E t \in Table : Set(e, t)
  \/ \E d \in DataPlane : StreamStep(d) \/ Break(d) \/ DPRestart(d)
  \/ CPRestart

RoutesSpec == RoutesInit /\ [][RoutesNext]_routeVars

(* A handler that has begun runs on, and so do the two ends of a stream.   *)
RoutesFairSpec ==
  /\ RoutesSpec
  /\ \A e \in Editor : WF_routeVars(EditorStep(e))
  /\ \A d \in DataPlane : WF_routeVars(StreamStep(d))

-----------------------------------------------------------------------------
(* Properties *)

InTransit(d) == Range(wire[d]) \cup Range(chan[d])

Local(routes) == LocalTable(WireTable(routes))

(* Whatever is published under a version is at least as new as the table   *)
(* that was set as that version: publishRoutes reads the version before    *)
(* the routes, so a table can run ahead of its number and never behind it, *)
(* and the newest number always carries the newest table.                  *)
VersionCoversContent ==
  \A m \in ({last} \ {NoTable}) \cup UNION {Range(chan[d]) : d \in DataPlane} :
    \E v \in m.version..Len(history) : m.routes = WireTable(history[v])

(* A table a data plane takes over decides every request as the administrator *)
(* meant it: the same rule by the control plane's own matching, every      *)
(* group its share of the draws, the rule's policy in force, and a path    *)
(* that still starts with a slash.  The table meant is the one set as the  *)
(* version held or a newer one.                                            *)
DecidesAsMeant(routes, table, default, q) ==
  LET i == MeantRule(routes, q)
      split == IF i = 0 THEN <<>> ELSE table[i].split
      out == {resolveMatch(table, q, default, n) : n \in Draws(split)}
  IN  /\ MatchedRule(table, q) = i
      /\ \A g \in TargetGroups(table, default) :
           Cardinality({n \in Draws(split) :
                          resolveMatch(table, q, default, n).group = g})
             * (IF Len(split) = 1 THEN split[1].weight ELSE 1)
           = MeantShare(routes, q, default, g)
      /\ \A o \in out :
           /\ o.auth.mode = (IF i = 0 \/ routes[i].auth.mode = "none" THEN ""
                             ELSE routes[i].auth.mode)
           /\ o.rewrite.add = <<>> => RewrittenPath(o.rewrite, q.path)[1] = "/"

TakenAsMeant ==
  [][\A d \in DataPlane :
       dp'[d] # dp[d] /\ dp'[d].epoch = epoch =>
         \E v \in dp'[d].version..Len(history) :
           \A q \in Request :
             DecidesAsMeant(history[v], dp'[d].routes, DefaultGroup, q)]_routeVars

(* As long as no two edits overlapped, whatever failed or crashed: the     *)
(* file on disk is always a whole table, no data plane is ahead of the     *)
(* store, and one that has the store's version has the store's routes.     *)
SerialEditsConsistent ==
  ~overlap =>
    /\ file \notin {Empty, Torn}
    /\ \A d \in DataPlane :
         /\ dp[d].version <= mem.version
         /\ dp[d].version = mem.version => dp[d].routes = Local(mem.routes)

(* A data plane whose open stream was handed the newest version and has    *)
(* dropped nothing ends up with the newest table once everything in flight *)
(* has arrived, whatever older tables were published after it.             *)
SubscribersCurrent ==
  \A d \in DataPlane :
    /\ conn[d] = "open" /\ ~dropped[d]
    /\ handed[d] = mem.version
    /\ InTransit(d) = {}
    /\ dp[d].epoch \in {0, epoch}
    => dp[d].routes = Local(mem.routes)

(* SetRoutes "immediately pushes it to every data plane instance currently *)
(* subscribed": an edit made while a stream is open reaches that data      *)
(* plane, unless the stream breaks or drops, or an edit fails.             *)
EditsReach ==
  \A d \in DataPlane, e \in Editor, v \in 1..MaxEdits :
    (ed[e].snapshot.version = v /\ conn[d] = "open")
      ~> (dp[d].version >= v \/ conn[d] # "open" \/ dropped[d] \/ failed)

(* StreamRoutes "immediately sends the current table (if any route has     *)
(* ever been set)": with no edit in progress, an open stream with nothing  *)
(* in flight leaves its data plane with the table of the store.            *)
CurrentOnConnect ==
  \A d \in DataPlane :
    /\ conn[d] = "open" /\ ~dropped[d] /\ ~failed
    /\ InTransit(d) = {}
    /\ \A e \in Editor : ed[e].step = "idle"
    => dp[d].routes = Local(mem.routes)

=============================================================================
