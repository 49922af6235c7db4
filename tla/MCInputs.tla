------------------------------ MODULE MCInputs ------------------------------
(***************************************************************************)
(* The parts that follow files and services outside the program, for TLC:  *)
(* the file provider, the certificate reloader and the other providers.    *)
(* They share no state, so that a behaviour exercises one of them, part.   *)
(***************************************************************************)
EXTENDS FileProvider, CertReloader, Providers, TLC

CONSTANTS g1, g2, a1, a2, p1, p2

VARIABLE part

inputVars == <<part, fpVars, crVars, pvVars>>

Entry(a) == [address |-> a, weight |-> 0]
MCContent ==
  {[state |-> "absent", groups |-> NoGroups]}
  \cup [state : {"ok"},
        groups : {g1 :> <<Entry(a1), Entry(a2)>> @@ g2 :> <<Entry(a2)>>,
                  g1 :> <<Entry(a1)>> @@ g2 :> <<Entry(Blank)>>,
                  g2 :> <<Entry(a1)>>}]

(* The second pair's certificate is renewed for other names. *)
MCCovers(i, gen) == IF i = 1 THEN {"www"} ELSE IF gen = 1 THEN {"api"} ELSE {"www", "shop"}

MCCount == g1 :> 1 @@ g2 :> 2

(* No interface, one address, a primary address after another and an       *)
(* address after a primary configuration that has none yet.                *)
Config(ip, primary) == [ip |-> ip, primary |-> primary]
MCIPConfigs ==
  {<<>>, <<Config(p1, TRUE)>>, <<Config(p2, FALSE)>>,
   <<Config(p1, FALSE), Config(p2, TRUE)>>, <<Config(NoIP, TRUE), Config(p1, FALSE)>>}

InputsInit ==
  /\ part \in {"file", "certs", "kubernetes", "azure", "fake"}
  /\ FPInit /\ CRInit /\ PVInit
  /\ g2 \in DOMAIN file.groups
  /\ part \notin {"kubernetes", "azure"} => weight = 0
  /\ part # "fake" => fake[g1] = <<0>>

File(A) == part = "file" /\ A /\ UNCHANGED <<part, crVars, pvVars>>
Certs(A) == part = "certs" /\ A /\ UNCHANGED <<part, fpVars, pvVars>>

InputsNext ==
  \/ File(FPNext)
  \/ Certs(CRNext)
  \/ part = "kubernetes" /\ KubernetesNext /\ UNCHANGED <<part, fpVars, crVars>>
  \/ part = "azure" /\ AzureNext /\ UNCHANGED <<part, fpVars, crVars>>
  \/ part = "fake" /\ FakeNext /\ UNCHANGED <<part, fpVars, crVars>>

(* The tickers keep ticking, and a call or a load, once begun, is carried  *)
(* through.                                                                *)
InputsFairness ==
  /\ WF_inputVars(File(Callers(ReconcileTick)))
  /\ \A c \in FileCaller : WF_inputVars(File(FPStep(c)))
  /\ WF_inputVars(Certs(WatchTick))
  /\ \A l \in Loader : WF_inputVars(Certs(CRStep(l)))

InputsSpec == InputsInit /\ [][InputsNext]_inputVars /\ InputsFairness

-----------------------------------------------------------------------------
(* Once the backend file is left alone in a form that parses, every group  *)
(* it lists comes to be published with the file's list, however edits and  *)
(* the two callers' reloads overlapped before.                             *)
FileEditsReach ==
  <>[](part = "file" /\ ~halfSaved /\ Parses(file)) => <>[]PublishedAsFiled

(* Once the certificate files are left alone with every pair complete, they*)
(* come to be served, whatever SIGHUP and the watcher loaded before and in *)
(* whichever order they finished.  The one exception is a file rewritten   *)
(* after a load had read it and before the load took its modification time:*)
(* then the time recorded is the newer file's and the watcher sees no      *)
(* change.                                                                 *)
RenewalsReach ==
  <>[](part = "certs" /\ RenewalComplete) => <>[](ServesDisk \/ overtaken)
=============================================================================
