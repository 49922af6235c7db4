----------------------------- MODULE AdminProofs ----------------------------
(***************************************************************************)
(* The admin server for every number of browsers, every set of forms and   *)
(* every limit: a password change ends the sessions before it, the stores  *)
(* that were saved in peace are on disk, what is published for a group     *)
(* makes sense, and logging in goes through the login limiter.             *)
(***************************************************************************)
EXTENDS Admin, TLAPS

USE ZenonT(10), SMTT(30)

(* The inductive invariant *)

Steps == {"idle", "login", "record", "saveAudit", "issue", "clear", "set", "saveSetting",
          "verifyCurrent", "setPassword", "marshal", "saveCred", "editing", "edited",
          "setRoutes"}

CredSteps == {"marshal", "saveCred"}
SavingSteps == CredSteps \cup {"saveAudit", "saveSetting"}

(* A request that is past its change of the settings s and has yet to save *)
(* its copy.                                                               *)
Saves(h, s) == step[h] = "saveSetting" /\ form[h].store = s

(* What a request carries to its next step. *)
Carries(h) ==
  /\ step[h] \in {"record", "saveAudit"} => cont[h].then \in {"respond", "issue", "clear"}
  /\ attempt[h] # "none" => step[h] = "login"
  /\ step[h] \in {"set", "saveSetting"} =>
       /\ form[h] \in Form
       /\ form[h].store = "algorithm" => form[h].algorithm \in Algorithms

AdminShape ==
  /\ LimiterTypeOK
  /\ step \in [Handler -> Steps]
  /\ DOMAIN form = Handler /\ DOMAIN snap = Handler /\ DOMAIN cont = Handler
  /\ DOMAIN settings = Store /\ DOMAIN settingsFile = Store
  /\ \A h \in Handler : Carries(h)

(* Secrets are numbered as they are generated.  Without overlap one        *)
(* request at a time saves the credentials, its copy is the one in force,  *)
(* and neither the process nor the file is behind the newest change that   *)
(* succeeded.                                                              *)
CredInv ==
  /\ secrets \in Nat
  /\ acked \in 0..secrets /\ cred.secret \in 0..secrets /\ credFile.secret \in 0..secrets
  /\ \A h \in Handler : step[h] = "saveCred" => snap[h].secret \in 0..secrets
  /\ "cred" \notin overlapped =>
       /\ acked <= cred.secret /\ acked <= credFile.secret
       /\ \A h, k \in Handler : step[h] \in CredSteps /\ step[k] \in CredSteps => h = k
       /\ \A h \in Handler : step[h] = "saveCred" => snap[h] = cred
  /\ "cred" \notin overlapped \cup failed /\ (\A h \in Handler : step[h] \notin CredSteps) =>
       credFile = cred

AuditInv ==
  /\ "audit" \notin overlapped =>
       /\ \A h, k \in Handler : step[h] = "saveAudit" /\ step[k] = "saveAudit" => h = k
       /\ \A h \in Handler : step[h] = "saveAudit" => snap[h] = audit
  /\ "audit" \notin overlapped \cup failed /\ (\A h \in Handler : step[h] # "saveAudit") =>
       auditFile = audit

SettingInv(s) ==
  /\ s \notin overlapped =>
       /\ \A h, k \in Handler : Saves(h, s) /\ Saves(k, s) => h = k
       /\ \A h \in Handler : Saves(h, s) => snap[h] = settings[s]
  /\ s \notin overlapped \cup failed /\ (\A h \in Handler : ~Saves(h, s)) =>
       settingsFile[s] = settings[s]

(* What the forms leave in the store s. *)
SaneStore(s, m) ==
  /\ s = "algorithm" => \A k \in DOMAIN m : m[k] \in Algorithms
  /\ s = "sticky" => \A k \in DOMAIN m : m[k].ttl \in Nat
  /\ s = "ratelimit" => \A k \in DOMAIN m : m[k].rps \in Nat /\ m[k].burst \in Nat

(* The settings in memory, on disk and on their way there. *)
SaneInv ==
  /\ \A s \in Store : SaneStore(s, settings[s]) /\ SaneStore(s, settingsFile[s])
  /\ \A h \in Handler : step[h] = "saveSetting" => SaneStore(form[h].store, snap[h])

AdminInv ==
  /\ AdminShape
  /\ CredInv
  /\ AuditInv
  /\ \A s \in Store : SettingInv(s)
  /\ SaneInv

-----------------------------------------------------------------------------
(* Steps of one request *)

MovesOnly(h) ==
  \A k \in Handler \ {h} :
    step'[k] = step[k] /\ form'[k] = form[k] /\ snap'[k] = snap[k] /\ cont'[k] = cont[k]

StoresKept ==
  UNCHANGED <<cred, credFile, secrets, settings, settingsFile, audit, auditFile, acked,
              overlapped, failed>>

(* A step of h that changes no store and neither begins nor ends a save. *)
Quiet(h) ==
  /\ StoresKept
  /\ MovesOnly(h)
  /\ step[h] \notin SavingSteps /\ step'[h] \notin SavingSteps

(* The functions over the handlers stay functions over them. *)
Typed ==
  /\ LimiterTypeOK
  /\ step \in [Handler -> Steps]
  /\ DOMAIN form = Handler /\ DOMAIN snap = Handler /\ DOMAIN cont = Handler
  /\ DOMAIN settings = Store /\ DOMAIN settingsFile = Store

(* A step of h keeps the shape if h carries what it needs. *)
LEMMA ShapeOfOne ==
  ASSUME AdminShape, NEW h \in Handler, MovesOnly(h), Typed',
         \A k \in Handler \ {h} : attempt'[k] = attempt[k],
         Carries(h)'
  PROVE  AdminShape'
<1>1. ASSUME NEW k \in Handler, k # h PROVE Carries(k)'
  <2>1. Carries(k)
    BY DEF AdminShape
  <2>2. step'[k] = step[k] /\ form'[k] = form[k] /\ cont'[k] = cont[k] /\ attempt'[k] = attempt[k]
    BY <1>1 DEF MovesOnly
  <2>. QED
    BY <2>1, <2>2 DEF Carries
<1>. QED
  BY <1>1 DEF AdminShape, Typed

(* The limiter's variables do not move. *)
LEMMA LimiterStays ==
  ASSUME LimiterTypeOK, UNCHANGED limiterVars
  PROVE  LimiterTypeOK' /\ attempt' = attempt /\ now' = now
  BY DEF LimiterTypeOK, limiterVars

(* Every request arrives without touching a store. *)
LEMMA ArriveIsQuiet ==
  ASSUME AdminShape, NEW h \in Handler, NEW s \in Steps \ SavingSteps, NEW input,
         Arrive(h, s, input), s \notin {"record", "login"},
         s = "set" => input \in Form /\ (input.store = "algorithm" => input.algorithm \in Algorithms)
  PROVE  Quiet(h) /\ AdminShape'
<1>1. UNCHANGED limiterVars /\ UNCHANGED snap /\ UNCHANGED cont /\ step[h] = "idle"
  BY DEF Arrive
<1>2. LimiterTypeOK' /\ attempt' = attempt
  BY <1>1, LimiterStays DEF AdminShape
<1>3. step' = [step EXCEPT ![h] = s] /\ form' = [form EXCEPT ![h] = input]
  BY DEF Arrive, Goto
<1>4. StoresKept
  BY DEF Arrive, StoresKept, memoryVars, fileVars, ghostVars
<1>5. MovesOnly(h) /\ step'[h] = s /\ form'[h] = input
  BY <1>1, <1>3 DEF MovesOnly, AdminShape
<1>6. Typed'
  BY <1>1, <1>2, <1>3, <1>4 DEF Typed, AdminShape, StoresKept, Steps, SavingSteps
<1>7. attempt[h] = "none"
  BY <1>1 DEF AdminShape, Carries
<1>8. Carries(h)'
  BY <1>2, <1>5, <1>7 DEF Carries, SavingSteps
<1>. QED
  BY <1>1, <1>2, <1>4, <1>5, <1>6, <1>8, ShapeOfOne DEF Quiet, SavingSteps, CredSteps

(* The response ends a request that is not saving. *)
LEMMA RespondIsQuiet ==
  ASSUME AdminShape, NEW h \in Handler, Respond(h), UNCHANGED limiterVars, StoresKept,
         step[h] \notin SavingSteps \cup {"login"}
  PROVE  Quiet(h) /\ AdminShape'
<1>1. LimiterTypeOK' /\ attempt' = attempt
  BY LimiterStays DEF AdminShape
<1>2. MovesOnly(h) /\ step'[h] = "idle"
  BY DEF Respond, Goto, MovesOnly, AdminShape
<1>3. Typed'
  BY <1>1 DEF Respond, Goto, Typed, AdminShape, StoresKept, Steps
<1>4. attempt[h] = "none"
  BY DEF AdminShape, Carries
<1>5. Carries(h)'
  BY <1>1, <1>2, <1>4 DEF Carries
<1>. QED
  BY <1>1, <1>2, <1>3, <1>5, ShapeOfOne DEF Quiet, SavingSteps, CredSteps

(* A request goes on without leaving anything behind. *)
LEMMA GotoIsQuiet ==
  ASSUME AdminShape, NEW h \in Handler,
         NEW s \in {"setPassword", "setRoutes", "edited"}, Goto(h, s),
         DOMAIN form' = Handler, \A k \in Handler \ {h} : form'[k] = form[k],
         UNCHANGED <<limiterVars, snap, cont>>, StoresKept,
         step[h] \notin SavingSteps \cup {"login"}
  PROVE  Quiet(h) /\ AdminShape'
<1>1. LimiterTypeOK' /\ attempt' = attempt
  BY LimiterStays DEF AdminShape
<1>2. MovesOnly(h) /\ step'[h] = s
  BY DEF Goto, MovesOnly, AdminShape
<1>3. Typed'
  BY <1>1 DEF Goto, Typed, AdminShape, StoresKept, Steps
<1>4. attempt[h] = "none"
  BY DEF AdminShape, Carries
<1>5. Carries(h)'
  BY <1>1, <1>2, <1>4 DEF Carries
<1>. QED
  BY <1>1, <1>2, <1>3, <1>5, ShapeOfOne DEF Quiet, SavingSteps, CredSteps

(* A request goes on to the audit log. *)
LEMMA RecordIsQuiet ==
  ASSUME AdminShape, NEW h \in Handler, NEW event, NEW then \in {"respond", "issue", "clear"},
         Record(h, event, then), DOMAIN form' = Handler,
         \A k \in Handler \ {h} : form'[k] = form[k] /\ attempt'[k] = attempt[k],
         LimiterTypeOK', attempt'[h] = "none", UNCHANGED snap,
         DOMAIN settings' = Store, DOMAIN settingsFile' = Store
  PROVE  MovesOnly(h) /\ step'[h] = "record" /\ AdminShape'
<1>1. MovesOnly(h) /\ step'[h] = "record" /\ cont'[h].then = then
  BY DEF Record, Goto, MovesOnly, AdminShape
<1>2. Typed'
  BY DEF Record, Goto, Typed, AdminShape, Steps
<1>3. Carries(h)'
  BY <1>1 DEF Carries
<1>. QED
  BY <1>1, <1>2, <1>3, ShapeOfOne

-----------------------------------------------------------------------------
(* The requests that touch no store *)

QuietRequest(h) ==
  \/ \E p \in Password : LoginSubmit(h, p)
  \/ LoginVerify(h) \/ LoginFails(h) \/ LoginSucceeds(h)
  \/ IssueSession(h) \/ Logout(h) \/ ClearSession(h)
  \/ \E f \in Form : \/ OverrideSubmit(h, f) \/ AlgorithmSubmit(h, f)
                    \/ StickySubmit(h, f) \/ RateLimitSubmit(h, f)
  \/ \E p, q \in Password : PasswordSubmit(h, p, q)
  \/ VerifyCurrent(h)
  \/ RoutesPage(h) \/ EditRows(h) \/ RoutesSubmit(h) \/ SetRoutes(h)

(* A login: let in, verified, counted, or turned away. *)
LEMMA LoginIsQuiet ==
  ASSUME AdminShape, NEW h \in Handler,
         \/ \E p \in Password : LoginSubmit(h, p)
         \/ LoginVerify(h) \/ LoginFails(h) \/ LoginSucceeds(h)
  PROVE  Quiet(h) /\ AdminShape'
<1>0. /\ LimiterTypeOK /\ attempt \in [Handler -> {"none", "verifying", "failure", "success"}]
      /\ DOMAIN form = Handler /\ DOMAIN snap = Handler /\ DOMAIN cont = Handler
      /\ step \in [Handler -> Steps] /\ Carries(h)
  BY DEF AdminShape, LimiterTypeOK
<1>1. ASSUME NEW p \in Password, LoginSubmit(h, p) PROVE Quiet(h) /\ AdminShape'
  <2>1. /\ step[h] = "idle" /\ attempt[h] = "none" /\ UNCHANGED snap /\ StoresKept
        /\ DOMAIN form' = Handler /\ \A k \in Handler \ {h} : form'[k] = form[k]
    BY <1>0, <1>1 DEF LoginSubmit, Carries, StoresKept, memoryVars, fileVars, ghostVars
  <2>2. CASE Submit(h) /\ Goto(h, "login") /\ UNCHANGED cont
    <3>1. /\ LimiterTypeOK' /\ \A k \in Handler \ {h} : attempt'[k] = attempt[k]
      BY <1>0, <2>2 DEF Submit, LimiterTypeOK
    <3>2. MovesOnly(h) /\ step'[h] = "login" /\ step' \in [Handler -> Steps]
      BY <1>0, <2>1, <2>2 DEF Goto, MovesOnly, Steps
    <3>3. Typed'
      BY <2>1, <2>2, <3>1, <3>2 DEF Typed, AdminShape, StoresKept
    <3>4. Carries(h)'
      BY <3>2 DEF Carries
    <3>. QED
      BY <2>1, <3>1, <3>2, <3>3, <3>4, ShapeOfOne DEF Quiet, SavingSteps, CredSteps
  <2>3. CASE Record(h, "login_rate_limited", "respond") /\ UNCHANGED limiterVars
    <3>1. LimiterTypeOK' /\ attempt' = attempt
      BY <1>0, <2>3, LimiterStays
    <3>2. DOMAIN settings' = Store /\ DOMAIN settingsFile' = Store
      BY <2>1 DEF StoresKept, AdminShape
    <3>3. MovesOnly(h) /\ step'[h] = "record" /\ AdminShape'
      BY <2>1, <2>3, <3>1, <3>2, RecordIsQuiet
    <3>. QED
      BY <2>1, <3>3 DEF Quiet, SavingSteps, CredSteps
  <2>. QED
    BY <1>1, <2>2, <2>3 DEF LoginSubmit
<1>2. ASSUME LoginVerify(h) PROVE Quiet(h) /\ AdminShape'
  <2>1. /\ step[h] = "login" /\ UNCHANGED <<step, form, snap, cont>> /\ StoresKept
    BY <1>2 DEF LoginVerify, requestVars, StoresKept, memoryVars, fileVars, ghostVars
  <2>2. LimiterTypeOK' /\ \A k \in Handler \ {h} : attempt'[k] = attempt[k]
    BY <1>0, <1>2 DEF LoginVerify, Verify, LimiterTypeOK
  <2>3. MovesOnly(h)
    BY <2>1 DEF MovesOnly
  <2>4. Typed'
    BY <2>1, <2>2 DEF Typed, AdminShape, StoresKept
  <2>5. Carries(h)'
    BY <1>0, <2>1 DEF Carries
  <2>. QED
    BY <2>1, <2>2, <2>3, <2>4, <2>5, ShapeOfOne DEF Quiet, SavingSteps, CredSteps
<1>3. ASSUME LoginFails(h) \/ LoginSucceeds(h) PROVE Quiet(h) /\ AdminShape'
  <2>1. /\ UNCHANGED <<form, snap>> /\ StoresKept /\ attempt[h] # "none"
        /\ attempt' = [attempt EXCEPT ![h] = "none"] /\ now' = now
    BY <1>3 DEF LoginFails, LoginSucceeds, RecordFailure, RecordSuccess, StoresKept,
                memoryVars, fileVars, ghostVars
  <2>2. step[h] = "login"
    BY <1>0, <2>1 DEF Carries
  <2>3. byIP' \in [failures : Nat, first : Int, locked : Int]
    <3>1. byIP' = Failed \/ byIP' = NoEntry
      BY <1>3 DEF LoginFails, LoginSucceeds, RecordFailure, RecordSuccess
    <3>2. NoEntry \in [failures : Nat, first : Int, locked : Int]
      BY DEF NoEntry
    <3>3. Failed \in [failures : Nat, first : Int, locked : Int]
      BY <1>0, LimiterAssumption DEF Failed, LimiterTypeOK
    <3>. QED
      BY <3>1, <3>2, <3>3
  <2>4. /\ LimiterTypeOK' /\ attempt'[h] = "none"
        /\ \A k \in Handler \ {h} : attempt'[k] = attempt[k]
    BY <1>0, <2>1, <2>3 DEF LimiterTypeOK
  <2>5. DOMAIN settings' = Store /\ DOMAIN settingsFile' = Store
    BY <2>1 DEF StoresKept, AdminShape
  <2>6. \/ Record(h, "login_failure", "respond")
        \/ Record(h, "login_success", "issue")
    BY <1>3 DEF LoginFails, LoginSucceeds
  <2>7. MovesOnly(h) /\ step'[h] = "record" /\ AdminShape'
    BY <1>0, <2>1, <2>4, <2>5, <2>6, RecordIsQuiet
  <2>. QED
    BY <2>1, <2>2, <2>7 DEF Quiet, SavingSteps, CredSteps
<1>. QED
  BY <1>1, <1>2, <1>3

(* A form or a page arrives. *)
LEMMA SubmitIsQuiet ==
  ASSUME AdminShape, NEW h \in Handler,
         \/ \E f \in Form : \/ OverrideSubmit(h, f) \/ AlgorithmSubmit(h, f)
                           \/ StickySubmit(h, f) \/ RateLimitSubmit(h, f)
         \/ \E p, q \in Password : PasswordSubmit(h, p, q)
         \/ RoutesPage(h)
  PROVE  Quiet(h) /\ AdminShape'
<1>0. {"set", "verifyCurrent", "editing"} \subseteq Steps \ SavingSteps
  BY DEF Steps, SavingSteps, CredSteps
<1>1. ASSUME NEW f \in Form,
             \/ OverrideSubmit(h, f) \/ AlgorithmSubmit(h, f)
             \/ StickySubmit(h, f) \/ RateLimitSubmit(h, f)
      PROVE  Quiet(h) /\ AdminShape'
  <2>1. Arrive(h, "set", f) /\ (f.store = "algorithm" => f.algorithm \in Algorithms)
    BY <1>1 DEF OverrideSubmit, AlgorithmSubmit, StickySubmit, RateLimitSubmit, AlgorithmTaken
  <2>. QED
    BY <1>0, <2>1, ArriveIsQuiet
<1>2. ASSUME NEW p \in Password, NEW q \in Password, PasswordSubmit(h, p, q)
      PROVE  Quiet(h) /\ AdminShape'
  BY <1>0, <1>2, ArriveIsQuiet DEF PasswordSubmit
<1>3. ASSUME RoutesPage(h) PROVE Quiet(h) /\ AdminShape'
  BY <1>0, <1>3, ArriveIsQuiet DEF RoutesPage
<1>. QED
  BY <1>1, <1>2, <1>3

LEMMA RequestIsQuiet ==
  ASSUME AdminShape, NEW h \in Handler, QuietRequest(h)
  PROVE  Quiet(h) /\ AdminShape'
<1>0. /\ LimiterTypeOK /\ DOMAIN form = Handler /\ Carries(h)
      /\ attempt \in [Handler -> {"none", "verifying", "failure", "success"}]
      /\ DOMAIN settings = Store /\ DOMAIN settingsFile = Store
  BY DEF AdminShape, LimiterTypeOK
<1>1. ASSUME IssueSession(h) \/ ClearSession(h) PROVE Quiet(h) /\ AdminShape'
  <2>1. /\ Respond(h) /\ step[h] \in {"issue", "clear"} /\ UNCHANGED limiterVars /\ StoresKept
    BY <1>1 DEF IssueSession, ClearSession, outerVars, StoresKept, memoryVars, fileVars, ghostVars
  <2>. QED
    BY <2>1, RespondIsQuiet DEF SavingSteps, CredSteps
<1>2. ASSUME Logout(h) \/ SetRoutes(h) PROVE Quiet(h) /\ AdminShape'
  <2>1. /\ step[h] \in {"idle", "setRoutes"} /\ UNCHANGED <<limiterVars, form, snap>> /\ StoresKept
        /\ \/ Record(h, "logout", "clear") \/ Record(h, "routes_changed", "respond")
    BY <1>2 DEF Logout, SetRoutes, outerVars, StoresKept, memoryVars, fileVars, ghostVars
  <2>2. LimiterTypeOK' /\ attempt' = attempt
    BY <1>0, <2>1, LimiterStays
  <2>3. attempt'[h] = "none"
    BY <1>0, <2>1, <2>2 DEF Carries
  <2>4. DOMAIN settings' = Store /\ DOMAIN settingsFile' = Store
    BY <1>0, <2>1 DEF StoresKept
  <2>5. MovesOnly(h) /\ step'[h] = "record" /\ AdminShape'
    BY <1>0, <2>1, <2>2, <2>3, <2>4, RecordIsQuiet
  <2>. QED
    BY <2>1, <2>5 DEF Quiet, SavingSteps, CredSteps
<1>3. ASSUME VerifyCurrent(h) \/ RoutesSubmit(h) PROVE Quiet(h) /\ AdminShape'
  <2>1. /\ step[h] \in {"verifyCurrent", "editing", "edited"}
        /\ UNCHANGED limiterVars /\ StoresKept
    BY <1>3 DEF VerifyCurrent, RoutesSubmit, outerVars, StoresKept, memoryVars, fileVars, ghostVars
  <2>2. \/ Respond(h)
        \/ /\ Goto(h, "setPassword") \/ Goto(h, "setRoutes")
           /\ UNCHANGED <<form, snap, cont>>
    BY <1>3 DEF VerifyCurrent, RoutesSubmit
  <2>3. step[h] \notin SavingSteps \cup {"login"}
    BY <2>1 DEF SavingSteps, CredSteps
  <2>4. CASE Respond(h)
    BY <2>1, <2>3, <2>4, RespondIsQuiet
  <2>5. CASE /\ Goto(h, "setPassword") \/ Goto(h, "setRoutes")
             /\ UNCHANGED <<form, snap, cont>>
    BY <1>0, <2>1, <2>3, <2>5, GotoIsQuiet
  <2>. QED
    BY <2>2, <2>4, <2>5
<1>4. ASSUME EditRows(h) PROVE Quiet(h) /\ AdminShape'
  <2>1. /\ step[h] = "editing" /\ UNCHANGED <<limiterVars, snap, cont>> /\ StoresKept
        /\ Goto(h, "edited")
    BY <1>4 DEF EditRows, outerVars, StoresKept, memoryVars, fileVars, ghostVars
  <2>2. DOMAIN form' = Handler /\ \A k \in Handler \ {h} : form'[k] = form[k]
    BY <1>0, <1>4 DEF EditRows
  <2>3. step[h] \notin SavingSteps \cup {"login"}
    BY <2>1 DEF SavingSteps, CredSteps
  <2>. QED
    BY <2>1, <2>2, <2>3, GotoIsQuiet
<1>. QED
  BY <1>1, <1>2, <1>3, <1>4, LoginIsQuiet, SubmitIsQuiet DEF QuietRequest

-----------------------------------------------------------------------------
(* What a quiet step keeps *)

LEMMA QuietKeeps ==
  ASSUME AdminInv, NEW h \in Handler, Quiet(h), AdminShape'
  PROVE  AdminInv'
<1>0. /\ step \in [Handler -> Steps] /\ step' \in [Handler -> Steps] /\ StoresKept
  BY DEF AdminInv, AdminShape, Quiet
<1>1. ASSUME NEW k \in Handler, step'[k] \in SavingSteps \/ step[k] \in SavingSteps
      PROVE  k # h /\ step'[k] = step[k] /\ form'[k] = form[k] /\ snap'[k] = snap[k]
  BY <1>1 DEF Quiet, MovesOnly
<1>2. \A k \in Handler : /\ step'[k] \in CredSteps <=> step[k] \in CredSteps
                         /\ step'[k] = "saveCred" => step[k] = "saveCred" /\ snap'[k] = snap[k]
                         /\ step'[k] = "saveAudit" <=> step[k] = "saveAudit"
                         /\ step'[k] = "saveAudit" => snap'[k] = snap[k]
                         /\ step'[k] = "saveSetting" <=> step[k] = "saveSetting"
                         /\ step'[k] = "saveSetting" =>
                              snap'[k] = snap[k] /\ form'[k] = form[k]
  BY <1>1 DEF SavingSteps, CredSteps
<1>3. CredInv'
  BY <1>0, <1>2 DEF AdminInv, CredInv, StoresKept
<1>4. AuditInv'
  BY <1>0, <1>2 DEF AdminInv, AuditInv, StoresKept
<1>5. ASSUME NEW s \in Store PROVE SettingInv(s)'
  <2>1. SettingInv(s)
    BY DEF AdminInv
  <2>2. \A k \in Handler : Saves(k, s)' <=> Saves(k, s)
    BY <1>2 DEF Saves
  <2>3. \A k \in Handler : Saves(k, s) => snap'[k] = snap[k]
    BY <1>2 DEF Saves
  <2>. QED
    BY <1>0, <2>1, <2>2, <2>3 DEF SettingInv, StoresKept
<1>6. SaneInv'
  <2>1. ASSUME NEW s \in Store PROVE SaneStore(s, settings'[s]) /\ SaneStore(s, settingsFile'[s])
    BY <1>0 DEF AdminInv, SaneInv, StoresKept
  <2>2. ASSUME NEW k \in Handler, step'[k] = "saveSetting"
        PROVE  SaneStore(form'[k].store, snap'[k])
    BY <1>2, <2>2 DEF AdminInv, SaneInv
  <2>. QED
    BY <2>1, <2>2 DEF SaneInv, SaneStore
<1>. QED
  BY <1>3, <1>4, <1>5, <1>6 DEF AdminInv

-----------------------------------------------------------------------------
(* Overlapping saves *)

LEMMA CredInProgress ==
  ASSUME NEW h
  PROVE  SaveInProgress(h, "cred") <=> \E k \in Handler \ {h} : step[k] \in CredSteps
  BY DEF SaveInProgress, CredSteps

LEMMA AuditInProgress ==
  ASSUME NEW h
  PROVE  SaveInProgress(h, "audit") <=> \E k \in Handler \ {h} : step[k] = "saveAudit"
  BY DEF SaveInProgress

LEMMA SettingInProgress ==
  ASSUME NEW h, NEW s \in Store
  PROVE  SaveInProgress(h, s) <=> \E k \in Handler \ {h} : Saves(k, s)
<1>1. s # "cred" /\ s # "audit"
  BY DEF Store
<1>. QED
  BY <1>1 DEF SaveInProgress, Saves

(* Only the store that changes is marked, and it is if another request is  *)
(* saving it.                                                              *)
LEMMA OverlapNoted ==
  ASSUME NEW h, NEW s, NoteOverlap(h, s)
  PROVE  /\ overlapped \subseteq overlapped'
         /\ \A t : t # s => (t \in overlapped' <=> t \in overlapped)
         /\ s \notin overlapped' => s \notin overlapped /\ ~SaveInProgress(h, s)
  BY DEF NoteOverlap

-----------------------------------------------------------------------------
(* A store that a step does not touch keeps its part of the invariant *)

LEMMA CredFrame ==
  ASSUME CredInv, UNCHANGED <<cred, credFile, secrets, acked>>,
         "cred" \in overlapped' <=> "cred" \in overlapped,
         "cred" \in failed' <=> "cred" \in failed,
         \A k \in Handler : /\ step'[k] \in CredSteps <=> step[k] \in CredSteps
                            /\ step'[k] = "saveCred" => step[k] = "saveCred" /\ snap'[k] = snap[k]
  PROVE  CredInv'
  BY DEF CredInv

LEMMA AuditFrame ==
  ASSUME AuditInv, UNCHANGED <<audit, auditFile>>,
         "audit" \in overlapped' <=> "audit" \in overlapped,
         "audit" \in failed' <=> "audit" \in failed,
         \A k \in Handler : /\ step'[k] = "saveAudit" <=> step[k] = "saveAudit"
                            /\ step'[k] = "saveAudit" => snap'[k] = snap[k]
  PROVE  AuditInv'
  BY DEF AuditInv

LEMMA SettingFrame ==
  ASSUME NEW s \in Store, SettingInv(s),
         settings'[s] = settings[s], settingsFile'[s] = settingsFile[s],
         s \in overlapped' <=> s \in overlapped, s \in failed' <=> s \in failed,
         \A k \in Handler : /\ Saves(k, s)' <=> Saves(k, s)
                            /\ Saves(k, s) => snap'[k] = snap[k]
  PROVE  SettingInv(s)'
  BY DEF SettingInv

LEMMA SaneFrame ==
  ASSUME SaneInv, UNCHANGED <<settings, settingsFile>>,
         \A k \in Handler : step'[k] = "saveSetting" =>
            step[k] = "saveSetting" /\ snap'[k] = snap[k] /\ form'[k] = form[k]
  PROVE  SaneInv'
<1>1. ASSUME NEW s \in Store PROVE SaneStore(s, settings'[s]) /\ SaneStore(s, settingsFile'[s])
  BY DEF SaneInv
<1>2. ASSUME NEW k \in Handler, step'[k] = "saveSetting"
      PROVE  SaneStore(form'[k].store, snap'[k])
  BY <1>2 DEF SaneInv
<1>. QED
  BY <1>1, <1>2 DEF SaneInv, SaneStore

(* The names of the stores differ. *)
LEMMA StoreNames == "cred" # "audit" /\ \A s \in Store : s # "cred" /\ s # "audit"
  BY DEF Store

-----------------------------------------------------------------------------
(* Credentials *)

(* A password change: the new secret is the newest there is. *)
LEMMA SetPasswordKeeps ==
  ASSUME AdminInv, NEW h \in Handler, SetPassword(h)
  PROVE  AdminInv'
<1>0. /\ LimiterTypeOK /\ step \in [Handler -> Steps] /\ Carries(h) /\ CredInv
      /\ DOMAIN settings = Store /\ DOMAIN settingsFile = Store
  BY DEF AdminInv, AdminShape
<1>1. /\ step[h] = "setPassword" /\ secrets' = secrets + 1
      /\ cred' = [password |-> form[h].new, secret |-> secrets']
      /\ step' = [step EXCEPT ![h] = "marshal"]
      /\ UNCHANGED <<limiterVars, settings, audit, credFile, settingsFile, auditFile, form, snap,
                     cont, acked, failed>>
  BY DEF SetPassword, Goto, outerVars, fileVars
<1>2. NoteOverlap(h, "cred")
  BY DEF SetPassword
<1>3. /\ \A t : t # "cred" => (t \in overlapped' <=> t \in overlapped)
      /\ "cred" \notin overlapped' =>
           "cred" \notin overlapped /\ \A k \in Handler \ {h} : step[k] \notin CredSteps
  BY <1>2, OverlapNoted, CredInProgress
<1>4. /\ step'[h] = "marshal" /\ \A k \in Handler \ {h} : step'[k] = step[k]
      /\ step' \in [Handler -> Steps]
  BY <1>0, <1>1 DEF Steps
<1>5. LimiterTypeOK' /\ attempt' = attempt
  BY <1>0, <1>1, LimiterStays
<1>6. AdminShape'
  <2>1. MovesOnly(h)
    BY <1>1, <1>4 DEF MovesOnly
  <2>2. Typed'
    BY <1>1, <1>4, <1>5 DEF Typed, AdminInv, AdminShape
  <2>3. Carries(h)'
    BY <1>0, <1>1, <1>4, <1>5 DEF Carries
  <2>. QED
    BY <1>5, <2>1, <2>2, <2>3, ShapeOfOne DEF AdminInv
<1>7. CredInv'
  <2>1. cred'.secret = secrets + 1
    BY <1>1
  <2>2. /\ secrets' \in Nat
        /\ acked' \in 0..secrets' /\ cred'.secret \in 0..secrets' /\ credFile'.secret \in 0..secrets'
    BY <1>0, <1>1, <2>1 DEF CredInv
  <2>3. \A k \in Handler : step'[k] = "saveCred" =>
           k # h /\ step[k] = "saveCred" /\ snap'[k].secret \in 0..secrets'
    BY <1>0, <1>1, <1>4 DEF CredInv
  <2>4. "cred" \notin overlapped' =>
          /\ acked' <= cred'.secret /\ acked' <= credFile'.secret
          /\ \A i, k \in Handler : step'[i] \in CredSteps /\ step'[k] \in CredSteps => i = k
          /\ \A k \in Handler : step'[k] = "saveCred" => snap'[k] = cred'
    BY <1>0, <1>1, <1>3, <1>4, <2>1, <2>3 DEF CredInv, CredSteps
  <2>5. step'[h] \in CredSteps
    BY <1>4 DEF CredSteps
  <2>. QED
    BY <2>2, <2>3, <2>4, <2>5 DEF CredInv
<1>8. AuditInv'
  BY <1>1, <1>3, <1>4, AuditFrame, StoreNames DEF AdminInv
<1>9. ASSUME NEW s \in Store PROVE SettingInv(s)'
  <2>1. \A k \in Handler : Saves(k, s)' <=> Saves(k, s)
    BY <1>1, <1>4 DEF Saves
  <2>. QED
    BY <1>1, <1>3, <2>1, SettingFrame, StoreNames DEF AdminInv
<1>10. SaneInv'
  BY <1>1, <1>4, SaneFrame DEF AdminInv
<1>. QED
  BY <1>6, <1>7, <1>8, <1>9, <1>10 DEF AdminInv

(* The copy is taken: without overlap it is the one in force. *)
LEMMA MarshalKeeps ==
  ASSUME AdminInv, NEW h \in Handler, Marshal(h)
  PROVE  AdminInv'
<1>0. /\ LimiterTypeOK /\ step \in [Handler -> Steps] /\ Carries(h) /\ CredInv
      /\ DOMAIN snap = Handler
  BY DEF AdminInv, AdminShape
<1>1. /\ step[h] = "marshal" /\ snap' = [snap EXCEPT ![h] = cred]
      /\ step' = [step EXCEPT ![h] = "saveCred"]
      /\ UNCHANGED <<limiterVars, cred, secrets, settings, audit, credFile, settingsFile,
                     auditFile, form, cont, acked, overlapped, failed>>
  BY DEF Marshal, Goto, StateToSave, outerVars, memoryVars, fileVars, ghostVars
<1>2. /\ step'[h] = "saveCred" /\ snap'[h] = cred /\ DOMAIN snap' = Handler
      /\ \A k \in Handler \ {h} : step'[k] = step[k] /\ snap'[k] = snap[k]
      /\ step' \in [Handler -> Steps]
  BY <1>0, <1>1 DEF Steps
<1>3. LimiterTypeOK' /\ attempt' = attempt
  BY <1>0, <1>1, LimiterStays
<1>4. AdminShape'
  <2>1. MovesOnly(h)
    BY <1>1, <1>2 DEF MovesOnly
  <2>2. Typed'
    BY <1>1, <1>2, <1>3 DEF Typed, AdminInv, AdminShape
  <2>3. Carries(h)'
    BY <1>0, <1>1, <1>2, <1>3 DEF Carries
  <2>. QED
    BY <1>3, <2>1, <2>2, <2>3, ShapeOfOne DEF AdminInv
<1>5. CredInv'
  <2>1. \A k \in Handler : step'[k] \in CredSteps <=> step[k] \in CredSteps
    BY <1>1, <1>2 DEF CredSteps
  <2>2. \A k \in Handler : step'[k] = "saveCred" => snap'[k].secret \in 0..secrets
    BY <1>0, <1>2 DEF CredInv
  <2>3. "cred" \notin overlapped => \A k \in Handler : step'[k] = "saveCred" => snap'[k] = cred
    BY <1>0, <1>2 DEF CredInv
  <2>. QED
    BY <1>0, <1>1, <2>1, <2>2, <2>3 DEF CredInv
<1>6. AuditInv'
  BY <1>1, <1>2, AuditFrame DEF AdminInv
<1>7. ASSUME NEW s \in Store PROVE SettingInv(s)'
  <2>1. \A k \in Handler : (Saves(k, s)' <=> Saves(k, s)) /\ (Saves(k, s) => snap'[k] = snap[k])
    BY <1>1, <1>2 DEF Saves
  <2>. QED
    BY <1>1, <2>1, SettingFrame DEF AdminInv
<1>8. SaneInv'
  BY <1>1, <1>2, SaneFrame DEF AdminInv
<1>. QED
  BY <1>4, <1>5, <1>6, <1>7, <1>8 DEF AdminInv

LEMMA MaxOfTwo ==
  ASSUME NEW a \in Nat, NEW b \in Nat
  PROVE  Max({a, b}) \in {a, b} /\ Max({a, b}) >= a /\ Max({a, b}) >= b
<1>1. \E x \in {a, b} : \A y \in {a, b} : x >= y
  <2>1. CASE a >= b
    BY <2>1
  <2>2. CASE b >= a
    BY <2>2
  <2>. QED
    BY <2>1, <2>2
<1>. QED
  BY <1>1 DEF Max

(* The save succeeds or fails.  Without overlap what is saved is in force, *)
(* so the change that is acknowledged is on disk.                          *)
LEMMA SaveCredKeeps ==
  ASSUME AdminInv, NEW h \in Handler, SaveCred(h)
  PROVE  AdminInv'
<1>0. /\ LimiterTypeOK /\ step \in [Handler -> Steps] /\ Carries(h) /\ CredInv
      /\ DOMAIN form = Handler /\ DOMAIN snap = Handler /\ DOMAIN cont = Handler
      /\ DOMAIN settings = Store /\ DOMAIN settingsFile = Store
  BY DEF AdminInv, AdminShape
<1>1. /\ step[h] = "saveCred"
      /\ UNCHANGED <<limiterVars, cred, secrets, settings, audit, settingsFile, auditFile,
                     overlapped>>
  BY DEF SaveCred, outerVars, memoryVars
<1>2. LimiterTypeOK' /\ attempt' = attempt /\ attempt'[h] = "none"
  <2>1. LimiterTypeOK' /\ attempt' = attempt
    BY <1>0, <1>1, LimiterStays
  <2>2. attempt[h] = "none"
    BY <1>0, <1>1 DEF Carries
  <2>. QED
    BY <2>1, <2>2
<1>3. \/ /\ credFile' = snap[h] /\ acked' = Max({acked, cred.secret})
         /\ Record(h, "password_changed", "issue") /\ UNCHANGED <<form, snap, failed>>
      \/ /\ failed' = failed \cup {"cred"} /\ Respond(h) /\ UNCHANGED <<credFile, acked>>
  BY DEF SaveCred
<1>4. MovesOnly(h) /\ step'[h] \in {"record", "idle"} /\ AdminShape'
  <2>1. CASE Record(h, "password_changed", "issue") /\ UNCHANGED <<form, snap>>
    BY <1>0, <1>1, <1>2, <2>1, RecordIsQuiet DEF AdminInv
  <2>2. CASE Respond(h)
    <3>1. MovesOnly(h) /\ step'[h] = "idle"
      BY <1>0, <2>2 DEF Respond, Goto, MovesOnly
    <3>2. Typed'
      BY <1>0, <1>1, <1>2, <2>2 DEF Respond, Goto, Typed, Steps
    <3>3. Carries(h)'
      BY <1>2, <3>1 DEF Carries
    <3>. QED
      BY <1>2, <3>1, <3>2, <3>3, ShapeOfOne DEF AdminInv
  <2>. QED
    BY <1>3, <2>1, <2>2
<1>5. \A t : t # "cred" => (t \in failed' <=> t \in failed)
  BY <1>3
<1>6. CredInv'
  <2>1. \A k \in Handler : step'[k] \in CredSteps =>
          k # h /\ step'[k] = step[k] /\ snap'[k] = snap[k]
    BY <1>4 DEF MovesOnly, CredSteps
  <2>2. step[h] \in CredSteps /\ "saveCred" \in CredSteps
    BY <1>1 DEF CredSteps
  <2>3. "cred" \notin overlapped =>
          (\A k \in Handler : step'[k] \notin CredSteps) /\ snap[h] = cred
    BY <1>0, <1>1, <2>1, <2>2 DEF CredInv
  <2>4. \A k \in Handler : step'[k] = "saveCred" => snap'[k].secret \in 0..secrets
    BY <1>0, <2>1, <2>2 DEF CredInv
  <2>5. CASE credFile' = snap[h] /\ acked' = Max({acked, cred.secret}) /\ UNCHANGED failed
    <3>1. /\ secrets \in Nat /\ acked \in Nat /\ cred.secret \in Nat
          /\ acked \in 0..secrets /\ cred.secret \in 0..secrets
      BY <1>0 DEF CredInv
    <3>2. acked' \in {acked, cred.secret} /\ acked' >= acked /\ acked' >= cred.secret
      BY <2>5, <3>1, MaxOfTwo
    <3>3. acked' \in 0..secrets /\ credFile'.secret \in 0..secrets
      BY <1>0, <1>1, <2>5, <3>1, <3>2 DEF CredInv
    <3>4. "cred" \notin overlapped => acked' <= cred.secret /\ credFile' = cred
      BY <1>0, <2>3, <2>5, <3>1, <3>2 DEF CredInv
    <3>. QED
      BY <1>0, <1>1, <2>2, <2>3, <2>4, <3>1, <3>3, <3>4 DEF CredInv
  <2>6. CASE failed' = failed \cup {"cred"} /\ UNCHANGED <<credFile, acked>>
    BY <1>0, <1>1, <2>2, <2>3, <2>4, <2>6 DEF CredInv
  <2>. QED
    BY <1>3, <2>5, <2>6
<1>7. \A k \in Handler : step'[k] \in {"saveAudit", "saveSetting"} \/ step[k] \in {"saveAudit", "saveSetting"} =>
         step'[k] = step[k] /\ snap'[k] = snap[k] /\ form'[k] = form[k]
  BY <1>1, <1>4 DEF MovesOnly
<1>8. AuditInv'
  BY <1>1, <1>5, <1>7, AuditFrame, StoreNames DEF AdminInv
<1>9. ASSUME NEW s \in Store PROVE SettingInv(s)'
  <2>1. \A k \in Handler : (Saves(k, s)' <=> Saves(k, s)) /\ (Saves(k, s) => snap'[k] = snap[k])
    BY <1>7 DEF Saves
  <2>. QED
    BY <1>1, <1>5, <2>1, SettingFrame, StoreNames DEF AdminInv
<1>10. SaneInv'
  BY <1>1, <1>7, SaneFrame DEF AdminInv
<1>. QED
  BY <1>4, <1>6, <1>8, <1>9, <1>10 DEF AdminInv

-----------------------------------------------------------------------------
(* The audit log *)

LEMMA AuditRecordKeeps ==
  ASSUME AdminInv, NEW h \in Handler, AuditRecord(h)
  PROVE  AdminInv'
<1>0. /\ LimiterTypeOK /\ step \in [Handler -> Steps] /\ Carries(h) /\ DOMAIN snap = Handler
  BY DEF AdminInv, AdminShape
<1>1. /\ step[h] = "record" /\ snap' = [snap EXCEPT ![h] = audit']
      /\ step' = [step EXCEPT ![h] = "saveAudit"]
      /\ UNCHANGED <<limiterVars, cred, secrets, settings, credFile, settingsFile, auditFile,
                     form, cont, acked, failed>>
  BY DEF AuditRecord, Goto, outerVars, fileVars
<1>2. NoteOverlap(h, "audit")
  BY DEF AuditRecord
<1>3. /\ \A t : t # "audit" => (t \in overlapped' <=> t \in overlapped)
      /\ "audit" \notin overlapped' =>
           "audit" \notin overlapped /\ \A k \in Handler \ {h} : step[k] # "saveAudit"
  BY <1>2, OverlapNoted, AuditInProgress
<1>4. /\ step'[h] = "saveAudit" /\ snap'[h] = audit' /\ DOMAIN snap' = Handler
      /\ \A k \in Handler \ {h} : step'[k] = step[k] /\ snap'[k] = snap[k]
      /\ step' \in [Handler -> Steps]
  BY <1>0, <1>1 DEF Steps
<1>5. LimiterTypeOK' /\ attempt' = attempt
  BY <1>0, <1>1, LimiterStays
<1>6. AdminShape'
  <2>1. MovesOnly(h)
    BY <1>1, <1>4 DEF MovesOnly
  <2>2. Typed'
    BY <1>1, <1>4, <1>5 DEF Typed, AdminInv, AdminShape
  <2>3. Carries(h)'
    BY <1>0, <1>1, <1>4, <1>5 DEF Carries
  <2>. QED
    BY <1>5, <2>1, <2>2, <2>3, ShapeOfOne DEF AdminInv
<1>7. CredInv'
  <2>1. \A k \in Handler : /\ step'[k] \in CredSteps <=> step[k] \in CredSteps
                           /\ step'[k] = "saveCred" => step[k] = "saveCred" /\ snap'[k] = snap[k]
    BY <1>1, <1>4 DEF CredSteps
  <2>. QED
    BY <1>1, <1>3, <2>1, CredFrame, StoreNames DEF AdminInv
<1>8. AuditInv'
  BY <1>3, <1>4 DEF AuditInv
<1>9. ASSUME NEW s \in Store PROVE SettingInv(s)'
  <2>1. \A k \in Handler : (Saves(k, s)' <=> Saves(k, s)) /\ (Saves(k, s) => snap'[k] = snap[k])
    BY <1>1, <1>4 DEF Saves
  <2>. QED
    BY <1>1, <1>3, <2>1, SettingFrame, StoreNames DEF AdminInv
<1>10. SaneInv'
  BY <1>1, <1>4, SaneFrame DEF AdminInv
<1>. QED
  BY <1>6, <1>7, <1>8, <1>9, <1>10 DEF AdminInv

LEMMA AuditSaveKeeps ==
  ASSUME AdminInv, NEW h \in Handler, AuditSave(h)
  PROVE  AdminInv'
<1>0. /\ LimiterTypeOK /\ step \in [Handler -> Steps] /\ Carries(h) /\ AuditInv
      /\ DOMAIN form = Handler /\ DOMAIN snap = Handler /\ DOMAIN cont = Handler
      /\ DOMAIN settings = Store /\ DOMAIN settingsFile = Store
  BY DEF AdminInv, AdminShape
<1>1. /\ step[h] = "saveAudit"
      /\ UNCHANGED <<limiterVars, cred, secrets, settings, audit, credFile, settingsFile, acked,
                     overlapped>>
      /\ \/ auditFile' = snap[h] /\ UNCHANGED failed
         \/ UNCHANGED auditFile /\ failed' = failed \cup {"audit"}
  BY DEF AuditSave, outerVars, memoryVars
<1>2. LimiterTypeOK' /\ attempt' = attempt /\ attempt[h] = "none"
  BY <1>0, <1>1, LimiterStays DEF Carries
<1>3. \/ Respond(h)
      \/ \E then \in {"issue", "clear"} : Goto(h, then) /\ UNCHANGED <<form, snap, cont>>
  <2>1. cont[h].then \in {"respond", "issue", "clear"}
    BY <1>0, <1>1 DEF Carries
  <2>. QED
    BY <2>1 DEF AuditSave
<1>4. /\ MovesOnly(h) /\ step'[h] \in {"idle", "issue", "clear"} /\ Typed'
  <2>1. CASE Respond(h)
    BY <1>0, <1>1, <1>2, <2>1 DEF Respond, Goto, MovesOnly, Typed, Steps
  <2>2. ASSUME NEW then \in {"issue", "clear"}, Goto(h, then), UNCHANGED <<form, snap, cont>>
        PROVE  MovesOnly(h) /\ step'[h] \in {"idle", "issue", "clear"} /\ Typed'
    BY <1>0, <1>1, <1>2, <2>2 DEF Goto, MovesOnly, Typed, Steps
  <2>. QED
    BY <1>3, <2>1, <2>2
<1>5. AdminShape'
  <2>1. Carries(h)'
    BY <1>2, <1>4 DEF Carries
  <2>. QED
    BY <1>2, <1>4, <2>1, ShapeOfOne DEF AdminInv
<1>6. \A t : t # "audit" => (t \in failed' <=> t \in failed)
  BY <1>1
<1>7. \A k \in Handler : step'[k] \in SavingSteps \/ step[k] \in CredSteps \cup {"saveSetting"} =>
         k # h /\ step'[k] = step[k] /\ snap'[k] = snap[k] /\ form'[k] = form[k]
  BY <1>1, <1>4 DEF MovesOnly, SavingSteps, CredSteps
<1>8. CredInv'
  <2>1. \A k \in Handler : /\ step'[k] \in CredSteps <=> step[k] \in CredSteps
                           /\ step'[k] = "saveCred" => step[k] = "saveCred" /\ snap'[k] = snap[k]
    BY <1>7 DEF SavingSteps, CredSteps
  <2>. QED
    BY <1>1, <1>6, <2>1, CredFrame, StoreNames DEF AdminInv
<1>9. AuditInv'
  <2>1. \A k \in Handler : step'[k] = "saveAudit" => k # h /\ step[k] = "saveAudit" /\ snap'[k] = snap[k]
    BY <1>7 DEF SavingSteps
  <2>2. "audit" \notin overlapped => snap[h] = audit /\ \A k \in Handler : step'[k] # "saveAudit"
    BY <1>0, <1>1, <2>1 DEF AuditInv
  <2>. QED
    BY <1>0, <1>1, <2>1, <2>2 DEF AuditInv
<1>10. ASSUME NEW s \in Store PROVE SettingInv(s)'
  <2>1. \A k \in Handler : (Saves(k, s)' <=> Saves(k, s)) /\ (Saves(k, s) => snap'[k] = snap[k])
    BY <1>7 DEF Saves, SavingSteps
  <2>. QED
    BY <1>1, <1>6, <2>1, SettingFrame, StoreNames DEF AdminInv
<1>11. SaneInv'
  BY <1>1, <1>7, SaneFrame DEF AdminInv, SavingSteps
<1>. QED
  BY <1>5, <1>8, <1>9, <1>10, <1>11 DEF AdminInv

-----------------------------------------------------------------------------
(* The settings *)

(* What a form leaves in its store is sane if the store was. *)
LEMMA ChangedIsSane ==
  ASSUME NEW f \in Form, f.store = "algorithm" => f.algorithm \in Algorithms,
         SaneStore(f.store, settings[f.store])
  PROVE  SaneStore(f.store, Changed(f))
<1>0. f.store \in Store
  BY AdminAssumption
<1>1. \A x : (x = Malformed \/ x \in Int) => PositiveOr0(x) \in Nat
  BY DEF PositiveOr0
<1>2. CASE f.store = "override"
  BY <1>2 DEF SaneStore
<1>3. CASE f.store = "algorithm"
  <2>1. Changed(f) = Put(settings["algorithm"], f.key, f.algorithm)
    BY <1>3 DEF Changed, AlgorithmSet
  <2>. QED
    BY <1>3, <2>1 DEF SaneStore, Put
<1>4. CASE f.store = "sticky"
  <2>1. Changed(f) = Put(settings["sticky"], f.key, StickyConfig(f))
    BY <1>4 DEF Changed, StickySet
  <2>2. StickyConfig(f).ttl \in Nat
    BY <1>1, <1>4, AdminAssumption DEF StickyConfig
  <2>. QED
    BY <1>4, <2>1, <2>2 DEF SaneStore, Put
<1>5. CASE f.store = "ratelimit"
  <2>1. Changed(f) = Put(settings["ratelimit"], f.key, RateLimitConfig(f))
    BY <1>5 DEF Changed, RateLimitSet
  <2>2. RateLimitConfig(f).rps \in Nat /\ RateLimitConfig(f).burst \in Nat
    BY <1>1, <1>5, AdminAssumption DEF RateLimitConfig
  <2>. QED
    BY <1>5, <2>1, <2>2 DEF SaneStore, Put
<1>. QED
  BY <1>0, <1>2, <1>3, <1>4, <1>5 DEF Store

(* A change of settings: without overlap the copy is what is in force. *)
LEMMA SetSettingKeeps ==
  ASSUME AdminInv, NEW h \in Handler, SetSetting(h)
  PROVE  AdminInv'
<1>. DEFINE f == form[h]
<1>0. /\ LimiterTypeOK /\ step \in [Handler -> Steps] /\ Carries(h)
      /\ DOMAIN snap = Handler /\ DOMAIN settings = Store
  BY DEF AdminInv, AdminShape
<1>1. /\ step[h] = "set" /\ settings' = [settings EXCEPT ![f.store] = Changed(f)]
      /\ snap' = [snap EXCEPT ![h] = Changed(f)]
      /\ step' = [step EXCEPT ![h] = "saveSetting"]
      /\ UNCHANGED <<limiterVars, cred, secrets, audit, credFile, settingsFile, auditFile,
                     form, cont, acked, failed>>
  BY DEF SetSetting, Clone, Goto, outerVars, fileVars
<1>2. /\ f \in Form /\ f.store \in Store
      /\ f.store = "algorithm" => f.algorithm \in Algorithms
  BY <1>0, <1>1, AdminAssumption DEF Carries
<1>3. NoteOverlap(h, f.store)
  BY DEF SetSetting
<1>4. /\ \A t : t # f.store => (t \in overlapped' <=> t \in overlapped)
      /\ f.store \notin overlapped' =>
           f.store \notin overlapped /\ \A k \in Handler \ {h} : ~Saves(k, f.store)
  BY <1>2, <1>3, OverlapNoted, SettingInProgress
<1>5. /\ step'[h] = "saveSetting" /\ snap'[h] = Changed(f) /\ DOMAIN snap' = Handler
      /\ \A k \in Handler \ {h} : step'[k] = step[k] /\ snap'[k] = snap[k]
      /\ step' \in [Handler -> Steps]
  BY <1>0, <1>1 DEF Steps
<1>6. /\ settings'[f.store] = Changed(f) /\ DOMAIN settings' = Store
      /\ \A s \in Store \ {f.store} : settings'[s] = settings[s]
  BY <1>0, <1>1, <1>2
<1>7. LimiterTypeOK' /\ attempt' = attempt
  BY <1>0, <1>1, LimiterStays
<1>. HIDE DEF f
<1>8. AdminShape'
  <2>1. MovesOnly(h)
    BY <1>1, <1>5 DEF MovesOnly
  <2>2. Typed'
    BY <1>1, <1>5, <1>6, <1>7 DEF Typed, AdminInv, AdminShape
  <2>3. Carries(h)'
    BY <1>0, <1>1, <1>5, <1>7 DEF Carries
  <2>. QED
    BY <1>7, <2>1, <2>2, <2>3, ShapeOfOne DEF AdminInv
<1>9. CredInv'
  <2>1. \A k \in Handler : /\ step'[k] \in CredSteps <=> step[k] \in CredSteps
                           /\ step'[k] = "saveCred" => step[k] = "saveCred" /\ snap'[k] = snap[k]
    BY <1>1, <1>5 DEF CredSteps
  <2>. QED
    BY <1>1, <1>2, <1>4, <2>1, CredFrame, StoreNames DEF AdminInv
<1>10. AuditInv'
  BY <1>1, <1>2, <1>4, <1>5, AuditFrame, StoreNames DEF AdminInv
<1>11. ASSUME NEW s \in Store PROVE SettingInv(s)'
  <2>1. (s = f.store => Saves(h, s)') /\ ~Saves(h, s)
    BY <1>1, <1>5 DEF Saves, f
  <2>2. \A k \in Handler \ {h} : (Saves(k, s)' <=> Saves(k, s)) /\ snap'[k] = snap[k]
    BY <1>1, <1>5 DEF Saves
  <2>3. CASE s = f.store
    BY <1>4, <1>5, <1>6, <2>1, <2>2, <2>3 DEF SettingInv
  <2>4. CASE s # f.store
    <3>1. ~Saves(h, s)'
      BY <1>1, <2>4 DEF Saves, f
    <3>. QED
      BY <1>1, <1>4, <1>6, <2>1, <2>2, <2>4, <3>1, SettingFrame DEF AdminInv
  <2>. QED
    BY <2>3, <2>4
<1>12. SaneInv'
  <2>1. SaneStore(f.store, Changed(f))
    BY <1>2, ChangedIsSane DEF AdminInv, SaneInv
  <2>2. ASSUME NEW s \in Store PROVE SaneStore(s, settings'[s]) /\ SaneStore(s, settingsFile'[s])
    BY <1>1, <1>6, <2>1 DEF AdminInv, SaneInv
  <2>3. ASSUME NEW k \in Handler, step'[k] = "saveSetting"
        PROVE  SaneStore(form'[k].store, snap'[k])
    BY <1>1, <1>5, <2>1, <2>3 DEF AdminInv, SaneInv, f
  <2>. QED
    BY <2>2, <2>3 DEF SaneInv, SaneStore
<1>. QED
  BY <1>8, <1>9, <1>10, <1>11, <1>12 DEF AdminInv

(* The copy is saved, or the save fails. *)
LEMMA PersistKeeps ==
  ASSUME AdminInv, NEW h \in Handler, NEW s \in Store, Persist(h, s)
  PROVE  AdminInv'
<1>0. /\ LimiterTypeOK /\ step \in [Handler -> Steps] /\ Carries(h)
      /\ DOMAIN form = Handler /\ DOMAIN settings = Store /\ DOMAIN settingsFile = Store
  BY DEF AdminInv, AdminShape
<1>1. /\ step[h] = "saveSetting" /\ form[h].store = s /\ Record(h, s, "respond")
      /\ \/ settingsFile' = [settingsFile EXCEPT ![s] = snap[h]] /\ UNCHANGED failed
         \/ UNCHANGED settingsFile /\ failed' = failed \cup {s}
      /\ UNCHANGED <<limiterVars, cred, secrets, settings, audit, credFile, auditFile,
                     form, snap, acked, overlapped>>
  BY DEF Persist, outerVars, memoryVars
<1>2. LimiterTypeOK' /\ attempt' = attempt
  BY <1>0, <1>1, LimiterStays
<1>3. /\ DOMAIN settingsFile' = Store
      /\ \A t \in Store \ {s} : settingsFile'[t] = settingsFile[t]
      /\ \/ settingsFile'[s] = snap[h] /\ UNCHANGED failed
         \/ settingsFile'[s] = settingsFile[s] /\ failed' = failed \cup {s}
  BY <1>0, <1>1
<1>4. attempt'[h] = "none"
  BY <1>0, <1>1, <1>2 DEF Carries
<1>5. MovesOnly(h) /\ step'[h] = "record" /\ AdminShape'
  BY <1>0, <1>1, <1>2, <1>3, <1>4, RecordIsQuiet DEF AdminInv
<1>6. \A t : t # s => (t \in failed' <=> t \in failed)
  BY <1>1
<1>7. \A k \in Handler \ {h} : step'[k] = step[k]
  BY <1>5 DEF MovesOnly
<1>8. CredInv'
  <2>1. \A k \in Handler : /\ step'[k] \in CredSteps <=> step[k] \in CredSteps
                           /\ step'[k] = "saveCred" => step[k] = "saveCred" /\ snap'[k] = snap[k]
    BY <1>1, <1>5, <1>7 DEF CredSteps
  <2>. QED
    BY <1>1, <1>6, <2>1, CredFrame, StoreNames DEF AdminInv
<1>9. AuditInv'
  BY <1>1, <1>5, <1>6, <1>7, AuditFrame, StoreNames DEF AdminInv
<1>10. ASSUME NEW t \in Store PROVE SettingInv(t)'
  <2>1. \A k \in Handler \ {h} : Saves(k, t)' <=> Saves(k, t)
    BY <1>1, <1>7 DEF Saves
  <2>2. ~Saves(h, t)' /\ (Saves(h, t) <=> t = s)
    BY <1>1, <1>5 DEF Saves
  <2>3. SettingInv(t)
    BY DEF AdminInv
  <2>4. CASE t = s
    <3>1. s \notin overlapped => snap[h] = settings[s] /\ \A k \in Handler : ~Saves(k, s)'
      BY <2>1, <2>2, <2>3, <2>4 DEF SettingInv
    <3>2. s \notin overlapped \cup failed' => settingsFile'[s] = snap[h]
      BY <1>3
    <3>. QED
      BY <1>1, <2>1, <2>3, <2>4, <3>1, <3>2 DEF SettingInv
  <2>5. CASE t # s
    BY <1>1, <1>3, <1>6, <2>1, <2>2, <2>3, <2>5, SettingFrame
  <2>. QED
    BY <2>4, <2>5
<1>11. SaneInv'
  <2>1. SaneStore(s, snap[h])
    BY <1>1 DEF AdminInv, SaneInv
  <2>2. ASSUME NEW t \in Store PROVE SaneStore(t, settings'[t]) /\ SaneStore(t, settingsFile'[t])
    BY <1>1, <1>3, <2>1 DEF AdminInv, SaneInv
  <2>3. ASSUME NEW k \in Handler, step'[k] = "saveSetting"
        PROVE  SaneStore(form'[k].store, snap'[k])
    BY <1>1, <1>5, <1>7, <2>3 DEF AdminInv, SaneInv
  <2>. QED
    BY <2>2, <2>3 DEF SaneInv, SaneStore
<1>. QED
  BY <1>5, <1>8, <1>9, <1>10, <1>11 DEF AdminInv

-----------------------------------------------------------------------------
(* A restart: no request is saving, and memory is what was on disk. *)

LEMMA RestartKeeps ==
  ASSUME AdminInv, NEW reset \in BOOLEAN, Restart(reset)
  PROVE  AdminInv'
<1>0. /\ LimiterTypeOK /\ step \in [Handler -> Steps] /\ CredInv /\ DOMAIN settingsFile = Store
  BY DEF AdminInv, AdminShape
<1>1. /\ Forget /\ UNCHANGED settingsFile /\ overlapped' = overlapped \cap {"cred"}
      /\ settings' = [override |-> settingsFile.override, algorithm |-> settingsFile.algorithm,
                      sticky |-> settingsFile.sticky, ratelimit |-> settingsFile.ratelimit]
      /\ snap' = [h \in Handler |-> None] /\ cont' = [h \in Handler |-> None]
      /\ DOMAIN form' = Handler /\ step' \in [Handler -> {"idle", "editing", "edited"}]
  BY DEF Restart, NewOverrideStore, NewAlgorithmStore, NewStickyStore, NewRateLimitStore
<1>2. \A s \in Store : settings'[s] = settingsFile[s]
  BY <1>1 DEF Store
<1>3. AdminShape'
  <2>1. LimiterTypeOK' /\ \A h \in Handler : attempt'[h] = "none"
    BY <1>0, <1>1 DEF Forget, LimiterTypeOK, NoEntry
  <2>2. \A h \in Handler : Carries(h)'
    BY <1>1, <2>1 DEF Carries
  <2>3. DOMAIN settings' = Store
    BY <1>1 DEF Store
  <2>. QED
    BY <1>0, <1>1, <2>1, <2>2, <2>3 DEF AdminShape, Steps
<1>4. \/ /\ secrets' = secrets + 1 /\ cred'.secret = secrets + 1 /\ credFile' = cred'
         /\ acked' = secrets' /\ failed' = IF auditFile' = audit' THEN {} ELSE {"audit"}
      \/ /\ cred' = credFile /\ audit' = auditFile /\ failed' = {}
         /\ UNCHANGED <<secrets, credFile, acked, auditFile>>
  <2>1. CASE reset = TRUE
    BY <2>1 DEF Restart
  <2>2. CASE reset = FALSE
    BY <2>2 DEF Restart
  <2>. QED
    BY <2>1, <2>2
<1>5. \A h \in Handler : step'[h] \notin SavingSteps
  BY <1>1 DEF SavingSteps, CredSteps
<1>6. CredInv'
  <2>1. \A h \in Handler : step'[h] \notin CredSteps /\ step'[h] # "saveCred"
    BY <1>5 DEF SavingSteps, CredSteps
  <2>2. "cred" \in overlapped' <=> "cred" \in overlapped
    BY <1>1
  <2>. QED
    BY <1>0, <1>4, <2>1, <2>2 DEF CredInv
<1>7. AuditInv'
  <2>1. \A h \in Handler : step'[h] # "saveAudit"
    BY <1>5 DEF SavingSteps
  <2>2. "audit" \notin failed' => auditFile' = audit'
    BY <1>4
  <2>. QED
    BY <2>1, <2>2 DEF AuditInv
<1>8. ASSUME NEW s \in Store PROVE SettingInv(s)'
  <2>1. \A h \in Handler : ~Saves(h, s)'
    BY <1>5 DEF SavingSteps, Saves
  <2>. QED
    BY <1>1, <1>2, <2>1 DEF SettingInv
<1>9. SaneInv'
  <2>1. ASSUME NEW s \in Store PROVE SaneStore(s, settings'[s]) /\ SaneStore(s, settingsFile'[s])
    BY <1>1, <1>2 DEF AdminInv, SaneInv
  <2>2. \A h \in Handler : step'[h] # "saveSetting"
    BY <1>5 DEF SavingSteps
  <2>. QED
    BY <2>1, <2>2 DEF SaneInv, SaneStore
<1>. QED
  BY <1>3, <1>6, <1>7, <1>8, <1>9 DEF AdminInv

-----------------------------------------------------------------------------
(* The theorems about the server *)

LEMMA AdminInvInit == AdminInit => AdminInv
<1>. SUFFICES ASSUME AdminInit PROVE AdminInv
  OBVIOUS
<1>1. /\ step = [h \in Handler |-> "idle"] /\ attempt = [h \in Handler |-> "none"]
      /\ settings = [s \in Store |-> <<>>] /\ settingsFile = settings
      /\ audit = <<>> /\ auditFile = <<>> /\ now = 0 /\ byIP = NoEntry
      /\ cred.secret = 0 /\ credFile = cred /\ secrets = 0 /\ acked = 0
      /\ DOMAIN form = Handler /\ DOMAIN snap = Handler /\ DOMAIN cont = Handler
  BY DEF AdminInit, LimiterInit
<1>2. AdminShape
  BY <1>1 DEF AdminShape, Carries, Steps, LimiterTypeOK, NoEntry
<1>3. CredInv /\ AuditInv
  BY <1>1 DEF CredInv, AuditInv, CredSteps
<1>4. \A s \in Store : SettingInv(s)
  BY <1>1 DEF SettingInv, Saves
<1>5. SaneInv
  <2>1. DOMAIN <<>> = {}
    OBVIOUS
  <2>. QED
    BY <1>1, <2>1 DEF SaneInv, SaneStore
<1>. QED
  BY <1>2, <1>3, <1>4, <1>5 DEF AdminInv

(* The variables of the invariant do not move. *)
LEMMA AdminStays ==
  ASSUME AdminInv, StoresKept, UNCHANGED <<step, form, snap, cont, attempt>>, LimiterTypeOK'
  PROVE  AdminInv'
<1>1. AdminShape'
  BY DEF AdminInv, AdminShape, Carries, StoresKept
<1>2. CredInv' /\ AuditInv'
  BY DEF AdminInv, CredInv, AuditInv, StoresKept
<1>3. \A s \in Store : SettingInv(s)'
  BY DEF AdminInv, SettingInv, Saves, StoresKept
<1>4. SaneInv'
  BY DEF AdminInv, SaneInv, SaneStore, StoresKept
<1>. QED
  BY <1>1, <1>2, <1>3, <1>4 DEF AdminInv

LEMMA AdminInvStep == AdminInv /\ [AdminNext]_vars => AdminInv'
<1>. SUFFICES ASSUME AdminInv, [AdminNext]_vars PROVE AdminInv'
  OBVIOUS
<1>1. ASSUME NEW h \in Handler, QuietRequest(h) PROVE AdminInv'
  BY <1>1, RequestIsQuiet, QuietKeeps DEF AdminInv
<1>2. ASSUME NEW h \in Handler,
             \/ PersistOverrides(h) \/ PersistAlgorithms(h)
             \/ PersistSticky(h) \/ PersistRateLimits(h)
      PROVE  AdminInv'
  <2>1. \E s \in Store : Persist(h, s)
    BY <1>2 DEF PersistOverrides, PersistAlgorithms, PersistSticky, PersistRateLimits, Store
  <2>. QED
    BY <2>1, PersistKeeps
<1>3. ASSUME NEW h \in Handler,
             \/ AuditRecord(h) \/ AuditSave(h) \/ SetSetting(h)
             \/ SetPassword(h) \/ Marshal(h) \/ SaveCred(h)
      PROVE  AdminInv'
  BY <1>3, AuditRecordKeeps, AuditSaveKeeps, SetSettingKeeps, SetPasswordKeeps,
     MarshalKeeps, SaveCredKeeps
<1>4. ASSUME NEW reset \in BOOLEAN, Restart(reset) PROVE AdminInv'
  BY <1>4, RestartKeeps
<1>5. CASE Tick
  <2>1. StoresKept /\ UNCHANGED <<step, form, snap, cont, attempt>>
    BY <1>5 DEF Tick, StoresKept, memoryVars, fileVars, requestVars, ghostVars
  <2>2. LimiterTypeOK'
    BY <1>5 DEF Tick, AdminInv, AdminShape, LimiterTypeOK
  <2>. QED
    BY <2>1, <2>2, AdminStays
<1>6. CASE UNCHANGED vars
  <2>1. StoresKept /\ UNCHANGED <<step, form, snap, cont, attempt>> /\ UNCHANGED limiterVars
    BY <1>6 DEF vars, StoresKept, limiterVars
  <2>2. LimiterTypeOK'
    BY <2>1, LimiterStays DEF AdminInv, AdminShape
  <2>. QED
    BY <2>1, <2>2, AdminStays
<1>. QED
  BY <1>1, <1>2, <1>3, <1>4, <1>5, <1>6 DEF AdminNext, QuietRequest

LEMMA AdminInvHolds == AdminSpec => []AdminInv
  BY AdminInvInit, AdminInvStep, PTL DEF AdminSpec

(* A cookie from before a password change that succeeded is not accepted,  *)
(* neither now nor after any number of restarts, unless two changes were   *)
(* saved at once: neither the secret in force nor the one on disk is older *)
(* than the newest change that was acknowledged.                           *)
THEOREM OldSessionsEnd == AdminSpec => []SessionsEnd
<1>1. AdminInv => SessionsEnd
  <2>. SUFFICES ASSUME AdminInv, "cred" \notin overlapped, NEW h \in Handler,
                       jar[h].secret < acked
                PROVE  jar[h].secret \notin {cred.secret, credFile.secret}
    BY DEF SessionsEnd
  <2>1. /\ acked \in Nat /\ cred.secret \in Nat /\ credFile.secret \in Nat
        /\ acked <= cred.secret /\ acked <= credFile.secret
    BY DEF AdminInv, CredInv
  <2>. QED
    BY <2>1
<1>. QED
  BY <1>1, AdminInvHolds, PTL

(* The credentials, the audit log and each store of settings are on disk   *)
(* as they are in memory when nobody is saving them, if no save of theirs  *)
(* failed or overlapped with another.                                      *)
THEOREM QuietStoresAreDurable == AdminSpec => []QuietDurable
<1>1. AdminInv => QuietDurable
  <2>. SUFFICES ASSUME AdminInv PROVE QuietDurable
    OBVIOUS
  <2>0. Handler \ {None} = Handler
    BY AdminAssumption
  <2>1. ASSUME NEW s \in Store, s \notin overlapped \cup failed, ~SaveInProgress(None, s)
        PROVE  settingsFile[s] = settings[s]
    BY <2>0, <2>1, SettingInProgress DEF AdminInv, SettingInv
  <2>2. ASSUME "cred" \notin overlapped \cup failed, ~SaveInProgress(None, "cred")
        PROVE  credFile = cred
    BY <2>0, <2>2, CredInProgress DEF AdminInv, CredInv
  <2>3. ASSUME "audit" \notin overlapped \cup failed, ~SaveInProgress(None, "audit")
        PROVE  auditFile = audit
    BY <2>0, <2>3, AuditInProgress DEF AdminInv, AuditInv
  <2>. QED
    BY <2>1, <2>2, <2>3 DEF QuietDurable
<1>. QED
  BY <1>1, AdminInvHolds, PTL

(* Whatever is typed into the forms, and whichever saves fail or overlap,  *)
(* what is published for a group makes sense, also after a restart.        *)
THEOREM SettingsAreSane == AdminSpec => []SettingsSane
<1>1. AdminInv => SettingsSane
  <2>. SUFFICES ASSUME AdminInv PROVE SettingsSane
    OBVIOUS
  <2>0. /\ SaneStore("algorithm", settings["algorithm"])
        /\ SaneStore("sticky", settings["sticky"])
        /\ SaneStore("ratelimit", settings["ratelimit"])
    BY DEF AdminInv, SaneInv, Store
  <2>1. \A k \in DOMAIN settings.algorithm : settings.algorithm[k] \in Algorithms
    BY <2>0 DEF SaneStore
  <2>2. ASSUME NEW c, c.ttl \in Nat
        PROVE  WireSticky(c).cookie # "" /\ WireSticky(c).ttl > 0
    <3>1. WireSticky(c).cookie = effectiveCookieName(c) /\ WireSticky(c).ttl = effectiveTTL(c)
      BY DEF WireSticky
    <3>2. effectiveTTL(c) > 0
      BY <2>2 DEF effectiveTTL
    <3>3. effectiveCookieName(c) # ""
      BY Zenon DEF effectiveCookieName
    <3>4. WireSticky(c).cookie # ""
      BY <3>1, <3>3, Zenon
    <3>. QED
      BY <3>1, <3>2, <3>4, Zenon
  <2>3. ASSUME NEW c, c.rps \in Nat, c.burst \in Nat
        PROVE  IF c.enabled THEN WireRateLimit(c).rps > 0 /\ WireRateLimit(c).burst \in 1..MaxInt32
               ELSE WireRateLimit(c).rps = 0
    <3>1. effectiveRPS(c) \in Nat /\ effectiveRPS(c) > 0
      BY <2>3 DEF effectiveRPS
    <3>2. effectiveBurst(c) \in Nat /\ effectiveBurst(c) >= 1
      BY <2>3, <3>1 DEF effectiveBurst
    <3>3. CASE c.enabled
      <4>1. WireRateLimit(c) =
              [rps |-> effectiveRPS(c),
               burst |-> IF effectiveBurst(c) > MaxInt32 THEN MaxInt32 ELSE effectiveBurst(c)]
        BY <3>3 DEF WireRateLimit
      <4>. QED
        BY <3>1, <3>2, <3>3, <4>1, SettingsAssumption
    <3>4. CASE ~c.enabled
      BY <3>4 DEF WireRateLimit
    <3>. QED
      BY <3>3, <3>4
  <2>4. \A k \in DOMAIN settings.sticky : settings.sticky[k].ttl \in Nat
    BY <2>0 DEF SaneStore
  <2>5. \A k \in DOMAIN settings.ratelimit :
          settings.ratelimit[k].rps \in Nat /\ settings.ratelimit[k].burst \in Nat
    BY <2>0 DEF SaneStore
  <2>. QED
    BY <2>1, <2>2, <2>3, <2>4, <2>5 DEF SettingsSane
<1>. QED
  BY <1>1, AdminInvHolds, PTL

(* The logins of the server are those of the limiter: each step is one of  *)
(* its steps or none, so the bound on counted guesses holds with all the   *)
(* other requests and restarts in between.                                 *)
THEOREM AdminImplementsLimiter == AdminSpec => LimiterSpec
<1>1. AdminInit => LimiterInit
  BY DEF AdminInit, LimiterInit
<1>2. AdminInv /\ [AdminNext]_vars => [LimiterNext]_limiterVars
  <2>. SUFFICES ASSUME AdminInv, [AdminNext]_vars PROVE [LimiterNext]_limiterVars
    OBVIOUS
  <2>1. ASSUME NEW h \in Handler, QuietRequest(h) PROVE [LimiterNext]_limiterVars
    BY <2>1 DEF QuietRequest, LoginSubmit, LoginVerify, LoginFails, LoginSucceeds, IssueSession,
                Logout, ClearSession, OverrideSubmit, AlgorithmSubmit, StickySubmit,
                RateLimitSubmit, PasswordSubmit, VerifyCurrent, RoutesPage, EditRows,
                RoutesSubmit, SetRoutes, Arrive, outerVars, LimiterNext
  <2>2. ASSUME NEW h \in Handler,
               \/ AuditRecord(h) \/ AuditSave(h) \/ SetSetting(h) \/ PersistOverrides(h)
               \/ PersistAlgorithms(h) \/ PersistSticky(h) \/ PersistRateLimits(h)
               \/ SetPassword(h) \/ Marshal(h) \/ SaveCred(h)
        PROVE  UNCHANGED limiterVars
    BY <2>2 DEF AuditRecord, AuditSave, SetSetting, PersistOverrides, PersistAlgorithms,
                PersistSticky, PersistRateLimits, Persist, SetPassword, Marshal, SaveCred, outerVars
  <2>3. ASSUME NEW reset \in BOOLEAN, Restart(reset) PROVE LimiterNext
    BY <2>3 DEF Restart, LimiterNext
  <2>4. CASE Tick
    <3>1. now \in Nat /\ now' = now + 1 /\ UNCHANGED <<byIP, attempt>>
      BY <2>4 DEF Tick, AdminInv, AdminShape, LimiterTypeOK
    <3>2. TimePasses
      BY <3>1 DEF TimePasses
    <3>. QED
      BY <3>2 DEF LimiterNext
  <2>5. CASE UNCHANGED vars
    BY <2>5 DEF vars
  <2>. QED
    BY <2>1, <2>2, <2>3, <2>4, <2>5 DEF AdminNext, QuietRequest
<1>. QED
  BY <1>1, <1>2, AdminInvHolds, PTL DEF AdminSpec, LimiterSpec

=============================================================================
