------------------------------- MODULE Admin --------------------------------
(***************************************************************************)
(* The admin web server of the control plane: login and its limiter,       *)
(* sessions, the password store, the per-group settings, the audit log and *)
(* the routes page (internal/admin, startAdminServer in                    *)
(* cmd/controlplane/main.go, the stores of internal/controlplane).         *)
(*                                                                         *)
(* A handler is one browser and the request it has in progress; the        *)
(* limiter's part of a login is a step of LoginLimiter.  Each              *)
(* section under a lock is a step, and so is the rename that makes a saved *)
(* file visible: the temporary files have unique names.  All requests come *)
(* from one address.  A request whose CSRF token is wrong changes nothing  *)
(* and is left out.                                                        *)
(***************************************************************************)
EXTENDS RouteForm, LoginLimiter

CONSTANTS
  Password,
  Form,             \* the settings forms that are submitted
  NewRow,           \* the rows that are added to the routes page
  None,
  SessionDuration,
  maxAuditEntries,
  Mixes,            \* how many logins and other requests go together
  MaxCrashes, MaxTime

VARIABLES
  cred, credFile,          \* password and session secret, in memory and on disk
  secrets,                 \* how many secrets were generated
  settings, settingsFile,  \* the four stores of settings
  audit, auditFile,
  routes,
  jar,                     \* the session cookie of each browser
  step, form, snap, cont,  \* a request: next step, input, snapshot, rest
  logins, others, crashes, \* logins, other requests, restarts so far
  acked,                   \* the newest secret a successful change saved
  overlapped, failed       \* the stores with overlapping and failed saves

vars == <<limiterVars, cred, credFile, secrets, settings, settingsFile, audit,
          auditFile, routes, jar, step, form, snap, cont, logins, others, crashes, acked,
          overlapped, failed>>

requestVars == <<step, form, snap, cont>>
memoryVars == <<cred, secrets, settings, audit, routes>>
fileVars == <<credFile, settingsFile, auditFile>>
ghostVars == <<acked, overlapped, failed>>
boundVars == <<logins, others, crashes>>
outerVars == <<limiterVars, boundVars>>

Store == {"override", "algorithm", "sticky", "ratelimit"}

(* A form is one store's, and a number in it parsed or is Malformed. *)
ASSUME AdminAssumption ==
  LET Number(x) == x = Malformed \/ x \in Int IN
    /\ None \notin Handler
    /\ \A f \in Form :
         /\ f.store \in Store
         /\ f.store = "sticky" => Number(f.minutes)
         /\ f.store = "ratelimit" => Number(f.rps) /\ Number(f.burst)

Cookie == [secret |-> cred.secret, expiry |-> now + SessionDuration]

(* A process that starts with its files while browsers hold sessions. *)
AdminInit ==
  /\ now = 0 /\ LimiterInit
  /\ logins = 0 /\ others = 0 /\ crashes = 0
  /\ \E p \in Password : cred = [password |-> p, secret |-> 0]
  /\ credFile = cred /\ secrets = 0
  /\ settings = [s \in Store |-> <<>>] /\ settingsFile = settings
  /\ audit = <<>> /\ auditFile = <<>>
  /\ routes = <<>>
  /\ jar = [h \in Handler |-> Cookie]
  /\ step = [h \in Handler |-> "idle"]
  /\ form = [h \in Handler |-> None]
  /\ snap = [h \in Handler |-> None]
  /\ cont = [h \in Handler |-> None]
  /\ acked = 0 /\ overlapped = {} /\ failed = {}

-----------------------------------------------------------------------------
(* Steps of a request *)

Goto(h, s) == step' = [step EXCEPT ![h] = s]

(* The request goes on to record an event and does "then" afterwards. *)
Record(h, event, then) ==
  /\ Goto(h, "record")
  /\ cont' = [cont EXCEPT ![h] = [event |-> event, then |-> then]]

(* The response is written. *)
Respond(h) ==
  /\ Goto(h, "idle")
  /\ form' = [form EXCEPT ![h] = None]
  /\ snap' = [snap EXCEPT ![h] = None]
  /\ cont' = [cont EXCEPT ![h] = None]

(* validSession, with the secret in force. *)
validSession(h) ==
  /\ jar[h] # None
  /\ jar[h].secret = cred.secret
  /\ now <= jar[h].expiry

(* A request arrives with its input and, unless it is a login, a session. *)
Arrive(h, s, input) ==
  /\ step[h] = "idle" /\ <<logins, others + 1>> \in Mixes
  /\ validSession(h)
  /\ Goto(h, s)
  /\ form' = [form EXCEPT ![h] = input]
  /\ others' = others + 1
  /\ UNCHANGED <<limiterVars, logins, crashes, memoryVars, fileVars, jar, snap, cont,
                 ghostVars>>

(* Another request is between its change of store s and the end of saving. *)
SaveInProgress(h, s) ==
  \E k \in Handler \ {h} :
    CASE s = "cred" -> step[k] \in {"marshal", "saveCred"}
      [] s = "audit" -> step[k] = "saveAudit"
      [] OTHER -> step[k] = "saveSetting" /\ form[k].store = s

NoteOverlap(h, s) ==
  overlapped' = IF SaveInProgress(h, s) THEN overlapped \cup {s} ELSE overlapped

-----------------------------------------------------------------------------
(* Login: handleLoginSubmit, loginLimiter *)

LoginSubmit(h, p) ==
  /\ step[h] = "idle" /\ <<logins + 1, others>> \in Mixes
  /\ form' = [form EXCEPT ![h] = [password |-> p]]
  /\ \/ Submit(h) /\ Goto(h, "login") /\ UNCHANGED cont
     \/ ~Allowed /\ Record(h, "login_rate_limited", "respond") /\ UNCHANGED limiterVars
  /\ logins' = logins + 1
  /\ UNCHANGED <<others, crashes, memoryVars, fileVars, jar, snap, ghostVars>>

(* VerifyPassword *)
LoginVerify(h) ==
  /\ step[h] = "login"
  /\ Verify(h)
  /\ attempt'[h] = IF form[h].password = cred.password THEN "success" ELSE "failure"
  /\ UNCHANGED <<boundVars, memoryVars, fileVars, jar, requestVars, ghostVars>>

LoginFails(h) ==
  /\ RecordFailure(h)
  /\ Record(h, "login_failure", "respond")
  /\ UNCHANGED <<boundVars, memoryVars, fileVars, jar, form, snap, ghostVars>>

LoginSucceeds(h) ==
  /\ RecordSuccess(h)
  /\ Record(h, "login_success", "issue")
  /\ UNCHANGED <<boundVars, memoryVars, fileVars, jar, form, snap, ghostVars>>

(* issueSession: the response carries a cookie signed with the secret that *)
(* is in force now.                                                        *)
IssueSession(h) ==
  /\ step[h] = "issue"
  /\ jar' = [jar EXCEPT ![h] = Cookie]
  /\ Respond(h)
  /\ UNCHANGED <<outerVars, memoryVars, fileVars, ghostVars>>

Logout(h) ==
  /\ step[h] = "idle" /\ <<logins, others + 1>> \in Mixes
  /\ validSession(h)
  /\ Record(h, "logout", "clear")
  /\ others' = others + 1
  /\ UNCHANGED <<limiterVars, logins, crashes, memoryVars, fileVars, jar, form, snap,
                 ghostVars>>

ClearSession(h) ==
  /\ step[h] = "clear"
  /\ jar' = [jar EXCEPT ![h] = None]
  /\ Respond(h)
  /\ UNCHANGED <<outerVars, memoryVars, fileVars, ghostVars>>

-----------------------------------------------------------------------------
(* Audit log: Record appends and trims under the lock, then saves its copy *)

Trimmed(log) ==
  IF Len(log) > maxAuditEntries
  THEN SubSeq(log, Len(log) - maxAuditEntries + 1, Len(log)) ELSE log

AuditRecord(h) ==
  /\ step[h] = "record"
  /\ audit' = Trimmed(Append(audit, cont[h].event))
  /\ snap' = [snap EXCEPT ![h] = audit']
  /\ NoteOverlap(h, "audit")
  /\ Goto(h, "saveAudit")
  /\ UNCHANGED <<outerVars, cred, secrets, settings, routes, fileVars, jar, form,
                 cont, acked, failed>>

(* A save that fails is ignored. *)
AuditSave(h) ==
  /\ step[h] = "saveAudit"
  /\ \/ auditFile' = snap[h] /\ UNCHANGED failed
     \/ UNCHANGED auditFile /\ failed' = failed \cup {"audit"}
  /\ IF cont[h].then = "respond" THEN Respond(h)
     ELSE Goto(h, cont[h].then) /\ UNCHANGED <<form, snap, cont>>
  /\ UNCHANGED <<outerVars, memoryVars, credFile, settingsFile, jar, acked, overlapped>>

-----------------------------------------------------------------------------
(* Settings: the four forms and their stores *)

OverrideSubmit(h, f) ==
  f.store = "override" /\ f.key # "" /\ OverrideTaken(f) /\ Arrive(h, "set", f)

AlgorithmSubmit(h, f) ==
  f.store = "algorithm" /\ f.key # "" /\ AlgorithmTaken(f) /\ Arrive(h, "set", f)

StickySubmit(h, f) == f.store = "sticky" /\ f.key # "" /\ Arrive(h, "set", f)

RateLimitSubmit(h, f) == f.store = "ratelimit" /\ f.key # "" /\ Arrive(h, "set", f)

(* An assignment to a map. *)
Put(m, key, value) == [k \in DOMAIN m \cup {key} |-> IF k = key THEN value ELSE m[k]]

OverrideSet(f) == Put(settings.override, f.key, Override(f))

OverrideClear(f) ==
  [k \in DOMAIN settings.override \ {f.key} |-> settings.override[k]]

AlgorithmSet(f) == Put(settings.algorithm, f.key, f.algorithm)

StickySet(f) == Put(settings.sticky, f.key, StickyConfig(f))

RateLimitSet(f) == Put(settings.ratelimit, f.key, RateLimitConfig(f))

(* The store after the change that a form asks for. *)
Changed(f) ==
  CASE f.store = "override" ->
         IF f.action = "clear" THEN OverrideClear(f) ELSE OverrideSet(f)
    [] f.store = "algorithm" -> AlgorithmSet(f)
    [] f.store = "sticky" -> StickySet(f)
    [] f.store = "ratelimit" -> RateLimitSet(f)

(* Mutant: the copy is taken before the change. *)
CloneBefore(f) == settings[f.store]

(* The copy taken under the same lock as the change. *)
Clone(f) == Changed(f)

SetSetting(h) ==
  LET f == form[h] IN
    /\ step[h] = "set"
    /\ settings' = [settings EXCEPT ![f.store] = Changed(f)]
    /\ snap' = [snap EXCEPT ![h] = Clone(f)]
    /\ NoteOverlap(h, f.store)
    /\ Goto(h, "saveSetting")
    /\ UNCHANGED <<outerVars, cred, secrets, audit, routes, fileVars, jar, form, cont,
                   acked, failed>>

(* The copy is saved.  A failure is reported and audited; the change stays *)
(* in memory.                                                              *)
Persist(h, s) ==
  /\ step[h] = "saveSetting" /\ form[h].store = s
  /\ \/ settingsFile' = [settingsFile EXCEPT ![s] = snap[h]] /\ UNCHANGED failed
     \/ UNCHANGED settingsFile /\ failed' = failed \cup {s}
  /\ Record(h, s, "respond")
  /\ UNCHANGED <<outerVars, memoryVars, credFile, auditFile, jar, form, snap, acked,
                 overlapped>>

PersistOverrides(h) == Persist(h, "override")
PersistAlgorithms(h) == Persist(h, "algorithm")
PersistSticky(h) == Persist(h, "sticky")
PersistRateLimits(h) == Persist(h, "ratelimit")

(* What the stores hold after a start: their files. *)
NewOverrideStore == settingsFile.override
NewAlgorithmStore == settingsFile.algorithm
NewStickyStore == settingsFile.sticky
NewRateLimitStore == settingsFile.ratelimit

-----------------------------------------------------------------------------
(* Password: handlePasswordSubmit, Store.SetPassword *)

PasswordSubmit(h, current, new) ==
  Arrive(h, "verifyCurrent", [current |-> current, new |-> new])

VerifyCurrent(h) ==
  /\ step[h] = "verifyCurrent"
  /\ IF form[h].current = cred.password
     THEN Goto(h, "setPassword") /\ UNCHANGED <<form, snap, cont>> ELSE Respond(h)
  /\ UNCHANGED <<outerVars, memoryVars, fileVars, jar, ghostVars>>

SetPassword(h) ==
  /\ step[h] = "setPassword"
  /\ secrets' = secrets + 1
  /\ cred' = [password |-> form[h].new, secret |-> secrets']
  /\ NoteOverlap(h, "cred")
  /\ Goto(h, "marshal")
  /\ UNCHANGED <<outerVars, settings, audit, routes, fileVars, jar, form, snap,
                 cont, acked, failed>>

(* Mutant: the file keeps the secret it has. *)
StateToSaveOldSecret == [cred EXCEPT !.secret = credFile.secret]

(* What persist marshals: the state in force when it takes the read lock. *)
StateToSave == cred

Marshal(h) ==
  /\ step[h] = "marshal"
  /\ snap' = [snap EXCEPT ![h] = StateToSave]
  /\ Goto(h, "saveCred")
  /\ UNCHANGED <<outerVars, memoryVars, fileVars, jar, form, cont, ghostVars>>

(* Success is audited and answered with a new session, a failure is        *)
(* answered with an error; the change stays in memory.                     *)
SaveCred(h) ==
  /\ step[h] = "saveCred"
  /\ \/ /\ credFile' = snap[h]
        /\ acked' = Max({acked, cred.secret})
        /\ Record(h, "password_changed", "issue")
        /\ UNCHANGED <<form, snap, failed>>
     \/ /\ failed' = failed \cup {"cred"}
        /\ Respond(h)
        /\ UNCHANGED <<credFile, acked>>
  /\ UNCHANGED <<outerVars, memoryVars, settingsFile, auditFile, jar, overlapped>>

-----------------------------------------------------------------------------
(* Routes page: the table is read, edited in the browser and submitted     *)

RoutesPage(h) == Arrive(h, "editing", routesToRows(routes))

EditRows(h) ==
  /\ step[h] = "editing"
  /\ \/ \E i \in DOMAIN form[h] : form' = [form EXCEPT ![h][i].action = "delete"]
     \/ \E row \in NewRow : form' = [form EXCEPT ![h] = Append(@, row)]
  /\ Goto(h, "edited")
  /\ UNCHANGED <<outerVars, memoryVars, fileVars, jar, snap, cont, ghostVars>>

RoutesSubmit(h) ==
  /\ step[h] \in {"editing", "edited"}
  /\ IF validSession(h) THEN Goto(h, "setRoutes") /\ UNCHANGED <<form, snap, cont>>
     ELSE Respond(h)
  /\ UNCHANGED <<outerVars, memoryVars, fileVars, jar, ghostVars>>

SetRoutes(h) ==
  /\ step[h] = "setRoutes"
  /\ routes' = rowsToRoutes(form[h])
  /\ Record(h, "routes_changed", "respond")
  /\ UNCHANGED <<outerVars, cred, secrets, settings, audit, fileVars, jar, form,
                 snap, ghostVars>>

-----------------------------------------------------------------------------
(* The process ends and starts again: startAdminServer.  With              *)
(* -admin-force-reset-password the password is replaced, and saved, before *)
(* anything is served.  A page open in a browser stays open.               *)
Restart(reset) ==
  LET open(h) == step[h] \in {"editing", "edited"} IN
    /\ crashes < MaxCrashes /\ crashes' = crashes + 1
    /\ settings' = [override |-> NewOverrideStore, algorithm |-> NewAlgorithmStore,
                    sticky |-> NewStickyStore, ratelimit |-> NewRateLimitStore]
    /\ IF reset
       THEN /\ \E p \in Password : cred' = [password |-> p, secret |-> secrets + 1]
            /\ secrets' = secrets + 1
            /\ credFile' = cred' /\ acked' = secrets'
            /\ audit' = Trimmed(Append(auditFile, "password_reset"))
            /\ auditFile' \in {auditFile, audit'}
            /\ failed' = IF auditFile' = audit' THEN {} ELSE {"audit"}
       ELSE /\ cred' = credFile /\ audit' = auditFile /\ failed' = {}
            /\ UNCHANGED <<secrets, credFile, acked, auditFile>>
    /\ Forget
    /\ step' = [h \in Handler |-> IF open(h) THEN step[h] ELSE "idle"]
    /\ form' = [h \in Handler |-> IF open(h) THEN form[h] ELSE None]
    /\ snap' = [h \in Handler |-> None]
    /\ cont' = [h \in Handler |-> None]
    /\ overlapped' = overlapped \cap {"cred"}
    /\ UNCHANGED <<logins, others, settingsFile, routes, jar>>

Tick ==
  /\ now < MaxTime
  /\ now' = now + 1 /\ UNCHANGED <<byIP, attempt>>
  /\ UNCHANGED <<logins, others, crashes, memoryVars, fileVars, jar, requestVars, ghostVars>>

AdminNext ==
  \/ \E h \in Handler :
       \/ \E p \in Password : LoginSubmit(h, p)
       \/ LoginVerify(h) \/ LoginFails(h) \/ LoginSucceeds(h)
       \/ IssueSession(h) \/ Logout(h) \/ ClearSession(h)
       \/ AuditRecord(h) \/ AuditSave(h)
       \/ \E f \in Form : \/ OverrideSubmit(h, f) \/ AlgorithmSubmit(h, f)
                         \/ StickySubmit(h, f) \/ RateLimitSubmit(h, f)
       \/ SetSetting(h) \/ PersistOverrides(h) \/ PersistAlgorithms(h)
       \/ PersistSticky(h) \/ PersistRateLimits(h)
       \/ \E p, q \in Password : PasswordSubmit(h, p, q)
       \/ VerifyCurrent(h) \/ SetPassword(h) \/ Marshal(h) \/ SaveCred(h)
       \/ RoutesPage(h) \/ EditRows(h) \/ RoutesSubmit(h) \/ SetRoutes(h)
  \/ \E reset \in BOOLEAN : Restart(reset)
  \/ Tick

AdminSpec == AdminInit /\ [][AdminNext]_vars

-----------------------------------------------------------------------------
(* Properties *)

(* No cookie from before a password change that succeeded is accepted,     *)
(* neither now nor after a restart, unless two changes were saved at once  *)
(* (SetPassword: "a stolen session cookie doesn't survive a password       *)
(* change").                                                               *)
SessionsEnd ==
  "cred" \notin overlapped =>
    \A h \in Handler :
      jar[h] # None /\ jar[h].secret < acked =>
        jar[h].secret \notin {cred.secret, credFile.secret}

(* A store whose saves neither failed nor overlapped is on disk as it is   *)
(* in memory once no request is saving it: a restart loses nothing.        *)
QuietDurable ==
  /\ \A s \in Store : s \notin overlapped \cup failed /\ ~SaveInProgress(None, s) =>
       settingsFile[s] = settings[s]
  /\ "cred" \notin overlapped \cup failed /\ ~SaveInProgress(None, "cred") =>
       credFile = cred
  /\ "audit" \notin overlapped \cup failed /\ ~SaveInProgress(None, "audit") =>
       auditFile = audit

(* What is published for a group makes sense whatever was typed into the   *)
(* forms: a known algorithm, a cookie with a name and a lifetime, and a    *)
(* rate limit that lets a client through.                                  *)
SettingsSane ==
  /\ \A k \in DOMAIN settings.algorithm : settings.algorithm[k] \in Algorithms
  /\ \A k \in DOMAIN settings.sticky :
       LET w == WireSticky(settings.sticky[k]) IN w.cookie # "" /\ w.ttl > 0
  /\ \A k \in DOMAIN settings.ratelimit :
       LET c == settings.ratelimit[k]
           w == WireRateLimit(c)
       IN  IF c.enabled THEN w.rps > 0 /\ w.burst \in 1..MaxInt32 ELSE w.rps = 0

(* Submitting the routes page as it shows the table in force leaves the    *)
(* table as it is: what the form writes the form reads back.               *)
ResubmitKeeps ==
  [][\A h \in Handler :
       step[h] = "setRoutes" /\ step'[h] = "record" /\ form[h] = routesToRows(routes) =>
         routes' = routes]_vars

=============================================================================
