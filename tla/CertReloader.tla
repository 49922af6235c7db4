---------------------------- MODULE CertReloader ----------------------------
(***************************************************************************)
(* The hot reload of listener certificates (internal/tlsutil/              *)
(* certreloader.go) with its two drivers (cmd/dataplane/main.go): the      *)
(* watcher that polls modification times and the SIGHUP handler, while the *)
(* certificate and key files are renewed one after the other.              *)
(*                                                                         *)
(* Grain of atomicity.  Reading a certificate, reading its key, and the    *)
(* stat of each are steps of their own, because tls.LoadX509KeyPair and    *)
(* load make them one by one; the swap under r.mu is one step.             *)
(* changedOnDisk is one step: a change it misses it sees at the next tick. *)
(*                                                                         *)
(* Abstractions.  A file holds a generation of its pair, or Missing.       *)
(* LoadX509KeyPair accepts a certificate and a key of one generation, and  *)
(* nothing else.  Every write has a modification time of its own.          *)
(***************************************************************************)
EXTENDS Integers, Sequences

CONSTANTS
  NPairs,         \* configured certificate and key pairs
  Missing,        \* what a file that is not there holds
  ServerName,     \* names clients ask for
  NoName,         \* a client that sends no name
  Covers(_, _),   \* the names the certificate of a pair and generation covers
  MaxGen,         \* bound: renewals of one pair
  MaxActs         \* bound: writes of files and SIGHUPs

ASSUME CertReloaderAssumption ==
  /\ NPairs \in Nat \ {0}
  /\ MaxGen \in Nat \ {0} /\ MaxActs \in Nat
  /\ Missing \notin Nat
  /\ \A i \in 1..NPairs, gen \in 1..MaxGen : NoName \notin Covers(i, gen)

Pair == 1..NPairs
CertFile == Pair \X {"cert", "key"}
Loader == {"watch", "hup"}

VARIABLES
  onDisk,     \* file -> what it holds and its modification time
  certs,      \* r.certs: pair -> generation of the certificate and of the key
  mtimes,     \* r.mtimes: file -> modification time last recorded
  loading,    \* loader -> where its load is and what it has read
  overtaken,  \* history: did a write fall between a read and its stat in the
              \* load that brought certs?
  writes,     \* bound: writes so far
  hups        \* bound: SIGHUPs so far

crVars == <<onDisk, certs, mtimes, loading, overtaken, writes, hups>>

(* A load at pair: step is what comes next; have and stamps are what the   *)
(* pairs before it gave, cert and read what this one has given so far.     *)
Load(step, pair, have, stamps, late) ==
  [step |-> step, pair |-> pair, have |-> have, stamps |-> stamps, late |-> late,
   cert |-> Missing, read |-> <<0, 0>>, key |-> Missing]

NotLoading == Load("idle", 1, <<>>, [f \in {} |-> 0], FALSE)

StartLoad == Load("cert", 1, <<>>, [f \in {} |-> 0], FALSE)

(* NewCertReloader has loaded every pair, or the process did not start. *)
CRInit ==
  /\ onDisk = [f \in CertFile |-> [gen |-> 1, mtime |-> 1]]
  /\ certs = [i \in Pair |-> [cert |-> 1, key |-> 1]]
  /\ mtimes = [f \in CertFile |-> 1]
  /\ loading = [l \in Loader |-> NotLoading]
  /\ overtaken = FALSE
  /\ writes = 0 /\ hups = 0

(* A renewal replaces a file; it may be missing for a while, and           *)
(* fileMtime is then zero.                                                 *)
Renew(f) ==
  /\ writes + hups < MaxActs
  /\ writes' = writes + 1
  /\ \/ \E gen \in 1..MaxGen :
          onDisk' = [onDisk EXCEPT ![f] = [gen |-> gen, mtime |-> writes + 2]]
     \/ onDisk' = [onDisk EXCEPT ![f] = [gen |-> Missing, mtime |-> 0]]
  /\ UNCHANGED <<certs, mtimes, loading, overtaken, hups>>

-----------------------------------------------------------------------------
changedOnDisk == \E f \in CertFile : onDisk[f].mtime # mtimes[f]

(* A tick of Watch. *)
WatchTick ==
  /\ loading["watch"].step = "idle"
  /\ changedOnDisk
  /\ loading' = [loading EXCEPT !["watch"] = StartLoad]
  /\ UNCHANGED <<onDisk, certs, mtimes, overtaken, writes, hups>>

(* SIGHUP *)
Hangup ==
  /\ loading["hup"].step = "idle"
  /\ writes + hups < MaxActs
  /\ hups' = hups + 1
  /\ loading' = [loading EXCEPT !["hup"] = StartLoad]
  /\ UNCHANGED <<onDisk, certs, mtimes, overtaken, writes>>

(* load: the certificate is read. *)
ReadCert(l) ==
  LET f == onDisk[<<loading[l].pair, "cert">>] IN
  /\ loading[l].step = "cert"
  /\ loading' = [loading EXCEPT ![l].step = "key", ![l].cert = f.gen,
                                ![l].read[1] = f.mtime]
  /\ UNCHANGED <<onDisk, certs, mtimes, overtaken, writes, hups>>

(* Mutant: a pair is taken although loading it failed. *)
ReadKeyUnchecked(l) ==
  LET f == onDisk[<<loading[l].pair, "key">>] IN
  /\ loading[l].step = "key"
  /\ loading' = [loading EXCEPT ![l].step = "statCert", ![l].key = f.gen,
                                ![l].read[2] = f.mtime]
  /\ UNCHANGED <<onDisk, certs, mtimes, overtaken, writes, hups>>

(* Mutant: a load that fails records the files it has seen. *)
ReadKeySeen(l) ==
  LET f == onDisk[<<loading[l].pair, "key">>] IN
  /\ loading[l].step = "key"
  /\ IF loading[l].cert = f.gen /\ f.gen # Missing
     THEN /\ loading' = [loading EXCEPT ![l].step = "statCert", ![l].key = f.gen,
                                        ![l].read[2] = f.mtime]
          /\ UNCHANGED mtimes
     ELSE /\ loading' = [loading EXCEPT ![l] = NotLoading]
          /\ mtimes' = [g \in CertFile |-> onDisk[g].mtime]
  /\ UNCHANGED <<onDisk, certs, overtaken, writes, hups>>

(* load: the key is read and has to belong to the certificate, or the      *)
(* whole load is given up and what was loaded before stays.                *)
ReadKey(l) ==
  LET f == onDisk[<<loading[l].pair, "key">>] IN
  /\ loading[l].step = "key"
  /\ loading' = [loading EXCEPT ![l] =
       IF loading[l].cert = f.gen /\ f.gen # Missing
       THEN [@ EXCEPT !.step = "statCert", !.key = f.gen, !.read[2] = f.mtime]
       ELSE NotLoading]
  /\ UNCHANGED <<onDisk, certs, mtimes, overtaken, writes, hups>>

(* load: fileMtime of a file that was read before. *)
Stamped(l, which, n) ==
  LET f == <<loading[l].pair, which>> IN
  [loading[l] EXCEPT !.stamps = [g \in DOMAIN @ \cup {f} |->
                                   IF g = f THEN onDisk[f].mtime ELSE @[g]],
                     !.late = @ \/ onDisk[f].mtime # loading[l].read[n]]

StatCert(l) ==
  /\ loading[l].step = "statCert"
  /\ loading' = [loading EXCEPT ![l] = [Stamped(l, "cert", 1) EXCEPT !.step = "statKey"]]
  /\ UNCHANGED <<onDisk, certs, mtimes, overtaken, writes, hups>>

(* load: the pair is complete; the next one, or the swap. *)
StatKey(l) ==
  LET s == Stamped(l, "key", 2)
      have == Append(s.have, [cert |-> s.cert, key |-> s.key])
  IN
  /\ loading[l].step = "statKey"
  /\ loading' = [loading EXCEPT ![l] =
       Load(IF s.pair = NPairs THEN "swap" ELSE "cert", s.pair + 1, have, s.stamps, s.late)]
  /\ UNCHANGED <<onDisk, certs, mtimes, overtaken, writes, hups>>

(* load: certificates and times are swapped in together, under r.mu. *)
SwapCerts(l) ==
  /\ loading[l].step = "swap"
  /\ certs' = loading[l].have
  /\ mtimes' = loading[l].stamps
  /\ overtaken' = loading[l].late
  /\ loading' = [loading EXCEPT ![l] = NotLoading]
  /\ UNCHANGED <<onDisk, writes, hups>>

CRStep(l) ==
  \/ ReadCert(l)
  \/ ReadKey(l)
  \/ StatCert(l)
  \/ StatKey(l)
  \/ SwapCerts(l)

CRNext ==
  \/ \E f \in CertFile : Renew(f)
  \/ WatchTick
  \/ Hangup
  \/ \E l \in Loader : CRStep(l)

CRSpec == CRInit /\ [][CRNext]_crVars

-----------------------------------------------------------------------------
certMatchesName(i, name) == name \in Covers(i, certs[i].cert)

(* GetCertificate: the first certificate that covers the name, or else the *)
(* first of all.                                                           *)
GetCertificate(name) ==
  LET covering == {i \in DOMAIN certs : name # NoName /\ certMatchesName(i, name)}
  IN  IF covering = {} THEN 1 ELSE CHOOSE i \in covering : \A j \in covering : i <= j

(* Whatever a renewal is doing to the files, every pair stays loaded, a    *)
(* handshake is given a certificate together with the key that belongs to  *)
(* it, and one that covers the name asked for whenever any loaded          *)
(* certificate does.                                                       *)
HandshakeServed ==
  /\ DOMAIN certs = Pair
  /\ \A name \in ServerName \cup {NoName} :
       LET c == certs[GetCertificate(name)] IN
       /\ c.cert = c.key /\ c.cert # Missing
       /\ (\E i \in Pair : certMatchesName(i, name)) =>
            certMatchesName(GetCertificate(name), name)

RenewalComplete ==
  \A i \in Pair : /\ onDisk[<<i, "cert">>].gen = onDisk[<<i, "key">>].gen
                  /\ onDisk[<<i, "cert">>].gen # Missing

ServesDisk == \A i \in Pair : certs[i].cert = onDisk[<<i, "cert">>].gen

=============================================================================
