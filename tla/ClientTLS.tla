------------------------------- MODULE ClientTLS -------------------------------
(***************************************************************************)
(* Which credentials a caller dials with: the gateway's createConnection,  *)
(* the modules' ModuleDialer and the registration client, all over the     *)
(* directory that cert.Ensure writes.                                      *)
(*                                                                         *)
(* A directory gives for every file the number of the certificate or key   *)
(* in it; 0 is a file that is not there (or a path that is not set),       *)
(* Garbage one that does not parse.  Every failure to load ends in an      *)
(* insecure connection, so one value stands for the error and for nil.     *)
(***************************************************************************)
EXTENDS Naturals, Sequences

Garbage == 99
Files == {"ca.crt", "client.crt", "client.key", "module.crt", "module.key",
          "server.crt", "server.key", "other.crt", "other.key"}

Plain             == [tls |-> FALSE, cert |-> 0, name |-> ""]
Creds(cert, name) == [tls |-> TRUE, cert |-> cert, name |-> name]

Parses(x) == x \notin {0, Garbage}

\* tls.LoadX509KeyPair: both parse and belong together.
LoadX509KeyPair(crt, key) == Parses(crt) /\ crt = key

loadTLSFromPaths(ca, crt, key, name) ==
  IF Parses(ca) /\ LoadX509KeyPair(crt, key) THEN Creds(crt, name) ELSE Plain

\* The name in the certificate of a module's server.
DefaultServerName(moduleID) == moduleID \o "-service"

\* The gateway: the conventional paths, then those of {MODULE}_*_PATH, which have
\* to be complete; {MODULE}_SERVER_NAME holds for both.
loadModuleTLSCredentials(dir, env, moduleID) ==
  LET name == IF env.name # "" THEN env.name ELSE DefaultServerName(moduleID)
      conv == loadTLSFromPaths(dir["ca.crt"], dir["client.crt"], dir["client.key"], name)
  IN IF dir["ca.crt"] # 0 /\ dir["client.crt"] # 0 /\ conv.tls THEN conv
     ELSE loadTLSFromPaths(env.ca, env.crt, env.key, name)

\* MUTANT: only the layout with the module's name is looked for.
loadClientTLSNoFallback(dir, serverName) ==
  loadTLSFromPaths(dir["ca.crt"], dir["module.crt"], dir["module.key"], serverName)

\* A module: its own pair as the LCM lays it out, else the pair of cert.Ensure.
loadClientTLS(dir, serverName) ==
  LET own == loadTLSFromPaths(dir["ca.crt"], dir["module.crt"], dir["module.key"], serverName)
  IN IF own.tls THEN own
     ELSE loadTLSFromPaths(dir["ca.crt"], dir["client.crt"], dir["client.key"], serverName)

\* The directories {name}/ with {name}.crt and {name}.key: of cert.Ensure, of the
\* LCM's layout under the module's name, and another one, such as admin/.
ClientDir == [crt |-> "client.crt", key |-> "client.key"]
ServerDir == [crt |-> "server.crt", key |-> "server.key"]
ModuleDir == [crt |-> "module.crt", key |-> "module.key"]
OtherDir  == [crt |-> "other.crt", key |-> "other.key"]

HasFiles(dir, d) == dir[d.crt] # 0 /\ dir[d.key] # 0

\* The registration client: the first directory that has both files, usable or not,
\* in scan, the order os.ReadDir lists them by name; directories *-server and ca are
\* passed over and not in it.  When that pair does not load, no other is tried.
loadAdminClientTLS(dir, scan, registrationInsecure) ==
  LET there == {i \in DOMAIN scan : HasFiles(dir, scan[i])}
      pick  == scan[CHOOSE i \in there : \A j \in there : i <= j]
  IN IF registrationInsecure \/ there = {} THEN Plain
     ELSE loadTLSFromPaths(dir["ca.crt"], dir[pick.crt], dir[pick.key], "admin-service")
================================================================================
