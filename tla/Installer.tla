------------------------------- MODULE Installer -------------------------------
(***************************************************************************)
(* The server installer (bin/server-installer.mjs): it reads its options   *)
(* from the command line or asks for them, checks the host, copies the     *)
(* payload into an empty directory, writes the environment file and has    *)
(* Docker Compose start the gateway.  Several installers, and services     *)
(* nobody told them about, share the host's directories, ports and Compose *)
(* projects; every check is a step of its own before the write it guards.  *)
(***************************************************************************)
EXTENDS Naturals

CONSTANTS
  Installers,   \* runs of the installer on one host
  Directories,  \* values of --directory
  Ports,        \* values of --port
  Projects,     \* values of --project-name
  Shells,       \* environments of the shells the installers may be run from
  Nobody        \* stands for no installer, a free port, no container

ASSUME NobodyAssumption   == Nobody \notin Installers /\ "service" # Nobody
ASSUME ProjectsAssumption == Projects # {}
ASSUME ShellsAssumption   ==
  Shells \subseteq [bindHost : {"loopback", "public", "unset"}, authMode : {"dev", "unset"}]

VARIABLES
  pc,        \* pc[i]: the step installer i is about to take, or how it ended
  plan,      \* plan[i]: what buildServerInstallPlan() made of its options
  asked,     \* asked[i]: the answers the wizard made the arguments of, if it did
  copied,    \* copied[d]: the installers with payload files in directory d
  envFile,   \* envFile[d]: the installer whose environment file d holds
  listening, \* listening[p]: what holds port p: a project, "service" or Nobody
  gateway,   \* gateway[p]: the container of Compose project p: the settings it
             \* was created with, or Nobody
  ambient    \* settings of the shell that Compose prefers to an --env-file

vars == <<pc, plan, asked, copied, envFile, listening, gateway, ambient>>

Stopped == {"refused", "planned", "failed", "installed"}

(* What the checks tell apart of the options. *)
Options ==
  [directory : Directories, port : Ports, project : Projects,
   bindHost : {"loopback", "public"}, authMode : {"dev", "oidc"},
   providersFile : BOOLEAN, opaqueOrigin : BOOLEAN,
   endpoint : BOOLEAN, socketGiven : BOOLEAN, allowSocket : BOOLEAN,
   tlsFiles : {"none", "some", "all"}, dryRun : BOOLEAN]

(* What is left of them once they are known to fit. *)
Plans == [directory : Directories, port : Ports, project : Projects,
          bindHost : {"loopback", "public"}, authMode : {"dev", "oidc"},
          opaqueOrigin : BOOLEAN, dryRun : BOOLEAN]

Plan(o) == [directory |-> o.directory, port |-> o.port, project |-> o.project,
            bindHost |-> o.bindHost, authMode |-> o.authMode,
            opaqueOrigin |-> o.opaqueOrigin, dryRun |-> o.dryRun]

(* Settings of a container: by whom it was installed and how it is exposed.  *)
Containers == [by : Installers, bindHost : {"loopback", "public"},
               authMode : {"dev", "oidc"}, opaqueOrigin : BOOLEAN]
Settings(i) == [by |-> i, bindHost |-> plan[i].bindHost, authMode |-> plan[i].authMode,
                opaqueOrigin |-> plan[i].opaqueOrigin]

-----------------------------------------------------------------------------
(* Options. *)

(* parseServerInstallArgs() adds the packaged desktop's origin when binding  *)
(* to the loopback.                                                          *)
Parsed(o) == [o EXCEPT !.opaqueOrigin = @ \/ o.bindHost = "loopback"]

AuthFits(o) ==
  /\ o.bindHost = "public" => o.authMode = "oidc" /\ ~o.opaqueOrigin
  /\ o.authMode = "oidc" <=> o.providersFile

EngineFits(o) ==
  IF o.endpoint
  THEN o.tlsFiles = "all" /\ ~o.socketGiven /\ ~o.allowSocket
  ELSE o.tlsFiles = "none"

(* installServer() wants the mount of the socket acknowledged. *)
Acknowledged(o) == o.endpoint # o.allowSocket

Valid(o) == AuthFits(o) /\ EngineFits(o)

(* What the wizard asks, in its order.  A text is any value that the parser  *)
(* of its own option takes: for the client origins, which only a public      *)
(* gateway is asked for, a list of URLs or one with "null" in it.            *)
Answers ==
  [directory : Directories, engine : {"local", "remote"}, port : Ports,
   exposure : {"local", "public"}, auth : {"dev", "oidc"},
   origins : {"urls", "null"}, mountSocket : BOOLEAN]

NullOriginInPublic(a) == a.exposure = "public" /\ a.origins = "null"

(* Fault: the question for the login is asked in public as well. *)
WizardAuth_AlwaysAsked(a) == a.auth

(* The login is asked for only when the gateway stays local. *)
WizardAuth(a) == IF a.exposure = "public" THEN "oidc" ELSE a.auth

(* collectServerInstallArguments(): the arguments, given the answers. *)
WizardOptions(a) ==
  [directory |-> a.directory, port |-> a.port,
   project |-> CHOOSE p \in Projects : TRUE,
   bindHost |-> IF a.exposure = "public" THEN "public" ELSE "loopback",
   authMode |-> WizardAuth(a), providersFile |-> WizardAuth(a) = "oidc",
   opaqueOrigin |-> NullOriginInPublic(a),
   endpoint |-> a.engine = "remote", socketGiven |-> FALSE,
   allowSocket |-> a.engine = "local",
   tlsFiles |-> IF a.engine = "remote" THEN "all" ELSE "none", dryRun |-> FALSE]

Init ==
  /\ pc = [i \in Installers |-> "idle"]
  /\ plan = [i \in Installers |-> Nobody]
  /\ asked = [i \in Installers |-> {}]
  /\ copied = [d \in Directories |-> {}]
  /\ envFile = [d \in Directories |-> Nobody]
  /\ listening = [p \in Ports |-> Nobody]
  /\ gateway = [p \in Projects |-> Nobody]
  /\ ambient \in Shells

Goto(i, to) == pc' = [pc EXCEPT ![i] = to]
host        == <<copied, envFile, listening, gateway, ambient>>

(* Invalid options leave nothing behind but the message.                     *)
Take(i, o, answers) ==
  /\ pc[i] = "idle"
  /\ asked' = [asked EXCEPT ![i] = answers]
  /\ LET ok == Valid(Parsed(o)) /\ Acknowledged(o)
     IN  /\ Goto(i, IF ok THEN "target" ELSE "refused")
         /\ plan' = [plan EXCEPT ![i] = IF ok THEN Plan(Parsed(o)) ELSE Nobody]
  /\ UNCHANGED host

Arguments(i) == \E o \in Options : Take(i, o, {})

(* The wizard asks about the socket if it would be mounted, and stops by     *)
(* itself if it may not be; it asks for origins if the gateway is public.    *)
Wizard(i) ==
  \E a \in Answers :
    /\ a.mountSocket <=> a.engine = "local"
    /\ a.origins = "null" => a.exposure = "public"
    /\ Take(i, WizardOptions(a), {a})

-----------------------------------------------------------------------------
(* installServer(): the checks.  The files the options name, the payload and *)
(* the Docker command may be missing at any of them.                         *)

Empty(d) == copied[d] = {} /\ envFile[d] = Nobody

TargetChecked(i) ==
  /\ pc[i] = "target"
  /\ Goto(i, IF Empty(plan[i].directory) THEN "port" ELSE "failed")
  /\ UNCHANGED <<plan, asked, host>>

PortChecked(i) ==
  /\ pc[i] = "port"
  /\ Goto(i, IF listening[plan[i].port] # Nobody THEN "failed"
             ELSE IF plan[i].dryRun THEN "planned" ELSE "copy")
  /\ UNCHANGED <<plan, asked, host>>

-----------------------------------------------------------------------------
(* The writes.  cp() reports files that exist; two installers that copy at   *)
(* the same time may both find none.                                         *)
Copied(i) ==
  LET d == plan[i].directory IN
  /\ pc[i] = "copy"
  /\ copied' = [copied EXCEPT ![d] = @ \cup {i}]
  /\ IF copied[d] = {} THEN Goto(i, "environment")
     ELSE Goto(i, "environment") \/ Goto(i, "failed")
  /\ UNCHANGED <<plan, asked, envFile, listening, gateway, ambient>>

(* Fault: the environment file is opened with the flag "w". *)
Writable_Always(d) == TRUE

(* The flag "wx": the file must not exist. *)
Writable(d) == envFile[d] = Nobody

EnvironmentWritten(i) ==
  LET d == plan[i].directory IN
  /\ pc[i] = "environment"
  /\ IF Writable(d)
     THEN Goto(i, "config") /\ envFile' = [envFile EXCEPT ![d] = i]
     ELSE Goto(i, "failed") /\ UNCHANGED envFile
  /\ UNCHANGED <<plan, asked, copied, listening, gateway, ambient>>

(* compose config --quiet finds nothing to complain about. *)
ConfigChecked(i) ==
  /\ pc[i] = "config"
  /\ Goto(i, "up")
  /\ UNCHANGED <<plan, asked, host>>

Preferred(ambientValue, value) == IF ambientValue = "unset" THEN value ELSE ambientValue

(* Fault: the shell's environment is passed to Compose as it is. *)
ComposeSettings_Ambient(s) ==
  [s EXCEPT !.bindHost = Preferred(ambient.bindHost, @),
            !.authMode = Preferred(ambient.authMode, @)]

(* The generated values are laid over the shell's environment. *)
ComposeSettings(s) == s

(* compose up: the project's container is created, or recreated with the new *)
(* settings; its port must be free or its own.                               *)
Started(i) ==
  LET o == plan[i] IN
  /\ pc[i] = "up"
  /\ listening[o.port] \in {Nobody, o.project}
  /\ Goto(i, "waiting")
  /\ gateway' = [gateway EXCEPT ![o.project] =
       ComposeSettings(Settings(envFile[o.directory]))]
  /\ listening' = [p \in Ports |->
       IF p = o.port THEN o.project
       ELSE IF listening[p] = o.project THEN Nobody ELSE listening[p]]
  /\ UNCHANGED <<plan, asked, copied, envFile, ambient>>

StartFailed(i) ==
  /\ pc[i] = "up"
  /\ Goto(i, "failed")
  /\ UNCHANGED <<plan, asked, host>>

(* waitForGatewayHealth(): whatever answers at the port. *)
Healthy(i) ==
  /\ pc[i] = "waiting"
  /\ listening[plan[i].port] # Nobody
  /\ Goto(i, "installed")
  /\ UNCHANGED <<plan, asked, host>>

(* A check, a write or Compose fails, the gateway is not healthy in time, or *)
(* the installer is interrupted; what it wrote stays.                        *)
Aborted(i) ==
  /\ pc[i] \notin Stopped \cup {"idle", "up"}
  /\ Goto(i, "failed")
  /\ UNCHANGED <<plan, asked, host>>

(* Another program takes a port. *)
PortTaken(p) ==
  /\ listening[p] = Nobody
  /\ listening' = [listening EXCEPT ![p] = "service"]
  /\ UNCHANGED <<pc, plan, asked, copied, envFile, gateway, ambient>>

Next ==
  \/ \E i \in Installers :
       \/ Arguments(i) \/ Wizard(i)
       \/ TargetChecked(i) \/ PortChecked(i)
       \/ Copied(i) \/ EnvironmentWritten(i) \/ ConfigChecked(i)
       \/ Started(i) \/ StartFailed(i) \/ Healthy(i) \/ Aborted(i)
  \/ \E p \in Ports : PortTaken(p)

Spec == Init /\ [][Next]_vars

-----------------------------------------------------------------------------
TypeOK ==
  /\ pc \in [Installers -> {"idle", "target", "port", "copy", "environment", "config",
                            "up", "waiting"} \cup Stopped]
  /\ plan \in [Installers -> Plans \cup {Nobody}]
  /\ asked \in [Installers -> SUBSET Answers]
  /\ copied \in [Directories -> SUBSET Installers]
  /\ envFile \in [Directories -> Installers \cup {Nobody}]
  /\ listening \in [Ports -> Projects \cup {"service", Nobody}]
  /\ gateway \in [Projects -> Containers \cup {Nobody}]

(* However installers race for a directory, at most one of them gets Compose *)
(* to run there, with the environment it wrote itself: the check of the      *)
(* empty directory is no guard, the exclusive creation of the file is        *)
(* (writeServerEnvironment()).                                               *)
OneInstallPerDirectory ==
  \A i \in Installers :
    pc[i] \in {"config", "up", "waiting", "installed"}
      => envFile[plan[i].directory] = i

(* No gateway of the installer is reachable from the network with the        *)
(* development login or for the packaged desktop's opaque origin, whatever   *)
(* the arguments, the wizard's answers and the shell's environment.          *)
NoExposedDevelopmentLogin ==
  \A p \in Projects :
    gateway[p] # Nobody /\ gateway[p].bindHost = "public"
      => gateway[p].authMode = "oidc" /\ ~gateway[p].opaqueOrigin

(* Of all that the wizard may be told the parser it feeds refuses one thing: *)
(* the opaque origin "null" among the clients of a public gateway, which the *)
(* check of that answer alone lets pass (parseAllowedOrigin()).              *)
WizardIsAccepted ==
  \A i \in Installers : \A a \in asked[i] :
    pc[i] = "refused" <=> NullOriginInPublic(a)

(* bin/server-installer.mjs:835: the installer does not replace an existing  *)
(* gateway.                                                                  *)
GatewayNotReplaced ==
  [][\A p \in Projects : gateway[p] # Nobody => gateway'[p] = gateway[p]]_vars
=============================================================================
