--------------------------- MODULE InstallerProofs ---------------------------
(***************************************************************************)
(* The safety properties of Installer for any number of installers,        *)
(* directories, ports and Compose projects.                                *)
(***************************************************************************)
EXTENDS Installer, TLAPS

(* An installer whose options were accepted has a plan, and the plan of a    *)
(* gateway open to the network asks for the login of an identity provider.   *)
PlansFit ==
  \A i \in Installers : pc[i] \notin {"idle", "refused"} =>
    /\ plan[i] \in Plans
    /\ plan[i].bindHost = "public" => plan[i].authMode = "oidc" /\ ~plan[i].opaqueOrigin

(* The inductive invariant. *)
IInv ==
  /\ TypeOK /\ PlansFit
  /\ OneInstallPerDirectory /\ NoExposedDevelopmentLogin /\ WizardIsAccepted

-----------------------------------------------------------------------------
(* The options, parsed, give a plan; the wizard's options give a valid one   *)
(* unless the opaque origin is to be let into a public gateway.              *)
LEMMA PlanTyped ==
  ASSUME NEW o \in Options PROVE Plan(Parsed(o)) \in Plans
BY DEF Options, Plans, Plan, Parsed

LEMMA ValidPlanFits ==
  ASSUME NEW o \in Options, Valid(Parsed(o)), Plan(Parsed(o)).bindHost = "public"
  PROVE  Plan(Parsed(o)).authMode = "oidc" /\ ~Plan(Parsed(o)).opaqueOrigin
BY DEF Options, Plan, Parsed, Valid, AuthFits

LEMMA WizardTyped ==
  ASSUME NEW a \in Answers PROVE WizardOptions(a) \in Options
<1>1. (CHOOSE p \in Projects : TRUE) \in Projects
  BY ProjectsAssumption
<1> QED
  BY <1>1 DEF Answers, Options, WizardOptions, WizardAuth, NullOriginInPublic

LEMMA WizardFits ==
  ASSUME NEW a \in Answers
  PROVE  Valid(Parsed(WizardOptions(a))) /\ Acknowledged(WizardOptions(a))
           <=> ~NullOriginInPublic(a)
<1> DEFINE o == WizardOptions(a)
<1>1. o.bindHost = IF a.exposure = "public" THEN "public" ELSE "loopback"
  BY DEF WizardOptions
<1>2. o.authMode = WizardAuth(a) /\ o.providersFile = (WizardAuth(a) = "oidc")
  BY DEF WizardOptions
<1>3. o.opaqueOrigin = NullOriginInPublic(a) /\ o.socketGiven = FALSE
  BY DEF WizardOptions
<1>4. /\ o.endpoint = (a.engine = "remote") /\ o.allowSocket = (a.engine = "local")
      /\ o.tlsFiles = IF a.engine = "remote" THEN "all" ELSE "none"
  BY DEF WizardOptions
<1>5. a.exposure = "public" => WizardAuth(a) = "oidc"
  BY DEF WizardAuth
<1>6. a.engine \in {"local", "remote"}
  BY DEF Answers
<1>7. Parsed(o) = [o EXCEPT !.opaqueOrigin = o.opaqueOrigin \/ o.bindHost = "loopback"]
  BY DEF Parsed
<1>8. o \in Options
  BY WizardTyped
<1>9. AuthFits(Parsed(o)) <=> ~NullOriginInPublic(a)
  BY <1>1, <1>2, <1>3, <1>5, <1>7, <1>8 DEF AuthFits, Options, NullOriginInPublic
<1>10. EngineFits(Parsed(o))
  BY <1>3, <1>4, <1>6, <1>7, <1>8 DEF EngineFits, Options
<1>11. Acknowledged(o)
  BY <1>4, <1>6 DEF Acknowledged
<1> QED
  BY <1>9, <1>10, <1>11 DEF Valid

(* Both ways to take the options, with the facts about the plan.             *)
LEMMA TakePlans ==
  ASSUME NEW i \in Installers, Arguments(i) \/ Wizard(i), TypeOK
  PROVE  /\ pc[i] = "idle" /\ UNCHANGED host
         /\ \E to \in {"target", "refused"}, pl \in Plans \cup {Nobody}, w \in SUBSET Answers :
              /\ pc' = [pc EXCEPT ![i] = to] /\ plan' = [plan EXCEPT ![i] = pl]
              /\ asked' = [asked EXCEPT ![i] = w]
              /\ to = "target" => pl \in Plans
              /\ to = "target" /\ pl.bindHost = "public" =>
                   pl.authMode = "oidc" /\ ~pl.opaqueOrigin
              /\ \A a \in w : to = "refused" <=> NullOriginInPublic(a)
<1>1. PICK o \in Options, w \in SUBSET Answers :
        /\ Take(i, o, w)
        /\ \A a \in w : Valid(Parsed(o)) /\ Acknowledged(o) <=> ~NullOriginInPublic(a)
  <2>1. CASE Arguments(i)
    BY <2>1 DEF Arguments
  <2>2. CASE Wizard(i)
    BY <2>2, WizardTyped, WizardFits DEF Wizard
  <2> QED
    BY <2>1, <2>2
<1> DEFINE ok == Valid(Parsed(o)) /\ Acknowledged(o)
           to == IF ok THEN "target" ELSE "refused"
           pl == IF ok THEN Plan(Parsed(o)) ELSE Nobody
<1>2. /\ pc[i] = "idle" /\ UNCHANGED host
      /\ pc' = [pc EXCEPT ![i] = to] /\ plan' = [plan EXCEPT ![i] = pl]
      /\ asked' = [asked EXCEPT ![i] = w]
  BY <1>1 DEF Take, Goto
<1>3. to \in {"target", "refused"} /\ pl \in Plans \cup {Nobody} /\ (to = "target" => pl \in Plans)
  BY PlanTyped
<1>4. to = "target" /\ pl.bindHost = "public" => pl.authMode = "oidc" /\ ~pl.opaqueOrigin
  BY ValidPlanFits
<1>5. \A a \in w : to = "refused" <=> NullOriginInPublic(a)
  BY <1>1
<1> HIDE DEF to, pl
<1> QED
  BY <1>2, <1>3, <1>4, <1>5

-----------------------------------------------------------------------------
LEMMA IInvInit == Init => IInv
BY NobodyAssumption DEF Init, IInv, TypeOK, PlansFit, OneInstallPerDirectory,
   NoExposedDevelopmentLogin, WizardIsAccepted, Stopped

(* A step of an installer that only moves on keeps every plan, and refuses   *)
(* nobody.                                                                   *)
LEMMA MovesOn ==
  ASSUME IInv, NEW i \in Installers, pc[i] \notin Stopped \cup {"idle"},
         NEW to \in {"port", "copy", "environment", "config", "up", "waiting"} \cup
                    (Stopped \ {"refused"}),
         pc' = [pc EXCEPT ![i] = to], UNCHANGED <<plan, asked>>
  PROVE  /\ pc' \in [Installers -> {"idle", "target", "port", "copy", "environment", "config",
                                    "up", "waiting"} \cup Stopped]
         /\ plan' \in [Installers -> Plans \cup {Nobody}]
         /\ asked' \in [Installers -> SUBSET Answers]
         /\ PlansFit' /\ WizardIsAccepted'
BY DEF IInv, TypeOK, PlansFit, WizardIsAccepted, Stopped

(* The checks, and the installers that stop, write nothing.                  *)
LEMMA ChecksPreserve ==
  ASSUME IInv, NEW i \in Installers, UNCHANGED <<plan, asked, host>>,
         pc[i] \notin Stopped \cup {"idle"},
         NEW to \in {"port", "copy", "up", "waiting"} \cup (Stopped \ {"refused"}),
         pc' = [pc EXCEPT ![i] = to],
         to \in {"up", "waiting", "installed"} => pc[i] \in {"config", "up", "waiting"}
  PROVE  IInv'
<1>1. OneInstallPerDirectory'
  BY DEF IInv, OneInstallPerDirectory, TypeOK, host, Stopped
<1>2. NoExposedDevelopmentLogin'
  BY DEF IInv, NoExposedDevelopmentLogin, host
<1>3. TypeOK'
  BY MovesOn DEF IInv, TypeOK, host
<1> QED
  BY <1>1, <1>2, <1>3, MovesOn DEF IInv

LEMMA TakePreserves ==
  ASSUME IInv, NEW i \in Installers, Arguments(i) \/ Wizard(i)
  PROVE  IInv'
<1>1. TypeOK
  BY DEF IInv
<1>2. PICK to \in {"target", "refused"}, pl \in Plans \cup {Nobody}, w \in SUBSET Answers :
        /\ pc' = [pc EXCEPT ![i] = to] /\ plan' = [plan EXCEPT ![i] = pl]
        /\ asked' = [asked EXCEPT ![i] = w]
        /\ to = "target" => pl \in Plans
        /\ to = "target" /\ pl.bindHost = "public" => pl.authMode = "oidc" /\ ~pl.opaqueOrigin
        /\ \A a \in w : to = "refused" <=> NullOriginInPublic(a)
  BY <1>1, TakePlans
<1>3. pc[i] = "idle" /\ UNCHANGED host
  BY <1>1, TakePlans
<1>5. TypeOK'
  BY <1>2, <1>3 DEF IInv, TypeOK, host, Stopped
<1>6. OneInstallPerDirectory'
  BY <1>2, <1>3 DEF IInv, OneInstallPerDirectory, TypeOK, host
<1>7. NoExposedDevelopmentLogin'
  BY <1>3 DEF IInv, NoExposedDevelopmentLogin, host
<1>8. WizardIsAccepted'
  BY <1>2 DEF IInv, WizardIsAccepted, TypeOK
<1>9. PlansFit'
  BY <1>2, <1>3 DEF IInv, PlansFit, TypeOK, Stopped
<1> QED
  BY <1>5, <1>6, <1>7, <1>8, <1>9 DEF IInv

LEMMA StartedPreserves ==
  ASSUME IInv, NEW i \in Installers, Started(i)
  PROVE  IInv'
<1> DEFINE o == plan[i]
           s == Settings(i)
<1>1. pc[i] = "up" /\ o \in Plans /\ envFile[o.directory] = i
  BY DEF Started, IInv, TypeOK, PlansFit, OneInstallPerDirectory, Stopped
<1>2. gateway' = [gateway EXCEPT ![o.project] = s]
  BY <1>1 DEF Started, ComposeSettings
<1>3. s \in Containers /\ (s.bindHost = "public" => s.authMode = "oidc" /\ ~s.opaqueOrigin)
  BY <1>1 DEF Settings, Containers, Plans, IInv, PlansFit, Stopped
<1>4. pc' = [pc EXCEPT ![i] = "waiting"] /\ UNCHANGED <<plan, asked, copied, envFile, ambient>>
  BY DEF Started, Goto
<1>5. o.project \in Projects
  BY <1>1 DEF Plans
<1> HIDE DEF s
<1>6. TypeOK'
  <2>1. listening' \in [Ports -> Projects \cup {"service", Nobody}]
    BY <1>5 DEF Started, IInv, TypeOK
  <2> QED
    BY <1>1, <1>2, <1>3, <1>4, <1>5, <2>1, MovesOn DEF IInv, TypeOK, Stopped
<1>7. OneInstallPerDirectory'
  BY <1>1, <1>4 DEF IInv, OneInstallPerDirectory, TypeOK
<1>8. NoExposedDevelopmentLogin'
  BY <1>2, <1>3, <1>5 DEF IInv, NoExposedDevelopmentLogin, TypeOK
<1> QED
  BY <1>1, <1>4, <1>6, <1>7, <1>8, MovesOn DEF IInv, Stopped

(* The exclusive creation: another installer past it would have left its     *)
(* file in the directory.                                                    *)
LEMMA EnvironmentPreserves ==
  ASSUME IInv, NEW i \in Installers, EnvironmentWritten(i)
  PROVE  IInv'
<1> DEFINE d == plan[i].directory
<1>1. pc[i] = "environment" /\ plan[i] \in Plans
  BY DEF EnvironmentWritten, IInv, TypeOK, PlansFit, Stopped
<1>2. d \in Directories
  BY <1>1 DEF Plans
<1>3. UNCHANGED <<plan, asked, copied, listening, gateway, ambient>>
  BY DEF EnvironmentWritten
<1>4. PICK to \in {"config", "failed"} : pc' = [pc EXCEPT ![i] = to]
  BY DEF EnvironmentWritten, Goto
<1>5. envFile' \in [Directories -> Installers \cup {Nobody}]
  BY <1>2 DEF EnvironmentWritten, IInv, TypeOK
<1>6. TypeOK'
  BY <1>1, <1>3, <1>4, <1>5, MovesOn DEF IInv, TypeOK, Stopped
<1>7. OneInstallPerDirectory'
  <2>1. CASE Writable(d)
    <3> SUFFICES ASSUME NEW j \in Installers,
                        pc'[j] \in {"config", "up", "waiting", "installed"}
                 PROVE  envFile'[plan[j].directory] = j
      BY <1>3 DEF OneInstallPerDirectory
    <3>1. CASE j = i
      BY <3>1, <2>1, <1>2 DEF EnvironmentWritten, IInv, TypeOK
    <3>2. CASE j # i
      <4>1. envFile[plan[j].directory] = j
        BY <3>2, <1>4 DEF IInv, OneInstallPerDirectory, TypeOK
      <4>3. plan[j] \in Plans
        BY <3>2, <1>4 DEF IInv, PlansFit, TypeOK
      <4>2. plan[j].directory # d
        BY <4>1, <2>1, NobodyAssumption DEF Writable
      <4> QED
        BY <4>1, <4>2, <4>3, <2>1, <1>2 DEF EnvironmentWritten, Plans, IInv, TypeOK
    <3> QED
      BY <3>1, <3>2
  <2>2. CASE ~Writable(d)
    BY <2>2, <1>1 DEF EnvironmentWritten, Goto, IInv, OneInstallPerDirectory, TypeOK
  <2> QED
    BY <2>1, <2>2
<1>8. NoExposedDevelopmentLogin'
  BY <1>3 DEF IInv, NoExposedDevelopmentLogin
<1> QED
  BY <1>1, <1>3, <1>4, <1>6, <1>7, <1>8, MovesOn DEF IInv, Stopped

LEMMA IInvStep == IInv /\ [Next]_vars => IInv'
<1> SUFFICES ASSUME IInv, [Next]_vars PROVE IInv'
  OBVIOUS
<1>1. ASSUME NEW i \in Installers, Arguments(i) \/ Wizard(i) PROVE IInv'
  BY <1>1, TakePreserves
<1>2. ASSUME NEW i \in Installers, TargetChecked(i) PROVE IInv'
  <2>1. PICK to \in {"port", "failed"} : pc' = [pc EXCEPT ![i] = to]
    BY <1>2 DEF TargetChecked, Goto
  <2> QED
    BY <1>2, <2>1, ChecksPreserve DEF TargetChecked, Stopped
<1>3. ASSUME NEW i \in Installers, PortChecked(i) PROVE IInv'
  BY <1>3, ChecksPreserve DEF PortChecked, Goto, Stopped
<1>4. ASSUME NEW i \in Installers, Copied(i) PROVE IInv'
  <2>1. PICK to \in {"environment", "failed"} : pc' = [pc EXCEPT ![i] = to]
    BY <1>4 DEF Copied, Goto
  <2>2. pc[i] = "copy" /\ UNCHANGED <<plan, asked, envFile, listening, gateway, ambient>>
    BY <1>4 DEF Copied
  <2>3. copied' \in [Directories -> SUBSET Installers]
    BY <1>4 DEF Copied, IInv, TypeOK
  <2>4. TypeOK'
    BY <2>1, <2>2, <2>3, MovesOn DEF IInv, TypeOK, Stopped
  <2>5. OneInstallPerDirectory' /\ NoExposedDevelopmentLogin'
    BY <2>1, <2>2 DEF IInv, OneInstallPerDirectory, NoExposedDevelopmentLogin, TypeOK
  <2> QED
    BY <2>1, <2>2, <2>4, <2>5, MovesOn DEF IInv, Stopped
<1>5. ASSUME NEW i \in Installers, EnvironmentWritten(i) PROVE IInv'
  BY <1>5, EnvironmentPreserves
<1>6. ASSUME NEW i \in Installers, ConfigChecked(i) PROVE IInv'
  BY <1>6, ChecksPreserve DEF ConfigChecked, Goto, Stopped
<1>7. ASSUME NEW i \in Installers, Started(i) PROVE IInv'
  BY <1>7, StartedPreserves
<1>8. ASSUME NEW i \in Installers, StartFailed(i) PROVE IInv'
  BY <1>8, ChecksPreserve DEF StartFailed, Goto, Stopped
<1>9. ASSUME NEW i \in Installers, Healthy(i) PROVE IInv'
  BY <1>9, ChecksPreserve DEF Healthy, Goto, Stopped
<1>10. ASSUME NEW i \in Installers, Aborted(i) PROVE IInv'
  BY <1>10, ChecksPreserve DEF Aborted, Goto, Stopped
<1>11. ASSUME NEW p \in Ports, PortTaken(p) PROVE IInv'
  BY <1>11 DEF PortTaken, IInv, TypeOK, PlansFit, OneInstallPerDirectory,
     NoExposedDevelopmentLogin, WizardIsAccepted
<1>12. ASSUME UNCHANGED vars PROVE IInv'
  BY <1>12 DEF vars, IInv, TypeOK, PlansFit, OneInstallPerDirectory,
     NoExposedDevelopmentLogin, WizardIsAccepted
<1> QED
  BY <1>1, <1>2, <1>3, <1>4, <1>5, <1>6, <1>7, <1>8, <1>9, <1>10, <1>11, <1>12 DEF Next

LEMMA IInvInvariant == Spec => []IInv
BY IInvInit, IInvStep, PTL DEF Spec

(* The installer's variables always have their types.                        *)
THEOREM TypeCorrect == Spec => []TypeOK
BY IInvInvariant, PTL DEF IInv

(* At most one of the installers that race for a directory runs Compose      *)
(* there, with its own environment (writeServerEnvironment()).               *)
THEOREM DirectoriesHaveOneInstall == Spec => []OneInstallPerDirectory
BY IInvInvariant, PTL DEF IInv

(* No gateway that was installed offers the development login or the opaque  *)
(* origin to the network (buildServerInstallPlan(), runCompose()).           *)
THEOREM PublicGatewaysAskForLogin == Spec => []NoExposedDevelopmentLogin
BY IInvInvariant, PTL DEF IInv

(* Of the wizard's answers the parser refuses exactly those that let the     *)
(* opaque origin into a public gateway (collectServerInstallArguments(),     *)
(* validateServerInstallOptions()).                                          *)
THEOREM WizardRefusedForNullOrigin == Spec => []WizardIsAccepted
BY IInvInvariant, PTL DEF IInv
=============================================================================
