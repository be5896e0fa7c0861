----------------------------- MODULE ServicesProofs -----------------------------
(***************************************************************************)
(* What holds of the services around the loop, for any constants. The      *)
(* services share no state: each theorem follows from an invariant of one  *)
(* of them, which the steps of the others leave alone.                     *)
(***************************************************************************)
EXTENDS MCServices, Sequences, FiniteSets, FiniteSetTheorems, TLAPS

\* A step of the services is a step of each of them, or leaves it alone.
LEMMA EachTakesItsSteps ==
  [ServicesNext]_servicesVars =>
    /\ [Failover!FailoverNext]_failoverVars /\ [Cli!CliNext]_cliVars
    /\ [Config!ConfigNext]_configVars /\ [Caps!CapNext]_capVars
    /\ [Claw!ClawNext]_clawVars /\ [Links!LinkNext]_linkVars
    /\ [Verdicts!Next]_verdictVars /\ [WhatsApp!WhatsAppNext]_whatsappVars
    /\ [Trackers!TrackerNext]_trackerVars
<1>1. ASSUME NEW one, Rest(one)
      PROVE  /\ one # "failover" => UNCHANGED failoverVars
             /\ one # "cli" => UNCHANGED cliVars
             /\ one # "config" => UNCHANGED configVars
             /\ one # "capabilities" => UNCHANGED capVars
             /\ one # "claw" => UNCHANGED clawVars
             /\ one # "links" => UNCHANGED linkVars
             /\ one # "verdicts" => UNCHANGED verdictVars
             /\ one # "whatsapp" => UNCHANGED whatsappVars
             /\ one # "trackers" => UNCHANGED trackerVars
  BY <1>1 DEF Rest
<1>2. CASE UNCHANGED servicesVars
  BY <1>2 DEF servicesVars
<1> QED BY <1>1, <1>2 DEF ServicesNext, Only

(***************************************************************************)
(* CliHarness                                                              *)
(***************************************************************************)

CliStages == {"new", "probing", "refused", "overlay", "artifact", "patch", "spawn",
              "exec", "dispose", "cleanup", "return", "done"}
CliStates == {"none", "running", "completed", "failed", "cancelled"}

\* The file of the prompt is there from the artifact to its disposal, of dsh alone.
PromptInRun(s) ==
  /\ "payload" \in files[s] => stage[s] \in {"patch", "spawn", "exec", "dispose"} /\ adapter[s] = "dsh"
  /\ stage[s] \in {"probing", "overlay", "artifact", "patch"} => adapter[s] = "dsh"

\* A session has ended when it was cancelled, or when its run has returned a result that
\* was taken; who listens was told of that once.
EndInRun(s) ==
  /\ session[s] = "none" <=> stage[s] \in {"new", "probing", "refused"}
  /\ session[s] \in {"completed", "failed"} => stage[s] = "done"
  /\ heard[s] = IF listening[s] /\ session[s] \in Cli!Over THEN 1 ELSE 0

CliInv ==
  /\ adapter \in [CliSessions -> {"native", "acp", "dsh"}]
  /\ stage \in [CliSessions -> CliStages] /\ session \in [CliSessions -> CliStates]
  /\ files \in [CliSessions -> SUBSET {"overlay", "payload"}]
  /\ listening \in [CliSessions -> BOOLEAN] /\ heard \in [CliSessions -> Nat]
  /\ \A s \in CliSessions : PromptInRun(s) /\ EndInRun(s)

\* The start of a session, and what happens to a session that nothing is done to.
LEMMA CliStarts ==
  ASSUME ServicesInit
  PROVE  CliInv
<1>1. Cli!Init
  BY DEF ServicesInit
<1> QED BY <1>1 DEF Cli!Init, Cli!Over, CliInv, CliStages, CliStates, PromptInRun, EndInRun

\* Every step of a session keeps what holds of it: a result is taken only of a run that
\* nobody cancelled, and the file of the prompt goes before the run returns.
LEMMA CliKeeps ==
  ASSUME CliInv, [Cli!CliNext]_cliVars
  PROVE  CliInv'
<1> USE DEF Cli!process, Cli!caller, Cli!Goes, Cli!Settles, Cli!Told, Cli!Over
<1>1. /\ adapter \in [CliSessions -> {"native", "acp", "dsh"}]
      /\ stage \in [CliSessions -> CliStages] /\ session \in [CliSessions -> CliStates]
      /\ files \in [CliSessions -> SUBSET {"overlay", "payload"}]
      /\ listening \in [CliSessions -> BOOLEAN] /\ heard \in [CliSessions -> Nat]
      /\ \A x \in CliSessions : PromptInRun(x) /\ EndInRun(x)
  BY DEF CliInv
<1>2. ASSUME adapter' = adapter, stage' = stage, session' = session, files' = files,
             listening' = listening, heard' = heard
      PROVE  CliInv'
  BY <1>1, <1>2 DEF CliInv, PromptInRun, EndInRun
\* what a step of s changes is its own
<1>3. ASSUME NEW s \in CliSessions, adapter' = adapter,
             stage' = [stage EXCEPT ![s] = stage'[s]], stage'[s] \in CliStages,
             session' = [session EXCEPT ![s] = session'[s]], session'[s] \in CliStates,
             files' = [files EXCEPT ![s] = files'[s]], files'[s] \in SUBSET {"overlay", "payload"},
             listening' = [listening EXCEPT ![s] = listening'[s]], listening'[s] \in BOOLEAN,
             heard' = [heard EXCEPT ![s] = heard'[s]], heard'[s] \in Nat,
             PromptInRun(s)', EndInRun(s)'
      PROVE  CliInv'
  <2>1. /\ stage' \in [CliSessions -> CliStages] /\ session' \in [CliSessions -> CliStates]
        /\ files' \in [CliSessions -> SUBSET {"overlay", "payload"}]
        /\ listening' \in [CliSessions -> BOOLEAN] /\ heard' \in [CliSessions -> Nat]
    BY <1>1, <1>3
  <2>2. ASSUME NEW x \in CliSessions, x # s
        PROVE  PromptInRun(x)' /\ EndInRun(x)'
    <3>1. /\ stage'[x] = stage[x] /\ session'[x] = session[x] /\ files'[x] = files[x]
          /\ listening'[x] = listening[x] /\ heard'[x] = heard[x] /\ adapter'[x] = adapter[x]
      BY <1>1, <1>3, <2>2
    <3> QED BY <1>1, <3>1 DEF PromptInRun, EndInRun
  <2> QED BY <1>1, <1>3, <2>1, <2>2 DEF CliInv
<1>4. CASE UNCHANGED cliVars
  BY <1>2, <1>4 DEF cliVars
<1>5. CASE Cli!ProbeEnds
  BY <1>2, <1>5 DEF Cli!ProbeEnds
<1>6. ASSUME NEW s \in CliSessions,
             \/ Cli!StartNative(s) \/ Cli!StartAcp(s) \/ Cli!StartDsh(s) \/ Cli!Listen(s) \/ Cli!Cancel(s)
             \/ Cli!StdinFinishes(s) \/ Cli!StdinBreaks(s) \/ Cli!ChildExits(s) \/ Cli!ChildCloses(s)
             \/ Cli!CliRuns(s)
      PROVE  CliInv'
  <2>1. /\ stage[s] \in CliStages /\ session[s] \in CliStates
        /\ files[s] \in SUBSET {"overlay", "payload"} /\ listening[s] \in BOOLEAN /\ heard[s] \in Nat
        /\ PromptInRun(s) /\ EndInRun(s)
    BY <1>1
  <2>2. CASE Cli!Starts(s)
    <3>1. stage[s] = "new" /\ stage' = [stage EXCEPT ![s] = "spawn"]
          /\ session' = [session EXCEPT ![s] = "running"] /\ UNCHANGED <<files, adapter, listening, heard>>
      BY <2>2 DEF Cli!Starts, Cli!Begun
    <3>2. PromptInRun(s)' /\ EndInRun(s)'
      BY <1>1, <2>1, <3>1 DEF PromptInRun, EndInRun
    <3> QED BY <1>1, <1>3, <2>1, <3>1, <3>2 DEF CliStages, CliStates
  <2>3. CASE Cli!StartDsh(s)
    <3>1. stage[s] = "new" /\ stage' = [stage EXCEPT ![s] = "probing"] /\ adapter[s] = "dsh"
          /\ UNCHANGED <<session, files, adapter, listening, heard>>
      BY <2>3 DEF Cli!StartDsh
    <3>2. PromptInRun(s)' /\ EndInRun(s)'
      BY <1>1, <2>1, <3>1 DEF PromptInRun, EndInRun
    <3> QED BY <1>1, <1>3, <2>1, <3>1, <3>2 DEF CliStages, CliStates
  <2>4. CASE Cli!Listen(s)
    <3>1. /\ ~ listening[s] /\ listening' = [listening EXCEPT ![s] = TRUE]
          /\ heard' = [heard EXCEPT ![s] = IF session[s] \in Cli!Over THEN heard[s] + 1 ELSE heard[s]]
          /\ UNCHANGED <<session, stage, files, adapter>>
      BY <2>4 DEF Cli!Listen
    <3>2. PromptInRun(s)' /\ EndInRun(s)'
      BY <1>1, <2>1, <3>1 DEF PromptInRun, EndInRun
    <3>3. heard'[s] \in Nat /\ heard' = [heard EXCEPT ![s] = heard'[s]]
      BY <1>1, <2>1, <3>1
    <3>4. listening'[s] \in BOOLEAN /\ listening' = [listening EXCEPT ![s] = listening'[s]]
      BY <1>1, <3>1
    <3> QED BY <1>1, <1>3, <2>1, <3>1, <3>2, <3>3, <3>4
  <2>5. CASE Cli!Cancel(s)
    <3>1. /\ session[s] = "running" /\ session' = [session EXCEPT ![s] = "cancelled"]
          /\ heard' = [heard EXCEPT ![s] = IF listening[s] THEN heard[s] + 1 ELSE heard[s]]
          /\ UNCHANGED <<listening, stage, files, adapter>>
      BY <2>5 DEF Cli!Cancel
    <3>2. PromptInRun(s)' /\ EndInRun(s)'
      BY <1>1, <2>1, <3>1 DEF PromptInRun, EndInRun
    <3>3. heard'[s] \in Nat /\ heard' = [heard EXCEPT ![s] = heard'[s]]
      BY <1>1, <2>1, <3>1
    <3>4. session'[s] \in CliStates /\ session' = [session EXCEPT ![s] = session'[s]]
      BY <1>1, <3>1 DEF CliStates
    <3> QED BY <1>1, <1>3, <2>1, <3>1, <3>2, <3>3, <3>4
  <2>6. CASE Cli!StdinFinishes(s) \/ Cli!StdinBreaks(s) \/ Cli!ChildExits(s) \/ Cli!ChildCloses(s)
             \/ Cli!AbortError(s)
    BY <1>2, <2>6 DEF Cli!StdinFinishes, Cli!StdinBreaks, Cli!ChildExits, Cli!ChildCloses, Cli!AbortError
  <2>7. CASE Cli!AfterProbe(s)
    <3>1. /\ stage[s] = "probing" /\ UNCHANGED <<files, adapter, listening, heard>>
          /\ \/ stage' = [stage EXCEPT ![s] = "overlay"] /\ session' = [session EXCEPT ![s] = "running"]
             \/ stage' = [stage EXCEPT ![s] = "refused"] /\ session' = session
      BY <2>7 DEF Cli!AfterProbe, Cli!Begun
    <3>2. PromptInRun(s)' /\ EndInRun(s)'
      BY <1>1, <2>1, <3>1 DEF PromptInRun, EndInRun
    <3> QED BY <1>1, <1>3, <2>1, <3>1, <3>2 DEF CliStages, CliStates
  \* the steps of a run change its stage and its files
  <2>8. ASSUME NEW st \in CliStages, NEW fi \in SUBSET {"overlay", "payload"},
               stage' = [stage EXCEPT ![s] = st], files' = [files EXCEPT ![s] = fi],
               UNCHANGED <<session, adapter, listening, heard>>,
               "payload" \in fi => st \in {"patch", "spawn", "exec", "dispose"} /\ adapter[s] = "dsh",
               st \in {"probing", "overlay", "artifact", "patch"} => adapter[s] = "dsh",
               stage[s] \notin {"new", "probing", "refused", "done"},
               st \notin {"new", "probing", "refused"}
        PROVE  CliInv'
    <3>1. PromptInRun(s)' /\ EndInRun(s)'
      BY <1>1, <2>1, <2>8 DEF PromptInRun, EndInRun
    <3> QED BY <1>1, <1>3, <2>1, <2>8, <3>1
  <2>9. CASE Cli!MakeOverlay(s) \/ Cli!MakeArtifact(s)
    <3>1. /\ stage[s] \in {"overlay", "artifact"} /\ UNCHANGED <<session, adapter, listening, heard>>
          /\ \/ stage' = [stage EXCEPT ![s] = "artifact"] /\ files' = [files EXCEPT ![s] = {"overlay"}]
             \/ stage' = [stage EXCEPT ![s] = "patch"]
                /\ files' = [files EXCEPT ![s] = files[s] \cup {"payload"}]
             \/ stage' = [stage EXCEPT ![s] = "return"] /\ files' = [files EXCEPT ![s] = files[s]]
      BY <1>1, <2>1, <2>9 DEF Cli!MakeOverlay, Cli!MakeArtifact
    <3> QED BY <2>1, <2>8, <3>1 DEF PromptInRun, CliStages
  <2>10. CASE Cli!WritePatch(s) \/ Cli!Spawn(s)
    <3>1. /\ stage[s] \in {"patch", "spawn"} /\ UNCHANGED <<session, adapter, listening, heard>>
          /\ files' = [files EXCEPT ![s] = files[s]]
          /\ \/ stage' = [stage EXCEPT ![s] = "spawn"]
             \/ stage' = [stage EXCEPT ![s] = "dispose"]
             \/ stage' = [stage EXCEPT ![s] = "exec"]
      BY <1>1, <2>1, <2>10 DEF Cli!WritePatch, Cli!AfterPatch, Cli!Spawn
    <3> QED BY <2>1, <2>8, <3>1 DEF PromptInRun, CliStages
  <2>11. CASE Cli!Dispose(s) \/ Cli!Cleanup(s)
    <3>1. /\ stage[s] \in {"dispose", "cleanup"} /\ UNCHANGED <<session, adapter, listening, heard>>
          /\ \/ stage' = [stage EXCEPT ![s] = "cleanup"]
                /\ files' = [files EXCEPT ![s] = files[s] \ {"payload"}]
             \/ stage' = [stage EXCEPT ![s] = "return"] /\ stage[s] = "cleanup"
                /\ files' = [files EXCEPT ![s] = files[s] \ {"overlay"}]
      BY <2>11 DEF Cli!Dispose, Cli!Cleanup
    <3> QED BY <2>1, <2>8, <3>1 DEF PromptInRun, CliStages
  <2>12. CASE Cli!Settled(s)
    <3>1. /\ stage[s] = "exec" /\ UNCHANGED <<session, adapter, listening, heard>>
          /\ files' = [files EXCEPT ![s] = files[s]]
          /\ stage' = [stage EXCEPT ![s] = IF adapter[s] = "dsh" THEN "dispose" ELSE "return"]
      BY <1>1, <2>1, <2>12 DEF Cli!Settled
    <3> QED BY <2>1, <2>8, <3>1 DEF PromptInRun, CliStages
  <2>13. CASE Cli!Return(s)
    <3>1. /\ stage[s] = "return" /\ stage' = [stage EXCEPT ![s] = "done"]
          /\ files' = files /\ adapter' = adapter /\ listening' = listening
      BY <2>13 DEF Cli!Return
    <3>2. CASE Cli!Taken(s)
      <4> DEFINE se == IF outcome[s] = "zero" THEN "completed" ELSE "failed"
      <4>1. /\ session[s] = "running" /\ session' = [session EXCEPT ![s] = se]
            /\ heard' = [heard EXCEPT ![s] = IF listening[s] THEN heard[s] + 1 ELSE heard[s]]
        BY <2>1, <2>13, <3>2 DEF Cli!Return, Cli!Taken, EndInRun, CliStates
      <4>2. se \in {"completed", "failed"}
        OBVIOUS
      <4> HIDE DEF se
      <4>3. PromptInRun(s)' /\ EndInRun(s)'
        BY <1>1, <2>1, <3>1, <4>1, <4>2 DEF PromptInRun, EndInRun
      <4>4. heard'[s] \in Nat /\ heard' = [heard EXCEPT ![s] = heard'[s]]
        BY <1>1, <2>1, <4>1
      <4>5. session'[s] \in CliStates /\ session' = [session EXCEPT ![s] = session'[s]]
        BY <1>1, <4>1, <4>2 DEF CliStates
      <4> QED BY <1>1, <1>3, <2>1, <3>1, <4>3, <4>4, <4>5 DEF CliStages
    <3>3. CASE ~ Cli!Taken(s)
      <4>1. session' = session /\ heard' = heard
        BY <2>13, <3>3 DEF Cli!Return
      <4>2. PromptInRun(s)' /\ EndInRun(s)'
        <5>1. session[s] # "none" /\ stage'[s] = "done"
          BY <1>1, <2>1, <3>1 DEF EndInRun
        <5> QED BY <1>1, <2>1, <3>1, <4>1, <5>1 DEF PromptInRun, EndInRun
      <4> QED BY <1>1, <1>3, <2>1, <3>1, <4>1, <4>2 DEF CliStages
    <3> QED BY <3>2, <3>3
  <2> QED BY <1>6, <2>2, <2>3, <2>4, <2>5, <2>6, <2>7, <2>9, <2>10, <2>11, <2>12, <2>13
          DEF Cli!StartNative, Cli!StartAcp, Cli!CliRuns, Cli!NativeEnds, Cli!AcpEnds, Cli!DshEnds
<1> QED BY <1>4, <1>5, <1>6 DEF Cli!CliNext

\* The sessions' invariant, in every behaviour of the services.
LEMMA CliInductive == ServicesSpec => []CliInv
<1>1. CliInv /\ [ServicesNext]_servicesVars => CliInv'
  BY CliKeeps, EachTakesItsSteps
<1> QED BY <1>1, CliStarts, PTL DEF ServicesSpec

\* A session of a command-line harness ends once for the caller that listens to it, whether
\* it listens before or after the end and however the end, an abort and the process cross
\* (native-adapter.ts runSession, acp-adapter.ts, harness-deepseek).
THEOREM SessionsEndOnce == ServicesSpec => []OneEnd
<1>1. CliInv => OneEnd
  BY DEF CliInv, EndInRun, OneEnd, Cli!OneEnd
<1> QED BY <1>1, CliInductive, PTL

\* The file with the prompt of a task is gone when the run of its session is over, whichever
\* step failed and whenever it was cancelled (harness-deepseek, process-execution).
THEOREM PromptsAreRemoved == ServicesSpec => []PromptIsRemoved
<1>1. CliInv => PromptIsRemoved
  BY DEF CliInv, PromptInRun, PromptIsRemoved, Cli!PromptIsRemoved
<1> QED BY <1>1, CliInductive, PTL

(***************************************************************************)
(* Capabilities                                                            *)
(***************************************************************************)

CapSteps == {"new", "loading", "asking", "asked", "saving", "replacing", "planned", "lost"}
EnsureSteps == {"idle", "loading", "checking", "inspecting", "installing", "finishing",
                "validating", "saving", "replacing", "refused", "done"}
Ensurings ==
  {d \in [plan : CapPlans \cup {NoCapPlan}, at : EnsureSteps] : d.at # "idle" => d.plan \in CapPlans}
Answers == {"none", "open", "approve", "reject", "dismissed"}

CapTyped ==
  /\ planning \in [CapPlans -> CapSteps] /\ approval \in [CapPlans -> Answers]
  /\ ensuring \in [Ensurers -> Ensurings]
  /\ tool \in [Caps!Tools -> {"absent", "partial", "installed"}]
  /\ memory \subseteq CapPlans /\ planFile \subseteq CapPlans
  /\ saving \in [Caps!Requesters -> SUBSET CapPlans]
  /\ loaded \in {"no", "reading", "yes"} /\ overlapped \in BOOLEAN

\* A plan that was not put to a person has no decision: none is asked for twice.
Undecided(x) == planning[x] \in {"new", "loading", "asking"} => approval[x] = "none"

\* What a request installs was approved when it looked, and an approval is never withdrawn.
InstallsApproved(e) ==
  ensuring[e].at \in {"inspecting", "installing", "finishing"} =>
    ensuring[e].plan \in CapPlans /\ approval[ensuring[e].plan] = "approve"

ApprovalInv ==
  /\ CapTyped
  /\ \A x \in CapPlans : Undecided(x)
  /\ \A e \in Ensurers : InstallsApproved(e)
  /\ Caps!InstalledWasApproved

PlanIsBusy(x) == planning[x] \notin {"new", "planned", "lost"}
EnsureIsBusy(e) == ensuring[e].at \notin {"idle", "refused", "done"}

\* Requests that do not overlap come one after the other.
OneAtATime ==
  /\ \A x, y \in CapPlans : PlanIsBusy(x) /\ PlanIsBusy(y) => x = y
  /\ \A e, f \in Ensurers : EnsureIsBusy(e) /\ EnsureIsBusy(f) => e = f
  /\ \A x \in CapPlans, e \in Ensurers : ~ (PlanIsBusy(x) /\ EnsureIsBusy(e))

\* The memory has what the file has once it was read, what is written has both, and a
\* request works on it only then.
PlanKept(x) ==
  /\ planning[x] = "planned" => x \in planFile
  /\ planning[x] = "loading" => loaded = "reading"
  /\ PlanIsBusy(x) /\ planning[x] # "loading" => loaded = "yes"
  /\ planning[x] = "saving" => x \in memory
  /\ planning[x] = "replacing" => planFile \cup {x} \subseteq saving[x] /\ saving[x] \subseteq memory
EnsureKept(e) ==
  /\ ensuring[e].at = "loading" => loaded = "reading"
  /\ EnsureIsBusy(e) /\ ensuring[e].at # "loading" => loaded = "yes"
  /\ ensuring[e].at = "replacing" => planFile \subseteq saving[e] /\ saving[e] \subseteq memory

KeptAlone ==
  /\ OneAtATime
  /\ loaded = "yes" => planFile \subseteq memory
  /\ loaded = "reading" => Caps!Busy
  /\ \A x \in CapPlans : PlanKept(x)
  /\ \A e \in Ensurers : EnsureKept(e)

PlansInv == CapTyped /\ (~ overlapped => KeptAlone)

\* Where a request stands, once it is changed.
LEMMA EnsuringsChange ==
  ASSUME NEW d \in Ensurings, d.at # "idle", NEW a \in EnsureSteps
  PROVE  [d EXCEPT !.at = a] \in Ensurings /\ [d EXCEPT !.at = a].at = a
         /\ [d EXCEPT !.at = a].plan = d.plan
BY DEF Ensurings

\* The service starts with no plan, in memory or in its file.
LEMMA CapStarts ==
  ASSUME ServicesInit
  PROVE  ApprovalInv /\ PlansInv
<1>1. Caps!Init
  BY DEF ServicesInit
<1>2. CapTyped
  BY <1>1 DEF Caps!Init, CapTyped, CapSteps, Answers, Ensurings, EnsureSteps
<1>3. ApprovalInv
  BY <1>1, <1>2 DEF Caps!Init, ApprovalInv, Undecided, InstallsApproved, Caps!InstalledWasApproved
<1>4. /\ \A x \in CapPlans : ~ PlanIsBusy(x) /\ planning[x] = "new"
      /\ \A e \in Ensurers : ~ EnsureIsBusy(e) /\ ensuring[e].at = "idle"
  BY <1>1 DEF Caps!Init, PlanIsBusy, EnsureIsBusy
<1>5. KeptAlone
  BY <1>1, <1>4 DEF Caps!Init, KeptAlone, OneAtATime, PlanKept, EnsureKept
<1> QED BY <1>2, <1>3, <1>5 DEF PlansInv

\* The variables keep their types.
LEMMA CapKeepsTypes ==
  ASSUME CapTyped, [Caps!CapNext]_capVars
  PROVE  CapTyped'
<1> USE DEF Caps!asked, Caps!store, Caps!At, Caps!Goes, Caps!NotesOverlap, Caps!Busy, Caps!LoadBegins,
            Caps!AfterLoad, Caps!Reads, Caps!WritesFile, Caps!Replaces, Caps!Requesters, Caps!Tools
<1>1. /\ planning \in [CapPlans -> CapSteps] /\ approval \in [CapPlans -> Answers]
      /\ ensuring \in [Ensurers -> Ensurings]
      /\ tool \in [{"playwright", "maestro"} -> {"absent", "partial", "installed"}]
      /\ memory \subseteq CapPlans /\ planFile \subseteq CapPlans
      /\ saving \in [CapPlans \cup Ensurers -> SUBSET CapPlans]
      /\ loaded \in {"no", "reading", "yes"} /\ overlapped \in BOOLEAN
  BY DEF CapTyped
<1>2. CASE UNCHANGED capVars
  BY <1>1, <1>2 DEF capVars, CapTyped
<1>3. ASSUME NEW x \in CapPlans,
             \/ Caps!Plan(x) \/ Caps!PlanLoads(x) \/ Caps!RequestApproval(x) \/ Caps!KeepPlan(x)
             \/ Caps!PlanWritten(x) \/ Caps!Planned(x)
      PROVE  CapTyped'
  <2>1. CASE Caps!Plan(x)
    BY <1>1, <2>1 DEF Caps!Plan, CapTyped, CapSteps
  <2>2. CASE Caps!PlanLoads(x)
    BY <1>1, <2>2 DEF Caps!PlanLoads, CapTyped, CapSteps
  <2>3. CASE Caps!RequestApproval(x)
    BY <1>1, <2>3 DEF Caps!RequestApproval, CapTyped, CapSteps, Answers
  <2>4. CASE Caps!KeepPlan(x)
    BY <1>1, <2>4 DEF Caps!KeepPlan, Caps!Keeps, CapTyped, CapSteps
  <2>5. CASE Caps!PlanWritten(x)
    BY <1>1, <2>5 DEF Caps!PlanWritten, CapTyped, CapSteps
  <2>6. CASE Caps!Planned(x)
    BY <1>1, <2>6 DEF Caps!Planned, CapTyped, CapSteps
  <2> QED BY <1>3, <2>1, <2>2, <2>3, <2>4, <2>5, <2>6
<1>4. ASSUME NEW x \in CapPlans, NEW action \in {"approve", "reject", "dismissed"}, NEW answered \in BOOLEAN,
             Caps!Decide(x, action, answered)
      PROVE  CapTyped'
  BY <1>1, <1>4 DEF Caps!Decide, CapTyped, Answers
\* a request moves on, and may change the memory, its temporary file, the file and the tool
<1>5. ASSUME NEW e \in Ensurers, NEW d \in Ensurings, ensuring' = [ensuring EXCEPT ![e] = d],
             UNCHANGED <<planning, approval>>,
             tool' \in [{"playwright", "maestro"} -> {"absent", "partial", "installed"}],
             memory' \subseteq CapPlans, planFile' \subseteq CapPlans,
             saving' \in [CapPlans \cup Ensurers -> SUBSET CapPlans],
             loaded' \in {"no", "reading", "yes"}, overlapped' \in BOOLEAN
      PROVE  CapTyped'
  BY <1>1, <1>5 DEF CapTyped
<1>6. ASSUME NEW e \in Ensurers, NEW x \in CapPlans, Caps!Ensure(e, x)
      PROVE  CapTyped'
  <2> DEFINE d == [plan |-> x, at |-> IF loaded = "no" THEN "loading" ELSE "checking"]
  <2>1. d \in Ensurings
    BY DEF Ensurings, EnsureSteps
  <2>2. ensuring' = [ensuring EXCEPT ![e] = d]
    BY <1>6 DEF Caps!Ensure
  <2> HIDE DEF d
  <2> QED BY <1>1, <1>5, <1>6, <2>1, <2>2 DEF Caps!Ensure
<1>7. ASSUME NEW e \in Ensurers,
             \/ Caps!EnsureLoads(e) \/ Caps!EnsureChecks(e) \/ Caps!EnsureInspects(e)
             \/ Caps!PlaywrightInstall(e) \/ Caps!MaestroInstall(e) \/ Caps!InstallEnds(e)
             \/ Caps!EnsureValidates(e) \/ Caps!EnsureWrites(e) \/ Caps!EnsureReturns(e)
      PROVE  CapTyped'
  <2>1. ensuring[e] \in Ensurings /\ ensuring[e].at # "idle" /\ ensuring[e].plan \in CapPlans
    <3>1. ensuring[e].at # "idle"
      BY <1>7 DEF Caps!EnsureLoads, Caps!EnsureChecks, Caps!EnsureInspects, Caps!PlaywrightInstall,
         Caps!MaestroInstall, Caps!InstallEnds, Caps!EnsureValidates, Caps!EnsureWrites, Caps!EnsureReturns
    <3>2. ensuring[e] \in Ensurings
      BY <1>1
    <3> QED BY <3>1, <3>2 DEF Ensurings
  <2>2. PICK a \in EnsureSteps : ensuring' = [ensuring EXCEPT ![e].at = a]
    <3>1. CASE Caps!EnsureLoads(e)
      BY <3>1 DEF Caps!EnsureLoads, EnsureSteps
    <3>2. CASE Caps!EnsureChecks(e)
      BY <3>2 DEF Caps!EnsureChecks, EnsureSteps
    <3>3. CASE Caps!EnsureInspects(e)
      BY <3>3 DEF Caps!EnsureInspects, EnsureSteps
    <3>4. CASE Caps!PlaywrightInstall(e) \/ Caps!MaestroInstall(e) \/ Caps!InstallEnds(e)
      BY <3>4 DEF Caps!PlaywrightInstall, Caps!MaestroInstall, Caps!InstallEnds, EnsureSteps
    <3>5. CASE Caps!EnsureValidates(e)
      BY <3>5 DEF Caps!EnsureValidates, EnsureSteps
    <3>6. CASE Caps!EnsureWrites(e) \/ Caps!EnsureReturns(e)
      BY <3>6 DEF Caps!EnsureWrites, Caps!EnsureReturns, EnsureSteps
    <3> QED BY <1>7, <3>1, <3>2, <3>3, <3>4, <3>5, <3>6
  <2>3. ensuring' = [ensuring EXCEPT ![e] = [ensuring[e] EXCEPT !.at = a]]
    BY <1>1, <2>2
  <2>4. [ensuring[e] EXCEPT !.at = a] \in Ensurings
    BY <2>1, EnsuringsChange
  <2>5. UNCHANGED <<planning, approval, overlapped>>
    BY <1>7 DEF Caps!EnsureLoads, Caps!EnsureChecks, Caps!EnsureInspects, Caps!PlaywrightInstall,
       Caps!MaestroInstall, Caps!InstallEnds, Caps!EnsureValidates, Caps!EnsureWrites, Caps!EnsureReturns
  <2>6. tool' \in [{"playwright", "maestro"} -> {"absent", "partial", "installed"}]
    <3>1. CASE Caps!PlaywrightInstall(e) \/ Caps!MaestroInstall(e) \/ Caps!InstallEnds(e)
      BY <1>1, <3>1 DEF Caps!PlaywrightInstall, Caps!MaestroInstall, Caps!InstallEnds, Caps!Half, Caps!ToolOf
    <3>2. CASE tool' = tool
      BY <1>1, <3>2
    <3> QED BY <1>7, <3>1, <3>2 DEF Caps!EnsureLoads, Caps!EnsureChecks, Caps!EnsureInspects,
            Caps!EnsureValidates, Caps!EnsureWrites, Caps!EnsureReturns
  <2>7. memory' \subseteq CapPlans /\ loaded' \in {"no", "reading", "yes"}
    <3>1. CASE Caps!EnsureLoads(e)
      BY <1>1, <3>1 DEF Caps!EnsureLoads
    <3>2. CASE Caps!EnsureValidates(e)
      BY <1>1, <2>1, <3>2 DEF Caps!EnsureValidates
    <3>3. CASE memory' = memory /\ loaded' = loaded
      BY <1>1, <3>3
    <3> QED BY <1>7, <3>1, <3>2, <3>3 DEF Caps!EnsureChecks, Caps!EnsureInspects, Caps!PlaywrightInstall,
            Caps!MaestroInstall, Caps!InstallEnds, Caps!EnsureWrites, Caps!EnsureReturns
  <2>8. planFile' \subseteq CapPlans /\ saving' \in [CapPlans \cup Ensurers -> SUBSET CapPlans]
    <3>1. CASE Caps!EnsureWrites(e)
      BY <1>1, <3>1 DEF Caps!EnsureWrites
    <3>2. CASE Caps!EnsureReturns(e)
      BY <1>1, <3>2 DEF Caps!EnsureReturns
    <3>3. CASE planFile' = planFile /\ saving' = saving
      BY <1>1, <3>3
    <3> QED BY <1>7, <3>1, <3>2, <3>3 DEF Caps!EnsureLoads, Caps!EnsureChecks, Caps!EnsureInspects,
            Caps!PlaywrightInstall, Caps!MaestroInstall, Caps!InstallEnds, Caps!EnsureValidates
  <2> QED BY <1>1, <1>5, <2>3, <2>4, <2>5, <2>6, <2>7, <2>8
<1>8. ASSUME NEW t \in Caps!Tools, Caps!RemoveManaged(t)
      PROVE  CapTyped'
  BY <1>1, <1>8 DEF Caps!RemoveManaged, CapTyped
<1>9. CASE Caps!CapCrash
  BY <1>1, <1>9 DEF Caps!CapCrash, CapTyped, CapSteps, Ensurings, EnsureSteps
<1> QED BY <1>2, <1>3, <1>4, <1>6, <1>7, <1>8, <1>9 DEF Caps!CapNext

\* Every step keeps that what a request installs is approved: an approval is never
\* withdrawn, as no plan is put to a person twice.
LEMMA ApprovalKeeps ==
  ASSUME ApprovalInv, [Caps!CapNext]_capVars
  PROVE  ApprovalInv'
<1> USE DEF Caps!asked, Caps!store, Caps!At, Caps!Goes
<1>1. CapTyped /\ CapTyped'
  BY CapKeepsTypes DEF ApprovalInv
<1>2. /\ planning \in [CapPlans -> CapSteps] /\ approval \in [CapPlans -> Answers]
      /\ ensuring \in [Ensurers -> Ensurings]
      /\ tool \in [Caps!Tools -> {"absent", "partial", "installed"}]
  BY <1>1 DEF CapTyped
<1>3. \A x \in CapPlans : Undecided(x)
  BY DEF ApprovalInv
<1>4. \A e \in Ensurers : InstallsApproved(e)
  BY DEF ApprovalInv
<1>5. Caps!InstalledWasApproved
  BY DEF ApprovalInv
\* what was approved stays approved
<1>6. ASSUME NEW x \in CapPlans, approval[x] = "approve"
      PROVE  approval'[x] = "approve"
  <2>1. CASE approval' = approval
    BY <1>6, <2>1
  <2>2. ASSUME NEW y \in CapPlans, Caps!RequestApproval(y)
        PROVE  approval'[x] = "approve"
    <3>1. approval[y] = "none" /\ approval' = [approval EXCEPT ![y] = "open"]
      BY <1>3, <2>2 DEF Caps!RequestApproval, Undecided
    <3> QED BY <1>2, <1>6, <3>1
  <2>3. ASSUME NEW y \in CapPlans, NEW action \in {"approve", "reject", "dismissed"}, NEW answered \in BOOLEAN,
               Caps!Decide(y, action, answered)
        PROVE  approval'[x] = "approve"
    BY <1>2, <1>6, <2>3 DEF Caps!Decide
  <2> QED BY <2>1, <2>2, <2>3 DEF capVars, Caps!CapNext, Caps!Plan, Caps!PlanLoads, Caps!KeepPlan,
          Caps!PlanWritten, Caps!Planned, Caps!Ensure, Caps!EnsureLoads, Caps!EnsureChecks,
          Caps!EnsureInspects, Caps!PlaywrightInstall, Caps!MaestroInstall, Caps!InstallEnds,
          Caps!EnsureValidates, Caps!EnsureWrites, Caps!EnsureReturns, Caps!RemoveManaged, Caps!CapCrash
\* a plan gets its decision once it was put to a person
<1>7. ASSUME NEW x \in CapPlans
      PROVE  Undecided(x)'
  <2>1. CASE planning'[x] = planning[x] /\ approval'[x] = approval[x]
    BY <1>3, <2>1 DEF Undecided
  <2>2. CASE planning'[x] \notin {"new", "loading", "asking"}
    BY <2>2 DEF Undecided
  <2>3. ASSUME NEW y \in CapPlans,
               \/ Caps!Plan(y) \/ Caps!PlanLoads(y) \/ Caps!RequestApproval(y) \/ Caps!KeepPlan(y)
               \/ Caps!PlanWritten(y) \/ Caps!Planned(y)
        PROVE  Undecided(x)'
    <3>1. CASE x = y /\ (Caps!Plan(y) \/ Caps!PlanLoads(y))
      <4>1. planning[x] \in {"new", "loading"} /\ approval' = approval
        BY <3>1 DEF Caps!Plan, Caps!PlanLoads
      <4> QED BY <1>3, <4>1 DEF Undecided
    <3>2. CASE x = y /\ ~ (Caps!Plan(y) \/ Caps!PlanLoads(y))
      <4>1. planning'[x] \in {"asked", "saving", "replacing", "planned"}
        BY <1>2, <2>3, <3>2 DEF Caps!RequestApproval, Caps!KeepPlan, Caps!PlanWritten, Caps!Planned
      <4> QED BY <2>2, <4>1
    <3>3. CASE x # y
      <4>1. planning'[x] = planning[x] /\ approval'[x] = approval[x]
        BY <1>2, <2>3, <3>3 DEF Caps!Plan, Caps!PlanLoads, Caps!RequestApproval, Caps!KeepPlan,
           Caps!PlanWritten, Caps!Planned
      <4> QED BY <2>1, <4>1
    <3> QED BY <3>1, <3>2, <3>3
  <2>4. ASSUME NEW y \in CapPlans, NEW action \in {"approve", "reject", "dismissed"}, NEW answered \in BOOLEAN,
               Caps!Decide(y, action, answered)
        PROVE  Undecided(x)'
    <3>1. approval[y] = "open" /\ approval' = [approval EXCEPT ![y] = action] /\ planning' = planning
      BY <2>4 DEF Caps!Decide
    <3> QED BY <1>2, <1>3, <3>1 DEF Undecided
  <2>5. CASE Caps!CapCrash
    <3>1. approval' = approval /\ planning'[x] \in {planning[x], "lost"}
      BY <2>5 DEF Caps!CapCrash
    <3> QED BY <1>3, <3>1 DEF Undecided
  <2>6. CASE UNCHANGED <<planning, approval>>
    BY <2>1, <2>6
  <2> QED BY <2>3, <2>4, <2>5, <2>6 DEF capVars, Caps!CapNext, Caps!Ensure, Caps!EnsureLoads,
          Caps!EnsureChecks, Caps!EnsureInspects, Caps!PlaywrightInstall, Caps!MaestroInstall,
          Caps!InstallEnds, Caps!EnsureValidates, Caps!EnsureWrites, Caps!EnsureReturns, Caps!RemoveManaged
\* a request installs what it found approved
<1>8. ASSUME NEW e \in Ensurers
      PROVE  InstallsApproved(e)'
  <2>1. CASE ensuring'[e] = ensuring[e]
    BY <1>4, <1>6, <2>1 DEF InstallsApproved
  <2>2. CASE ensuring'[e].at \notin {"inspecting", "installing", "finishing"}
    BY <2>2 DEF InstallsApproved
  \* it goes on with what it has
  <2>3. ASSUME ensuring[e].at \in {"inspecting", "installing", "finishing"}, ensuring'[e].plan = ensuring[e].plan
        PROVE  InstallsApproved(e)'
    BY <1>4, <1>6, <2>3 DEF InstallsApproved
  <2>4. ASSUME NEW f \in Ensurers,
               \/ \E x \in CapPlans : Caps!Ensure(f, x)
               \/ Caps!EnsureLoads(f) \/ Caps!EnsureChecks(f) \/ Caps!EnsureInspects(f)
               \/ Caps!PlaywrightInstall(f) \/ Caps!MaestroInstall(f) \/ Caps!InstallEnds(f)
               \/ Caps!EnsureValidates(f) \/ Caps!EnsureWrites(f) \/ Caps!EnsureReturns(f)
        PROVE  InstallsApproved(e)'
    <3>1. CASE e # f
      <4>1. ensuring'[e] = ensuring[e]
        BY <1>2, <2>4, <3>1 DEF Caps!Ensure, Caps!EnsureLoads, Caps!EnsureChecks, Caps!EnsureInspects,
           Caps!PlaywrightInstall, Caps!MaestroInstall, Caps!InstallEnds, Caps!EnsureValidates,
           Caps!EnsureWrites, Caps!EnsureReturns
      <4> QED BY <2>1, <4>1
    <3>2. CASE e = f /\ \/ \E x \in CapPlans : Caps!Ensure(f, x)
                        \/ Caps!EnsureLoads(f) \/ Caps!EnsureValidates(f) \/ Caps!EnsureWrites(f)
                        \/ Caps!EnsureReturns(f)
      <4>1. ensuring[e] \in Ensurings
        BY <1>2
      <4>2. ensuring'[e].at \in {"loading", "checking", "saving", "refused", "replacing", "done"}
        BY <1>2, <3>2, <4>1 DEF Caps!Ensure, Caps!EnsureLoads, Caps!EnsureValidates, Caps!EnsureWrites,
           Caps!EnsureReturns, Caps!AfterLoad, Ensurings
      <4> QED BY <2>2, <4>2
    <3>3. CASE e = f /\ Caps!EnsureChecks(f)
      <4>1. ensuring[e] \in Ensurings /\ ensuring[e].at = "checking" /\ UNCHANGED approval
        BY <1>2, <3>3 DEF Caps!EnsureChecks
      <4>2. ensuring[e].plan \in CapPlans /\ ensuring'[e].plan = ensuring[e].plan
        BY <1>2, <3>3, <4>1 DEF Caps!EnsureChecks, Ensurings
      <4>3. ensuring'[e].at = "refused" \/ approval[ensuring[e].plan] = "approve"
        BY <1>2, <3>3, <4>1 DEF Caps!EnsureChecks, Caps!IsApproved, Ensurings
      <4> QED BY <4>1, <4>2, <4>3 DEF InstallsApproved
    <3>4. CASE e = f /\ \/ Caps!EnsureInspects(f) \/ Caps!PlaywrightInstall(f) \/ Caps!MaestroInstall(f)
                        \/ Caps!InstallEnds(f)
      <4>1. ensuring[e] \in Ensurings
        BY <1>2
      <4>2. ensuring[e].at \in {"inspecting", "installing", "finishing"}
        BY <3>4 DEF Caps!EnsureInspects, Caps!PlaywrightInstall, Caps!MaestroInstall, Caps!InstallEnds
      <4>3. ensuring'[e].plan = ensuring[e].plan
        BY <1>2, <3>4, <4>1 DEF Caps!EnsureInspects, Caps!PlaywrightInstall, Caps!MaestroInstall,
           Caps!InstallEnds, Ensurings
      <4> QED BY <2>3, <4>2, <4>3
    <3> QED BY <2>4, <3>1, <3>2, <3>3, <3>4
  <2>5. CASE Caps!CapCrash
    <3>1. ensuring'[e].at = "idle"
      BY <2>5 DEF Caps!CapCrash
    <3> QED BY <2>2, <3>1
  <2>6. CASE UNCHANGED ensuring
    BY <2>1, <2>6
  <2> QED BY <2>4, <2>5, <2>6 DEF capVars, Caps!CapNext, Caps!Plan, Caps!PlanLoads, Caps!RequestApproval,
          Caps!KeepPlan, Caps!PlanWritten, Caps!Planned, Caps!Decide, Caps!RemoveManaged
\* so what is on the host was approved
<1>9. Caps!InstalledWasApproved'
  <2>1. CASE tool' = tool
    BY <1>5, <1>6, <2>1 DEF Caps!InstalledWasApproved, Caps!ToolOf
  <2>2. ASSUME NEW t \in Caps!Tools, Caps!RemoveManaged(t)
        PROVE  Caps!InstalledWasApproved'
    <3>1. \A u \in Caps!Tools : tool'[u] # "absent" => tool[u] # "absent"
      BY <1>2, <2>2 DEF Caps!RemoveManaged
    <3> QED BY <1>5, <1>6, <3>1 DEF Caps!InstalledWasApproved, Caps!ToolOf
  <2>3. ASSUME NEW e \in Ensurers,
               Caps!PlaywrightInstall(e) \/ Caps!MaestroInstall(e) \/ Caps!InstallEnds(e)
        PROVE  Caps!InstalledWasApproved'
    <3> DEFINE own == Caps!ToolOf(ensuring[e].plan)
    <3>1. ensuring[e].plan \in CapPlans /\ approval[ensuring[e].plan] = "approve"
      BY <1>4, <2>3 DEF InstallsApproved, Caps!PlaywrightInstall, Caps!MaestroInstall, Caps!InstallEnds
    <3>2. approval'[ensuring[e].plan] = "approve"
      BY <1>6, <3>1
    <3>3. \A u \in Caps!Tools : u # own => tool'[u] = tool[u]
      BY <1>2, <2>3 DEF Caps!PlaywrightInstall, Caps!MaestroInstall, Caps!InstallEnds, Caps!Half, Caps!Tools
    <3> HIDE DEF own
    <3>4. ASSUME NEW u \in Caps!Tools, tool'[u] # "absent"
          PROVE  \E x \in CapPlans : Caps!ToolOf(x) = u /\ approval'[x] = "approve"
      <4>1. CASE u = own
        BY <3>1, <3>2, <4>1 DEF own
      <4>2. CASE u # own
        BY <1>5, <1>6, <3>3, <3>4, <4>2 DEF Caps!InstalledWasApproved
      <4> QED BY <4>1, <4>2
    <3> QED BY <3>4 DEF Caps!InstalledWasApproved, Caps!ToolOf
  <2> QED BY <2>1, <2>2, <2>3 DEF capVars, Caps!CapNext, Caps!Plan, Caps!PlanLoads, Caps!RequestApproval,
          Caps!KeepPlan, Caps!PlanWritten, Caps!Planned, Caps!Decide, Caps!Ensure, Caps!EnsureLoads,
          Caps!EnsureChecks, Caps!EnsureInspects, Caps!EnsureValidates, Caps!EnsureWrites,
          Caps!EnsureReturns, Caps!CapCrash
<1> QED BY <1>1, <1>7, <1>8, <1>9 DEF ApprovalInv

\* ... in every behaviour of the services.
LEMMA ApprovalInductive == ServicesSpec => []ApprovalInv
<1>1. ApprovalInv /\ [ServicesNext]_servicesVars => ApprovalInv'
  BY ApprovalKeeps, EachTakesItsSteps
<1> QED BY <1>1, CapStarts, PTL DEF ServicesSpec

\* Nothing of a managed tool is on the host unless a person approved a plan for it, however
\* requests overlap and wherever the daemon was restarted (capabilities index.ts,
\* ensureManaged behind the approval gateway).
THEOREM InstallsAreApproved == ServicesSpec => []InstalledWasApproved
<1>1. ApprovalInv => InstalledWasApproved
  BY DEF ApprovalInv, InstalledWasApproved
<1> QED BY <1>1, ApprovalInductive, PTL

\* Every step of requests that do not overlap keeps the file and the memory together: one
\* reads the file before it changes the memory, and what it writes holds both.
LEMMA PlansKeep ==
  ASSUME PlansInv, [Caps!CapNext]_capVars
  PROVE  PlansInv'
<1> USE DEF Caps!asked, Caps!store, Caps!At, Caps!Goes, Caps!NotesOverlap, Caps!LoadBegins,
            Caps!AfterLoad, Caps!Reads, Caps!WritesFile, Caps!Replaces
<1>1. CapTyped /\ CapTyped'
  BY CapKeepsTypes DEF PlansInv
<1>2. /\ planning \in [CapPlans -> CapSteps] /\ ensuring \in [Ensurers -> Ensurings]
      /\ saving \in [CapPlans \cup Ensurers -> SUBSET CapPlans]
      /\ overlapped \in BOOLEAN /\ loaded \in {"no", "reading", "yes"}
  BY <1>1 DEF CapTyped, Caps!Requesters
<1> SUFFICES ASSUME ~ overlapped'
             PROVE  KeptAlone'
  BY <1>1 DEF PlansInv
<1>3. ~ overlapped
  BY DEF capVars, Caps!CapNext, Caps!Plan, Caps!PlanLoads, Caps!RequestApproval, Caps!KeepPlan,
     Caps!PlanWritten, Caps!Planned, Caps!Decide, Caps!Ensure, Caps!EnsureLoads, Caps!EnsureChecks,
     Caps!EnsureInspects, Caps!PlaywrightInstall, Caps!MaestroInstall, Caps!InstallEnds,
     Caps!EnsureValidates, Caps!EnsureWrites, Caps!EnsureReturns, Caps!RemoveManaged, Caps!CapCrash
<1>4. KeptAlone
  BY <1>3 DEF PlansInv
<1>5. /\ \A x, y \in CapPlans : PlanIsBusy(x) /\ PlanIsBusy(y) => x = y
      /\ \A e, f \in Ensurers : EnsureIsBusy(e) /\ EnsureIsBusy(f) => e = f
      /\ \A x \in CapPlans, e \in Ensurers : ~ (PlanIsBusy(x) /\ EnsureIsBusy(e))
      /\ loaded = "yes" => planFile \subseteq memory
      /\ loaded = "reading" => Caps!Busy
      /\ \A x \in CapPlans : PlanKept(x)
      /\ \A e \in Ensurers : EnsureKept(e)
  BY <1>4 DEF KeptAlone, OneAtATime
<1>6. Caps!Busy <=> (\E x \in CapPlans : PlanIsBusy(x)) \/ (\E e \in Ensurers : EnsureIsBusy(e))
  BY DEF Caps!Busy, PlanIsBusy, EnsureIsBusy
<1>7. CASE UNCHANGED <<planning, ensuring, memory, loaded, planFile, saving>>
  BY <1>5, <1>7 DEF KeptAlone, OneAtATime, PlanIsBusy, EnsureIsBusy, PlanKept, EnsureKept, Caps!Busy
\* the request for a plan, alone, moves on
<1>8. ASSUME NEW x \in CapPlans,
             \A y \in CapPlans : y # x => ~ PlanIsBusy(y), \A e \in Ensurers : ~ EnsureIsBusy(e),
             planning' = [planning EXCEPT ![x] = planning'[x]], ensuring' = ensuring,
             planFile \subseteq planFile', loaded' = "yes" => planFile' \subseteq memory',
             loaded' = "reading" => planning'[x] = "loading", PlanKept(x)'
      PROVE  KeptAlone'
  <2>1. \A y \in CapPlans : y # x => planning'[y] = planning[y]
    BY <1>2, <1>8
  <2>2. /\ \A y \in CapPlans : y # x => ~ PlanIsBusy(y)'
        /\ \A e \in Ensurers : ~ EnsureIsBusy(e)'
    BY <1>8, <2>1 DEF PlanIsBusy, EnsureIsBusy
  <2>3. OneAtATime'
    BY <2>2 DEF OneAtATime
  <2>4. ASSUME NEW y \in CapPlans
        PROVE  PlanKept(y)'
    <3>1. CASE y # x
      <4>1. planning[y] = "planned" => y \in planFile
        BY <1>5 DEF PlanKept
      <4>2. ~ PlanIsBusy(y) /\ planning'[y] = planning[y]
        BY <1>8, <2>1, <3>1
      <4> QED BY <1>8, <4>1, <4>2 DEF PlanKept, PlanIsBusy
    <3> QED BY <1>8, <3>1
  <2>5. \A e \in Ensurers : EnsureKept(e)'
    BY <2>2 DEF EnsureKept, EnsureIsBusy
  <2>6. loaded' = "reading" => Caps!Busy'
    BY <1>8 DEF Caps!Busy
  <2> QED BY <1>8, <2>3, <2>4, <2>5, <2>6 DEF KeptAlone
\* ... or the request that executes one
<1>9. ASSUME NEW e \in Ensurers,
             \A x \in CapPlans : ~ PlanIsBusy(x), \A f \in Ensurers : f # e => ~ EnsureIsBusy(f),
             planning' = planning, NEW d \in Ensurings, ensuring' = [ensuring EXCEPT ![e] = d],
             planFile \subseteq planFile', loaded' = "yes" => planFile' \subseteq memory',
             loaded' = "reading" => d.at = "loading", EnsureKept(e)'
      PROVE  KeptAlone'
  <2>1. ensuring'[e] = d /\ \A f \in Ensurers : f # e => ensuring'[f] = ensuring[f]
    BY <1>2, <1>9
  <2>2. /\ \A f \in Ensurers : f # e => ~ EnsureIsBusy(f)'
        /\ \A x \in CapPlans : ~ PlanIsBusy(x)'
    BY <1>9, <2>1 DEF PlanIsBusy, EnsureIsBusy
  <2>3. OneAtATime'
    BY <2>2 DEF OneAtATime
  <2>4. ASSUME NEW x \in CapPlans
        PROVE  PlanKept(x)'
    BY <1>5, <1>9 DEF PlanKept, PlanIsBusy
  <2>5. ASSUME NEW f \in Ensurers, f # e
        PROVE  EnsureKept(f)'
    BY <2>2, <2>5 DEF EnsureKept, EnsureIsBusy
  <2>6. loaded' = "reading" => Caps!Busy'
    BY <1>9, <2>1 DEF Caps!Busy
  <2> QED BY <1>9, <2>3, <2>4, <2>5, <2>6 DEF KeptAlone
<1>10. ASSUME NEW x \in CapPlans, Caps!Plan(x)
       PROVE  KeptAlone'
  <2>1. ~ Caps!Busy /\ loaded # "reading"
    BY <1>2, <1>5, <1>10 DEF Caps!Plan
  <2>2. /\ planning'[x] = IF loaded = "no" THEN "loading" ELSE "asking"
        /\ planning' = [planning EXCEPT ![x] = planning'[x]]
        /\ loaded' = IF loaded = "no" THEN "reading" ELSE loaded
        /\ UNCHANGED <<memory, planFile, saving, ensuring>>
    BY <1>2, <1>10 DEF Caps!Plan
  <2>3. PlanKept(x)'
    BY <1>2, <2>1, <2>2 DEF PlanKept, PlanIsBusy
  <2> QED BY <1>2, <1>5, <1>6, <1>8, <2>1, <2>2, <2>3
<1>11. ASSUME NEW x \in CapPlans,
              \/ Caps!PlanLoads(x) \/ Caps!RequestApproval(x) \/ Caps!KeepPlan(x)
              \/ Caps!PlanWritten(x) \/ Caps!Planned(x)
       PROVE  KeptAlone'
  <2>1. PlanIsBusy(x) /\ PlanKept(x)
    BY <1>5, <1>11 DEF PlanIsBusy, Caps!PlanLoads, Caps!RequestApproval, Caps!KeepPlan,
       Caps!PlanWritten, Caps!Planned
  <2>2. /\ \A y \in CapPlans : y # x => ~ PlanIsBusy(y)
        /\ \A e \in Ensurers : ~ EnsureIsBusy(e)
    BY <1>5, <2>1
  <2>3. CASE Caps!PlanLoads(x)
    <3>1. PlanKept(x)' /\ planning' = [planning EXCEPT ![x] = planning'[x]]
      BY <1>2, <2>3 DEF Caps!PlanLoads, PlanKept
    <3> QED BY <1>8, <2>2, <2>3, <3>1 DEF Caps!PlanLoads
  <2>4. CASE Caps!RequestApproval(x) \/ Caps!KeepPlan(x)
    <3>1. /\ loaded = "yes" /\ planning' = [planning EXCEPT ![x] = planning'[x]]
          /\ planning'[x] \in {"asked", "saving"} /\ (planning'[x] = "saving" => x \in memory')
          /\ memory \subseteq memory' /\ UNCHANGED <<loaded, planFile, saving, ensuring>>
      BY <1>2, <2>1, <2>4 DEF Caps!RequestApproval, Caps!KeepPlan, Caps!Keeps, PlanKept, PlanIsBusy
    <3>2. PlanKept(x)'
      BY <3>1 DEF PlanKept, PlanIsBusy
    <3> QED BY <1>5, <1>8, <2>2, <3>1, <3>2
  <2>5. CASE Caps!PlanWritten(x)
    <3>1. /\ loaded = "yes" /\ x \in memory /\ planning' = [planning EXCEPT ![x] = planning'[x]]
          /\ planning'[x] = "replacing" /\ saving'[x] = memory
          /\ UNCHANGED <<memory, loaded, planFile, ensuring>>
      BY <1>2, <2>1, <2>5 DEF Caps!PlanWritten, PlanKept, PlanIsBusy
    <3>2. PlanKept(x)'
      BY <1>5, <3>1 DEF PlanKept, PlanIsBusy
    <3> QED BY <1>5, <1>8, <2>2, <3>1, <3>2
  <2>6. CASE Caps!Planned(x)
    <3>1. /\ loaded = "yes" /\ planFile \cup {x} \subseteq saving[x] /\ saving[x] \subseteq memory
          /\ planning' = [planning EXCEPT ![x] = planning'[x]]
          /\ planning'[x] = "planned" /\ planFile' = saving[x]
          /\ UNCHANGED <<memory, loaded, ensuring>>
      BY <1>2, <2>1, <2>6 DEF Caps!Planned, PlanKept, PlanIsBusy
    <3>2. PlanKept(x)'
      BY <3>1 DEF PlanKept, PlanIsBusy
    <3> QED BY <1>5, <1>8, <2>2, <3>1, <3>2
  <2> QED BY <1>11, <2>3, <2>4, <2>5, <2>6
<1>12. ASSUME NEW e \in Ensurers, NEW x \in CapPlans, Caps!Ensure(e, x)
       PROVE  KeptAlone'
  <2> DEFINE d == [plan |-> x, at |-> IF loaded = "no" THEN "loading" ELSE "checking"]
  <2>1. ~ Caps!Busy /\ loaded # "reading"
    BY <1>2, <1>5, <1>12 DEF Caps!Ensure
  <2>2. /\ ensuring' = [ensuring EXCEPT ![e] = d]
        /\ loaded' = IF loaded = "no" THEN "reading" ELSE loaded
        /\ UNCHANGED <<memory, planFile, saving, planning>>
    BY <1>12 DEF Caps!Ensure
  <2>3. d \in Ensurings /\ d.at = IF loaded = "no" THEN "loading" ELSE "checking"
    BY DEF Ensurings, EnsureSteps
  <2> HIDE DEF d
  <2>4. EnsureKept(e)'
    BY <1>2, <2>1, <2>2, <2>3 DEF EnsureKept, EnsureIsBusy
  <2> QED BY <1>2, <1>5, <1>6, <1>9, <2>1, <2>2, <2>3, <2>4
<1>13. ASSUME NEW e \in Ensurers,
              \/ Caps!EnsureLoads(e) \/ Caps!EnsureChecks(e) \/ Caps!EnsureInspects(e)
              \/ Caps!PlaywrightInstall(e) \/ Caps!MaestroInstall(e) \/ Caps!InstallEnds(e)
              \/ Caps!EnsureValidates(e) \/ Caps!EnsureWrites(e) \/ Caps!EnsureReturns(e)
       PROVE  KeptAlone'
  <2>1. EnsureIsBusy(e) /\ EnsureKept(e) /\ ensuring[e] \in Ensurings
    BY <1>2, <1>5, <1>13 DEF EnsureIsBusy, Caps!EnsureLoads, Caps!EnsureChecks, Caps!EnsureInspects,
       Caps!PlaywrightInstall, Caps!MaestroInstall, Caps!InstallEnds, Caps!EnsureValidates,
       Caps!EnsureWrites, Caps!EnsureReturns
  <2>2. /\ \A x \in CapPlans : ~ PlanIsBusy(x)
        /\ \A f \in Ensurers : f # e => ~ EnsureIsBusy(f)
    BY <1>5, <2>1
  <2>3. ASSUME NEW a \in EnsureSteps, ensuring' = [ensuring EXCEPT ![e].at = a], planning' = planning,
               planFile \subseteq planFile', loaded' = "yes" => planFile' \subseteq memory',
               loaded' = "reading" => a = "loading",
               a # "loading" => loaded' = "yes", a = "loading" => loaded' = "reading",
               a = "replacing" => planFile' \subseteq saving'[e] /\ saving'[e] \subseteq memory'
        PROVE  KeptAlone'
    <3> DEFINE d == [ensuring[e] EXCEPT !.at = a]
    <3>1. ensuring' = [ensuring EXCEPT ![e] = d]
      BY <1>2, <2>3
    <3>2. d \in Ensurings /\ d.at = a
      BY <2>1, EnsuringsChange DEF EnsureIsBusy
    <3> HIDE DEF d
    <3>3. EnsureKept(e)'
      BY <1>2, <2>3, <3>1, <3>2 DEF EnsureKept, EnsureIsBusy
    <3> QED BY <1>9, <2>2, <2>3, <3>1, <3>2, <3>3
  <2>4. CASE Caps!EnsureLoads(e)
    BY <2>3, <2>4 DEF Caps!EnsureLoads, EnsureSteps
  <2>5. CASE ~ Caps!EnsureLoads(e)
    <3>1. loaded = "yes" /\ loaded' = loaded /\ planFile \subseteq memory /\ memory \subseteq memory'
      BY <1>5, <1>13, <2>1, <2>5 DEF EnsureKept, EnsureIsBusy, Caps!EnsureChecks, Caps!EnsureInspects,
         Caps!PlaywrightInstall, Caps!MaestroInstall, Caps!InstallEnds, Caps!EnsureValidates,
         Caps!EnsureWrites, Caps!EnsureReturns
    <3>2. CASE Caps!EnsureWrites(e)
      <4>1. saving'[e] = memory /\ UNCHANGED <<memory, planFile, planning>>
            /\ ensuring' = [ensuring EXCEPT ![e].at = "replacing"]
        BY <1>2, <3>2 DEF Caps!EnsureWrites
      <4> QED BY <2>3, <3>1, <4>1 DEF EnsureSteps
    <3>3. CASE Caps!EnsureReturns(e)
      <4>1. planFile \subseteq saving[e] /\ saving[e] \subseteq memory
        BY <2>1, <3>3 DEF EnsureKept, Caps!EnsureReturns
      <4>2. planFile' = saving[e] /\ UNCHANGED <<memory, planning>>
            /\ ensuring' = [ensuring EXCEPT ![e].at = "done"]
        BY <3>3 DEF Caps!EnsureReturns
      <4> QED BY <2>3, <3>1, <4>1, <4>2 DEF EnsureSteps
    <3>4. CASE ~ Caps!EnsureWrites(e) /\ ~ Caps!EnsureReturns(e)
      <4>1. planFile' = planFile /\ planning' = planning
        BY <1>13, <2>5, <3>4 DEF Caps!EnsureChecks, Caps!EnsureInspects,
           Caps!PlaywrightInstall, Caps!MaestroInstall, Caps!InstallEnds, Caps!EnsureValidates
      <4>2. PICK a \in EnsureSteps : a \notin {"loading", "replacing"} /\ ensuring' = [ensuring EXCEPT ![e].at = a]
        <5>1. CASE Caps!EnsureChecks(e)
          BY <5>1 DEF Caps!EnsureChecks, EnsureSteps
        <5>2. CASE Caps!EnsureInspects(e)
          BY <5>2 DEF Caps!EnsureInspects, EnsureSteps
        <5>3. CASE Caps!PlaywrightInstall(e) \/ Caps!MaestroInstall(e) \/ Caps!InstallEnds(e)
          BY <5>3 DEF Caps!PlaywrightInstall, Caps!MaestroInstall, Caps!InstallEnds, EnsureSteps
        <5>4. CASE Caps!EnsureValidates(e)
          BY <5>4 DEF Caps!EnsureValidates, EnsureSteps
        <5> QED BY <1>13, <2>5, <3>4, <5>1, <5>2, <5>3, <5>4
      <4> QED BY <2>3, <3>1, <4>1, <4>2
    <3> QED BY <3>2, <3>3, <3>4
  <2> QED BY <2>4, <2>5
\* after a crash no request is on its way, and the file is to be read
<1>14. CASE Caps!CapCrash
  <2>1. /\ loaded' = "no" /\ planFile' = planFile
        /\ \A e \in Ensurers : ensuring'[e].at = "idle"
        /\ \A x \in CapPlans : \/ planning'[x] = "lost"
                               \/ planning'[x] = planning[x] /\ planning[x] \in {"new", "planned"}
    BY <1>14 DEF Caps!CapCrash
  <2> QED BY <1>5, <2>1 DEF KeptAlone, OneAtATime, PlanIsBusy, EnsureIsBusy, PlanKept, EnsureKept
<1>15. CASE UNCHANGED capVars
  BY <1>7, <1>15 DEF capVars
<1>16. ASSUME NEW x \in CapPlans, NEW action \in {"approve", "reject", "dismissed"}, NEW answered \in BOOLEAN,
              Caps!Decide(x, action, answered)
       PROVE  KeptAlone'
  BY <1>7, <1>16 DEF Caps!Decide
<1>17. ASSUME NEW t \in Caps!Tools, Caps!RemoveManaged(t)
       PROVE  KeptAlone'
  BY <1>7, <1>17 DEF Caps!RemoveManaged
<1> QED BY <1>10, <1>11, <1>12, <1>13, <1>14, <1>15, <1>16, <1>17 DEF Caps!CapNext

\* ... in every behaviour of the services.
LEMMA PlansInductive == ServicesSpec => []PlansInv
<1>1. PlansInv /\ [ServicesNext]_servicesVars => PlansInv'
  BY PlansKeep, EachTakesItsSteps
<1> QED BY <1>1, CapStarts, PTL DEF ServicesSpec

\* A provisioning plan that was returned to the client is in the state file, so that its
\* approval is of use after a restart, as long as no request was made while another was on
\* its way (capabilities index.ts, planProvisioning, load and save).
THEOREM ReturnedPlansAreKept == ServicesSpec => []ReturnedPlansSurvive
<1>1. PlansInv => ReturnedPlansSurvive
  BY DEF PlansInv, KeptAlone, PlanKept, ReturnedPlansSurvive, Caps!ReturnedPlansSurvive
<1> QED BY <1>1, PlansInductive, PTL

(***************************************************************************)
(* HarnessFailover                                                         *)
(***************************************************************************)

\* A candidate is come to by way of those before it.
CameTo(c) == 1 .. c \subseteq tried

FailoverInv ==
  /\ at \in Candidates \cup {0} /\ switching \in Candidates \cup {0}
  /\ watched \subseteq Candidates /\ tried \subseteq Candidates
  /\ phase \in {"starting", "restoring"} => at \in Candidates /\ CameTo(at - 1)
  /\ \A c \in watched : CameTo(c)
  /\ switching # 0 => CameTo(switching - 1)
  /\ public = "quota" => tried = Candidates

\* The last candidate is the length of the chain.
LEMMA ChainHasLast ==
  /\ Candidates = 1 .. Failover!Last /\ Failover!Last \in Nat \ {0}
<1>1. PICK N \in Candidates : N \in Nat \ {0} /\ Candidates = 1 .. N
  <2>1. Candidates \subseteq Nat /\ \E m \in Candidates : Candidates = 1 .. m
    BY ServicesAssumption DEF Failover!FailoverAssumption
  <2>2. PICK m \in Candidates : Candidates = 1 .. m
    BY <2>1
  <2>3. m \in Nat /\ m \in 1 .. m
    BY <2>1, <2>2
  <2>4. m # 0
    BY <2>3
  <2> QED BY <2>2, <2>3, <2>4
<1>2. N \in Candidates /\ \A c \in Candidates : c <= N
  BY <1>1
<1>3. Failover!Last \in Candidates /\ \A c \in Candidates : c <= Failover!Last
  BY <1>2 DEF Failover!Last
<1>4. Failover!Last = N
  BY <1>1, <1>2, <1>3
<1> QED BY <1>1, <1>4

\* Every step comes to a candidate by way of those before it.
LEMMA FailoverKeeps ==
  ASSUME FailoverInv, [Failover!FailoverNext]_failoverVars
  PROVE  FailoverInv'
<1> DEFINE L == Failover!Last
<1>1. Candidates = 1 .. L /\ L \in Nat \ {0}
  BY ChainHasLast
<1>2. /\ at \in 0 .. L /\ switching \in 0 .. L
      /\ watched \subseteq 1 .. L /\ tried \subseteq 1 .. L
      /\ phase \in {"starting", "restoring"} => at # 0 /\ 1 .. (at - 1) \subseteq tried
      /\ \A c \in watched : 1 .. c \subseteq tried
      /\ switching # 0 => 1 .. (switching - 1) \subseteq tried
      /\ public = "quota" => tried = 1 .. L
  BY <1>1 DEF FailoverInv, CameTo
<1> HIDE DEF L
<1>3. CASE UNCHANGED failoverVars
  BY <1>3 DEF FailoverInv, CameTo, failoverVars
\* FailoverInv, without the set of the candidates
<1>4. ASSUME at' \in 0 .. L, switching' \in 0 .. L, watched' \subseteq 1 .. L, tried' \subseteq 1 .. L,
             phase' \in {"starting", "restoring"} => at' # 0 /\ 1 .. (at' - 1) \subseteq tried',
             \A c \in watched' : 1 .. c \subseteq tried',
             switching' # 0 => 1 .. (switching' - 1) \subseteq tried',
             public' = "quota" => tried' = 1 .. L
      PROVE  FailoverInv'
  <2>1. \A n \in 0 .. L : n \in Candidates \cup {0} /\ (n # 0 => n \in Candidates)
    BY <1>1
  <2>2. /\ at' \in Candidates \cup {0} /\ switching' \in Candidates \cup {0}
        /\ phase' \in {"starting", "restoring"} => at' \in Candidates
    BY <1>4, <2>1
  <2> QED BY <1>1, <1>4, <2>2 DEF FailoverInv, CameTo
<1>5. CASE Failover!StartSession \/ Failover!RestoreSession
  <2>1. at' = 1 /\ UNCHANGED <<switching, watched, tried, public>>
    BY <1>5 DEF Failover!StartSession, Failover!RestoreSession
  <2>2. 1 .. (1 - 1) = {}
    OBVIOUS
  <2> QED BY <1>1, <1>2, <1>4, <2>1, <2>2
<1>6. CASE Failover!StartsOn \/ Failover!RestoresOn
  <2>1. /\ phase \in {"starting", "restoring"} /\ watched' = {at} /\ at' = 0 /\ phase' = "open"
        /\ tried' = tried \cup {at} /\ switching' = switching /\ public' # "quota"
    BY <1>6 DEF Failover!StartsOn, Failover!RestoresOn, Failover!Opened
  <2>2. 1 .. at \subseteq tried'
    BY <1>1, <1>2, <2>1
  <2> QED BY <1>1, <1>2, <1>4, <2>1, <2>2
<1>7. CASE Failover!StartQuota \/ Failover!RestorePasses
  <2>1. /\ phase \in {"starting", "restoring"} /\ tried' = tried \cup {at}
        /\ watched' = watched /\ switching' = switching
        /\ \/ at = L /\ phase' = "refused" /\ at' = 0
           \/ at # L /\ at' = at + 1 /\ public' = public
    BY <1>7 DEF Failover!StartQuota, Failover!RestorePasses, Failover!PastOne, L
  <2>2. 1 .. at \subseteq tried' /\ at \in 1 .. L
    BY <1>1, <1>2, <2>1
  <2>3. public' = "quota" => tried' = 1 .. L
    BY <1>1, <1>2, <2>1, <2>2
  <2> QED BY <1>1, <1>2, <1>4, <2>1, <2>2, <2>3
<1>8. CASE Failover!Refuses
  <2>1. /\ phase' = "refused" /\ at' = 0 /\ tried' = tried \cup {at} /\ public' = "failed"
        /\ watched' = watched /\ switching' = switching /\ phase \in {"starting", "restoring"}
    BY <1>8 DEF Failover!Refuses
  <2> QED BY <1>1, <1>2, <1>4, <2>1
<1>9. ASSUME NEW x \in Failover!Prompts, Failover!SendPrompt(x)
      PROVE  FailoverInv'
  <2>1. UNCHANGED <<phase, at, watched, switching, tried>> /\ public' \in {"running", public}
    BY <1>9 DEF Failover!SendPrompt
  <2> QED BY <1>1, <1>2, <1>4, <2>1
<1>10. ASSUME NEW c \in Candidates, Failover!NextTurn(c)
       PROVE  FailoverInv'
  BY <1>2, <1>4, <1>10 DEF Failover!NextTurn
<1>11. ASSUME NEW c \in Candidates, NEW how \in {"completed", "failed", "quota"}, Failover!TurnEnds(c, how)
       PROVE  FailoverInv'
  <2>1. UNCHANGED <<phase, at, tried>>
    BY <1>11 DEF Failover!TurnEnds
  <2>2. CASE watched' = watched /\ switching' = switching /\ public' \in {public, "completed", "failed"}
    BY <1>2, <1>4, <2>1, <2>2
  <2>3. CASE c \in watched /\ Failover!Failover(c)
    <3>1. c \in 1 .. L /\ 1 .. c \subseteq tried
      BY <1>2, <2>3
    <3>2. CASE switching # 0
      BY <2>2, <2>3, <3>2 DEF Failover!Failover
    <3>3. CASE switching = 0 /\ c + 1 > L
      <4>1. public' = "quota" /\ UNCHANGED <<watched, switching>>
        BY <2>3, <3>3 DEF Failover!Failover, Failover!FirstAfter, L
      <4>2. c = L
        BY <1>1, <3>1, <3>3
      <4>3. tried = 1 .. L
        BY <1>2, <3>1, <4>2
      <4> QED BY <1>2, <1>4, <2>1, <4>1, <4>3
    <3>4. CASE switching = 0 /\ ~ c + 1 > L
      <4>1. public' = public /\ switching' = c + 1 /\ watched' = watched \ {c}
        BY <2>3, <3>4 DEF Failover!Failover, Failover!FirstAfter, L
      <4>2. c + 1 \in 0 .. L /\ c + 1 - 1 = c
        BY <1>1, <3>1, <3>4
      <4> QED BY <1>2, <1>4, <2>1, <3>1, <4>1, <4>2
    <3> QED BY <3>2, <3>3, <3>4
  <2>4. \/ watched' = watched /\ switching' = switching /\ public' \in {public, "completed", "failed"}
        \/ c \in watched /\ Failover!Failover(c)
    BY <1>11 DEF Failover!TurnEnds
  <2> QED BY <2>2, <2>3, <2>4
<1>12. CASE Failover!SwitchesOn
  <2>1. /\ switching # 0 /\ watched' = watched \cup {switching} /\ tried' = tried \cup {switching}
        /\ switching' = 0 /\ public' = "running" /\ UNCHANGED <<phase, at>>
    BY <1>12 DEF Failover!SwitchesOn, Failover!WatchedAfter
  <2>2. 1 .. switching \subseteq tried' /\ switching \in 1 .. L
    BY <1>1, <1>2, <2>1
  <2> QED BY <1>1, <1>2, <1>4, <2>1, <2>2
<1>13. CASE Failover!SwitchQuota
  <2>1. /\ switching # 0 /\ tried' = tried \cup {switching} /\ UNCHANGED <<phase, at, watched>>
        /\ \/ switching = L /\ switching' = 0
           \/ switching # L /\ switching' = switching + 1 /\ public' = public
    BY <1>13 DEF Failover!SwitchQuota, L
  <2>2. 1 .. switching \subseteq tried' /\ switching \in 1 .. L
    BY <1>1, <1>2, <2>1
  <2>3. public' = "quota" => tried' = 1 .. L
    BY <1>1, <1>2, <2>1, <2>2
  <2> QED BY <1>1, <1>2, <1>4, <2>1, <2>2, <2>3
<1>14. CASE Failover!SwitchFails
  <2>1. /\ switching # 0 /\ tried' = tried \cup {switching} /\ switching' = 0
        /\ UNCHANGED <<phase, at, watched, public>>
    BY <1>14 DEF Failover!SwitchFails
  <2> QED BY <1>1, <1>2, <1>4, <2>1
<1>15. CASE Failover!Cancel
  <2>1. UNCHANGED <<phase, at, watched, switching, tried>> /\ public' \in {"cancelled", public}
    BY <1>15 DEF Failover!Cancel
  <2> QED BY <1>1, <1>2, <1>4, <2>1
<1> QED BY <1>3, <1>5, <1>6, <1>7, <1>8, <1>9, <1>10, <1>11, <1>12, <1>13, <1>14, <1>15
        DEF Failover!FailoverNext

\* ... in every behaviour of the services.
LEMMA FailoverInductive == ServicesSpec => []FailoverInv
<1>1. ServicesInit => FailoverInv
  BY DEF ServicesInit, Failover!Init, FailoverInv
<1>2. FailoverInv /\ [ServicesNext]_servicesVars => FailoverInv'
  BY FailoverKeeps, EachTakesItsSteps
<1> QED BY <1>1, <1>2, PTL DEF ServicesSpec

\* A caller is told of a want of quota only when every candidate of the chain was asked, or
\* cannot serve the call, for a chain of any length and whatever fails in which order
\* (harness failover-runtime.ts).
THEOREM QuotaIsTheLastWord == ServicesSpec => []QuotaSurfacesLast
<1>1. FailoverInv => QuotaSurfacesLast
  BY DEF FailoverInv, QuotaSurfacesLast, Failover!QuotaSurfacesLast
<1> QED BY <1>1, FailoverInductive, PTL

(***************************************************************************)
(* ProjectConfig                                                           *)
(***************************************************************************)

\* What is a configuration was validated.
Sound(c) == c \in Config!Configs => Config!Accepted(Config!Migrated(c))

InRequest(x) ==
  /\ request[x] \in {"valid", "open", "written"} => Sound(validated[x])
  /\ request[x] \in {"open", "written"} => fd[x] \in Config!Inodes
  \* a daemon without the configuration, or that was refused it, changes no file
  /\ daemon \in {"down", "misrouted", "without config"} => request[x] \notin {"valid", "open", "written"}
  /\ daemon \in {"down", "misrouted"} => request[x] # "edited"

ConfigInv ==
  /\ path \in Config!Inodes /\ tmp \in Config!Inodes \cup {Unset}
  /\ request \in [EditRequests -> {"new", "edited", "valid", "open", "written", "done", "failed", "lost"}]
  /\ validated = [x \in EditRequests |-> validated[x]]
  /\ fd = [x \in EditRequests |-> fd[x]]
  /\ content = [i \in Config!Inodes |-> content[i]]
  /\ daemon \in {"down", "configured", "without config", "misrouted"}
  /\ \A i \in Config!Inodes : Sound(content[i])
  /\ \A x \in EditRequests : InRequest(x)
  /\ daemon = "without config" => ~ Config!Readable(path)
  /\ daemon = "misrouted" => Config!RefusedOnlyAtStart(Config!Current)

\* A configuration that validation accepts routes every role at the start of the daemon,
\* unless it asks for what only the start refuses.
LEMMA AcceptedRoutes ==
  ASSUME NEW c \in Config!Configs, Config!Accepted(c), ~ Config!Routes(c)
  PROVE  Config!RefusedOnlyAtStart(c)
<1> SUFFICES ASSUME ~ Config!RefusedOnlyAtStart(c)
             PROVE  Config!Routes(c)
  OBVIOUS
<1>1. /\ c.verification # Unset /\ c.verification.verifier = Unset => DefaultRole \in Config!Named(c)
      /\ \A x \in Profiles : c.profiles[x] \notin {"managed dsh", "demanding"}
      /\ \A r \in Config!Named(c) : c.roles[r].overrides # "unsupported"
      /\ c.verification # Unset => c.verification.injects # "skills"
  BY DEF Config!RefusedOnlyAtStart
<1>2. /\ \A r \in Config!Named(c) : Config!RoleAccepted(c, c.roles[r])
      /\ c.verification # Unset => Config!VerificationAccepted(c, c.verification)
  BY DEF Config!Accepted
<1>3. ASSUME NEW r \in Config!Named(c)
      PROVE  Config!Resolves(c, r) /\ Config!Supported(c, r)
  <2>1. r \in Roles /\ c.roles[r] # Unset
    BY <1>3 DEF Config!Named
  <2>2. c.roles[r] \in Config!RoleEntries
    BY <2>1 DEF Config!Configs
  <2>3. c.roles[r].profile \in Profiles
    BY <2>2 DEF Config!RoleEntries
  <2> QED BY <1>1, <1>2, <1>3, <2>1, <2>3 DEF Config!RoleAccepted, Config!Has, Config!Resolves, Config!Supported
<1>4. ASSUME c.verification # Unset
      PROVE  /\ Config!Resolves(c, Config!Verifier(c.verification))
             /\ Config!VerifierSupported(c, c.verification)
  <2> DEFINE v == c.verification
  <2>1. Config!VerificationAccepted(c, v) /\ v.injects # "skills"
    BY <1>1, <1>2, <1>4
  <2>2. Config!Verifier(v) \in Config!Named(c)
    BY <1>1, <1>4, <2>1 DEF Config!Verifier, Config!VerificationAccepted
  <2>3. Config!Resolves(c, Config!Verifier(v)) /\ Config!Supported(c, Config!Verifier(v))
    BY <1>3, <2>2
  <2>4. v.injects = "mcp" => c.profiles[c.roles[Config!Verifier(v)].profile] # "dsh"
    BY <2>1, <2>2 DEF Config!VerificationAccepted, Config!UserManaged
  <2> QED BY <2>1, <2>3, <2>4 DEF Config!VerifierSupported
<1> QED BY <1>1, <1>3, <1>4 DEF Config!Routes, Config!RuntimesBuilt

\* A configuration that has its version is as migration leaves it, and stays a configuration.
LEMMA MigratedIsSound ==
  /\ \A c : Config!Accepted(c) => Sound(c)
  /\ \A c \in Config!Configs : Config!Migrated(c) \in Config!Configs
<1>1. ASSUME NEW c \in Config!Configs, c.version = 1
      PROVE  Config!Migrated(c) = c
  BY <1>1 DEF Config!Configs, Config!Migrated
<1>2. ASSUME NEW c, Config!Accepted(c)
      PROVE  Sound(c)
  <2>1. c \in Config!Configs => Config!Migrated(c) = c
    BY <1>1, <1>2 DEF Config!Accepted
  <2> QED BY <1>2, <2>1 DEF Sound
<1>3. ASSUME NEW c \in Config!Configs
      PROVE  Config!Migrated(c) \in Config!Configs
  BY <1>3 DEF Config!Configs, Config!Migrated
<1> QED BY <1>2, <1>3

\* The file at the start, if it is a configuration, was validated.
LEMMA ConfigStarts ==
  ASSUME ServicesInit
  PROVE  ConfigInv
<1>1. Config!Init
  BY DEF ServicesInit
<1>2. Sound(InitialFile) /\ Sound(Empty)
  BY ServicesAssumption DEF Config!ConfigAssumption, Sound
<1> QED BY <1>1, <1>2 DEF Config!Init, ConfigInv, InRequest, Config!Inodes

\* Every step keeps what is a configuration sound: a writer puts what it validated, or a
\* mixture that is none.
LEMMA ConfigKeeps ==
  ASSUME ConfigInv, [Config!ConfigNext]_configVars
  PROVE  ConfigInv'
<1>1. /\ path \in Config!Inodes /\ tmp \in Config!Inodes \cup {Unset}
      /\ request \in [EditRequests -> {"new", "edited", "valid", "open", "written", "done", "failed", "lost"}]
      /\ validated = [x \in EditRequests |-> validated[x]]
      /\ fd = [x \in EditRequests |-> fd[x]]
      /\ content = [i \in Config!Inodes |-> content[i]]
      /\ daemon \in {"down", "configured", "without config", "misrouted"}
      /\ \A i \in Config!Inodes : Sound(content[i])
      /\ \A x \in EditRequests : InRequest(x)
      /\ daemon = "without config" => ~ Config!Readable(path)
      /\ daemon = "misrouted" => Config!RefusedOnlyAtStart(Config!Current)
  BY DEF ConfigInv
<1>2. CASE UNCHANGED configVars
  BY <1>1, <1>2 DEF ConfigInv, configVars, InRequest, Config!Readable, Config!Current
\* what a request of a daemon that runs with its configuration changes is its own
<1>3. ASSUME NEW x \in EditRequests, daemon = "configured", daemon' = daemon,
             NEW st \in {"new", "edited", "valid", "open", "written", "done", "failed", "lost"},
             request' = [request EXCEPT ![x] = st],
             path' \in Config!Inodes, tmp' \in Config!Inodes \cup {Unset},
             validated' = [validated EXCEPT ![x] = validated'[x]],
             fd' = [fd EXCEPT ![x] = fd'[x]],
             st \in {"valid", "open", "written"} => Sound(validated'[x]),
             st \in {"open", "written"} => fd'[x] \in Config!Inodes,
             content' = [i \in Config!Inodes |-> content'[i]],
             \A i \in Config!Inodes : Sound(content'[i])
      PROVE  ConfigInv'
  <2>1. /\ request' \in [EditRequests -> {"new", "edited", "valid", "open", "written", "done", "failed", "lost"}]
        /\ validated' = [y \in EditRequests |-> validated'[y]]
        /\ fd' = [y \in EditRequests |-> fd'[y]]
    BY <1>1, <1>3
  <2>2. request'[x] = st /\ \A y \in EditRequests : y # x =>
          request'[y] = request[y] /\ validated'[y] = validated[y] /\ fd'[y] = fd[y]
    BY <1>1, <1>3
  <2>3. ASSUME NEW y \in EditRequests
        PROVE  InRequest(y)'
    <3>1. CASE y = x
      BY <1>3, <2>2, <3>1 DEF InRequest
    <3>2. CASE y # x
      BY <1>1, <1>3, <2>2, <3>2 DEF InRequest
    <3> QED BY <3>1, <3>2
  <2>4. \A i \in Config!Inodes : Sound(content[i])'
    BY <1>3 DEF Sound
  <2> QED BY <1>1, <1>3, <2>1, <2>3, <2>4 DEF ConfigInv
\* ... and of a daemon without one it changes no file
<1>4. ASSUME NEW x \in EditRequests, daemon = "without config",
             UNCHANGED <<daemon, validated, path, tmp, fd, content>>,
             NEW st \in {"edited", "failed"}, request' = [request EXCEPT ![x] = st]
      PROVE  ConfigInv'
  <2>1. request' \in [EditRequests -> {"new", "edited", "valid", "open", "written", "done", "failed", "lost"}]
    BY <1>1, <1>4
  <2>2. request'[x] = st /\ \A y \in EditRequests : y # x => request'[y] = request[y]
    BY <1>1, <1>4
  <2>3. ASSUME NEW y \in EditRequests
        PROVE  InRequest(y)'
    <3>1. CASE y = x
      BY <1>4, <2>2, <3>1 DEF InRequest
    <3>2. CASE y # x
      BY <1>1, <1>4, <2>2, <3>2 DEF InRequest
    <3> QED BY <3>1, <3>2
  <2>4. ~ Config!Readable(path)'
    BY <1>1, <1>4 DEF Config!Readable
  <2> QED BY <1>1, <1>4, <2>1, <2>3, <2>4 DEF ConfigInv
<1>5. ASSUME NEW x \in EditRequests, daemon \in {"configured", "without config"},
             \/ Config!EditSection(x) \/ Config!PatchSection(x) \/ Config!Patch(x)
             \/ Config!OpenTmp(x) \/ Config!WriteTmp(x) \/ Config!Rename(x)
      PROVE  ConfigInv'
  <2>1. InRequest(x) /\ x \in Config!Inodes
    BY <1>1 DEF Config!Inodes
  <2>2. validated = [validated EXCEPT ![x] = validated[x]] /\ fd = [fd EXCEPT ![x] = fd[x]]
    BY <1>1
  <2>3. CASE /\ UNCHANGED <<daemon, validated, path, tmp, fd, content>>
             /\ \E st \in {"edited", "failed"} : request' = [request EXCEPT ![x] = st]
    <3>1. PICK st \in {"edited", "failed"} : request' = [request EXCEPT ![x] = st]
      BY <2>3
    <3>2. CASE daemon = "configured"
      BY <1>1, <1>3, <2>2, <2>3, <3>1, <3>2
    <3>3. CASE daemon = "without config"
      BY <1>4, <2>3, <3>1, <3>3
    <3> QED BY <1>5, <3>2, <3>3
  <2>4. CASE /\ Config!Patch(x) /\ Config!Readable(path) /\ Config!MayBeWritten(Config!Merged(x))
    <3>1. daemon = "configured"
      BY <1>1, <1>5, <2>4
    <3>2. /\ validated' = [validated EXCEPT ![x] = Config!Merged(x)]
          /\ request' = [request EXCEPT ![x] = "valid"]
          /\ UNCHANGED <<path, tmp, fd, content, daemon>>
      BY <2>4 DEF Config!Patch
    <3>3. Sound(Config!Merged(x)) /\ validated'[x] = Config!Merged(x)
      BY <1>1, <2>4, <3>2, MigratedIsSound DEF Config!MayBeWritten
    <3> QED BY <1>1, <1>3, <2>2, <3>1, <3>2, <3>3
  <2>5. CASE Config!OpenTmp(x)
    <3> DEFINE i == IF tmp = Unset THEN x ELSE tmp
    <3>1. request[x] = "valid" /\ daemon = "configured" /\ Sound(validated[x])
      BY <1>5, <2>1, <2>5 DEF Config!OpenTmp, InRequest
    <3>2. /\ request' = [request EXCEPT ![x] = "open"]
          /\ fd' = [fd EXCEPT ![x] = i] /\ tmp' = i /\ content' = [content EXCEPT ![i] = Empty]
          /\ UNCHANGED <<validated, path, daemon>>
      BY <2>5 DEF Config!OpenTmp
    <3>3. i \in Config!Inodes
      BY <1>1, <2>1
    <3> HIDE DEF i
    <3>4. Sound(Empty)
      BY ServicesAssumption DEF Config!ConfigAssumption, Sound
    <3>5. /\ content' = [j \in Config!Inodes |-> content'[j]]
          /\ \A j \in Config!Inodes : Sound(content'[j])
      BY <1>1, <3>2, <3>3, <3>4
    <3>6. fd'[x] = i
      BY <1>1, <3>2
    <3> QED BY <1>1, <1>3, <2>2, <3>1, <3>2, <3>3, <3>5, <3>6
  <2>6. CASE Config!WriteTmp(x)
    <3>1. request[x] = "open" /\ daemon = "configured" /\ Sound(validated[x]) /\ fd[x] \in Config!Inodes
      BY <1>5, <2>1, <2>6 DEF Config!WriteTmp, InRequest
    <3>2. PICK b \in {validated[x], Mixed} : content' = [content EXCEPT ![fd[x]] = b]
      BY <2>6 DEF Config!WriteTmp
    <3>3. /\ request' = [request EXCEPT ![x] = "written"]
          /\ UNCHANGED <<validated, path, tmp, fd, daemon>>
      BY <2>6 DEF Config!WriteTmp
    <3>4. Sound(Mixed)
      BY ServicesAssumption DEF Config!ConfigAssumption, Sound
    <3>5. /\ content' = [j \in Config!Inodes |-> content'[j]]
          /\ \A j \in Config!Inodes : Sound(content'[j])
      BY <1>1, <3>1, <3>2, <3>4
    <3> QED BY <1>1, <1>3, <2>2, <3>1, <3>3, <3>5
  <2>7. CASE Config!Rename(x)
    <3>1. request[x] = "written" /\ daemon = "configured"
      BY <1>5, <2>1, <2>7 DEF Config!Rename, InRequest
    <3>2. CASE tmp = Unset
      BY <2>3, <2>7, <3>2 DEF Config!Rename, Config!Fail
    <3>3. CASE tmp # Unset
      <4>1. /\ path' = tmp /\ tmp' = Unset /\ request' = [request EXCEPT ![x] = "done"]
            /\ UNCHANGED <<validated, fd, content, daemon>>
        BY <2>7, <3>3 DEF Config!Rename
      <4> QED BY <1>1, <1>3, <2>2, <3>1, <3>3, <4>1
    <3> QED BY <3>2, <3>3
  <2>8. CASE \/ Config!EditSection(x) \/ Config!PatchSection(x)
             \/ Config!Patch(x) /\ ~ (Config!Readable(path) /\ Config!MayBeWritten(Config!Merged(x)))
    BY <2>3, <2>8 DEF Config!EditSection, Config!PatchSection, Config!Patch, Config!Fail
  <2> QED BY <1>5, <2>4, <2>5, <2>6, <2>7, <2>8
\* at its start the daemon is refused only what validation does not look at
<1>6. CASE Config!Start
  <2>1. /\ daemon = "down" /\ UNCHANGED <<request, validated, path, tmp, fd, content>>
        /\ daemon' = IF ~ Config!Readable(path) THEN "without config"
                     ELSE IF Config!Routes(Config!Current) THEN "configured" ELSE "misrouted"
    BY <1>6 DEF Config!Start
  <2>2. \A x \in EditRequests : InRequest(x)'
    BY <1>1, <2>1 DEF InRequest
  <2>3. daemon' = "without config" => ~ Config!Readable(path)'
    BY <2>1 DEF Config!Readable
  <2>4. daemon' = "misrouted" => Config!RefusedOnlyAtStart(Config!Current)'
    <3>1. Config!Readable(path) => Config!Current \in Config!Configs /\ Config!Accepted(Config!Current)
      BY MigratedIsSound DEF Config!Readable, Config!Current
    <3>2. Config!Readable(path) /\ ~ Config!Routes(Config!Current) => Config!RefusedOnlyAtStart(Config!Current)
      BY <3>1, AcceptedRoutes
    <3>3. Config!Current' = Config!Current
      BY <2>1 DEF Config!Current
    <3> QED BY <2>1, <3>2, <3>3
  <2>5. daemon' \in {"down", "configured", "without config", "misrouted"}
    BY <2>1
  <2> QED BY <1>1, <2>1, <2>2, <2>3, <2>4, <2>5 DEF ConfigInv
<1>7. CASE Config!Crash
  <2>1. /\ daemon' = "down" /\ UNCHANGED <<validated, path, tmp, fd, content>>
        /\ request' = [x \in EditRequests |->
                        IF request[x] \in {"new", "done", "failed"} THEN request[x] ELSE "lost"]
    BY <1>7 DEF Config!Crash
  <2>2. ASSUME NEW x \in EditRequests
        PROVE  InRequest(x)'
    <3>1. request'[x] \in {"new", "done", "failed", "lost"}
      BY <2>1
    <3> QED BY <3>1 DEF InRequest
  <2>3. request' \in [EditRequests -> {"new", "edited", "valid", "open", "written", "done", "failed", "lost"}]
    BY <1>1, <2>1
  <2> QED BY <1>1, <2>1, <2>2, <2>3 DEF ConfigInv
<1> QED BY <1>2, <1>5, <1>6, <1>7 DEF Config!ConfigNext

\* ... in every behaviour of the services.
LEMMA ConfigInductive == ServicesSpec => []ConfigInv
<1>1. ConfigInv /\ [ServicesNext]_servicesVars => ConfigInv'
  BY ConfigKeeps, EachTakesItsSteps
<1> QED BY <1>1, ConfigStarts, PTL DEF ServicesSpec

\* Whatever requests edit the configuration file side by side and wherever they are cut off,
\* the daemon starts without a configuration only when the file is torn, and refuses at its
\* start only what validation does not look at (config-store.ts, validate.ts, role-router.ts).
THEOREM SavedConfigsRoute == ServicesSpec => []SavedConfigRoutes
<1>1. ASSUME ConfigInv
      PROVE  SavedConfigRoutes
  <2>1. path \in Config!Inodes /\ Sound(content[path])
    BY <1>1 DEF ConfigInv
  <2>2. daemon = "without config" => ~ Config!Readable(path)
    BY <1>1 DEF ConfigInv
  <2>3. daemon = "misrouted" => Config!RefusedOnlyAtStart(Config!Current)
    BY <1>1 DEF ConfigInv
  <2> QED BY <2>1, <2>2, <2>3 DEF SavedConfigRoutes, Config!SavedConfigRoutes, Config!Readable, Sound
<1> QED BY <1>1, ConfigInductive, PTL

(***************************************************************************)
(* OpenClawSocket                                                          *)
(***************************************************************************)

\* A socket that has not shaken hands is one whose promise is pending, and its handshake
\* is known.
Shaking(i) ==
  /\ i > opened => sock[i] = "none" /\ promise[i] = "pending"
  /\ sock[i] = "connecting" => promise[i] = "pending" /\ i \notin handshakes
  /\ sock[i] = "greeted" => promise[i] = "pending" /\ i \in handshakes
  /\ i \in handshakes => sock[i] # "none"

ClawInv ==
  /\ opened \in 0 .. MaxSockets /\ attempts \in 0 .. MaxRetries
  /\ sock \in [Claw!Sockets -> {"none", "connecting", "greeted", "open", "refused", "closing", "closed"}]
  /\ promise \in [Claw!Sockets -> {"pending", "resolved", "rejected"}]
  /\ handshakes \subseteq Claw!Sockets
  /\ connected \in BOOLEAN /\ timer \in BOOLEAN /\ destroyed \in BOOLEAN /\ refusal \in BOOLEAN
  /\ \A i \in Claw!Sockets : Shaking(i)
  /\ Claw!KeepsTrying

\* A retry that is scheduled is set, unless the retries are used up.
LEMMA SchedulesRetry ==
  ASSUME NEW called \in BOOLEAN, Claw!Schedules(called), MaxRetries \in Nat,
         attempts \in 0 .. MaxRetries, timer \in BOOLEAN, destroyed \in BOOLEAN
  PROVE  /\ timer' \in BOOLEAN /\ attempts' \in 0 .. MaxRetries
         /\ called /\ ~ destroyed => timer' \/ attempts' = MaxRetries
<1> DEFINE set == called /\ ~ destroyed /\ ~ timer /\ attempts < MaxRetries
<1>1. timer' = (timer \/ set) /\ attempts' = IF set THEN attempts + 1 ELSE attempts
  BY DEF Claw!Schedules
<1>2. CASE set
  <2>1. timer' = TRUE
    BY <1>1, <1>2, Zenon
  <2>2. attempts' = attempts + 1 /\ attempts < MaxRetries
    BY <1>1, <1>2
  <2> QED BY <2>1, <2>2
<1>3. CASE ~ set
  BY <1>1, <1>3
<1> QED BY <1>2, <1>3

\* The transport starts without a socket.
LEMMA ClawStarts ==
  ASSUME ServicesInit
  PROVE  ClawInv
<1>1. Claw!Init /\ MaxSockets \in Nat /\ MaxRetries \in Nat
  BY ServicesAssumption DEF ServicesInit, Claw!ClawAssumption
<1>2. /\ opened = 0 /\ attempts = 0 /\ sock = [i \in Claw!Sockets |-> "none"]
      /\ promise = [i \in Claw!Sockets |-> "pending"] /\ handshakes = {}
      /\ connected = FALSE /\ timer = FALSE /\ destroyed = FALSE /\ refusal = FALSE
  BY <1>1 DEF Claw!Init
<1>3. opened \in 0 .. MaxSockets /\ attempts \in 0 .. MaxRetries
  BY <1>1, <1>2
<1>4. \A i \in Claw!Sockets : Shaking(i)
  BY <1>2 DEF Shaking
<1>5. Claw!KeepsTrying
  BY <1>2 DEF Claw!KeepsTrying
<1> QED BY <1>2, <1>3, <1>4, <1>5 DEF ClawInv

\* Every event of a socket leaves a retry set, a socket that is not yet through, or the
\* refusal of a send.
LEMMA ClawKeeps ==
  ASSUME ClawInv, [Claw!ClawNext]_clawVars
  PROVE  ClawInv'
<1> DEFINE S == Claw!Sockets
           States == {"none", "connecting", "greeted", "open", "refused", "closing", "closed"}
           Trying == \E i \in S : sock[i] \in {"connecting", "greeted", "closing"}
<1>1. MaxSockets \in Nat /\ MaxRetries \in Nat /\ S = 1 .. MaxSockets
  BY ServicesAssumption DEF Claw!ClawAssumption, Claw!Sockets
<1>2. /\ opened \in 0 .. MaxSockets /\ attempts \in 0 .. MaxRetries
      /\ sock \in [S -> States] /\ promise \in [S -> {"pending", "resolved", "rejected"}]
      /\ handshakes \subseteq S
      /\ connected \in BOOLEAN /\ timer \in BOOLEAN /\ destroyed \in BOOLEAN /\ refusal \in BOOLEAN
      /\ \A i \in S : Shaking(i)
      /\ ~ destroyed /\ opened > 0 /\ ~ connected =>
           timer \/ attempts = MaxRetries \/ refusal \/ Trying
  BY DEF ClawInv, Claw!KeepsTrying
<1>3. ASSUME opened' \in 0 .. MaxSockets, attempts' \in 0 .. MaxRetries,
             sock' \in [S -> States], promise' \in [S -> {"pending", "resolved", "rejected"}],
             handshakes' \subseteq S, connected' \in BOOLEAN, timer' \in BOOLEAN, destroyed' \in BOOLEAN,
             refusal' \in BOOLEAN, \A i \in S : Shaking(i)',
             destroyed' \/ connected' \/ timer' \/ attempts' = MaxRetries \/ refusal'
             \/ (\E i \in S : sock'[i] \in {"connecting", "greeted", "closing"}) \/ ~ opened' > 0
      PROVE  ClawInv'
  BY <1>3 DEF ClawInv, Claw!KeepsTrying, Claw!Sockets
<1> HIDE DEF S
<1>4. CASE UNCHANGED <<opened, attempts, sock, promise, handshakes, connected, timer, destroyed, refusal>>
  <2>1. \A i \in S : Shaking(i)'
    BY <1>2, <1>4 DEF Shaking
  <2> QED BY <1>2, <1>3, <1>4, <2>1
\* the socket that is opened is new
<1>5. ASSUME Claw!NewSocket, Claw!Opens(opened + 1), timer' = FALSE, refusal' = FALSE,
             attempts' \in {attempts, 0}
      PROVE  ClawInv'
  <2>1. opened + 1 \in S /\ opened' = opened + 1 /\ opened' \in 0 .. MaxSockets
    BY <1>1, <1>2, <1>5 DEF Claw!NewSocket
  <2>2. /\ sock' = [sock EXCEPT ![opened + 1] = "connecting"]
        /\ UNCHANGED <<promise, connected, handshakes, destroyed>>
    BY <1>5 DEF Claw!Opens
  <2>3. sock[opened + 1] = "none" /\ promise[opened + 1] = "pending" /\ opened + 1 \notin handshakes
    BY <1>2, <2>1 DEF Shaking
  <2>4. ASSUME NEW i \in S
        PROVE  Shaking(i)'
    <3>1. CASE i = opened + 1
      BY <1>1, <1>2, <2>1, <2>2, <2>3, <3>1 DEF Shaking
    <3>2. CASE i # opened + 1
      <4>1. sock'[i] = sock[i] /\ promise'[i] = promise[i] /\ Shaking(i)
        BY <1>2, <2>2, <3>2
      <4>2. i > opened' => i > opened
        BY <1>1, <1>2, <2>1
      <4> QED BY <2>2, <4>1, <4>2 DEF Shaking
    <3> QED BY <3>1, <3>2
  <2>5. sock'[opened + 1] = "connecting"
    BY <1>2, <2>1, <2>2
  <2>6. /\ attempts' \in 0 .. MaxRetries /\ sock' \in [S -> States]
        /\ promise' \in [S -> {"pending", "resolved", "rejected"}]
        /\ timer' \in BOOLEAN /\ refusal' \in BOOLEAN
    <3>1. attempts' \in 0 .. MaxRetries
      BY <1>1, <1>2, <1>5
    <3>2. sock' \in [S -> States]
      BY <1>2, <2>1, <2>2
    <3>3. promise' \in [S -> {"pending", "resolved", "rejected"}]
      BY <1>2, <2>2
    <3> QED BY <1>5, <3>1, <3>2, <3>3
  <2>7. \E i \in S : sock'[i] \in {"connecting", "greeted", "closing"}
    BY <2>1, <2>5
  <2> QED BY <1>2, <1>3, <2>1, <2>2, <2>4, <2>6, <2>7
<1>6. CASE Claw!TimerFires
  BY <1>5, <1>6 DEF Claw!TimerFires
<1>7. ASSUME NEW r \in Requests, Claw!SendConnects(r)
      PROVE  ClawInv'
  BY <1>5, <1>7 DEF Claw!SendConnects
<1>8. ASSUME NEW r \in Requests,
             \/ Claw!SendNow(r) \/ Claw!SendWaits(r) \/ Claw!RequestTimeout(r)
             \/ \E how \in {"ok", "failed"} : Claw!Answer(r, how)
      PROVE  ClawInv'
  BY <1>4, <1>8 DEF Claw!SendNow, Claw!SendWaits, Claw!RequestTimeout, Claw!Answer
\* the promises that are rejected, and what becomes of the refusal
<1>9. ASSUME NEW R \in SUBSET S, Claw!Rejects(R)
      PROVE  /\ promise' = [i \in S |-> IF i \in R /\ promise[i] = "pending" THEN "rejected" ELSE promise[i]]
             /\ refusal' = (refusal \/ \E i \in R : promise[i] = "pending" /\ i \notin byTimer)
  BY <1>9 DEF Claw!Rejects, S
<1>10. ASSUME NEW i \in S, Claw!Challenge(i)
       PROVE  ClawInv'
  <2>1. /\ sock[i] = "connecting" /\ sock' = [sock EXCEPT ![i] = "greeted"]
        /\ handshakes' = handshakes \cup {i}
        /\ UNCHANGED <<opened, attempts, promise, connected, timer, destroyed, refusal>>
    BY <1>10 DEF Claw!Challenge
  <2>2. \A j \in S : Shaking(j)'
    BY <1>2, <1>10, <2>1 DEF Shaking
  <2>3. sock'[i] = "greeted"
    BY <1>2, <2>1
  <2> QED BY <1>2, <1>3, <2>1, <2>2, <2>3
<1>11. ASSUME NEW i \in S, Claw!Accepted(i)
       PROVE  ClawInv'
  <2>1. /\ sock[i] = "greeted" /\ sock' = [sock EXCEPT ![i] = "open"]
        /\ handshakes' = handshakes \ {i} /\ promise' = [promise EXCEPT ![i] = "resolved"]
        /\ connected' = TRUE /\ attempts' = 0 /\ refusal' = FALSE
        /\ UNCHANGED <<opened, timer, destroyed>>
    BY <1>11 DEF Claw!Accepted
  <2>2. ASSUME NEW j \in S
        PROVE  Shaking(j)'
    <3>1. CASE j = i
      <4>1. Shaking(i) /\ sock'[i] = "open" /\ promise'[i] = "resolved"
        BY <1>2, <1>11, <2>1
      <4> QED BY <2>1, <3>1, <4>1 DEF Shaking
    <3>2. CASE j # i
      <4>1. Shaking(j) /\ sock'[j] = sock[j] /\ promise'[j] = promise[j]
        BY <1>2, <2>1, <3>2
      <4> QED BY <2>1, <3>2, <4>1 DEF Shaking
    <3> QED BY <3>1, <3>2
  <2>3. /\ attempts' \in 0 .. MaxRetries /\ sock' \in [S -> States]
        /\ promise' \in [S -> {"pending", "resolved", "rejected"}]
    BY <1>1, <1>2, <2>1
  <2> QED BY <1>2, <1>3, <2>1, <2>2, <2>3
<1>12. ASSUME NEW i \in S, Claw!Refused(i)
       PROVE  ClawInv'
  <2>1. /\ sock[i] = "greeted" /\ sock' = [sock EXCEPT ![i] = "refused"]
        /\ handshakes' = handshakes \ {i} /\ Claw!Rejects({i}) /\ Claw!Schedules(Claw!Retries({i}))
        /\ UNCHANGED <<opened, connected, destroyed>>
    BY <1>12 DEF Claw!Refused
  <2>2. promise[i] = "pending" /\ ~ i > opened
    BY <1>2, <2>1 DEF Shaking
  <2>3. /\ promise' = [j \in S |-> IF j \in {i} /\ promise[j] = "pending" THEN "rejected" ELSE promise[j]]
        /\ refusal' = (refusal \/ \E j \in {i} : promise[j] = "pending" /\ j \notin byTimer)
    BY <1>9, <2>1
  <2>4. promise' = [promise EXCEPT ![i] = "rejected"] /\ refusal' = (refusal \/ i \notin byTimer)
    BY <1>2, <2>2, <2>3
  <2>5. Claw!Retries({i}) \in BOOLEAN /\ (Claw!Retries({i}) <=> i \in byTimer)
    BY <2>2 DEF Claw!Retries
  <2>6. /\ timer' \in BOOLEAN /\ attempts' \in 0 .. MaxRetries
        /\ i \in byTimer /\ ~ destroyed => timer' \/ attempts' = MaxRetries
    BY <1>1, <1>2, <2>1, <2>5, SchedulesRetry
  <2>7. \A j \in S : Shaking(j)'
    BY <1>2, <1>12, <2>1, <2>2, <2>4 DEF Shaking
  <2>8. destroyed' \/ connected' \/ timer' \/ attempts' = MaxRetries \/ refusal'
    BY <2>1, <2>4, <2>6
  <2>9. /\ sock' \in [S -> States] /\ promise' \in [S -> {"pending", "resolved", "rejected"}]
        /\ handshakes' \subseteq S /\ refusal' \in BOOLEAN
    BY <1>2, <2>1, <2>4
  <2> QED BY <1>2, <1>3, <2>1, <2>6, <2>7, <2>8, <2>9
<1>13. ASSUME NEW i \in S, Claw!HandshakeTimeout(i)
       PROVE  ClawInv'
  <2>1. /\ sock[i] \in {"connecting", "greeted", "closing"} /\ promise[i] = "pending"
        /\ sock' = [sock EXCEPT ![i] = "closing"] /\ Claw!Rejects({i}) /\ Claw!Schedules(Claw!Retries({i}))
        /\ UNCHANGED <<opened, connected, handshakes, destroyed>>
    BY <1>13 DEF Claw!HandshakeTimeout, Claw!TimeoutTells
  <2>2. ~ i > opened
    BY <1>2, <2>1 DEF Shaking
  <2>3. /\ promise' = [j \in S |-> IF j \in {i} /\ promise[j] = "pending" THEN "rejected" ELSE promise[j]]
        /\ refusal' = (refusal \/ \E j \in {i} : promise[j] = "pending" /\ j \notin byTimer)
    BY <1>9, <2>1
  <2>4. promise' = [promise EXCEPT ![i] = "rejected"] /\ refusal' \in BOOLEAN
    BY <1>2, <2>1, <2>3
  <2>5. Claw!Retries({i}) \in BOOLEAN
    BY DEF Claw!Retries
  <2>6. timer' \in BOOLEAN /\ attempts' \in 0 .. MaxRetries
    BY <1>1, <1>2, <2>1, <2>5, SchedulesRetry
  <2>7. \A j \in S : Shaking(j)'
    BY <1>2, <1>13, <2>1, <2>2, <2>4 DEF Shaking
  <2>8. sock'[i] = "closing" /\ sock' \in [S -> States]
        /\ promise' \in [S -> {"pending", "resolved", "rejected"}]
    BY <1>2, <2>1, <2>4
  <2> QED BY <1>2, <1>3, <2>1, <2>4, <2>6, <2>7, <2>8
\* the error and the close of a socket reject the handshakes of all, and schedule
<1>14. ASSUME NEW i \in S, Claw!Error(i) \/ Claw!Close(i)
       PROVE  ClawInv'
  <2>1. PICK to \in {"closing", "closed"}, R \in {handshakes, handshakes \cup {i}} :
          /\ sock' = [j \in S |-> IF j = i THEN to
                                  ELSE IF j \in handshakes /\ sock[j] = "greeted" THEN "refused" ELSE sock[j]]
          /\ Claw!Rejects(R)
    BY <1>14 DEF Claw!Error, Claw!Close, Claw!AfterReject, S
  <2>2. /\ sock[i] # "none" /\ connected' = FALSE /\ handshakes' = {} /\ Claw!Schedules(TRUE)
        /\ UNCHANGED <<opened, destroyed>>
    BY <1>14 DEF Claw!Error, Claw!Close, Claw!Live, Claw!CloseCounts
  <2>3. R \in SUBSET S
    BY <1>2
  <2>4. /\ promise' = [j \in S |-> IF j \in R /\ promise[j] = "pending" THEN "rejected" ELSE promise[j]]
        /\ refusal' \in BOOLEAN
    BY <1>2, <1>9, <2>1, <2>3
  <2>5. /\ timer' \in BOOLEAN /\ attempts' \in 0 .. MaxRetries
        /\ ~ destroyed => timer' \/ attempts' = MaxRetries
    BY <1>1, <1>2, <2>2, SchedulesRetry
  <2>6. ASSUME NEW j \in S
        PROVE  Shaking(j)'
    <3>1. Shaking(j)
      BY <1>2
    <3>2. CASE j = i
      BY <1>2, <2>1, <2>2, <3>1, <3>2 DEF Shaking
    <3>3. CASE j # i
      <4>1. /\ sock'[j] = IF j \in handshakes /\ sock[j] = "greeted" THEN "refused" ELSE sock[j]
            /\ promise'[j] = IF j \in handshakes /\ promise[j] = "pending" THEN "rejected" ELSE promise[j]
        BY <2>1, <2>4, <3>3
      <4> QED BY <2>2, <3>1, <4>1 DEF Shaking
    <3> QED BY <3>2, <3>3
  <2>7. /\ sock' \in [S -> States] /\ promise' \in [S -> {"pending", "resolved", "rejected"}]
    BY <1>2, <2>1, <2>4
  <2> QED BY <1>2, <1>3, <2>2, <2>4, <2>5, <2>6, <2>7
<1>15. CASE Claw!Destroy
  <2>1. /\ destroyed' = TRUE /\ timer' = FALSE /\ handshakes' = {} /\ Claw!Rejects(handshakes)
        /\ UNCHANGED <<opened, attempts, connected>>
        /\ sock' = [j \in S |-> IF j = ws /\ Claw!Live(j) THEN "closing"
                                ELSE IF j \in handshakes /\ sock[j] = "greeted" THEN "refused" ELSE sock[j]]
    BY <1>15 DEF Claw!Destroy, S
  <2>2. /\ promise' = [j \in S |-> IF j \in handshakes /\ promise[j] = "pending" THEN "rejected" ELSE promise[j]]
        /\ refusal' \in BOOLEAN
    BY <1>2, <1>9, <2>1
  <2>3. ASSUME NEW j \in S
        PROVE  Shaking(j)'
    <3>1. Shaking(j)
      BY <1>2
    <3>2. CASE j = ws /\ Claw!Live(j)
      BY <2>1, <2>2, <3>1, <3>2 DEF Shaking, Claw!Live
    <3>3. CASE ~ (j = ws /\ Claw!Live(j))
      <4>1. /\ sock'[j] = IF j \in handshakes /\ sock[j] = "greeted" THEN "refused" ELSE sock[j]
            /\ promise'[j] = IF j \in handshakes /\ promise[j] = "pending" THEN "rejected" ELSE promise[j]
        BY <2>1, <2>2, <3>3
      <4> QED BY <2>1, <3>1, <4>1 DEF Shaking
    <3> QED BY <3>2, <3>3
  <2>4. /\ sock' \in [S -> States] /\ promise' \in [S -> {"pending", "resolved", "rejected"}]
    BY <1>2, <2>1, <2>2
  <2> QED BY <1>2, <1>3, <2>1, <2>2, <2>3, <2>4
<1>16. CASE UNCHANGED clawVars
  BY <1>4, <1>16 DEF clawVars
<1> QED BY <1>6, <1>7, <1>8, <1>10, <1>11, <1>12, <1>13, <1>14, <1>15, <1>16 DEF Claw!ClawNext, S

\* ... in every behaviour of the services.
LEMMA ClawInductive == ServicesSpec => []ClawInv
<1>1. ClawInv /\ [ServicesNext]_servicesVars => ClawInv'
  BY ClawKeeps, EachTakesItsSteps
<1> QED BY <1>1, ClawStarts, PTL DEF ServicesSpec

(***************************************************************************)
(* ChatLinks                                                               *)
(***************************************************************************)

\* An adapter that is connecting is held by the caller that builds it, outside the map.
Building(c) ==
  /\ holds[c] # 0 => holds[c] <= made /\ bot[holds[c]] = "creating"
  /\ \A d \in Senders : holds[c] = holds[d] => c = d \/ holds[c] = 0
IsStarting(c) == sender[c] = "starting" <=> starting = c

InMap(a) ==
  /\ a > made => bot[a] = "none" /\ ~ retry[a]
  /\ bot[a] = "creating" => ~ stopped[a] /\ ~ retry[a] /\ a # entry
  /\ a = entry => ~ stopped[a]

\* Without a race the adapter in the map is the only one that polls, and there is none
\* while one is built.
Alone ==
  /\ \A a \in Links!Adapters : a # entry => bot[a] \in {"none", "creating"} /\ ~ retry[a]
  /\ \A c \in Senders : holds[c] # 0 =>
       /\ entry = 0 /\ \A d \in Senders : holds[d] # 0 => d = c
       /\ started \/ starting = c

LinksInv ==
  /\ sender \in [Senders -> {"new", "starting", "sharing", "ready", "building", "sent", "failed"}]
  /\ started \in BOOLEAN /\ starting \in Senders \cup {Nobody}
  /\ made \in 0 .. MaxAdapters /\ entry \in 0 .. made
  /\ holds \in [Senders -> 0 .. MaxAdapters]
  /\ bot \in [Links!Adapters -> {"none", "creating", "polling", "recreating"}]
  /\ up \in [Links!Adapters -> BOOLEAN] /\ stopped \in [Links!Adapters -> BOOLEAN]
  /\ retry \in [Links!Adapters -> BOOLEAN] /\ tries \in [Links!Adapters -> 0 .. MaxAttempts]
  /\ raced \in BOOLEAN
  /\ starting # Nobody => ~ started
  /\ \A c \in Senders : Building(c) /\ IsStarting(c)
  /\ \A a \in Links!Adapters : InMap(a)
  /\ ~ raced => Alone
  /\ Links!AdapterKeepsTrying

\* No adapter is made, and nobody calls.
LEMMA LinksStart ==
  ASSUME ServicesInit
  PROVE  LinksInv
<1>1. Links!Init /\ MaxAdapters \in Nat /\ MaxAttempts \in Nat /\ Nobody \notin Senders
  BY ServicesAssumption DEF ServicesInit, Links!LinksAssumption
<1>2. 0 \in 0 .. MaxAdapters /\ 0 \in 0 .. MaxAttempts /\ 0 \in 0 .. 0
      /\ \A a \in Links!Adapters : a # 0
  BY <1>1 DEF Links!Adapters
<1>3. /\ sender \in [Senders -> {"new", "starting", "sharing", "ready", "building", "sent", "failed"}]
      /\ holds \in [Senders -> 0 .. MaxAdapters] /\ tries \in [Links!Adapters -> 0 .. MaxAttempts]
      /\ bot \in [Links!Adapters -> {"none", "creating", "polling", "recreating"}]
      /\ up \in [Links!Adapters -> BOOLEAN] /\ stopped \in [Links!Adapters -> BOOLEAN]
      /\ retry \in [Links!Adapters -> BOOLEAN]
  BY <1>1, <1>2 DEF Links!Init
<1>4. \A c \in Senders : Building(c) /\ IsStarting(c)
  BY <1>1 DEF Links!Init, Building, IsStarting
<1>5. \A a \in Links!Adapters : InMap(a)
  BY <1>1, <1>2 DEF Links!Init, InMap
<1>6. Alone /\ Links!AdapterKeepsTrying
  BY <1>1 DEF Links!Init, Alone, Links!AdapterKeepsTrying
<1> QED BY <1>1, <1>2, <1>3, <1>4, <1>5, <1>6 DEF Links!Init, LinksInv

\* Every step keeps the adapter of the map the only one that polls, unless callers raced,
\* and a retry set for it when it is down.
LEMMA LinksKeep ==
  ASSUME LinksInv, [Links!LinkNext]_linkVars
  PROVE  LinksInv'
<1> USE DEF Links!telegram, Links!transport
<1> DEFINE A == Links!Adapters
           Places == {"new", "starting", "sharing", "ready", "building", "sent", "failed"}
           Bots == {"none", "creating", "polling", "recreating"}
<1>1. /\ MaxAdapters \in Nat /\ MaxAttempts \in Nat /\ Nobody \notin Senders
      /\ A = 1 .. MaxAdapters
  BY ServicesAssumption DEF Links!LinksAssumption, Links!Adapters
<1>2. /\ sender \in [Senders -> Places] /\ started \in BOOLEAN /\ starting \in Senders \cup {Nobody}
      /\ made \in 0 .. MaxAdapters /\ entry \in 0 .. made
      /\ holds \in [Senders -> 0 .. MaxAdapters] /\ bot \in [A -> Bots]
      /\ up \in [A -> BOOLEAN] /\ stopped \in [A -> BOOLEAN] /\ retry \in [A -> BOOLEAN]
      /\ tries \in [A -> 0 .. MaxAttempts] /\ raced \in BOOLEAN
      /\ starting # Nobody => ~ started
  BY DEF LinksInv
<1>3. /\ \A c \in Senders : Building(c) /\ IsStarting(c)
      /\ \A a \in A : InMap(a)
      /\ ~ raced => Alone
      /\ Links!AdapterKeepsTrying
  BY DEF LinksInv
<1> HIDE DEF A, Places, Bots
\* callers that neither start nor build
<1>4. ASSUME UNCHANGED <<started, starting, made, entry, holds, bot, up, stopped, retry, tries, raced>>,
             sender' \in [Senders -> Places],
             \A c \in Senders : sender'[c] = "starting" <=> sender[c] = "starting"
      PROVE  LinksInv'
  <2>1. \A c \in Senders : Building(c)' /\ IsStarting(c)'
    BY <1>3, <1>4 DEF Building, IsStarting
  <2>2. \A a \in A : InMap(a)'
    BY <1>3, <1>4 DEF InMap
  <2>3. (~ raced => Alone)' /\ Links!AdapterKeepsTrying'
    BY <1>3, <1>4 DEF Alone, Links!AdapterKeepsTrying
  <2> QED BY <1>2, <1>4, <2>1, <2>2, <2>3 DEF LinksInv, A, Places, Bots
\* an adapter that was connected goes up or down
<1>5. ASSUME NEW a \in A, UNCHANGED <<sender, started, starting, made, entry, holds, stopped, raced>>,
             bot[a] # "creating", a <= made, NEW b \in Bots \ {"creating"}, NEW u \in BOOLEAN,
             NEW t \in BOOLEAN, NEW n \in 0 .. MaxAttempts,
             bot' = [bot EXCEPT ![a] = b], up' = [up EXCEPT ![a] = u],
             retry' = [retry EXCEPT ![a] = t], tries' = [tries EXCEPT ![a] = n],
             ~ raced => a = entry,
             a = entry /\ ~ u => t \/ b = "recreating" \/ n = MaxAttempts
      PROVE  LinksInv'
  <2>1. /\ bot' \in [A -> Bots] /\ up' \in [A -> BOOLEAN] /\ retry' \in [A -> BOOLEAN]
        /\ tries' \in [A -> 0 .. MaxAttempts]
        /\ \A x \in A : x # a => bot'[x] = bot[x] /\ up'[x] = up[x] /\ retry'[x] = retry[x] /\ tries'[x] = tries[x]
        /\ bot'[a] = b /\ up'[a] = u /\ retry'[a] = t /\ tries'[a] = n
    BY <1>2, <1>5
  <2>2. ASSUME NEW c \in Senders
        PROVE  Building(c)' /\ IsStarting(c)'
    <3>1. Building(c) /\ IsStarting(c)
      BY <1>3
    <3>2. holds[c] # 0 => holds[c] \in A /\ holds[c] # a
      BY <1>1, <1>2, <1>5, <3>1 DEF Building
    <3> QED BY <1>5, <2>1, <3>1, <3>2 DEF Building, IsStarting
  <2>3. ASSUME NEW x \in A
        PROVE  InMap(x)'
    <3>1. CASE x = a
      <4>1. ~ a > made /\ InMap(a)
        BY <1>1, <1>2, <1>3, <1>5
      <4> QED BY <1>5, <2>1, <3>1, <4>1 DEF InMap
    <3>2. CASE x # a
      BY <1>3, <1>5, <2>1, <3>2 DEF InMap
    <3> QED BY <3>1, <3>2
  <2>4. (~ raced => Alone)'
    <3> SUFFICES ASSUME ~ raced
                 PROVE  Alone'
      BY <1>5
    <3>1. \A x \in A : x # entry => bot'[x] = bot[x] /\ retry'[x] = retry[x]
      BY <1>5, <2>1
    <3> QED BY <1>3, <1>5, <3>1 DEF Alone, A
  <2>5. Links!AdapterKeepsTrying'
    <3>1. CASE entry = a
      BY <1>5, <2>1, <3>1 DEF Links!AdapterKeepsTrying
    <3>2. CASE entry # a
      <4>1. entry # 0 => entry \in A
        BY <1>1, <1>2
      <4> QED BY <1>3, <1>5, <2>1, <3>2, <4>1 DEF Links!AdapterKeepsTrying
    <3> QED BY <3>1, <3>2
  <2> QED BY <1>2, <1>5, <2>1, <2>2, <2>3, <2>4, <2>5 DEF LinksInv, A, Places, Bots
\* an adapter is built, by one caller at a time unless they race
<1>6. ASSUME NEW c \in Senders, Links!Builds(c), entry = 0,
             UNCHANGED <<started, entry, up, retry, tries>>,
             sender' \in [Senders -> Places], starting' \in Senders \cup {Nobody}, raced' \in BOOLEAN,
             starting' # Nobody => ~ started, \A d \in Senders : IsStarting(d)',
             ~ raced' => ~ raced /\ (\A d \in Senders : holds[d] = 0) /\ (started \/ starting' = c)
      PROVE  LinksInv'
  <2> DEFINE m == made + 1
  <2>1. /\ m \in A /\ made' = m /\ m \in 0 .. MaxAdapters /\ m > made
        /\ holds' = [holds EXCEPT ![c] = m] /\ bot' = [bot EXCEPT ![m] = "creating"]
        /\ stopped' = [stopped EXCEPT ![m] = FALSE]
    BY <1>1, <1>2, <1>6 DEF Links!Builds
  <2>2. /\ holds' \in [Senders -> 0 .. MaxAdapters] /\ bot' \in [A -> Bots] /\ stopped' \in [A -> BOOLEAN]
        /\ holds'[c] = m /\ bot'[m] = "creating" /\ stopped'[m] = FALSE
        /\ \A d \in Senders : d # c => holds'[d] = holds[d]
        /\ \A x \in A : x # m => bot'[x] = bot[x] /\ stopped'[x] = stopped[x]
    BY <1>2, <2>1 DEF Bots
  <2>3. InMap(m) /\ bot[m] = "none" /\ ~ retry[m]
    BY <1>3, <2>1 DEF InMap
  <2> HIDE DEF m
  <2>4. \A d \in Senders : holds[d] # m /\ (holds[d] # 0 => holds[d] \in A)
    BY <1>1, <1>2, <1>3, <2>1, <2>3 DEF Building
  <2>5. ASSUME NEW d \in Senders
        PROVE  Building(d)'
    <3>1. m # 0
      BY <1>1, <2>1
    <3>2. CASE d = c
      <4>1. \A x \in Senders : holds'[d] = holds'[x] => d = x
        BY <2>2, <2>4, <3>2
      <4> QED BY <1>1, <2>1, <2>2, <3>2, <4>1 DEF Building
    <3>3. CASE d # c
      <4>1. Building(d) /\ holds'[d] = holds[d] /\ holds[d] # m
        BY <1>3, <2>2, <2>4, <3>3
      <4>2. holds[d] # 0 => holds[d] <= made' /\ bot'[holds[d]] = "creating"
        <5>1. holds[d] # 0 => bot'[holds[d]] = bot[holds[d]]
          BY <2>2, <2>4
        <5>2. holds[d] <= made => holds[d] <= m
          BY <1>1, <1>2, <2>1
        <5> QED BY <2>1, <4>1, <5>1, <5>2 DEF Building
      <4>3. \A x \in Senders : holds'[d] = holds'[x] => d = x \/ holds'[d] = 0
        <5> SUFFICES ASSUME NEW x \in Senders, holds'[d] = holds'[x]
                     PROVE  d = x \/ holds'[d] = 0
          OBVIOUS
        <5>1. x # c
          BY <2>2, <4>1
        <5> QED BY <2>2, <4>1, <5>1 DEF Building
      <4> QED BY <4>1, <4>2, <4>3 DEF Building
    <3> QED BY <3>2, <3>3
  <2>6. ASSUME NEW x \in A
        PROVE  InMap(x)'
    <3>1. x > made' => x > made /\ x # m
      BY <1>1, <1>2, <2>1
    <3>2. CASE x = m
      <4>1. ~ x > made' /\ x # entry'
        BY <1>1, <1>2, <1>6, <2>1, <3>2
      <4> QED BY <1>6, <2>2, <2>3, <3>2, <4>1 DEF InMap
    <3>3. CASE x # m
      BY <1>3, <1>6, <2>2, <3>1, <3>3 DEF InMap
    <3> QED BY <3>2, <3>3
  <2>7. (~ raced => Alone)'
    <3> SUFFICES ASSUME ~ raced'
                 PROVE  Alone'
      OBVIOUS
    <3>1. Alone /\ (\A d \in Senders : holds[d] = 0) /\ (started' \/ starting' = c)
      BY <1>3, <1>6
    <3>2. \A x \in A : x # entry' => bot'[x] \in {"none", "creating"} /\ ~ retry'[x]
      <4> SUFFICES ASSUME NEW x \in A, x # entry'
                   PROVE  bot'[x] \in {"none", "creating"} /\ ~ retry'[x]
        OBVIOUS
      <4>1. CASE x = m
        BY <1>6, <2>2, <2>3, <4>1
      <4>2. CASE x # m
        BY <1>6, <2>2, <3>1, <4>2 DEF Alone, A
      <4> QED BY <4>1, <4>2
    <3>3. \A d \in Senders : holds'[d] # 0 => d = c
      BY <2>2, <3>1
    <3> QED BY <1>6, <3>1, <3>2, <3>3 DEF Alone, A
  <2>8. Links!AdapterKeepsTrying'
    BY <1>6 DEF Links!AdapterKeepsTrying
  <2>9. entry' \in 0 .. made'
    BY <1>1, <1>2, <1>6, <2>1
  <2> QED BY <1>2, <1>6, <2>1, <2>2, <2>5, <2>6, <2>7, <2>8, <2>9 DEF LinksInv, A, Places, Bots
<1>7. ASSUME NEW c \in Senders, Links!Start(c)
      PROVE  LinksInv'
  <2>1. /\ sender[c] = "new" /\ ~ started /\ starting = Nobody /\ starting' = c
        /\ sender' = [sender EXCEPT ![c] = "starting"]
        /\ UNCHANGED <<started, entry, up, retry, tries, raced>>
    BY <1>7 DEF Links!Start, Links!MayStart
  <2>2. sender' \in [Senders -> Places]
    BY <1>2, <2>1 DEF Places
  <2>3. \A d \in Senders : IsStarting(d)'
    BY <1>1, <1>2, <1>3, <2>1 DEF IsStarting
  <2>4. CASE entry = 0
    <3>1. Links!Builds(c)
      BY <1>7, <2>4 DEF Links!Start
    <3>2. ~ raced => \A d \in Senders : holds[d] = 0
      BY <1>1, <1>3, <2>1 DEF Alone
    <3> QED BY <1>2, <1>6, <2>1, <2>2, <2>3, <2>4, <3>1, <3>2
  <2>5. CASE entry # 0
    <3>1. UNCHANGED <<made, holds, bot, stopped>>
      BY <1>7, <2>5 DEF Links!Start
    <3>2. \A d \in Senders : Building(d)'
      BY <1>3, <3>1 DEF Building
    <3>3. \A a \in A : InMap(a)'
      BY <1>3, <2>1, <3>1 DEF InMap
    <3>4. (~ raced => Alone)' /\ Links!AdapterKeepsTrying'
      BY <1>3, <2>1, <2>5, <3>1 DEF Alone, Links!AdapterKeepsTrying
    <3> QED BY <1>2, <2>1, <2>2, <2>3, <3>1, <3>2, <3>3, <3>4 DEF LinksInv, A, Places, Bots
  <2> QED BY <2>4, <2>5
<1>8. ASSUME NEW c \in Senders,
             \/ Links!ShareStart(c) \/ Links!Ready(c) \/ Links!BuildEnds(c)
             \/ \E how \in {"sent", "failed"} : Links!Send(c, how)
      PROVE  LinksInv'
  <2>1. PICK to \in Places \ {"starting"} : sender' = [sender EXCEPT ![c] = to]
    <3>1. CASE Links!ShareStart(c)
      BY <3>1 DEF Links!ShareStart, Places
    <3>2. CASE Links!Ready(c)
      BY <3>2 DEF Links!Ready, Places
    <3>3. CASE Links!BuildEnds(c)
      BY <3>3 DEF Links!BuildEnds, Places
    <3>4. CASE \E how \in {"sent", "failed"} : Links!Send(c, how)
      BY <3>4 DEF Links!Send, Places
    <3> QED BY <1>8, <3>1, <3>2, <3>3, <3>4
  <2>2. /\ UNCHANGED <<started, starting, made, entry, holds, bot, up, stopped, retry, tries, raced>>
        /\ sender[c] # "starting"
    BY <1>8 DEF Links!ShareStart, Links!Ready, Links!BuildEnds, Links!Send
  <2>3. /\ sender' \in [Senders -> Places]
        /\ \A d \in Senders : sender'[d] = "starting" <=> sender[d] = "starting"
    BY <1>2, <2>1, <2>2
  <2> QED BY <1>4, <2>2, <2>3
<1>9. ASSUME NEW c \in Senders, Links!StartEnds(c)
      PROVE  LinksInv'
  <2>1. /\ sender[c] = "starting" /\ holds[c] = 0 /\ starting' = Nobody /\ started' \in BOOLEAN
        /\ UNCHANGED <<made, entry, holds, bot, up, stopped, retry, tries, raced>>
    BY <1>2, <1>9 DEF Links!StartEnds
  <2>2. PICK to \in {"ready", "failed"} :
          sender' = [d \in Senders |-> IF d = c \/ sender[d] = "sharing" THEN to ELSE sender[d]]
    BY <1>9 DEF Links!StartEnds, Links!Settle
  <2>3. sender' \in [Senders -> Places]
    BY <1>2, <2>2 DEF Places
  <2>4. starting = c /\ ~ started
    BY <1>1, <1>2, <1>3, <2>1 DEF IsStarting
  <2>5. \A d \in Senders : Building(d)' /\ IsStarting(d)'
    <3>1. \A d \in Senders : sender'[d] # "starting" /\ starting' # d
      BY <1>1, <1>3, <2>1, <2>2, <2>4 DEF IsStarting
    <3> QED BY <1>3, <2>1, <3>1 DEF Building, IsStarting
  <2>6. \A a \in A : InMap(a)'
    BY <1>3, <2>1 DEF InMap
  <2>7. (~ raced => Alone)' /\ Links!AdapterKeepsTrying'
    <3>1. ~ raced => \A d \in Senders : holds[d] = 0
      BY <1>3, <2>1, <2>4 DEF Alone
    <3> QED BY <1>3, <2>1, <3>1 DEF Alone, Links!AdapterKeepsTrying
  <2> QED BY <1>2, <2>1, <2>3, <2>5, <2>6, <2>7 DEF LinksInv, A, Places, Bots
<1>10. ASSUME NEW c \in Senders, Links!SendBuilds(c)
       PROVE  LinksInv'
  <2>1. /\ sender[c] = "ready" /\ entry = 0 /\ started /\ sender' = [sender EXCEPT ![c] = "building"]
        /\ Links!Builds(c) /\ raced' = (raced \/ \E d \in Senders : holds[d] # 0)
        /\ UNCHANGED <<started, starting, entry, up, retry, tries>>
    BY <1>10 DEF Links!SendBuilds
  <2>2. sender' \in [Senders -> Places]
    BY <1>2, <2>1 DEF Places
  <2>3. \A d \in Senders : IsStarting(d)'
    BY <1>2, <1>3, <2>1 DEF IsStarting
  <2>4. raced' \in BOOLEAN /\ (~ raced' => ~ raced /\ \A d \in Senders : holds[d] = 0)
    BY <2>1
  <2> QED BY <1>2, <1>6, <2>1, <2>2, <2>3, <2>4
\* connecting ends: the adapter goes into the map
<1>11. ASSUME NEW c \in Senders, Links!Connected(c) \/ Links!ConnectFails(c)
       PROVE  LinksInv'
  <2> DEFINE a == holds[c]
  <2>1. /\ a # 0 /\ bot[a] = "creating" /\ holds' = [holds EXCEPT ![c] = 0]
        /\ UNCHANGED <<sender, started, starting, made, stopped, retry, raced>>
    BY <1>11 DEF Links!Connected, Links!ConnectFails
  <2>2. \/ /\ Links!Connected(c) /\ bot' = [bot EXCEPT ![a] = "polling"] /\ up' = [up EXCEPT ![a] = TRUE]
           /\ tries' = [tries EXCEPT ![a] = 0] /\ entry' = a
        \/ Links!ConnectFails(c) /\ bot' = [bot EXCEPT ![a] = "none"] /\ UNCHANGED <<entry, up, tries>>
    BY <1>11 DEF Links!Connected, Links!ConnectFails
  <2>3. a \in A /\ a <= made /\ InMap(a) /\ a # entry /\ ~ stopped[a] /\ ~ retry[a]
    BY <1>1, <1>2, <1>3, <2>1 DEF Building, InMap
  <2>4. \A d \in Senders : d # c => holds[d] # a
    BY <1>3, <2>1 DEF Building
  <2> HIDE DEF a
  <2>5. /\ holds' \in [Senders -> 0 .. MaxAdapters] /\ holds'[c] = 0
        /\ \A d \in Senders : d # c => holds'[d] = holds[d]
    BY <1>1, <1>2, <2>1
  <2>6. /\ bot' \in [A -> Bots] /\ bot'[a] \in {"polling", "none"}
        /\ \A x \in A : x # a => bot'[x] = bot[x]
        /\ tries' \in [A -> 0 .. MaxAttempts] /\ up' \in [A -> BOOLEAN]
    <3>1. 0 \in 0 .. MaxAttempts
      BY <1>1
    <3>2. tries' \in [A -> 0 .. MaxAttempts]
      BY <1>2, <2>2, <3>1
    <3>3. up' \in [A -> BOOLEAN]
      BY <1>2, <2>2
    <3> QED BY <1>2, <2>2, <2>3, <3>2, <3>3 DEF Bots
  <2>7. ASSUME NEW d \in Senders
        PROVE  Building(d)' /\ IsStarting(d)'
    <3>1. Building(d) /\ IsStarting(d)
      BY <1>3
    <3>2. CASE d = c
      BY <2>1, <2>5, <3>1, <3>2 DEF Building, IsStarting
    <3>3. CASE d # c
      <4>1. holds[d] # 0 => holds[d] \in A /\ holds[d] # a
        BY <1>1, <1>2, <2>4, <3>1, <3>3 DEF Building
      <4>2. \A x \in Senders : holds'[d] = holds'[x] => d = x \/ holds'[d] = 0
        BY <2>5, <3>1, <3>3 DEF Building
      <4> QED BY <2>1, <2>5, <2>6, <3>1, <3>3, <4>1, <4>2 DEF Building, IsStarting
    <3> QED BY <3>2, <3>3
  <2>8. ASSUME NEW x \in A
        PROVE  InMap(x)'
    <3>1. CASE x = a
      <4>1. ~ a > made
        BY <1>1, <1>2, <2>3
      <4> QED BY <2>1, <2>3, <2>6, <3>1, <4>1 DEF InMap
    <3>2. CASE x # a
      BY <1>3, <2>1, <2>2, <2>6, <3>2 DEF InMap
    <3> QED BY <3>1, <3>2
  <2>9. (~ raced => Alone)'
    <3> SUFFICES ASSUME ~ raced
                 PROVE  Alone'
      BY <2>1
    <3>1. entry = 0 /\ \A d \in Senders : holds'[d] = 0
      BY <1>3, <2>1, <2>5 DEF Alone, a
    <3>2. \A x \in A : bot[x] \in {"none", "creating"} /\ ~ retry[x]
      BY <1>1, <1>3, <3>1 DEF Alone, A
    <3>3. CASE Links!Connected(c)
      <4>1. entry' = a
        BY <2>2, <3>3 DEF Links!Connected, a
      <4> QED BY <2>1, <2>6, <3>1, <3>2, <4>1 DEF Alone, A
    <3>4. CASE ~ Links!Connected(c)
      <4>1. bot'[a] = "none"
        BY <1>2, <2>2, <2>3, <3>4
      <4> QED BY <2>1, <2>6, <3>1, <3>2, <4>1 DEF Alone, A
    <3> QED BY <3>3, <3>4
  <2>10. Links!AdapterKeepsTrying'
    <3>1. CASE entry' = a /\ up' = [up EXCEPT ![a] = TRUE]
      <4>1. up'[a] = TRUE
        BY <1>2, <2>3, <3>1
      <4> QED BY <3>1, <4>1 DEF Links!AdapterKeepsTrying
    <3>2. CASE UNCHANGED <<entry, up, tries>>
      <4>1. entry # 0 => bot'[entry] = bot[entry]
        BY <1>1, <1>2, <2>3, <2>6
      <4> QED BY <1>3, <2>1, <3>2, <4>1 DEF Links!AdapterKeepsTrying
    <3> QED BY <2>2, <3>1, <3>2
  <2>11. entry' \in 0 .. made'
    BY <1>1, <1>2, <2>1, <2>2, <2>3
  <2> QED BY <1>2, <2>1, <2>5, <2>6, <2>7, <2>8, <2>9, <2>10, <2>11 DEF LinksInv, A, Places, Bots
<1>12. CASE Links!Destroy
  <2>1. /\ started' = FALSE /\ entry' = 0 /\ UNCHANGED <<sender, starting, made, holds>>
        /\ raced' = (raced \/ (\E c \in Senders : holds[c] # 0) \/ (entry # 0 /\ bot[entry] = "recreating"))
    BY <1>12 DEF Links!Destroy
  <2>2. \A c \in Senders : IsStarting(c)'
    BY <1>3, <2>1 DEF IsStarting
  <2>3. Links!AdapterKeepsTrying' /\ entry' \in 0 .. made'
    BY <1>1, <1>2, <2>1 DEF Links!AdapterKeepsTrying
  <2>4. ~ raced' => ~ raced /\ (\A c \in Senders : holds[c] = 0) /\ (entry = 0 \/ bot[entry] # "recreating")
    BY <2>1
  <2>5. raced' \in BOOLEAN
    BY <2>1
  <2>6. CASE entry = 0
    <3>1. UNCHANGED <<bot, up, stopped, retry, tries>>
      BY <1>12, <2>6 DEF Links!Destroy
    <3>2. \A c \in Senders : Building(c)'
      BY <1>3, <2>1, <3>1 DEF Building
    <3>3. \A a \in A : InMap(a)'
      BY <1>3, <2>1, <2>6, <3>1 DEF InMap
    <3>4. (~ raced => Alone)'
      BY <1>3, <2>1, <2>4, <2>6, <3>1 DEF Alone
    <3> QED BY <1>2, <2>1, <2>2, <2>3, <2>5, <3>1, <3>2, <3>3, <3>4 DEF LinksInv, A, Places, Bots
  <2>7. CASE entry # 0
    <3>1. entry \in A /\ InMap(entry) /\ bot[entry] # "creating"
      BY <1>1, <1>2, <1>3, <2>7 DEF InMap
    <3>2. /\ stopped' = [stopped EXCEPT ![entry] = TRUE] /\ up' = [up EXCEPT ![entry] = FALSE]
          /\ retry' = [retry EXCEPT ![entry] = FALSE] /\ tries' = [tries EXCEPT ![entry] = 0]
          /\ bot' = [bot EXCEPT ![entry] = IF bot[entry] = "polling" THEN "none" ELSE bot[entry]]
      BY <1>12, <2>7 DEF Links!Destroy
    <3>3. /\ stopped' \in [A -> BOOLEAN] /\ up' \in [A -> BOOLEAN] /\ retry' \in [A -> BOOLEAN]
          /\ tries' \in [A -> 0 .. MaxAttempts] /\ bot' \in [A -> Bots]
          /\ retry'[entry] = FALSE /\ bot'[entry] \in {"none", bot[entry]}
          /\ bot[entry] = "polling" => bot'[entry] = "none"
          /\ \A x \in A : x # entry => bot'[x] = bot[x] /\ retry'[x] = retry[x] /\ stopped'[x] = stopped[x]
      BY <1>1, <1>2, <3>1, <3>2 DEF Bots
    <3>4. ASSUME NEW c \in Senders
          PROVE  Building(c)'
      <4>1. Building(c) /\ (holds[c] # 0 => holds[c] \in A /\ holds[c] # entry)
        BY <1>1, <1>2, <1>3, <3>1 DEF Building
      <4> QED BY <2>1, <3>3, <4>1 DEF Building
    <3>5. ASSUME NEW x \in A
          PROVE  InMap(x)'
      <4>1. x # entry'
        BY <1>1, <2>1
      <4>2. CASE x = entry
        <5>1. ~ x > made
          BY <1>1, <1>2, <4>2
        <5> QED BY <2>1, <3>1, <3>3, <4>1, <4>2, <5>1 DEF InMap
      <4>3. CASE x # entry
        BY <1>3, <2>1, <3>3, <4>1, <4>3 DEF InMap
      <4> QED BY <4>2, <4>3
    <3>6. (~ raced => Alone)'
      <4> SUFFICES ASSUME ~ raced'
                   PROVE  Alone'
        OBVIOUS
      <4>1. Alone /\ (\A c \in Senders : holds[c] = 0) /\ bot[entry] # "recreating"
        BY <1>3, <2>4, <2>7
      <4>2. bot[entry] \in {"none", "polling"}
        BY <1>2, <3>1, <4>1 DEF Bots
      <4>3. \A x \in A : bot'[x] \in {"none", "creating"} /\ ~ retry'[x]
        BY <3>3, <4>1, <4>2 DEF Alone, A
      <4> QED BY <2>1, <4>1, <4>3 DEF Alone, A
    <3> QED BY <1>2, <2>1, <2>2, <2>3, <2>5, <3>3, <3>4, <3>5, <3>6 DEF LinksInv, A, Places, Bots
  <2> QED BY <2>6, <2>7
\* the adapter and its reconnection
<1>13. ASSUME NEW a \in A, bot[a] \in {"polling", "recreating"} \/ retry[a]
       PROVE  a <= made /\ bot[a] # "creating" /\ (~ raced => a = entry)
  BY <1>1, <1>2, <1>3, <1>13 DEF InMap, Alone, A
<1>14. ASSUME NEW a \in A, Links!Reschedules(a)
       PROVE  \E t \in BOOLEAN, n \in 0 .. MaxAttempts :
                /\ retry' = [retry EXCEPT ![a] = t] /\ tries' = [tries EXCEPT ![a] = n]
                /\ ~ stopped[a] => t \/ n = MaxAttempts
  <2> DEFINE set == ~ stopped[a] /\ ~ retry[a] /\ tries[a] < MaxAttempts
             t == retry[a] \/ set
             n == IF set THEN tries[a] + 1 ELSE tries[a]
  <2>1. retry' = [retry EXCEPT ![a] = t] /\ tries' = [tries EXCEPT ![a] = n]
    BY <1>14 DEF Links!Reschedules, Links!ScheduleAllowed
  <2>2. retry[a] \in BOOLEAN /\ tries[a] \in 0 .. MaxAttempts
    BY <1>2
  <2>3. t \in BOOLEAN
    BY <2>2
  <2>4. n \in 0 .. MaxAttempts
    BY <1>1, <2>2
  <2>5. ~ stopped[a] => t \/ n = MaxAttempts
    BY <1>1, <2>2
  <2> QED BY <2>1, <2>3, <2>4, <2>5
<1>15. ASSUME NEW a \in A, Links!PollingFails(a) \/ Links!ReconnectFails(a)
       PROVE  LinksInv'
  <2>1. /\ bot[a] \in {"polling", "recreating"} /\ bot' = [bot EXCEPT ![a] = "none"]
        /\ UNCHANGED <<sender, started, starting, made, entry, holds, stopped, raced>>
    BY <1>15 DEF Links!PollingFails, Links!ReconnectFails
  <2>2. a <= made /\ bot[a] # "creating" /\ (~ raced => a = entry)
    BY <1>13, <2>1
  <2>3. CASE up' = [up EXCEPT ![a] = FALSE] /\ Links!Reschedules(a)
    <3>1. PICK t \in BOOLEAN, n \in 0 .. MaxAttempts :
            /\ retry' = [retry EXCEPT ![a] = t] /\ tries' = [tries EXCEPT ![a] = n]
            /\ ~ stopped[a] => t \/ n = MaxAttempts
      BY <1>14, <2>3
    <3>2. a = entry => ~ stopped[a]
      BY <1>3 DEF InMap
    <3> QED BY <1>5, <2>1, <2>2, <2>3, <3>1, <3>2 DEF Bots
  <2>4. CASE stopped[a] /\ UNCHANGED <<up, retry, tries>>
    <3>1. a # entry
      BY <1>3, <2>4 DEF InMap
    <3>2. /\ up[a] \in BOOLEAN /\ retry[a] \in BOOLEAN /\ tries[a] \in 0 .. MaxAttempts
          /\ up' = [up EXCEPT ![a] = up[a]] /\ retry' = [retry EXCEPT ![a] = retry[a]]
          /\ tries' = [tries EXCEPT ![a] = tries[a]]
      BY <1>2, <2>4
    <3> QED BY <1>5, <2>1, <2>2, <3>1, <3>2 DEF Bots
  <2> QED BY <1>15, <2>3, <2>4 DEF Links!PollingFails, Links!ReconnectFails
<1>16. ASSUME NEW a \in A, Links!RetryFires(a)
       PROVE  LinksInv'
  <2> DEFINE b == IF stopped[a] \/ up[a] THEN bot[a] ELSE "recreating"
  <2>1. /\ retry[a] /\ retry' = [retry EXCEPT ![a] = FALSE] /\ bot' = [bot EXCEPT ![a] = b]
        /\ UNCHANGED <<sender, started, starting, made, entry, holds, up, stopped, tries, raced>>
    BY <1>16 DEF Links!RetryFires
  <2>2. a <= made /\ bot[a] # "creating" /\ (~ raced => a = entry)
    BY <1>13, <2>1
  <2>3. b \in Bots \ {"creating"} /\ (a = entry /\ ~ up[a] => b = "recreating")
    BY <1>2, <1>3, <2>2 DEF InMap, Bots
  <2> HIDE DEF b
  <2>4. /\ up[a] \in BOOLEAN /\ tries[a] \in 0 .. MaxAttempts
        /\ up' = [up EXCEPT ![a] = up[a]] /\ tries' = [tries EXCEPT ![a] = tries[a]]
    BY <1>2, <2>1
  <2> QED BY <1>5, <2>1, <2>2, <2>3, <2>4
<1>17. ASSUME NEW a \in A, Links!Reconnects(a)
       PROVE  LinksInv'
  <2>1. /\ bot[a] = "recreating" /\ bot' = [bot EXCEPT ![a] = "polling"] /\ up' = [up EXCEPT ![a] = TRUE]
        /\ UNCHANGED <<sender, started, starting, made, entry, holds, stopped, retry, tries, raced>>
    BY <1>17 DEF Links!Reconnects
  <2>2. a <= made /\ bot[a] # "creating" /\ (~ raced => a = entry)
    BY <1>13, <2>1
  <2>3. /\ retry[a] \in BOOLEAN /\ tries[a] \in 0 .. MaxAttempts
        /\ retry' = [retry EXCEPT ![a] = retry[a]] /\ tries' = [tries EXCEPT ![a] = tries[a]]
    BY <1>2, <2>1
  <2> QED BY <1>5, <2>1, <2>2, <2>3 DEF Bots
<1>18. CASE UNCHANGED linkVars
  BY <1>2, <1>4, <1>18 DEF linkVars
<1> QED BY <1>7, <1>8, <1>9, <1>10, <1>11, <1>12, <1>15, <1>16, <1>17, <1>18 DEF Links!LinkNext, A

\* ... in every behaviour of the services.
LEMMA LinksInductive == ServicesSpec => []LinksInv
<1>1. LinksInv /\ [ServicesNext]_servicesVars => LinksInv'
  BY LinksKeep, EachTakesItsSteps
<1> QED BY <1>1, LinksStart, PTL DEF ServicesSpec

\* One adapter polls the bot of the project, unless two sends build it at once or the
\* transport is destroyed while it is built or reconnects (unified-channel-transport.ts,
\* telegram-adapter.ts).
THEOREM OneAdapterPolls == ServicesSpec => []OnePoller
<1>1. LinksInv => OnePoller
  BY DEF LinksInv, Alone, OnePoller, Links!OnePoller
<1> QED BY <1>1, LinksInductive, PTL

\* A link that is down is being rebuilt until its attempts are used up, whatever events of
\* old and new sockets and adapters cross (openclaw-gateway.ts, telegram-adapter.ts).
THEOREM LinksAreRebuilt == ServicesSpec => []LinksKeepTrying
<1>1. ClawInv /\ LinksInv => LinksKeepTrying
  BY DEF ClawInv, LinksInv, LinksKeepTrying
<1> QED BY <1>1, ClawInductive, LinksInductive, PTL

(***************************************************************************)
(* VerificationRuns                                                        *)
(***************************************************************************)

RunValues == Verdicts!RunStates \cup {Nobody}
CallOps == {"none", "request", "retry", "cancel", "markRunning", "complete"}
CallAts == {"none", "load", "inspect", "save", "back"}
ServiceCalls ==
  {d \in [op : CallOps, run : {Nobody} \cup Nat, to : RunValues, at : CallAts] :
     d.at \in {"load", "inspect"} => d.op # "none"}

\* The file's verdicts are in memory once it was read, and in what is written of it.
VerdictIsKept(i) ==
  /\ i > created => mem[i] = "none" /\ file[i] = "none"
  /\ fileRead = "yes" /\ file[i] \in Verdicts!Terminal => mem[i] = file[i]
  /\ writing # Nobody =>
       /\ i > created => writing[i] = "none"
       /\ writing[i] \in Verdicts!Terminal => mem[i] = writing[i]
       /\ file[i] \in Verdicts!Terminal => writing[i] = file[i]

\* Until it was read nothing is changed or written.
NotYetRead ==
  /\ writing = Nobody /\ queue = <<>> /\ mem = Verdicts!NoRuns
  /\ \A c \in Verdicts!Clients : client[c].at \in {"none", "load"}
  /\ fileRead = "read" => reading = file

VerdictsInv ==
  /\ mem \in [Verdicts!Ids -> RunValues] /\ file \in [Verdicts!Ids -> RunValues]
  /\ reading \in [Verdicts!Ids -> RunValues]
  /\ writing \in {Nobody} \cup [Verdicts!Ids -> RunValues]
  /\ created \in Nat /\ overtaken \in BOOLEAN
  /\ fileRead \in {"no", "reading", "read", "yes"}
  /\ client \in [Verdicts!Clients -> ServiceCalls]
  /\ ~ overtaken =>
       /\ \A i \in Verdicts!Ids : VerdictIsKept(i)
       /\ fileRead # "yes" => NotYetRead
\* A call that moves on, with the run it is about.
LEMMA CallsChange ==
  ASSUME NEW d \in ServiceCalls, NEW a \in {"save", "back"}, NEW r \in {Nobody} \cup Nat
  PROVE  [d EXCEPT !.at = a] \in ServiceCalls /\ [d EXCEPT !.at = a, !.run = r] \in ServiceCalls
<1> DEFINE R == [op : CallOps, run : {Nobody} \cup Nat, to : RunValues, at : CallAts]
           e == [d EXCEPT !.at = a]
           f == [d EXCEPT !.at = a, !.run = r]
<1>1. d \in R
  BY DEF ServiceCalls
<1>2. e \in R /\ e.at = a
  BY <1>1 DEF CallAts
<1>3. f \in R /\ f.at = a
  BY <1>1 DEF CallAts
<1> HIDE DEF R, e, f
<1>4. e \in ServiceCalls
  BY <1>2 DEF ServiceCalls, R
<1>5. f \in ServiceCalls
  BY <1>3 DEF ServiceCalls, R
<1> QED BY <1>4, <1>5 DEF e, f

\* A call that does not wait, and the one that starts to.
LEMMA CallsStart ==
  /\ Verdicts!NoCall \in ServiceCalls
  /\ \A o \in CallOps \ {"none"}, r \in {Nobody} \cup Nat, t \in RunValues, a \in CallAts :
       [op |-> o, run |-> r, to |-> t, at |-> a] \in ServiceCalls
BY DEF Verdicts!NoCall, ServiceCalls, CallOps, CallAts, RunValues

\* Of finitely many numbers one is the largest: those that are not less than it are the
\* fewest.
LEMMA LargestExists ==
  ASSUME NEW T \in SUBSET Nat, IsFiniteSet(T), T # {}
  PROVE  \E i \in T : \A j \in T : j <= i
<1> DEFINE Above(i) == {j \in T : j >= i}
           F == {Above(i) : i \in T}
<1>1. IsWellFoundedOn(StrictSubsetOrdering(T), SUBSET T)
  BY FS_StrictSubsetOrderingWellFounded, FS_FiniteSubsetsOfFinite
<1>2. F \subseteq SUBSET T /\ F # {}
  OBVIOUS
<1> HIDE DEF F
<1>3. PICK x \in F : \A y \in F : <<y, x>> \notin StrictSubsetOrdering(T)
  BY <1>1, <1>2, WFMin
<1>4. PICK i \in T : x = Above(i)
  BY <1>3 DEF F
<1>5. ASSUME NEW j \in T, ~ j <= i
      PROVE  FALSE
  <2>1. Above(j) \subseteq x /\ i \in x /\ i \notin Above(j)
    <3>1. i \in Nat /\ j \in Nat /\ j > i /\ T \subseteq Nat
      BY <1>5
    <3>2. i \in x /\ i \notin Above(j)
      BY <1>4, <3>1
    <3>3. \A k \in Above(j) : k \in T /\ k >= i
      BY <3>1
    <3>4. Above(j) \subseteq x
      BY <1>4, <3>3
    <3> QED BY <3>2, <3>4
  <2>2. Above(j) \in F
    BY <1>5 DEF F
  <2> HIDE DEF Above
  <2>3. Above(j) \in SUBSET T /\ x \in SUBSET T /\ Above(j) # x
    BY <1>2, <1>3, <2>1, <2>2
  <2>4. <<Above(j), x>> \in StrictSubsetOrdering(T)
    BY <2>1, <2>3 DEF StrictSubsetOrdering
  <2> QED BY <1>3, <2>2, <2>4
<1> QED BY <1>4, <1>5

\* Of the runs that are known, if there are any, one is the latest.
LEMMA LatestIsKnown == Verdicts!Latest \in {Nobody} \cup Nat
<1>1. CASE Verdicts!Known = {}
  BY <1>1 DEF Verdicts!Latest
<1>2. CASE Verdicts!Known # {}
  <2>1. Verdicts!Known \subseteq 1 .. MaxRuns /\ MaxRuns \in Nat
    BY ServicesAssumption DEF Verdicts!Known, Verdicts!Ids, Verdicts!VerificationAssumption
  <2>2. Verdicts!Known \in SUBSET Nat /\ \A i \in Verdicts!Known : i <= MaxRuns
    BY <2>1
  <2>3. IsFiniteSet(Verdicts!Known)
    BY <2>1, <2>2, FS_BoundedSetOfNaturals
  <2>4. \E i \in Verdicts!Known : \A j \in Verdicts!Known : j <= i
    BY <1>2, <2>2, <2>3, LargestExists
  <2>5. Verdicts!Latest \in Verdicts!Known
    BY <1>2, <2>4 DEF Verdicts!Latest
  <2> QED BY <2>2, <2>5
<1> QED BY <1>1, <1>2

\* The service starts without a run.
LEMMA VerdictsStart ==
  ASSUME ServicesInit
  PROVE  VerdictsInv
<1>1. Verdicts!Init
  BY DEF ServicesInit
<1>2. Verdicts!NoRuns \in [Verdicts!Ids -> RunValues] /\ \A i \in Verdicts!Ids : Verdicts!NoRuns[i] = "none"
  BY DEF Verdicts!NoRuns, RunValues, Verdicts!RunStates
<1>3. \A i \in Verdicts!Ids : VerdictIsKept(i)
  BY <1>1, <1>2 DEF Verdicts!Init, VerdictIsKept
<1>4. NotYetRead
  BY <1>1 DEF Verdicts!Init, NotYetRead, Verdicts!NoCall
<1> QED BY <1>1, <1>2, <1>3, <1>4, CallsStart DEF Verdicts!Init, VerdictsInv

\* Every step keeps the verdicts of the file in memory, and in what is written: a run that
\* has come to its end is changed by no call.
LEMMA VerdictsKeep ==
  ASSUME VerdictsInv, [Verdicts!Next]_verdictVars
  PROVE  VerdictsInv'
<1> DEFINE I == Verdicts!Ids
           C == Verdicts!Clients
<1>1. /\ mem \in [I -> RunValues] /\ file \in [I -> RunValues] /\ reading \in [I -> RunValues]
      /\ writing \in {Nobody} \cup [I -> RunValues]
      /\ created \in Nat /\ overtaken \in BOOLEAN /\ fileRead \in {"no", "reading", "read", "yes"}
      /\ client \in [C -> ServiceCalls]
  BY DEF VerdictsInv
<1>2. ~ overtaken => /\ \A i \in I : VerdictIsKept(i)
                     /\ fileRead # "yes" => NotYetRead
  BY DEF VerdictsInv
<1>3. /\ Verdicts!NoRuns \in [I -> RunValues] /\ \A i \in I : Verdicts!NoRuns[i] = "none"
      /\ I \subseteq Nat /\ Recorder \in C
  BY DEF Verdicts!NoRuns, RunValues, Verdicts!RunStates, Verdicts!Ids, Verdicts!Clients
<1> HIDE DEF I, C
<1>4. CASE UNCHANGED verdictVars
  BY <1>4 DEF verdictVars, VerdictsInv, VerdictIsKept, NotYetRead, Verdicts!NoRuns
\* what is left to show of a step that keeps the types
<1>5. ASSUME mem' \in [I -> RunValues], file' \in [I -> RunValues], reading' \in [I -> RunValues],
             writing' \in {Nobody} \cup [I -> RunValues],
             created' \in Nat, overtaken' \in BOOLEAN, fileRead' \in {"no", "reading", "read", "yes"},
             client' \in [C -> ServiceCalls],
             ~ overtaken' => (\A i \in I : VerdictIsKept(i)') /\ (fileRead' # "yes" => NotYetRead')
      PROVE  VerdictsInv'
  BY <1>5 DEF VerdictsInv, I, C
\* a call starts
<1>6. ASSUME NEW c \in C, NEW o \in CallOps \ {"none"}, NEW r \in {Nobody} \cup Nat, NEW t \in RunValues,
             Verdicts!Load(c, o, r, t),
             UNCHANGED <<mem, file, created, reading, queue, writing>>
      PROVE  VerdictsInv'
  <2> DEFINE d == [op |-> o, run |-> r, to |-> t, at |-> IF fileRead = "no" THEN "load" ELSE "inspect"]
  <2>1. /\ client' = [client EXCEPT ![c] = d] /\ fileRead' = (IF fileRead = "no" THEN "reading" ELSE fileRead)
        /\ overtaken' = (overtaken \/ fileRead \in {"reading", "read"})
    BY <1>6 DEF Verdicts!Load
  <2>2. d \in ServiceCalls /\ (fileRead = "no" => d.at = "load")
    BY CallsStart DEF CallAts
  <2> HIDE DEF d
  <2>3. client' \in [C -> ServiceCalls]
    BY <1>1, <2>1, <2>2
  <2>4. ASSUME ~ overtaken'
        PROVE  (\A i \in I : VerdictIsKept(i)') /\ (fileRead' # "yes" => NotYetRead')
    <3>1. ~ overtaken /\ fileRead \in {"no", "yes"}
      BY <1>1, <2>1, <2>4
    <3>2. \A i \in I : VerdictIsKept(i)'
      BY <1>2, <1>6, <2>1, <3>1 DEF VerdictIsKept
    <3>3. fileRead' # "yes" => fileRead = "no" /\ fileRead' = "reading" /\ NotYetRead
      BY <1>2, <2>1, <3>1
    <3>4. fileRead = "no" /\ NotYetRead => \A e \in C : client'[e].at \in {"none", "load"}
      BY <1>1, <2>1, <2>2 DEF NotYetRead, C
    <3> QED BY <1>6, <3>2, <3>3, <3>4 DEF NotYetRead, C, Verdicts!NoRuns
  <2> QED BY <1>1, <1>5, <1>6, <2>1, <2>3, <2>4
<1>7. ASSUME NEW c \in C, Verdicts!Person(c)
      PROVE  VerdictsInv'
  <2>1. PICK o \in {"request", "retry", "cancel"}, r \in {Nobody} \cup Nat, t \in {Nobody, "cancelled"} :
          Verdicts!Load(c, o, r, t)
    BY <1>1, <1>7 DEF Verdicts!Person
  <2>2. o \in CallOps \ {"none"} /\ t \in RunValues
    BY DEF CallOps, RunValues, Verdicts!RunStates, Verdicts!Terminal, Verdicts!Verdicts
  <2>3. UNCHANGED <<mem, file, created, reading, queue, writing>>
    BY <1>7 DEF Verdicts!Person
  <2> QED BY <1>6, <2>1, <2>2, <2>3
<1>8. ASSUME NEW v \in Verdicts!Verdicts, Verdicts!Verdict(v)
      PROVE  VerdictsInv'
  <2>1. Verdicts!Load(Recorder, "request", Nobody, v) /\ UNCHANGED <<mem, file, created, reading, queue, writing>>
    BY <1>8 DEF Verdicts!Verdict
  <2>2. "request" \in CallOps \ {"none"} /\ v \in RunValues
    BY <1>8 DEF CallOps, RunValues, Verdicts!RunStates, Verdicts!Terminal
  <2> QED BY <1>3, <1>6, <2>1, <2>2
<1>9. CASE Verdicts!ReadFile
  <2>1. /\ fileRead = "reading" /\ fileRead' = "read" /\ reading' = file
        /\ UNCHANGED <<mem, file, created, queue, writing, client, overtaken>>
    BY <1>9 DEF Verdicts!ReadFile
  <2>2. ~ overtaken => (\A i \in I : VerdictIsKept(i)') /\ NotYetRead'
    BY <1>2, <2>1 DEF VerdictIsKept, NotYetRead, Verdicts!NoRuns
  <2> QED BY <1>1, <1>5, <2>1, <2>2
<1>10. CASE Verdicts!EndLoad
  <2>1. /\ fileRead = "read" /\ fileRead' = "yes" /\ reading' = Verdicts!NoRuns
        /\ mem' = [i \in I |-> IF reading[i] # "none" THEN reading[i] ELSE mem[i]]
        /\ client' = [c \in C |-> IF client[c].at = "load" THEN [client[c] EXCEPT !.at = "inspect"] ELSE client[c]]
        /\ UNCHANGED <<file, created, queue, writing, overtaken>>
    BY <1>10 DEF Verdicts!EndLoad, I, C
  <2>2. ASSUME NEW d \in ServiceCalls, d.at = "load"
        PROVE  [d EXCEPT !.at = "inspect"] \in ServiceCalls
    <3> DEFINE R == [op : CallOps, run : {Nobody} \cup Nat, to : RunValues, at : CallAts]
               e == [d EXCEPT !.at = "inspect"]
    <3>1. d \in R /\ d.op # "none"
      BY <2>2 DEF ServiceCalls
    <3>2. e \in R /\ e.op # "none"
      BY <3>1 DEF CallAts
    <3> HIDE DEF e
    <3>3. e \in ServiceCalls
      BY <3>2 DEF ServiceCalls
    <3> QED BY <3>3 DEF e
  <2>3. client' \in [C -> ServiceCalls]
    BY <1>1, <2>1, <2>2
  <2>4. mem' \in [I -> RunValues]
    BY <1>1, <2>1
  <2>5. ASSUME ~ overtaken, NEW i \in I
        PROVE  VerdictIsKept(i)'
    <3>1. reading = file /\ mem = Verdicts!NoRuns /\ writing = Nobody
      BY <1>2, <2>1, <2>5 DEF NotYetRead
    <3>2. mem'[i] = file[i]
      BY <1>3, <2>1, <3>1
    <3> QED BY <1>2, <2>1, <2>5, <3>1, <3>2 DEF VerdictIsKept
  <2> QED BY <1>1, <1>3, <1>5, <2>1, <2>3, <2>4, <2>5
\* what a call changes of the runs, and the call that waits for it
<1>11. ASSUME NEW c \in C, client[c].at = "inspect", client' \in [C -> ServiceCalls],
              UNCHANGED <<file, fileRead, reading, writing, overtaken>>,
              NEW i, NEW st \in RunValues, mem' = [mem EXCEPT ![i] = st],
              \/ created' = created /\ mem[i] \notin Verdicts!Terminal /\ mem[i] # "none"
              \/ created' = created /\ mem' = mem
              \/ created' = created + 1 /\ i = created + 1
       PROVE  VerdictsInv'
  <2>1. mem' \in [I -> RunValues] /\ created' \in Nat
    <3>1. mem' \in [I -> RunValues]
      BY <1>1, <1>11
    <3>2. created' \in Nat
      BY <1>1, <1>11
    <3> QED BY <3>1, <3>2
  <2>2. ASSUME ~ overtaken
        PROVE  (\A x \in I : VerdictIsKept(x)') /\ fileRead' = "yes"
    <3>1. fileRead = "yes"
      BY <1>2, <1>11, <2>2 DEF NotYetRead, C
    <3>2. ASSUME NEW x \in I
          PROVE  VerdictIsKept(x)'
      <4>1. VerdictIsKept(x) /\ x \in Nat
        BY <1>2, <1>3, <2>2
      <4>2. CASE mem'[x] = mem[x]
        <5>1. x > created' => x > created
          BY <1>1, <1>11, <4>1
        <5> QED BY <1>11, <4>1, <4>2, <5>1 DEF VerdictIsKept
      <4>3. CASE mem'[x] # mem[x]
        <5>1. x = i /\ mem' # mem
          BY <1>1, <1>11, <4>3
        <5>2. CASE created' = created + 1 /\ i = created + 1
          <6>1. x > created /\ ~ x > created'
            BY <1>1, <4>1, <5>1, <5>2
          <6> QED BY <1>11, <4>1, <6>1 DEF VerdictIsKept, Verdicts!Terminal, Verdicts!Verdicts
        <5>3. CASE created' = created /\ mem[i] \notin Verdicts!Terminal /\ mem[i] # "none"
          BY <1>11, <3>1, <4>1, <5>1, <5>3 DEF VerdictIsKept
        <5> QED BY <1>11, <5>1, <5>2, <5>3
      <4> QED BY <4>2, <4>3
    <3> QED BY <1>11, <3>1, <3>2
  <2> QED BY <1>1, <1>5, <1>11, <2>1, <2>2
<1>12. ASSUME NEW c \in C, NEW r \in {Nobody} \cup Nat,
              Verdicts!Save(c, r) \/ Verdicts!Back(c, r) \/ Verdicts!Throws(c)
       PROVE  client' \in [C -> ServiceCalls]
  <2>1. client[c] \in ServiceCalls
    BY <1>1
  <2>2. PICK d \in ServiceCalls : client' = [client EXCEPT ![c] = d]
    <3>1. CASE client' = [client EXCEPT ![c] = Verdicts!NoCall]
      BY <3>1, CallsStart
    <3>2. CASE client' = [client EXCEPT ![c].at = "save", ![c].run = r]
      <4>1. client' = [client EXCEPT ![c] = [client[c] EXCEPT !.at = "save", !.run = r]]
        BY <1>1, <3>2
      <4> QED BY <2>1, <4>1, CallsChange
    <3>3. CASE client' = [client EXCEPT ![c].at = "back", ![c].run = r]
      <4>1. client' = [client EXCEPT ![c] = [client[c] EXCEPT !.at = "back", !.run = r]]
        BY <1>1, <3>3
      <4> QED BY <2>1, <4>1, CallsChange
    <3> QED BY <1>12, <3>1, <3>2, <3>3 DEF Verdicts!Save, Verdicts!Back, Verdicts!Throws
  <2> QED BY <1>1, <2>2
<1>13. ASSUME NEW c \in C, Verdicts!Act(c)
       PROVE  VerdictsInv'
  <2>1. client[c].at = "inspect" /\ UNCHANGED <<file, fileRead, reading, writing, overtaken>>
    BY <1>13 DEF Verdicts!Act
  <2>2. /\ client[c].op \in CallOps \ {"none"} /\ client[c].run \in {Nobody} \cup Nat
        /\ client[c].to \in RunValues
    BY <1>1, <2>1 DEF ServiceCalls
  <2>3. ASSUME NEW r \in {Nobody} \cup Nat, Verdicts!Back(c, r) \/ Verdicts!Throws(c)
        PROVE  VerdictsInv'
    <3>1. mem' = mem /\ created' = created /\ client' \in [C -> ServiceCalls]
      BY <1>12, <2>3 DEF Verdicts!Back, Verdicts!Throws
    <3>2. /\ 0 \notin I
      BY DEF I, Verdicts!Ids
    <3>3. mem' = [mem EXCEPT ![0] = Nobody] /\ Nobody \in RunValues
      BY <1>1, <3>1, <3>2 DEF RunValues
    <3> QED BY <1>11, <2>1, <3>1, <3>3
  <2>4. ASSUME NEW n, Verdicts!Creates(c, n)
        PROVE  VerdictsInv'
    <3>1. /\ created' = created + 1 /\ mem' = [mem EXCEPT ![created + 1] = "pending"]
          /\ Verdicts!Save(c, created + 1)
      BY <2>4 DEF Verdicts!Creates
    <3>2. "pending" \in RunValues /\ created + 1 \in {Nobody} \cup Nat
      BY <1>1 DEF RunValues, Verdicts!RunStates
    <3>3. client' \in [C -> ServiceCalls]
      BY <1>12, <3>1, <3>2
    <3> QED BY <1>11, <2>1, <3>1, <3>2, <3>3
  <2>5. ASSUME NEW r \in {Nobody} \cup Nat, NEW st \in RunValues, Verdicts!Updates(c, r, st),
               mem[r] \notin Verdicts!Terminal, mem[r] # "none"
        PROVE  VerdictsInv'
    <3>1. /\ created' = created /\ mem' = [mem EXCEPT ![r] = st] /\ Verdicts!Save(c, r)
      BY <2>5 DEF Verdicts!Updates
    <3>2. client' \in [C -> ServiceCalls]
      BY <1>12, <3>1
    <3> QED BY <1>11, <2>1, <2>5, <3>1, <3>2
  <2>6. CASE client[c].op = "request"
    <3>1. Verdicts!Request(c)
      BY <1>13, <2>6 DEF Verdicts!Act
    <3> QED BY <2>3, <2>4, <3>1, LatestIsKnown DEF Verdicts!Request
  <2>7. CASE client[c].op = "retry"
    <3>1. Verdicts!Retry(c, client[c].run)
      BY <1>13, <2>7 DEF Verdicts!Act
    <3> QED BY <2>2, <2>3, <2>4, <3>1 DEF Verdicts!Retry
  <2>8. CASE client[c].op = "cancel"
    <3>1. Verdicts!Cancel(c, client[c].run) /\ "cancelled" \in RunValues
      BY <1>13, <2>8 DEF Verdicts!Act, RunValues, Verdicts!RunStates, Verdicts!Terminal
    <3> QED BY <2>2, <2>3, <2>5, <3>1 DEF Verdicts!Cancel
  <2>9. CASE client[c].op = "markRunning"
    <3> DEFINE r == client[c].run
    <3>1. Verdicts!MarkRunning(c, r) /\ "running" \in RunValues
      BY <1>13, <2>9 DEF Verdicts!Act, RunValues, Verdicts!RunStates
    <3>2. \/ Verdicts!Updates(c, r, "running") /\ mem[r] = "pending"
          \/ Verdicts!Back(c, r) \/ Verdicts!Throws(c)
      BY <3>1 DEF Verdicts!MarkRunning
    <3>3. "pending" \notin Verdicts!Terminal
      BY DEF Verdicts!Terminal, Verdicts!Verdicts
    <3> QED BY <2>2, <2>3, <2>5, <3>1, <3>2, <3>3
  <2>10. CASE client[c].op = "complete"
    <3>1. Verdicts!Complete(c, client[c].run, client[c].to)
      BY <1>13, <2>10 DEF Verdicts!Act
    <3> QED BY <2>2, <2>3, <2>5, <3>1 DEF Verdicts!Complete
  <2> QED BY <2>2, <2>6, <2>7, <2>8, <2>9, <2>10 DEF CallOps
<1>14. CASE Verdicts!StartWrite
  <2>1. /\ queue # <<>> /\ writing' = mem
        /\ UNCHANGED <<mem, file, created, fileRead, reading, client, overtaken>>
    BY <1>14 DEF Verdicts!StartWrite
  <2>2. ASSUME ~ overtaken
        PROVE  (\A i \in I : VerdictIsKept(i)') /\ fileRead' = "yes"
    BY <1>2, <2>1, <2>2 DEF VerdictIsKept, NotYetRead
  <2> QED BY <1>1, <1>5, <2>1, <2>2
<1>15. CASE Verdicts!EndWrite
  <2>1. /\ writing # Nobody /\ file' = writing /\ writing' = Nobody
        /\ \E c : client' = [client EXCEPT ![c].at = "back"]
        /\ UNCHANGED <<mem, created, fileRead, reading, overtaken>>
    BY <1>15 DEF Verdicts!EndWrite
  <2>2. client' \in [C -> ServiceCalls]
    <3>1. PICK c : client' = [client EXCEPT ![c].at = "back"]
      BY <2>1
    <3>2. CASE c \in C
      <4>1. client' = [client EXCEPT ![c] = [client[c] EXCEPT !.at = "back"]]
        BY <1>1, <3>1
      <4>2. [client[c] EXCEPT !.at = "back"] \in ServiceCalls
        BY <1>1, <3>2, CallsChange
      <4> QED BY <1>1, <4>1, <4>2
    <3>3. CASE c \notin C
      <4>1. client' = client
        BY <1>1, <3>1, <3>3
      <4> QED BY <1>1, <4>1
    <3> QED BY <3>2, <3>3
  <2>3. ASSUME ~ overtaken
        PROVE  (\A i \in I : VerdictIsKept(i)') /\ fileRead' = "yes"
    BY <1>2, <2>1, <2>3 DEF VerdictIsKept, NotYetRead
  <2> QED BY <1>1, <1>5, <2>1, <2>2, <2>3
<1>16. CASE Verdicts!WriteFails
  <2>1. /\ writing # Nobody /\ writing' = Nobody
        /\ client' = [c \in C |-> IF c \in Verdicts!ToSet(queue) THEN Verdicts!NoCall ELSE client[c]]
        /\ UNCHANGED <<mem, file, created, fileRead, reading, overtaken>>
    BY <1>16 DEF Verdicts!WriteFails, C
  <2>2. client' \in [C -> ServiceCalls]
    BY <1>1, <2>1, CallsStart
  <2>3. ASSUME ~ overtaken
        PROVE  (\A i \in I : VerdictIsKept(i)') /\ fileRead' = "yes"
    BY <1>2, <2>1, <2>3 DEF VerdictIsKept, NotYetRead
  <2> QED BY <1>1, <1>5, <2>1, <2>2, <2>3
\* a call that is over
<1>17. ASSUME NEW c \in C, client[c].at = "back", client' = [client EXCEPT ![c] = Verdicts!NoCall],
              UNCHANGED <<mem, file, created, fileRead, reading, queue, writing, overtaken>>
       PROVE  VerdictsInv'
  <2>1. client' \in [C -> ServiceCalls]
    BY <1>1, <1>17, CallsStart
  <2>2. ASSUME ~ overtaken
        PROVE  (\A i \in I : VerdictIsKept(i)') /\ fileRead' = "yes"
    BY <1>2, <1>17, <2>2 DEF VerdictIsKept, NotYetRead, C
  <2> QED BY <1>1, <1>5, <1>17, <2>1, <2>2
<1>18. ASSUME NEW c \in C, Verdicts!Returns(c)
       PROVE  VerdictsInv'
  BY <1>17, <1>18 DEF Verdicts!Returns
<1>19. CASE Verdicts!DaemonGoesOn
  <2> DEFINE r == client[Recorder].run
             v == client[Recorder].to
  <2>1. client[Recorder].at = "back" /\ UNCHANGED <<mem, file, created, reading, queue, writing>>
    BY <1>19 DEF Verdicts!DaemonGoesOn
  <2>2. r \in {Nobody} \cup Nat /\ v \in RunValues
    BY <1>1, <1>3 DEF ServiceCalls
  <2>3. \/ Verdicts!Load(Recorder, "markRunning", r, v) \/ Verdicts!Load(Recorder, "complete", r, v)
        \/ client' = [client EXCEPT ![Recorder] = Verdicts!NoCall] /\ UNCHANGED <<fileRead, overtaken>>
    BY <1>19 DEF Verdicts!DaemonGoesOn
  <2>4. "markRunning" \in CallOps \ {"none"} /\ "complete" \in CallOps \ {"none"}
    BY DEF CallOps
  <2> HIDE DEF r, v
  <2> QED BY <1>3, <1>6, <1>17, <2>1, <2>2, <2>3, <2>4
<1>20. CASE Verdicts!Crash
  <2>1. /\ mem' = Verdicts!NoRuns /\ fileRead' = "no" /\ reading' = Verdicts!NoRuns
        /\ queue' = <<>> /\ writing' = Nobody /\ client' = [c \in C |-> Verdicts!NoCall]
        /\ UNCHANGED <<file, created, overtaken>>
    BY <1>20 DEF Verdicts!Crash, C
  <2>2. client' \in [C -> ServiceCalls]
    BY <2>1, CallsStart
  <2>3. ASSUME ~ overtaken
        PROVE  (\A i \in I : VerdictIsKept(i)') /\ NotYetRead'
    <3>1. \A i \in I : mem'[i] = "none"
      BY <1>3, <2>1
    <3>2. NotYetRead'
      BY <2>1 DEF NotYetRead, C, Verdicts!NoCall, Verdicts!NoRuns
    <3> QED BY <1>2, <2>1, <2>3, <3>1, <3>2 DEF VerdictIsKept
  <2> QED BY <1>1, <1>3, <1>5, <2>1, <2>2, <2>3
<1> QED BY <1>4, <1>7, <1>8, <1>9, <1>10, <1>13, <1>14, <1>15, <1>16, <1>18, <1>19, <1>20
        DEF Verdicts!Next, Verdicts!Service, C, Verdicts!Clients

\* ... in every behaviour of the services.
LEMMA VerdictsInductive == ServicesSpec => []VerdictsInv
<1>1. VerdictsInv /\ [ServicesNext]_servicesVars => VerdictsInv'
  BY VerdictsKeep, EachTakesItsSteps
<1> QED BY <1>1, VerdictsStart, PTL DEF ServicesSpec

\* A verdict on disk is never replaced or lost, by a late cancellation, by a second verdict or
\* by a death of the daemon in the middle of a write, unless a call overtook the first read
\* of the file (verification durable-service.ts).
THEOREM VerdictsAreKept == ServicesSpec => VerdictsLast
<1>1. ASSUME VerdictsInv, [Verdicts!Next]_verdictVars, ~ overtaken',
             NEW i \in Verdicts!Ids, file[i] \in Verdicts!Terminal
      PROVE  file'[i] = file[i]
  <2>1. CASE file' = file
    BY <2>1
  <2>2. CASE Verdicts!EndWrite
    <3>1. writing # Nobody /\ file' = writing /\ ~ overtaken
      BY <1>1, <2>2 DEF Verdicts!EndWrite
    <3>2. VerdictIsKept(i)
      BY <1>1, <3>1 DEF VerdictsInv
    <3> QED BY <1>1, <3>1, <3>2 DEF VerdictIsKept
  <2> QED BY <1>1, <2>1, <2>2 DEF Verdicts!Next, Verdicts!Service, Verdicts!ReadFile, Verdicts!EndLoad,
          Verdicts!StartWrite, Verdicts!Act, Verdicts!WriteFails, Verdicts!DaemonGoesOn, Verdicts!Crash,
          Verdicts!Person, Verdicts!Returns, Verdicts!Verdict, verdictVars
<1>2. VerdictsInv /\ [ServicesNext]_servicesVars =>
        [~ overtaken' => \A i \in Verdicts!Ids : file[i] \in Verdicts!Terminal => file'[i] = file[i]]_(Verdicts!vars)
  BY <1>1, EachTakesItsSteps
<1> QED BY <1>2, VerdictsInductive, PTL DEF ServicesSpec, VerdictsLast, Verdicts!VerdictsLast

(***************************************************************************)
(* WhatsAppLink                                                            *)
(***************************************************************************)

Postings == [text : Texts, asked : Nat, life : Nat, n : Nat]
Entries == [mine : BOOLEAN, text : Texts, asked : Nat, life : Nat, at : Nat, polled : BOOLEAN]

\* What was sent is remembered, or was sent too long ago.
Remembered(t, a) == recent[t] = a \/ now - a > KeptFor

\* A message that is on its way.
IsPending(s) ==
  /\ s.asked <= now /\ s.life <= life /\ uses[s.text] >= 1
  /\ s.life = life /\ uses[s.text] <= 1 => Remembered(s.text, s.asked)

\* A message of the chat, until the process that runs has seen it.
IsTold(m) ==
  /\ uses[chat[m].text] >= 1
  /\ chat[m].mine => /\ chat[m].asked <= chat[m].at /\ chat[m].life <= life
                     /\ \/ uses[chat[m].text] > 1
                        \/ chat[m].at - chat[m].asked >= EchoWindow
                        \/ chat[m].life < life
                        \/ m \in seen
                        \/ Remembered(chat[m].text, chat[m].asked)
                     /\ handled[m] # WhatsApp!Never =>
                        \/ uses[chat[m].text] > 1
                        \/ chat[m].at - chat[m].asked >= EchoWindow
                        \/ handled[m] - chat[m].asked > KeptFor
                        \/ chat[m].life < life

\* Two messages with one text were both written.
IsCounted ==
  /\ \A r, s \in posting : r.text = s.text /\ uses[s.text] <= 1 => r = s
  /\ \A s \in posting, m \in DOMAIN chat : s.text = chat[m].text => uses[s.text] > 1
  /\ \A m, n \in DOMAIN chat : chat[m].text = chat[n].text /\ uses[chat[m].text] <= 1 => m = n

ChatTyped ==
  /\ now \in Nat /\ life \in Nat /\ written \in Nat
  /\ posting \subseteq Postings /\ IsFiniteSet(posting)
  /\ chat \in Seq(Entries)
  /\ recent \in [Texts -> Int] /\ uses \in [Texts -> Nat]
  /\ pages \in [Polls -> SUBSET DOMAIN chat]
  /\ handled \in [WhatsApp!Messages -> Int]
  /\ Len(chat) + Cardinality(posting) <= written /\ written <= MaxMessages

EchoInv ==
  /\ ChatTyped
  /\ \A s \in posting : IsPending(s)
  /\ \A m \in DOMAIN chat : IsTold(m)
  /\ IsCounted
  /\ \A m \in WhatsApp!Messages \ DOMAIN chat : handled[m] = WhatsApp!Never

\* What a message more makes of the chat.
LEMMA ChatGrows ==
  ASSUME NEW e \in Entries, chat \in Seq(Entries), chat' = Append(chat, e)
  PROVE  /\ chat' \in Seq(Entries) /\ Len(chat') = Len(chat) + 1 /\ Len(chat) \in Nat
         /\ DOMAIN chat = 1 .. Len(chat) /\ DOMAIN chat' = 1 .. Len(chat) + 1
         /\ DOMAIN chat' = DOMAIN chat \cup {Len(chat) + 1} /\ Len(chat) + 1 \notin DOMAIN chat
         /\ \A m \in DOMAIN chat : chat'[m] = chat[m]
         /\ chat'[Len(chat) + 1] = e
<1>1. /\ chat' \in Seq(Entries) /\ Len(chat') = Len(chat) + 1 /\ Len(chat) \in Nat
      /\ \A m \in 1 .. Len(chat) : chat'[m] = chat[m]
      /\ chat'[Len(chat) + 1] = e
  OBVIOUS
<1>2. DOMAIN chat = 1 .. Len(chat) /\ DOMAIN chat' = 1 .. Len(chat')
  BY <1>1
<1> QED BY <1>1, <1>2

\* The link starts with an empty chat.
LEMMA ChatStarts ==
  ASSUME ServicesInit
  PROVE  EchoInv
<1>1. WhatsApp!Init
  BY DEF ServicesInit
<1>2. /\ now = 0 /\ life = 1 /\ posting = {} /\ chat = <<>> /\ written = 0
      /\ recent = [t \in Texts |-> WhatsApp!Never] /\ uses = [t \in Texts |-> 0]
      /\ pages = [y \in Polls |-> {}] /\ handled = [m \in WhatsApp!Messages |-> WhatsApp!Never]
  BY <1>1 DEF WhatsApp!Init
<1>3. WhatsApp!Never \in Int /\ MaxMessages \in Nat
  BY ServicesAssumption DEF WhatsApp!Never, WhatsApp!WhatsAppAssumption
<1>4. chat \in Seq(Entries) /\ Len(chat) = 0 /\ DOMAIN chat = {}
  BY <1>2
<1>5. IsFiniteSet(posting) /\ Cardinality(posting) = 0
  BY <1>2, FS_EmptySet
<1>6. recent \in [Texts -> Int] /\ uses \in [Texts -> Nat] /\ pages \in [Polls -> SUBSET DOMAIN chat]
  BY <1>2, <1>3
<1>7. handled \in [WhatsApp!Messages -> Int]
  BY <1>2, <1>3
<1>8. ChatTyped
  BY <1>2, <1>3, <1>4, <1>5, <1>6, <1>7 DEF ChatTyped
<1>9. IsCounted
  BY <1>2, <1>4 DEF IsCounted
<1> QED BY <1>2, <1>4, <1>8, <1>9 DEF EchoInv

\* A text more is written.
LEMMA WritingCounts ==
  ASSUME EchoInv, NEW t \in Texts, WhatsApp!Writes(t)
  PROVE  /\ written' \in Nat /\ written' = written + 1 /\ written' <= MaxMessages
         /\ uses' \in [Texts -> Nat] /\ uses'[t] = uses[t] + 1
         /\ \A u \in Texts : u # t => uses'[u] = uses[u]
<1>1. uses \in [Texts -> Nat] /\ written \in Nat /\ MaxMessages \in Nat
  BY ServicesAssumption DEF EchoInv, ChatTyped, WhatsApp!WhatsAppAssumption
<1>2. written < MaxMessages /\ written' = written + 1 /\ uses' = [uses EXCEPT ![t] = @ + 1]
  BY DEF WhatsApp!Writes
<1>3. uses' \in [Texts -> Nat]
  BY <1>1, <1>2
<1>4. uses'[t] = uses[t] + 1 /\ \A u \in Texts : u # t => uses'[u] = uses[u]
  BY <1>1, <1>2
<1>5. written' \in Nat /\ written' <= MaxMessages
  BY <1>1, <1>2
<1> QED BY <1>2, <1>3, <1>4, <1>5

\* A text that is sent is remembered from then on, and others longer than they count.
LEMMA SendKeeps ==
  ASSUME EchoInv, NEW t \in Texts, WhatsApp!Send(t)
  PROVE  EchoInv'
<1> DEFINE e == [text |-> t, asked |-> now, life |-> life, n |-> uses[t]]
<1>1. ChatTyped /\ (\A s \in posting : IsPending(s)) /\ (\A m \in DOMAIN chat : IsTold(m)) /\ IsCounted
      /\ (\A m \in WhatsApp!Messages \ DOMAIN chat : handled[m] = WhatsApp!Never)
  BY DEF EchoInv
<1>2. /\ now \in Nat /\ life \in Nat /\ written \in Nat /\ KeptFor \in Nat
      /\ posting \subseteq Postings /\ IsFiniteSet(posting) /\ recent \in [Texts -> Int]
      /\ chat \in Seq(Entries) /\ Len(chat) + Cardinality(posting) <= written
      /\ uses \in [Texts -> Nat]
  BY <1>1, ServicesAssumption DEF ChatTyped, WhatsApp!WhatsAppAssumption
<1>3. /\ WhatsApp!Writes(t) /\ posting' = posting \cup {e}
      /\ UNCHANGED <<now, life, chat, seen, lastSeen, pages, handled>>
      /\ recent' = [u \in Texts |->
           IF [recent EXCEPT ![t] = now][u] < now - KeptFor THEN WhatsApp!Never
           ELSE [recent EXCEPT ![t] = now][u]]
  BY DEF WhatsApp!Send, WhatsApp!Pruned
<1>4. /\ written' \in Nat /\ written' = written + 1 /\ written' <= MaxMessages
      /\ uses' \in [Texts -> Nat] /\ uses'[t] = uses[t] + 1
      /\ \A u \in Texts : u # t => uses'[u] = uses[u]
  BY <1>3, WritingCounts
<1>5. e \in Postings /\ e.text = t /\ e.asked = now /\ e.life = life
  BY <1>2 DEF Postings
<1> HIDE DEF e
<1>6. recent' \in [Texts -> Int] /\ recent'[t] = now
  <2>1. WhatsApp!Never \in Int
    BY DEF WhatsApp!Never
  <2>2. recent' \in [Texts -> Int]
    BY <1>2, <1>3, <2>1
  <2>3. ~ now < now - KeptFor
    BY <1>2
  <2>4. recent'[t] = now
    BY <1>2, <1>3, <2>3
  <2> QED BY <2>2, <2>4
<1>7. ASSUME NEW u \in Texts, NEW a \in Nat, u # t, Remembered(u, a)
      PROVE  Remembered(u, a)'
  <2>1. recent'[u] = IF recent[u] < now - KeptFor THEN WhatsApp!Never ELSE recent[u]
    BY <1>2, <1>3, <1>7
  <2> QED BY <1>2, <1>3, <1>7, <2>1 DEF Remembered
<1>8. ChatTyped'
  <2>1. IsFiniteSet(posting')
    BY <1>2, <1>3, FS_AddElement
  <2>2. Cardinality(posting') <= Cardinality(posting) + 1 /\ Cardinality(posting') \in Nat
        /\ Cardinality(posting) \in Nat /\ Len(chat) \in Nat
    <3>1. Cardinality(posting) \in Nat /\ Cardinality(posting') \in Nat
      BY <1>2, <2>1, FS_CardinalityType
    <3>2. Cardinality(posting') = IF e \in posting THEN Cardinality(posting) ELSE Cardinality(posting) + 1
      BY <1>2, <1>3, FS_AddElement
    <3>3. Len(chat) \in Nat
      BY <1>2
    <3> QED BY <3>1, <3>2, <3>3
  <2>3. Len(chat') + Cardinality(posting') <= written'
    BY <1>2, <1>3, <1>4, <2>2
  <2>4. posting' \subseteq Postings
    BY <1>2, <1>3, <1>5
  <2> QED BY <1>1, <1>3, <1>4, <1>6, <2>1, <2>3, <2>4 DEF ChatTyped
<1>9. ASSUME NEW s \in posting'
      PROVE  IsPending(s)'
  <2>1. CASE s = e
    BY <1>2, <1>3, <1>4, <1>5, <1>6, <2>1 DEF IsPending, Remembered
  <2>2. CASE s \in posting /\ s.text # t
    <3>1. s.text \in Texts /\ s.asked \in Nat /\ IsPending(s)
      BY <1>1, <1>2, <2>2 DEF Postings
    <3> QED BY <1>3, <1>4, <1>7, <2>2, <3>1 DEF IsPending
  <2>3. CASE s \in posting /\ s.text = t
    <3>1. IsPending(s) /\ uses'[s.text] > 1
      BY <1>1, <1>2, <1>4, <2>3 DEF IsPending
    <3> QED BY <1>2, <1>3, <1>4, <2>3, <3>1 DEF IsPending
  <2> QED BY <1>3, <1>9, <2>1, <2>2, <2>3
<1>10. ASSUME NEW m \in DOMAIN chat
       PROVE  IsTold(m)'
  <2>1. chat[m] \in Entries
    BY <1>2, <1>10
  <2>2. chat[m].text \in Texts /\ chat[m].asked \in Nat /\ IsTold(m)
    BY <1>1, <1>10, <2>1 DEF Entries
  <2>3. CASE chat[m].text # t
    BY <1>3, <1>4, <1>7, <2>2, <2>3 DEF IsTold
  <2>4. CASE chat[m].text = t
    <3>1. uses'[chat[m].text] > 1
      BY <1>2, <1>4, <2>2, <2>4 DEF IsTold
    <3> QED BY <1>2, <1>3, <1>4, <2>2, <2>4, <3>1 DEF IsTold
  <2> QED BY <2>3, <2>4
<1>11. IsCounted'
  <2>1. ASSUME NEW s \in posting, s.text = t
        PROVE  uses'[t] > 1
    BY <1>1, <1>2, <1>4, <2>1 DEF IsPending
  <2>2. ASSUME NEW m \in DOMAIN chat, chat[m].text = t
        PROVE  uses'[t] > 1
    BY <1>1, <1>2, <1>4, <2>2 DEF IsTold
  <2>3. \A s \in posting : s.text \in Texts
    BY <1>2 DEF Postings
  <2>4. \A m \in DOMAIN chat : chat[m].text \in Texts
    <3>1. \A m \in DOMAIN chat : chat[m] \in Entries
      BY <1>2
    <3> QED BY <3>1 DEF Entries
  <2>5. \A r, s \in posting' : r.text = s.text /\ uses'[s.text] <= 1 => r = s
    <3>1. ASSUME NEW r \in posting', NEW s \in posting', r.text = s.text, uses'[s.text] <= 1
          PROVE  r = s
      <4>1. CASE s.text = t
        <5>1. r \notin posting /\ s \notin posting
          BY <1>4, <2>1, <3>1, <4>1
        <5> QED BY <1>3, <5>1
      <4>2. CASE s.text # t
        BY <1>1, <1>3, <1>4, <1>5, <2>3, <3>1, <4>2 DEF IsCounted
      <4> QED BY <4>1, <4>2
    <3> QED BY <3>1
  <2>6. \A s \in posting', m \in DOMAIN chat : s.text = chat[m].text => uses'[s.text] > 1
    <3>1. ASSUME NEW s \in posting', NEW m \in DOMAIN chat, s.text = chat[m].text
          PROVE  uses'[s.text] > 1
      <4>1. CASE s.text = t
        BY <2>2, <3>1, <4>1
      <4>2. CASE s.text # t
        BY <1>1, <1>3, <1>4, <1>5, <2>3, <3>1, <4>2 DEF IsCounted
      <4> QED BY <4>1, <4>2
    <3> QED BY <3>1
  <2>7. \A m, n \in DOMAIN chat : chat[m].text = chat[n].text /\ uses'[chat[m].text] <= 1 => m = n
    <3>1. ASSUME NEW m \in DOMAIN chat, NEW n \in DOMAIN chat, chat[m].text = chat[n].text,
                 uses'[chat[m].text] <= 1
          PROVE  m = n
      <4>1. chat[m].text # t
        BY <1>4, <2>2, <3>1
      <4> QED BY <1>1, <1>4, <2>4, <3>1, <4>1 DEF IsCounted
    <3> QED BY <3>1
  <2> QED BY <1>3, <2>5, <2>6, <2>7 DEF IsCounted
<1> QED BY <1>1, <1>3, <1>8, <1>9, <1>10, <1>11 DEF EchoInv

\* A message that appears was on its way: what was said of it then is said of it now.
LEMMA PostedKeeps ==
  ASSUME EchoInv, NEW s \in posting, WhatsApp!Posted(s)
  PROVE  EchoInv'
<1> DEFINE l == Len(chat) + 1
           e == [mine |-> TRUE, text |-> s.text, asked |-> s.asked, life |-> s.life, at |-> now,
                 polled |-> TRUE]
<1>1. ChatTyped /\ (\A r \in posting : IsPending(r)) /\ (\A m \in DOMAIN chat : IsTold(m)) /\ IsCounted
      /\ (\A m \in WhatsApp!Messages \ DOMAIN chat : handled[m] = WhatsApp!Never)
  BY DEF EchoInv
<1>2. /\ now \in Nat /\ life \in Nat /\ written \in Nat /\ MaxMessages \in Nat
      /\ posting \subseteq Postings /\ IsFiniteSet(posting)
      /\ chat \in Seq(Entries) /\ Len(chat) + Cardinality(posting) <= written /\ written <= MaxMessages
      /\ uses \in [Texts -> Nat] /\ pages \in [Polls -> SUBSET DOMAIN chat]
  BY <1>1, ServicesAssumption DEF ChatTyped, WhatsApp!WhatsAppAssumption
<1>3. /\ posting' = posting \ {s} /\ chat' = Append(chat, e)
      /\ UNCHANGED <<now, life, recent, seen, lastSeen, pages, handled, uses, written>>
  BY DEF WhatsApp!Posted
<1>4. /\ s.text \in Texts /\ s.asked \in Nat /\ s.life \in Nat
  BY <1>2 DEF Postings
<1>5. /\ e \in Entries /\ e.mine /\ e.text = s.text /\ e.asked = s.asked /\ e.life = s.life /\ e.at = now
  BY <1>2, <1>4 DEF Entries
<1> HIDE DEF e
<1>6. /\ chat' \in Seq(Entries) /\ Len(chat') = l /\ Len(chat) \in Nat
      /\ DOMAIN chat = 1 .. Len(chat) /\ DOMAIN chat' = 1 .. l
      /\ DOMAIN chat' = DOMAIN chat \cup {l} /\ l \notin DOMAIN chat
      /\ \A m \in DOMAIN chat : chat'[m] = chat[m]
      /\ chat'[l] = e
  BY <1>2, <1>3, <1>5, ChatGrows
<1>7. /\ IsFiniteSet(posting') /\ Cardinality(posting') = Cardinality(posting) - 1
      /\ Cardinality(posting) \in Nat /\ Cardinality(posting') \in Nat
  <2>1. IsFiniteSet(posting') /\ Cardinality(posting') = Cardinality(posting) - 1
    BY <1>2, <1>3, FS_RemoveElement
  <2> QED BY <1>2, <2>1, FS_CardinalityType
<1>8. l \in WhatsApp!Messages /\ l \in Nat
  BY <1>2, <1>6, <1>7 DEF WhatsApp!Messages
<1>9. ChatTyped'
  <2>1. Len(chat') + Cardinality(posting') <= written'
    BY <1>2, <1>3, <1>6, <1>7
  <2>2. pages' \in [Polls -> SUBSET DOMAIN chat'] /\ posting' \subseteq Postings
    BY <1>2, <1>3, <1>6
  <2> QED BY <1>1, <1>3, <1>6, <1>7, <2>1, <2>2 DEF ChatTyped
<1>10. \A r \in posting' : IsPending(r)'
  BY <1>1, <1>3 DEF IsPending, Remembered
<1>11. ASSUME NEW m \in DOMAIN chat'
       PROVE  IsTold(m)'
  <2>1. CASE m \in DOMAIN chat
    <3>1. IsTold(m) /\ chat'[m] = chat[m]
      BY <1>1, <1>6, <2>1
    <3> QED BY <1>3, <3>1 DEF IsTold, Remembered
  <2>2. CASE m = l
    <3>1. handled[m] = WhatsApp!Never /\ IsPending(s) /\ chat'[m] = e
      BY <1>1, <1>6, <1>8, <2>2
    <3>2. s.asked <= now /\ s.life <= life /\ uses[s.text] >= 1 /\ uses[s.text] \in Nat
      BY <1>2, <1>4, <3>1 DEF IsPending
    <3>3. uses[s.text] > 1 \/ s.life < life \/ Remembered(s.text, s.asked)
      BY <1>2, <1>4, <3>1, <3>2 DEF IsPending
    <3>4. Remembered(s.text, s.asked)' = Remembered(s.text, s.asked)
      BY <1>3 DEF Remembered
    <3> QED BY <1>3, <1>5, <3>1, <3>2, <3>3, <3>4 DEF IsTold, Remembered
  <2> QED BY <1>6, <1>11, <2>1, <2>2
<1>12. IsCounted'
  <2>1. \A m \in DOMAIN chat : chat[m].text = s.text => uses[s.text] > 1
    BY <1>1 DEF IsCounted
  <2>2. \A r \in posting : r.text = s.text => r = s \/ uses[s.text] > 1
    <3>1. uses[s.text] \in Nat
      BY <1>2, <1>4
    <3> QED BY <1>1, <3>1 DEF IsCounted
  <2>3. \A r, t \in posting' : r.text = t.text /\ uses'[t.text] <= 1 => r = t
    BY <1>1, <1>3 DEF IsCounted
  <2>4. ASSUME NEW r \in posting', NEW m \in DOMAIN chat', r.text = chat'[m].text
        PROVE  uses'[r.text] > 1
    BY <1>1, <1>3, <1>5, <1>6, <2>2, <2>4 DEF IsCounted
  <2>5. ASSUME NEW m \in DOMAIN chat', NEW n \in DOMAIN chat', chat'[m].text = chat'[n].text,
               uses'[chat'[m].text] <= 1
        PROVE  m = n
    <3>1. CASE m \in DOMAIN chat /\ n \in DOMAIN chat
      BY <1>1, <1>3, <1>6, <2>5, <3>1 DEF IsCounted
    <3>2. CASE m = l /\ n \in DOMAIN chat
      <4>1. uses[s.text] > 1 /\ uses[s.text] <= 1
        BY <1>3, <1>5, <1>6, <2>1, <2>5, <3>2
      <4> QED BY <1>2, <1>4, <4>1
    <3>3. CASE n = l /\ m \in DOMAIN chat
      <4>1. uses[s.text] > 1 /\ uses[s.text] <= 1
        BY <1>3, <1>5, <1>6, <2>1, <2>5, <3>3
      <4> QED BY <1>2, <1>4, <4>1
    <3> QED BY <1>6, <2>5, <3>1, <3>2, <3>3
  <2> QED BY <2>3, <2>4, <2>5 DEF IsCounted
<1>13. \A m \in WhatsApp!Messages \ DOMAIN chat' : handled'[m] = WhatsApp!Never
  BY <1>1, <1>3, <1>6
<1> QED BY <1>9, <1>10, <1>11, <1>12, <1>13 DEF EchoInv

\* A person who writes the text of another message makes it one that cannot be told.
LEMMA PersonKeeps ==
  ASSUME EchoInv, NEW t \in Texts, NEW b \in BOOLEAN, WhatsApp!PersonWrites(t, b)
  PROVE  EchoInv'
<1> DEFINE l == Len(chat) + 1
           e == [mine |-> FALSE, text |-> t, asked |-> now, life |-> life, at |-> now, polled |-> b]
<1>1. ChatTyped /\ (\A s \in posting : IsPending(s)) /\ (\A m \in DOMAIN chat : IsTold(m)) /\ IsCounted
      /\ (\A m \in WhatsApp!Messages \ DOMAIN chat : handled[m] = WhatsApp!Never)
  BY DEF EchoInv
<1>2. /\ now \in Nat /\ life \in Nat /\ written \in Nat /\ posting \subseteq Postings
      /\ chat \in Seq(Entries) /\ Len(chat) + Cardinality(posting) <= written
      /\ IsFiniteSet(posting) /\ uses \in [Texts -> Nat] /\ pages \in [Polls -> SUBSET DOMAIN chat]
  BY <1>1 DEF ChatTyped
<1>3. /\ WhatsApp!Writes(t) /\ chat' = Append(chat, e)
      /\ UNCHANGED <<now, life, posting, recent, seen, lastSeen, pages, handled>>
  BY DEF WhatsApp!PersonWrites
<1>4. /\ written' \in Nat /\ written' = written + 1 /\ written' <= MaxMessages
      /\ uses' \in [Texts -> Nat] /\ uses'[t] = uses[t] + 1
      /\ \A u \in Texts : u # t => uses'[u] = uses[u]
  BY <1>3, WritingCounts
<1>5. e \in Entries /\ ~ e.mine /\ e.text = t
  BY <1>2 DEF Entries
<1> HIDE DEF e
<1>6. /\ chat' \in Seq(Entries) /\ Len(chat') = l /\ Len(chat) \in Nat
      /\ DOMAIN chat' = DOMAIN chat \cup {l} /\ l \notin DOMAIN chat
      /\ \A m \in DOMAIN chat : chat'[m] = chat[m]
      /\ chat'[l] = e
  BY <1>2, <1>3, <1>5, ChatGrows
<1>7. \A s \in posting : s.text \in Texts
  BY <1>2 DEF Postings
<1>8. \A m \in DOMAIN chat : chat[m].text \in Texts
  <2>1. \A m \in DOMAIN chat : chat[m] \in Entries
    BY <1>2
  <2> QED BY <2>1 DEF Entries
<1>9. \A u \in Texts : uses'[u] >= uses[u] /\ uses[u] \in Nat /\ uses'[u] \in Nat
  BY <1>2, <1>4
<1>10. ChatTyped'
  <2>1. Cardinality(posting) \in Nat
    BY <1>2, FS_CardinalityType
  <2>2. Len(chat') + Cardinality(posting') <= written'
    BY <1>2, <1>3, <1>4, <1>6, <2>1
  <2>3. pages' \in [Polls -> SUBSET DOMAIN chat']
    BY <1>2, <1>3, <1>6
  <2> QED BY <1>1, <1>3, <1>4, <1>6, <2>2, <2>3 DEF ChatTyped
<1>11. ASSUME NEW s \in posting
       PROVE  IsPending(s)'
  <2>1. IsPending(s) /\ uses'[s.text] >= uses[s.text] /\ uses[s.text] \in Nat /\ uses'[s.text] \in Nat
    BY <1>1, <1>7, <1>9, <1>11
  <2>2. Remembered(s.text, s.asked)' = Remembered(s.text, s.asked)
    BY <1>3 DEF Remembered
  <2> QED BY <1>3, <2>1, <2>2 DEF IsPending
<1>12. ASSUME NEW m \in DOMAIN chat'
       PROVE  IsTold(m)'
  <2>1. CASE m \in DOMAIN chat
    <3>1. /\ IsTold(m) /\ chat'[m] = chat[m] /\ uses[chat[m].text] \in Nat
          /\ uses'[chat[m].text] >= uses[chat[m].text] /\ uses'[chat[m].text] \in Nat
      BY <1>1, <1>6, <1>8, <1>9, <2>1
    <3>2. Remembered(chat[m].text, chat[m].asked) => Remembered(chat[m].text, chat[m].asked)'
      BY <1>3, <3>1 DEF Remembered
    <3> QED BY <1>3, <3>1, <3>2 DEF IsTold, Remembered
  <2>2. CASE m = l
    BY <1>4, <1>5, <1>6, <1>9, <2>2 DEF IsTold
  <2> QED BY <1>6, <1>12, <2>1, <2>2
<1>13. IsCounted'
  <2>1. ASSUME NEW s \in posting, s.text = t
        PROVE  uses'[t] > 1
    BY <1>1, <1>4, <1>9, <2>1 DEF IsPending
  <2>2. ASSUME NEW m \in DOMAIN chat, chat[m].text = t
        PROVE  uses'[t] > 1
    BY <1>1, <1>4, <1>9, <2>2 DEF IsTold
  <2>3. \A r, s \in posting' : r.text = s.text /\ uses'[s.text] <= 1 => r = s
    <3>1. ASSUME NEW r \in posting, NEW s \in posting, r.text = s.text, uses'[s.text] <= 1
          PROVE  uses[s.text] <= 1
      BY <1>7, <1>9, <3>1
    <3> QED BY <1>1, <1>3, <3>1 DEF IsCounted
  <2>4. ASSUME NEW s \in posting', NEW m \in DOMAIN chat', s.text = chat'[m].text
        PROVE  uses'[s.text] > 1
    <3>1. CASE m \in DOMAIN chat
      <4>1. uses[s.text] > 1
        BY <1>1, <1>3, <1>6, <2>4, <3>1 DEF IsCounted
      <4> QED BY <1>3, <1>7, <1>9, <2>4, <4>1
    <3>2. CASE m = l
      BY <1>3, <1>5, <1>6, <2>1, <2>4, <3>2
    <3> QED BY <1>6, <2>4, <3>1, <3>2
  <2>5. ASSUME NEW m \in DOMAIN chat', NEW n \in DOMAIN chat', chat'[m].text = chat'[n].text,
               uses'[chat'[m].text] <= 1
        PROVE  m = n
    <3>1. CASE m \in DOMAIN chat /\ n \in DOMAIN chat
      <4>1. uses[chat[m].text] <= 1 /\ chat[m].text = chat[n].text
        BY <1>6, <1>8, <1>9, <2>5, <3>1
      <4> QED BY <1>1, <3>1, <4>1 DEF IsCounted
    <3>2. CASE m = l /\ n \in DOMAIN chat
      <4>1. uses'[t] > 1 /\ uses'[t] <= 1
        BY <1>5, <1>6, <2>2, <2>5, <3>2
      <4> QED BY <1>9, <4>1
    <3>3. CASE n = l /\ m \in DOMAIN chat
      <4>1. uses'[t] > 1 /\ uses'[t] <= 1
        BY <1>5, <1>6, <2>2, <2>5, <3>3
      <4> QED BY <1>9, <4>1
    <3> QED BY <1>6, <2>5, <3>1, <3>2, <3>3
  <2> QED BY <2>3, <2>4, <2>5 DEF IsCounted
<1>14. \A m \in WhatsApp!Messages \ DOMAIN chat' : handled'[m] = WhatsApp!Never
  BY <1>1, <1>3, <1>6
<1> QED BY <1>3, <1>10, <1>11, <1>12, <1>13, <1>14 DEF EchoInv

\* The chat is within the bound of what is written.
LEMMA InTheBound ==
  ASSUME EchoInv
  PROVE  DOMAIN chat \subseteq WhatsApp!Messages
<1>1. /\ Cardinality(posting) \in Nat /\ Len(chat) + Cardinality(posting) <= written
      /\ written <= MaxMessages /\ written \in Nat /\ MaxMessages \in Nat
  BY FS_CardinalityType, ServicesAssumption DEF EchoInv, ChatTyped, WhatsApp!WhatsAppAssumption
<1>2. DOMAIN chat = 1 .. Len(chat) /\ Len(chat) \in Nat
  BY DEF EchoInv, ChatTyped
<1> QED BY <1>1, <1>2 DEF WhatsApp!Messages

\* A message of the chat is gone through: the text of an echo is remembered until then, or
\* is not the text of one message.
LEMMA IngestKeeps ==
  ASSUME EchoInv, NEW m \in DOMAIN chat, WhatsApp!Ingest(m), pages' \in [Polls -> SUBSET DOMAIN chat],
         UNCHANGED <<now, life, posting, chat, uses, written>>
  PROVE  EchoInv'
<1>1. ChatTyped /\ (\A s \in posting : IsPending(s)) /\ (\A k \in DOMAIN chat : IsTold(k)) /\ IsCounted
      /\ (\A k \in WhatsApp!Messages \ DOMAIN chat : handled[k] = WhatsApp!Never)
  BY DEF EchoInv
<1>2. /\ now \in Nat /\ life \in Nat /\ posting \subseteq Postings /\ chat \in Seq(Entries)
      /\ uses \in [Texts -> Nat] /\ recent \in [Texts -> Int] /\ handled \in [WhatsApp!Messages -> Int]
      /\ EchoWindow \in Nat /\ KeptFor \in Nat /\ WhatsApp!Never = -1
  BY <1>1, ServicesAssumption DEF ChatTyped, WhatsApp!WhatsAppAssumption, WhatsApp!Never
<1>3. \A k \in DOMAIN chat : /\ chat[k].text \in Texts /\ chat[k].asked \in Nat /\ chat[k].at \in Nat
                             /\ chat[k].life \in Nat /\ uses[chat[k].text] \in Nat
  <2>1. \A k \in DOMAIN chat : chat[k] \in Entries
    BY <1>2
  <2> QED BY <1>2, <2>1 DEF Entries
<1> DEFINE t == chat[m].text
<1>4. CASE m \in seen
  <2>1. UNCHANGED <<recent, seen, lastSeen, handled>>
    BY <1>4 DEF WhatsApp!Ingest
  <2>2. ChatTyped'
    BY <1>1, <2>1 DEF ChatTyped
  <2>3. \A s \in posting : IsPending(s)'
    BY <1>1, <2>1 DEF IsPending, Remembered
  <2>4. \A k \in DOMAIN chat : IsTold(k)'
    BY <1>1, <2>1 DEF IsTold, Remembered
  <2> QED BY <1>1, <2>1, <2>2, <2>3, <2>4 DEF EchoInv, IsCounted
<1>5. CASE m \notin seen
  <2>1. /\ seen' = seen \cup {m}
        /\ recent' = IF WhatsApp!IsEcho(m) THEN [recent EXCEPT ![t] = WhatsApp!Never] ELSE recent
        /\ handled' = handled \/ (handled' = [handled EXCEPT ![m] = now] /\ ~ WhatsApp!IsEcho(m))
    BY <1>5 DEF WhatsApp!Ingest
  <2>2. recent' \in [Texts -> Int] /\ handled' \in [WhatsApp!Messages -> Int]
        /\ \A u \in Texts : u # t => recent'[u] = recent[u]
    BY <1>2, <1>3, <2>1
  <2>3. ChatTyped'
    BY <1>1, <2>2 DEF ChatTyped
  <2>4. ASSUME NEW s \in posting
        PROVE  IsPending(s)'
    <3>1. IsPending(s) /\ s.text \in Texts /\ uses[s.text] \in Nat
      BY <1>1, <1>2, <2>4 DEF Postings
    <3>2. s.text = t => uses[s.text] > 1
      BY <1>1, <2>4 DEF IsCounted
    <3>3. s.text # t /\ Remembered(s.text, s.asked) => Remembered(s.text, s.asked)'
      BY <2>2, <3>1 DEF Remembered
    <3> QED BY <3>1, <3>2, <3>3 DEF IsPending
  <2>5. ASSUME NEW k \in DOMAIN chat, k # m
        PROVE  IsTold(k)'
    <3>1. IsTold(k) /\ chat[k].text \in Texts /\ uses[chat[k].text] \in Nat
      BY <1>1, <1>3, <2>5
    <3>2. chat[k].text = t => uses[chat[k].text] > 1
      BY <1>1, <2>5, <3>1 DEF IsCounted
    <3>3. chat[k].text # t /\ Remembered(chat[k].text, chat[k].asked) => Remembered(chat[k].text, chat[k].asked)'
      BY <2>2, <3>1 DEF Remembered
    <3>4. handled'[k] = handled[k]
      <4>1. k \in WhatsApp!Messages
        BY <2>5, InTheBound
      <4> QED BY <1>2, <2>1, <2>5, <4>1
    <3>5. k \in seen => k \in seen'
      BY <2>1
    <3> QED BY <3>1, <3>2, <3>3, <3>4, <3>5 DEF IsTold, Remembered
  <2>6. IsTold(m)'
    <3>1. IsTold(m) /\ m \in seen'
      BY <1>1, <2>1
    <3>2. CASE handled' = handled
      BY <3>1, <3>2 DEF IsTold
    <3>3. CASE handled' = [handled EXCEPT ![m] = now] /\ ~ WhatsApp!IsEcho(m)
      <4>1. CASE ~ chat[m].mine
        BY <3>1, <4>1 DEF IsTold
      <4>2. CASE chat[m].mine
        <5>1. m \in WhatsApp!Messages => handled'[m] = now
          BY <1>2, <3>3
        <5>2. m \in WhatsApp!Messages
          BY InTheBound
        <5>3. ASSUME ~ uses[t] > 1, ~ chat[m].at - chat[m].asked >= EchoWindow, ~ chat[m].life < life
              PROVE  now - chat[m].asked > KeptFor
          <6>1. Remembered(t, chat[m].asked) /\ chat[m].asked <= chat[m].at
            BY <1>5, <3>1, <4>2, <5>3 DEF IsTold
          <6>2. recent[t] # chat[m].asked
            <7>1. chat[m].at - chat[m].asked \in (1 - EchoWindow) .. (EchoWindow - 1)
              BY <1>2, <1>3, <5>3, <6>1
            <7>2. chat[m].asked # WhatsApp!Never
              BY <1>2, <1>3
            <7> QED BY <3>3, <7>1, <7>2 DEF WhatsApp!IsEcho
          <6> QED BY <6>1, <6>2 DEF Remembered
        <5> QED BY <3>1, <4>2, <5>1, <5>2, <5>3 DEF IsTold
      <4> QED BY <4>1, <4>2
    <3> QED BY <2>1, <3>2, <3>3
  <2>7. \A k \in WhatsApp!Messages \ DOMAIN chat : handled'[k] = WhatsApp!Never
    BY <1>1, <1>2, <2>1
  <2>8. \A k \in DOMAIN chat : IsTold(k)'
    BY <2>5, <2>6
  <2> QED BY <1>1, <2>3, <2>4, <2>7, <2>8 DEF EchoInv, IsCounted
<1> QED BY <1>4, <1>5

\* The steps that neither write nor go through a message.
LEMMA ChatRests ==
  ASSUME EchoInv, posting' \subseteq posting,
         UNCHANGED <<chat, handled, uses, written>>, pages' \in [Polls -> SUBSET DOMAIN chat],
         now' \in Nat, life' \in Nat, now' >= now,
         \/ life' = life /\ seen' = seen /\ recent' = recent
         \/ life' = life + 1 /\ recent' \in [Texts -> Int]
  PROVE  EchoInv'
<1>1. ChatTyped /\ (\A s \in posting : IsPending(s)) /\ (\A m \in DOMAIN chat : IsTold(m)) /\ IsCounted
      /\ (\A m \in WhatsApp!Messages \ DOMAIN chat : handled[m] = WhatsApp!Never)
  BY DEF EchoInv
<1>2. /\ now \in Nat /\ life \in Nat /\ written \in Nat /\ posting \subseteq Postings /\ IsFiniteSet(posting)
      /\ chat \in Seq(Entries) /\ Len(chat) + Cardinality(posting) <= written
      /\ KeptFor \in Nat /\ recent \in [Texts -> Int]
  BY <1>1, ServicesAssumption DEF ChatTyped, WhatsApp!WhatsAppAssumption
<1>3. /\ IsFiniteSet(posting') /\ Cardinality(posting') <= Cardinality(posting)
      /\ Cardinality(posting') \in Nat /\ Cardinality(posting) \in Nat
  <2>1. posting' \in SUBSET posting
    OBVIOUS
  <2>2. IsFiniteSet(posting') /\ Cardinality(posting') <= Cardinality(posting)
    BY <1>2, <2>1, FS_Subset
  <2> QED BY <1>2, <2>2, FS_CardinalityType
<1>4. ChatTyped'
  <2>1. Len(chat') + Cardinality(posting') <= written' /\ Len(chat) \in Nat
    BY <1>2, <1>3
  <2>2. posting' \subseteq Postings /\ recent' \in [Texts -> Int]
    BY <1>2
  <2> QED BY <1>1, <1>3, <2>1, <2>2 DEF ChatTyped
<1>5. ASSUME NEW t, NEW a \in Nat, recent' = recent, Remembered(t, a)
      PROVE  Remembered(t, a)'
  <2>1. CASE recent[t] = a
    BY <1>5, <2>1 DEF Remembered
  <2>2. CASE now - a > KeptFor
    <3>1. \A j, k, l, n \in Nat : k >= j /\ j - l > n => k - l > n
      OBVIOUS
    <3>2. now \in Nat /\ KeptFor \in Nat /\ now' \in Nat /\ now' >= now
      BY <1>2
    <3>3. now' - a > KeptFor
      BY <1>5, <2>2, <3>1, <3>2
    <3> QED BY <3>3 DEF Remembered
  <2> QED BY <1>5, <2>1, <2>2 DEF Remembered
<1>6. ASSUME NEW s \in posting'
      PROVE  IsPending(s)'
  <2>1. IsPending(s) /\ s.asked \in Nat /\ s.life \in Nat
    BY <1>1, <1>2, <1>6 DEF Postings
  <2>2. s.asked <= now' /\ s.life <= life' /\ (s.life = life' => s.life = life /\ recent' = recent)
    BY <1>2, <2>1 DEF IsPending
  <2> QED BY <1>5, <2>1, <2>2 DEF IsPending
<1>7. ASSUME NEW m \in DOMAIN chat
      PROVE  IsTold(m)'
  <2>1. chat[m] \in Entries
    BY <1>2, <1>7
  <2>2. IsTold(m) /\ chat[m].asked \in Nat /\ chat[m].life \in Nat
    BY <1>1, <1>7, <2>1 DEF Entries
  <2>3. CASE life' = life /\ seen' = seen /\ recent' = recent
    BY <1>5, <2>2, <2>3 DEF IsTold
  <2>4. CASE life' = life + 1
    <3>1. chat[m].mine => chat[m].life < life'
      BY <1>2, <2>2, <2>4 DEF IsTold
    <3> QED BY <1>2, <2>2, <2>4, <3>1 DEF IsTold
  <2> QED BY <2>3, <2>4
<1>8. IsCounted'
  BY <1>1 DEF IsCounted
<1> QED BY <1>1, <1>4, <1>6, <1>7, <1>8 DEF EchoInv

\* Every step of the link keeps what is known of its messages.
LEMMA EchoKeeps ==
  ASSUME EchoInv, [WhatsApp!WhatsAppNext]_whatsappVars
  PROVE  EchoInv'
<1>1. /\ now \in Nat /\ life \in Nat /\ pages \in [Polls -> SUBSET DOMAIN chat] /\ recent \in [Texts -> Int]
  BY DEF EchoInv, ChatTyped
<1>2. CASE UNCHANGED whatsappVars
  BY <1>1, <1>2, ChatRests DEF whatsappVars
<1>3. CASE WhatsApp!Tick
  BY <1>1, <1>3, ChatRests DEF WhatsApp!Tick
<1>4. CASE WhatsApp!Reconnect
  <2>1. /\ life' = life + 1 /\ recent' = [t \in Texts |-> WhatsApp!Never] /\ pages' = [y \in Polls |-> {}]
        /\ UNCHANGED <<now, posting, chat, handled, uses, written>>
    BY <1>4 DEF WhatsApp!Reconnect
  <2>2. recent' \in [Texts -> Int] /\ pages' \in [Polls -> SUBSET DOMAIN chat]
    BY <2>1 DEF WhatsApp!Never
  <2>3. life' \in Nat /\ now' \in Nat /\ now' >= now
    BY <1>1, <2>1
  <2> QED BY <2>1, <2>2, <2>3, ChatRests
<1>5. ASSUME NEW s \in posting, WhatsApp!SendFails(s)
      PROVE  EchoInv'
  <2>1. posting' \subseteq posting
        /\ UNCHANGED <<now, life, chat, recent, seen, lastSeen, pages, handled, uses, written>>
    BY <1>5 DEF WhatsApp!SendFails
  <2>2. now' \in Nat /\ now' >= now
    BY <1>1, <2>1
  <2> QED BY <1>1, <2>1, <2>2, ChatRests
<1>6. ASSUME NEW m \in WhatsApp!Messages, WhatsApp!Event(m)
      PROVE  EchoInv'
  BY <1>1, <1>6, IngestKeeps DEF WhatsApp!Event
<1>7. ASSUME NEW y \in Polls, WhatsApp!Poll(y)
      PROVE  EchoInv'
  <2> DEFINE W == {m \in WhatsApp!Polled :
                     WhatsApp!Cardinality({n \in WhatsApp!Polled : n > m}) < Page}
  <2>1. /\ pages' = [pages EXCEPT ![y] = W]
        /\ UNCHANGED <<now, life, posting, chat, recent, seen, lastSeen, handled, uses, written>>
    BY <1>7 DEF WhatsApp!Poll
  <2>2. W \subseteq DOMAIN chat
    BY DEF WhatsApp!Polled
  <2> HIDE DEF W
  <2>3. pages' \in [Polls -> SUBSET DOMAIN chat]
    BY <1>1, <2>1, <2>2
  <2>4. now' \in Nat /\ now' >= now
    BY <1>1, <2>1
  <2> QED BY <1>1, <2>1, <2>3, <2>4, ChatRests
<1>8. ASSUME NEW y \in Polls, WhatsApp!PollIngests(y)
      PROVE  EchoInv'
  <2>1. PICK m \in pages[y] : /\ WhatsApp!Ingest(m) /\ pages' = [pages EXCEPT ![y] = @ \ {m}]
                              /\ UNCHANGED <<now, life, posting, chat, uses, written>>
    BY <1>8 DEF WhatsApp!PollIngests
  <2>2. m \in DOMAIN chat
    BY <1>1, <1>8, <2>1
  <2>3. pages' \in [Polls -> SUBSET DOMAIN chat]
    BY <1>1, <1>8, <2>1
  <2> QED BY <2>1, <2>2, <2>3, IngestKeeps
<1>9. ASSUME NEW y \in Polls, WhatsApp!PollFails(y)
      PROVE  EchoInv'
  <2>1. /\ pages' = [pages EXCEPT ![y] = {}]
        /\ UNCHANGED <<now, life, posting, chat, recent, seen, lastSeen, handled, uses, written>>
    BY <1>9 DEF WhatsApp!PollFails
  <2>2. pages' \in [Polls -> SUBSET DOMAIN chat] /\ now' \in Nat /\ now' >= now
    BY <1>1, <2>1
  <2> QED BY <1>1, <2>1, <2>2, ChatRests
<1> QED BY <1>2, <1>3, <1>4, <1>5, <1>6, <1>7, <1>8, <1>9, SendKeeps, PostedKeeps, PersonKeeps
        DEF WhatsApp!WhatsAppNext

\* ... in every behaviour of the services.
LEMMA EchoInductive == ServicesSpec => []EchoInv
<1>1. EchoInv /\ [ServicesNext]_servicesVars => EchoInv'
  BY EchoKeeps, EachTakesItsSteps
<1> QED BY <1>1, ChatStarts, PTL DEF ServicesSpec

\* What Dark Kitchen wrote into the chat is not taken for an answer of the person, unless the
\* text and the time cannot tell (whatsapp-adapter.ts send, pruneRecentlySent, ingestMessage).
THEOREM EchoesAreTold == ServicesSpec => []EchoesAreNotReplies
<1>1. ASSUME EchoInv
      PROVE  EchoesAreNotReplies
  <2>1. \A m \in DOMAIN chat : IsTold(m)
    BY <1>1 DEF EchoInv
  <2> QED BY <2>1 DEF EchoesAreNotReplies, WhatsApp!EchoesAreNotReplies, IsTold
<1> QED BY <1>1, EchoInductive, PTL

(***************************************************************************)
(* TaskTrackers                                                            *)
(***************************************************************************)

\* Sizes and finite sets of a module of the services are those known here.
LEMMA SizesAreSizes == \A S : Trackers!Cardinality(S) = Cardinality(S)
BY DEF Cardinality, Trackers!Cardinality

\* ... and so is what it calls finite.
LEMMA FiniteIsFinite == \A S : Trackers!IsFiniteSet(S) <=> IsFiniteSet(S)
BY DEF IsFiniteSet, Trackers!IsFiniteSet

SiteRecords ==
  [there : BOOLEAN, open : BOOLEAN, labels : SUBSET Trackers!Labels, column : Trackers!Columns]
AskFields ==
  [op : Trackers!Ops \cup {"none"}, at : Trackers!Ats, task : Issues \cup {0}, on : Issues \cup {0},
   status : Trackers!Columns, labels : SUBSET Trackers!Labels, seen : SUBSET Trackers!Edges,
   listed : SUBSET Issues]

\* Only a call on an issue, of its status, reads that issue first.
AskRecords ==
  {r \in AskFields : r.at = "reading" => r.task \in Issues /\ r.op \notin {"add", "remove"}}

TrackersTyped ==
  /\ provider \in Trackers!Providers /\ edges \subseteq Trackers!Edges
  /\ site \in [Issues -> SiteRecords] /\ asks \in [Calls -> AskRecords]
  /\ crossed \in BOOLEAN /\ forgotten \in BOOLEAN

There == {i \in Issues : site[i].there}

\* Why a cycle may escape the adapter.
Blind == crossed \/ forgotten \/ (provider = "github" /\ Cardinality(There) > PageSize)

\* A dependency that is being added is one of issues that are there.
IsAdding(c) ==
  Trackers!InFlight(c) /\ asks[c].op = "add" =>
    /\ asks[c].task \in There /\ asks[c].on \in Issues

\* It was checked against all there are: GitHub's are seen one after the other.
IsSure(c) ==
  Trackers!InFlight(c) /\ asks[c].op = "add" =>
    /\ provider = "github" /\ asks[c].at = "loading" =>
         \A e \in edges : e[1] \in asks[c].listed \/ e \in asks[c].seen
    /\ provider # "github" \/ asks[c].at \in {"looking", "asking", "writing"} =>
         ~ Trackers!WouldCreateCycle(edges, asks[c].task, asks[c].on)

TrackerInv ==
  /\ TrackersTyped
  /\ \A e \in edges : e[1] \in There
  /\ \A c \in Calls : IsAdding(c)
  /\ ~ crossed => \A c, d \in Calls : Trackers!Depending(c) /\ Trackers!Depending(d) => c = d
  /\ ~ forgotten /\ provider # "github" => edges \subseteq known
  /\ ~ Blind => ~ Trackers!Cyclic /\ \A c \in Calls : IsSure(c)

\* A dependency on what does not come back to the task closes no circle: the issues of the
\* circle that can be reached from there would be in one already.
LEMMA NoNewCircle ==
  ASSUME NEW graph, NEW i, NEW d, ~ Trackers!WaitsInCircle(graph), ~ Trackers!WouldCreateCycle(graph, i, d)
  PROVE  ~ Trackers!WaitsInCircle(graph \cup {<<i, d>>})
<1>1. PICK R \in SUBSET Issues : d \in R /\ Trackers!Closed(R, graph) /\ i \notin R
  BY DEF Trackers!WouldCreateCycle
<1>2. ASSUME NEW S \in SUBSET Issues, S # {},
             \A x \in S : \E y \in S : <<x, y>> \in graph \cup {<<i, d>>}
      PROVE  FALSE
  <2>1. PICK x \in S : \A y \in S : <<x, y>> \notin graph
    BY <1>2 DEF Trackers!WaitsInCircle
  <2>2. x = i /\ d \in S
    BY <1>2, <2>1
  <2> DEFINE T == S \cap R
  <2>3. T \in (SUBSET Issues) \ {{}}
    BY <1>1, <2>2
  <2>4. ASSUME NEW z \in T
        PROVE  \E y \in T : <<z, y>> \in graph
    <3>1. z # i /\ z \in S /\ z \in R
      BY <1>1, <2>4
    <3>2. PICK y \in S : <<z, y>> \in graph
      BY <1>2, <3>1
    <3>3. y \in R
      BY <1>1, <3>1, <3>2 DEF Trackers!Closed
    <3> QED BY <3>2, <3>3
  <2> HIDE DEF T
  <2> QED BY <2>3, <2>4 DEF Trackers!WaitsInCircle
<1> QED BY <1>2 DEF Trackers!WaitsInCircle

\* With less dependencies there are no more circles, and what was checked against more holds.
LEMMA FewerCircles ==
  ASSUME NEW graph, NEW more, graph \subseteq more
  PROVE  /\ Trackers!WaitsInCircle(graph) => Trackers!WaitsInCircle(more)
         /\ \A i, d : Trackers!WouldCreateCycle(graph, i, d) => Trackers!WouldCreateCycle(more, i, d)
<1>1. Trackers!WaitsInCircle(graph) => Trackers!WaitsInCircle(more)
  BY DEF Trackers!WaitsInCircle
<1>2. \A S : Trackers!Closed(S, more) => Trackers!Closed(S, graph)
  BY DEF Trackers!Closed
<1> QED BY <1>1, <1>2 DEF Trackers!WouldCreateCycle

\* Nothing that is there goes, and who was blind stays so.
LEMMA ThereIsFinite == IsFiniteSet(There) /\ Cardinality(There) \in Nat
<1>1. IsFiniteSet(Issues)
  BY ServicesAssumption, FiniteIsFinite DEF Trackers!TrackersAssumption
<1>2. There \in SUBSET Issues
  BY DEF There
<1> QED BY <1>1, <1>2, FS_Subset, FS_CardinalityType

\* A blind spot stays one: issues do not disappear from the tracker.
LEMMA BlindStaysBlind ==
  ASSUME TrackersTyped, There \subseteq There', IsFiniteSet(There'), provider' = provider,
         crossed => crossed', forgotten => forgotten', Blind
  PROVE  Blind'
<1>1. Cardinality(There) <= Cardinality(There') /\ Cardinality(There) \in Nat /\ Cardinality(There') \in Nat
  BY FS_Subset, FS_CardinalityType, ThereIsFinite
<1>2. PageSize \in Nat
  BY ServicesAssumption DEF Trackers!TrackersAssumption
<1>3. Cardinality(There) > PageSize => Cardinality(There') > PageSize
  BY <1>1, <1>2
<1> QED BY <1>3 DEF Blind

\* A listing of GitHub has every issue, when there are no more than fit on its page.
LEMMA PageHasAll ==
  ASSUME TrackersTyped, ~ Cardinality(There) > PageSize
  PROVE  There \subseteq Trackers!Listed
<1> SUFFICES ASSUME NEW i \in There PROVE i \in Trackers!Listed
  OBVIOUS
<1> DEFINE Later == {j \in Issues : site[j].there /\ j > i}
<1>1. Later \in SUBSET There /\ i \notin Later /\ i \in Issues
  <2>1. i \in Nat /\ i \in Issues
    BY ServicesAssumption DEF There, Trackers!TrackersAssumption
  <2> QED BY <2>1 DEF There
<1> HIDE DEF Later
<1>2. Later # There
  BY <1>1
<1>3. /\ Cardinality(Later) \in Nat /\ Cardinality(There) \in Nat
      /\ Cardinality(Later) <= Cardinality(There) /\ Cardinality(Later) # Cardinality(There)
  <2>1. /\ IsFiniteSet(Later) /\ Cardinality(Later) <= Cardinality(There)
        /\ Cardinality(There) = Cardinality(Later) => There = Later
    BY <1>1, ThereIsFinite, FS_Subset
  <2> QED BY <1>2, <2>1, ThereIsFinite, FS_CardinalityType
<1>4. Cardinality(Later) < PageSize
  <2>1. PageSize \in Nat
    BY ServicesAssumption DEF Trackers!TrackersAssumption
  <2> QED BY <1>3, <2>1
<1>5. Trackers!Cardinality(Later) < PageSize
  BY <1>4, SizesAreSizes
<1> QED BY <1>5 DEF Trackers!Listed, There, Later

\* A call that asks for nothing.
LEMMA NewCallIsAsk ==
  Trackers!NewCall \in AskRecords /\ Trackers!NewCall.op = "none" /\ Trackers!NewCall.at = "new"
<1>1. Trackers!NewCall \in AskFields /\ Trackers!NewCall.op = "none" /\ Trackers!NewCall.at = "new"
  BY DEF Trackers!NewCall, AskFields, Trackers!Ats, Trackers!Columns, Trackers!NoIssue
<1> QED BY <1>1 DEF AskRecords

\* The adapter starts without dependencies.
LEMMA TrackersStart ==
  ASSUME ServicesInit
  PROVE  TrackerInv
<1>1. Trackers!Init
  BY DEF ServicesInit
<1>2. /\ provider \in Trackers!Providers /\ edges = {} /\ known = {} /\ ~ crossed /\ ~ forgotten
      /\ crossed \in BOOLEAN /\ forgotten \in BOOLEAN
      /\ site = [i \in Issues |-> [there |-> i \in Initial, open |-> TRUE, column |-> "ready",
                                   labels |-> IF i \in Initial THEN {"ready", "area"} ELSE {}]]
      /\ asks = [c \in Calls |-> Trackers!NewCall]
  BY <1>1 DEF Trackers!Init, Trackers!BuildTrackerAdapter
<1>3. site \in [Issues -> SiteRecords]
  <2>1. \A b \in BOOLEAN : [there |-> b, open |-> TRUE, column |-> "ready",
                            labels |-> IF b THEN {"ready", "area"} ELSE {}] \in SiteRecords
    BY DEF SiteRecords, Trackers!Labels, Trackers!Dk, Trackers!Columns
  <2>2. \A i \in Issues : (i \in Initial) \in BOOLEAN
    OBVIOUS
  <2> QED BY <1>2, <2>1, <2>2
<1>4. Trackers!NewCall \in AskRecords /\ Trackers!NewCall.at = "new"
  BY NewCallIsAsk
<1>5. TrackersTyped
  BY <1>2, <1>3, <1>4 DEF TrackersTyped
<1>6. \A c \in Calls : ~ Trackers!InFlight(c)
  BY <1>2, <1>4 DEF Trackers!InFlight
<1>7. ~ Trackers!Cyclic
  BY <1>2 DEF Trackers!Cyclic, Trackers!WaitsInCircle
<1> QED BY <1>2, <1>5, <1>6, <1>7 DEF TrackerInv, IsAdding, IsSure, Trackers!Depending

\* One call goes on, and nothing else changes.
LEMMA CallMoves ==
  ASSUME TrackerInv, NEW c \in Calls, NEW r \in AskRecords, asks' = [asks EXCEPT ![c] = r],
         UNCHANGED <<provider, site, edges, known, crossed, forgotten>>,
         Trackers!Depending(c)' => Trackers!Depending(c),
         IsAdding(c)', ~ Blind => IsSure(c)'
  PROVE  TrackerInv'
<1>1. TrackersTyped'
  BY DEF TrackerInv, TrackersTyped
<1>2. There' = There /\ Blind' = Blind /\ Trackers!Cyclic' = Trackers!Cyclic
  BY DEF There, Blind, Trackers!Cyclic
<1>3. \A d \in Calls : d # c => asks'[d] = asks[d]
  BY DEF TrackerInv, TrackersTyped
<1>4. ASSUME NEW d \in Calls, d # c
      PROVE  /\ IsAdding(d)' = IsAdding(d) /\ IsSure(d)' = IsSure(d)
             /\ Trackers!Depending(d)' = Trackers!Depending(d)
  BY <1>2, <1>3, <1>4 DEF IsAdding, IsSure, Trackers!Depending, Trackers!InFlight
<1>5. \A d \in Calls : IsAdding(d)' /\ (~ Blind' => IsSure(d)') /\ (Trackers!Depending(d)' => Trackers!Depending(d))
  BY <1>2, <1>4 DEF TrackerInv
<1> QED BY <1>1, <1>2, <1>5 DEF TrackerInv

\* What a call has come to, when it only moves on.
LEMMA AsksChange ==
  ASSUME NEW r \in AskRecords, NEW step \in Trackers!Ats \ {"reading"}
  PROVE  /\ [r EXCEPT !.at = step] \in AskRecords
         /\ [r EXCEPT !.at = step].op = r.op /\ [r EXCEPT !.at = step].at = step
         /\ [r EXCEPT !.at = step].task = r.task /\ [r EXCEPT !.at = step].on = r.on
         /\ [Trackers!NewCall EXCEPT !.at = step] \in AskRecords
         /\ [Trackers!NewCall EXCEPT !.at = step].op = "none"
         /\ [Trackers!NewCall EXCEPT !.at = step].at = step
<1>1. Trackers!NewCall \in AskRecords /\ Trackers!NewCall.op = "none"
  BY NewCallIsAsk
<1>2. ASSUME NEW k \in AskRecords
      PROVE  /\ [k EXCEPT !.at = step] \in AskRecords
             /\ [k EXCEPT !.at = step].op = k.op /\ [k EXCEPT !.at = step].at = step
             /\ [k EXCEPT !.at = step].task = k.task /\ [k EXCEPT !.at = step].on = k.on
  <2> DEFINE f == [k EXCEPT !.at = step]
  <2>1. k \in AskFields
    BY <1>2 DEF AskRecords
  <2>2. f \in AskFields /\ f.op = k.op /\ f.at = step /\ f.task = k.task /\ f.on = k.on
    BY <2>1 DEF AskFields
  <2> HIDE DEF f
  <2>3. f \in AskRecords
    BY <2>2 DEF AskRecords
  <2> QED BY <2>2, <2>3 DEF f
<1> QED BY <1>1, <1>2

\* A call that is over leaves the others as they are.
LEMMA CallEnds ==
  ASSUME TrackerInv, NEW c \in Calls, NEW step \in {"done", "failed"}, Trackers!Goes(c, step)
  PROVE  /\ asks' \in [Calls -> AskRecords] /\ ~ Trackers!InFlight(c)'
         /\ \A d \in Calls : d # c => asks'[d] = asks[d]
         /\ asks' = [asks EXCEPT ![c] = [Trackers!NewCall EXCEPT !.at = step]]
         /\ [Trackers!NewCall EXCEPT !.at = step] \in AskRecords
<1>1. asks \in [Calls -> AskRecords] /\ step \in Trackers!Ats \ {"reading"}
  BY DEF TrackerInv, TrackersTyped, Trackers!Ats
<1>2. asks' = [asks EXCEPT ![c] = [Trackers!NewCall EXCEPT !.at = step]]
  BY DEF Trackers!Goes
<1>3. [Trackers!NewCall EXCEPT !.at = step] \in AskRecords /\ [Trackers!NewCall EXCEPT !.at = step].at = step
  BY <1>1, AsksChange
<1>4. asks' \in [Calls -> AskRecords] /\ \A d \in Calls : d # c => asks'[d] = asks[d]
  BY <1>1, <1>2, <1>3
<1>5. asks'[c].at = step
  BY <1>1, <1>2, <1>3
<1> QED BY <1>2, <1>3, <1>4, <1>5 DEF Trackers!InFlight

\* A call that fails, or ends without an effect.
LEMMA EndKeeps ==
  ASSUME TrackerInv, NEW c \in Calls, NEW step \in {"done", "failed"}, Trackers!Goes(c, step),
         UNCHANGED <<provider, site, edges, known, crossed, forgotten>>
  PROVE  TrackerInv'
<1>1. ~ Trackers!InFlight(c)'
  BY CallEnds
<1>2. IsAdding(c)' /\ IsSure(c)' /\ ~ Trackers!Depending(c)'
  BY <1>1 DEF IsAdding, IsSure, Trackers!Depending
<1> QED BY <1>2, CallEnds, CallMoves

\* A call that starts or goes on without touching a dependency.
LEMMA UpdateKeeps ==
  ASSUME TrackerInv, NEW c \in Calls, NEW r \in AskRecords, asks' = [asks EXCEPT ![c] = r],
         r.op \notin {"add", "remove"}, UNCHANGED <<provider, site, edges, known, crossed, forgotten>>
  PROVE  TrackerInv'
<1>1. asks'[c].op \notin {"add", "remove"}
  BY DEF TrackerInv, TrackersTyped
<1>2. IsAdding(c)' /\ IsSure(c)' /\ ~ Trackers!Depending(c)'
  BY <1>1 DEF IsAdding, IsSure, Trackers!Depending
<1> QED BY <1>2, CallMoves

\* The site changes, but no issue goes; a call that changed it is over.
LEMMA SiteKeeps ==
  ASSUME TrackerInv, site' \in [Issues -> SiteRecords], There \subseteq There',
         asks' \in [Calls -> AskRecords],
         \A c \in Calls : asks'[c] = asks[c] \/ ~ Trackers!InFlight(c)',
         UNCHANGED <<provider, edges, known, crossed, forgotten>>
  PROVE  TrackerInv'
<1>1. TrackersTyped'
  BY DEF TrackerInv, TrackersTyped
<1>2. IsFiniteSet(There')
  <2>1. There' \in SUBSET Issues /\ IsFiniteSet(Issues)
    BY ServicesAssumption, FiniteIsFinite DEF There, Trackers!TrackersAssumption
  <2> QED BY <2>1, FS_Subset
<1>3. Blind => Blind'
  BY <1>2, BlindStaysBlind DEF TrackerInv
<1>4. ASSUME NEW c \in Calls
      PROVE  /\ IsAdding(c) => IsAdding(c)'
             /\ IsSure(c) => IsSure(c)'
             /\ Trackers!Depending(c)' => Trackers!Depending(c)
  <2>1. CASE asks'[c] = asks[c]
    BY <2>1 DEF IsAdding, IsSure, Trackers!Depending, Trackers!InFlight
  <2>2. CASE ~ Trackers!InFlight(c)'
    BY <2>2 DEF IsAdding, IsSure, Trackers!Depending
  <2> QED BY <2>1, <2>2
<1>5. Trackers!Cyclic' = Trackers!Cyclic
  BY DEF Trackers!Cyclic
<1> QED BY <1>1, <1>3, <1>4, <1>5 DEF TrackerInv

\* What is written of an issue leaves it where it is.
LEMMA WrittenIsThere ==
  ASSUME NEW i \in SiteRecords, NEW r \in AskRecords
  PROVE  Trackers!Written(i, r) \in SiteRecords /\ Trackers!Written(i, r).there = i.there
<1>1. Trackers!Asked(r) \in Trackers!Columns
  BY DEF Trackers!Asked, AskRecords, AskFields, Trackers!Columns
<1>2. \A b \in BOOLEAN, l \in SUBSET Trackers!Labels :
        /\ [i EXCEPT !.labels = l] \in SiteRecords /\ [i EXCEPT !.labels = l].there = i.there
        /\ [i EXCEPT !.open = b] \in SiteRecords /\ [i EXCEPT !.open = b].there = i.there
        /\ [i EXCEPT !.open = b, !.labels = l] \in SiteRecords
        /\ [i EXCEPT !.open = b, !.labels = l].there = i.there
  BY DEF SiteRecords
<1>3. \A x \in Trackers!Columns :
        [i EXCEPT !.column = x] \in SiteRecords /\ [i EXCEPT !.column = x].there = i.there
  BY DEF SiteRecords
<1>4. /\ (r.labels \ Trackers!Dk) \cup {"blocked"} \in SUBSET Trackers!Labels
      /\ (r.labels \ Trackers!Dk) \cup {"ready"} \in SUBSET Trackers!Labels
      /\ r.labels \ Trackers!Dk \in SUBSET Trackers!Labels
      /\ {"area"} \in SUBSET Trackers!Labels
  BY DEF AskRecords, AskFields, Trackers!Labels, Trackers!Dk
<1>5. (Trackers!Asked(r) \notin Trackers!Closing) \in BOOLEAN /\ TRUE \in BOOLEAN
  OBVIOUS
<1>6. Trackers!GithubWritten(i, r) \in SiteRecords /\ Trackers!GithubWritten(i, r).there = i.there
  <2>1. \E b \in BOOLEAN, l \in SUBSET Trackers!Labels :
          \/ Trackers!GithubWritten(i, r) = [i EXCEPT !.labels = l]
          \/ Trackers!GithubWritten(i, r) = [i EXCEPT !.open = b]
          \/ Trackers!GithubWritten(i, r) = [i EXCEPT !.open = b, !.labels = l]
    <3>1. CASE r.op = "block"
      BY <1>4, <3>1 DEF Trackers!GithubWritten, Trackers!BlockedLabels
    <3>2. CASE r.op = "approve" \/ (r.op = "update" /\ r.status = "ready")
      BY <1>4, <1>5, <3>2 DEF Trackers!GithubWritten
    <3>3. CASE r.op = "refuse"
      BY <1>4, <1>5, <3>3 DEF Trackers!GithubWritten
    <3>4. CASE r.op = "label"
      BY <1>4, <3>4 DEF Trackers!GithubWritten
    <3>5. CASE /\ r.op \notin {"block", "approve", "refuse", "label"}
               /\ ~ (r.op = "update" /\ r.status = "ready")
      <4>1. Trackers!GithubWritten(i, r) = [i EXCEPT !.open = Trackers!Asked(r) \notin Trackers!Closing]
        BY <3>5 DEF Trackers!GithubWritten
      <4> QED BY <1>5, <4>1
    <3> QED BY <3>1, <3>2, <3>3, <3>4, <3>5
  <2>2. PICK b \in BOOLEAN, l \in SUBSET Trackers!Labels :
          \/ Trackers!GithubWritten(i, r) = [i EXCEPT !.labels = l]
          \/ Trackers!GithubWritten(i, r) = [i EXCEPT !.open = b]
          \/ Trackers!GithubWritten(i, r) = [i EXCEPT !.open = b, !.labels = l]
    BY <2>1
  <2>3. CASE Trackers!GithubWritten(i, r) = [i EXCEPT !.labels = l]
    <3>1. [i EXCEPT !.labels = l] \in SiteRecords /\ [i EXCEPT !.labels = l].there = i.there
      BY <1>2
    <3> QED BY <2>3, <3>1
  <2>4. CASE Trackers!GithubWritten(i, r) = [i EXCEPT !.open = b]
    BY <1>2, <2>4
  <2>5. CASE Trackers!GithubWritten(i, r) = [i EXCEPT !.open = b, !.labels = l]
    <3>1. [i EXCEPT !.open = b, !.labels = l] \in SiteRecords /\ [i EXCEPT !.open = b, !.labels = l].there = i.there
      BY <1>2
    <3> QED BY <2>5, <3>1
  <2> QED BY <2>2, <2>3, <2>4, <2>5
<1>7. \/ Trackers!Written(i, r) = Trackers!GithubWritten(i, r)
      \/ Trackers!Written(i, r) = [i EXCEPT !.column = Trackers!Asked(r)]
      \/ Trackers!Written(i, r) = i
  BY DEF Trackers!Written
<1> QED BY <1>1, <1>3, <1>6, <1>7

\* A dependency comes or goes; no call that adds one is left that does not know.
LEMMA EdgesKeep ==
  ASSUME TrackerInv, asks' \in [Calls -> AskRecords], crossed' \in BOOLEAN, forgotten' \in BOOLEAN,
         UNCHANGED <<provider, site>>, edges' \subseteq Trackers!Edges,
         \A e \in edges' : e[1] \in There,
         crossed => crossed', forgotten => forgotten',
         \A c \in Calls : asks'[c] = asks[c] \/ ~ Trackers!InFlight(c)',
         ~ crossed' => \A c \in Calls : ~ Trackers!Depending(c)',
         ~ forgotten' /\ provider # "github" => edges' \subseteq known',
         ~ Blind' => ~ Trackers!WaitsInCircle(edges')
  PROVE  TrackerInv'
<1>1. TrackersTyped'
  BY DEF TrackerInv, TrackersTyped
<1>2. There' = There
  BY DEF There
<1>3. \A c \in Calls : IsAdding(c)'
  <2>1. ASSUME NEW c \in Calls, asks'[c] = asks[c]
        PROVE  IsAdding(c)' = IsAdding(c)
    BY <1>2, <2>1 DEF IsAdding, Trackers!InFlight
  <2>2. ASSUME NEW c \in Calls, ~ Trackers!InFlight(c)'
        PROVE  IsAdding(c)'
    BY <2>2 DEF IsAdding
  <2> QED BY <2>1, <2>2 DEF TrackerInv
<1>4. ~ crossed' => \A c \in Calls : IsSure(c)'
  BY DEF IsSure, Trackers!Depending
<1>5. ~ Blind' => ~ crossed'
  BY DEF Blind
<1>6. ~ Blind' => ~ Trackers!Cyclic'
  BY DEF Trackers!Cyclic
<1> QED BY <1>1, <1>2, <1>3, <1>4, <1>5, <1>6 DEF TrackerInv

\* Every step of an adapter, of its server and of people keeps it.
LEMMA TrackersKeep ==
  ASSUME TrackerInv, [Trackers!TrackerNext]_trackerVars
  PROVE  TrackerInv'
<1>1. /\ provider \in Trackers!Providers /\ edges \subseteq Trackers!Edges
      /\ site \in [Issues -> SiteRecords] /\ asks \in [Calls -> AskRecords]
      /\ crossed \in BOOLEAN /\ forgotten \in BOOLEAN /\ There \subseteq Issues
  BY DEF TrackerInv, TrackersTyped, There
<1>2. /\ \A e \in edges : e[1] \in There
      /\ \A c \in Calls : IsAdding(c)
      /\ ~ crossed => \A c, d \in Calls : Trackers!Depending(c) /\ Trackers!Depending(d) => c = d
      /\ ~ forgotten /\ provider # "github" => edges \subseteq known
      /\ ~ Blind => ~ Trackers!Cyclic /\ \A c \in Calls : IsSure(c)
  BY DEF TrackerInv
<1>3. Trackers!NewCall \in AskRecords /\ Trackers!NewCall.op = "none"
  BY NewCallIsAsk
<1>4. CASE UNCHANGED trackerVars
  <2>1. There' = There
    BY <1>4 DEF trackerVars, There
  <2> QED BY <1>1, <1>4, <2>1, SiteKeeps DEF trackerVars
\* an issue that is there stays when it is written
<1>5. ASSUME NEW i \in Issues, NEW x \in SiteRecords, site' = [site EXCEPT ![i] = x],
             site[i].there => x.there
      PROVE  site' \in [Issues -> SiteRecords] /\ There \subseteq There'
  <2>1. site' \in [Issues -> SiteRecords]
    BY <1>1, <1>5
  <2>2. \A j \in Issues : site[j].there => site'[j].there
    BY <1>1, <1>5
  <2> QED BY <2>1, <2>2 DEF There
<1>6. ASSUME NEW c \in Calls, NEW o \in Trackers!Ops, NEW i \in Issues, NEW x \in Trackers!Columns,
             Trackers!BeginUpdate(c, o, i, x)
      PROVE  TrackerInv'
  <2> DEFINE r == [Trackers!NewCall EXCEPT !.op = o, !.task = i, !.status = x,
                     !.at = IF Trackers!ReadsFirst(o, x) THEN "reading" ELSE "writing"]
  <2>1. asks' = [asks EXCEPT ![c] = r] /\ o \notin {"add", "remove"}
        /\ UNCHANGED <<provider, site, edges, known, crossed, forgotten>>
    BY <1>6 DEF Trackers!BeginUpdate, Trackers!history
  <2>2. r \in AskFields /\ r.op = o /\ r.task = i
    BY <1>3 DEF AskRecords, AskFields, Trackers!Ats
  <2> HIDE DEF r
  <2>3. r \in AskRecords
    BY <2>1, <2>2 DEF AskRecords
  <2> QED BY <2>1, <2>2, <2>3, UpdateKeeps
<1>7. ASSUME NEW c \in Calls, Trackers!ReadsLabels(c)
      PROVE  TrackerInv'
  <2> DEFINE l == site[asks[c].task].labels
             r == [asks[c] EXCEPT !.at = "writing", !.labels = l]
  <2>1. /\ asks[c].at = "reading" /\ asks' = [asks EXCEPT ![c] = r]
        /\ UNCHANGED <<provider, site, edges, known, crossed, forgotten>>
    BY <1>1, <1>7 DEF Trackers!ReadsLabels, Trackers!history
  <2>2. asks[c] \in AskFields /\ asks[c].task \in Issues /\ asks[c].op \notin {"add", "remove"}
    BY <1>1, <2>1 DEF AskRecords
  <2>3. l \in SUBSET Trackers!Labels
    BY <1>1, <2>2 DEF SiteRecords
  <2> HIDE DEF l
  <2>4. r \in AskFields /\ r.op = asks[c].op /\ r.at = "writing"
    BY <2>2, <2>3 DEF AskFields, Trackers!Ats
  <2> HIDE DEF r
  <2>5. r \in AskRecords
    BY <2>4 DEF AskRecords
  <2> QED BY <2>1, <2>2, <2>4, <2>5, UpdateKeeps
\* of a call that only goes on
<1>8. ASSUME NEW c \in Calls, NEW step \in Trackers!Ats \ {"reading", "done", "failed"},
             Trackers!Goes(c, step)
      PROVE  asks' = [asks EXCEPT ![c] = [asks[c] EXCEPT !.at = step]]
  BY <1>1, <1>8 DEF Trackers!Goes
<1>9. ASSUME NEW c \in Calls, NEW step \in Trackers!Ats \ {"reading", "done", "failed"},
             Trackers!Goes(c, step), Trackers!InFlight(c), step # "loading",
             UNCHANGED <<provider, site, edges, known, crossed, forgotten>>,
             ~ Blind /\ asks[c].op = "add" =>
               ~ Trackers!WouldCreateCycle(edges, asks[c].task, asks[c].on)
      PROVE  TrackerInv'
  <2> DEFINE r == [asks[c] EXCEPT !.at = step]
  <2>1. asks[c] \in AskRecords /\ asks' = [asks EXCEPT ![c] = r]
    BY <1>1, <1>8, <1>9
  <2>2. /\ r \in AskRecords /\ r.op = asks[c].op /\ r.at = step
        /\ r.task = asks[c].task /\ r.on = asks[c].on
    BY <2>1, AsksChange
  <2> HIDE DEF r
  <2>3. asks'[c] = r
    BY <1>1, <2>1
  <2>4. IsAdding(c)' /\ (Trackers!Depending(c)' => Trackers!Depending(c))
    BY <1>2, <1>9, <2>2, <2>3 DEF IsAdding, Trackers!Depending, There
  <2>5. ~ Blind => IsSure(c)'
    BY <1>9, <2>2, <2>3 DEF IsSure
  <2> QED BY <1>9, <2>1, <2>2, <2>4, <2>5, CallMoves
<1>10. ASSUME NEW c \in Calls, Trackers!ReadsTransitions(c)
       PROVE  TrackerInv'
  <2>1. /\ asks[c].at = "reading" /\ UNCHANGED <<provider, site, edges, known, crossed, forgotten>>
        /\ Trackers!Goes(c, "writing") \/ Trackers!Goes(c, "done")
    BY <1>10 DEF Trackers!ReadsTransitions, Trackers!history
  <2>2. asks[c].op # "add" /\ Trackers!InFlight(c)
    BY <1>1, <2>1 DEF AskRecords, Trackers!InFlight
  <2>3. "writing" \in Trackers!Ats \ {"reading", "done", "failed"}
    BY DEF Trackers!Ats
  <2> QED BY <1>9, <2>1, <2>2, <2>3, EndKeeps
<1>11. ASSUME NEW c \in Calls, Trackers!Writes(c)
       PROVE  TrackerInv'
  <2> DEFINE i == asks[c].task
             x == Trackers!Written(site[i], asks[c])
  <2>1. /\ Trackers!Goes(c, "done") /\ site' = [site EXCEPT ![i] = x]
        /\ UNCHANGED <<provider, edges, known, edits, crossed, forgotten>>
    BY <1>1, <1>11 DEF Trackers!Writes
  <2>2. asks' \in [Calls -> AskRecords] /\ \A d \in Calls : asks'[d] = asks[d] \/ ~ Trackers!InFlight(d)'
    BY <2>1, CallEnds
  <2>3. site' \in [Issues -> SiteRecords] /\ There \subseteq There'
    <3>1. CASE i \in Issues
      <4>1. x \in SiteRecords /\ x.there = site[i].there
        BY <1>1, <3>1, WrittenIsThere
      <4> HIDE DEF i, x
      <4> QED BY <1>5, <2>1, <3>1, <4>1
    <3>2. CASE i \notin Issues
      <4>1. site' = site
        BY <1>1, <2>1, <3>2
      <4> QED BY <1>1, <4>1 DEF There
    <3> QED BY <3>1, <3>2
  <2> QED BY <2>1, <2>2, <2>3, SiteKeeps
<1>12. ASSUME NEW c \in Calls, NEW i \in Issues, NEW b \in BOOLEAN, Trackers!CreateTask(c, i, b)
       PROVE  TrackerInv'
  <2> DEFINE x == [there |-> TRUE, open |-> TRUE, column |-> "backlog",
                   labels |-> IF b THEN {"ready"} ELSE {}]
  <2>1. /\ asks' = [asks EXCEPT ![c] = [Trackers!NewCall EXCEPT !.at = "done"]]
        /\ site' = [site EXCEPT ![i] = x]
        /\ UNCHANGED <<provider, edges, known, crossed, forgotten>>
    BY <1>12 DEF Trackers!CreateTask, Trackers!history
  <2>2. Trackers!Goes(c, "done")
    BY <2>1 DEF Trackers!Goes
  <2>3. asks' \in [Calls -> AskRecords] /\ \A d \in Calls : asks'[d] = asks[d] \/ ~ Trackers!InFlight(d)'
    BY <2>2, CallEnds
  <2>4. x \in SiteRecords /\ x.there
    BY DEF SiteRecords, Trackers!Labels, Trackers!Dk, Trackers!Columns
  <2> HIDE DEF x
  <2> QED BY <1>5, <2>1, <2>3, <2>4, SiteKeeps
<1>13. ASSUME NEW i \in Issues, NEW b \in BOOLEAN, NEW l \in SUBSET Trackers!Labels,
              NEW k \in Trackers!Columns, Trackers!PersonEdits(i, b, l, k)
       PROVE  TrackerInv'
  <2> DEFINE x == [there |-> TRUE, open |-> b, labels |-> l, column |-> k]
  <2>1. site' = [site EXCEPT ![i] = x] /\ UNCHANGED <<provider, edges, known, asks, crossed, forgotten>>
    BY <1>13 DEF Trackers!PersonEdits
  <2>2. x \in SiteRecords /\ x.there
    BY DEF SiteRecords
  <2> HIDE DEF x
  <2> QED BY <1>1, <1>5, <2>1, <2>2, SiteKeeps
\* what becomes of the history when a change of the dependencies begins
<1>14. ASSUME Trackers!NotesOverlap
       PROVE  crossed' \in BOOLEAN /\ (crossed => crossed')
              /\ (~ crossed' => \A d \in Calls : ~ Trackers!Depending(d))
  <2>1. crossed' = (crossed \/ \E d \in Calls : Trackers!Depending(d))
    BY <1>14 DEF Trackers!NotesOverlap
  <2>2. crossed' \in BOOLEAN
    BY <2>1
  <2> QED BY <2>1, <2>2
\* a change of the dependencies that begins, of a call that was at rest
<1>15. ASSUME NEW c \in Calls, NEW r \in AskRecords, asks' = [asks EXCEPT ![c] = r],
              Trackers!NotesOverlap, UNCHANGED <<provider, site, edges>>,
              forgotten' \in BOOLEAN, forgotten => forgotten',
              ~ forgotten' /\ provider # "github" => edges \subseteq known',
              r.op = "add" => /\ r.task \in There /\ r.on \in Issues
                              /\ \/ r.at = "listing" /\ provider = "github"
                                 \/ /\ ~ Blind => ~ Trackers!WouldCreateCycle(edges, r.task, r.on)
                                    /\ provider # "github"
       PROVE  TrackerInv'
  <2>1. TrackersTyped'
    BY <1>1, <1>14, <1>15 DEF TrackersTyped
  <2>2. There' = There /\ Trackers!Cyclic' = Trackers!Cyclic
    BY <1>15 DEF There, Trackers!Cyclic
  <2>3. ~ Blind' => ~ Blind /\ ~ crossed'
    BY <1>14, <1>15, <2>2 DEF Blind
  <2>4. asks'[c] = r /\ \A d \in Calls : d # c => asks'[d] = asks[d]
    BY <1>1, <1>15
  <2>5. ASSUME NEW d \in Calls, d # c
        PROVE  /\ IsAdding(d)' = IsAdding(d) /\ IsSure(d)' = IsSure(d)
               /\ Trackers!Depending(d)' = Trackers!Depending(d)
    BY <1>15, <2>2, <2>4, <2>5 DEF IsAdding, IsSure, Trackers!Depending, Trackers!InFlight
  <2>6. IsAdding(c)' /\ (~ Blind' => IsSure(c)')
    BY <1>15, <2>2, <2>3, <2>4 DEF IsAdding, IsSure
  <2>7. ~ crossed' => \A x, y \in Calls : Trackers!Depending(x)' /\ Trackers!Depending(y)' => x = y
    BY <1>14, <1>15, <2>5
  <2>8. \A e \in edges' : e[1] \in There'
    BY <1>2, <1>15, <2>2
  <2>9. \A d \in Calls : IsAdding(d)' /\ (~ Blind' => IsSure(d)')
    BY <1>2, <2>3, <2>5, <2>6
  <2>10. ~ forgotten' /\ provider' # "github" => edges' \subseteq known'
    BY <1>15
  <2> QED BY <1>2, <2>1, <2>2, <2>3, <2>7, <2>8, <2>9, <2>10 DEF TrackerInv
<1>16. ASSUME NEW c \in Calls, NEW i \in Issues, NEW d \in Issues, Trackers!BeginAdd(c, i, d)
       PROVE  TrackerInv'
  <2> DEFINE rest == [Trackers!NewCall EXCEPT !.at = "failed"]
             r == [Trackers!NewCall EXCEPT !.op = "add", !.task = i, !.on = d,
                     !.at = IF provider = "github" THEN "listing" ELSE "writing"]
  <2>1. /\ site[i].there /\ Trackers!NotesOverlap
        /\ UNCHANGED <<provider, site, edges, known, edits, forgotten>>
        /\ asks' = [asks EXCEPT ![c] =
             IF provider # "github" /\ Trackers!WouldCreateCycle(known, i, d) THEN rest ELSE r]
    BY <1>16 DEF Trackers!BeginAdd
  <2>2. rest \in AskRecords /\ rest.op = "none"
    BY <1>3, AsksChange DEF Trackers!Ats
  <2>3. /\ r \in AskFields /\ r.op = "add" /\ r.task = i /\ r.on = d
        /\ r.at = IF provider = "github" THEN "listing" ELSE "writing"
    BY <1>3 DEF AskRecords, AskFields, Trackers!Ops, Trackers!Ats
  <2> HIDE DEF rest, r
  <2>4. r \in AskRecords
    BY <2>3 DEF AskRecords
  <2>5. ~ forgotten' /\ provider # "github" => edges \subseteq known'
    BY <1>2, <2>1
  <2>6. i \in There /\ d \in Issues
    BY <2>1 DEF There
  <2>7. CASE provider # "github" /\ Trackers!WouldCreateCycle(known, i, d)
    BY <1>1, <1>15, <2>1, <2>2, <2>5, <2>7
  <2>8. CASE ~ (provider # "github" /\ Trackers!WouldCreateCycle(known, i, d))
    <3>1. provider # "github" /\ ~ Blind => ~ Trackers!WouldCreateCycle(edges, i, d)
      BY <1>2, <2>8, FewerCircles DEF Blind
    <3>2. forgotten' \in BOOLEAN /\ (forgotten => forgotten')
      BY <1>1, <2>1
    <3>3. asks' = [asks EXCEPT ![c] = r]
      BY <2>1, <2>8
    <3> QED BY <1>15, <2>1, <2>3, <2>4, <2>5, <2>6, <3>1, <3>2, <3>3
  <2> QED BY <2>7, <2>8
<1>17. ASSUME NEW c \in Calls, NEW i \in Issues, NEW d \in Issues, Trackers!BeginRemove(c, i, d)
       PROVE  TrackerInv'
  <2> DEFINE rest == [Trackers!NewCall EXCEPT !.at = "done"]
             r == [Trackers!NewCall EXCEPT !.op = "remove", !.task = i, !.on = d, !.at = "looking"]
  <2>1. /\ Trackers!NotesOverlap /\ UNCHANGED <<provider, site, edges, edits>>
        /\ asks' = [asks EXCEPT ![c] = IF provider # "github" THEN rest ELSE r]
        /\ forgotten' = (forgotten \/ provider # "github")
    BY <1>17 DEF Trackers!BeginRemove
  <2>2. rest \in AskRecords /\ rest.op = "none"
    BY <1>3, AsksChange DEF Trackers!Ats
  <2>3. r \in AskFields /\ r.op = "remove" /\ r.at = "looking"
    BY <1>3 DEF AskRecords, AskFields, Trackers!Ops, Trackers!Ats
  <2> HIDE DEF rest, r
  <2>4. r \in AskRecords
    BY <2>3 DEF AskRecords
  <2>5. forgotten' \in BOOLEAN /\ (forgotten => forgotten') /\ (provider # "github" => forgotten')
    BY <1>1, <2>1
  <2>6. PICK x \in AskRecords : asks' = [asks EXCEPT ![c] = x] /\ x.op # "add"
    BY <2>1, <2>2, <2>3, <2>4
  <2> QED BY <1>15, <2>1, <2>5, <2>6
<1>18. ASSUME NEW c \in Calls, Trackers!Lists(c)
       PROVE  TrackerInv'
  <2> DEFINE r == [asks[c] EXCEPT !.at = "loading", !.listed = Trackers!Listed]
  <2>1. /\ asks[c].at = "listing" /\ asks' = [asks EXCEPT ![c] = r]
        /\ UNCHANGED <<provider, site, edges, known, crossed, forgotten>>
    BY <1>1, <1>18 DEF Trackers!Lists, Trackers!history
  <2>2. asks[c] \in AskFields /\ Trackers!Listed \in SUBSET Issues
    BY <1>1 DEF AskRecords, Trackers!Listed
  <2>3. /\ r \in AskFields /\ r.op = asks[c].op /\ r.at = "loading" /\ r.task = asks[c].task
        /\ r.on = asks[c].on /\ r.listed = Trackers!Listed
    BY <2>2 DEF AskFields, Trackers!Ats
  <2> HIDE DEF r
  <2>4. r \in AskRecords /\ asks'[c] = r
    BY <1>1, <2>1, <2>3 DEF AskRecords
  <2>5. Trackers!InFlight(c)
    BY <2>1 DEF Trackers!InFlight
  <2>6. IsAdding(c)' /\ (Trackers!Depending(c)' => Trackers!Depending(c))
    BY <1>2, <2>1, <2>3, <2>4, <2>5 DEF IsAdding, Trackers!Depending, There
  <2>7. ~ Blind => IsSure(c)'
    <3>1. ~ Blind /\ provider = "github" => \A e \in edges : e[1] \in Trackers!Listed
      BY <1>2, PageHasAll DEF Blind, TrackerInv
    <3> QED BY <1>2, <2>1, <2>3, <2>4, <2>5, <3>1 DEF IsSure
  <2> QED BY <2>1, <2>4, <2>6, <2>7, CallMoves
<1>19. ASSUME NEW c \in Calls, Trackers!Loads(c)
       PROVE  TrackerInv'
  <2>1. PICK i : asks' = [asks EXCEPT ![c].listed = @ \ {i},
                                     ![c].seen = @ \cup {e \in edges : e[1] = i}]
    BY <1>19 DEF Trackers!Loads
  <2> DEFINE r == [asks[c] EXCEPT !.listed = @ \ {i}, !.seen = @ \cup {e \in edges : e[1] = i}]
  <2>2. /\ asks[c].at = "loading" /\ asks' = [asks EXCEPT ![c] = r]
        /\ UNCHANGED <<provider, site, edges, known, crossed, forgotten>>
    BY <1>1, <1>19, <2>1 DEF Trackers!Loads, Trackers!history
  <2>3. asks[c] \in AskFields /\ edges \subseteq Trackers!Edges
    BY <1>1 DEF AskRecords
  <2>4. /\ r \in AskFields /\ r.op = asks[c].op /\ r.at = "loading" /\ r.task = asks[c].task
        /\ r.on = asks[c].on /\ r.listed = asks[c].listed \ {i}
        /\ r.seen = asks[c].seen \cup {e \in edges : e[1] = i}
    BY <2>2, <2>3 DEF AskFields
  <2> HIDE DEF r
  <2>5. r \in AskRecords /\ asks'[c] = r
    BY <1>1, <2>2, <2>4 DEF AskRecords
  <2>6. Trackers!InFlight(c)
    BY <2>2 DEF Trackers!InFlight
  <2>7. IsAdding(c)' /\ (Trackers!Depending(c)' => Trackers!Depending(c))
    BY <1>2, <2>2, <2>4, <2>5, <2>6 DEF IsAdding, Trackers!Depending, There
  <2>8. ~ Blind => IsSure(c)'
    BY <1>2, <2>2, <2>4, <2>5, <2>6 DEF IsSure
  <2> QED BY <2>2, <2>5, <2>7, <2>8, CallMoves
<1>20. ASSUME NEW c \in Calls, Trackers!Checks(c)
       PROVE  TrackerInv'
  <2> DEFINE b == Trackers!WouldCreateCycle(asks[c].seen, asks[c].task, asks[c].on)
  <2>1. /\ asks[c].at = "loading" /\ asks[c].listed = {}
        /\ Trackers!Goes(c, IF b THEN "failed" ELSE "looking")
        /\ UNCHANGED <<provider, site, edges, known, crossed, forgotten>>
    BY <1>20 DEF Trackers!Checks, Trackers!history
  <2>2. CASE b
    BY <2>1, <2>2, EndKeeps
  <2>3. CASE ~ b
    <3>1. Trackers!Goes(c, "looking") /\ Trackers!InFlight(c)
          /\ "looking" \in Trackers!Ats \ {"reading", "done", "failed"}
      BY <2>1, <2>3 DEF Trackers!InFlight, Trackers!Ats
    <3>2. ASSUME ~ Blind, asks[c].op = "add"
          PROVE  ~ Trackers!WouldCreateCycle(edges, asks[c].task, asks[c].on)
      <4>1. IsSure(c)
        BY <1>2, <3>2
      <4>2. provider = "github" => edges \subseteq asks[c].seen
        BY <2>1, <3>1, <3>2, <4>1 DEF IsSure
      <4>3. provider # "github" => ~ Trackers!WouldCreateCycle(edges, asks[c].task, asks[c].on)
        BY <3>1, <3>2, <4>1 DEF IsSure
      <4> QED BY <2>3, <4>2, <4>3, FewerCircles
    <3> QED BY <1>9, <2>1, <3>1, <3>2
  <2> QED BY <2>2, <2>3
<1>21. ASSUME NEW c \in Calls, ~ Blind, asks[c].op = "add", asks[c].at \in {"looking", "asking", "writing"}
       PROVE  ~ Trackers!WouldCreateCycle(edges, asks[c].task, asks[c].on)
  BY <1>2, <1>21 DEF IsSure, Trackers!InFlight
<1>22. ASSUME NEW c \in Calls, Trackers!Looks(c)
       PROVE  TrackerInv'
  <2>1. /\ asks[c].at = "looking" /\ Trackers!InFlight(c)
        /\ Trackers!Goes(c, "done") \/ Trackers!Goes(c, "asking")
        /\ UNCHANGED <<provider, site, edges, known, crossed, forgotten>>
    BY <1>22 DEF Trackers!Looks, Trackers!history, Trackers!InFlight
  <2>2. "asking" \in Trackers!Ats \ {"reading", "done", "failed"}
    BY DEF Trackers!Ats
  <2> QED BY <1>9, <1>21, <2>1, <2>2, EndKeeps
<1>23. ASSUME NEW c \in Calls, Trackers!AsksForBlocker(c)
       PROVE  TrackerInv'
  <2>1. /\ asks[c].at = "asking" /\ Trackers!InFlight(c) /\ Trackers!Goes(c, "writing")
        /\ UNCHANGED <<provider, site, edges, known, crossed, forgotten>>
    BY <1>23 DEF Trackers!AsksForBlocker, Trackers!history, Trackers!InFlight
  <2>2. "writing" \in Trackers!Ats \ {"reading", "done", "failed"}
    BY DEF Trackers!Ats
  <2> QED BY <1>9, <1>21, <2>1, <2>2
\* the only change of the dependencies on its way is made
<1>24. ASSUME NEW c \in Calls, NEW step \in {"done", "failed"}, Trackers!Goes(c, step),
              Trackers!Depending(c)
       PROVE  /\ asks' \in [Calls -> AskRecords]
              /\ \A d \in Calls : asks'[d] = asks[d] \/ ~ Trackers!InFlight(d)'
              /\ ~ crossed => \A d \in Calls : ~ Trackers!Depending(d)'
  <2>1. /\ asks' \in [Calls -> AskRecords] /\ ~ Trackers!InFlight(c)'
        /\ \A d \in Calls : d # c => asks'[d] = asks[d]
    BY <1>24, CallEnds
  <2>2. ASSUME ~ crossed, NEW d \in Calls, d # c
        PROVE  ~ Trackers!Depending(d)'
    <3>1. ~ Trackers!Depending(d)
      BY <1>2, <1>24, <2>2
    <3> QED BY <2>1, <2>2, <3>1 DEF Trackers!Depending, Trackers!InFlight
  <2>3. ~ Trackers!Depending(c)'
    BY <2>1 DEF Trackers!Depending
  <2> QED BY <2>1, <2>2, <2>3
<1>25. ASSUME NEW c \in Calls, Trackers!AddsEdge(c) \/ Trackers!AnswerLost(c)
       PROVE  TrackerInv'
  <2> DEFINE f == <<asks[c].task, asks[c].on>>
  <2>1. /\ asks[c].at = "writing" /\ asks[c].op = "add" /\ edges' = edges \cup {f}
        /\ Trackers!Goes(c, "done") \/ Trackers!Goes(c, "failed")
        /\ UNCHANGED <<provider, site, crossed>>
    BY <1>25 DEF Trackers!AddsEdge, Trackers!AnswerLost, Trackers!Edge, Trackers!history
  <2>2. forgotten' \in BOOLEAN /\ (forgotten => forgotten')
        /\ (~ forgotten' /\ provider # "github" => edges' \subseteq known')
    <3>1. CASE Trackers!AddsEdge(c)
      BY <1>1, <1>2, <3>1 DEF Trackers!AddsEdge, Trackers!Edge, Trackers!history
    <3>2. CASE Trackers!AnswerLost(c)
      <4>1. forgotten' = (forgotten \/ provider # "github")
        BY <3>2 DEF Trackers!AnswerLost
      <4> QED BY <1>1, <4>1
    <3> QED BY <1>25, <3>1, <3>2
  <2>3. Trackers!Depending(c)
    BY <2>1 DEF Trackers!Depending, Trackers!InFlight
  <2>4. asks[c].task \in There /\ asks[c].on \in Issues
    BY <1>2, <2>1, <2>3 DEF IsAdding, Trackers!Depending
  <2>5. edges' \subseteq Trackers!Edges /\ \A e \in edges' : e[1] \in There
    BY <1>1, <1>2, <2>1, <2>4 DEF Trackers!Edges
  <2>6. There' = There
    BY <2>1 DEF There
  <2>7. Blind => Blind'
    BY <2>1, <2>2, <2>6 DEF Blind
  <2>8. ~ Blind' => ~ Trackers!WaitsInCircle(edges')
    BY <1>2, <1>21, <2>1, <2>7, NoNewCircle DEF Trackers!Cyclic
  <2>9. /\ asks' \in [Calls -> AskRecords]
        /\ \A d \in Calls : asks'[d] = asks[d] \/ ~ Trackers!InFlight(d)'
        /\ ~ crossed => \A d \in Calls : ~ Trackers!Depending(d)'
    BY <1>24, <2>1, <2>3
  <2> QED BY <1>1, <2>1, <2>2, <2>5, <2>8, <2>9, EdgesKeep
<1>26. ASSUME NEW c \in Calls, Trackers!RemovesEdge(c)
       PROVE  TrackerInv'
  <2>1. /\ asks[c].at = "writing" /\ asks[c].op = "remove" /\ edges' \subseteq edges
        /\ Trackers!Goes(c, "done") /\ UNCHANGED <<provider, site, known, crossed, forgotten>>
    BY <1>26 DEF Trackers!RemovesEdge, Trackers!history
  <2>2. Trackers!Depending(c)
    BY <2>1 DEF Trackers!Depending, Trackers!InFlight
  <2>3. There' = There /\ (Blind' <=> Blind)
    BY <2>1 DEF There, Blind
  <2>4. ~ Blind' => ~ Trackers!WaitsInCircle(edges')
    BY <1>2, <2>1, <2>3, FewerCircles DEF Trackers!Cyclic
  <2>5. /\ asks' \in [Calls -> AskRecords]
        /\ \A d \in Calls : asks'[d] = asks[d] \/ ~ Trackers!InFlight(d)'
        /\ ~ crossed => \A d \in Calls : ~ Trackers!Depending(d)'
    BY <1>24, <2>1, <2>2
  <2>6. ~ forgotten' /\ provider # "github" => edges' \subseteq known'
    BY <1>2, <2>1
  <2> QED BY <1>1, <1>2, <2>1, <2>4, <2>5, <2>6, EdgesKeep
<1>27. ASSUME NEW c \in Calls, Trackers!Fails(c)
       PROVE  TrackerInv'
  BY <1>27, EndKeeps DEF Trackers!Fails, Trackers!history
<1>28. ASSUME NEW i \in Issues, NEW d \in Issues, Trackers!PersonLinks(i, d)
       PROVE  TrackerInv'
  <2>1. /\ site[i].there /\ ~ Trackers!WouldCreateCycle(edges, i, d) /\ edges' = edges \cup {<<i, d>>}
        /\ Trackers!NotesOverlap /\ forgotten' = (forgotten \/ provider # "github")
        /\ UNCHANGED <<provider, site, known, asks>>
    BY <1>28 DEF Trackers!PersonLinks
  <2>2. forgotten' \in BOOLEAN /\ (forgotten => forgotten') /\ (provider # "github" => forgotten')
    BY <1>1, <2>1
  <2>3. edges' \subseteq Trackers!Edges /\ \A e \in edges' : e[1] \in There
    BY <1>1, <1>2, <2>1 DEF Trackers!Edges, There
  <2>4. There' = There
    BY <2>1 DEF There
  <2>5. Blind => Blind'
    BY <1>14, <2>1, <2>2, <2>4 DEF Blind
  <2>6. ~ Blind' => ~ Trackers!WaitsInCircle(edges')
    BY <1>2, <2>1, <2>5, NoNewCircle DEF Trackers!Cyclic
  <2>7. ~ crossed' => \A c \in Calls : ~ Trackers!Depending(c)'
    BY <1>14, <2>1 DEF Trackers!Depending, Trackers!InFlight
  <2> QED BY <1>1, <1>14, <2>1, <2>2, <2>3, <2>6, <2>7, EdgesKeep
<1>29. CASE Trackers!Restart
  <2> DEFINE rest == [Trackers!NewCall EXCEPT !.at = "failed"]
  <2>1. /\ known' = {} /\ forgotten' = (forgotten \/ (provider # "github" /\ edges # {}))
        /\ asks' = [c \in Calls |-> IF Trackers!InFlight(c) THEN rest ELSE asks[c]]
        /\ UNCHANGED <<provider, site, edges, edits, crossed>>
    BY <1>29 DEF Trackers!Restart
  <2>2. rest \in AskRecords /\ rest.at = "failed"
    BY <1>3, AsksChange DEF Trackers!Ats
  <2> HIDE DEF rest
  <2>3. asks' \in [Calls -> AskRecords]
    BY <1>1, <2>1, <2>2
  <2>4. \A c \in Calls : ~ Trackers!InFlight(c)'
    BY <1>1, <2>1, <2>2 DEF Trackers!InFlight
  <2>5. forgotten' \in BOOLEAN /\ (forgotten => forgotten')
        /\ (~ forgotten' /\ provider # "github" => edges' \subseteq known')
    BY <1>1, <2>1
  <2>6. There' = There
    BY <2>1 DEF There
  <2>7. Blind => Blind'
    BY <2>1, <2>5, <2>6 DEF Blind
  <2>8. ~ Blind' => ~ Trackers!WaitsInCircle(edges')
    BY <1>2, <2>1, <2>7 DEF Trackers!Cyclic
  <2>9. \A c \in Calls : ~ Trackers!Depending(c)'
    BY <2>4 DEF Trackers!Depending
  <2> QED BY <1>1, <1>2, <2>1, <2>3, <2>4, <2>5, <2>8, <2>9, EdgesKeep
<1>30. /\ {"ready", "area"} \in SUBSET Trackers!Labels /\ {} \in SUBSET Trackers!Labels
       /\ "ready" \in Trackers!Columns /\ "completed" \in Trackers!Columns
  BY DEF Trackers!Labels, Trackers!Dk, Trackers!Columns
<1> QED BY <1>4, <1>6, <1>7, <1>10, <1>11, <1>12, <1>13, <1>16, <1>17, <1>18, <1>19, <1>20, <1>22,
           <1>23, <1>25, <1>26, <1>27, <1>28, <1>29, <1>30 DEF Trackers!TrackerNext

\* ... in every behaviour of the services.
LEMMA TrackerInductive == ServicesSpec => []TrackerInv
<1>1. TrackerInv /\ [ServicesNext]_servicesVars => TrackerInv'
  BY TrackersKeep, EachTakesItsSteps
<1> QED BY <1>1, TrackersStart, PTL DEF ServicesSpec

\* Dependencies form no cycle, for any issues and however calls and people interleave, unless
\* two changes crossed, the adapter's memory has a gap, or GitHub's listing does not hold all
\* issues (tracker contracts.ts wouldCreateCycle, github-issues.ts, linear.ts, jira.ts).
THEOREM CyclesAreKeptOut == ServicesSpec => []CyclesNeedABlindSpot
<1>1. ASSUME TrackerInv
      PROVE  CyclesNeedABlindSpot
  <2>1. Trackers!Cyclic => Blind
    BY <1>1 DEF TrackerInv
  <2>2. Trackers!Cardinality({i \in Issues : site[i].there}) = Cardinality(There)
    BY SizesAreSizes DEF There
  <2> QED BY <2>1, <2>2 DEF Blind, CyclesNeedABlindSpot, Trackers!CyclesNeedABlindSpot
<1> QED BY <1>1, TrackerInductive, PTL

=================================================================================
