------------------------------ MODULE MCServices ------------------------------
(* Instances of the services around the loop, which share no state: a behaviour  *)
(* is one of a single service, the part that is explored in it, and the others   *)
(* rest. Together they would only multiply their states. The approval gate is    *)
(* extended, so that what is checked of it is what ApprovalGateProofs proves.    *)
EXTENDS ApprovalGate, Integers

CONSTANTS
  \* HarnessFailover
  Candidates, Restorable, FollowUps, First, NoPrompt, p,
  \* CliHarness
  CliSessions, s1, s2,
  \* ProjectConfig
  Profiles, Roles, DefaultRole, Edits, EditRequests, InitialFile, Unset, File, Empty, Mixed,
  q, coder, verifier, e1, e2, e3, e4,
  \* Capabilities
  CapPlans, Playwright, Ensurers, NoCapPlan, forBrowser, forDevices,
  \* OpenClawSocket
  Requests, MaxSockets, MaxRetries,
  \* ChatLinks
  Senders, MaxAdapters, MaxAttempts, Nobody, s3,
  \* TaskTrackers
  Issues, Initial, PageSize, Calls, Statuses, MaxEdits,
  \* WhatsAppLink
  Texts, Polls, Page, EchoWindow, KeptFor, MaxMessages, MaxNow, MaxLives,
  \* VerificationRuns
  Testers, Recorder, MaxRuns, MaxBreaks

VARIABLES
  part,
  phase, at, index, inner, watched, switching, input, unsent, failing, tried, public,
  adapter, stage, session, aborted, version, files, child, killed, stdin, outcome, listening,
  heard,
  request, draft, validated, path, tmp, fd, content, daemon,
  planning, approval, worded, memory, loaded, planFile, saving, ensuring, tool, overlapped,
  opened, sock, promise, byTimer, ws, connected, connecting, timer, attempts, handshakes,
  req, via, destroyed, refusal,
  sender, started, starting, other, made, entry, holds, bot, up, stopped, retry, tries, raced,
  provider, site, edges, known, asks, edits, crossed, forgotten,
  now, life, posting, chat, recent, seen, lastSeen, pages, handled, uses, written,
  mem, file, attempt, created, fileRead, reading, queue, writing, broken, client, overtaken, left

failoverVars == <<phase, at, index, inner, watched, switching, input, unsent, failing, tried, public>>
cliVars == <<adapter, stage, session, aborted, version, files, child, killed, stdin, outcome, listening,
            heard>>
configVars == <<request, draft, validated, path, tmp, fd, content, daemon>>
capVars == <<planning, approval, worded, memory, loaded, planFile, saving, ensuring, tool, overlapped>>
clawVars == <<opened, sock, promise, byTimer, ws, connected, connecting, timer, attempts, handshakes,
             req, via, destroyed, refusal>>
linkVars == <<sender, started, starting, other, made, entry, holds, bot, up, stopped, retry, tries, raced>>
trackerVars == <<provider, site, edges, known, asks, edits, crossed, forgotten>>
whatsappVars == <<now, life, posting, chat, recent, seen, lastSeen, pages, handled, uses, written>>
verdictVars == <<mem, file, attempt, created, fileRead, reading, queue, writing, broken, client,
                overtaken, left>>

Failover == INSTANCE HarnessFailover
Cli == INSTANCE CliHarness
Config == INSTANCE ProjectConfig
Caps == INSTANCE Capabilities
Claw == INSTANCE OpenClawSocket
Links == INSTANCE ChatLinks WITH Callers <- Senders, call <- sender
Trackers == INSTANCE TaskTrackers
WhatsApp == INSTANCE WhatsAppLink
Verdicts == INSTANCE VerificationRuns
              WITH People <- Testers, Daemon <- Recorder, MaxCalls <- MaxRuns, MaxFaults <- MaxBreaks,
                   None <- Nobody, loaded <- fileRead, call <- client

ASSUME ServicesAssumption ==
  /\ Failover!FailoverAssumption /\ Config!ConfigAssumption /\ Claw!ClawAssumption
  /\ Links!LinksAssumption /\ Verdicts!VerificationAssumption
  /\ Trackers!TrackersAssumption /\ WhatsApp!WhatsAppAssumption

Rest(one) ==
  /\ one # "failover" => UNCHANGED failoverVars
  /\ one # "cli" => UNCHANGED cliVars
  /\ one # "config" => UNCHANGED configVars
  /\ one # "capabilities" => UNCHANGED capVars
  /\ one # "claw" => UNCHANGED clawVars
  /\ one # "links" => UNCHANGED linkVars
  /\ one # "trackers" => UNCHANGED trackerVars
  /\ one # "whatsapp" => UNCHANGED whatsappVars
  /\ one # "verdicts" => UNCHANGED verdictVars
  /\ one # "gate" => UNCHANGED vars
Only(one) == part = one /\ UNCHANGED part /\ Rest(one)

ServicesInit ==
  /\ part \in {"failover", "cli", "config", "capabilities", "claw", "links", "trackers", "whatsapp",
             "verdicts", "gate"}
  /\ Failover!Init /\ Cli!Init /\ Config!Init /\ Caps!Init /\ Claw!Init /\ Links!Init
  /\ Trackers!Init /\ WhatsApp!Init /\ Verdicts!Init /\ Init
  /\ part # "cli" => adapter = [s \in CliSessions |-> "native"]
  /\ part # "trackers" => provider = "github"

ServicesNext ==
  \/ Only("failover") /\ Failover!FailoverNext
  \/ Only("cli") /\ Cli!CliNext
  \/ Only("config") /\ Config!ConfigNext
  \/ Only("capabilities") /\ Caps!CapNext
  \/ Only("claw") /\ Claw!ClawNext
  \/ Only("links") /\ Links!LinkNext
  \/ Only("trackers") /\ Trackers!TrackerNext
  \/ Only("whatsapp") /\ WhatsApp!WhatsAppNext
  \/ Only("verdicts") /\ Verdicts!Next
  \/ Only("gate") /\ Next

servicesVars == <<part, failoverVars, cliVars, configVars, capVars, clawVars, linkVars, trackerVars,
          whatsappVars, verdictVars, vars>>
ServicesSpec == ServicesInit /\ [][ServicesNext]_servicesVars
-------------------------------------------------------------------------------
Role(profile, overrides, fallbacks) ==
  [profile |-> profile, overrides |-> overrides, fallbacks |-> fallbacks]

\* One role on one managed profile, and four requests: a second role with a fallback, the
\* removal of its profile, a profile of the user's, and a verification profile.
File0 ==
  [version |-> 0, profiles |-> [x \in {p, q} |-> "managed"],
   roles |-> [x \in {coder, verifier} |-> IF x = coder THEN Role(p, "none", {}) ELSE Unset],
   workflow |-> {coder}, verification |-> Unset]
TheEdits == [r \in {e1, e2, e3, e4} |->
  CASE r = e1 -> [section |-> "roles", id |-> verifier, to |-> Role(q, "supported", {p})]
    [] r = e2 -> [section |-> "profiles", id |-> q, to |-> Unset]
    [] r = e3 -> [section |-> "profiles", id |-> q, to |-> "user"]
    [] r = e4 -> [section |-> "verification", id |-> Unset, to |-> [verifier |-> Unset, injects |-> "mcp"]]]

ThreeCandidates == 1..3
FirstAndLast == {1, 3}
-------------------------------------------------------------------------------
\* HarnessFailover: failover-runtime.ts reports a want of quota only when the chain is used up.
QuotaSurfacesLast == Failover!QuotaSurfacesLast
\* CliHarness: a session of a command-line harness ends once, also when it is cancelled.
OneEnd == Cli!OneEnd
\* CliHarness: process-execution and harness-deepseek leave no file with a prompt behind.
PromptIsRemoved == Cli!PromptIsRemoved
\* ProjectConfig: what config-store.ts saves is what the next start of the daemon runs with.
SavedConfigRoutes == Config!SavedConfigRoutes
\* Capabilities: ensureManaged installs what a person approved.
InstalledWasApproved == Caps!InstalledWasApproved
\* Capabilities: a plan that was returned can be approved after a restart.
ReturnedPlansSurvive == Caps!ReturnedPlansSurvive
\* OpenClawSocket and ChatLinks: a link that is down is being rebuilt.
LinksKeepTrying == Claw!KeepsTrying /\ Links!AdapterKeepsTrying
\* ChatLinks: unified-channel-transport.ts has one adapter poll the bot.
OnePoller == Links!OnePoller
\* TaskTrackers: the check for cycles in addDependency fails only where it cannot look.
CyclesNeedABlindSpot == Trackers!CyclesNeedABlindSpot
\* WhatsAppLink: ingestMessage does not take Dark Kitchen's messages for answers.
EchoesAreNotReplies == WhatsApp!EchoesAreNotReplies
\* VerificationRuns: what durable-service.ts has written of a verdict stays.
VerdictsLast == Verdicts!VerdictsLast
===============================================================================
