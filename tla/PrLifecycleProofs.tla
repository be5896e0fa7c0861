--------------------------- MODULE PrLifecycleProofs ---------------------------
(***************************************************************************)
(* What the lifecycle of a pull request guarantees for any results, checks, *)
(* policies and bounds, whatever fails and whoever works on the branch.    *)
(***************************************************************************)
EXTENDS PrLifecycle, SequenceTheorems, WellFoundedInduction, TLAPS

(***************************************************************************)
(* The branch's pull requests                                              *)
(***************************************************************************)

PullRequests == [state : {"open", "closed", "merged"}, head : 0 .. MaxHead]

\* A set of naturals has a least one,
LEMMA Least ==
  ASSUME NEW T, T \subseteq Nat, T # {}
  PROVE  \E x \in T : \A y \in T : x <= y
<1> DEFINE R == {ss \in Nat \X Nat : ss[1] < ss[2]}
<1>1. IsWellFoundedOn(R, Nat)
  BY NatLessThanWellFounded DEF OpToRel
<1>2. \A x, y \in Nat : <<y, x>> \in R <=> y < x
  OBVIOUS
<1>3. \E x \in T : \A y \in T : ~(<<y, x>> \in R)
  <2> HIDE DEF R
  <2> QED BY <1>1, WFMin
<1>4. PICK x \in T : \A y \in T : ~(y < x)
  <2> HIDE DEF R
  <2> QED BY <1>2, <1>3
<1> QED BY <1>4

\* ... so a set of indices that is not empty has a newest.
LEMMA HasNewest ==
  ASSUME NEW n \in Nat, NEW S \in SUBSET (1 .. n), S # {}
  PROVE  Newest(S) \in S /\ \A j \in S : j <= Newest(S)
<1> DEFINE T == {n - i : i \in S}
<1>1. T \subseteq Nat /\ T # {}
  OBVIOUS
<1>2. PICK x \in T : \A y \in T : x <= y
  <2> HIDE DEF T
  <2> QED BY <1>1, Least
<1>3. PICK m \in S : x = n - m
  BY <1>2
<1>4. ASSUME NEW j \in S PROVE j <= m
  <2>1. n - m <= n - j
    BY <1>2, <1>3
  <2> QED BY <2>1
<1>5. \E i \in S : \A j \in S : j <= i
  BY <1>4
<1> QED BY <1>5 DEF Newest

\* The steps of the merge loop, where the policy named checks to wait for, and
\* those that know their pull request.
Merging == {"probe", "conflict", "poll", "recheck", "refresh", "validate", "compare", "merge"}
Known == Merging \cup {"update", "verify"}

\* What each step relies on, whatever the branch, CI and people did since.
PrInv ==
  /\ TypeOK
  /\ Len(prs) <= MaxPrs
  /\ pc # "idle" => Refusal(result) = "none"
  /\ pc \in Known => pr \in 1 .. Len(prs)
  /\ pc \in Merging => RequiredChecks # {}
  /\ pc = "post" => InState("open") = {} /\ InState("merged") = {}
  /\ pc = "close" => result.noCode \/ (pr \in 1 .. Len(prs) /\ prs[pr].state = "merged")
  /\ pc \in {"delete", "release"} => tracker = "completed"

\* A pull request that is reused is the branch's, and open or merged; without one
\* the branch has neither.
LEMMA ReusableIs ==
  ASSUME TypeOK
  PROVE  /\ Len(prs) \in Nat /\ \A i \in 1 .. Len(prs) : prs[i] \in PullRequests
         /\ Reusable \in 0 .. Len(prs)
         /\ Reusable # 0 => prs[Reusable].state \in {"open", "merged"}
         /\ Reusable = 0 => InState("open") = {} /\ InState("merged") = {}
<1>1. prs \in Seq(PullRequests)
  BY DEF TypeOK, PullRequests
<1>2. Len(prs) \in Nat /\ \A i \in 1 .. Len(prs) : prs[i] \in PullRequests
  BY <1>1, ElementOfSeq, LenProperties
<1>3. ASSUME NEW st, InState(st) # {}
      PROVE  Newest(InState(st)) \in 1 .. Len(prs) /\ prs[Newest(InState(st))].state = st
  <2>1. InState(st) \in SUBSET (1 .. Len(prs))
    BY DEF InState
  <2>2. Newest(InState(st)) \in InState(st)
    BY <1>2, <1>3, <2>1, HasNewest
  <2> QED BY <2>2 DEF InState
<1>4. CASE InState("open") # {}
  BY <1>2, <1>3, <1>4 DEF Reusable
<1>5. CASE InState("open") = {} /\ InState("merged") # {}
  BY <1>2, <1>3, <1>5 DEF Reusable
<1>6. CASE InState("open") = {} /\ InState("merged") = {}
  BY <1>2, <1>6 DEF Reusable
<1> QED BY <1>4, <1>5, <1>6

\* Pull requests are added and change state, and a merged one stays merged.
PrsGrow ==
  /\ prs' \in Seq(PullRequests) /\ Len(prs') <= MaxPrs /\ Len(prs) <= Len(prs')
  /\ \A i \in 1 .. Len(prs) : prs[i].state = "merged" => prs'[i].state = "merged"

\* A step adds at most one pull request and keeps the rest in place.
LEMMA PrsAreChanged ==
  ASSUME PrInv, [Next]_vars
  PROVE  PrsGrow
<1> USE DEF remote, local, vars
<1>1. /\ prs \in Seq(PullRequests) /\ Len(prs) \in Nat /\ MaxPrs \in Nat /\ Len(prs) <= MaxPrs
      /\ head \in 0 .. MaxHead /\ MaxHead \in Nat /\ \A i \in 1 .. Len(prs) : prs[i] \in PullRequests
  BY ReusableIs, PrAssumption DEF PrInv, TypeOK, PullRequests, PrAssumption
<1>2. ASSUME NEW i \in 1 .. Len(prs), NEW p \in PullRequests, prs' = [prs EXCEPT ![i] = p],
             prs[i].state = "merged" => p.state = "merged"
      PROVE  PrsGrow
  BY <1>1, <1>2, ExceptSeq DEF PrsGrow
<1>3. CASE prs' = prs
  BY <1>1, <1>3 DEF PrsGrow
<1>4. CASE Post
  <2> DEFINE new == [state |-> "open", head |-> 0]
  <2>1. new \in PullRequests /\ prs' = Append(prs, new) /\ Len(prs) < MaxPrs
    BY <1>1, <1>4 DEF Post, PullRequests
  <2> HIDE DEF new
  <2> QED BY <1>1, <2>1, AppendProperties DEF PrsGrow
<1>5. ASSUME NEW i \in 1 .. Len(prs), prs' = [prs EXCEPT ![i] = [state |-> "merged", head |-> head]]
      PROVE  PrsGrow
  <2> DEFINE p == [state |-> "merged", head |-> head]
  <2>1. p \in PullRequests /\ p.state = "merged"
    BY <1>1 DEF PullRequests
  <2> QED BY <1>2, <1>5, <2>1
<1>6. ASSUME NEW i \in InState("open"), prs' = [prs EXCEPT ![i].state = "closed"]
      PROVE  PrsGrow
  <2> DEFINE p == [prs[i] EXCEPT !.state = "closed"]
  <2>1. p \in PullRequests /\ i \in 1 .. Len(prs) /\ prs[i].state # "merged"
    BY <1>1, <1>6 DEF PullRequests, InState
  <2>2. prs' = [prs EXCEPT ![i] = p]
    BY <1>6
  <2> QED BY <1>2, <2>1, <2>2
<1>7. CASE Merge
  BY <1>5, <1>7 DEF Merge, PrInv, Known, Merging
<1>8. CASE SomebodyReviews
  BY <1>5, <1>6, <1>8 DEF SomebodyReviews, InState
<1>9. CASE \E r \in Results, policy \in Policies : Start(r, policy)
  BY <1>3, <1>9 DEF Start
<1> QED BY <1>3, <1>4, <1>7, <1>8, <1>9
        DEF Next, Step, Same, Find, Create, UpdateBody, Probe, BaseMerged, ConflictRemains, Poll,
            Recheck, Refresh, ValidateChecks, CompareHead, MergeRejected, VerifyMerged, CloseTracker,
            Delete, Release, CallFails, Dies, Environment, CheckMoves, BaseMoves, SomebodyPushes,
            SomebodyReopens

(***************************************************************************)
(* Types                                                                   *)
(***************************************************************************)

\* The types are kept.
LEMMA PrTypeNext ==
  ASSUME PrInv, [Next]_vars
  PROVE  TypeOK'
<1> USE DEF remote, local, vars, Goto, Return
<1>0. /\ TypeOK /\ MaxPrs \in Nat /\ MaxHead \in Nat /\ MaxAttempts \in Nat \ {0} /\ Len(prs) \in Nat
      /\ Len(prs) <= MaxPrs /\ Policies \subseteq BOOLEAN /\ MaxStarts \in Nat
  BY ReusableIs, PrAssumption DEF PrInv, PrAssumption
<1>1. prs' \in Seq([state : {"open", "closed", "merged"}, head : 0 .. MaxHead])
  BY PrsAreChanged DEF PrsGrow, PullRequests
<1>2. Reusable \in 0 .. MaxPrs
  BY <1>0, ReusableIs
<1>3. ASSUME NEW r \in Results, NEW policy \in Policies, Start(r, policy)
      PROVE  TypeOK'
  <2>1. head' \in 0 .. MaxHead /\ top' \in 0 .. MaxHead /\ own' \in 0 .. MaxHead
    BY <1>0, <1>3 DEF Start, Pushed, TypeOK
  <2>2. starts' \in 0 .. MaxStarts /\ pc' \in Pcs /\ end' \in Ends
    BY <1>0, <1>3 DEF Start, Refusal, TypeOK, Pcs, Ends
  <2>3. attempt' \in 0 .. (MaxAttempts - 1) /\ pr' \in 0 .. MaxPrs /\ polled' = [failed |-> {}, pending |-> {}]
    BY <1>0, <1>3 DEF Start, NothingPolled
  <2> QED BY <1>0, <1>1, <1>3, <2>1, <2>2, <2>3 DEF Start, TypeOK
<1>4. ASSUME NEW state, Decide(state) PROVE pc' \in Pcs /\ end' \in Ends
  BY <1>0, <1>4 DEF Decide, TypeOK, Pcs, Ends
<1>5. CASE Find \/ Create \/ UpdateBody
  <2>1. pc' \in Pcs /\ end' \in Ends
    BY <1>0, <1>4, <1>5 DEF Find, Create, UpdateBody, TypeOK, Pcs, Ends
  <2> QED BY <1>0, <1>1, <1>2, <1>5, <2>1 DEF Find, Create, UpdateBody, Same, TypeOK
<1>6. CASE Post
  <2>1. pc' \in Pcs /\ end' \in Ends
    BY <1>4, <1>6 DEF Post
  <2>2. pr' \in 0 .. MaxPrs
    BY <1>0, <1>6 DEF Post
  <2> QED BY <1>0, <1>1, <1>6, <2>1, <2>2 DEF Post, TypeOK
<1>7. CASE Probe \/ ConflictRemains \/ ValidateChecks \/ CompareHead \/ MergeRejected \/ VerifyMerged
           \/ Refresh
  <2>1. CASE Probe \/ ConflictRemains \/ MergeRejected
    <3>1. pc' \in Pcs /\ end' \in Ends
      BY <1>0, <2>1 DEF Probe, ConflictRemains, MergeRejected, TypeOK, Pcs, Ends
    <3>2. Same /\ UNCHANGED <<pr, attempt, lastHead, polled, expected>>
      BY <2>1 DEF Probe, ConflictRemains, MergeRejected
    <3> QED BY <1>0, <1>1, <3>1, <3>2 DEF Same, TypeOK
  <2>2. CASE ValidateChecks \/ CompareHead \/ VerifyMerged
    <3>1. pc' \in Pcs /\ end' \in Ends
      BY <1>0, <2>2 DEF ValidateChecks, CompareHead, VerifyMerged, Verified, TypeOK, Pcs, Ends
    <3>2. Same /\ UNCHANGED <<pr, attempt, lastHead, polled, expected>>
      BY <2>2 DEF ValidateChecks, CompareHead, VerifyMerged
    <3> QED BY <1>0, <1>1, <3>1, <3>2 DEF Same, TypeOK
  <2>3. CASE Refresh
    <3>1. pc' \in Pcs /\ end' \in Ends /\ expected' \in 0 .. MaxHead
      BY <1>0, <2>3 DEF Refresh, TypeOK, Pcs
    <3> QED BY <1>0, <1>1, <2>3, <3>1 DEF Refresh, Same, TypeOK
  <2> QED BY <1>7, <2>1, <2>2, <2>3
<1>8. CASE BaseMerged
  <2>1. attempt' \in 0 .. (MaxAttempts - 1) /\ top + 1 \in 0 .. MaxHead
    BY <1>0, <1>8 DEF BaseMerged, NextAttempt, TypeOK
  <2> QED BY <1>0, <1>1, <1>8, <2>1 DEF BaseMerged, AfterBaseMerge, TypeOK, Pcs
<1>9. CASE Poll
  <2>1. polled' \in [failed : SUBSET RequiredChecks, pending : SUBSET RequiredChecks]
    BY <1>9 DEF Poll
  <2>2. lastHead' \in 0 .. MaxHead /\ pc' \in Pcs /\ end' \in Ends
    BY <1>0, <1>9 DEF Poll, TypeOK, Pcs
  <2> QED BY <1>0, <1>1, <1>9, <2>1, <2>2 DEF Poll, Same, TypeOK
<1>10. CASE Recheck
  <2>1. attempt' \in 0 .. (MaxAttempts - 1) /\ lastHead' \in 0 .. MaxHead
    BY <1>0, <1>10 DEF Recheck, MayPollAgain, NextAttempt, TypeOK
  <2> QED BY <1>0, <1>1, <1>10, <2>1 DEF Recheck, Same, TypeOK, Pcs, Ends
<1>11. CASE Merge \/ CloseTracker \/ Delete \/ Release
  <2>1. pc' \in Pcs /\ end' \in Ends
    BY <1>0, <1>11 DEF Merge, CloseTracker, Delete, Release, TypeOK, Pcs, Ends
  <2>2. CASE Merge
    BY <1>0, <1>1, <2>1, <2>2 DEF Merge, TypeOK
  <2>3. CASE CloseTracker \/ Release
    BY <1>0, <1>1, <2>1, <2>3 DEF CloseTracker, Release, TypeOK
  <2>4. CASE Delete
    BY <1>0, <1>1, <2>1, <2>4 DEF Delete, TypeOK
  <2> QED BY <1>11, <2>2, <2>3, <2>4
<1>12. CASE CallFails \/ Dies
  <2>1. pc' \in Pcs /\ end' \in Ends
    BY <1>12 DEF CallFails, Dies, Reported, Pcs, Ends
  <2> QED BY <1>0, <1>1, <1>12, <2>1 DEF CallFails, Dies, Same, TypeOK
<1>13. CASE CheckMoves
  <2>1. PICK c \in RequiredChecks :
          \E e \in {<<"missing", "running">>, <<"running", "passed">>, <<"running", "failed">>,
                    <<"failed", "running">>} :
            checks[head][c] = e[1] /\ checks' = [checks EXCEPT ![head][c] = e[2]]
    BY <1>13 DEF CheckMoves
  <2>2. \E to \in CheckStatuses : checks' = [checks EXCEPT ![head][c] = to]
    <3>1. PICK e \in {<<"missing", "running">>, <<"running", "passed">>, <<"running", "failed">>,
                      <<"failed", "running">>} :
            checks' = [checks EXCEPT ![head][c] = e[2]]
      BY <2>1
    <3>2. e[2] \in CheckStatuses
      BY DEF CheckStatuses
    <3> QED BY <3>1, <3>2
  <2>3. checks' \in [1 .. MaxHead -> [RequiredChecks -> CheckStatuses]]
    <3>1. head \in 1 .. MaxHead
      BY <1>0, <1>13 DEF CheckMoves, TypeOK
    <3>2. checks \in [1 .. MaxHead -> [RequiredChecks -> CheckStatuses]]
      BY <1>0 DEF TypeOK
    <3> QED BY <2>2, <3>1, <3>2
  <2> QED BY <1>0, <1>1, <1>13, <2>3 DEF CheckMoves, TypeOK
<1>14. CASE BaseMoves \/ SomebodyPushes \/ SomebodyReviews \/ SomebodyReopens
  <2>1. CASE BaseMoves \/ SomebodyReviews \/ SomebodyReopens
    BY <1>0, <1>1, <2>1 DEF BaseMoves, SomebodyReviews, SomebodyReopens, TypeOK
  <2>2. CASE SomebodyPushes
    <3>1. top + 1 \in 0 .. MaxHead
      BY <1>0, <2>2 DEF SomebodyPushes, TypeOK
    <3> QED BY <1>0, <1>1, <2>2, <3>1 DEF SomebodyPushes, TypeOK
  <2> QED BY <1>14, <2>1, <2>2
<1>15. CASE UNCHANGED vars
  BY <1>0, <1>1, <1>15 DEF TypeOK
<1> QED BY <1>3, <1>5, <1>6, <1>7, <1>8, <1>9, <1>10, <1>11, <1>12, <1>13, <1>14, <1>15
        DEF Next, Step, Environment

(***************************************************************************)
(* Control                                                                 *)
(***************************************************************************)

\* People and CI leave the lifecycle where it is.
Stays == UNCHANGED <<pc, local, worktree>> /\ (pc # "idle" => tracker' = tracker)

\* ... and with them the rest of the invariant, one step per call of the lifecycle.
LEMMA PrNext ==
  ASSUME PrInv, [Next]_vars
  PROVE  PrInv'
<1> USE DEF remote, local, vars, Goto, Return
<1>0. /\ TypeOK /\ TypeOK' /\ PrsGrow /\ Len(prs) \in Nat /\ Len(prs') \in Nat /\ Len(prs') <= MaxPrs
      /\ \A i \in 1 .. Len(prs) : i \in 1 .. Len(prs')
  <2>1. TypeOK /\ TypeOK' /\ PrsGrow
    BY PrTypeNext, PrsAreChanged DEF PrInv
  <2>2. prs \in Seq(PullRequests) /\ prs' \in Seq(PullRequests)
    BY <2>1 DEF PrsGrow, TypeOK, PullRequests
  <2>3. Len(prs) \in Nat /\ Len(prs') \in Nat /\ Len(prs) <= Len(prs') /\ Len(prs') <= MaxPrs
    BY <2>1, <2>2, LenProperties DEF PrsGrow
  <2> QED BY <2>1, <2>3
<1> DEFINE Parts ==
      /\ pc' # "idle" => Refusal(result') = "none"
      /\ pc' \in Known => pr' \in 1 .. Len(prs')
      /\ pc' \in Merging => RequiredChecks # {}
      /\ pc' = "post" => (InState("open") = {} /\ InState("merged") = {})'
      /\ pc' = "close" => result'.noCode \/ (pr' \in 1 .. Len(prs') /\ prs'[pr'].state = "merged")
      /\ pc' \in {"delete", "release"} => tracker' = "completed"
<1>1. SUFFICES Parts
  BY <1>0 DEF PrInv, Refusal, ProofsHold
<1> USE DEF Known, Merging
<1>2. ASSUME NEW r \in Results, NEW policy \in Policies, Start(r, policy)
      PROVE  Parts
  BY <1>2 DEF Start
<1>3. ASSUME NEW state, Decide(state), pr' \in 1 .. Len(prs'), result' = result, pc # "idle"
      PROVE  Parts
  BY <1>0, <1>3 DEF Decide, PrInv
<1>4. CASE Find \/ Create
  <2>1. Reusable # 0 => Reusable \in 1 .. Len(prs)
    BY <1>0, ReusableIs
  <2>2. CASE Reusable # 0 /\ \E state : Decide(state)
    BY <1>0, <1>3, <1>4, <2>1, <2>2 DEF Find, Create, Same
  <2>3. CASE Reusable # 0 /\ ~\E state : Decide(state)
    BY <1>0, <1>4, <2>1, <2>3 DEF Find, Create, Same, PrInv
  <2>4. CASE Reusable = 0
    BY <1>0, <1>4, <2>4, ReusableIs DEF Find, Create, Same, PrInv, InState
  <2> QED BY <2>2, <2>3, <2>4
<1>5. CASE Post
  <2>1. Len(prs') = Len(prs) + 1
    BY <1>0, <1>5, AppendProperties, ReusableIs DEF Post, TypeOK, PullRequests
  <2> QED BY <1>0, <1>3, <1>5, <2>1 DEF Post
<1>6. CASE UpdateBody
  BY <1>0, <1>3, <1>6 DEF UpdateBody, Same, PrInv
<1>7. CASE Probe \/ ConflictRemains \/ Poll \/ Recheck \/ Refresh \/ ValidateChecks \/ CompareHead
           \/ MergeRejected \/ VerifyMerged
  BY <1>0, <1>7 DEF Probe, ConflictRemains, Poll, Recheck, Refresh, ValidateChecks, CompareHead,
                    MergeRejected, VerifyMerged, Verified, Same, PrInv
<1>8. CASE BaseMerged
  BY <1>0, <1>8 DEF BaseMerged, AfterBaseMerge, PrInv
<1>9. CASE Merge
  BY <1>0, <1>9 DEF Merge, PrInv
<1>10. CASE CloseTracker \/ Delete \/ Release \/ CallFails \/ Dies
  BY <1>0, <1>10 DEF CloseTracker, Delete, Release, CallFails, Dies, Same, PrInv
<1>11. CASE Environment \/ UNCHANGED vars
  <2>1. Stays
    BY <1>11 DEF Environment, CheckMoves, BaseMoves, SomebodyPushes, SomebodyReviews,
                 SomebodyReopens, Stays
  <2>2. pc = "post" => prs' = prs
    BY <1>11 DEF Environment, CheckMoves, BaseMoves, SomebodyPushes, SomebodyReviews,
                 SomebodyReopens, PrInv
  <2> QED BY <1>0, <2>1, <2>2 DEF Stays, PrsGrow, PrInv, InState
<1> QED BY <1>2, <1>4, <1>5, <1>6, <1>7, <1>8, <1>9, <1>10, <1>11 DEF Next, Step

\* It holds before the first start.
LEMMA PrInit == Init => PrInv
<1>1. ASSUME Init PROVE TypeOK
  <2>1. checks \in [1 .. MaxHead -> [RequiredChecks -> CheckStatuses]]
    BY <1>1 DEF Init, Unreported, CheckStatuses
  <2>2. prs \in Seq([state : {"open", "closed", "merged"}, head : 0 .. MaxHead])
    BY <1>1, EmptySeq DEF Init
  <2>3. /\ head \in 0 .. MaxHead /\ top \in 0 .. MaxHead /\ own \in 0 .. MaxHead
        /\ lastHead \in 0 .. MaxHead /\ expected \in 0 .. MaxHead
        /\ pr \in 0 .. MaxPrs /\ attempt \in 0 .. (MaxAttempts - 1) /\ starts \in 0 .. MaxStarts
    BY <1>1, PrAssumption DEF Init, PrAssumption
  <2>4. autoMerge \in BOOLEAN /\ polled \in [failed : SUBSET RequiredChecks, pending : SUBSET RequiredChecks]
    BY <1>1, PrAssumption DEF Init, PrAssumption, NothingPolled
  <2> QED BY <1>1, <2>1, <2>2, <2>3, <2>4 DEF Init, TypeOK, Pcs, Ends
<1>2. ASSUME Init PROVE Len(prs) = 0 /\ MaxPrs \in Nat
  BY <1>2, EmptySeq, PrAssumption DEF Init, PrAssumption
<1>3. Init => Len(prs) <= MaxPrs
  BY <1>2
<1> QED BY <1>1, <1>3 DEF Init, PrInv, Known, Merging

\* The invariant of the module.
LEMMA PrInvariant == Spec => []PrInv
<1>1. Init => PrInv
  BY PrInit
<1>2. PrInv /\ [Next]_vars => PrInv'
  BY PrNext
<1> QED BY <1>1, <1>2, PTL DEF Spec

\* The lifecycle's state has its types, for all constants.
THEOREM LifecycleTypeCorrect == Spec => []TypeOK
<1>1. PrInv => TypeOK
  BY DEF PrInv
<1> QED BY <1>1, PrInvariant, PTL

(***************************************************************************)
(* What a step may never do                                                *)
(***************************************************************************)

\* However a run ended, a retry opens a second pull request only when nobody can
\* merge the earlier ones (findReusablePullRequest, createPullRequest).
THEOREM PullRequestsAreReused == Spec => NoDuplicatePr
<1>1. PrInv /\ [Next]_vars => (Len(prs') > Len(prs) => InState("open") = {} /\ InState("merged") = {})
  <2> SUFFICES ASSUME PrInv, [Next]_vars, Len(prs') > Len(prs)
               PROVE  InState("open") = {} /\ InState("merged") = {}
    OBVIOUS
  <2>1. prs \in Seq(PullRequests) /\ Len(prs) \in Nat
    BY ReusableIs DEF PrInv, TypeOK, PullRequests
  <2>2. CASE Post
    BY <2>2 DEF Post, PrInv
  <2>3. CASE prs' = prs \/ \E i \in 1 .. Len(prs) : \E p : prs' = [prs EXCEPT ![i] = p]
    BY <2>1, <2>3
  <2>4. CASE Merge
    BY <2>3, <2>4 DEF Merge, PrInv, Known, Merging
  <2>5. CASE SomebodyReviews
    BY <2>3, <2>5 DEF SomebodyReviews, InState
  <2> QED BY <2>2, <2>3, <2>4, <2>5
          DEF Next, Step, Same, Start, Find, Create, UpdateBody, Probe, BaseMerged, ConflictRemains,
              Poll, Recheck, Refresh, ValidateChecks, CompareHead, MergeRejected, VerifyMerged,
              CloseTracker, Delete, Release, CallFails, Dies, Environment, CheckMoves, BaseMoves,
              SomebodyPushes, SomebodyReopens, remote, local, vars
<1> QED BY <1>1, PrInvariant, PTL DEF Spec, NoDuplicatePr

\* Whatever fails, the branch and the worktree survive until the tracker's task is
\* completed (the order of run() after the merge).
THEOREM CleanupIsLast == Spec => CleanupComesLast
<1> DEFINE Cleans == (head' = 0 /\ head # 0) \/ (worktree' = "released" /\ worktree = "held")
<1>1. PrInv /\ [Next]_vars => (Cleans => tracker = "completed")
  <2> SUFFICES ASSUME PrInv, [Next]_vars, ~(Delete \/ Release) PROVE ~Cleans
    BY DEF PrInv, Delete, Release
  <2>1. head \in Nat /\ top \in Nat /\ own \in Nat
    BY PrAssumption DEF PrInv, TypeOK, PrAssumption
  <2>2. CASE \E r \in Results, policy \in Policies : Start(r, policy)
    BY <2>1, <2>2 DEF Start, Pushed
  <2>3. CASE BaseMerged \/ SomebodyPushes
    BY <2>1, <2>3 DEF BaseMerged, SomebodyPushes
  <2> QED BY <2>2, <2>3
          DEF Next, Step, Same, Find, Create, Post, UpdateBody, Probe, ConflictRemains, Poll, Recheck,
              Refresh, ValidateChecks, CompareHead, Merge, MergeRejected, VerifyMerged, CloseTracker,
              CallFails, Dies, Environment, CheckMoves, BaseMoves, SomebodyReviews, SomebodyReopens,
              remote, local, vars
<1> QED BY <1>1, PrInvariant, PTL DEF Spec, CleanupComesLast

\* A task is closed only with its blocking proofs and for a merged pull request or
\* a result without code, whoever pushes, reviews or reopens meanwhile.
THEOREM ClosingIsJustified == Spec => ClosedIsJustified
<1> DEFINE Justified ==
      /\ LET n == Len(result.proofs) IN
           VerificationRequired => n > 0 /\ result.proofs[n].passed /\ result.proofs[n].evidence
      /\ result.tests /\ result.review
      /\ (result.noCode \/ (pr # 0 /\ prs[pr].state = "merged"))
<1>1. PrInv /\ [Next]_vars => (Closes => Justified)
  <2> SUFFICES ASSUME PrInv, [Next]_vars, Closes PROVE Justified
    OBVIOUS
  <2>1. pc = "close"
    BY DEF Closes, Next, Step, Same, Start, Find, Create, Post, UpdateBody, Probe, BaseMerged,
           ConflictRemains, Poll, Recheck, Refresh, ValidateChecks, CompareHead, Merge, MergeRejected,
           VerifyMerged, CloseTracker, Delete, Release, CallFails, Dies, Environment, CheckMoves,
           BaseMoves, SomebodyPushes, SomebodyReviews, SomebodyReopens, remote, local, vars
  <2>2. Refusal(result) = "none" /\ (result.noCode \/ (pr \in 1 .. Len(prs) /\ prs[pr].state = "merged"))
    BY <2>1 DEF PrInv
  <2>3. result.tests /\ result.review /\ ProofsHold(result.proofs)
    BY <2>2 DEF Refusal
  <2> QED BY <2>2, <2>3 DEF ProofsHold
<1> QED BY <1>1, PrInvariant, PTL DEF Spec, ClosedIsJustified

\* As long as nobody else pushes to the branch, what a lifecycle merges has passed
\* every required check (pollChecks, then GitHubScm.merge's own look): a check that
\* passed stays passed, and only pushes move the branch between that look and the
\* merge. With pushes the head that is merged may be another one.
TestedInv == pc \in {"compare", "merge"} => head # 0 /\ \A c \in RequiredChecks : checks[head][c] = "passed"

\* What was found to have passed is still the head that is merged, if nobody pushes.
LEMMA TestedNext ==
  ASSUME ~Pushes, PrInv, TestedInv, [Next]_vars
  PROVE  TestedInv'
<1> USE DEF remote, local, vars, Goto, Return
<1>1. CASE UNCHANGED <<pc, head, checks>>
  BY <1>1 DEF TestedInv
<1>2. CASE CheckMoves
  <2> SUFFICES ASSUME pc \in {"compare", "merge"}, NEW d \in RequiredChecks
               PROVE  checks'[head][d] = "passed"
    BY <1>2 DEF CheckMoves, TestedInv
  <2>1. PICK c \in RequiredChecks :
          \E e \in {<<"missing", "running">>, <<"running", "passed">>, <<"running", "failed">>,
                    <<"failed", "running">>} :
            checks[head][c] = e[1] /\ checks' = [checks EXCEPT ![head][c] = e[2]]
    BY <1>2 DEF CheckMoves
  <2>2. PICK e \in {<<"missing", "running">>, <<"running", "passed">>, <<"running", "failed">>,
                    <<"failed", "running">>} :
          checks[head][c] = e[1] /\ checks' = [checks EXCEPT ![head][c] = e[2]]
    BY <2>1
  <2>3. checks[head][c] # "passed"
    BY <2>2
  <2>4. d # c /\ checks[head][d] = "passed"
    BY <2>3 DEF TestedInv
  <2>5. head \in 1 .. MaxHead /\ checks \in [1 .. MaxHead -> [RequiredChecks -> CheckStatuses]]
    BY <1>2, PrAssumption DEF CheckMoves, PrInv, TypeOK, PrAssumption
  <2> QED BY <2>2, <2>4, <2>5
<1>3. CASE ValidateChecks
  BY <1>3 DEF ValidateChecks, Validated, Same, TestedInv
<1>4. CASE CompareHead
  BY <1>4 DEF CompareHead, Same, TestedInv
<1>5. CASE pc' \notin {"compare", "merge"}
  BY <1>5 DEF TestedInv
<1> QED BY <1>1, <1>2, <1>3, <1>4, <1>5
        DEF Next, Step, Same, Start, Find, Create, Post, UpdateBody, Decide, Probe, BaseMerged,
            AfterBaseMerge, ConflictRemains, Poll, Recheck, Refresh, Merge, MergeRejected,
            VerifyMerged, Verified, CloseTracker, Delete, Release, CallFails, Dies, Environment,
            BaseMoves, SomebodyPushes, SomebodyReviews, SomebodyReopens

\* Only a head on which every required check has passed is merged, as long as nobody
\* pushes to the branch between the comparison and the merge: then the head the lifecycle
\* polled, compared and asked to merge is one commit, and checks that passed stay passed
\* (waitForChecks, merge). The hypothesis is needed: see MergeIsBound.
THEOREM MergedCodeIsTested ==
  ASSUME ~Pushes
  PROVE  Spec => MergesTestedCode
<1>1. Init => TestedInv
  BY DEF Init, TestedInv
<1>2. PrInv /\ TestedInv /\ [Next]_vars => TestedInv'
  BY TestedNext
<1>3. PrInv /\ TestedInv /\ [Next]_vars =>
        (Merges => head # 0 /\ RequiredChecks # {} /\ \A c \in RequiredChecks : checks[head][c] = "passed")
  BY DEF PrInv, TestedInv, Merging, Merges
<1> QED BY <1>1, <1>2, <1>3, PrInvariant, PTL DEF Spec, MergesTestedCode

(***************************************************************************)
(* The lifecycle implements Delivery                                       *)
(***************************************************************************)

\* The steps on the way from a result with code to its verified merge.
Coded == Pcs \ {"idle", "close", "delete", "release"}

\* At most one pull request of the branch is open or merged, so that the branch has one
\* state; a lifecycle that deals with pull requests has a result with code, which is on
\* the remote, whatever was deleted by the runs before it.
OneLive ==
  \A i, j \in 1 .. Len(prs) : prs[i].state # "closed" /\ prs[j].state # "closed" => i = j
DeliveryInv ==
  /\ PrInv /\ OneLive
  /\ pc # "idle" => starts # 0
  /\ pc \in Coded => ~result.noCode /\ head # 0

\* What is seen of the pull requests is the state of the one that is open or merged.
LEMMA RequestIs ==
  ASSUME DeliveryInv
  PROVE  /\ \A i \in 1 .. Len(prs) : prs[i].state # "closed" => Request = prs[i].state
         /\ (InState("open") = {} /\ InState("merged") = {}) => Request \in {"none", "closed"}
<1>1. \A i \in 1 .. Len(prs) : prs[i].state \in {"open", "closed", "merged"}
  BY ReusableIs DEF DeliveryInv, PrInv, PullRequests
<1>2. ASSUME NEW i \in 1 .. Len(prs), prs[i].state # "closed" PROVE Request = prs[i].state
  <2>1. CASE prs[i].state = "open"
    BY <2>1 DEF Request, InState
  <2>2. CASE prs[i].state = "merged"
    <3>1. InState("open") = {}
      BY <2>2 DEF InState, DeliveryInv, OneLive
    <3> QED BY <2>2, <3>1 DEF Request, InState
  <2> QED BY <1>1, <1>2, <2>1, <2>2
<1> QED BY <1>2 DEF Request

\* The same of the next state, for the steps that change a pull request in its place.
LEMMA RequestBecomes ==
  ASSUME DeliveryInv, NEW i \in InState("open"), NEW p \in PullRequests,
         p.state \in {"closed", "merged"}, prs' = [prs EXCEPT ![i] = p]
  PROVE  Request = "open" /\ Request' = p.state /\ OneLive'
<1>1. prs \in Seq(PullRequests) /\ Len(prs) \in Nat /\ i \in 1 .. Len(prs) /\ prs[i].state = "open"
  BY ReusableIs DEF DeliveryInv, PrInv, TypeOK, PullRequests, InState
<1>2. /\ Len(prs') = Len(prs) /\ prs'[i] = p
      /\ \A j \in 1 .. Len(prs) : j # i => prs'[j] = prs[j]
  BY <1>1, ExceptSeq
<1>3. \A j \in 1 .. Len(prs) : j # i => prs'[j].state = "closed"
  BY <1>1, <1>2 DEF DeliveryInv, OneLive
<1>4. OneLive'
  BY <1>2, <1>3 DEF OneLive
<1>5. InState("open")' = {}
  BY <1>2, <1>3 DEF InState
<1>6. CASE p.state = "merged"
  <2>1. i \in InState("merged")'
    BY <1>1, <1>2, <1>6 DEF InState
  <2> QED BY <1>1, <1>4, <1>5, <1>6, <2>1, RequestIs DEF Request
<1>7. CASE p.state = "closed"
  <2>1. InState("merged")' = {}
    BY <1>2, <1>3, <1>7 DEF InState
  <2>2. prs' # <<>>
    BY <1>1, <1>2
  <2> QED BY <1>1, <1>4, <1>5, <1>7, <2>1, <2>2, RequestIs DEF Request
<1> QED BY <1>6, <1>7

\* The steps that show nothing of what they do.
Unseen == UNCHANGED <<prs, tracker, starts, result, worktree>> /\ (head' = 0 <=> head = 0)

\* A step that shows nothing keeps the invariant on the branch and stutters.
LEMMA UnseenStep ==
  ASSUME DeliveryInv, Unseen
  PROVE  UNCHANGED Delivered!vars /\ OneLive'
<1>1. UNCHANGED <<Request, Outcome>> /\ OneLive'
  BY DEF Unseen, DeliveryInv, Request, Outcome, Refusal, ProofsHold, InState, OneLive
<1> QED BY <1>1 DEF Unseen, Delivered!vars

\* Every step of the lifecycle, CI and people is a step of Delivery or shows nothing.
LEMMA DeliveryStep ==
  ASSUME DeliveryInv, [Next]_vars
  PROVE  [Delivered!Next]_Delivered!vars /\ DeliveryInv'
<1> USE DEF remote, local, vars, Goto, Return
<1>0. /\ PrInv /\ PrInv' /\ TypeOK /\ OneLive /\ prs \in Seq(PullRequests) /\ Len(prs) \in Nat
      /\ head \in 0 .. MaxHead /\ top \in Nat /\ MaxHead \in Nat /\ starts \in Nat
  <2>1. PrInv /\ PrInv' /\ TypeOK /\ OneLive
    BY PrNext DEF DeliveryInv, PrInv
  <2>2. prs \in Seq(PullRequests) /\ Len(prs) \in Nat
    BY <2>1, ReusableIs DEF TypeOK, PullRequests
  <2>3. head \in 0 .. MaxHead /\ top \in Nat /\ MaxHead \in Nat /\ starts \in Nat
    BY <2>1, PrAssumption DEF TypeOK, PrAssumption
  <2> QED BY <2>1, <2>2, <2>3
<1> DEFINE Kept == /\ pc' # "idle" => starts' # 0
                   /\ pc' \in Coded => ~result'.noCode /\ head' # 0
           Good == [Delivered!Next]_Delivered!vars /\ OneLive' /\ Kept
<1>1. SUFFICES Good
  BY <1>0 DEF DeliveryInv
<1>2. ASSUME NEW r \in Results, NEW policy \in Policies, Start(r, policy)
      PROVE  Good
  <2>1. /\ tracker = "open" /\ starts' = starts + 1 /\ result' = r /\ worktree' = "held"
        /\ prs' = prs /\ tracker' = tracker /\ Pushed(r)
    BY <1>2 DEF Start
  <2>2. head' = head \/ head' # 0
    BY <1>0, <2>1 DEF Pushed
  <2>3. Outcome' \in {"refused", "code", "no-code"}
    BY <1>0, <2>1 DEF Outcome
  <2>4. Request' = Request /\ OneLive'
    BY <1>0, <2>1 DEF Request, InState, OneLive
  <2>5. Delivered!Prepare
    BY <2>1, <2>2, <2>3, <2>4 DEF Delivered!Prepare
  <2>6. pc' # "idle" => Refusal(r) = "none" /\ (pc' = "close" <=> r.noCode)
    BY <1>2 DEF Start
  <2>7. pc' \in Coded => ~r.noCode /\ r.commits
    BY <2>6 DEF Refusal, Coded
  <2>8. pc' \in Coded => head' # 0
    BY <1>0, <2>1, <2>7 DEF Pushed
  <2> QED BY <1>0, <2>1, <2>4, <2>5, <2>7, <2>8 DEF Delivered!Next
<1>3. ASSUME Unseen, pc' = "idle" \/ (pc # "idle" /\ (pc' \in Coded => pc \in Coded)) PROVE Good
  <2>1. UNCHANGED Delivered!vars /\ OneLive'
    BY <1>3, UnseenStep
  <2>2. Kept
    BY <1>3 DEF Unseen, DeliveryInv, Coded
  <2> QED BY <2>1, <2>2
<1>4. CASE Find \/ Create \/ UpdateBody
  BY <1>3, <1>4 DEF Find, Create, UpdateBody, Decide, Same, Unseen, Coded, Pcs
<1>5. CASE Probe \/ ConflictRemains \/ Poll \/ Recheck \/ Refresh \/ ValidateChecks \/ CompareHead
           \/ MergeRejected \/ VerifyMerged
  BY <1>3, <1>5 DEF Probe, ConflictRemains, Poll, Recheck, Refresh, ValidateChecks, CompareHead,
                    MergeRejected, VerifyMerged, Verified, Same, Unseen, Coded, Pcs
<1>6. CASE CallFails \/ Dies
  BY <1>3, <1>6 DEF CallFails, Dies, Same, Unseen
<1>7. CASE BaseMerged
  <2>1. head # 0 /\ head' # 0
    BY <1>0, <1>7 DEF BaseMerged, DeliveryInv, Coded, Pcs
  <2> QED BY <1>3, <1>7, <2>1 DEF BaseMerged, AfterBaseMerge, Unseen, Coded, Pcs
<1>8. CASE CheckMoves \/ BaseMoves \/ SomebodyPushes \/ UNCHANGED vars
  <2>1. Unseen
    BY <1>0, <1>8 DEF CheckMoves, BaseMoves, SomebodyPushes, Unseen
  <2>2. pc' = pc
    BY <1>8 DEF CheckMoves, BaseMoves, SomebodyPushes
  <2> QED BY <1>3, <2>1, <2>2
<1>9. CASE Post
  <2> DEFINE new == [state |-> "open", head |-> 0]
  <2>1. /\ new \in PullRequests /\ prs' = Append(prs, new) /\ pc = "post"
        /\ InState("open") = {} /\ InState("merged") = {}
        /\ UNCHANGED <<head, tracker, worktree, starts, result>>
    BY <1>0, <1>9 DEF Post, PullRequests, PrInv
  <2>2. /\ Len(prs') = Len(prs) + 1 /\ prs'[Len(prs) + 1] = new
        /\ \A j \in 1 .. Len(prs) : prs'[j] = prs[j]
    <3> HIDE DEF new
    <3> QED BY <1>0, <2>1, AppendProperties
  <2>3. \A j \in 1 .. Len(prs) : prs'[j].state = "closed"
    BY <1>0, <2>1, <2>2, ReusableIs DEF InState, PullRequests
  <2>4. OneLive'
    BY <1>0, <2>2, <2>3 DEF OneLive
  <2>5. Request' = "open"
    <3>1. Len(prs) + 1 \in InState("open")'
      BY <1>0, <2>2 DEF InState
    <3> QED BY <3>1 DEF Request
  <2>6. Request \in {"none", "closed"}
    BY <2>1, RequestIs
  <2>7. Outcome = "code" /\ Outcome' = "code" /\ head # 0
    BY <1>0, <2>1 DEF Outcome, DeliveryInv, PrInv, Coded, Pcs, Refusal, ProofsHold
  <2>8. Delivered!Propose
    BY <2>1, <2>5, <2>6, <2>7 DEF Delivered!Propose
  <2>9. Kept
    BY <1>9, <2>1, <2>7 DEF DeliveryInv, Coded, Pcs
  <2> QED BY <2>4, <2>8, <2>9 DEF Delivered!Next
<1>10. ASSUME NEW i \in InState("open"), NEW p \in PullRequests, prs' = [prs EXCEPT ![i] = p],
              p.state \in {"closed", "merged"}, p.state = "merged" => head # 0,
              UNCHANGED <<head, tracker, starts, result, worktree>>
       PROVE  [Delivered!Next]_Delivered!vars /\ OneLive'
  <2>1. Request = "open" /\ Request' = p.state /\ OneLive'
    BY <1>10, RequestBecomes
  <2>2. Outcome' = Outcome
    BY <1>10 DEF Outcome, Refusal, ProofsHold
  <2>3. Delivered!Merge \/ Delivered!Decline
    BY <1>10, <2>1, <2>2 DEF Delivered!Merge, Delivered!Decline
  <2> QED BY <2>1, <2>3 DEF Delivered!Next
<1>11. CASE Merge
  <2> DEFINE p == [state |-> "merged", head |-> head]
  <2>1. /\ p \in PullRequests /\ pr \in InState("open") /\ p.state = "merged"
        /\ prs' = [prs EXCEPT ![pr] = p] /\ head # 0
        /\ UNCHANGED <<head, tracker, starts, result, worktree>>
    BY <1>0, <1>11 DEF Merge, PrInv, Known, Merging, InState, PullRequests
  <2>2. [Delivered!Next]_Delivered!vars /\ OneLive'
    <3> HIDE DEF p
    <3> QED BY <1>10, <2>1
  <2>3. Kept
    BY <1>11 DEF Merge, DeliveryInv, Coded, Pcs
  <2> QED BY <2>2, <2>3
<1>12. CASE SomebodyReviews
  <2>1. PICK i \in InState("open") :
          \/ head # 0 /\ prs' = [prs EXCEPT ![i] = [state |-> "merged", head |-> head]]
          \/ prs' = [prs EXCEPT ![i].state = "closed"]
    BY <1>12 DEF SomebodyReviews
  <2>2. \E p \in PullRequests :
          /\ prs' = [prs EXCEPT ![i] = p]
          /\ p.state \in {"closed", "merged"} /\ (p.state = "merged" => head # 0)
    <3>1. CASE head # 0 /\ prs' = [prs EXCEPT ![i] = [state |-> "merged", head |-> head]]
      <4> DEFINE p == [state |-> "merged", head |-> head]
      <4>1. p \in PullRequests /\ p.state = "merged"
        BY <1>0 DEF PullRequests
      <4> QED BY <3>1, <4>1
    <3>2. CASE prs' = [prs EXCEPT ![i].state = "closed"]
      <4> DEFINE p == [prs[i] EXCEPT !.state = "closed"]
      <4>1. i \in 1 .. Len(prs) /\ prs[i] \in PullRequests
        BY <1>0, ReusableIs DEF InState
      <4>2. p \in PullRequests /\ p.state = "closed"
        BY <4>1 DEF PullRequests
      <4>3. prs' = [prs EXCEPT ![i] = p]
        BY <3>2
      <4> QED BY <4>2, <4>3
    <3> QED BY <2>1, <3>1, <3>2
  <2>3. UNCHANGED <<head, tracker, starts, result, worktree, pc>>
    BY <1>12 DEF SomebodyReviews
  <2>4. [Delivered!Next]_Delivered!vars /\ OneLive'
    BY <1>10, <2>2, <2>3
  <2>5. Kept
    BY <2>3 DEF DeliveryInv
  <2> QED BY <2>4, <2>5
<1>13. CASE CloseTracker
  <2>1. /\ pc = "close" /\ tracker' = "completed" /\ pc' \notin Coded
        /\ UNCHANGED <<prs, head, starts, result, worktree>>
    BY <1>13 DEF CloseTracker, Coded
  <2>2. UNCHANGED <<Request, Outcome>> /\ OneLive'
    BY <1>0, <2>1 DEF Request, Outcome, Refusal, ProofsHold, InState, OneLive
  <2>3. CASE tracker = "completed"
    BY <2>1, <2>2, <2>3 DEF Delivered!vars, DeliveryInv
  <2>4. CASE tracker = "open"
    <3>1. Outcome = "no-code" \/ (Outcome = "code" /\ Request = "merged")
      BY <1>0, <2>1, RequestIs DEF DeliveryInv, PrInv, Outcome, Refusal, ProofsHold
    <3>2. Delivered!Complete
      BY <2>1, <2>2, <2>4, <3>1 DEF Delivered!Complete
    <3> QED BY <2>1, <2>2, <3>2 DEF Delivered!Next, DeliveryInv
  <2> QED BY <1>0, <2>3, <2>4 DEF TypeOK
<1>14. CASE Delete \/ Release
  <2>1. /\ tracker = "completed" /\ pc' \notin Coded /\ pc # "idle"
        /\ UNCHANGED <<prs, tracker, starts, result>>
        /\ \/ head' = 0 /\ worktree' = worktree
           \/ head' = head /\ worktree' \in {worktree, "released"}
    BY <1>0, <1>14 DEF Delete, Release, PrInv, Coded, Pcs
  <2>2. UNCHANGED <<Request, Outcome>> /\ OneLive'
    BY <1>0, <2>1 DEF Request, Outcome, Refusal, ProofsHold, InState, OneLive
  <2>3. Delivered!CleanUp \/ UNCHANGED Delivered!vars
    BY <2>1, <2>2 DEF Delivered!CleanUp, Delivered!vars
  <2> QED BY <2>1, <2>2, <2>3 DEF Delivered!Next, DeliveryInv
<1>15. CASE SomebodyReopens
  <2>1. tracker = "completed" /\ tracker' = "open" /\ UNCHANGED <<prs, head, starts, result, worktree, pc>>
    BY <1>15 DEF SomebodyReopens
  <2>2. UNCHANGED <<Request, Outcome>> /\ OneLive'
    BY <1>0, <2>1 DEF Request, Outcome, Refusal, ProofsHold, InState, OneLive
  <2>3. Delivered!Reopen
    BY <2>1, <2>2 DEF Delivered!Reopen
  <2> QED BY <2>1, <2>2, <2>3 DEF Delivered!Next, DeliveryInv
<1> QED BY <1>2, <1>4, <1>5, <1>6, <1>7, <1>8, <1>9, <1>11, <1>12, <1>13, <1>14, <1>15
        DEF Next, Step, Environment

\* PrLifecycle implements Delivery, step by step, for any results, checks, policies and
\* bounds, whatever fails and whoever pushes, reviews and reopens: a run that is started
\* again finds what the ones before it left (findReusablePullRequest), and the order of
\* run() holds across all of them.
THEOREM LifecycleImplementsDelivery == Spec => Delivers
<1>1. Init => Delivered!Init /\ DeliveryInv
  <2> SUFFICES ASSUME Init PROVE Delivered!Init /\ DeliveryInv
    OBVIOUS
  <2>1. PrInv
    BY PrInit
  <2>2. Len(prs) = 0 /\ prs = <<>> /\ pc = "idle" /\ head = 0 /\ starts = 0
    BY EmptySeq DEF Init
  <2>3. InState("open") = {} /\ InState("merged") = {}
    BY <2>2 DEF InState
  <2>4. Delivered!Init
    BY <2>2, <2>3 DEF Init, Delivered!Init, Request, Outcome
  <2> QED BY <2>1, <2>2, <2>4 DEF DeliveryInv, OneLive, Coded
<1>2. DeliveryInv /\ [Next]_vars => DeliveryInv' /\ [Delivered!Next]_Delivered!vars
  BY DeliveryStep
<1> QED BY <1>1, <1>2, PTL DEF Spec, Delivers, Delivered!Spec

================================================================================
