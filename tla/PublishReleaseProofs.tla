------------------------ MODULE PublishReleaseProofs ------------------------
(***************************************************************************)
(* Theorems about PublishRelease: any subjects, any number of runs, and    *)
(* maintainers that never stop.                                            *)
(***************************************************************************)
EXTENDS PublishRelease, TLAPS

-----------------------------------------------------------------------------
(* Types.                                                                  *)

LEMMA TypeInit == Init => TypeOK
BY DEF Init, TypeOK, Ends, Absent, Release

\* What GitHub makes of a release is one.
LEMMA ReleaseTypes ==
  /\ Absent \in Release /\ Deleted \in Release
  /\ [Absent EXCEPT !.stage = "draft", !.titled = TRUE] \in Release
  /\ \A r \in Release : Public(r) \in Release /\ Published(r) \in Release
<1>1. Absent \in Release
  BY DEF Absent, Release
<1>2. ASSUME NEW r \in Release PROVE Public(r) \in Release
  BY DEF Public, Release
<1>3. ASSUME NEW r \in Release PROVE Published(r) \in Release
  <2>1. [Public(r) EXCEPT !.titled = TRUE] \in Release
    BY <1>2 DEF Release
  <2> QED
    BY <2>1 DEF Published
<1> QED
  BY <1>1, <1>2, <1>3 DEF Deleted, Release, Absent

\* Every step keeps the state typed.
LEMMA TypeNext == TypeOK /\ [Next]_vars => TypeOK'
<1> SUFFICES ASSUME TypeOK, [Next]_vars PROVE TypeOK'
  OBVIOUS
<1> USE ReleaseTypes DEF TypeOK, Ends, Send, Fail, Reads, run, github, Ours
<1>1. CASE ListReleases
  BY <1>1 DEF ListReleases
<1>2. CASE CreateRelease
  BY <1>2 DEF CreateRelease, Made, Fresh
<1>3. ASSUME NEW a \in Subjects, UploadAsset(a) PROVE TypeOK'
  <2>1. CASE UNCHANGED releases
    BY <2>1, <1>3 DEF UploadAsset
  <2>2. CASE releases' = [releases EXCEPT ![id].assets = @ \cup {a}]
    <3>1. id \in Ids => [releases[id] EXCEPT !.assets = @ \cup {a}] \in Release
      BY DEF Release
    <3> QED
      BY <3>1, <2>2, <1>3 DEF UploadAsset
  <2> QED
    BY <2>1, <2>2, <1>3 DEF UploadAsset
<1>4. CASE ListAssets("upload", "main") \/ ListAssets("assets", "draft")
  BY <1>4 DEF ListAssets
<1>5. CASE ReadMain("main", "assets") \/ ReadMain("decide", "publish")
  BY <1>5 DEF ReadMain
<1>6. CASE ReadDraft
  BY <1>6 DEF ReadDraft
<1>7. CASE Publish
  BY <1>7 DEF Publish, Responds
<1>8. CASE Reconcile
  BY <1>8 DEF Reconcile, Responds
<1>9. CASE Judge
  BY <1>9 DEF Judge
<1>10. CASE Remove
  BY <1>10 DEF Remove
<1>11. CASE TakesEffect
  BY <1>11 DEF TakesEffect
<1>12. CASE MainMoves
  BY <1>12 DEF MainMoves
<1>13. CASE Maintainers
  <2>1. ASSUME NEW i \in Ids, Maintains(i) PROVE releases' \in [Ids -> Release]
    <3>1. PICK s \in { [releases[i] EXCEPT !.titled = ~@], Deleted,
                      [releases[i] EXCEPT !.foreign = ~@], Public(releases[i]),
                      [releases[i] EXCEPT !.stage = "draft"],
                      [releases[i] EXCEPT !.stage = "draft", !.dated = FALSE] } :
               releases' = [releases EXCEPT ![i] = s]
      BY <2>1 DEF Maintains
    <3>2. releases[i] \in Release
      OBVIOUS
    <3>3. /\ [releases[i] EXCEPT !.titled = ~@] \in Release
          /\ [releases[i] EXCEPT !.foreign = ~@] \in Release
          /\ [releases[i] EXCEPT !.stage = "draft"] \in Release
          /\ [releases[i] EXCEPT !.stage = "draft", !.dated = FALSE] \in Release
      BY <3>2 DEF Release
    <3>4. s \in Release
      BY <3>1, <3>2, <3>3
    <3> QED
      BY <3>1, <3>4
  <2>2. ASSUME NEW i \in Ids, Made(i) PROVE releases' \in [Ids -> Release]
    BY <2>2 DEF Made
  <2> QED
    BY <2>1, <2>2, <1>13 DEF Maintainers, Fresh
<1>14. CASE Dispatch
  BY <1>14 DEF Dispatch
<1>15. CASE UNCHANGED vars
  BY <1>15 DEF vars
<1> QED
  BY <1>1, <1>2, <1>3, <1>4, <1>5, <1>6, <1>7, <1>8, <1>9, <1>10, <1>11, <1>12, <1>13,
     <1>14, <1>15 DEF Next, Script

\* No step leaves the domains, whatever GitHub answers.
THEOREM TypeCorrect == Spec => []TypeOK
BY TypeInit, TypeNext, PTL DEF Spec

-----------------------------------------------------------------------------
(* What is locked stays, and what went wrong is remembered.                *)

\* The built assets are locked, or the release is gone.
Settled(r) == \/ r.stage = "deleted"
              \/ r.stage = "public" /\ r.immutable /\ AsBuilt(r)

\* Nobody changes the assets of an immutable release or takes it back.
LEMMA SettledStays ==
  ASSUME TypeOK, [Next]_vars, NEW i \in Ids, Settled(releases[i])
  PROVE  Settled(releases'[i])
<1> USE DEF TypeOK, Send, Fail, Reads, run, github, Ours, Settled, AsBuilt
<1>a. releases[i] \in Release /\ releases[i] # Absent
  BY DEF Release, Absent
<1>1. CASE ListReleases
  BY <1>1 DEF ListReleases
<1>2. CASE CreateRelease
  BY <1>2, <1>a DEF CreateRelease, Made, Fresh
<1>3. ASSUME NEW a \in Subjects, UploadAsset(a) PROVE Settled(releases'[i])
  BY <1>3 DEF UploadAsset, Exists
<1>4. CASE ListAssets("upload", "main") \/ ListAssets("assets", "draft")
  BY <1>4 DEF ListAssets
<1>5. CASE ReadMain("main", "assets") \/ ReadMain("decide", "publish")
  BY <1>5 DEF ReadMain
<1>6. CASE ReadDraft
  BY <1>6 DEF ReadDraft
<1>b. Settled(Published(releases[i]))
  BY <1>a DEF Published, Public, Exists, Release
<1>7. CASE Publish
  BY <1>7, <1>b DEF Publish
<1>8. CASE Reconcile
  BY <1>8 DEF Reconcile
<1>9. CASE Judge
  BY <1>9 DEF Judge
<1>10. CASE Remove
  BY <1>10 DEF Remove, Deleted, Absent
<1>11. CASE TakesEffect
  BY <1>11, <1>b DEF TakesEffect
<1>12. CASE MainMoves
  BY <1>12 DEF MainMoves
<1>13. CASE Maintainers
  <2>1. ASSUME Exists(releases[i]), Maintains(i) PROVE Settled(releases'[i])
    <3>1. releases[i].immutable
      BY <2>1 DEF Exists
    <3>2. releases' = [releases EXCEPT ![i] = [releases[i] EXCEPT !.titled = ~@]]
          \/ releases' = [releases EXCEPT ![i] = Deleted]
      BY <2>1, <3>1 DEF Maintains
    <3> QED
      BY <3>2, <1>a DEF Deleted, Absent, Release
  <2>2. ASSUME NEW j \in Ids, j # i, Maintains(j) PROVE releases'[i] = releases[i]
    BY <2>2 DEF Maintains
  <2> QED
    BY <2>1, <2>2, <1>13, <1>a DEF Maintainers, Made, Fresh, Exists
<1>14. CASE Dispatch
  BY <1>14 DEF Dispatch
<1>15. CASE UNCHANGED vars
  BY <1>15 DEF vars
<1> QED
  BY <1>1, <1>2, <1>3, <1>4, <1>5, <1>6, <1>7, <1>8, <1>9, <1>10, <1>11, <1>12, <1>13,
     <1>14, <1>15 DEF Next, Script

\* A release that is published and not as built is remembered, whoever did it.
LEMMA InvalidIsRemembered ==
  ASSUME TypeOK, [Next]_vars
  PROVE  /\ invalidated \subseteq invalidated'
         /\ Next => \A i \in Ids : releases'[i].dated /\ ~IsRelease(releases'[i])
                                     => i \in invalidated'
BY DEF Next, Remembers, vars

-----------------------------------------------------------------------------
(* The verdict on a publication.                                           *)

\* What a run holds of its release was true of it once: a valid one is settled since,
\* an invalid one is remembered; and only remembered ones are removed.
VerdictInv ==
  LET r == evidence.release
  IN  /\ pc \in { "judge", "rejudge" } =>
           /\ IsRelease(r) => Settled(Ours)
           /\ r.dated /\ ~IsRelease(r) => id \in invalidated
      /\ pc = "accepted" => Settled(Ours)
      /\ pc = "remove" => id \in invalidated
      /\ ValidIsKept

\* Every step keeps the verdict right.
LEMMA VerdictNext == TypeOK /\ VerdictInv /\ [Next]_vars => VerdictInv'
<1> SUFFICES ASSUME TypeOK, VerdictInv, [Next]_vars PROVE VerdictInv'
  OBVIOUS
<1>a. /\ invalidated \subseteq invalidated'
      /\ Next => \A i \in Ids : releases'[i].dated /\ ~IsRelease(releases'[i])
                                  => i \in invalidated'
  BY InvalidIsRemembered
<1>b. \A i \in Ids : Settled(releases[i]) => Settled(releases'[i])
  BY SettledStays
<1>c. pc \in { "judge", "rejudge", "accepted", "remove" } => id \in Ids
  BY DEF TypeOK
<1>d. \A r : IsRelease(r) => Settled(r)
  BY DEF IsRelease, Settled
<1> USE <1>a DEF VerdictInv, ValidIsKept, Send, Fail, Reads, run, github, bounds
<1>1. CASE ListReleases
  BY <1>1 DEF ListReleases
<1>2. CASE CreateRelease
  BY <1>2 DEF CreateRelease
<1>3. ASSUME NEW a \in Subjects, UploadAsset(a) PROVE VerdictInv'
  BY <1>3 DEF UploadAsset
<1>4. CASE ListAssets("upload", "main") \/ ListAssets("assets", "draft")
  BY <1>4 DEF ListAssets
<1>5. CASE ReadMain("main", "assets") \/ ReadMain("decide", "publish")
  BY <1>5 DEF ReadMain
<1>6. CASE ReadDraft
  BY <1>6 DEF ReadDraft
<1>7. CASE Publish
  <2>1. Next /\ id \in Ids /\ pc = "publish" /\ id' = id /\ removed' = removed
    BY <1>7 DEF Publish, TypeOK, Ends, vars
  <2>2. pc' = "reconcile" \/ (pc' = "judge" /\ evidence'.release = releases'[id])
    <3>1. releases \in [Ids -> Release]
      BY DEF TypeOK
    <3>2. CASE requestFailed' = TRUE /\ pc' = "reconcile"
      BY <3>2
    <3>3. CASE /\ releases' = [releases EXCEPT ![id] = Published(@)]
               /\ Responds(Published(Ours)) /\ pc' = "judge"
      <4>1. releases'[id] = Published(Ours)
        BY <3>1, <3>3, <2>1 DEF Ours
      <4>2. evidence'.release = Published(Ours)
        BY <3>3 DEF Responds
      <4> QED
        BY <3>3, <4>1, <4>2
    <3> QED
      BY <3>2, <3>3, <1>7 DEF Publish
  <2> QED
    BY <2>1, <2>2, <1>d DEF Ours
<1>8. CASE Reconcile
  <2>1. Next /\ id \in Ids /\ id' = id /\ removed' = removed
    BY <1>8 DEF Reconcile, TypeOK, Ends, vars
  <2>2. \/ pc' = "preserved"
        \/ pc' \in { "judge", "rejudge" } /\ evidence'.release = releases'[id]
    BY <1>8, <2>1 DEF Reconcile, Responds, Ours, Exists
  <2> QED
    BY <2>1, <2>2, <1>d DEF Ours
<1>9. CASE Judge
  <2>1. id \in Ids /\ id' = id /\ removed' = removed /\ releases' = releases
    BY <1>9, <1>c DEF Judge
  <2>2. /\ pc' \in { "complete", "preserved", "accepted", "remove" }
        /\ pc' = "accepted" => IsRelease(evidence.release)
        /\ pc' = "remove" => evidence.release.dated /\ ~IsRelease(evidence.release)
    BY <1>9 DEF Judge, Complete
  <2> QED
    BY <2>1, <2>2, <1>9 DEF Judge, Ours
<1>10. CASE Remove
  BY <1>10 DEF Remove
<1>11. CASE TakesEffect
  BY <1>11, <1>b, <1>c DEF TakesEffect, Ours
<1>12. CASE MainMoves
  BY <1>12, <1>b, <1>c DEF MainMoves, Ours
<1>13. CASE Maintainers
  BY <1>13, <1>b, <1>c DEF Maintainers, Ours
<1>14. CASE Dispatch
  BY <1>14 DEF Dispatch
<1>15. CASE UNCHANGED vars
  BY <1>15, <1>b, <1>c DEF vars, Ours
<1> QED
  BY <1>1, <1>2, <1>3, <1>4, <1>5, <1>6, <1>7, <1>8, <1>9, <1>10, <1>11, <1>12, <1>13,
     <1>14, <1>15 DEF Next, Script

LEMMA VerdictInvariant == Spec => []VerdictInv
<1>1. Init => VerdictInv
  BY DEF Init, VerdictInv, ValidIsKept
<1> QED
  BY <1>1, VerdictNext, TypeCorrect, PTL DEF Spec

\* A run that reports success has locked what was built.
THEOREM SuccessIsBuilt == Spec => []AcceptedIsBuilt
<1>1. VerdictInv => AcceptedIsBuilt
  BY DEF VerdictInv, AcceptedIsBuilt, Settled
<1> QED
  BY <1>1, VerdictInvariant, PTL

\* Nothing is removed that was valid since its publication, or never published.
THEOREM RemovalIsJustified == Spec => []ValidIsKept
<1>1. VerdictInv => ValidIsKept
  BY DEF VerdictInv
<1> QED
  BY <1>1, VerdictInvariant, PTL

-----------------------------------------------------------------------------
(* The decision to publish.                                                *)

\* While the second reading of main is to come, main at the built commit is vouched for.
DecisionInv == /\ pc = "decide" /\ atCommit => vouched
               /\ DecisionIsCurrent

LEMMA DecisionNext == DecisionInv /\ [Next]_vars => DecisionInv'
<1> SUFFICES ASSUME DecisionInv, [Next]_vars PROVE DecisionInv'
  OBVIOUS
<1> USE DEF DecisionInv, DecisionIsCurrent, Send, Fail, Reads, github
<1>1. ASSUME Remembers, pc' = pc PROVE DecisionInv'
  BY <1>1 DEF Remembers
<1>2. ASSUME Remembers, pc' \notin { "decide", "publish" } PROVE DecisionInv'
  BY <1>2
<1>3. ASSUME Remembers, ReadDraft PROVE DecisionInv'
  BY <1>3 DEF ReadDraft, Remembers
<1>4. ASSUME Remembers, ReadMain("decide", "publish") PROVE DecisionInv'
  BY <1>4 DEF ReadMain, Remembers
<1>5. CASE Next
  <2>1. ASSUME Script PROVE \/ ReadDraft \/ ReadMain("decide", "publish")
                            \/ pc' = pc \/ pc' \notin { "decide", "publish" }
    BY <2>1 DEF Script, ListReleases, CreateRelease, UploadAsset, ListAssets, ReadMain,
                Publish, Reconcile, Judge, Remove
  <2>2. ASSUME TakesEffect \/ MainMoves \/ Maintainers \/ Dispatch
        PROVE  pc' = pc \/ pc' \notin { "decide", "publish" }
    BY <2>2 DEF TakesEffect, MainMoves, Maintainers, Dispatch
  <2> QED
    BY <1>1, <1>2, <1>3, <1>4, <1>5, <2>1, <2>2 DEF Next
<1>6. CASE UNCHANGED vars
  BY <1>6 DEF vars
<1> QED
  BY <1>5, <1>6

\* Nothing is published unless main was at its commit after the draft was last read.
THEOREM DecisionsAreCurrent == Spec => []DecisionIsCurrent
<1>1. Init => DecisionInv
  BY DEF Init, DecisionInv, DecisionIsCurrent
<1>2. DecisionInv => DecisionIsCurrent
  BY DEF DecisionInv
<1> QED
  BY <1>1, <1>2, DecisionNext, PTL DEF Spec
=============================================================================
