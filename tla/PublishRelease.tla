--------------------------- MODULE PublishRelease ---------------------------
(***************************************************************************)
(* Publication of a release (scripts/publish-release.cjs): uploadRelease   *)
(* makes and fills a draft, publishRelease verifies it again, publishes it *)
(* and judges the result.  Every request may fail after it took effect, or *)
(* take effect late; maintainers and pushes to main act in between; a run  *)
(* that ended may be followed by another for the same tag.                 *)
(*                                                                         *)
(* A run has its own local subjects; their digests are data.  What GitHub  *)
(* does is modelled from how the script uses it.                           *)
(***************************************************************************)
EXTENDS Naturals, FiniteSets

CONSTANTS
  Ids,       \* the releases GitHub can make for the tag, as numbers
  Subjects,  \* the local release assets
  MaxRuns,   \* dispatches of the workflow
  MaxOthers  \* acts of maintainers

ASSUME PublicationAssumption ==
  /\ Ids \subseteq Nat \ {0} /\ IsFiniteSet(Ids)
  /\ MaxRuns \in Nat /\ MaxOthers \in Nat

VARIABLES
  pc,            \* the request the script is about to send, or how it ended
  id,            \* the release the run made, 0 before
  requestFailed, \* publishRequestError is set
  evidence,      \* published.data, and whether it has all the fields it must have
  releases,      \* GitHub: the releases of the tag
  late,          \* GitHub: the publication requests that have yet to take effect
  locking,       \* GitHub: the repository makes published releases immutable
  atCommit,      \* GitHub: main is at releaseCommit
  runs, others,  \* what MaxRuns and MaxOthers bound
  removed,       \* history: the releases the script removed
  invalidated,   \* history: the releases that were published and not as built
  vouched        \* history: main was at releaseCommit since the draft was last read

run     == << id, requestFailed, evidence >>
github  == << releases, late, locking, atCommit >>
bounds  == << runs, others >>
vars    == << pc, run, github, bounds, removed, invalidated, vouched >>

Absent == [ stage |-> "absent", assets |-> {}, foreign |-> FALSE, titled |-> FALSE,
            immutable |-> FALSE, dated |-> FALSE ]

\* The number of a deleted release is not used again.
Deleted == [Absent EXCEPT !.stage = "deleted"]

Release == [ stage     : { "absent", "draft", "public", "deleted" },
             assets    : SUBSET Subjects,  \* those equal to the local ones
             foreign   : BOOLEAN,          \* other or changed assets
             titled    : BOOLEAN,          \* title, notes and prerelease as expected
             immutable : BOOLEAN,
             dated     : BOOLEAN ]         \* published_at is set

Exists(r) == r.stage \in { "draft", "public" }

Ends == { "failed", "accepted", "preserved", "removed", "unremoved" }

Init ==
  /\ pc = "list" /\ id = 0 /\ requestFailed = FALSE
  /\ evidence = [release |-> Absent, whole |-> FALSE]
  /\ releases = [i \in Ids |-> Absent]
  /\ late = {} /\ locking = TRUE /\ atCommit = TRUE
  /\ runs = 1 /\ others = 0
  /\ removed = {} /\ invalidated = {} /\ vouched = FALSE

-----------------------------------------------------------------------------
\* verifyAssets.
AsBuilt(r) == r.assets = Subjects /\ ~r.foreign

\* selectDraft.
IsDraft(r) == r.stage = "draft" /\ ~r.dated /\ r.titled

\* Seeded fault: the assets of the published release are not looked at again.
IsReleaseUnverified(r) == r.stage = "public" /\ r.dated /\ r.immutable /\ r.titled

\* What publishRelease demands of the published release.
IsRelease(r) == r.stage = "public" /\ r.dated /\ r.immutable /\ r.titled /\ AsBuilt(r)

\* The release the run made, as it is on GitHub.
Ours == releases[id]

Send(l) == pc' = l
Fail    == Send("failed")

\* A step that leaves GitHub as it is.
Reads == UNCHANGED << github, bounds, removed >>

ListReleases ==
  /\ pc = "list"
  /\ \/ Send("create") /\ \A i \in Ids : ~Exists(releases[i])
     \/ Fail
  /\ Reads /\ UNCHANGED run

\* GitHub makes the draft i.
Made(i) ==
  releases' = [releases EXCEPT ![i] = [Absent EXCEPT !.stage = "draft", !.titled = TRUE]]

Fresh == { i \in Ids : releases[i] = Absent }

CreateRelease ==
  /\ pc = "create"
  /\ \E i \in Fresh : \/ Made(i) /\ id' = i /\ Send("upload")
                      \/ Made(i) /\ Fail /\ UNCHANGED id
                      \/ Fail /\ UNCHANGED << releases, id >>
  /\ UNCHANGED << requestFailed, evidence, late, locking, atCommit, bounds, removed >>

\* One asset.  A failed request may have stored it.
UploadAsset(a) ==
  /\ pc = "upload"
  /\ a \in Subjects \ Ours.assets
  /\ \/ /\ Exists(Ours) /\ ~Ours.immutable
        /\ releases' = [releases EXCEPT ![id].assets = @ \cup {a}]
        /\ Fail \/ UNCHANGED pc
     \/ Fail /\ UNCHANGED releases
  /\ UNCHANGED << run, late, locking, atCommit, bounds, removed >>

\* The list of assets at the end of the upload, and the one before publication.
ListAssets(at, next) ==
  /\ pc = at
  /\ at = "upload" => Subjects \subseteq Ours.assets
  /\ \/ Send(next) /\ Exists(Ours) /\ AsBuilt(Ours)
     \/ Fail
  /\ Reads /\ UNCHANGED run

\* main is read first, and again after the draft.
ReadMain(at, next) ==
  /\ pc = at
  /\ \/ Send(next) /\ atCommit
     \/ Fail
  /\ Reads /\ UNCHANGED run

\* Seeded fault: the second reading of main is not compared.
ReadDraftLast ==
  /\ pc = "draft"
  /\ \/ Send("publish") /\ IsDraft(Ours) /\ AsBuilt(Ours)
     \/ Fail
  /\ Reads /\ UNCHANGED run

\* The final reading of the draft.
ReadDraft ==
  /\ pc = "draft"
  /\ \/ Send("decide") /\ IsDraft(Ours) /\ AsBuilt(Ours)
     \/ Fail
  /\ Reads /\ UNCHANGED run

-----------------------------------------------------------------------------
\* A release that is published, whoever does it.
Public(r) ==
  [r EXCEPT !.stage = "public", !.dated = TRUE,
            !.immutable = @ \/ (locking /\ r.stage = "draft")]

\* What the publication request makes of r: its name and notes are set again.
Published(r) == IF Exists(r) THEN [Public(r) EXCEPT !.titled = TRUE] ELSE r

\* A response: what GitHub has, with all of its fields or not.
Responds(r) == \E whole \in BOOLEAN : evidence' = [release |-> r, whole |-> whole]

\* The publication request.  If it fails, the release is read in its place, and the
\* request may have taken effect, have none, or take it later.
Publish ==
  /\ pc = "publish"
  /\ \/ /\ Exists(Ours)
        /\ releases' = [releases EXCEPT ![id] = Published(@)]
        /\ Responds(Published(Ours))
        /\ Send("judge")
        /\ UNCHANGED << requestFailed, late >>
     \/ /\ \/ releases' = [releases EXCEPT ![id] = Published(@)] /\ UNCHANGED late
           \/ late' = late \cup {id} /\ UNCHANGED releases
           \/ UNCHANGED << releases, late >>
        /\ requestFailed' = TRUE
        /\ Send("reconcile")
        /\ UNCHANGED evidence
  /\ UNCHANGED << id, locking, atCommit, bounds, removed >>

\* The release read after the request failed, or after its response was incomplete.
Reconcile ==
  /\ pc \in {"reconcile", "complete"}
  /\ \/ /\ Exists(Ours)
        /\ Responds(Ours)
        /\ Send(IF pc = "reconcile" THEN "judge" ELSE "rejudge")
     \/ Send("preserved") /\ UNCHANGED evidence
  /\ Reads /\ UNCHANGED << id, requestFailed >>

\* Seeded fault: a response that lacks fields is judged like any other.
CompleteAnyway(e) == TRUE

\* hasCompletePublicationEvidence.
Complete(e) == e.whole /\ e.release.dated

\* The verdict on the evidence.  An incomplete response to a request that succeeded
\* is replaced once by a reading.
Judge ==
  /\ pc \in {"judge", "rejudge"}
  /\ Send(IF ~Complete(evidence)
          THEN IF pc = "judge" /\ ~requestFailed THEN "complete" ELSE "preserved"
          ELSE IF evidence.whole /\ IsRelease(evidence.release) THEN "accepted"
          ELSE IF requestFailed /\ evidence.release.stage # "public" THEN "preserved"
          ELSE "remove")
  /\ Reads /\ UNCHANGED run

\* deleteRelease.  A failed request may have deleted it.
Remove ==
  /\ pc = "remove"
  /\ \/ /\ releases' = [releases EXCEPT ![id] = Deleted]
        /\ removed' = removed \cup {id}
        /\ Send("removed") \/ Send("unremoved")
     \/ Send("unremoved") /\ UNCHANGED << releases, removed >>
  /\ UNCHANGED << run, late, locking, atCommit, bounds >>

Script == \/ ListReleases \/ CreateRelease
          \/ \E a \in Subjects : UploadAsset(a)
          \/ ListAssets("upload", "main") \/ ReadMain("main", "assets")
          \/ ListAssets("assets", "draft") \/ ReadDraft \/ ReadMain("decide", "publish")
          \/ Publish \/ Reconcile \/ Judge \/ Remove

-----------------------------------------------------------------------------
\* A publication request that had timed out takes effect.
TakesEffect ==
  \E i \in late :
    /\ releases' = [releases EXCEPT ![i] = Published(@)]
    /\ late' = late \ {i}
    /\ UNCHANGED << pc, run, locking, atCommit, bounds, removed >>

MainMoves ==
  /\ atCommit' = ~atCommit
  /\ UNCHANGED << pc, run, releases, late, locking, bounds, removed >>

\* Maintainers change the setting, edit or remove a release, change the assets of one
\* that is not immutable, and publish it or take it back by hand.
Maintains(i) ==
  LET r == releases[i]
  IN  \E s \in { [r EXCEPT !.titled = ~@], Deleted } \cup
               (IF r.immutable THEN {}
                ELSE { [r EXCEPT !.foreign = ~@], Public(r),
                       [r EXCEPT !.stage = "draft"],
                       [r EXCEPT !.stage = "draft", !.dated = FALSE] }) :
        releases' = [releases EXCEPT ![i] = s]

Maintainers ==
  /\ others < MaxOthers /\ others' = others + 1
  /\ \/ locking' = ~locking /\ UNCHANGED releases
     \/ /\ \E i \in Ids : Exists(releases[i]) /\ Maintains(i)
        /\ UNCHANGED locking
     \/ /\ \E i \in Fresh : Made(i)
        /\ UNCHANGED locking
  /\ UNCHANGED << pc, run, late, atCommit, runs, removed >>

\* Runs come one after another (release.yml's concurrency group).
Dispatch ==
  /\ pc \in Ends /\ runs < MaxRuns
  /\ pc' = "list" /\ id' = 0 /\ requestFailed' = FALSE
  /\ runs' = runs + 1
  /\ UNCHANGED << evidence, github, others, removed >>

\* What the history variables remember of the next state.
Remembers ==
  /\ invalidated' = invalidated \cup
       { i \in Ids : releases'[i].dated /\ ~IsRelease(releases'[i]) }
  /\ vouched' = (atCommit' \/ (vouched /\ pc # "draft"))

Next == (Script \/ TakesEffect \/ MainMoves \/ Maintainers \/ Dispatch) /\ Remembers

Spec == Init /\ [][Next]_vars

-----------------------------------------------------------------------------
(* Properties.                                                             *)

TypeOK ==
  /\ pc \in { "list", "create", "upload", "main", "assets", "draft", "decide", "publish",
              "reconcile", "complete", "judge", "rejudge", "remove" } \cup Ends
  /\ id \in Ids \cup {0}
  /\ pc \in { "list", "create", "failed" } \/ id \in Ids
  /\ releases \in [Ids -> Release] /\ late \subseteq Ids
  /\ evidence \in [release : Release, whole : BOOLEAN]

\* A run that reports success has published the release it made, with the assets that
\* were built, for good: whoever changed the draft after it was verified, and whatever
\* became of the request (publishRelease's checks of the response).
AcceptedIsBuilt ==
  pc = "accepted" =>
    \/ Ours.stage = "deleted"
    \/ Ours.stage = "public" /\ Ours.immutable /\ AsBuilt(Ours)

\* No release is removed that was right all the time since it was published, nor one
\* that never was: removal would burn its tag (README: unknown outcomes and unpublished
\* drafts are preserved).
ValidIsKept == removed \subseteq invalidated

\* The request to publish is sent only if main was at the built commit after the draft
\* had been read for the last time (README: the release decision point).
DecisionIsCurrent == pc = "publish" => vouched
=============================================================================
