----------------------------- MODULE AppUpdates -----------------------------
(* Whether an installed stack has a newer image (docker_updates.go,          *)
(* docker_updates_http.go, docker_compose_services.go, db_app_images.go): a  *)
(* row per service holds the digest on this host and the one the registry    *)
(* last told; checks, deploys, updates and uninstalls write it, each by      *)
(* goroutines of its own.                                                    *)
EXTENDS Integers, FiniteSets

CONSTANTS
  Images,            \* the services of the stack, each with its image
  MaxReleases,       \* how many times a tag moves at the registry
  MaxUpdateCalls,    \* how many deploys, updates and uninstalls are asked for
  MaxUpdateFaults,   \* failing commands, refusals of the registry, restarts
  MaxInquiries       \* how many checks are in flight

ASSUME UpdatesAssumption ==
  MaxReleases \in Nat /\ MaxUpdateCalls \in Nat /\ MaxUpdateFaults \in Nat
    /\ MaxInquiries \in Nat \ {0}

VARIABLES
  release,     \* the digest behind each tag at the registry
  pulled,      \* the digest of the image on this host, 0 when there is none
  imageRows,   \* docker_app_images
  inquiries,   \* the registry calls of refreshRemoteDigestsForApp
  digesters,   \* the goroutines that write local digests, and the updates
  updateCalls, updateFaults

updateVars == <<release, pulled, imageRows, inquiries, digesters,
                updateCalls, updateFaults>>

NoDigest == 0
Untracked == [local |-> NoDigest, remote |-> NoDigest, status |-> "none", old |-> FALSE]
Tracked(i) == imageRows[i] # Untracked
Terminal == {"unsupported", "unauthorized"}

UpdatesInit ==
  /\ release = [i \in Images |-> 1]
  /\ pulled = [i \in Images |-> NoDigest]
  /\ imageRows = [i \in Images |-> Untracked]
  /\ inquiries = {} /\ digesters = {}
  /\ updateCalls = 0 /\ updateFaults = 0

Called == updateCalls < MaxUpdateCalls /\ updateCalls' = updateCalls + 1
Faulty == updateFaults < MaxUpdateFaults /\ updateFaults' = updateFaults + 1

\* The world: a maintainer pushes a new image, six hours go by.
Release(i) ==
  /\ release[i] <= MaxReleases
  /\ release' = [release EXCEPT ![i] = @ + 1]
  /\ UNCHANGED <<pulled, imageRows, inquiries, digesters, updateCalls, updateFaults>>

AnswerExpires(i) ==
  /\ Tracked(i) /\ ~imageRows[i].old
  /\ imageRows' = [imageRows EXCEPT ![i].old = TRUE]
  /\ UNCHANGED <<release, pulled, inquiries, digesters, updateCalls, updateFaults>>

-----------------------------------------------------------------------------
(* The digests of this host *)

Digester(writes, step, images) ==
  [writes |-> writes, step |-> step, images |-> images, read |-> NoDigest]

DeployStack ==
  /\ Called
  /\ digesters' = digesters \cup {Digester("row", "fetch", Images)}
  /\ UNCHANGED <<release, pulled, imageRows, inquiries, updateFaults>>

\* dockerAppUpdate: compose pull, then up --pull always.
UpdateStack ==
  /\ Called
  /\ \E i \in Images : Tracked(i)
  /\ digesters' = digesters \cup {Digester("local", "pull", Images)}
  /\ UNCHANGED <<release, pulled, imageRows, inquiries, updateFaults>>

Latest(S) == [i \in Images |-> IF i \in S THEN release[i] ELSE pulled[i]]
Absent == {i \in Images : pulled[i] = NoDigest}

Rewrite(d, e) == digesters' = (digesters \ {d}) \cup {e}

UpdatePull(d) ==
  /\ d.step = "pull"
  /\ pulled' = Latest(Images)
  /\ Rewrite(d, [d EXCEPT !.step = "up"])
  /\ UNCHANGED <<release, imageRows, inquiries, updateCalls, updateFaults>>

\* The update has succeeded; refreshLocalDigestsAfterUpdate goes on alone.
UpdateUp(d) ==
  /\ d.step = "up"
  /\ pulled' = Latest(Images)
  /\ Rewrite(d, [d EXCEPT !.step = "inspect"])
  /\ UNCHANGED <<release, imageRows, inquiries, updateCalls, updateFaults>>

\* Either command fails with some of the images downloaded.
UpdateFails(d) ==
  /\ Faulty
  /\ d.step \in {"pull", "up"}
  /\ \E S \in SUBSET Images : pulled' = Latest(S)
  /\ digesters' = digesters \ {d}
  /\ UNCHANGED <<release, imageRows, inquiries, updateCalls>>

\* A deploy pulls first and goes on whatever came of it.
ImagesPulled(d) ==
  /\ d.step = "fetch"
  /\ \/ /\ pulled' = Latest(Images)
        /\ UNCHANGED updateFaults
     \/ /\ Faulty
        /\ \E S \in SUBSET Images : pulled' = Latest(S)
  /\ Rewrite(d, [d EXCEPT !.step = "start"])
  /\ UNCHANGED <<release, imageRows, inquiries, updateCalls>>

\* Its plain up downloads only what is missing; when it fails the request
\* ends with a 500, and nothing walks the services.
ImagesUp(d) ==
  /\ d.step = "start"
  /\ \/ /\ pulled' = Latest(Absent)
        /\ Rewrite(d, [d EXCEPT !.step = "inspect"])
        /\ UNCHANGED updateFaults
     \/ /\ Faulty
        /\ \E S \in SUBSET Absent : pulled' = Latest(S)
        /\ digesters' = digesters \ {d}
  /\ UNCHANGED <<release, imageRows, inquiries, updateCalls>>

\* getLocalImageDigest. When it fails a deploy writes an empty digest and an
\* update leaves the service out.
InspectImage(d, i) ==
  /\ d.step = "inspect" /\ i \in d.images
  /\ \/ /\ Rewrite(d, [d EXCEPT !.step = i, !.read = pulled[i]])
        /\ UNCHANGED updateFaults
     \/ /\ Faulty
        /\ IF d.writes = "row"
           THEN Rewrite(d, [d EXCEPT !.step = i, !.read = NoDigest])
           ELSE Rewrite(d, [d EXCEPT !.images = @ \ {i}])
  /\ UNCHANGED <<release, pulled, imageRows, inquiries, updateCalls>>

\* INSERT OR REPLACE takes what was just pulled for the newest there is.
UpsertLocalDigest(i, digest) ==
  [imageRows EXCEPT ![i] =
     [local |-> digest, remote |-> digest, status |-> "ok", old |-> FALSE]]

\* UPDATE: nothing when the row is gone.
UpdateLocalDigest(i, digest) ==
  IF Tracked(i) THEN [imageRows EXCEPT ![i].local = digest] ELSE imageRows

WriteDigest(d, i) ==
  /\ d.step = i /\ i \in d.images
  /\ imageRows' = IF d.writes = "row" THEN UpsertLocalDigest(i, d.read)
                                      ELSE UpdateLocalDigest(i, d.read)
  /\ Rewrite(d, [d EXCEPT !.step = "inspect", !.images = @ \ {i}, !.read = NoDigest])
  /\ UNCHANGED <<release, pulled, inquiries, updateCalls, updateFaults>>

DigesterEnds(d) ==
  /\ d.step = "inspect" /\ d.images = {}
  /\ digesters' = digesters \ {d}
  /\ UNCHANGED <<release, pulled, imageRows, inquiries, updateCalls, updateFaults>>

\* The end of an uninstall: DeleteByApp, and docker rmi when it is a wipe.
UninstallStack(wipe) ==
  /\ Called
  /\ imageRows' = [i \in Images |-> Untracked]
  /\ pulled' = IF wipe THEN [i \in Images |-> NoDigest] ELSE pulled
  /\ UNCHANGED <<release, inquiries, digesters, updateFaults>>

-----------------------------------------------------------------------------
(* What the registry says *)

\* Mutant: what failed once is not asked again.
NeedsCheckWhenOk(i) == imageRows[i].status = "ok" /\ imageRows[i].old

NeedsRemoteCheck(i) == imageRows[i].status \notin Terminal /\ imageRows[i].old

Inquiry(i) == [image |-> i, answered |-> FALSE, digest |-> NoDigest, status |-> "none"]

\* One image that needs it, or ?force=true, has every image asked about.
UpdateCheck(force) ==
  /\ force \/ \E i \in Images : Tracked(i) /\ NeedsRemoteCheck(i)
  /\ Cardinality(inquiries) < MaxInquiries
  /\ inquiries' = inquiries \cup {Inquiry(i) : i \in {j \in Images : Tracked(j)}}
  /\ UNCHANGED <<release, pulled, imageRows, digesters, updateCalls, updateFaults>>

Answered(q, digest, status) ==
  inquiries' = (inquiries \ {q}) \cup
    {[q EXCEPT !.answered = TRUE, !.digest = digest, !.status = status]}

\* getRemoteImageDigest
Answers(q) ==
  /\ ~q.answered
  /\ Answered(q, release[q.image], "ok")
  /\ UNCHANGED <<release, pulled, imageRows, digesters, updateCalls, updateFaults>>

Refuses(q, status) ==
  /\ Faulty
  /\ ~q.answered
  /\ Answered(q, NoDigest, status)
  /\ UNCHANGED <<release, pulled, imageRows, digesters, updateCalls>>

\* A failed check is written as well, with its empty digest.
UpdateRemoteDigest(i, digest, status) ==
  IF Tracked(i)
  THEN [imageRows EXCEPT ![i] = [local |-> @.local, remote |-> digest,
                                 status |-> status, old |-> FALSE]]
  ELSE imageRows

StoreAnswer(q) ==
  /\ q.answered
  /\ imageRows' = UpdateRemoteDigest(q.image, q.digest, q.status)
  /\ inquiries' = inquiries \ {q}
  /\ UNCHANGED <<release, pulled, digesters, updateCalls, updateFaults>>

\* The 30 s of the request are over, or its client is gone.
AnswerLost(q) ==
  /\ Faulty
  /\ inquiries' = inquiries \ {q}
  /\ UNCHANGED <<release, pulled, imageRows, digesters, updateCalls>>

\* The daemon starts again: whatever was under way is forgotten.
UpdatesRestart ==
  /\ Faulty
  /\ inquiries' = {} /\ digesters' = {}
  /\ UNCHANGED <<release, pulled, imageRows, updateCalls>>

-----------------------------------------------------------------------------
UpdatesNext ==
  \/ \E i \in Images : Release(i) \/ AnswerExpires(i)
  \/ DeployStack \/ UpdateStack
  \/ \E wipe \in BOOLEAN : UninstallStack(wipe)
  \/ \E d \in digesters :
       \/ UpdatePull(d) \/ UpdateUp(d) \/ UpdateFails(d) \/ DigesterEnds(d)
       \/ ImagesPulled(d) \/ ImagesUp(d)
       \/ \E i \in Images : InspectImage(d, i) \/ WriteDigest(d, i)
  \/ \E force \in BOOLEAN : UpdateCheck(force)
  \/ \E q \in inquiries :
       \/ Answers(q) \/ StoreAnswer(q) \/ AnswerLost(q)
       \/ \E status \in {"error", "unauthorized"} : Refuses(q, status)
  \/ UpdatesRestart

\* Time passes, the registry answers.
UpdatesFairness ==
  \A i \in Images :
    /\ WF_updateVars(AnswerExpires(i))
    /\ WF_updateVars(\E q \in inquiries : q.image = i /\ Answers(q))
    /\ WF_updateVars(\E q \in inquiries : q.image = i /\ StoreAnswer(q))

UpdatesSpec == UpdatesInit /\ [][UpdatesNext]_updateVars /\ UpdatesFairness

-----------------------------------------------------------------------------
\* HasUpdate
HasUpdate(i) == imageRows[i].remote # NoDigest /\ imageRows[i].remote # imageRows[i].local

\* Nothing in the daemon asks on its own: the check is an endpoint that the
\* app's page calls. As long as one is due, somebody opens that page.
PageIsOpened == WF_updateVars(UpdateCheck(FALSE))

(* The badge of an app whose page is opened again and again is right in the  *)
(* end: once the registry rests and failures stop, "update available" is     *)
(* shown exactly when the recorded local digest is not the registry's. A     *)
(* failed check, an answer older than the update it arrives after, or a      *)
(* deploy that took an old image for the newest delay it, but never for      *)
(* good; only a status that is final (private or unknown image) stays.       *)
BadgeTellsTheTruth ==
  PageIsOpened =>
    \A i \in Images :
      <>[](Tracked(i) => \/ imageRows[i].status \in Terminal
                         \/ HasUpdate(i) = (imageRows[i].local # release[i]))
=============================================================================
