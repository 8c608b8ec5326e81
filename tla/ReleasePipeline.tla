---------------------------- MODULE ReleasePipeline ----------------------------
(***************************************************************************)
(* Publication of a commit: the jobs of .github/workflows/docker.yml from  *)
(* npm-publish to release-finalize, with scripts/ghcr-promotion.mjs and    *)
(* scripts/promote-ghcr-tag.sh.  A run publishes libcascade, tags and      *)
(* signs its images, verifies both registries, moves the stable alias,     *)
(* pins the tagged image into @libcascade/toolchain and publishes that,    *)
(* and finally creates the git tag and the GitHub Release.                 *)
(*                                                                         *)
(* Runs are concurrent: each has a concurrency group of its own, and only  *)
(* the two publish jobs queue up behind one another, per channel.  Every   *)
(* other job looks at a registry and acts on what it saw later.  A job may *)
(* die anywhere; it is rerun from its first step, or the same commit is    *)
(* built once more by a resume-release run, whose bytes need not be the    *)
(* same.  The three image stages have disjoint tags and go through equal   *)
(* steps: one of them is modelled.                                         *)
(***************************************************************************)
EXTENDS Naturals, Sequences

CONSTANTS Run,        \* runs of the workflow
          Version, Sha, Bytes,
          Image,      \* the digests of multi-platform indexes
          Native,     \* what an index is of: the images of its platforms
          Plans,      \* what the runs may be: kind, version, sha and output
          NoVersion, NoSha, NoImage, NoPackage,
          MaxFaults   \* bound on the jobs that die

Package == {"libcascade", "toolchain"}
Kind == {"stable-release", "beta-release", "manual-canary", "main",
         "pull-request"}
Plan == [kind : Kind, version : Version, sha : Sha,
         bytes : [Package -> Bytes], image : Image]
Releases == {"stable-release", "beta-release"}
Publishing == Releases \cup {"manual-canary"}

(* An index lists its platforms' images and their attestations, which say  *)
(* of each build when and by which run: building a commit again may give   *)
(* the same images, and still gives an index with another digest.  A tag,  *)
(* a signature and a pin name the index, the scripts compare the images.   *)
SameNative(i, j) == {i, j} \subseteq Image /\ Native[i] = Native[j]

(* A commit has one version, and an image is built from one commit: its    *)
(* labels say which.  The same version may be prepared again by a later    *)
(* commit, but a version that is published tells the kind: -beta.N,        *)
(* -canary.SHA or no suffix.                                               *)
ASSUME PlansAssumption ==
  /\ Plans \subseteq [Run -> Plan]
  /\ \A p \in Plans : \A q, r \in Run :
       /\ p[q].sha = p[r].sha /\ {p[q].kind, p[r].kind} \subseteq Releases
            => p[q].version = p[r].version
       /\ p[q].version = p[r].version /\ {p[q].kind, p[r].kind} \subseteq Publishing
            => p[q].kind = p[r].kind
       /\ SameNative(p[q].image, p[r].image)
            => p[q].sha = p[r].sha /\ p[q].version = p[r].version
ASSUME NamesAssumption ==
  /\ NoVersion \notin Version /\ NoSha \notin Sha /\ NoImage \notin Image
  /\ NoPackage \notin [bytes : Bytes, sha : Sha, pin : Image \cup {NoImage}]
ASSUME BoundAssumption == MaxFaults \in Nat

VARIABLES plan,       \* what each run is
          st,         \* where each run is
          npm,        \* the published packages, by version
          current,    \* npm's dist-tags: the version each channel names
          tags,       \* the tags of the image repository: an index each
          signed,     \* the indexes with a cosign signature
          gitTag,     \* the annotated tags, by version
          release,    \* the GitHub Releases, by version
          contended,  \* immutable tags which two runs found missing at once,
                      \* and give different indexes
          faults      \* how many jobs have died

registries == <<npm, current, tags, signed, gitTag, release>>
vars == <<plan, st, registries, contended, faults>>

-----------------------------------------------------------------------------
(* deriveRelease: the channel of a run, and the jobs it goes through.      *)
Channel == {"latest", "beta", "canary"}
ChannelOf(r) == CASE plan[r].kind = "stable-release" -> "latest"
                  [] plan[r].kind = "beta-release" -> "beta"
                  [] OTHER -> "canary"

(* Variants of Path: the release before the toolchain, and the images      *)
(* before npm has the version.                                             *)
PathFinalizedEarly(kind) ==
  CASE kind = "pull-request" -> <<>>
    [] kind = "main" -> <<"promote">>
    [] OTHER -> <<"publish", "promote", "verify">>
         \o (IF kind \in Releases THEN <<"finalize">> ELSE <<>>)
         \o <<"metadata", "toolchain publish", "toolchain verify">>
PathPromotedFirst(kind) ==
  CASE kind = "pull-request" -> <<>>
    [] kind = "main" -> <<"promote">>
    [] OTHER -> <<"promote", "publish", "verify", "metadata",
                  "toolchain publish", "toolchain verify">>
         \o (IF kind \in Releases THEN <<"finalize">> ELSE <<>>)

Path(kind) ==
  CASE kind = "pull-request" -> <<>>
    [] kind = "main" -> <<"promote">>
    [] OTHER -> <<"publish", "promote", "verify", "metadata",
                  "toolchain publish", "toolchain verify">>
         \o (IF kind \in Releases THEN <<"finalize">> ELSE <<>>)

Stage == {"start", "publishing", "images", "inspect", "create", "confirm",
          "check", "sign", "release", "failed"}

(* deriveGhcrTags                                                          *)
Tag == ({"version"} \X Version) \cup ({"sha", "main"} \X Sha)
         \cup ({"alias"} \X {"stable", "main"})
VersionTag(r) == <<"version", plan[r].version>>
Immutable(r) ==
  CASE plan[r].kind \in Releases -> <<VersionTag(r), <<"sha", plan[r].sha>>>>
    [] plan[r].kind = "manual-canary" -> <<VersionTag(r)>>
    [] plan[r].kind = "main" -> <<<<"main", plan[r].sha>>>>
IsMutable(t) == t[1] = "alias"

(* The tags of ghcr-promote; stable aliases wait for registry-verify.      *)
Promoted(r) == Immutable(r) \o
  (IF plan[r].kind = "main" THEN <<<<"alias", "main">>>> ELSE <<>>)

(* A run at the first step of the first of `jobs`.                         *)
Begin(r, jobs, pin) ==
  LET promotes == jobs # <<>> /\ Head(jobs) = "promote"
  IN  [jobs |-> jobs, at |-> IF promotes THEN "inspect" ELSE "start",
       todo |-> IF promotes THEN Promoted(r) ELSE <<>>,
       seen |-> NoImage, pin |-> pin]

At(r, jobs, stage) == /\ st[r].jobs # <<>>
                      /\ Head(st[r].jobs) \in jobs
                      /\ st[r].at = stage
Goto(r, stage) == st' = [st EXCEPT ![r].at = stage]
Fail(r) == Goto(r, "failed")
EndJobWith(r, pin) == st' = [st EXCEPT ![r] = Begin(r, Tail(st[r].jobs), pin)]
EndJob(r) == EndJobWith(r, st[r].pin)

Proceed(r, condition) == IF condition THEN EndJob(r) ELSE Fail(r)

Init == /\ plan \in Plans
        /\ st = [r \in Run |-> Begin(r, Path(plan[r].kind), NoImage)]
        /\ npm = [p \in Package |-> [v \in Version |-> NoPackage]]
        /\ current = [p \in Package |-> [c \in Channel |-> NoVersion]]
        /\ tags = [t \in Tag |-> NoImage]
        /\ signed = {}
        /\ gitTag = [v \in Version |-> NoSha]
        /\ release = [v \in Version |-> NoSha]
        /\ contended = {}
        /\ faults = 0

-----------------------------------------------------------------------------
(* npm-publish and toolchain-publish.                                      *)
PublishJobs == {"publish", "toolchain publish"}
PackageOf(r) == IF Head(st[r].jobs) \in {"publish", "verify"}
                THEN "libcascade" ELSE "toolchain"
Candidate(r) == [bytes |-> plan[r].bytes[PackageOf(r)], sha |-> plan[r].sha,
                 pin |-> IF PackageOf(r) = "toolchain" THEN st[r].pin
                         ELSE NoImage]
Published(r) == npm[PackageOf(r)][plan[r].version]
IsCurrent(r) == current[PackageOf(r)][ChannelOf(r)] = plan[r].version
QueueIsFree(r) == \A q \in Run \ {r} : ~ /\ At(q, PublishJobs, "publishing")
                                         /\ ChannelOf(q) = ChannelOf(r)

(* npm cannot publish a version twice: the job without its idempotency.    *)
LookUpOnce(r) ==
  /\ At(r, PublishJobs, "start") /\ QueueIsFree(r)
  /\ IF Published(r) = NoPackage THEN Goto(r, "publishing") ELSE Fail(r)
  /\ UNCHANGED <<plan, registries, contended, faults>>

(* A version that is there must be this one, and what its channel names.   *)
LookUp(r) ==
  /\ At(r, PublishJobs, "start") /\ QueueIsFree(r)
  /\ IF Published(r) = NoPackage THEN Goto(r, "publishing")
     ELSE Proceed(r, Published(r) = Candidate(r) /\ IsCurrent(r))
  /\ UNCHANGED <<plan, registries, contended, faults>>

(* npm publish; the job may die after the registry has taken the package.  *)
Publish(r) ==
  /\ At(r, PublishJobs, "publishing")
  /\ npm' = [npm EXCEPT ![PackageOf(r)][plan[r].version] = Candidate(r)]
  /\ current' = [current EXCEPT ![PackageOf(r)][ChannelOf(r)] = plan[r].version]
  /\ \/ EndJob(r) /\ UNCHANGED faults
     \/ Fail(r) /\ faults < MaxFaults /\ faults' = faults + 1
  /\ UNCHANGED <<plan, tags, signed, gitTag, release, contended>>

-----------------------------------------------------------------------------
(* promote-ghcr-tag.sh, for the first tag of todo: the index that imagetools*)
(* makes of the run's images in ghcr-promote, and that of its version tag   *)
(* in registry-verify, which imagetools copies.                             *)
Promoting == {"promote", "verify"}
Target(r) == Head(st[r].todo)
Source(r) == IF Head(st[r].jobs) = "verify" THEN tags[VersionTag(r)]
             ELSE plan[r].image
LabelsMatch(r, image) == \E q \in Run : /\ SameNative(plan[q].image, image)
                                        /\ plan[q].sha = plan[r].sha
                                        /\ plan[q].version = plan[r].version
Looked(r, stage) == st' = [st EXCEPT ![r].at = stage, ![r].seen = Source(r)]
Contenders(r) == {q \in Run \ {r} : /\ At(q, Promoting, "create")
                                    /\ Target(q) = Target(r)
                                    /\ st[q].seen # Source(r)}

(* decideGhcrPromotion without its conflict: whatever differs is replaced. *)
InspectAndReplace(r) ==
  LET exact == SameNative(tags[Target(r)], Source(r))
  IN  /\ At(r, Promoting, "inspect")
      /\ Looked(r, IF exact THEN "confirm" ELSE "create")
      /\ contended' = IF Contenders(r) # {} /\ ~exact
                      THEN contended \cup {Target(r)} ELSE contended
      /\ UNCHANGED <<plan, registries, faults>>

(* decideGhcrPromotion: create, replace, conflict; reuse and sign go on to *)
(* the final checks.  A tag is exact if it is of the same images, by       *)
(* whichever run's index.                                                  *)
Inspect(r) ==
  LET missing == tags[Target(r)] = NoImage
      differs == ~missing /\ ~SameNative(tags[Target(r)], Source(r))
      fails == \/ ~LabelsMatch(r, Source(r))
               \/ differs /\ ~IsMutable(Target(r))
      writes == ~fails /\ (missing \/ differs)
  IN  /\ At(r, Promoting, "inspect")
      /\ IF fails THEN Fail(r)
         ELSE Looked(r, IF writes THEN "create" ELSE "confirm")
      /\ contended' = IF writes /\ ~IsMutable(Target(r)) /\ Contenders(r) # {}
                      THEN contended \cup {Target(r)} ELSE contended
      /\ UNCHANGED <<plan, registries, faults>>

Create(r) == /\ At(r, Promoting, "create")
             /\ tags' = [tags EXCEPT ![Target(r)] = Source(r)]
             /\ Goto(r, "confirm")
             /\ UNCHANGED <<plan, npm, current, signed, gitTag, release,
                            contended, faults>>

Confirm(r) == /\ At(r, Promoting, "confirm")
              /\ IF SameNative(tags[Target(r)], st[r].seen) THEN Goto(r, "check")
                 ELSE Fail(r)
              /\ UNCHANGED <<plan, registries, contended, faults>>

(* NextTag which ends the job one tag too late.                                *)
NextTagKept(r) == IF st[r].todo = <<>> THEN EndJob(r)
                  ELSE st' = [st EXCEPT ![r].todo = Tail(@),
                                        ![r].at = "inspect",
                                        ![r].seen = NoImage]

(* The tag is done: the next one, or the end of the job.                   *)
NextTag(r) == IF Len(st[r].todo) = 1 THEN EndJob(r)
              ELSE st' = [st EXCEPT ![r].todo = Tail(@), ![r].at = "inspect",
                                    ![r].seen = NoImage]

CheckSignature(r) ==
  /\ At(r, Promoting, "check")
  /\ IF tags[Target(r)] \in signed THEN NextTag(r) ELSE Goto(r, "sign")
  /\ UNCHANGED <<plan, registries, contended, faults>>

(* The digest is read from the tag once more.                              *)
Sign(r) == /\ At(r, Promoting, "sign")
           /\ signed' = signed \cup {tags[Target(r)]}
           /\ NextTag(r)
           /\ UNCHANGED <<plan, npm, current, tags, gitTag, release,
                          contended, faults>>

-----------------------------------------------------------------------------
(* registry-verify and toolchain-registry-verify.                          *)
VerifyPackage(r) ==
  LET exact == Published(r) = Candidate(r) /\ IsCurrent(r)
  IN  /\ At(r, {"verify", "toolchain verify"}, "start")
      /\ CASE ~exact -> Fail(r)
           [] exact /\ Head(st[r].jobs) = "verify" -> Goto(r, "images")
           [] OTHER -> EndJob(r)
      /\ UNCHANGED <<plan, registries, contended, faults>>

(* The version tag; a stable release then promotes it to the alias.        *)
VerifyImages(r) ==
  LET exact == /\ SameNative(tags[VersionTag(r)], plan[r].image)
               /\ tags[VersionTag(r)] \in signed
  IN  /\ At(r, {"verify"}, "images")
      /\ IF exact /\ plan[r].kind = "stable-release"
         THEN st' = [st EXCEPT ![r].todo = <<<<"alias", "stable">>>>,
                               ![r].at = "inspect"]
         ELSE Proceed(r, exact)
      /\ UNCHANGED <<plan, registries, contended, faults>>

(* toolchain-metadata: generateImages resolves the version tag to its index*)
(* digest.                                                                 *)
PinAlias(r) == /\ At(r, {"metadata"}, "start")
               /\ IF tags[<<"alias", "stable">>] = NoImage THEN Fail(r)
                  ELSE EndJobWith(r, tags[<<"alias", "stable">>])
               /\ UNCHANGED <<plan, registries, contended, faults>>
Pin(r) == /\ At(r, {"metadata"}, "start")
          /\ IF tags[VersionTag(r)] = NoImage THEN Fail(r)
             ELSE EndJobWith(r, tags[VersionTag(r)])
          /\ UNCHANGED <<plan, registries, contended, faults>>

-----------------------------------------------------------------------------
(* release-finalize: each object is created, or is what it should be.      *)
CreateGitTag(r) ==
  LET v == plan[r].version
  IN  /\ At(r, {"finalize"}, "start")
      /\ gitTag' = [gitTag EXCEPT ![v] = IF @ = NoSha THEN plan[r].sha ELSE @]
      /\ IF gitTag'[v] = plan[r].sha THEN Goto(r, "release") ELSE Fail(r)
      /\ UNCHANGED <<plan, npm, current, tags, signed, release, contended,
                     faults>>

CreateRelease(r) ==
  LET v == plan[r].version
  IN  /\ At(r, {"finalize"}, "release")
      /\ release' = [release EXCEPT ![v] = IF @ = NoSha THEN gitTag[v] ELSE @]
      /\ Proceed(r, release'[v] = plan[r].sha)
      /\ UNCHANGED <<plan, npm, current, tags, signed, gitTag, contended,
                     faults>>

-----------------------------------------------------------------------------
(* A job dies, at its time limit or with its runner; failed jobs are rerun *)
(* from their start.                                                       *)
Die(r) == /\ st[r].jobs # <<>>
          /\ st[r].at \notin {"start", "failed"}
          /\ faults < MaxFaults /\ faults' = faults + 1
          /\ Fail(r)
          /\ UNCHANGED <<plan, registries, contended>>

Rerun(r) == /\ st[r].at = "failed"
            /\ st' = [st EXCEPT ![r] = Begin(r, st[r].jobs, st[r].pin)]
            /\ UNCHANGED <<plan, registries, contended, faults>>

Step(r) == \/ LookUp(r) \/ Publish(r)
           \/ Inspect(r) \/ Create(r) \/ Confirm(r) \/ CheckSignature(r)
           \/ Sign(r)
           \/ VerifyPackage(r) \/ VerifyImages(r) \/ Pin(r)
           \/ CreateGitTag(r) \/ CreateRelease(r)

Next == \E r \in Run : Step(r) \/ Die(r) \/ Rerun(r)

Spec == Init /\ [][Next]_vars

(* Jobs run once they may, and MAINTAINER.md has a failed one rerun.       *)
FairSpec == Spec /\ \A r \in Run : WF_vars(Step(r) \/ Rerun(r))

-----------------------------------------------------------------------------
Suffixes(s) == {SubSeq(s, n, Len(s)) : n \in 1 .. Len(s) + 1}
AnyImage == Image \cup {NoImage}

(* The types; a run that promotes has tags left, and has looked at one it  *)
(* is about to write.                                                      *)
TypeOK ==
  /\ plan \in Plans
  /\ \A r \in Run :
       /\ st[r].jobs \in Suffixes(Path(plan[r].kind))
       /\ st[r].at \in Stage
       /\ st[r].seen \in AnyImage /\ st[r].pin \in AnyImage
       /\ st[r].at \in {"inspect", "create", "confirm", "check", "sign"}
            => /\ Head(st[r].jobs) \in Promoting
               /\ st[r].todo \in Suffixes(Promoted(r))
                    \cup {<<<<"alias", "stable">>>>}
               /\ st[r].todo # <<>>
       /\ st[r].at \in {"create", "confirm"} => st[r].seen # NoImage
  /\ \A p \in Package, v \in Version : npm[p][v] = NoPackage \/
       npm[p][v] \in [bytes : Bytes, sha : Sha, pin : AnyImage]
  /\ current \in [Package -> [Channel -> Version \cup {NoVersion}]]
  /\ tags \in [Tag -> AnyImage]
  /\ signed \subseteq Image /\ contended \subseteq Tag
  /\ {gitTag, release} \subseteq [Version -> Sha \cup {NoSha}]
  /\ faults \in 0 .. MaxFaults

ReleaseRun(r) == plan[r].kind \in Releases
Labelled(image, v, c) == \E r \in Run : /\ SameNative(plan[r].image, image)
                                        /\ plan[r].version = v
                                        /\ plan[r].sha = c

(* Whatever carries a version, in any registry and in whichever order the  *)
(* runs of it went, comes from the commit whose libcascade npm has: the    *)
(* toolchain, the image of its tag, the stable alias, the git tag and the  *)
(* release.                                                                *)
OneCommitPerVersion ==
  \A v \in Version :
    LET lib == npm["libcascade"][v]
        OfIt(c) == lib # NoPackage /\ c = lib.sha
        image == tags[<<"version", v>>]
    IN  /\ npm["toolchain"][v] # NoPackage => OfIt(npm["toolchain"][v].sha)
        /\ image # NoImage => lib # NoPackage /\ Labelled(image, v, lib.sha)
        /\ gitTag[v] # NoSha => OfIt(gitTag[v])
        /\ release[v] # NoSha => OfIt(release[v])
        /\ \A r \in Run : ReleaseRun(r) /\ plan[r].version = v
             /\ SameNative(plan[r].image, tags[<<"alias", "stable">>])
               => OfIt(plan[r].sha)

(* A GitHub Release stands for everything its notes offer: both packages,  *)
(* the tagged image, its index signed, and the commit's own tag.           *)
ReleasesAreComplete ==
  \A v \in Version : release[v] # NoSha =>
    /\ \A p \in Package : npm[p][v] # NoPackage
    /\ gitTag[v] = release[v]
    /\ tags[<<"version", v>>] # NoImage /\ tags[<<"sha", release[v]>>] # NoImage
    /\ <<"version", v>> \notin contended => tags[<<"version", v>>] \in signed

(* libcascade runs its container at the digest its package pins: that is   *)
(* the signed index which the tag of its own version names, and not only   *)
(* one of the same images, however often its job was rerun and whichever   *)
(* run's package npm took.                                                 *)
ToolchainPinsItsImage ==
  \A v \in Version :
    npm["toolchain"][v] # NoPackage /\ <<"version", v>> \notin contended
      => /\ npm["toolchain"][v].pin = tags[<<"version", v>>]
         /\ npm["toolchain"][v].pin \in signed

(* A published version never changes, and neither does the index that an   *)
(* immutable tag names, but for two runs that found it missing at the same *)
(* time.                                                                   *)
PublishedStays ==
  [][ /\ \A p \in Package, v \in Version :
           npm[p][v] # NoPackage => npm'[p][v] = npm[p][v]
      /\ \A t \in Tag : tags'[t] # tags[t] =>
           IsMutable(t) \/ tags[t] = NoImage \/ t \in contended ]_vars

(* Not so: what MAINTAINER.md:265-267 says of resuming a release, it never *)
(* overwrites an immutable GHCR tag. Nothing makes ghcr-promote of two     *)
(* runs wait for one another, and TLC finds two that create one tag.       *)
ImmutableTagsStay ==
  [][\A t \in Tag : IsMutable(t) \/ tags[t] \in {NoImage, tags'[t]}]_vars

(* The version that libcascade's channel goes on to name is released in    *)
(* the end, whatever died, unless a later package of the toolchain took    *)
(* its channel or two runs contended for its tags.                         *)
StaysCurrent(v) ==
  /\ contended = {}
  /\ \E c \in {"latest", "beta"} :
       /\ current["libcascade"][c] = v
       /\ npm["toolchain"][v] # NoPackage => current["toolchain"][c] = v
EventuallyReleased ==
  \A v \in Version : <>[]StaysCurrent(v) => <>(release[v] # NoSha)

=============================================================================
