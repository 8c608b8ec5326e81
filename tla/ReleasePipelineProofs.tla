------------------------- MODULE ReleasePipelineProofs -------------------------
(***************************************************************************)
(* Proofs about ReleasePipeline, for any runs, any plans and any number of *)
(* jobs that die: what a version names in the registries.                  *)
(***************************************************************************)
EXTENDS ReleasePipeline, SequenceTheorems, TLAPS

(* The number of jobs that a run has behind it, and their order.           *)
Done(r) == Len(Path(plan[r].kind)) - Len(st[r].jobs)
Order == <<"publish", "promote", "verify", "metadata", "toolchain publish",
           "toolchain verify", "finalize">>
Publishes(r) == plan[r].kind \in Publishing

Doing(r, job) == st[r].jobs # <<>> /\ Head(st[r].jobs) = job
Busy(r) == st[r].at \in {"inspect", "create", "confirm", "check", "sign"}

Contents == [bytes : Bytes, sha : Sha, pin : AnyImage]
Job == {"publish", "promote", "verify", "metadata", "toolchain publish",
        "toolchain verify", "finalize"}
Place == [jobs : Seq(Job), at : Stage, todo : Seq(Tag), seen : AnyImage,
          pin : AnyImage]

(* Every variable has its type.                                            *)
Typed ==
  /\ plan \in Plans
  /\ st \in [Run -> Place]
  /\ npm \in [Package -> [Version -> Contents \cup {NoPackage}]]
  /\ current \in [Package -> [Channel -> Version \cup {NoVersion}]]
  /\ tags \in [Tag -> AnyImage]
  /\ signed \in SUBSET Image
  /\ contended \in SUBSET Tag
  /\ gitTag \in [Version -> Sha \cup {NoSha}]
  /\ release \in [Version -> Sha \cup {NoSha}]
  /\ faults \in 0 .. MaxFaults

(* What a run has left to do are the last of its jobs, and what it has     *)
(* left to promote belongs to its job.                                     *)
Placed(r) ==
  /\ st[r].jobs \in Suffixes(Path(plan[r].kind))
  /\ st[r].at # "start" => st[r].jobs # <<>>
  /\ Busy(r) =>
       /\ st[r].todo # <<>>
       /\ \/ Doing(r, "promote") /\ st[r].todo \in Suffixes(Promoted(r))
          \/ Doing(r, "verify") /\ st[r].todo = <<<<"alias", "stable">>>>
  /\ st[r].at \in {"create", "confirm"} => st[r].seen \in Image

(* What the jobs behind a run have left in npm and in git.                 *)
LeftInNpm(r) ==
  Publishes(r) =>
    /\ Done(r) >= 1 => /\ npm["libcascade"][plan[r].version] # NoPackage
                       /\ npm["libcascade"][plan[r].version].sha = plan[r].sha
    /\ Done(r) >= 5 => npm["toolchain"][plan[r].version] # NoPackage
    /\ At(r, {"finalize"}, "release") => gitTag[plan[r].version] = plan[r].sha

(* The tags that it has promoted are there.                                *)
TagsThere(r) ==
  /\ Busy(r) /\ Doing(r, "promote") =>
       \A i \in 1 .. Len(Promoted(r)) - Len(st[r].todo) :
         tags[Promoted(r)[i]] # NoImage
  /\ st[r].at \in {"confirm", "check", "sign"} => tags[Target(r)] # NoImage
  /\ Publishes(r) /\ Done(r) >= 2 =>
       \A i \in 1 .. Len(Promoted(r)) : tags[Promoted(r)[i]] # NoImage

(* A run that verified its image finds its tag signed, and pins its index. *)
Verified(r) ==
  Publishes(r) /\ VersionTag(r) \notin contended =>
    /\ Done(r) >= 3 \/ (Busy(r) /\ Doing(r, "verify")) =>
         tags[VersionTag(r)] \in signed
    /\ Done(r) >= 4 => st[r].pin = tags[VersionTag(r)]

RunInv == \A r \in Run :
            Placed(r) /\ LeftInNpm(r) /\ TagsThere(r) /\ Verified(r)

(* Only one run of a channel publishes at a time, and it is to publish     *)
(* what is not there.                                                      *)
Uploads(r) == At(r, PublishJobs, "publishing")
QueueInv ==
  \A r \in Run : Uploads(r) =>
    /\ Published(r) = NoPackage
    /\ \A q \in Run \ {r} : Uploads(q) => ChannelOf(q) # ChannelOf(r)

(* Whoever is about to write an immutable tag agrees with what is there,   *)
(* and with whoever else is about to.                                      *)
Writes(r, t) == st[r].at = "create" /\ Target(r) = t
WritersAgree ==
  \A t \in Tag \ contended : \A r \in Run : ~IsMutable(t) /\ Writes(r, t) =>
    /\ st[r].seen = plan[r].image
    /\ tags[t] \in {NoImage, plan[r].image}
    /\ \A q \in Run : Writes(q, t) => plan[q].image = plan[r].image

(* The stable alias is an image of a commit whose libcascade npm has.      *)
StableInv ==
  tags[<<"alias", "stable">>] # NoImage =>
    \E q \in Run :
      /\ SameNative(plan[q].image, tags[<<"alias", "stable">>])
      /\ npm["libcascade"][plan[q].version] # NoPackage
      /\ npm["libcascade"][plan[q].version].sha = plan[q].sha

IInv == /\ Typed /\ RunInv /\ QueueInv /\ WritersAgree /\ StableInv
        /\ OneCommitPerVersion /\ ReleasesAreComplete /\ ToolchainPinsItsImage

-----------------------------------------------------------------------------
(* A suffix of a sequence that is not empty: its head and its tail.        *)
LEMMA SuffixStep ==
  ASSUME NEW S, NEW s \in Seq(S), NEW t \in Suffixes(s), t # <<>>
  PROVE  /\ t \in Seq(S) /\ Len(t) \in 1 .. Len(s)
         /\ Head(t) = s[Len(s) - Len(t) + 1]
         /\ Tail(t) \in Suffixes(s) /\ Tail(t) \in Seq(S)
         /\ Len(Tail(t)) = Len(t) - 1
<1>1. PICK n \in 1 .. Len(s) + 1 : t = SubSeq(s, n, Len(s))
  BY DEF Suffixes
<1>2. Len(s) \in Nat /\ n \in Nat
  OBVIOUS
<1>3. /\ t \in Seq(S) /\ Len(t) = Len(s) - n + 1
      /\ \A i \in 1 .. Len(s) - n + 1 : t[i] = s[n + i - 1]
  BY <1>1, <1>2, SubSeqProperties
<1>4. n <= Len(s) /\ Len(t) \in 1 .. Len(s)
  BY <1>2, <1>3
<1>5. Head(t) = s[n]
  BY <1>3, <1>4
<1>6. /\ Tail(t) \in Seq(S) /\ Len(Tail(t)) = Len(t) - 1
      /\ \A i \in 1 .. Len(Tail(t)) : Tail(t)[i] = t[i + 1]
  BY <1>3, HeadTailProperties
<1>7. Tail(t) = SubSeq(s, n + 1, Len(s))
  BY <1>1, <1>2, <1>4, HeadTailOfSubSeq
<1>8. Tail(t) \in Suffixes(s)
  <2>1. n + 1 \in 1 .. Len(s) + 1
    BY <1>2, <1>4
  <2> QED BY <1>7, <2>1, Zenon DEF Suffixes
<1>9. n = Len(s) - Len(t) + 1
  BY <1>2, <1>3
<1> QED BY <1>3, <1>4, <1>5, <1>6, <1>8, <1>9

(* A sequence is a suffix of itself, and its suffixes are sequences.       *)
LEMMA WholeIsSuffix ==
  ASSUME NEW S, NEW s \in Seq(S)
  PROVE  s \in Suffixes(s) /\ \A t \in Suffixes(s) : t \in Seq(S)
<1>1. Len(s) \in Nat
  OBVIOUS
<1>2. s = SubSeq(s, 1, Len(s))
  OBVIOUS
<1>3. \A n \in 1 .. Len(s) + 1 : SubSeq(s, n, Len(s)) \in Seq(S)
  BY <1>1, SubSeqProperties
<1>4. 1 \in 1 .. Len(s) + 1
  BY <1>1
<1> QED BY <1>2, <1>3, <1>4 DEF Suffixes

(* The jobs of each kind of run, and the tags that it promotes.            *)
LEMMA Paths ==
  ASSUME NEW kind \in Kind
  PROVE  /\ Path(kind) \in Seq(Job)
         /\ kind = "pull-request" => Path(kind) = <<>>
         /\ kind = "main" => Path(kind) = <<"promote">>
         /\ kind \in Publishing =>
              /\ Len(Path(kind)) = IF kind \in Releases THEN 7 ELSE 6
              /\ \A i \in 1 .. Len(Path(kind)) : Path(kind)[i] = Order[i]
<1>1. CASE kind = "pull-request"
  BY <1>1 DEF Path, Publishing, Releases
<1>2. CASE kind = "main"
  BY <1>2 DEF Path, Publishing, Releases, Job
<1>3. CASE kind \in Publishing
  <2> DEFINE six == <<"publish", "promote", "verify", "metadata",
                      "toolchain publish", "toolchain verify">>
  <2>1. six \in Seq(Job) /\ Len(six) = 6 /\ <<"finalize">> \in Seq(Job)
        /\ Len(<<"finalize">>) = 1 /\ <<>> \in Seq(Job)
    BY DEF Job
  <2>2. Path(kind) = six \o (IF kind \in Releases THEN <<"finalize">> ELSE <<>>)
    BY <1>3 DEF Path, Publishing, Releases
  <2>3. \A i \in 1 .. 6 : six[i] = Order[i]
    <3>1. \A i \in 1 .. 6 : \/ i = 1 \/ i = 2 \/ i = 3
                            \/ i = 4 \/ i = 5 \/ i = 6
      OBVIOUS
    <3>2. /\ six[1] = Order[1] /\ six[2] = Order[2] /\ six[3] = Order[3]
          /\ six[4] = Order[4] /\ six[5] = Order[5] /\ six[6] = Order[6]
      BY DEF Order
    <3> HIDE DEF six
    <3> QED BY <3>1, <3>2
  <2>4. Order[7] = "finalize"
    BY DEF Order
  <2> HIDE DEF six
  <2>5. CASE kind \in Releases
    <3>1. Path(kind) = six \o <<"finalize">>
      BY <2>2, <2>5
    <3> DEFINE last == <<"finalize">>
    <3>2. last[1] = "finalize" /\ last \in Seq(Job) /\ Len(last) = 1
      BY <2>1
    <3> HIDE DEF last
    <3>3. /\ six \o last \in Seq(Job)
          /\ Len(six \o last) = Len(six) + Len(last)
          /\ \A i \in 1 .. Len(six) + Len(last) : (six \o last)[i] =
               IF i <= Len(six) THEN six[i] ELSE last[i - Len(six)]
      BY <2>1, <3>2, ConcatProperties, Zenon
    <3> DEFINE all == six \o last
    <3> HIDE DEF all
    <3>4. /\ all \in Seq(Job) /\ Len(all) = 7
          /\ \A i \in 1 .. 7 : all[i] = IF i <= 6 THEN six[i] ELSE last[i - 6]
      BY <2>1, <3>2, <3>3 DEF all
    <3>5. ASSUME NEW i \in 1 .. 7 PROVE all[i] = Order[i]
      <4>1. CASE i = 7
        BY <4>1, <2>4, <3>2, <3>4
      <4>2. CASE i \in 1 .. 6
        BY <4>2, <2>3, <3>4
      <4> QED BY <4>1, <4>2
    <3>6. Path(kind) = all
      BY <3>1 DEF all, last
    <3> QED BY <3>4, <3>5, <3>6, <2>5, <1>3 DEF Publishing, Releases
  <2>6. CASE kind \notin Releases
    <3>1. Path(kind) = six
      BY <2>1, <2>2, <2>6
    <3> QED BY <3>1, <2>1, <2>3, <2>6, <1>3 DEF Publishing, Releases
  <2> QED BY <2>5, <2>6
<1> QED BY <1>1, <1>2, <1>3 DEF Kind, Publishing, Releases

(* What every run has of its plan.                                         *)
LEMMA PlanOf ==
  ASSUME plan \in Plans, NEW r \in Run
  PROVE  /\ plan[r] \in Plan /\ plan[r].kind \in Kind
         /\ plan[r].version \in Version /\ plan[r].sha \in Sha
         /\ plan[r].image \in Image /\ plan[r].image # NoImage
         /\ plan[r].bytes \in [Package -> Bytes]
<1>1. plan[r] \in Plan
  BY PlansAssumption
<1> QED BY <1>1, NamesAssumption DEF Plan

(* The tags that a run promotes: its own, and immutable if it publishes.   *)
LEMMA PromotedTags ==
  ASSUME plan \in Plans, NEW r \in Run, plan[r].kind # "pull-request"
  PROVE  /\ Promoted(r) \in Seq(Tag) /\ Promoted(r) # <<>>
         /\ Publishes(r) =>
              /\ Promoted(r)[1] = VersionTag(r)
              /\ \A i \in 1 .. Len(Promoted(r)) : ~IsMutable(Promoted(r)[i])
         /\ plan[r].kind \in Releases =>
              Len(Promoted(r)) = 2 /\ Promoted(r)[2] = <<"sha", plan[r].sha>>
         /\ \A i \in 1 .. Len(Promoted(r)) :
              /\ Promoted(r)[i] # <<"alias", "stable">>
              /\ Promoted(r)[i][1] = "version" =>
                   Publishes(r) /\ Promoted(r)[i] = VersionTag(r)
<1> USE PlanOf
<1> DEFINE v == VersionTag(r)
           c == <<"sha", plan[r].sha>>
           m == <<"main", plan[r].sha>>
           a == <<"alias", "main">>
<1>1. {v, c, m, a} \subseteq Tag
  BY DEF Tag, VersionTag
<1>2. /\ ~IsMutable(v) /\ ~IsMutable(c)
      /\ m[1] = "main" /\ a[1] = "alias" /\ m[2] = plan[r].sha /\ a[2] = "main"
      /\ <<"alias", "stable">>[1] = "alias" /\ <<"alias", "stable">>[2] = "stable"
      /\ v # <<"alias", "stable">> /\ c # <<"alias", "stable">> /\ c[1] = "sha"
  BY DEF IsMutable, VersionTag
<1> HIDE DEF v, c, m, a
<1>3. CASE plan[r].kind \in Releases
  <2>1. Immutable(r) = <<v, c>>
    BY <1>3 DEF Immutable, Releases, v, c
  <2>2. Promoted(r) = Immutable(r) \o <<>>
    BY <1>3 DEF Promoted, Releases
  <2>3. Promoted(r) = <<v, c>>
    BY <1>1, <2>1, <2>2, ConcatEmptySeq
  <2>4. \A i \in 1 .. Len(Promoted(r)) : Promoted(r)[i] \in {v, c}
    BY <2>3
  <2>5. Promoted(r)[1] = v /\ Promoted(r)[2] = c /\ Promoted(r) \in Seq(Tag)
        /\ Len(Promoted(r)) = 2 /\ Promoted(r) # <<>>
    BY <1>1, <2>3
  <2>6. Publishes(r)
    BY <1>3 DEF Publishes, Publishing
  <2> QED BY <1>2, <2>4, <2>5, <2>6 DEF v, c
<1>4. CASE plan[r].kind = "manual-canary"
  <2>1. Immutable(r) = <<v>>
    BY <1>4 DEF Immutable, v, Releases
  <2>2. Promoted(r) = Immutable(r) \o <<>>
    BY <1>4 DEF Promoted, Releases
  <2>3. Promoted(r) = <<v>>
    BY <1>1, <2>1, <2>2, ConcatEmptySeq
  <2>4. \A i \in 1 .. Len(Promoted(r)) : Promoted(r)[i] = v
    BY <2>3
  <2>5. Promoted(r)[1] = v /\ Promoted(r) \in Seq(Tag) /\ Promoted(r) # <<>>
    BY <1>1, <2>3
  <2>6. Publishes(r) /\ plan[r].kind \notin Releases
    BY <1>4 DEF Publishes, Publishing, Releases
  <2> QED BY <1>2, <2>4, <2>5, <2>6 DEF v
<1>5. CASE plan[r].kind = "main"
  <2>1. Immutable(r) = <<m>>
    BY <1>5 DEF Immutable, m, Releases
  <2>2. Promoted(r) = <<m>> \o <<a>>
    BY <1>5, <2>1 DEF Promoted, a
  <2>3. /\ Promoted(r) \in Seq(Tag) /\ Len(Promoted(r)) = 2
        /\ Promoted(r)[1] = m /\ Promoted(r)[2] = a
    <3>1. /\ <<m>> \in Seq(Tag) /\ Len(<<m>>) = 1 /\ <<m>>[1] = m
          /\ <<a>> \in Seq(Tag) /\ Len(<<a>>) = 1 /\ <<a>>[1] = a
      BY <1>1
    <3> DEFINE before == <<m>>
               after == <<a>>
    <3> HIDE DEF before, after
    <3>2. /\ before \o after \in Seq(Tag) /\ Len(before \o after) = 2
          /\ \A i \in 1 .. 2 : (before \o after)[i] =
                IF i <= 1 THEN before[i] ELSE after[i - 1]
      <4>1. Len(before) = 1 /\ Len(after) = 1
        BY <3>1 DEF before, after
      <4> QED BY <3>1, <4>1, ConcatProperties DEF before, after
    <3>3. Promoted(r) = before \o after
      BY <2>2 DEF before, after
    <3>4. before[1] = m /\ after[1] = a
      BY <3>1 DEF before, after
    <3> QED BY <3>2, <3>3, <3>4
  <2>4. m # <<"alias", "stable">> /\ a # <<"alias", "stable">>
    BY DEF m, a
  <2>5. \A i \in 1 .. Len(Promoted(r)) : Promoted(r)[i] \in {m, a}
    BY <2>3
  <2>6. ~Publishes(r) /\ plan[r].kind \notin Releases
    BY <1>5 DEF Publishes, Publishing, Releases
  <2>7. Promoted(r) # <<>>
    <3>1. Len(<<>>) # 2
      OBVIOUS
    <3> QED BY <2>3, <3>1, Zenon
  <2> QED BY <1>2, <2>3, <2>4, <2>5, <2>6, <2>7
<1> QED BY <1>3, <1>4, <1>5 DEF Kind, Releases

(* Which job a run is at follows from how many it has behind it.           *)
LEMMA WhichJob ==
  ASSUME Typed, NEW r \in Run, Placed(r), st[r].jobs # <<>>
  PROVE  /\ plan[r].kind # "pull-request"
         /\ Done(r) \in Nat
         /\ Doing(r, "publish") => Publishes(r) /\ Done(r) = 0
         /\ Doing(r, "promote") /\ Publishes(r) => Done(r) = 1
         /\ Doing(r, "verify") => Publishes(r) /\ Done(r) = 2
         /\ Doing(r, "metadata") => Publishes(r) /\ Done(r) = 3
         /\ Doing(r, "toolchain publish") => Publishes(r) /\ Done(r) = 4
         /\ Doing(r, "toolchain verify") => Publishes(r) /\ Done(r) = 5
         /\ Doing(r, "finalize") => /\ Publishes(r) /\ Done(r) = 6
                                    /\ plan[r].kind \in Releases
         /\ Publishes(r) =>
              /\ Done(r) = 0 => Doing(r, "publish")
              /\ Done(r) = 1 => Doing(r, "promote")
              /\ Done(r) = 2 => Doing(r, "verify")
              /\ Done(r) = 3 => Doing(r, "metadata")
              /\ Done(r) = 4 => Doing(r, "toolchain publish")
<1> DEFINE path == Path(plan[r].kind)
<1>1. plan[r].kind \in Kind
  BY PlanOf DEF Typed
<1>2. path \in Seq(Job) /\ Len(path) \in Nat
  BY <1>1, Paths
<1>3. /\ Len(st[r].jobs) \in 1 .. Len(path)
      /\ Head(st[r].jobs) = path[Len(path) - Len(st[r].jobs) + 1]
  <2>1. st[r].jobs \in Suffixes(path)
    BY DEF Placed
  <2> HIDE DEF path
  <2> QED BY <1>2, <2>1, SuffixStep
<1>4. Done(r) \in 0 .. Len(path) - 1 /\ Head(st[r].jobs) = path[Done(r) + 1]
  <2>1. Done(r) = Len(path) - Len(st[r].jobs)
    BY DEF Done
  <2> HIDE DEF path
  <2>2. Done(r) + 1 = Len(path) - Len(st[r].jobs) + 1
    BY <1>2, <1>3, <2>1
  <2>3. Done(r) \in 0 .. Len(path) - 1
    BY <1>2, <1>3, <2>1
  <2> QED BY <1>3, <2>2, <2>3
<1>5. CASE Publishes(r)
  <2>1. /\ Len(path) = IF plan[r].kind \in Releases THEN 7 ELSE 6
        /\ \A i \in 1 .. Len(path) : path[i] = Order[i]
    BY <1>1, <1>5, Paths DEF Publishes
  <2>2. /\ \/ Done(r) = 0 \/ Done(r) = 1 \/ Done(r) = 2 \/ Done(r) = 3
           \/ Done(r) = 4 \/ Done(r) = 5
           \/ Done(r) = 6 /\ plan[r].kind \in Releases
        /\ Done(r) + 1 \in 1 .. Len(path)
    <3> HIDE DEF path
    <3> QED BY <1>4, <2>1
  <2>3. /\ Order[1] = "publish" /\ Order[2] = "promote" /\ Order[3] = "verify"
        /\ Order[4] = "metadata" /\ Order[5] = "toolchain publish"
        /\ Order[6] = "toolchain verify" /\ Order[7] = "finalize"
    BY DEF Order
  <2>4. plan[r].kind # "pull-request"
    BY <1>5 DEF Publishes, Publishing, Releases
  <2>5. Head(st[r].jobs) = Order[Done(r) + 1]
    <3> HIDE DEF path
    <3> QED BY <1>4, <2>1, <2>2
  <2>6. /\ Done(r) = 0 => Head(st[r].jobs) = "publish"
        /\ Done(r) = 1 => Head(st[r].jobs) = "promote"
        /\ Done(r) = 2 => Head(st[r].jobs) = "verify"
        /\ Done(r) = 3 => Head(st[r].jobs) = "metadata"
        /\ Done(r) = 4 => Head(st[r].jobs) = "toolchain publish"
        /\ Done(r) = 5 => Head(st[r].jobs) = "toolchain verify"
        /\ Done(r) = 6 => Head(st[r].jobs) = "finalize"
    <3>1. \A n : Done(r) + 1 = n => Head(st[r].jobs) = Order[n]
      BY <2>5
    <3>2. /\ Done(r) = 0 => Done(r) + 1 = 1
          /\ Done(r) = 1 => Done(r) + 1 = 2
          /\ Done(r) = 2 => Done(r) + 1 = 3
          /\ Done(r) = 3 => Done(r) + 1 = 4
          /\ Done(r) = 4 => Done(r) + 1 = 5
          /\ Done(r) = 5 => Done(r) + 1 = 6
          /\ Done(r) = 6 => Done(r) + 1 = 7
      OBVIOUS
    <3> QED BY <2>3, <3>1, <3>2, Zenon
  <2>7. Done(r) \in Nat
    BY <2>2
  <2> HIDE DEF path
  <2> QED BY <1>5, <2>2, <2>4, <2>6, <2>7 DEF Doing
<1>6. CASE ~Publishes(r)
  <2>1. plan[r].kind \in {"main", "pull-request"}
    BY <1>1, <1>6 DEF Kind, Publishes, Publishing, Releases
  <2>2. plan[r].kind = "main" /\ path = <<"promote">>
    BY <1>1, <1>2, <1>3, <2>1, Paths
  <2>3. Head(st[r].jobs) = "promote"
    <3>1. Len(path) = 1 /\ path[1] = "promote"
      BY <2>2
    <3> HIDE DEF path
    <3>2. Len(st[r].jobs) = 1
      BY <1>3, <3>1
    <3> QED BY <1>3, <3>1, <3>2
  <2>4. Done(r) \in Nat
    <3> HIDE DEF path
    <3> QED BY <1>2, <1>4
  <2> QED BY <1>6, <2>2, <2>3, <2>4 DEF Doing
<1> QED BY <1>5, <1>6

(* A run at the start of a job, the same or the next one.                  *)
LEMMA Begins ==
  ASSUME Typed, NEW r \in Run, Placed(r), st[r].jobs # <<>>,
         NEW jobs \in {st[r].jobs, Tail(st[r].jobs)}, NEW pin \in AnyImage,
         plan' = plan, st' = [st EXCEPT ![r] = Begin(r, jobs, pin)]
  PROVE  /\ st' \in [Run -> Place] /\ Placed(r)'
         /\ st'[r].jobs = jobs /\ st'[r].pin = pin
         /\ st'[r].at \in {"start", "inspect"}
         /\ st'[r].at = "inspect" =>
              Doing(r, "promote")' /\ st'[r].todo = Promoted(r)
         /\ jobs = Tail(st[r].jobs) => Done(r)' = Done(r) + 1
         /\ jobs = st[r].jobs => Done(r)' = Done(r)
         /\ \A q \in Run \ {r} : st'[q] = st[q]
<1> DEFINE path == Path(plan[r].kind)
<1>1. /\ path \in Seq(Job) /\ st[r].jobs \in Suffixes(path)
      /\ plan[r].kind # "pull-request"
  BY WhichJob, PlanOf, Paths DEF Typed, Placed
<1> DEFINE left == st[r].jobs
<1> HIDE DEF path
<1>2. /\ jobs \in Suffixes(path) /\ jobs \in Seq(Job)
      /\ Len(left) \in Nat /\ Len(path) \in Nat
      /\ jobs = left => Len(jobs) = Len(left)
      /\ jobs = Tail(left) => Len(jobs) = Len(left) - 1
  <2> HIDE DEF left
  <2>1. left \in Suffixes(path) /\ left # <<>> /\ jobs \in {left, Tail(left)}
    BY <1>1 DEF left
  <2>2. /\ left \in Seq(Job) /\ Len(left) \in 1 .. Len(path)
        /\ Tail(left) \in Suffixes(path) /\ Tail(left) \in Seq(Job)
        /\ Len(Tail(left)) = Len(left) - 1
    BY <1>1, <2>1, SuffixStep
  <2>3. Len(path) \in Nat /\ Len(left) \in Nat
    BY <1>1, <2>2
  <2> QED BY <2>1, <2>2, <2>3
<1> HIDE DEF left
<1>3. /\ Promoted(r) \in Seq(Tag) /\ Promoted(r) # <<>>
      /\ Promoted(r) \in Suffixes(Promoted(r))
  BY <1>1, PromotedTags, WholeIsSuffix DEF Typed
<1> DEFINE promotes == jobs # <<>> /\ Head(jobs) = "promote"
<1>4. Begin(r, jobs, pin) =
        [jobs |-> jobs, at |-> IF promotes THEN "inspect" ELSE "start",
         todo |-> IF promotes THEN Promoted(r) ELSE <<>>,
         seen |-> NoImage, pin |-> pin]
  BY DEF Begin
<1>5. Begin(r, jobs, pin) \in Place
  <2>1. <<>> \in Seq(Tag)
    OBVIOUS
  <2> HIDE DEF promotes
  <2> QED BY <1>2, <1>3, <1>4, <2>1 DEF Place, Stage, AnyImage
<1>6. /\ st' \in [Run -> Place] /\ st'[r] = Begin(r, jobs, pin)
      /\ \A q \in Run \ {r} : st'[q] = st[q]
  BY <1>5 DEF Typed
<1>7. /\ st'[r].jobs = jobs /\ st'[r].pin = pin
      /\ st'[r].at = IF promotes THEN "inspect" ELSE "start"
      /\ st'[r].todo = IF promotes THEN Promoted(r) ELSE <<>>
  <2> HIDE DEF promotes
  <2> QED BY <1>4, <1>6
<1>8. Doing(r, "promote")' <=> promotes
  BY <1>7 DEF Doing
<1>9. Promoted(r)' = Promoted(r)
  BY DEF Promoted, Immutable, VersionTag
<1>10. Placed(r)'
  <2> HIDE DEF promotes
  <2>1. st'[r].jobs \in Suffixes(Path(plan'[r].kind))
    BY <1>2, <1>7 DEF path
  <2>2. Busy(r)' => promotes /\ st'[r].todo = Promoted(r)
    BY <1>7 DEF Busy
  <2>3. st'[r].at \notin {"create", "confirm"}
    BY <1>7
  <2>4. st'[r].at # "start" => st'[r].jobs # <<>>
    BY <1>7 DEF promotes
  <2> QED BY <1>3, <1>8, <1>9, <2>1, <2>2, <2>3, <2>4 DEF Placed
<1>11. /\ jobs = Tail(st[r].jobs) => Done(r)' = Done(r) + 1
       /\ jobs = st[r].jobs => Done(r)' = Done(r)
  <2>1. Done(r) = Len(path) - Len(left) /\ Done(r)' = Len(path) - Len(jobs)
    BY <1>7 DEF Done, path, left
  <2>2. Len(path) - (Len(left) - 1) = Len(path) - Len(left) + 1
    BY <1>2
  <2>3. /\ jobs = left => Done(r)' = Done(r)
        /\ jobs = Tail(left) => Done(r)' = Done(r) + 1
    BY <1>2, <2>1, <2>2
  <2> QED BY <2>3 DEF left
<1> HIDE DEF promotes
<1> QED BY <1>6, <1>7, <1>8, <1>10, <1>11

(* What belongs to a run that stays where it is.                           *)
LEMMA Stays ==
  ASSUME NEW r \in Run, plan' = plan, st'[r] = st[r]
  PROVE  /\ Done(r)' = Done(r) /\ (Busy(r)' <=> Busy(r))
         /\ (Publishes(r)' <=> Publishes(r)) /\ VersionTag(r)' = VersionTag(r)
         /\ Target(r)' = Target(r) /\ Promoted(r)' = Promoted(r)
         /\ PackageOf(r)' = PackageOf(r) /\ ChannelOf(r)' = ChannelOf(r)
         /\ \A job : Doing(r, job)' <=> Doing(r, job)
         /\ \A jobs, stage : At(r, jobs, stage)' <=> At(r, jobs, stage)
         /\ (Uploads(r)' <=> Uploads(r)) /\ (Placed(r)' <=> Placed(r))
         /\ \A t : Writes(r, t)' <=> Writes(r, t)
<1>1. Promoted(r)' = Promoted(r) /\ VersionTag(r)' = VersionTag(r)
  BY DEF Promoted, Immutable, VersionTag
<1>2. Done(r)' = Done(r) /\ (Busy(r)' <=> Busy(r)) /\ (Publishes(r)' <=> Publishes(r))
  BY DEF Done, Busy, Publishes
<1>3. \A job : Doing(r, job)' <=> Doing(r, job)
  BY DEF Doing
<1>4. \A jobs, stage : At(r, jobs, stage)' <=> At(r, jobs, stage)
  BY DEF At
<1>5. /\ Target(r)' = Target(r) /\ PackageOf(r)' = PackageOf(r)
      /\ ChannelOf(r)' = ChannelOf(r)
  BY DEF Target, PackageOf, ChannelOf
<1>6. Uploads(r)' <=> Uploads(r)
  BY DEF Uploads, At
<1>7. Placed(r)' <=> Placed(r)
  BY <1>1, <1>2, <1>3 DEF Placed
<1>8. \A t : Writes(r, t)' <=> Writes(r, t)
  BY DEF Writes, Target
<1> QED BY <1>1, <1>2, <1>3, <1>4, <1>5, <1>6, <1>7, <1>8

(* What a step may do to the registries: what they name stays, but for the *)
(* tags that can move and those that two runs contend for.                 *)
Grows ==
  /\ plan' = plan
  /\ \A p \in Package, v \in Version :
       npm[p][v] # NoPackage => npm'[p][v] = npm[p][v]
  /\ \A t \in Tag : tags[t] # NoImage =>
       /\ tags'[t] # NoImage
       /\ t \notin contended /\ ~IsMutable(t) => tags'[t] = tags[t]
  /\ contended \subseteq contended' /\ signed \subseteq signed'
  /\ \A v \in Version : gitTag[v] # NoSha => gitTag'[v] = gitTag[v]
  /\ \A v \in Version : release[v] # NoSha => release'[v] = release[v]

RunKept(r) == Placed(r) /\ LeftInNpm(r) /\ TagsThere(r) /\ Verified(r)

(* A busy run has a tag to promote.                                        *)
LEMMA TargetIsTag ==
  ASSUME Typed, NEW r \in Run, Placed(r), Busy(r)
  PROVE  Target(r) \in Tag /\ Len(st[r].todo) \in Nat \ {0}
<1>1. st[r].todo \in Seq(Tag) /\ st[r].todo # <<>>
  BY DEF Typed, Place, Placed
<1> QED BY <1>1 DEF Target

(* The tag of a version is one that cannot move.                           *)
LEMMA VersionTagIsTag ==
  ASSUME Typed, NEW r \in Run
  PROVE  VersionTag(r) \in Tag /\ ~IsMutable(VersionTag(r))
  BY PlanOf DEF Typed, VersionTag, Tag, IsMutable

(* Four jobs behind a run are three.                                       *)
LEMMA DoneIsNumber ==
  ASSUME Typed, NEW r \in Run
  PROVE  Done(r) \in Int /\ (Done(r) >= 4 => Done(r) >= 3)
<1>1. Path(plan[r].kind) \in Seq(Job) /\ st[r].jobs \in Seq(Job)
  BY PlanOf, Paths DEF Typed, Place
<1> DEFINE path == Path(plan[r].kind)
           left == st[r].jobs
<1>2. Len(path) \in Nat /\ Len(left) \in Nat
  <2> HIDE DEF path, left
  <2>1. path \in Seq(Job) /\ left \in Seq(Job)
    BY <1>1 DEF path, left
  <2> QED BY <2>1
<1>3. Done(r) = Len(path) - Len(left)
  BY DEF Done
<1> HIDE DEF path, left
<1> QED BY <1>2, <1>3

(* A signed version tag that nobody contends for stays as it is.           *)
LEMMA SignedStays ==
  ASSUME Typed, Grows, NEW r \in Run, VersionTag(r) \notin contended',
         tags[VersionTag(r)] \in signed
  PROVE  tags'[VersionTag(r)] = tags[VersionTag(r)]
         /\ tags'[VersionTag(r)] \in signed'
<1>1. tags[VersionTag(r)] # NoImage /\ VersionTag(r) \notin contended
  BY NamesAssumption DEF Typed, Grows
<1> QED BY <1>1, VersionTagIsTag DEF Grows

(* Growing registries keep what a run has left, if it stays or fails.      *)
LEMMA LeftStays ==
  ASSUME Typed, NEW r \in Run, RunKept(r), Grows,
         Done(r)' = Done(r), st'[r].pin = st[r].pin,
         At(r, {"finalize"}, "release")' => At(r, {"finalize"}, "release"),
         Busy(r)' => st'[r] = st[r]
  PROVE  LeftInNpm(r)' /\ TagsThere(r)' /\ Verified(r)'
<1> DEFINE v == plan[r].version
<1>1. /\ plan'[r] = plan[r] /\ v \in Version /\ plan[r].sha # NoSha
      /\ (Publishes(r)' <=> Publishes(r)) /\ VersionTag(r)' = VersionTag(r)
      /\ Promoted(r)' = Promoted(r)
  BY PlanOf, NamesAssumption
     DEF Grows, Typed, Publishes, VersionTag, Promoted, Immutable
<1>2. LeftInNpm(r)'
  <2>1. \A p \in Package : npm[p][v] # NoPackage => npm'[p][v] = npm[p][v]
    BY <1>1 DEF Grows
  <2>2. gitTag[v] # NoSha => gitTag'[v] = gitTag[v]
    BY <1>1 DEF Grows
  <2> QED BY <1>1, <2>1, <2>2 DEF LeftInNpm, RunKept, Package
<1>3. Busy(r)' => /\ Busy(r) /\ st'[r].todo = st[r].todo /\ st'[r].at = st[r].at
                  /\ Target(r)' = Target(r)
                  /\ \A job : Doing(r, job)' <=> Doing(r, job)
  BY DEF Busy, Target, Doing
<1>4. TagsThere(r)'
  <2>1. ASSUME Publishes(r) \/ (Busy(r) /\ Doing(r, "promote"))
        PROVE  \A i \in 1 .. Len(Promoted(r)) : Promoted(r)[i] \in Tag
    <3>1. plan[r].kind # "pull-request"
      BY <2>1, WhichJob DEF RunKept, Publishes, Publishing, Releases, Doing
    <3> QED BY <3>1, PromotedTags DEF Typed
  <2>2. Busy(r) => Target(r) \in Tag
    BY TargetIsTag DEF RunKept
  <2>3. Busy(r)' /\ Doing(r, "promote")' =>
          \A i \in 1 .. Len(Promoted(r)) - Len(st[r].todo) :
            tags'[Promoted(r)[i]] # NoImage
    <3>1. SUFFICES ASSUME Busy(r), Doing(r, "promote"),
                          NEW i \in 1 .. Len(Promoted(r)) - Len(st[r].todo)
                   PROVE  tags'[Promoted(r)[i]] # NoImage
      BY <1>3
    <3>2. i \in 1 .. Len(Promoted(r))
      <4>1. plan[r].kind # "pull-request"
        BY <3>1, WhichJob DEF RunKept, Doing
      <4>2. Len(Promoted(r)) \in Nat /\ Len(st[r].todo) \in Nat
        BY <3>1, <4>1, PromotedTags, TargetIsTag DEF Typed, RunKept
      <4> QED BY <4>2
    <3> QED BY <2>1, <3>1, <3>2 DEF TagsThere, RunKept, Grows
  <2>4. st'[r].at \in {"confirm", "check", "sign"} => tags'[Target(r)'] # NoImage
    <3>1. st'[r].at \in {"confirm", "check", "sign"} => Busy(r)'
      BY DEF Busy
    <3> QED BY <1>3, <2>2, <3>1 DEF TagsThere, RunKept, Grows
  <2>5. Publishes(r)' /\ Done(r)' >= 2 =>
          \A i \in 1 .. Len(Promoted(r)) : tags'[Promoted(r)[i]] # NoImage
    BY <1>1, <2>1 DEF TagsThere, RunKept, Grows
  <2> QED BY <1>1, <1>3, <2>3, <2>4, <2>5 DEF TagsThere
<1>5. Verified(r)'
  <2>1. VersionTag(r) \in Tag /\ ~IsMutable(VersionTag(r)) /\ plan[r].image # NoImage
    BY VersionTagIsTag, PlanOf DEF Typed
  <2>2. VersionTag(r) \notin contended' => VersionTag(r) \notin contended
    BY DEF Grows
  <2>3. Publishes(r) /\ VersionTag(r) \notin contended'
          /\ (Done(r) >= 3 \/ (Busy(r) /\ Doing(r, "verify")))
        => tags[VersionTag(r)] \in signed
    BY <2>2 DEF Verified, RunKept
  <2>4. Publishes(r) /\ VersionTag(r) \notin contended' /\ Done(r) >= 4
        => st[r].pin = tags[VersionTag(r)] /\ tags[VersionTag(r)] \in signed
    BY <2>2, DoneIsNumber DEF Verified, RunKept
  <2> QED BY <1>1, <1>3, <2>3, <2>4, SignedStays DEF Verified
<1> QED BY <1>2, <1>4, <1>5

(* The tag that a run promotes, and the image that it gives the tag.       *)
LEMMA Targets ==
  ASSUME Typed, NEW r \in Run, RunKept(r), Busy(r)
  PROVE  /\ Target(r) \in Tag /\ Source(r) \in Image /\ st[r].jobs # <<>>
         /\ Head(st[r].jobs) \in Promoting
         /\ Doing(r, "promote") =>
              /\ Source(r) = plan[r].image
              /\ Len(st[r].todo) \in 1 .. Len(Promoted(r))
              /\ Target(r) = Promoted(r)[Len(Promoted(r)) - Len(st[r].todo) + 1]
         /\ Doing(r, "verify") =>
              /\ Source(r) = tags[VersionTag(r)]
              /\ st[r].todo = <<<<"alias", "stable">>>>
         /\ ~IsMutable(Target(r)) => Doing(r, "promote")
         /\ Target(r) = <<"alias", "stable">> => Doing(r, "verify")
         /\ Target(r)[1] = "version" => Publishes(r) /\ Target(r) = VersionTag(r)
<1>1. /\ Placed(r) /\ Target(r) \in Tag /\ st[r].jobs # <<>>
      /\ Doing(r, "promote") \/ Doing(r, "verify")
  BY TargetIsTag DEF RunKept, Placed, Doing
<1>2. CASE Doing(r, "promote")
  <2>1. plan[r].kind # "pull-request" /\ ~Doing(r, "verify")
    BY <1>1, <1>2, WhichJob DEF Doing
  <2>2. Promoted(r) \in Seq(Tag)
    BY <2>1, PromotedTags DEF Typed
  <2>3. st[r].todo \in Suffixes(Promoted(r)) /\ st[r].todo # <<>>
    BY <1>1, <2>1 DEF RunKept, Placed
  <2>4. /\ Len(st[r].todo) \in 1 .. Len(Promoted(r))
        /\ Target(r) = Promoted(r)[Len(Promoted(r)) - Len(st[r].todo) + 1]
    BY <2>2, <2>3, SuffixStep DEF Target
  <2>5. PICK i \in 1 .. Len(Promoted(r)) : Target(r) = Promoted(r)[i]
    <3>1. Len(Promoted(r)) \in Nat
      BY <2>2
    <3>2. Len(Promoted(r)) - Len(st[r].todo) + 1 \in 1 .. Len(Promoted(r))
      BY <2>4, <3>1
    <3> QED BY <2>4, <3>2
  <2>6. Source(r) = plan[r].image /\ Source(r) \in Image
    BY <1>2, PlanOf DEF Source, Doing, Typed
  <2>7. /\ Target(r) # <<"alias", "stable">>
        /\ Target(r)[1] = "version" => Publishes(r) /\ Target(r) = VersionTag(r)
    BY <2>1, <2>5, PromotedTags DEF Typed
  <2>8. Head(st[r].jobs) \in Promoting
    BY <1>2 DEF Doing, Promoting
  <2> QED BY <1>1, <1>2, <2>1, <2>4, <2>6, <2>7, <2>8
<1>3. CASE Doing(r, "verify")
  <2>1. /\ ~Doing(r, "promote") /\ Publishes(r) /\ Done(r) = 2
        /\ plan[r].kind # "pull-request"
    BY <1>1, <1>3, WhichJob DEF Doing
  <2>2. st[r].todo = <<<<"alias", "stable">>>> /\ Target(r) = <<"alias", "stable">>
    BY <2>1 DEF RunKept, Placed, Target
  <2>3. IsMutable(Target(r)) /\ Target(r)[1] # "version"
    BY <2>2 DEF IsMutable
  <2>4. tags[VersionTag(r)] \in Image
    <3>1. Promoted(r) \in Seq(Tag) /\ Promoted(r) # <<>>
          /\ Promoted(r)[1] = VersionTag(r)
      BY <2>1, PromotedTags DEF Typed
    <3>2. 1 \in 1 .. Len(Promoted(r))
      BY <3>1
    <3>3. \A i \in 1 .. Len(Promoted(r)) : tags[Promoted(r)[i]] # NoImage
      BY <2>1 DEF RunKept, TagsThere
    <3> QED BY <3>1, <3>2, <3>3, VersionTagIsTag DEF Typed, AnyImage
  <2>5. Source(r) = tags[VersionTag(r)]
    BY <1>3 DEF Source, Doing
  <2>6. Head(st[r].jobs) \in Promoting
    BY <1>3 DEF Doing, Promoting
  <2> QED BY <1>1, <1>3, <2>1, <2>2, <2>3, <2>4, <2>5, <2>6
<1> QED BY <1>1, <1>2, <1>3

Act(r) == Step(r) \/ Die(r) \/ Rerun(r)

(* Each registry is written by one operation.                              *)
LEMMA Changes ==
  ASSUME Typed, NEW r \in Run, Act(r)
  PROVE  /\ plan' = plan
         /\ npm' = npm \/ Publish(r)
         /\ current' = current \/ Publish(r)
         /\ tags' = tags \/ Create(r)
         /\ signed' = signed \/ Sign(r)
         /\ contended' = contended \/ Inspect(r)
         /\ gitTag' = gitTag \/ CreateGitTag(r)
         /\ release' = release \/ CreateRelease(r)
  BY DEF Act, Step, LookUp, Publish, Inspect, Create, Confirm, CheckSignature,
         Sign, VerifyPackage, VerifyImages, Pin, CreateGitTag, CreateRelease,
         Die, Rerun, registries

(* npm takes a version that it does not have.                              *)
LEMMA PublishNew ==
  ASSUME IInv, NEW r \in Run, Publish(r)
  PROVE  /\ PackageOf(r) \in Package /\ plan[r].version \in Version
         /\ Published(r) = NoPackage /\ Uploads(r) /\ st[r].jobs # <<>>
         /\ Candidate(r) \in Contents /\ Candidate(r) # NoPackage
         /\ Candidate(r).sha = plan[r].sha
         /\ npm'[PackageOf(r)][plan[r].version] = Candidate(r)
         /\ npm' \in [Package -> [Version -> Contents \cup {NoPackage}]]
         /\ \A p \in Package, v \in Version :
              p # PackageOf(r) \/ v # plan[r].version => npm'[p][v] = npm[p][v]
<1> USE DEF IInv
<1>1. Uploads(r) /\ st[r].jobs # <<>> /\ Published(r) = NoPackage
  BY DEF Publish, Uploads, QueueInv, At
<1>2. PackageOf(r) \in Package /\ plan[r].version \in Version
  BY PlanOf DEF PackageOf, Package, Typed
<1>3. Candidate(r) \in Contents /\ Candidate(r).sha = plan[r].sha
  <2>1. plan[r].bytes[PackageOf(r)] \in Bytes /\ plan[r].sha \in Sha
    BY <1>2, PlanOf DEF Typed
  <2>2. st[r].pin \in AnyImage /\ NoImage \in AnyImage
    BY DEF Typed, Place, AnyImage
  <2> QED BY <2>1, <2>2 DEF Candidate, Contents
<1>4. Candidate(r) # NoPackage
  BY <1>3, NamesAssumption DEF Contents, AnyImage
<1>5. /\ npm \in [Package -> [Version -> Contents \cup {NoPackage}]]
      /\ npm' = [npm EXCEPT ![PackageOf(r)][plan[r].version] = Candidate(r)]
  BY DEF Publish, Typed
<1> QED BY <1>1, <1>2, <1>3, <1>4, <1>5

(* Every step keeps what the registries name.                              *)
LEMMA StepGrows ==
  ASSUME IInv, NEW r \in Run, Act(r)
  PROVE  Grows
<1> USE DEF IInv
<1>1. /\ plan' = plan /\ RunKept(r)
      /\ plan[r].version \in Version /\ plan[r].sha # NoSha
  BY Changes, PlanOf, NamesAssumption DEF RunInv, RunKept, Typed
<1>2. \A p \in Package, v \in Version :
        npm[p][v] # NoPackage => npm'[p][v] = npm[p][v]
  <2>1. CASE npm' = npm
    BY <2>1
  <2>2. CASE Publish(r)
    BY <2>2, PublishNew DEF Published
  <2> QED BY <2>1, <2>2, Changes
<1>3. \A t \in Tag : tags[t] # NoImage =>
        /\ tags'[t] # NoImage
        /\ t \notin contended /\ ~IsMutable(t) => tags'[t] = tags[t]
  <2>1. CASE tags' = tags
    BY <2>1
  <2>2. CASE Create(r)
    <3>1. Busy(r) /\ tags' = [tags EXCEPT ![Target(r)] = Source(r)]
          /\ st[r].at = "create"
      BY <2>2 DEF Create, At, Busy
    <3>2. Target(r) \in Tag /\ Source(r) \in Image /\ Source(r) # NoImage
          /\ (~IsMutable(Target(r)) => Source(r) = plan[r].image)
      BY <1>1, <3>1, Targets, NamesAssumption
    <3>3. tags[Target(r)] # NoImage /\ Target(r) \notin contended
            /\ ~IsMutable(Target(r)) => tags[Target(r)] = plan[r].image
      BY <3>1, <3>2 DEF WritersAgree, Writes
    <3> QED BY <3>1, <3>2, <3>3 DEF Typed
  <2> QED BY <2>1, <2>2, Changes
<1>4. contended \subseteq contended' /\ signed \subseteq signed'
  BY Changes DEF Inspect, Sign
<1>5. \A v \in Version : gitTag[v] # NoSha => gitTag'[v] = gitTag[v]
  BY Changes, <1>1 DEF CreateGitTag, Typed
<1>6. \A v \in Version : release[v] # NoSha => release'[v] = release[v]
  BY Changes, <1>1 DEF CreateRelease, Typed
<1> QED BY <1>1, <1>2, <1>3, <1>4, <1>5, <1>6 DEF Grows

-----------------------------------------------------------------------------
(* What a step of r keeps of the runs.                                     *)
Own(r) == /\ st' \in [Run -> Place] /\ RunKept(r)'
          /\ \A q \in Run \ {r} : st'[q] = st[q]

(* A run that stays where it is keeps what it has left.                    *)
LEMMA OthersKept ==
  ASSUME Typed, Grows, NEW r \in Run, RunKept(r), st'[r] = st[r]
  PROVE  RunKept(r)'
<1>1. Done(r)' = Done(r) /\ Placed(r)' /\ (Busy(r)' => st'[r] = st[r])
      /\ (At(r, {"finalize"}, "release")' <=> At(r, {"finalize"}, "release"))
  BY Stays DEF RunKept, Grows
<1> QED BY <1>1, LeftStays DEF RunKept

(* A count that grows by one passes each bound just once.                  *)
LEMMA Counting ==
  ASSUME NEW d \in Nat, NEW e, NEW next \in BOOLEAN,
         next => e = d + 1, ~next => e = d
  PROVE  /\ e >= 1 => d >= 1 \/ (d = 0 /\ next)
         /\ e >= 2 => d >= 2 \/ (d = 1 /\ next)
         /\ e >= 3 => d >= 3 \/ (d = 2 /\ next)
         /\ e >= 4 => d >= 4 \/ (d = 3 /\ next)
         /\ e >= 5 => d >= 5 \/ (d = 4 /\ next)
         /\ d >= 4 => d # 3
  OBVIOUS

(* Nothing is behind a promotion that has all its tags left.               *)
LEMMA NoneLeft ==
  ASSUME NEW S, NEW s \in Seq(S), NEW t, t = s
  PROVE  1 .. Len(s) - Len(t) = {}
<1>1. Len(s) \in Nat /\ Len(s) = Len(t)
  OBVIOUS
<1>2. Len(s) - Len(t) = 0
  BY <1>1
<1> QED BY <1>2

(* The tags in front of what is left to promote.                           *)
LEMMA InFront ==
  ASSUME NEW S, NEW s \in Seq(S), NEW T, NEW t \in Seq(T),
         NEW i \in 1 .. Len(s) - Len(t)
  PROVE  s[i] \in S /\ i \in 1 .. Len(s)
<1>1. Len(s) \in Nat /\ Len(t) \in Nat
  OBVIOUS
<1>2. i \in 1 .. Len(s)
  BY <1>1
<1> QED BY <1>2, ElementOfSeq

(* The image that was verified is still there.                             *)
LEMMA VerifiedStays ==
  ASSUME Typed, Grows, NEW r \in Run, RunKept(r), Busy(r), Doing(r, "verify"),
         VersionTag(r) \notin contended'
  PROVE  tags'[VersionTag(r)] \in signed'
<1>1. Publishes(r) /\ VersionTag(r) \notin contended
  BY WhichJob DEF Grows, RunKept, Doing
<1>2. tags[VersionTag(r)] \in signed
  BY <1>1 DEF RunKept, Verified
<1> QED BY <1>2, SignedStays

(* A run ends its job, or starts it again.                                 *)
LEMMA JobEnds ==
  ASSUME Typed, Grows, NEW r \in Run, RunKept(r), st[r].jobs # <<>>,
         NEW jobs \in {st[r].jobs, Tail(st[r].jobs)}, NEW pin \in AnyImage,
         st' = [st EXCEPT ![r] = Begin(r, jobs, pin)],
         jobs = st[r].jobs \/ ~Doing(r, "metadata") => pin = st[r].pin,
         jobs = Tail(st[r].jobs) =>
           /\ Doing(r, "publish") =>
                /\ npm'["libcascade"][plan[r].version] # NoPackage
                /\ npm'["libcascade"][plan[r].version].sha = plan[r].sha
           /\ Doing(r, "promote") /\ Publishes(r) =>
                \A i \in 1 .. Len(Promoted(r)) : tags'[Promoted(r)[i]] # NoImage
           /\ Doing(r, "verify") /\ VersionTag(r) \notin contended' =>
                /\ tags'[VersionTag(r)] \in signed'
           /\ Doing(r, "metadata") /\ VersionTag(r) \notin contended' =>
                pin = tags'[VersionTag(r)]
           /\ Doing(r, "toolchain publish") =>
                npm'["toolchain"][plan[r].version] # NoPackage
  PROVE  Own(r)
<1> DEFINE v == plan[r].version
           Next1 == jobs = Tail(st[r].jobs)
<1>1. /\ plan' = plan /\ v \in Version /\ (Publishes(r)' <=> Publishes(r))
      /\ VersionTag(r)' = VersionTag(r) /\ Promoted(r)' = Promoted(r)
      /\ VersionTag(r) \in Tag /\ ~IsMutable(VersionTag(r))
      /\ plan[r].image # NoImage
  BY PlanOf, VersionTagIsTag
     DEF Grows, Typed, Publishes, VersionTag, Promoted, Immutable
<1>2. /\ st' \in [Run -> Place] /\ Placed(r)' /\ st'[r].pin = pin
      /\ st'[r].at \in {"start", "inspect"}
      /\ st'[r].at = "inspect" =>
           Doing(r, "promote")' /\ st'[r].todo = Promoted(r)
      /\ Next1 => Done(r)' = Done(r) + 1
      /\ ~Next1 => Done(r)' = Done(r)
      /\ \A q \in Run \ {r} : st'[q] = st[q]
  BY <1>1, Begins DEF RunKept
<1>3. /\ Done(r) \in Nat
      /\ Doing(r, "metadata") => Done(r) = 3
      /\ Publishes(r) =>
           /\ Done(r) = 0 => Doing(r, "publish")
           /\ Done(r) = 1 => Doing(r, "promote")
           /\ Done(r) = 2 => Doing(r, "verify")
           /\ Done(r) = 3 => Doing(r, "metadata")
           /\ Done(r) = 4 => Doing(r, "toolchain publish")
  BY WhichJob DEF RunKept
<1>4. Busy(r)' => ~Doing(r, "verify")' /\ Doing(r, "promote")'
  BY <1>2 DEF Busy, Doing
<1> DEFINE d == Done(r)
           e == Done(r)'
<1>9. d \in Nat /\ (Next1 => e = d + 1) /\ (~Next1 => e = d)
  BY <1>2, <1>3
<1>10. /\ e >= 1 => d >= 1 \/ (d = 0 /\ Next1)
       /\ e >= 2 => d >= 2 \/ (d = 1 /\ Next1)
       /\ e >= 3 => d >= 3 \/ (d = 2 /\ Next1)
       /\ e >= 4 => d >= 4 \/ (d = 3 /\ Next1)
       /\ e >= 5 => d >= 5 \/ (d = 4 /\ Next1)
       /\ d >= 4 => d # 3
  <2> HIDE DEF d, e, Next1
  <2> QED BY <1>9, Counting, Zenon
<1>5. \A p \in Package : npm[p][v] # NoPackage => npm'[p][v] = npm[p][v]
  BY <1>1 DEF Grows
<1> HIDE DEF Next1
<1>6. LeftInNpm(r)'
  <2>1. ASSUME Publishes(r), Done(r)' >= 1
        PROVE  npm'["libcascade"][v] # NoPackage
               /\ npm'["libcascade"][v].sha = plan[r].sha
    <3>1. Done(r) >= 1 \/ (Done(r) = 0 /\ Next1)
      BY <1>10, <2>1
    <3> QED BY <1>3, <1>5, <2>1, <3>1 DEF RunKept, LeftInNpm, Package, Next1
  <2>2. ASSUME Publishes(r), Done(r)' >= 5
        PROVE  npm'["toolchain"][v] # NoPackage
    <3>1. Done(r) >= 5 \/ (Done(r) = 4 /\ Next1)
      BY <1>10, <2>2
    <3> QED BY <1>3, <1>5, <2>2, <3>1 DEF RunKept, LeftInNpm, Package, Next1
  <2>3. ~At(r, {"finalize"}, "release")'
    BY <1>2 DEF At
  <2> QED BY <1>1, <2>1, <2>2, <2>3 DEF LeftInNpm
<1>7. TagsThere(r)'
  <2>1. Busy(r)' =>
          \A i \in 1 .. Len(Promoted(r)) - Len(st'[r].todo) :
            tags'[Promoted(r)[i]] # NoImage
    <3>1. SUFFICES ASSUME Busy(r)'
                   PROVE  1 .. Len(Promoted(r)) - Len(st'[r].todo) = {}
      OBVIOUS
    <3>2. st'[r].todo = Promoted(r) /\ st'[r].todo \in Seq(Tag)
      BY <1>2, <1>4, <3>1 DEF Busy, Place
    <3> QED BY <3>2, NoneLeft, Zenon
  <2>2. ASSUME Publishes(r), Done(r)' >= 2
        PROVE  \A i \in 1 .. Len(Promoted(r)) : tags'[Promoted(r)[i]] # NoImage
    <3>1. Done(r) >= 2 \/ (Done(r) = 1 /\ Next1)
      BY <1>10, <2>2
    <3>2. CASE Done(r) >= 2
      <4>1. plan[r].kind # "pull-request"
        BY <2>2 DEF Publishes, Publishing, Releases
      <4>2. Promoted(r) \in Seq(Tag)
        BY <4>1, PromotedTags DEF Typed
      <4>3. \A i \in 1 .. Len(Promoted(r)) : Promoted(r)[i] \in Tag
        BY <4>2, ElementOfSeq, Zenon
      <4>4. \A i \in 1 .. Len(Promoted(r)) : tags[Promoted(r)[i]] # NoImage
        BY <2>2, <3>2 DEF RunKept, TagsThere
      <4> QED BY <4>3, <4>4 DEF Grows
    <3>3. CASE Done(r) = 1 /\ Next1
      BY <1>3, <2>2, <3>3 DEF Next1
    <3> QED BY <3>1, <3>2, <3>3
  <2>3. st'[r].at \notin {"confirm", "check", "sign"}
    BY <1>2
  <2> QED BY <1>1, <2>1, <2>2, <2>3 DEF TagsThere
<1>8. Verified(r)'
  <2>1. SUFFICES ASSUME Publishes(r), VersionTag(r) \notin contended'
                 PROVE  /\ Done(r)' >= 3 => tags'[VersionTag(r)] \in signed'
                        /\ Done(r)' >= 4 => pin = tags'[VersionTag(r)]
    BY <1>1, <1>2, <1>4 DEF Verified
  <2>2. VersionTag(r) \notin contended
    BY <2>1 DEF Grows
  <2>3. ASSUME Done(r)' >= 3
        PROVE  tags'[VersionTag(r)] \in signed'
    <3>1. Done(r) >= 3 \/ (Done(r) = 2 /\ Next1)
      BY <1>10, <2>3
    <3>2. Done(r) >= 3 => tags[VersionTag(r)] \in signed
      BY <2>1, <2>2 DEF RunKept, Verified
    <3> QED BY <1>3, <2>1, <3>1, <3>2, SignedStays DEF Next1
  <2>4. ASSUME Done(r)' >= 4 PROVE pin = tags'[VersionTag(r)]
    <3>1. Done(r) >= 4 \/ (Done(r) = 3 /\ Next1)
      BY <1>10, <2>4
    <3>2. CASE Done(r) >= 4
      <4>1. pin = st[r].pin
        <5>1. ~Doing(r, "metadata")
          BY <1>3, <1>10, <3>2
        <5> QED BY <5>1
      <4>2. Done(r) >= 3
        BY <3>2, DoneIsNumber
      <4>3. st[r].pin = tags[VersionTag(r)] /\ tags[VersionTag(r)] \in signed
        BY <2>1, <2>2, <3>2, <4>2 DEF RunKept, Verified
      <4> QED BY <2>1, <4>1, <4>3, SignedStays
    <3>3. CASE Done(r) = 3 /\ Next1
      BY <1>3, <2>1, <3>3 DEF Next1
    <3> QED BY <3>1, <3>2, <3>3
  <2> QED BY <2>3, <2>4
<1> QED BY <1>2, <1>6, <1>7, <1>8 DEF Own, RunKept

(* A run goes on within its job.                                           *)
LEMMA Moves ==
  ASSUME Typed, Grows, NEW r \in Run, RunKept(r), st[r].jobs # <<>>,
         st' \in [Run -> Place], \A q \in Run \ {r} : st'[q] = st[q],
         NEW x, x = st'[r],
         x.jobs = st[r].jobs, x.pin = st[r].pin,
         x.at = "release" /\ Doing(r, "finalize") =>
           gitTag'[plan[r].version] = plan[r].sha,
         x.at \in {"inspect", "create", "confirm", "check", "sign"} =>
           /\ x.todo # <<>>
           /\ \/ /\ Doing(r, "promote") /\ x.todo \in Suffixes(Promoted(r))
                 /\ \A i \in 1 .. Len(Promoted(r)) - Len(x.todo) :
                      tags'[Promoted(r)[i]] # NoImage
              \/ /\ Doing(r, "verify") /\ x.todo = <<<<"alias", "stable">>>>
                 /\ VersionTag(r) \notin contended' =>
                      /\ tags'[VersionTag(r)] \in signed',
         x.at \in {"create", "confirm"} => x.seen \in Image,
         x.at \in {"confirm", "check", "sign"} => tags'[Head(x.todo)] # NoImage
  PROVE  Own(r)
<1> DEFINE v == plan[r].version
<1>1. /\ plan' = plan /\ v \in Version /\ (Publishes(r)' <=> Publishes(r))
      /\ VersionTag(r)' = VersionTag(r) /\ Promoted(r)' = Promoted(r)
      /\ VersionTag(r) \in Tag /\ ~IsMutable(VersionTag(r))
      /\ plan[r].image # NoImage
  BY PlanOf, VersionTagIsTag
     DEF Grows, Typed, Publishes, VersionTag, Promoted, Immutable
<1>2. /\ st' \in [Run -> Place] /\ st'[r] = x
      /\ \A q \in Run \ {r} : st'[q] = st[q]
  OBVIOUS
<1>3. /\ Done(r)' = Done(r) /\ Target(r)' = Head(x.todo)
      /\ (Busy(r)' <=> x.at \in {"inspect", "create", "confirm", "check", "sign"})
      /\ \A job : Doing(r, job)' <=> Doing(r, job)
  BY <1>1, <1>2 DEF Done, Target, Busy, Doing
<1>4. ~ (Doing(r, "promote") /\ Doing(r, "verify"))
  BY DEF Doing
<1>5. Placed(r)'
  BY <1>1, <1>2, <1>3 DEF Placed, RunKept
<1>6. LeftInNpm(r)'
  <2>1. \A p \in Package : npm[p][v] # NoPackage => npm'[p][v] = npm[p][v]
    BY <1>1 DEF Grows
  <2>2. At(r, {"finalize"}, "release")' => x.at = "release" /\ Doing(r, "finalize")
    BY <1>2 DEF At, Doing
  <2> QED BY <1>1, <1>3, <2>1, <2>2 DEF LeftInNpm, RunKept, Package
<1>7. TagsThere(r)'
  <2>1. Busy(r)' /\ Doing(r, "promote")' =>
          \A i \in 1 .. Len(Promoted(r)) - Len(x.todo) :
            tags'[Promoted(r)[i]] # NoImage
    BY <1>3, <1>4
  <2>2. ASSUME Publishes(r), Done(r) >= 2, NEW i \in 1 .. Len(Promoted(r))
        PROVE  tags'[Promoted(r)[i]] # NoImage
    <3>1. plan[r].kind # "pull-request"
      BY <2>2 DEF Publishes, Publishing, Releases
    <3>2. Promoted(r)[i] \in Tag /\ tags[Promoted(r)[i]] # NoImage
      BY <2>2, <3>1, PromotedTags DEF RunKept, TagsThere, Typed
    <3> QED BY <3>2 DEF Grows
  <2> QED BY <1>1, <1>2, <1>3, <2>1, <2>2 DEF TagsThere
<1>8. Verified(r)'
  <2>1. VersionTag(r) \notin contended' => VersionTag(r) \notin contended
    BY DEF Grows
  <2>2. Busy(r)' /\ Doing(r, "verify")' /\ VersionTag(r) \notin contended' =>
          tags'[VersionTag(r)] \in signed'
    BY <1>3, <1>4
  <2>3. Publishes(r) /\ VersionTag(r) \notin contended'
        => /\ Done(r) >= 3 => tags[VersionTag(r)] \in signed
           /\ Done(r) >= 4 => st[r].pin = tags[VersionTag(r)]
                              /\ tags[VersionTag(r)] \in signed
    BY <2>1, DoneIsNumber DEF Verified, RunKept
  <2> QED BY <1>1, <1>2, <1>3, <2>2, <2>3, SignedStays DEF Verified
<1> QED BY <1>2, <1>5, <1>6, <1>7, <1>8 DEF Own, RunKept

(* A sequence is not its tail.                                             *)
LEMMA NotItsTail ==
  ASSUME NEW S, NEW s \in Seq(S), s # <<>>
  PROVE  s # Tail(s)
<1>1. Len(Tail(s)) = Len(s) - 1 /\ Len(s) \in Nat
  BY HeadTailProperties
<1>2. \A n \in Nat : \A m : m = n - 1 => m # n
  OBVIOUS
<1> QED BY <1>1, <1>2, Zenon

(* What a run keeps when it goes to another step,                          *)
LEMMA SetStage ==
  ASSUME Typed, NEW r \in Run, NEW stage \in Stage, Goto(r, stage)
  PROVE  /\ st' \in [Run -> Place] /\ \A q \in Run \ {r} : st'[q] = st[q]
         /\ st'[r].at = stage /\ st'[r].jobs = st[r].jobs
         /\ st'[r].todo = st[r].todo /\ st'[r].seen = st[r].seen
         /\ st'[r].pin = st[r].pin
  BY DEF Typed, Goto, Place

(* and when it has looked at its tag.                                      *)
LEMMA SetSeen ==
  ASSUME Typed, NEW r \in Run, NEW stage \in Stage, Looked(r, stage),
         Source(r) \in Image
  PROVE  /\ st' \in [Run -> Place] /\ \A q \in Run \ {r} : st'[q] = st[q]
         /\ st'[r].at = stage /\ st'[r].jobs = st[r].jobs
         /\ st'[r].todo = st[r].todo /\ st'[r].seen = Source(r)
         /\ st'[r].pin = st[r].pin
  BY DEF Typed, Looked, Place, AnyImage

(* A job that fails, or that goes on but to promote or to finalize.        *)
LEMMA Rests ==
  ASSUME Typed, Grows, NEW r \in Run, RunKept(r), st[r].jobs # <<>>,
         NEW stage \in {"failed", "publishing", "images"}, Goto(r, stage)
  PROVE  Own(r)
<1>1. stage \in Stage /\ stage # "release"
      /\ stage \notin {"inspect", "create", "confirm", "check", "sign"}
  BY DEF Stage
<1>2. /\ st' \in [Run -> Place] /\ \A q \in Run \ {r} : st'[q] = st[q]
      /\ st'[r].at = stage /\ st'[r].jobs = st[r].jobs /\ st'[r].pin = st[r].pin
  BY <1>1, SetStage
<1> QED BY <1>1, <1>2, Moves

(* A promotion that goes on with its tag.                                  *)
LEMMA Advances ==
  ASSUME Typed, Grows, NEW r \in Run, RunKept(r), Busy(r),
         st' \in [Run -> Place], \A q \in Run \ {r} : st'[q] = st[q],
         NEW x, x = st'[r], x.jobs = st[r].jobs, x.pin = st[r].pin,
         x.todo = st[r].todo, x.at \in {"create", "confirm", "check", "sign"},
         x.at \in {"create", "confirm"} => x.seen \in Image,
         x.at \in {"confirm", "check", "sign"} => tags'[Target(r)] # NoImage
  PROVE  Own(r)
<1>1. /\ st[r].jobs # <<>> /\ st[r].todo # <<>>
      /\ \/ Doing(r, "promote") /\ st[r].todo \in Suffixes(Promoted(r))
         \/ Doing(r, "verify") /\ st[r].todo = <<<<"alias", "stable">>>>
  BY DEF RunKept, Placed, Doing
<1>2. Doing(r, "promote") =>
        \A i \in 1 .. Len(Promoted(r)) - Len(st[r].todo) :
          tags'[Promoted(r)[i]] # NoImage
  <2>1. SUFFICES ASSUME Doing(r, "promote"),
                        NEW i \in 1 .. Len(Promoted(r)) - Len(st[r].todo)
                 PROVE  tags'[Promoted(r)[i]] # NoImage
    OBVIOUS
  <2>2. Promoted(r) \in Seq(Tag) /\ st[r].todo \in Seq(Tag)
    BY <1>1, <2>1, WhichJob, PromotedTags DEF Typed, RunKept, Place
  <2>3. Promoted(r)[i] \in Tag
    BY <2>1, <2>2, InFront
  <2>4. tags[Promoted(r)[i]] # NoImage
    BY <2>1 DEF RunKept, TagsThere
  <2> QED BY <2>3, <2>4 DEF Grows
<1>3. Doing(r, "verify") /\ VersionTag(r) \notin contended' =>
        tags'[VersionTag(r)] \in signed'
  BY <1>1, VerifiedStays
<1>4. x.at # "release" /\ Head(x.todo) = Target(r)
  BY DEF Target
<1> QED BY <1>1, <1>2, <1>3, <1>4, Moves

(* The end of a tag: the next one, or the end of the job.                  *)
LEMMA TagEnds ==
  ASSUME Typed, Grows, NEW r \in Run, RunKept(r), Busy(r), NextTag(r),
         tags'[Target(r)] # NoImage
  PROVE  Own(r)
<1>1. /\ st[r].jobs # <<>> /\ st[r].todo # <<>> /\ st[r].todo \in Seq(Tag)
      /\ Doing(r, "promote") \/ Doing(r, "verify")
      /\ Doing(r, "promote") => st[r].todo \in Suffixes(Promoted(r))
      /\ Doing(r, "verify") => st[r].todo = <<<<"alias", "stable">>>>
      /\ st[r].pin \in AnyImage
  BY DEF RunKept, Placed, Doing, Typed, Place
<1>2. ASSUME Doing(r, "promote")
      PROVE  /\ Promoted(r) \in Seq(Tag)
             /\ Len(st[r].todo) \in 1 .. Len(Promoted(r))
             /\ Tail(st[r].todo) \in Suffixes(Promoted(r))
             /\ Tail(st[r].todo) \in Seq(Tag)
             /\ Len(Tail(st[r].todo)) = Len(st[r].todo) - 1
             /\ \A i \in 1 .. Len(Promoted(r)) - (Len(st[r].todo) - 1) :
                  tags'[Promoted(r)[i]] # NoImage
  <2>1. Promoted(r) \in Seq(Tag)
    BY <1>1, <1>2, WhichJob, PromotedTags DEF Typed, RunKept
  <2>2. /\ Len(st[r].todo) \in 1 .. Len(Promoted(r))
        /\ Tail(st[r].todo) \in Suffixes(Promoted(r))
        /\ Tail(st[r].todo) \in Seq(Tag)
        /\ Len(Tail(st[r].todo)) = Len(st[r].todo) - 1
    BY <1>1, <1>2, <2>1, SuffixStep
  <2>3. Target(r) = Promoted(r)[Len(Promoted(r)) - Len(st[r].todo) + 1]
    BY <1>2, Targets
  <2>4. ASSUME NEW i \in 1 .. Len(Promoted(r)) - (Len(st[r].todo) - 1)
        PROVE  tags'[Promoted(r)[i]] # NoImage
    <3>1. Len(Promoted(r)) \in Nat /\ Len(st[r].todo) \in Nat
      BY <2>1, <1>1
    <3>2. \/ i = Len(Promoted(r)) - Len(st[r].todo) + 1
          \/ i \in 1 .. Len(Promoted(r)) - Len(st[r].todo)
      BY <3>1, <2>4
    <3>3. CASE i = Len(Promoted(r)) - Len(st[r].todo) + 1
      BY <2>3, <3>3
    <3>4. CASE i \in 1 .. Len(Promoted(r)) - Len(st[r].todo)
      <4>1. Promoted(r)[i] \in Tag
        BY <1>1, <2>1, <3>4, InFront
      <4>2. tags[Promoted(r)[i]] # NoImage
        BY <1>2, <3>4 DEF RunKept, TagsThere
      <4> QED BY <4>1, <4>2 DEF Grows
    <3> QED BY <3>2, <3>3, <3>4
  <2> QED BY <2>1, <2>2, <2>4
<1>3. CASE Len(st[r].todo) = 1
  <2>1. EndJob(r)
    BY <1>3 DEF NextTag
  <2>2. Doing(r, "promote") =>
          \A i \in 1 .. Len(Promoted(r)) : tags'[Promoted(r)[i]] # NoImage
    <3>1. SUFFICES ASSUME Doing(r, "promote"), NEW i \in 1 .. Len(Promoted(r))
                   PROVE  tags'[Promoted(r)[i]] # NoImage
      OBVIOUS
    <3>2. Promoted(r) \in Seq(Tag) /\
          \A j \in 1 .. Len(Promoted(r)) - (Len(st[r].todo) - 1) :
             tags'[Promoted(r)[j]] # NoImage
      BY <1>2, <3>1
    <3>3. Len(Promoted(r)) - (Len(st[r].todo) - 1) = Len(Promoted(r))
      BY <1>3, <3>2
    <3> QED BY <3>1, <3>2, <3>3
  <2>3. Doing(r, "verify") /\ VersionTag(r) \notin contended' =>
          tags'[VersionTag(r)] \in signed'
    BY <1>1, VerifiedStays
  <2>4. ~Doing(r, "publish") /\ ~Doing(r, "metadata")
        /\ ~Doing(r, "toolchain publish")
    BY <1>1 DEF Doing
  <2> QED BY <1>1, <2>1, <2>2, <2>3, <2>4, JobEnds DEF EndJob, EndJobWith
<1>4. CASE Len(st[r].todo) # 1
  <2>1. st' = [st EXCEPT ![r].todo = Tail(@), ![r].at = "inspect",
                         ![r].seen = NoImage]
    BY <1>4 DEF NextTag
  <2>2. Doing(r, "promote")
    <3>1. \A t : t = <<<<"alias", "stable">>>> => Len(t) = 1
      OBVIOUS
    <3> QED BY <1>1, <1>4, <3>1, Zenon
  <2>3. /\ Tail(st[r].todo) \in Suffixes(Promoted(r))
        /\ Tail(st[r].todo) \in Seq(Tag) /\ Tail(st[r].todo) # <<>>
    <3>1. Len(Tail(st[r].todo)) # 0
      BY <1>1, <1>2, <1>4, <2>2
    <3>2. Tail(st[r].todo) # <<>>
      <4>1. Len(<<>>) = 0
        OBVIOUS
      <4> QED BY <3>1, <4>1, Zenon
    <3> QED BY <1>2, <2>2, <3>2
  <2>4. /\ st' \in [Run -> Place] /\ \A q \in Run \ {r} : st'[q] = st[q]
        /\ st'[r].at = "inspect" /\ st'[r].jobs = st[r].jobs
        /\ st'[r].todo = Tail(st[r].todo) /\ st'[r].pin = st[r].pin
    <3> DEFINE rest == Tail(st[r].todo)
               x == [st[r] EXCEPT !.todo = rest, !.at = "inspect",
                                  !.seen = NoImage]
    <3>1. rest \in Seq(Tag)
      BY <2>3
    <3>2. st' = [st EXCEPT ![r] = x]
      BY <2>1 DEF Typed
    <3> HIDE DEF rest
    <3>3. /\ x \in Place /\ x.at = "inspect" /\ x.jobs = st[r].jobs
          /\ x.todo = rest /\ x.pin = st[r].pin
      BY <3>1 DEF Typed, Place, Stage, AnyImage
    <3> HIDE DEF x
    <3>4. st' \in [Run -> Place] /\ st'[r] = x
          /\ \A q \in Run \ {r} : st'[q] = st[q]
      BY <3>2, <3>3 DEF Typed
    <3> QED BY <3>3, <3>4 DEF rest
  <2>5. \A i \in 1 .. Len(Promoted(r)) - Len(st'[r].todo) :
          tags'[Promoted(r)[i]] # NoImage
    <3>1. Len(st'[r].todo) = Len(st[r].todo) - 1
      BY <1>2, <2>2, <2>4
    <3> QED BY <1>2, <2>2, <3>1
  <2> QED BY <1>1, <2>2, <2>3, <2>4, <2>5, Moves
<1> QED BY <1>3, <1>4

(* Each operation leaves its run in order: the look-up in npm,             *)
LEMMA OwnLookUp ==
  ASSUME IInv, Grows, NEW r \in Run, RunKept(r), LookUp(r)
  PROVE  Own(r)
<1> USE DEF IInv
<1>1. /\ st[r].jobs # <<>> /\ npm' = npm /\ st[r].pin \in AnyImage
      /\ Doing(r, "publish") \/ Doing(r, "toolchain publish")
  BY DEF LookUp, At, PublishJobs, registries, Doing, Typed, Place
<1>2. CASE Goto(r, "publishing") \/ Fail(r)
  BY <1>1, <1>2, Rests DEF Fail
<1>3. CASE EndJob(r) /\ Published(r) # NoPackage /\ Published(r) = Candidate(r)
  <2>1. Candidate(r).sha = plan[r].sha
    BY DEF Candidate
  <2>2. /\ Doing(r, "publish") => PackageOf(r) = "libcascade"
        /\ Doing(r, "toolchain publish") => PackageOf(r) = "toolchain"
    BY DEF Doing, PackageOf
  <2>3. /\ ~Doing(r, "metadata") /\ ~Doing(r, "promote") /\ ~Doing(r, "verify")
    BY <1>1 DEF Doing
  <2> QED BY <1>1, <1>3, <2>1, <2>2, <2>3, JobEnds
          DEF EndJob, EndJobWith, Published
<1> QED BY <1>2, <1>3 DEF LookUp, Proceed

(* the upload, which may be the last thing that its job does,              *)
LEMMA OwnPublish ==
  ASSUME IInv, Grows, NEW r \in Run, RunKept(r), Publish(r)
  PROVE  Own(r)
<1> USE DEF IInv
<1>1. /\ st[r].jobs # <<>> /\ st[r].pin \in AnyImage
      /\ Doing(r, "publish") \/ Doing(r, "toolchain publish")
  BY DEF Publish, At, PublishJobs, Doing, Typed, Place
<1>2. CASE Fail(r)
  BY <1>1, <1>2, Rests DEF Fail
<1>3. CASE EndJob(r)
  <2>1. /\ npm'[PackageOf(r)][plan[r].version] # NoPackage
        /\ npm'[PackageOf(r)][plan[r].version].sha = plan[r].sha
    BY PublishNew
  <2>2. /\ Doing(r, "publish") => PackageOf(r) = "libcascade"
        /\ Doing(r, "toolchain publish") => PackageOf(r) = "toolchain"
    BY DEF Doing, PackageOf
  <2>3. /\ ~Doing(r, "metadata") /\ ~Doing(r, "promote") /\ ~Doing(r, "verify")
    BY <1>1 DEF Doing
  <2> QED BY <1>1, <1>3, <2>1, <2>2, <2>3, JobEnds DEF EndJob, EndJobWith
<1> QED BY <1>2, <1>3 DEF Publish

(* the look at a tag,                                                      *)
LEMMA OwnInspect ==
  ASSUME IInv, Grows, NEW r \in Run, RunKept(r), Inspect(r)
  PROVE  Own(r)
<1> USE DEF IInv
<1>1. /\ Busy(r) /\ st[r].jobs # <<>> /\ tags' = tags
  BY DEF Inspect, At, Busy, registries
<1>2. Source(r) \in Image /\ NoImage \notin Image
  BY <1>1, Targets, NamesAssumption
<1>3. CASE Fail(r)
  BY <1>1, <1>3, Rests DEF Fail
<1>4. ASSUME NEW stage \in {"create", "confirm"}, Looked(r, stage),
             stage = "confirm" => tags[Target(r)] # NoImage
      PROVE  Own(r)
  <2>1. /\ st' \in [Run -> Place] /\ \A q \in Run \ {r} : st'[q] = st[q]
        /\ st'[r].at = stage /\ st'[r].jobs = st[r].jobs
        /\ st'[r].todo = st[r].todo /\ st'[r].seen = Source(r)
        /\ st'[r].pin = st[r].pin
    BY <1>2, <1>4, SetSeen DEF Stage
  <2> QED BY <1>1, <1>2, <1>4, <2>1, Advances
<1> QED BY <1>3, <1>4 DEF Inspect

(* its creation,                                                           *)
LEMMA OwnCreate ==
  ASSUME IInv, Grows, NEW r \in Run, RunKept(r), Create(r)
  PROVE  Own(r)
<1> USE DEF IInv
<1>1. /\ Busy(r) /\ st[r].at = "create" /\ Goto(r, "confirm")
      /\ tags' = [tags EXCEPT ![Target(r)] = Source(r)]
  BY DEF Create, At, Busy
<1>2. tags'[Target(r)] # NoImage
  BY <1>1, Targets, NamesAssumption DEF Typed
<1>3. st[r].seen \in Image
  BY <1>1 DEF RunKept, Placed
<1>4. /\ st' \in [Run -> Place] /\ \A q \in Run \ {r} : st'[q] = st[q]
      /\ st'[r].at = "confirm" /\ st'[r].jobs = st[r].jobs
      /\ st'[r].todo = st[r].todo /\ st'[r].seen = st[r].seen
      /\ st'[r].pin = st[r].pin
  BY <1>1, SetStage DEF Stage
<1> QED BY <1>1, <1>2, <1>3, <1>4, Advances

(* the second look,                                                        *)
LEMMA OwnConfirm ==
  ASSUME IInv, Grows, NEW r \in Run, RunKept(r), Confirm(r)
  PROVE  Own(r)
<1> USE DEF IInv
<1>1. /\ Busy(r) /\ st[r].at = "confirm" /\ tags' = tags /\ st[r].jobs # <<>>
  BY DEF Confirm, At, Busy, registries
<1>2. CASE Fail(r)
  BY <1>1, <1>2, Rests DEF Fail
<1>3. CASE Goto(r, "check") /\ SameNative(tags[Target(r)], st[r].seen)
  <2>1. tags'[Target(r)] # NoImage
    BY <1>1, <1>3, NamesAssumption DEF SameNative
  <2>2. /\ st' \in [Run -> Place] /\ \A q \in Run \ {r} : st'[q] = st[q]
        /\ st'[r].at = "check" /\ st'[r].jobs = st[r].jobs
        /\ st'[r].todo = st[r].todo /\ st'[r].pin = st[r].pin
    BY <1>3, SetStage DEF Stage
  <2> QED BY <1>1, <2>1, <2>2, Advances
<1> QED BY <1>2, <1>3 DEF Confirm

(* the look for a signature,                                               *)
LEMMA OwnCheckSignature ==
  ASSUME IInv, Grows, NEW r \in Run, RunKept(r), CheckSignature(r)
  PROVE  Own(r)
<1> USE DEF IInv
<1>1. /\ Busy(r) /\ st[r].at = "check" /\ tags' = tags
  BY DEF CheckSignature, At, Busy, registries
<1>2. tags'[Target(r)] # NoImage
  BY <1>1 DEF RunKept, TagsThere
<1>3. CASE NextTag(r)
  BY <1>1, <1>2, <1>3, TagEnds
<1>4. CASE Goto(r, "sign")
  <2>1. /\ st' \in [Run -> Place] /\ \A q \in Run \ {r} : st'[q] = st[q]
        /\ st'[r].at = "sign" /\ st'[r].jobs = st[r].jobs
        /\ st'[r].todo = st[r].todo /\ st'[r].pin = st[r].pin
    BY <1>4, SetStage DEF Stage
  <2> QED BY <1>1, <1>2, <2>1, Advances
<1> QED BY <1>3, <1>4 DEF CheckSignature

(* and the signing;                                                        *)
LEMMA OwnSign ==
  ASSUME IInv, Grows, NEW r \in Run, RunKept(r), Sign(r)
  PROVE  Own(r)
<1> USE DEF IInv
<1>1. Busy(r) /\ st[r].at = "sign" /\ tags' = tags /\ NextTag(r)
  BY DEF Sign, At, Busy
<1>2. tags'[Target(r)] # NoImage
  BY <1>1 DEF RunKept, TagsThere
<1> QED BY <1>1, <1>2, TagEnds

(* the verification of a package,                                          *)
LEMMA OwnVerifyPackage ==
  ASSUME IInv, Grows, NEW r \in Run, RunKept(r), VerifyPackage(r)
  PROVE  Own(r)
<1> USE DEF IInv
<1>1. /\ st[r].jobs # <<>> /\ st[r].pin \in AnyImage
      /\ Doing(r, "verify") \/ Doing(r, "toolchain verify")
  BY DEF VerifyPackage, At, Doing, Typed, Place
<1>2. CASE Fail(r) \/ Goto(r, "images")
  BY <1>1, <1>2, Rests DEF Fail
<1>3. CASE EndJob(r) /\ Doing(r, "toolchain verify")
  <2>1. /\ ~Doing(r, "metadata") /\ ~Doing(r, "promote") /\ ~Doing(r, "verify")
        /\ ~Doing(r, "publish") /\ ~Doing(r, "toolchain publish")
    BY <1>3 DEF Doing
  <2> QED BY <1>1, <1>3, <2>1, JobEnds DEF EndJob, EndJobWith
<1> QED BY <1>1, <1>2, <1>3 DEF VerifyPackage, Doing

(* and of the images, which may go on to the stable alias;                 *)
LEMMA OwnVerifyImages ==
  ASSUME IInv, Grows, NEW r \in Run, RunKept(r), VerifyImages(r)
  PROVE  Own(r)
<1> USE DEF IInv
<1>1. /\ st[r].jobs # <<>> /\ st[r].pin \in AnyImage /\ Doing(r, "verify")
      /\ tags' = tags /\ signed' = signed
  BY DEF VerifyImages, At, Doing, Typed, Place, registries
<1>2. /\ ~Doing(r, "metadata") /\ ~Doing(r, "promote")
      /\ ~Doing(r, "publish") /\ ~Doing(r, "toolchain publish")
      /\ ~Doing(r, "finalize")
  BY <1>1 DEF Doing
<1>3. CASE Fail(r)
  BY <1>1, <1>3, Rests DEF Fail
<1> DEFINE exact == /\ tags'[VersionTag(r)] \in signed'
<1>4. CASE EndJob(r) /\ exact
  BY <1>1, <1>2, <1>4, JobEnds DEF EndJob, EndJobWith
<1>5. CASE /\ st' = [st EXCEPT ![r].todo = <<<<"alias", "stable">>>>,
                               ![r].at = "inspect"]
           /\ exact
  <2> DEFINE alias == <<<<"alias", "stable">>>>
  <2>1. alias \in Seq(Tag) /\ alias # <<>>
    <3>1. <<"alias", "stable">> \in Tag
      BY DEF Tag
    <3> QED BY <3>1
  <2> HIDE DEF alias
  <2>2. /\ st' \in [Run -> Place] /\ \A q \in Run \ {r} : st'[q] = st[q]
        /\ st'[r].at = "inspect" /\ st'[r].jobs = st[r].jobs
        /\ st'[r].todo = alias /\ st'[r].pin = st[r].pin
    <3> DEFINE x == [st[r] EXCEPT !.todo = alias, !.at = "inspect"]
    <3>1. st' = [st EXCEPT ![r] = x]
      BY <1>5 DEF Typed, alias
    <3>2. /\ x \in Place /\ x.at = "inspect" /\ x.jobs = st[r].jobs
          /\ x.todo = alias /\ x.pin = st[r].pin
      BY <2>1 DEF Typed, Place, Stage
    <3> HIDE DEF x
    <3>3. st' \in [Run -> Place] /\ st'[r] = x
          /\ \A q \in Run \ {r} : st'[q] = st[q]
      BY <3>1, <3>2 DEF Typed
    <3> QED BY <3>2, <3>3
  <2> QED BY <1>1, <1>5, <2>1, <2>2, Moves DEF alias
<1> QED BY <1>1, <1>3, <1>4, <1>5 DEF VerifyImages, Proceed

(* the pin of the image that was verified;                                 *)
LEMMA OwnPin ==
  ASSUME IInv, Grows, NEW r \in Run, RunKept(r), Pin(r)
  PROVE  Own(r)
<1> USE DEF IInv
<1>1. /\ st[r].jobs # <<>> /\ Doing(r, "metadata")
      /\ tags' = tags
  BY DEF Pin, At, Doing, registries
<1>2. CASE Fail(r)
  BY <1>1, <1>2, Rests DEF Fail
<1>3. CASE EndJobWith(r, tags[VersionTag(r)])
  <2>1. tags[VersionTag(r)] \in AnyImage
    BY VersionTagIsTag DEF Typed
  <2>2. tags[VersionTag(r)] = tags'[VersionTag(r)]
    BY <1>1
  <2>3. /\ ~Doing(r, "verify") /\ ~Doing(r, "promote")
        /\ ~Doing(r, "publish") /\ ~Doing(r, "toolchain publish")
    BY <1>1 DEF Doing
  <2>4. st[r].jobs # Tail(st[r].jobs)
    BY <1>1, NotItsTail DEF Typed, Place
  <2> QED BY <1>1, <1>3, <2>1, <2>2, <2>3, <2>4, JobEnds DEF EndJobWith
<1> QED BY <1>2, <1>3 DEF Pin

(* the git tag, which is of the commit of the run,                         *)
LEMMA OwnCreateGitTag ==
  ASSUME IInv, Grows, NEW r \in Run, RunKept(r), CreateGitTag(r)
  PROVE  Own(r)
<1> USE DEF IInv
<1>1. st[r].jobs # <<>> /\ Doing(r, "finalize")
  BY DEF CreateGitTag, At, Doing
<1>2. CASE Fail(r)
  BY <1>1, <1>2, Rests DEF Fail
<1>3. CASE Goto(r, "release") /\ gitTag'[plan[r].version] = plan[r].sha
  <2>1. /\ st' \in [Run -> Place] /\ \A q \in Run \ {r} : st'[q] = st[q]
        /\ st'[r].at = "release" /\ st'[r].jobs = st[r].jobs
        /\ st'[r].pin = st[r].pin
    BY <1>3, SetStage DEF Stage
  <2> QED BY <1>1, <1>3, <2>1, Moves
<1> QED BY <1>2, <1>3 DEF CreateGitTag

(* and the release;                                                        *)
LEMMA OwnCreateRelease ==
  ASSUME IInv, Grows, NEW r \in Run, RunKept(r), CreateRelease(r)
  PROVE  Own(r)
<1> USE DEF IInv
<1>1. st[r].jobs # <<>> /\ Doing(r, "finalize") /\ st[r].pin \in AnyImage
  BY DEF CreateRelease, At, Doing, Typed, Place
<1>2. CASE Fail(r)
  BY <1>1, <1>2, Rests DEF Fail
<1>3. CASE EndJob(r)
  <2>1. /\ ~Doing(r, "verify") /\ ~Doing(r, "promote") /\ ~Doing(r, "metadata")
        /\ ~Doing(r, "publish") /\ ~Doing(r, "toolchain publish")
    BY <1>1 DEF Doing
  <2> QED BY <1>1, <1>3, <2>1, JobEnds DEF EndJob, EndJobWith
<1> QED BY <1>2, <1>3 DEF CreateRelease, Proceed

(* the death of a job,                                                     *)
LEMMA OwnDie ==
  ASSUME IInv, Grows, NEW r \in Run, RunKept(r), Die(r)
  PROVE  Own(r)
  BY Rests DEF IInv, Die, Fail

(* and its rerun.                                                          *)
LEMMA OwnRerun ==
  ASSUME IInv, Grows, NEW r \in Run, RunKept(r), Rerun(r)
  PROVE  Own(r)
<1> USE DEF IInv
<1>1. /\ st[r].jobs # <<>> /\ st[r].jobs # Tail(st[r].jobs)
      /\ st[r].pin \in AnyImage
      /\ st' = [st EXCEPT ![r] = Begin(r, st[r].jobs, st[r].pin)]
  BY NotItsTail DEF Rerun, RunKept, Placed, Typed, Place
<1> QED BY <1>1, JobEnds

(* Every step of a run keeps the registries and leaves the run in order.   *)
LEMMA ActOwn ==
  ASSUME IInv, NEW r \in Run, Act(r)
  PROVE  Grows /\ Own(r)
<1>1. Grows /\ RunKept(r)
  BY StepGrows DEF IInv, RunInv, RunKept
<1>2. CASE Step(r)
  BY <1>1, <1>2, OwnLookUp, OwnPublish, OwnInspect, OwnCreate, OwnConfirm,
     OwnCheckSignature, OwnSign, OwnVerifyPackage, OwnVerifyImages, OwnPin,
     OwnCreateGitTag, OwnCreateRelease, Zenon DEF Step
<1>3. CASE Die(r) \/ Rerun(r)
  BY <1>1, <1>3, OwnDie, OwnRerun
<1> QED BY <1>1, <1>2, <1>3 DEF Act

-----------------------------------------------------------------------------
(* The registries keep their types.                                        *)
LEMMA TypedKept ==
  ASSUME IInv, NEW r \in Run, Act(r), Own(r)
  PROVE  Typed'
<1> USE DEF IInv
<1>1. /\ plan' \in Plans /\ st' \in [Run -> Place] /\ RunKept(r)
      /\ plan[r].version \in Version /\ plan[r].sha \in Sha
  BY Changes, PlanOf DEF Own, Typed, RunInv, RunKept
<1>2. npm' \in [Package -> [Version -> Contents \cup {NoPackage}]]
  BY Changes, PublishNew DEF Typed
<1>3. current' \in [Package -> [Channel -> Version \cup {NoVersion}]]
  <2>1. CASE Publish(r)
    <3>1. PackageOf(r) \in Package /\ ChannelOf(r) \in Channel
      BY DEF PackageOf, Package, ChannelOf, Channel
    <3> QED BY <1>1, <2>1, <3>1 DEF Publish, Typed
  <2> QED BY <2>1, Changes DEF Typed
<1>4. tags' \in [Tag -> AnyImage]
  <2>1. CASE Create(r)
    <3>1. Source(r) \in AnyImage
      BY <1>1, <2>1, Targets DEF Create, At, Busy, AnyImage
    <3> QED BY <2>1, <3>1 DEF Create, Typed
  <2> QED BY <2>1, Changes DEF Typed
<1>5. signed' \in SUBSET Image
  <2>1. CASE Sign(r)
    <3>1. Busy(r) /\ st[r].at = "sign"
      BY <2>1 DEF Sign, At, Busy
    <3>2. tags[Target(r)] \in Image
      BY <1>1, <3>1, Targets DEF RunKept, TagsThere, Typed, AnyImage
    <3> QED BY <2>1, <3>2 DEF Sign, Typed
  <2> QED BY <2>1, Changes DEF Typed
<1>6. contended' \in SUBSET Tag
  <2>1. CASE Inspect(r)
    <3>1. Target(r) \in Tag
      BY <1>1, <2>1, Targets DEF Inspect, At, Busy
    <3> QED BY <2>1, <3>1 DEF Inspect, Typed
  <2> QED BY <2>1, Changes DEF Typed
<1>7. gitTag' \in [Version -> Sha \cup {NoSha}]
  BY <1>1, Changes DEF CreateGitTag, Typed
<1>8. release' \in [Version -> Sha \cup {NoSha}]
  BY <1>1, Changes DEF CreateRelease, Typed
<1>9. faults' \in 0 .. MaxFaults
  <2>1. faults' = faults \/ (faults < MaxFaults /\ faults' = faults + 1)
    BY DEF Act, Step, LookUp, Publish, Inspect, Create, Confirm, CheckSignature,
           Sign, VerifyPackage, VerifyImages, Pin, CreateGitTag, CreateRelease,
           Die, Rerun
  <2>2. faults \in 0 .. MaxFaults /\ MaxFaults \in Nat
    BY BoundAssumption DEF Typed
  <2> QED BY <2>1, <2>2
<1> QED BY <1>1, <1>2, <1>3, <1>4, <1>5, <1>6, <1>7, <1>8, <1>9 DEF Typed

(* Every step leaves all runs in order.                                    *)
LEMMA RunsKept ==
  ASSUME IInv, NEW r \in Run, Act(r), Grows, Own(r)
  PROVE  RunInv'
<1>1. ASSUME NEW q \in Run PROVE RunKept(q)'
  BY <1>1, OthersKept DEF IInv, RunInv, RunKept, Own
<1> QED BY <1>1 DEF RunInv, RunKept

(* Where a run goes on to publish, or to write a tag.                      *)
LEMMA Enters ==
  ASSUME Typed, NEW r \in Run, Act(r)
  PROVE  /\ st'[r].at = "publishing" => LookUp(r)
         /\ st'[r].at = "create" => Inspect(r)
<1>1. \A jobs, pin : Begin(r, jobs, pin).at \notin {"publishing", "create"}
  BY DEF Begin
<1>2. \A jobs, pin : st' = [st EXCEPT ![r] = Begin(r, jobs, pin)] =>
        st'[r].at \notin {"publishing", "create"}
  BY <1>1 DEF Typed
<1>3. EndJob(r) \/ Rerun(r) => st'[r].at \notin {"publishing", "create"}
  BY <1>2 DEF EndJob, EndJobWith, Rerun
<1>4. \A pin : EndJobWith(r, pin) => st'[r].at \notin {"publishing", "create"}
  BY <1>2 DEF EndJobWith
<1>5. \A stage : Goto(r, stage) => st'[r].at = stage
  BY DEF Goto, Typed, Place
<1>6. NextTag(r) => st'[r].at \notin {"publishing", "create"}
  BY <1>3 DEF NextTag, Typed, Place
<1>7. \A stage : Looked(r, stage) => st'[r].at = stage
  BY DEF Looked, Typed, Place
<1>8. Publish(r) => st'[r].at \notin {"publishing", "create"}
  BY <1>3, <1>5 DEF Publish, Fail
<1>9. LookUp(r) => st'[r].at # "create"
  BY <1>3, <1>5 DEF LookUp, Proceed, Fail
<1>10. Inspect(r) => st'[r].at # "publishing"
  BY <1>5, <1>7 DEF Inspect, Fail
<1>11. Create(r) \/ Confirm(r) => st'[r].at \notin {"publishing", "create"}
  BY <1>5 DEF Create, Confirm, Fail
<1>12. CheckSignature(r) \/ Sign(r) => st'[r].at \notin {"publishing", "create"}
  BY <1>5, <1>6 DEF CheckSignature, Sign
<1>13. VerifyPackage(r) \/ Pin(r) => st'[r].at \notin {"publishing", "create"}
  BY <1>3, <1>4, <1>5 DEF VerifyPackage, Pin, Fail
<1>14. VerifyImages(r) => st'[r].at \notin {"publishing", "create"}
  BY <1>3, <1>5 DEF VerifyImages, Proceed, Fail, Typed, Place
<1>15. CreateGitTag(r) \/ CreateRelease(r) \/ Die(r) =>
         st'[r].at \notin {"publishing", "create"}
  BY <1>3, <1>5 DEF CreateGitTag, CreateRelease, Die, Proceed, Fail
<1> QED BY <1>3, <1>8, <1>9, <1>10, <1>11, <1>12, <1>13, <1>14, <1>15
        DEF Act, Step

(* One run of a channel publishes at a time.                               *)
LEMMA QueueKept ==
  ASSUME IInv, NEW r \in Run, Act(r), Grows, Own(r)
  PROVE  QueueInv'
<1> USE DEF IInv
<1>1. plan' = plan /\ \A q \in Run \ {r} : st'[q] = st[q]
  BY DEF Grows, Own
<1>2. \A q \in Run \ {r} : /\ (Uploads(q)' <=> Uploads(q))
                           /\ PackageOf(q)' = PackageOf(q)
                           /\ ChannelOf(q)' = ChannelOf(q)
  BY <1>1, Stays
<1>3. ChannelOf(r)' = ChannelOf(r)
  BY <1>1 DEF ChannelOf
<1>4. CASE LookUp(r)
  <2>1. npm' = npm /\ QueueIsFree(r)
    BY <1>4 DEF LookUp, registries
  <2>2. Uploads(r)' => Published(r)' = NoPackage
    <3>1. SUFFICES ASSUME st'[r].at = "publishing" PROVE Published(r)' = NoPackage
      BY DEF Uploads, At
    <3>2. ~EndJob(r) /\ ~Fail(r)
      BY <3>1 DEF EndJob, EndJobWith, Begin, Fail, Goto, Typed, Place
    <3>3. Goto(r, "publishing") /\ Published(r) = NoPackage
      BY <1>4, <3>2 DEF LookUp, Proceed
    <3>4. st'[r].jobs = st[r].jobs
      BY <3>3, SetStage DEF Stage
    <3> QED BY <1>1, <2>1, <3>3, <3>4 DEF Published, PackageOf
  <2>3. \A q \in Run \ {r} : Uploads(q) => /\ Published(q)' = NoPackage
                                           /\ ChannelOf(q) # ChannelOf(r)
    BY <1>1, <1>2, <2>1 DEF QueueInv, Published, QueueIsFree, Uploads
  <2>4. \A q \in Run \ {r} : \A p \in Run \ {q, r} :
          Uploads(q) /\ Uploads(p) => ChannelOf(p) # ChannelOf(q)
    BY DEF QueueInv
  <2> QED BY <1>1, <1>2, <1>3, <2>2, <2>3, <2>4 DEF QueueInv
<1>5. CASE ~LookUp(r)
  <2>1. ~Uploads(r)'
    BY <1>5, Enters DEF Uploads, At
  <2>2. ASSUME NEW q \in Run \ {r}, Uploads(q)
        PROVE  Published(q)' = NoPackage
    <3>1. Published(q) = NoPackage
      BY <2>2 DEF QueueInv
    <3>2. CASE npm' = npm
      BY <1>1, <1>2, <3>1, <3>2 DEF Published
    <3>3. CASE Publish(r)
      <4>1. ChannelOf(q) # ChannelOf(r)
        BY <2>2, <3>3, PublishNew DEF QueueInv
      <4>2. Publishes(q) /\ Publishes(r)
        <5>1. /\ Doing(q, "publish") \/ Doing(q, "toolchain publish")
              /\ Doing(r, "publish") \/ Doing(r, "toolchain publish")
          BY <2>2, <3>3 DEF Publish, Uploads, At, PublishJobs, Doing
        <5> QED BY <5>1, WhichJob DEF RunInv, Doing
      <4>3. plan[q].version # plan[r].version
        BY <4>1, <4>2, PlansAssumption DEF Typed, Publishes, ChannelOf
      <4>4. PackageOf(q) \in Package /\ plan[q].version \in Version
        BY PlanOf DEF PackageOf, Package, Typed
      <4> QED BY <1>1, <1>2, <3>1, <3>3, <4>3, <4>4, PublishNew DEF Published
    <3> QED BY <3>2, <3>3, Changes
  <2>3. \A q \in Run \ {r} : \A p \in Run \ {q, r} :
          Uploads(q) /\ Uploads(p) => ChannelOf(p) # ChannelOf(q)
    BY DEF QueueInv
  <2> QED BY <1>1, <1>2, <2>1, <2>2, <2>3 DEF QueueInv
<1> QED BY <1>4, <1>5

(* The writers of an immutable tag promote the images of their runs.       *)
LEMMA WriterPromotes ==
  ASSUME IInv, NEW q \in Run, NEW t, Writes(q, t)
  PROVE  /\ Busy(q) /\ At(q, Promoting, "create") /\ Target(q) = t
         /\ t \in Tag /\ st[q].seen \in Image
         /\ ~IsMutable(t) => Source(q) = plan[q].image
<1>1. /\ Busy(q) /\ st[q].at = "create" /\ Target(q) = t /\ RunKept(q)
  BY DEF Writes, Busy, IInv, RunInv, RunKept
<1>2. st[q].seen \in Image
  BY <1>1 DEF RunKept, Placed
<1> QED BY <1>1, <1>2, Targets DEF IInv, At

(* Two runs that are to write an immutable tag agree, or contend for it.   *)
LEMMA WritersKept ==
  ASSUME IInv, NEW r \in Run, Act(r), Grows, Own(r)
  PROVE  WritersAgree'
<1> USE DEF IInv
<1>1. plan' = plan /\ contended \subseteq contended'
      /\ \A q \in Run \ {r} : st'[q] = st[q]
  BY DEF Grows, Own
<1>2. \A q \in Run \ {r} : \A t : Writes(q, t)' <=> Writes(q, t)
  BY <1>1, Stays
<1>3. SUFFICES ASSUME NEW t \in Tag, t \notin contended', ~IsMutable(t),
                      NEW q \in Run, Writes(q, t)'
               PROVE  /\ st'[q].seen = plan[q].image
                      /\ tags'[t] \in {NoImage, plan[q].image}
                      /\ \A p \in Run : Writes(p, t)' =>
                           plan[p].image = plan[q].image
  BY <1>1 DEF WritersAgree, IsMutable
<1>4. t \notin contended
  BY <1>1, <1>3
<1>5. ASSUME NEW p \in Run, Writes(p, t)
      PROVE  /\ st[p].seen = plan[p].image
             /\ tags[t] \in {NoImage, plan[p].image}
             /\ \A o \in Run : Writes(o, t) => plan[o].image = plan[p].image
  BY <1>3, <1>4, <1>5 DEF WritersAgree
<1>6. CASE ~Writes(r, t)'
  <2>1. q # r /\ Writes(q, t) /\ st'[q] = st[q]
    BY <1>1, <1>2, <1>3, <1>6
  <2>2. tags'[t] \in {NoImage, plan[q].image}
    <3>1. CASE Create(r)
      <4>1. Writes(r, Target(r)) /\ tags' = [tags EXCEPT ![Target(r)] = Source(r)]
        BY <3>1 DEF Create, At, Writes
      <4>2. CASE Target(r) = t
        BY <1>3, <1>5, <2>1, <4>1, <4>2, WriterPromotes DEF Typed
      <4>3. CASE Target(r) # t
        BY <1>5, <2>1, <4>1, <4>3 DEF Typed
      <4> QED BY <4>2, <4>3
    <3>2. CASE tags' = tags
      BY <1>5, <2>1, <3>2
    <3> QED BY <3>1, <3>2, Changes
  <2>3. \A p \in Run : Writes(p, t)' => p # r /\ Writes(p, t)
    BY <1>2, <1>6
  <2> QED BY <1>5, <2>1, <2>2, <2>3
<1>7. CASE Writes(r, t)'
  <2>1. Inspect(r)
    BY <1>7, Enters DEF Writes
  <2>2. /\ tags' = tags /\ ~Fail(r) /\ RunKept(r) /\ Busy(r)
    BY <1>7, <2>1 DEF Inspect, registries, Writes, Fail, Goto, Typed, Place,
                      RunInv, RunKept, At, Busy
  <2>3. Looked(r, "create") /\ (tags[Target(r)] = NoImage \/ IsMutable(Target(r)))
    <3>1. ~Looked(r, "confirm")
      BY <1>7 DEF Looked, Writes, Typed, Place
    <3> QED BY <2>1, <2>2, <3>1 DEF Inspect
  <2>4. Source(r) \in Image
    BY <2>2, Targets
  <2>5. /\ st'[r].todo = st[r].todo /\ st'[r].seen = Source(r)
    BY <2>3, <2>4, SetSeen DEF Stage
  <2>6. Target(r) = t /\ tags[t] = NoImage /\ Source(r) = plan[r].image
    <3>1. Target(r) = t
      BY <1>7, <2>5 DEF Writes, Target
    <3>2. Doing(r, "promote")
      BY <1>3, <2>2, <3>1, Targets
    <3> QED BY <1>3, <2>2, <2>3, <3>1, <3>2, Targets
  <2>7. Contenders(r) = {}
    BY <1>3, <2>1, <2>2, <2>3, <2>6 DEF Inspect
  <2>8. ASSUME NEW p \in Run, Writes(p, t)', p # r
        PROVE  st'[p].seen = plan[p].image /\ plan[p].image = plan[r].image
    <3>1. Writes(p, t) /\ st'[p] = st[p]
      BY <1>1, <1>2, <2>8
    <3>2. st[p].seen = plan[p].image
      BY <1>5, <3>1
    <3>3. At(p, Promoting, "create") /\ Target(p) = Target(r)
      BY <2>6, <3>1, WriterPromotes
    <3>4. st[p].seen = Source(r)
      BY <2>7, <2>8, <3>3 DEF Contenders
    <3> QED BY <2>6, <3>1, <3>2, <3>4
  <2>9. \A p \in Run : Writes(p, t)' =>
          st'[p].seen = plan[p].image /\ plan[p].image = plan[r].image
    BY <2>5, <2>6, <2>8
  <2> QED BY <1>3, <2>2, <2>6, <2>9
<1> QED BY <1>6, <1>7

(* What the stable alias is put on.                                        *)
LEMMA StableKept ==
  ASSUME IInv, NEW r \in Run, Act(r), Grows, Own(r)
  PROVE  StableInv'
<1> USE DEF IInv
<1> DEFINE stable == <<"alias", "stable">>
           Has(q) == /\ npm["libcascade"][plan[q].version] # NoPackage
                     /\ npm["libcascade"][plan[q].version].sha = plan[q].sha
<1>1. plan' = plan /\ stable \in Tag
  BY DEF Grows, Tag
<1>2. ASSUME NEW q \in Run, Has(q) PROVE Has(q)'
  <2>1. plan[q].version \in Version
    BY PlanOf DEF Typed
  <2> QED BY <1>1, <1>2, <2>1 DEF Grows, Package
<1>3. CASE tags'[stable] = tags[stable]
  <2>1. ASSUME tags[stable] # NoImage
        PROVE  \E q \in Run : SameNative(plan[q].image, tags[stable]) /\ Has(q)'
    <3>1. PICK q \in Run : SameNative(plan[q].image, tags[stable]) /\ Has(q)
      BY <2>1 DEF StableInv
    <3>2. Has(q)'
      BY <1>2, <3>1
    <3> QED BY <3>1, <3>2
  <2> QED BY <1>1, <1>3, <2>1 DEF StableInv
<1>4. CASE tags'[stable] # tags[stable]
  <2>1. Create(r)
    BY <1>4, Changes
  <2>2. /\ Busy(r) /\ RunKept(r) /\ st[r].at = "create"
        /\ tags' = [tags EXCEPT ![Target(r)] = Source(r)]
    BY <2>1 DEF Create, At, Busy, RunInv, RunKept
  <2>3. Target(r) = stable
    BY <1>1, <1>4, <2>2 DEF Typed
  <2>4. Source(r) = tags[VersionTag(r)] /\ Source(r) \in Image
    BY <2>2, <2>3, Targets
  <2>5. tags'[stable] = tags[VersionTag(r)]
    BY <1>1, <2>2, <2>3, <2>4 DEF Typed
  <2>6. tags[<<"version", plan[r].version>>] # NoImage /\ plan[r].version \in Version
    BY <2>4, PlanOf, NamesAssumption DEF VersionTag, Typed
  <2>7. /\ npm["libcascade"][plan[r].version] # NoPackage
        /\ Labelled(tags[<<"version", plan[r].version>>], plan[r].version,
                    npm["libcascade"][plan[r].version].sha)
    BY <2>6 DEF OneCommitPerVersion
  <2>8. PICK q \in Run : /\ SameNative(plan[q].image, tags[VersionTag(r)])
                         /\ plan[q].version = plan[r].version
                         /\ plan[q].sha = npm["libcascade"][plan[r].version].sha
    BY <2>7 DEF Labelled, VersionTag
  <2>9. Has(q)'
    BY <1>2, <2>7, <2>8
  <2> QED BY <1>1, <2>5, <2>8, <2>9 DEF StableInv
<1> QED BY <1>3, <1>4

(* What each part of OneCommitPerVersion says, and of the commit.          *)
OfLib(v, c) == npm["libcascade"][v] # NoPackage /\ c = npm["libcascade"][v].sha
StillOf(v, c) ==
  npm'["libcascade"][v] # NoPackage /\ c = npm'["libcascade"][v].sha

(* What npm has of a version stays.                                        *)
LEMMA LibStays ==
  ASSUME Grows, NEW v \in Version, NEW c, OfLib(v, c)
  PROVE  StillOf(v, c)
  BY DEF Grows, OfLib, StillOf, Package

(* A run that is past its first job has libcascade in npm.                 *)
LEMMA LibIsThere ==
  ASSUME IInv, NEW r \in Run, st[r].jobs # <<>>, Publishes(r),
         ~Doing(r, "publish")
  PROVE  OfLib(plan[r].version, plan[r].sha)
<1>1. Placed(r) /\ LeftInNpm(r) /\ Typed
  BY DEF IInv, RunInv
<1>2. Done(r) # 0 /\ Done(r) \in Nat
  BY <1>1, WhichJob
<1>3. Done(r) >= 1
  BY <1>2
<1> QED BY <1>1, <1>3 DEF LeftInNpm, OfLib

(* Every step keeps a version to its commit.                               *)
LEMMA CommitsKept ==
  ASSUME IInv, NEW r \in Run, Act(r), Grows, Own(r), StableInv'
  PROVE  OneCommitPerVersion'
<1> USE DEF IInv
<1>1. plan' = plan /\ Typed' /\ RunKept(r) /\ plan[r].version \in Version
  BY TypedKept, PlanOf DEF Grows, RunInv, RunKept, Typed
<1>2. SUFFICES ASSUME NEW v \in Version
               PROVE  /\ npm'["toolchain"][v] # NoPackage =>
                           StillOf(v, npm'["toolchain"][v].sha)
                      /\ tags'[<<"version", v>>] # NoImage =>
                           \E c : /\ StillOf(v, c)
                                  /\ Labelled(tags[<<"version", v>>], v, c)'
                      /\ gitTag'[v] # NoSha => StillOf(v, gitTag'[v])
                      /\ release'[v] # NoSha => StillOf(v, release'[v])
                      /\ \A q \in Run : ReleaseRun(q)' /\ plan'[q].version = v
                           /\ SameNative(plan'[q].image, tags'[<<"alias", "stable">>])
                             => StillOf(v, plan'[q].sha)
  BY DEF OneCommitPerVersion, StillOf
<1>3. /\ npm["toolchain"][v] # NoPackage => OfLib(v, npm["toolchain"][v].sha)
      /\ tags[<<"version", v>>] # NoImage =>
           \E c : OfLib(v, c) /\ Labelled(tags[<<"version", v>>], v, c)
      /\ gitTag[v] # NoSha => OfLib(v, gitTag[v])
      /\ release[v] # NoSha => OfLib(v, release[v])
  BY DEF OneCommitPerVersion, OfLib
<1>4. npm'["toolchain"][v] # NoPackage => StillOf(v, npm'["toolchain"][v].sha)
  <2>1. CASE npm'["toolchain"][v] = npm["toolchain"][v]
    BY <1>3, <2>1, LibStays
  <2>2. CASE npm'["toolchain"][v] # npm["toolchain"][v]
    <3>1. Publish(r)
      BY <2>2, Changes
    <3>2. /\ PackageOf(r) = "toolchain" /\ v = plan[r].version
          /\ npm'["toolchain"][v].sha = plan[r].sha /\ st[r].jobs # <<>>
      BY <2>2, <3>1, PublishNew DEF Package
    <3>3. Doing(r, "toolchain publish") /\ ~Doing(r, "publish")
      BY <3>1, <3>2 DEF Publish, At, PublishJobs, PackageOf, Doing
    <3>4. Publishes(r)
      BY <1>1, <3>2, <3>3, WhichJob DEF RunKept
    <3>5. OfLib(v, plan[r].sha)
      BY <3>2, <3>3, <3>4, LibIsThere
    <3> QED BY <3>2, <3>5, LibStays
  <2> QED BY <2>1, <2>2
<1>5. tags'[<<"version", v>>] # NoImage =>
        \E c : StillOf(v, c) /\ Labelled(tags[<<"version", v>>], v, c)'
  <2> DEFINE t == <<"version", v>>
  <2>1. t \in Tag /\ t[1] = "version" /\ t[2] = v /\ ~IsMutable(t)
    BY DEF Tag, IsMutable
  <2>2. CASE tags'[t] = tags[t]
    BY <1>1, <1>3, <2>2, LibStays DEF Labelled, SameNative
  <2>3. CASE tags'[t] # tags[t]
    <3>1. Create(r)
      BY <2>3, Changes
    <3>2. /\ Busy(r) /\ st[r].at = "create"
          /\ tags' = [tags EXCEPT ![Target(r)] = Source(r)]
      BY <3>1 DEF Create, At, Busy
    <3>3. Target(r) = t
      BY <2>1, <2>3, <3>2 DEF Typed
    <3>4. /\ Doing(r, "promote") /\ Publishes(r) /\ t = VersionTag(r)
          /\ Source(r) = plan[r].image /\ st[r].jobs # <<>>
      BY <1>1, <2>1, <3>2, <3>3, Targets
    <3>5. v = plan[r].version /\ tags'[t] = plan[r].image
      BY <2>1, <3>2, <3>3, <3>4 DEF VersionTag, Typed
    <3>6. OfLib(v, plan[r].sha)
      BY <3>4, <3>5, LibIsThere DEF Doing
    <3>7. StillOf(v, plan[r].sha)
      BY <3>6, LibStays
    <3>8. \E c : c = plan[r].sha /\ Labelled(tags[t], v, c)'
      BY <1>1, <3>5, PlanOf DEF Labelled, SameNative, Typed
    <3> QED BY <3>7, <3>8
  <2> QED BY <2>2, <2>3
<1>6. gitTag'[v] # NoSha => StillOf(v, gitTag'[v])
  <2>1. CASE gitTag'[v] = gitTag[v]
    BY <1>3, <2>1, LibStays
  <2>2. CASE gitTag'[v] # gitTag[v]
    <3>1. CreateGitTag(r)
      BY <2>2, Changes
    <3>2. v = plan[r].version /\ gitTag'[v] = plan[r].sha
      BY <1>1, <2>2, <3>1 DEF CreateGitTag, Typed
    <3>3. st[r].jobs # <<>> /\ Doing(r, "finalize") /\ ~Doing(r, "publish")
      BY <3>1 DEF CreateGitTag, At, Doing
    <3>4. OfLib(v, plan[r].sha)
      BY <1>1, <3>2, <3>3, WhichJob, LibIsThere DEF RunKept
    <3> QED BY <3>2, <3>4, LibStays
  <2> QED BY <2>1, <2>2
<1>7. release'[v] # NoSha => StillOf(v, release'[v])
  <2>1. CASE release'[v] = release[v]
    BY <1>3, <2>1, LibStays
  <2>2. CASE release'[v] # release[v]
    <3>1. CreateRelease(r)
      BY <2>2, Changes
    <3>2. v = plan[r].version /\ release'[v] = gitTag[v]
      BY <1>1, <2>2, <3>1 DEF CreateRelease, Typed
    <3>3. Publishes(r)
      BY <1>1, <3>1, WhichJob DEF RunKept, CreateRelease, At, Doing
    <3>4. gitTag[v] = plan[r].sha /\ gitTag[v] # NoSha
      BY <1>1, <3>1, <3>2, <3>3, PlanOf, NamesAssumption
         DEF RunKept, LeftInNpm, CreateRelease, Typed
    <3> QED BY <1>3, <3>2, <3>4, LibStays
  <2> QED BY <2>1, <2>2
<1>8. ASSUME NEW q \in Run, plan[q].version = v,
             SameNative(plan[q].image, tags'[<<"alias", "stable">>])
      PROVE  StillOf(v, plan[q].sha)
  <2>1. tags'[<<"alias", "stable">>] # NoImage
    BY <1>8, NamesAssumption DEF SameNative
  <2>2. PICK p \in Run :
          /\ SameNative(plan'[p].image, tags'[<<"alias", "stable">>])
          /\ npm'["libcascade"][plan'[p].version] # NoPackage
          /\ npm'["libcascade"][plan'[p].version].sha = plan'[p].sha
    BY <2>1 DEF StableInv
  <2>3. plan[p].sha = plan[q].sha /\ plan[p].version = plan[q].version
    BY <1>1, <1>8, <2>2, PlansAssumption DEF Typed, SameNative
  <2> QED BY <1>1, <1>8, <2>2, <2>3 DEF StillOf
<1> QED BY <1>1, <1>4, <1>5, <1>6, <1>7, <1>8

(* Every step leaves the releases complete.                                *)
LEMMA ReleasesKept ==
  ASSUME IInv, NEW r \in Run, Act(r), Grows
  PROVE  ReleasesAreComplete'
<1> USE DEF IInv
<1>1. SUFFICES ASSUME NEW v \in Version, release'[v] # NoSha
               PROVE  /\ \A p \in Package : npm'[p][v] # NoPackage
                      /\ gitTag'[v] = release'[v]
                      /\ tags'[<<"version", v>>] # NoImage
                      /\ tags'[<<"sha", release'[v]>>] # NoImage
                      /\ <<"version", v>> \notin contended' =>
                           tags'[<<"version", v>>] \in signed'
  BY DEF ReleasesAreComplete
<1>2. <<"version", v>> \in Tag /\ ~IsMutable(<<"version", v>>)
  BY DEF Tag, IsMutable
<1>3. \A c \in Sha : <<"sha", c>> \in Tag
  BY DEF Tag
<1> DEFINE There(c) == /\ release'[v] = c /\ gitTag[v] = c
                       /\ \A p \in Package : npm[p][v] # NoPackage
                       /\ tags[<<"version", v>>] # NoImage
                       /\ tags[<<"sha", c>>] # NoImage
                       /\ <<"version", v>> \notin contended =>
                            tags[<<"version", v>>] \in signed
<1>4. \E c \in Sha : There(c)
  <2>1. CASE release'[v] = release[v]
    <3>1. release[v] \in Sha
      BY <1>1, <2>1 DEF Typed
    <3>2. There(release[v])
      BY <1>1, <2>1 DEF ReleasesAreComplete
    <3> QED BY <3>1, <3>2
  <2>2. CASE release'[v] # release[v]
    <3>1. CreateRelease(r) /\ RunKept(r) /\ Placed(r)
      BY <2>2, Changes DEF RunInv, RunKept
    <3>2. /\ st[r].jobs # <<>> /\ Doing(r, "finalize") /\ ~Doing(r, "publish")
          /\ At(r, {"finalize"}, "release")
      BY <3>1 DEF CreateRelease, At, Doing
    <3>3. /\ v = plan[r].version /\ release'[v] = gitTag[v]
          /\ plan[r].sha \in Sha
      BY <1>1, <2>2, <3>1, PlanOf DEF CreateRelease, Typed
    <3>4. Publishes(r) /\ Done(r) = 6 /\ plan[r].kind \in Releases
      BY <3>1, <3>2, WhichJob
    <3>5. Done(r) >= 1 /\ Done(r) >= 2 /\ Done(r) >= 3 /\ Done(r) >= 5
      BY <3>4
    <3>6. /\ gitTag[v] = plan[r].sha
          /\ npm["libcascade"][v] # NoPackage /\ npm["toolchain"][v] # NoPackage
      BY <3>1, <3>2, <3>3, <3>4, <3>5 DEF RunKept, LeftInNpm
    <3>7. /\ tags[VersionTag(r)] # NoImage
          /\ tags[<<"sha", plan[r].sha>>] # NoImage
      <4>1. \A i \in 1 .. Len(Promoted(r)) : tags[Promoted(r)[i]] # NoImage
        BY <3>1, <3>4, <3>5 DEF RunKept, TagsThere
      <4>2. /\ Len(Promoted(r)) = 2 /\ Promoted(r)[1] = VersionTag(r)
            /\ Promoted(r)[2] = <<"sha", plan[r].sha>>
        BY <3>4, PromotedTags DEF Typed, Publishing, Releases
      <4>3. 1 \in 1 .. Len(Promoted(r)) /\ 2 \in 1 .. Len(Promoted(r))
        BY <4>2
      <4> QED BY <4>1, <4>2, <4>3
    <3>8. VersionTag(r) \notin contended => tags[VersionTag(r)] \in signed
      BY <3>1, <3>4, <3>5 DEF RunKept, Verified
    <3>9. VersionTag(r) = <<"version", v>>
      BY <3>3 DEF VersionTag
    <3>10. There(plan[r].sha)
      BY <3>3, <3>6, <3>7, <3>8, <3>9 DEF Package
    <3> QED BY <3>3, <3>10
  <2> QED BY <2>1, <2>2
<1>5. PICK c \in Sha : There(c)
  BY <1>4
<1>6. c # NoSha /\ <<"sha", c>> \in Tag
  BY <1>3, NamesAssumption
<1>7. /\ \A p \in Package : npm'[p][v] # NoPackage
      /\ gitTag'[v] = c
  BY <1>5, <1>6 DEF Grows
<1>8. tags'[<<"version", v>>] # NoImage /\ tags'[<<"sha", c>>] # NoImage
  BY <1>2, <1>5, <1>6 DEF Grows
<1>9. <<"version", v>> \notin contended' =>
        tags'[<<"version", v>>] \in signed'
  BY <1>2, <1>5 DEF Grows
<1> QED BY <1>5, <1>7, <1>8, <1>9

(* Every step leaves the toolchains pinned to the images of their versions.*)
LEMMA PinsKept ==
  ASSUME IInv, NEW r \in Run, Act(r), Grows
  PROVE  ToolchainPinsItsImage'
<1> USE DEF IInv
<1>1. SUFFICES ASSUME NEW v \in Version, npm'["toolchain"][v] # NoPackage,
                      <<"version", v>> \notin contended'
               PROVE  /\ npm'["toolchain"][v].pin = tags'[<<"version", v>>]
                      /\ npm'["toolchain"][v].pin \in signed'
  BY DEF ToolchainPinsItsImage
<1> DEFINE t == <<"version", v>>
<1>2. /\ t \in Tag /\ ~IsMutable(t) /\ t \notin contended
      /\ signed \subseteq Image /\ signed \subseteq signed'
  BY <1>1 DEF Tag, IsMutable, Grows, Typed
<1>3. CASE npm'["toolchain"][v] = npm["toolchain"][v]
  <2>1. /\ npm["toolchain"][v].pin = tags[t]
        /\ npm["toolchain"][v].pin \in signed
    BY <1>1, <1>2, <1>3 DEF ToolchainPinsItsImage
  <2>2. tags[t] # NoImage
    BY <1>2, <2>1, NamesAssumption
  <2> QED BY <1>2, <1>3, <2>1, <2>2 DEF Grows
<1>4. CASE npm'["toolchain"][v] # npm["toolchain"][v]
  <2>1. Publish(r) /\ RunKept(r) /\ Placed(r)
    BY <1>4, Changes DEF RunInv, RunKept
  <2>2. /\ PackageOf(r) = "toolchain" /\ v = plan[r].version
        /\ npm'["toolchain"][v] = Candidate(r) /\ st[r].jobs # <<>>
    BY <1>4, <2>1, PublishNew DEF Package
  <2>3. Doing(r, "toolchain publish")
    BY <2>1, <2>2 DEF Publish, At, PublishJobs, PackageOf, Doing
  <2>4. Publishes(r) /\ Done(r) = 4 /\ t = VersionTag(r)
    BY <2>1, <2>2, <2>3, WhichJob DEF VersionTag
  <2>5. Done(r) >= 3 /\ Done(r) >= 4
    BY <2>4
  <2>6. tags[t] \in signed /\ st[r].pin = tags[t]
    BY <1>2, <2>1, <2>4, <2>5 DEF RunKept, Verified
  <2>7. npm'["toolchain"][v].pin = st[r].pin
    BY <2>2 DEF Candidate
  <2>8. tags' = tags
    BY <2>1 DEF Publish
  <2> QED BY <1>2, <2>6, <2>7, <2>8
<1> QED BY <1>3, <1>4

-----------------------------------------------------------------------------
(* The registries are empty at first, and no run is behind its first job.  *)
LEMMA InitIInv == Init => IInv
<1> SUFFICES ASSUME Init PROVE IInv
  OBVIOUS
<1>1. ASSUME NEW r \in Run
      PROVE  /\ Begin(r, Path(plan[r].kind), NoImage) \in Place
             /\ RunKept(r) /\ ~Uploads(r) /\ st[r].at # "create"
  <2> DEFINE path == Path(plan[r].kind)
             promotes == path # <<>> /\ Head(path) = "promote"
  <2>1. plan[r].kind \in Kind /\ plan \in Plans
    BY PlanOf DEF Init
  <2>2. /\ path \in Seq(Job) /\ path \in Suffixes(path)
        /\ plan[r].kind = "pull-request" => path = <<>>
    BY <2>1, Paths, WholeIsSuffix
  <2>3. promotes => /\ Promoted(r) \in Seq(Tag) /\ Promoted(r) # <<>>
                    /\ Promoted(r) \in Suffixes(Promoted(r))
    BY <2>1, <2>2, PromotedTags, WholeIsSuffix
  <2> HIDE DEF path
  <2>4. st[r] = Begin(r, path, NoImage)
    BY DEF Init, path
  <2>5. Begin(r, path, NoImage) =
          [jobs |-> path, at |-> IF promotes THEN "inspect" ELSE "start",
           todo |-> IF promotes THEN Promoted(r) ELSE <<>>,
           seen |-> NoImage, pin |-> NoImage]
    BY DEF Begin
  <2>6. promotes => Doing(r, "promote")
    BY <2>4, <2>5 DEF Doing
  <2> HIDE DEF promotes
  <2>7. Begin(r, path, NoImage) \in Place
    BY <2>2, <2>3, <2>5 DEF Place, Stage, AnyImage
  <2>8. /\ st[r].jobs = path /\ st[r].pin = NoImage
        /\ st[r].at = IF promotes THEN "inspect" ELSE "start"
        /\ st[r].todo = IF promotes THEN Promoted(r) ELSE <<>>
    BY <2>4, <2>5
  <2>9. st[r].at # "start" => st[r].jobs # <<>>
    BY <2>8 DEF promotes
  <2>10. Placed(r)
    <3>1. Busy(r) => promotes
      BY <2>8 DEF Busy
    <3>2. st[r].jobs \in Suffixes(Path(plan[r].kind))
      BY <2>2, <2>8 DEF path
    <3>3. st[r].at \notin {"create", "confirm"}
      BY <2>8
    <3> QED BY <2>3, <2>6, <2>8, <2>9, <3>1, <3>2, <3>3 DEF Placed
  <2>11. Done(r) = 0
    <3>1. Done(r) = Len(path) - Len(path) /\ Len(path) \in Nat
      BY <2>2, <2>8 DEF Done, path
    <3> QED BY <3>1
  <2>12. ~Uploads(r) /\ st[r].at # "create" /\ ~At(r, {"finalize"}, "release")
    BY <2>8 DEF Uploads, At
  <2>13. LeftInNpm(r)
    BY <2>11, <2>12 DEF LeftInNpm
  <2>14. ~(Busy(r) /\ Doing(r, "verify"))
    BY <2>6, <2>8 DEF Busy, Doing
  <2>15. Verified(r)
    BY <2>11, <2>14 DEF Verified
  <2>16. TagsThere(r)
    <3>1. Busy(r) => 1 .. Len(Promoted(r)) - Len(st[r].todo) = {}
      <4>1. Busy(r) => st[r].todo = Promoted(r) /\ Promoted(r) \in Seq(Tag)
        BY <2>3, <2>8 DEF Busy
      <4> QED BY <4>1, NoneLeft, Zenon
    <3>2. st[r].at \notin {"confirm", "check", "sign"}
      BY <2>8
    <3>3. ~(Done(r) >= 2)
      BY <2>11
    <3>4. Busy(r) => \A i \in 1 .. Len(Promoted(r)) - Len(st[r].todo) :
            tags[Promoted(r)[i]] # NoImage
      BY <3>1
    <3> QED BY <3>2, <3>3, <3>4 DEF TagsThere
  <2> QED BY <2>7, <2>10, <2>12, <2>13, <2>15, <2>16 DEF RunKept, path
<1>2. Typed
  <2>1. st \in [Run -> Place]
    BY <1>1 DEF Init
  <2> QED BY <2>1, BoundAssumption DEF Typed, Init, AnyImage
<1>3. RunInv
  BY <1>1 DEF RunInv, RunKept
<1>4. QueueInv
  BY <1>1 DEF QueueInv
<1>5. WritersAgree
  BY <1>1 DEF WritersAgree, Writes
<1>6. StableInv
  BY DEF StableInv, Init, Tag
<1>7. OneCommitPerVersion
  <2>1. \A v \in Version : <<"version", v>> \in Tag /\ <<"alias", "stable">> \in Tag
    BY DEF Tag
  <2>2. \A r \in Run : ~SameNative(plan[r].image, NoImage)
    BY NamesAssumption DEF SameNative
  <2> QED BY <2>1, <2>2 DEF OneCommitPerVersion, Init, Package
<1>8. ReleasesAreComplete /\ ToolchainPinsItsImage
  BY DEF ReleasesAreComplete, ToolchainPinsItsImage, Init, Package
<1> QED BY <1>2, <1>3, <1>4, <1>5, <1>6, <1>7, <1>8 DEF IInv

(* The invariant is inductive.                                             *)
LEMMA StepIInv == IInv /\ [Next]_vars => IInv'
<1> SUFFICES ASSUME IInv, [Next]_vars PROVE IInv'
  OBVIOUS
<1>1. CASE Next
  <2>1. PICK r \in Run : Act(r)
    BY <1>1 DEF Next, Act
  <2>2. Grows /\ Own(r)
    BY <2>1, ActOwn
  <2>3. StableInv'
    BY <2>1, <2>2, StableKept
  <2> QED BY <2>1, <2>2, <2>3, TypedKept, RunsKept, QueueKept, WritersKept,
             CommitsKept, ReleasesKept, PinsKept DEF IInv
<1>2. CASE UNCHANGED vars
  <2>1. /\ UNCHANGED <<plan, st, npm, current, tags, signed, gitTag, release,
                       contended, faults>>
    BY <1>2 DEF vars, registries
  <2>2. /\ (Typed' <=> Typed) /\ (RunInv' <=> RunInv)
        /\ (StableInv' <=> StableInv) /\ (WritersAgree' <=> WritersAgree)
    BY <2>1 DEF Typed, RunInv, Placed, LeftInNpm, TagsThere, Verified, Done,
                Busy, Doing, Publishes, VersionTag, Promoted, Immutable, Target,
                At, StableInv, WritersAgree, Writes, IsMutable
  <2>3. (QueueInv' <=> QueueInv)
    BY <2>1 DEF QueueInv, Uploads, At, Published, PackageOf, ChannelOf
  <2>4. /\ (OneCommitPerVersion' <=> OneCommitPerVersion)
        /\ (ReleasesAreComplete' <=> ReleasesAreComplete)
        /\ (ToolchainPinsItsImage' <=> ToolchainPinsItsImage)
    BY <2>1 DEF OneCommitPerVersion, ReleasesAreComplete, ReleaseRun, Labelled,
                ToolchainPinsItsImage
  <2> QED BY <2>2, <2>3, <2>4 DEF IInv
<1> QED BY <1>1, <1>2

(* It holds in every state of every behaviour.                             *)
LEMMA Invariance == Spec => []IInv
  BY InitIInv, StepIInv, PTL DEF Spec

(* Whatever runs there are, and however often their jobs die: every        *)
(* variable has its type, what a run has left is the end of its kind's     *)
(* path, and a promotion has tags left and has looked at the one it writes.*)
THEOREM TypeCorrect == Spec => []TypeOK
<1>1. IInv => TypeOK
  <2> SUFFICES ASSUME IInv PROVE TypeOK
    OBVIOUS
  <2>1. Typed /\ \A r \in Run : RunKept(r)
    BY DEF IInv, RunInv, RunKept
  <2>2. ASSUME NEW r \in Run
        PROVE  /\ st[r].jobs \in Suffixes(Path(plan[r].kind))
               /\ st[r].at \in Stage
               /\ st[r].seen \in AnyImage /\ st[r].pin \in AnyImage
               /\ st[r].at \in {"inspect", "create", "confirm", "check", "sign"}
                    => /\ Head(st[r].jobs) \in Promoting
                       /\ st[r].todo \in Suffixes(Promoted(r))
                            \cup {<<<<"alias", "stable">>>>}
                       /\ st[r].todo # <<>>
               /\ st[r].at \in {"create", "confirm"} => st[r].seen # NoImage
    <3>1. Placed(r) /\ st[r] \in Place
      BY <2>1 DEF RunKept, Typed
    <3> QED BY <3>1, NamesAssumption DEF Placed, Place, Busy, Doing, Promoting
  <2>3. \A p \in Package, v \in Version : npm[p][v] = NoPackage \/
          npm[p][v] \in [bytes : Bytes, sha : Sha, pin : AnyImage]
    BY <2>1 DEF Typed, Contents
  <2> QED BY <2>1, <2>2, <2>3 DEF TypeOK, Typed
<1> QED BY <1>1, Invariance, PTL

(* Whatever carries a version, in npm, among the image tags, in git or as  *)
(* a release, is of the commit whose libcascade npm has: for any runs of   *)
(* it, its resumptions and later preparations, in any order.               *)
THEOREM VersionsOfOneCommit == Spec => []OneCommitPerVersion
<1>1. IInv => OneCommitPerVersion
  BY DEF IInv
<1> QED BY <1>1, Invariance, PTL

(* A GitHub Release is created last: what its notes offer is there.        *)
THEOREM CompleteReleases == Spec => []ReleasesAreComplete
<1>1. IInv => ReleasesAreComplete
  BY DEF IInv
<1> QED BY <1>1, Invariance, PTL

(* A published toolchain pins the signed image of its own version tag,     *)
(* unless two runs contended for that tag.                                 *)
THEOREM PinnedImage == Spec => []ToolchainPinsItsImage
<1>1. IInv => ToolchainPinsItsImage
  BY DEF IInv
<1> QED BY <1>1, Invariance, PTL

(* What npm has it keeps, and an immutable tag is written again only where *)
(* two runs found it missing at once.                                      *)
THEOREM NothingIsReplaced == Spec => PublishedStays
<1> DEFINE Kept ==
      /\ \A p \in Package, v \in Version :
           npm[p][v] # NoPackage => npm'[p][v] = npm[p][v]
      /\ \A t \in Tag : tags'[t] # tags[t] =>
           IsMutable(t) \/ tags[t] = NoImage \/ t \in contended
<1>1. IInv /\ [Next]_vars => [Kept]_vars
  <2> SUFFICES ASSUME IInv, Next PROVE Kept
    BY DEF IInv
  <2>1. PICK r \in Run : Act(r)
    BY DEF Next, Act
  <2> QED BY <2>1, StepGrows DEF Grows
<1> QED BY <1>1, Invariance, PTL DEF Spec, PublishedStays
=============================================================================
