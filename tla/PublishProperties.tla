------------------------- MODULE PublishProperties -------------------------
(* What publishing promises. *)
EXTENDS Publish

Digests == [package : Packages, from : Commits \cup {Working}]
Record == [version : Versions, sha256 : Digests]
Identities ==
    [sha : Commits, version : Versions, pnpm : {PnpmAt[c] : c \in Commits},
     order : [DOMAIN Roster -> Packages], packages : [Packages -> Record]]
Artifacts ==
    [identity : Identities \cup {None}, order : [DOMAIN Roster -> Packages],
     packages : [Packages -> Record], sums : [Packages -> Digests \cup {None}],
     tarballs : [Packages -> Digests \cup {None}]]
Tags == [{"next", "latest"} -> Versions \cup {None}]
Plans == [canonical : BOOLEAN, head : Commits, tarballs : [Packages -> Digests \cup {None}]]

Job ==
    [mode : Modes, sha : Commits \cup {None}, tag : Versions \cup {None},
     branch : {"main", "other", None}, phase : Phases, run : Nat,
     artifact : Artifacts \cup {None}, next : Nat \ {0}, source : Nat \ {0},
     attempt : Nat,
     answers : [{"exact", "tags", "root"} -> Answers \cup {None}],
     named : Versions \cup {None}, states : SUBSET States,
     overall : States \cup {None}, quiet : BOOLEAN]

TypeOK ==
    /\ scene \in Scenarios
    /\ main \in Seq(Commits) /\ main # <<>>
    /\ tagged \in [Versions -> Commits \cup {None}]
    /\ checks \in Seq(Checks)
    /\ jobs \in [Jobs -> Job]
    /\ staged \in [Packages -> [Versions -> SUBSET (Digests \cup {None})]]
    /\ live \in [Packages -> [Versions -> Digests \cup {None}]]
    /\ tags \in [Packages -> Tags]
    /\ shown \in [Packages -> [exact : SUBSET Versions, root : BOOLEAN, tags : Tags]]
    /\ evidence \subseteq Commits
    /\ plan # None => plan \in Plans /\ Bootstrap \in Versions

(* The commits whose full Release Check has succeeded, those on main, and  *)
(* those of them that a tag names with the version of every package.       *)
FullyChecked ==
    {c \in Commits : \E i \in DOMAIN checks :
        Successful(i, "Release Check", c) /\ checks[i].event # "pull_request"}

Merged == {c \in Commits : OnMain(c)}

Reviewed == {c \in Merged : Lockstep(c) /\ tagged[VersionOf(c)] = c}

Canonical(t, p, version) ==
    \E c \in Reviewed \cap FullyChecked :
        t = Tarball(p, c) /\ VersionOf(c) = version /\ PnpmAt[c] = PinnedPnpm

(* Whatever waits on npm for its approval as a version of a package was    *)
(* packed, by the pinned toolchain, of the one reviewed commit that the    *)
(* tag of the version names and whose full Release Check succeeded, though *)
(* jobs overlap, fail after some of the packages and are started again;    *)
(* and the packages it depends on were staged before.  The evidence of a   *)
(* stage says so of all packages, and a plan that calls itself canonical   *)
(* points at such tarballs (release.yml, stage-from-artifact.mjs,          *)
(* bootstrap-release.ts).                                                  *)
StagedIsCanonical ==
    /\ \A p \in Packages, v \in Versions : \A t \in staged[p][v] :
          /\ Canonical(t, p, v)
          /\ \A d \in DependsOn[p] : staged[d][v] # {}
    /\ \A c \in evidence, p \in Packages : Tarball(p, c) \in staged[p][VersionOf(c)]
    /\ plan # None /\ plan.canonical =>
          /\ plan.tarballs = Tarballs(plan.head)
          /\ plan.head \in Merged \cap FullyChecked

Verified(job) ==
    \A p \in Packages : live[p][VersionOf(job.sha)] = Tarball(p, job.sha)

(* The verdict of a verification is true although the registry is asked    *)
(* question by question while it changes, answers late or not at all, and  *)
(* holds tarballs that were published by hand: PUBLISHED_VERIFIED means    *)
(* that every package is published with the bytes of the commit, and this  *)
(* is what is said when all of it was there from the start and every       *)
(* question was answered (registry-truth.ts, verify-registry-release.ts).  *)
VerdictIsTrue ==
    \A j \in Jobs : jobs[j].mode = "verify" /\ jobs[j].phase = "done" =>
        /\ jobs[j].overall = "PUBLISHED_VERIFIED" => Verified(jobs[j])
        /\ jobs[j].quiet => jobs[j].overall = "PUBLISHED_VERIFIED"
=============================================================================
