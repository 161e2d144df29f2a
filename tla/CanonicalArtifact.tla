------------------------- MODULE CanonicalArtifact -------------------------
(***************************************************************************)
(* The artifact of a Release Check: what scripts/release-dry-run.ts packs  *)
(* of a commit, and what scripts/canonical-validate.mjs and its callers    *)
(* check of a downloaded one.                                              *)
(*                                                                         *)
(* A tarball is known by its package and the commit it was packed from,    *)
(* and its hash is the tarball itself: one toolchain packs one commit to   *)
(* the same bytes (scripts/release-reproducibility.ts), and SHA-256 does   *)
(* not collide.  Working stands for an operator's own working tree.        *)
(***************************************************************************)
EXTENDS Naturals, Sequences, FiniteSetsExt

CONSTANTS
    Roster,         \* PUBLIC_PACKAGE_NAMES, in order
    Alphabet,       \* the same names, as localeCompare sorts them
    DependsOn,      \* [package -> the public packages it depends on]
    Commits,
    VersionAt,      \* [commit -> [package -> the version in package.json]]
    PnpmAt,         \* [commit -> the pnpm that packageManager selects]
    PinnedPnpm,
    Prereleases,    \* the versions with a prerelease identifier
    Working, None

Packages == {Roster[i] : i \in DOMAIN Roster}
Versions == {VersionAt[c][p] : c \in Commits, p \in Packages}

(* Every public package has one version, the version of the release.       *)
VersionOf(c) == VersionAt[c][Roster[1]]
Lockstep(c) == \A p \in Packages : VersionAt[c][p] = VersionOf(c)

Tarball(p, from) == [package |-> p, from |-> from]
Tarballs(from) == [p \in Packages |-> Tarball(p, from)]

(* None stands for what is not there.                                      *)
ASSUME NoneIsNothing ==
    /\ None \notin Commits
    /\ None \notin Versions
    /\ None \notin [package : Packages, from : Commits \cup {Working}]

(* The order in which the packages are published: by the length of the     *)
(* longest chain of dependencies, then by name.                            *)
Depth[p \in Packages] ==
    IF DependsOn[p] = {} THEN 0
    ELSE 1 + Max({Depth[q] : q \in DependsOn[p]})

Place(p) == CHOOSE i \in DOMAIN Alphabet : Alphabet[i] = p

Earlier(p, q) ==
    \/ Depth[p] < Depth[q]
    \/ Depth[p] = Depth[q] /\ Place(p) < Place(q)

PublishOrder ==
    CHOOSE order \in [DOMAIN Roster -> Packages] :
        \A i, j \in DOMAIN Roster : i < j => Earlier(order[i], order[j])

(* The dependencies of the packages have no cycle, which the dry run       *)
(* refuses, and so the order has every package after those it depends on.  *)
ASSUME OrderIsTopological ==
    /\ Roster \in Seq(Packages) /\ Roster # <<>>
    /\ PublishOrder \in [DOMAIN Roster -> Packages]
    /\ \A p \in Packages : \E i \in DOMAIN Roster : PublishOrder[i] = p
    /\ \A i \in DOMAIN Roster : \A d \in DependsOn[PublishOrder[i]] :
          \E j \in 1..(i - 1) : PublishOrder[j] = d

-----------------------------------------------------------------------------
(* release-dry-run.ts of a commit, or of a working tree at it: nothing,    *)
(* unless the versions are in lockstep.                                    *)
Records(c, from) ==
    [p \in Packages |-> [version |-> VersionAt[c][p], sha256 |-> Tarball(p, from)]]

Artifact(c, from) ==
    [identity |-> [sha |-> c, version |-> VersionOf(c), pnpm |-> PnpmAt[c],
                   order |-> PublishOrder, packages |-> Records(c, from)],
     order    |-> PublishOrder,
     packages |-> Records(c, from),
     sums     |-> Tarballs(from),
     tarballs |-> Tarballs(from)]

(* What may become of an artifact on its way: a file is lost or cut short, *)
(* a list is another one's, the manifest is one that has no identity yet.  *)
Damaged(a) ==
    {[a EXCEPT !.identity = None]}
      \cup {[a EXCEPT !.tarballs = [@ EXCEPT ![p] = None]] : p \in Packages}
      \cup {[a EXCEPT !.sums = [@ EXCEPT ![p] = None]] : p \in Packages}

(* validateCanonicalReleaseDir, for an expected head.                      *)
Valid(a, head) ==
    /\ a.identity # None
    /\ a.identity.pnpm = PinnedPnpm
    /\ a.identity.sha = head
    /\ {a.order[i] : i \in DOMAIN a.order} = Packages
    /\ a.identity.order = a.order
    /\ a.identity.packages = a.packages
    /\ \A p \in Packages :
          /\ a.packages[p].version = a.identity.version
          /\ a.tarballs[p] = a.packages[p].sha256
          /\ a.sums[p] = a.packages[p].sha256

(* verify-sha256sums: the listed files have the listed hashes.             *)
SumsHold(a) == \A p \in Packages : a.tarballs[p] = a.sums[p]

(* verifyCanonicalArtifactLayout                                           *)
LayoutHolds(a, head) ==
    /\ \A p \in Packages : a.tarballs[p] # None
    /\ SumsHold(a)
    /\ Valid(a, head)

(* distTagForVersion                                                       *)
DistTag(version) == IF version \in Prereleases THEN "next" ELSE "latest"
=============================================================================
