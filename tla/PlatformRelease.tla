--------------------------- MODULE PlatformRelease ---------------------------
(***************************************************************************)
(* Publishing one platform version and installing it                       *)
(* (scripts/yocto/publish-platform-release.py, install-platform-release.py)*)
(*                                                                         *)
(* A maintainer edits, commits, pushes, tags, and builds image and SDK; the*)
(* publisher packages what is built and uploads six assets to a GitHub     *)
(* release; a developer installs them.  Either script may stop at any      *)
(* command.  The checkout and the builds are left alone while the publisher*)
(* runs, but GitHub is not; there is one installation at a time.           *)
(***************************************************************************)
EXTENDS Naturals

CONSTANTS
    Missing,    \* no such file, release or tag
    MaxCommits, \* BOUND: commits of the maintainer
    MaxBuilds,  \* BOUND: builds of the image, and of the SDK
    MaxRuns,    \* BOUND: runs of either script, in all
    Metadata(_, _) \* the eight keys of the metadata of a build of "image" or "sdk"

ASSUME BoundsAssumption ==
    MaxCommits \in Nat \ {0} /\ MaxBuilds \in Nat \ {0} /\ MaxRuns \in Nat

VARIABLES
    tree,      \* the checkout: HEAD, whether it is dirty, whether the version file has the version
    build,     \* the deploy directory: the last builds of image and SDK
    pushed,    \* the last commit on GitHub
    tag,       \* the commit of the remote tag, or Missing
    release,   \* the GitHub release [draft, target, assets], or Missing
    pub,       \* the publisher
    inst,      \* the installer
    sdk,       \* yocto/sdk: [content, complete], or Missing
    platform,  \* yocto/platform: [bundle, manifest], or Missing
    mixed,     \* HISTORY: a replacement of published assets began and has not succeeded yet
    raced,     \* HISTORY: the release was published by a run during which its tag was pushed
    runs       \* HISTORY: how often a script was run

maintainer == <<tree, build, pushed>>
remote == <<tag, release, mixed, raced>>
developer == <<inst, sdk, platform>>
vars == <<maintainer, remote, developer, pub, runs>>

-----------------------------------------------------------------------------
(* The files.  A checksum is as good as the content it was computed from, and *)
(* archives are reproducible: the same inputs make the same bundle.          *)

Files == {"manifest", "bundle", "sdk"}
Assets == Files \X {"content", "checksum"}
NoAssets == [a \in Assets |-> Missing]

Bundle(b, commit) == [image |-> b.image, launcher |-> commit]
Sdk(b) == [toolchain |-> b.sdk]

Manifest(b, commit, dirty) ==
    [commit |-> commit, dirty |-> dirty, bundle |-> Bundle(b, commit), sdk |-> Sdk(b)]

Commits == 1..MaxCommits
Builds == [image: 1..MaxBuilds, sdk: 1..MaxBuilds]
Manifests == {Manifest(b, c, d) : b \in Builds, c \in Commits, d \in BOOLEAN}
Bundles == {Bundle(b, c) : b \in Builds, c \in Commits}
Sdks == {Sdk(b) : b \in Builds}
Contents == Manifests \cup Bundles \cup Sdks \cup {Missing}

ASSUME MissingAssumption ==
    /\ Missing \notin Nat /\ Missing \notin Manifests \cup Bundles \cup Sdks
    /\ Missing \notin [draft: BOOLEAN, target: Commits, assets: [Assets -> Contents]]
    /\ Missing \notin [content: Sdks, complete: BOOLEAN]
    /\ Missing \notin [bundle: Bundles, manifest: Manifests]

\* The builds that the script takes for an image and its SDK.  That they were
\* built from the same layers is up to the maintainer.
Matching == {b \in Builds : Metadata("image", b.image) = Metadata("sdk", b.sdk)}

\* The six assets staged from one pair of builds and one commit.
Prepared(b, commit, dirty) ==
    [a \in Assets |-> [manifest |-> Manifest(b, commit, dirty),
                       bundle |-> Bundle(b, commit), sdk |-> Sdk(b)][a[1]]]

-----------------------------------------------------------------------------
\* HISTORY: `late`, the tag was pushed after this run had looked for it.
NoRun == [step |-> "Idle", prepareOnly |-> FALSE, replace |-> FALSE, commit |-> Missing,
          dirty |-> FALSE, release |-> Missing, assets |-> NoAssets, left |-> {},
          late |-> FALSE]

NoInstall(step) == [step |-> step, got |-> NoAssets]

Init ==
    /\ tree \in [commit: {1}, dirty: {FALSE}, versioned: BOOLEAN]
    /\ build = [image |-> 1, sdk |-> 1] /\ pushed = 1
    /\ tag = Missing /\ release = Missing /\ mixed = FALSE /\ raced = FALSE
    /\ pub = NoRun
    /\ inst = NoInstall("Idle") /\ sdk = Missing /\ platform = Missing
    /\ runs = 0

-----------------------------------------------------------------------------
(* The maintainer *)

Publishing == pub.step # "Idle"

RefsAreRead == {"Commit", "Prepare", "Create", "Upload", "Publish"}

CommitTree ==
    /\ ~Publishing /\ tree.commit < MaxCommits
    /\ tree' = [tree EXCEPT !.commit = @ + 1, !.dirty = FALSE]
    /\ UNCHANGED <<build, pushed, remote, developer, pub, runs>>

\* bitbake adaptive-pi-image, or the same with -c populate_sdk.
Rebuild(part) ==
    /\ ~Publishing /\ build[part] < MaxBuilds
    /\ build' = [build EXCEPT ![part] = @ + 1]
    /\ UNCHANGED <<tree, pushed, remote, developer, pub, runs>>

Push ==
    /\ pushed < tree.commit
    /\ pushed' = tree.commit
    /\ UNCHANGED <<tree, build, remote, developer, pub, runs>>

\* A tag pushed by hand, on any commit, at any time.
PushTag ==
    /\ tag = Missing
    /\ tag' \in 1..pushed
    /\ pub' = [pub EXCEPT !.late = @ \/ pub.step \in RefsAreRead]
    /\ UNCHANGED <<maintainer, release, mixed, raced, developer, runs>>

-----------------------------------------------------------------------------
(* The publisher: one action per command that can fail *)

At(step) == pub.step = step
Goto(step) == pub' = [pub EXCEPT !.step = step]
Quit == pub' = NoRun

StartPublishing(prepareOnly, replace) ==
    /\ ~Publishing /\ runs < MaxRuns
    /\ pub' = [NoRun EXCEPT !.step = "Metadata", !.prepareOnly = prepareOnly, !.replace = replace]
    /\ runs' = runs + 1
    /\ UNCHANGED <<maintainer, remote, developer>>

\* Eight keys of the metadata of the image and of the SDK have to agree.
CheckMetadata ==
    /\ At("Metadata")
    /\ IF build \in Matching THEN Goto("Version") ELSE Quit
    /\ UNCHANGED <<maintainer, remote, developer, runs>>

\* The version is written to its file, which is a change to commit first.
CheckVersion ==
    /\ At("Version")
    /\ LET dirty == tree.dirty \/ ~tree.versioned
       IN  /\ tree' = [tree EXCEPT !.versioned = TRUE, !.dirty = dirty]
           /\ IF dirty /\ ~pub.prepareOnly THEN Quit
              ELSE pub' = [pub EXCEPT !.step = IF pub.prepareOnly THEN "Prepare" ELSE "Releases",
                                      !.commit = tree.commit, !.dirty = dirty]
    /\ UNCHANGED <<build, pushed, remote, developer, runs>>

ReadReleases ==
    /\ At("Releases")
    /\ pub' = [pub EXCEPT !.release = release, !.step = "Refs"]
    /\ UNCHANGED <<maintainer, remote, developer, runs>>

\* MUTANT: a release without a tag is taken for one of this commit.
IsAcceptable_WithoutTag ==
    /\ tag \in {Missing, pub.commit}
    /\ pub.release # Missing => pub.replace

\* MUTANT: an existing release is updated without being asked to.
IsAcceptable_WithoutReplace ==
    /\ tag \in {Missing, pub.commit}
    /\ pub.release # Missing => tag # Missing

\* The three requirements on the tag and the release.
IsAcceptable ==
    /\ tag \in {Missing, pub.commit}
    /\ pub.release # Missing => tag # Missing
    /\ pub.release # Missing => pub.replace

ReadRefs ==
    /\ At("Refs")
    /\ IF IsAcceptable THEN Goto("Commit") ELSE Quit
    /\ UNCHANGED <<maintainer, remote, developer, runs>>

\* MUTANT: the commit need not be on GitHub.
CheckCommit_Skipped ==
    At("Commit") /\ Goto("Prepare") /\ UNCHANGED <<maintainer, remote, developer, runs>>

CheckCommit ==
    /\ At("Commit")
    /\ IF pub.commit <= pushed THEN Goto("Prepare") ELSE Quit
    /\ UNCHANGED <<maintainer, remote, developer, runs>>

\* Packaging, staging and verification are local; the staged files replace
\* those of earlier runs.
Prepare ==
    /\ At("Prepare")
    /\ IF pub.prepareOnly THEN Quit
       ELSE pub' = [pub EXCEPT !.assets = Prepared(build, pub.commit, pub.dirty), !.left = Assets,
                               !.step = IF pub.release = Missing THEN "Create" ELSE "Upload"]
    /\ UNCHANGED <<maintainer, remote, developer, runs>>

\* GitHub makes no tag for a draft.
Create ==
    /\ At("Create") /\ release = Missing
    /\ release' = [draft |-> TRUE, target |-> pub.commit, assets |-> NoAssets]
    /\ Goto("Upload")
    /\ UNCHANGED <<maintainer, tag, mixed, raced, developer, runs>>

\* gh uploads in any order, several at a time; an asset that exists is deleted
\* first if that was asked for, and fails the upload otherwise.
Upload(a) ==
    /\ At("Upload") /\ a \in pub.left
    /\ \/ /\ release.assets[a] = Missing
          /\ release' = [release EXCEPT !.assets[a] = pub.assets[a]]
          /\ pub' = [pub EXCEPT !.left = @ \ {a}]
       \/ /\ pub.replace
          /\ release.assets[a] # Missing
          /\ release' = [release EXCEPT !.assets[a] = Missing]
          /\ UNCHANGED pub
    /\ mixed' = (mixed \/ ~release.draft)
    /\ UNCHANGED <<maintainer, tag, raced, developer, runs>>

EndUpload ==
    /\ At("Upload") /\ pub.left = {}
    /\ mixed' = FALSE
    /\ IF pub.release = Missing \/ pub.release.draft
       THEN Goto("Publish") /\ UNCHANGED raced
       ELSE Quit /\ raced' = pub.late
    /\ UNCHANGED <<maintainer, tag, release, developer, runs>>

\* Publication makes the tag of the release, unless there is one by now.
Publish ==
    /\ At("Publish")
    /\ release' = [release EXCEPT !.draft = FALSE]
    /\ tag' = IF tag = Missing THEN release.target ELSE tag
    /\ raced' = pub.late
    /\ Quit
    /\ UNCHANGED <<maintainer, mixed, developer, runs>>

\* A command fails, or the script is interrupted or killed.
PublisherStops ==
    Publishing /\ Quit /\ UNCHANGED <<maintainer, remote, developer, runs>>

-----------------------------------------------------------------------------
(* The installer *)

Installing == inst.step \notin {"Idle", "Failed", "Interrupted"}

StartInstalling ==
    /\ ~Installing /\ runs < MaxRuns
    /\ sdk = Missing /\ platform = Missing
    /\ inst' = NoInstall("Download")
    /\ runs' = runs + 1
    /\ UNCHANGED <<maintainer, remote, pub, sdk, platform>>

\* Files are downloaded one by one, each followed by its checksum.
Order == <<"manifest", "bundle", "sdk">>

IsNext(a, got) ==
    \E i \in DOMAIN Order :
        /\ a[1] = Order[i] /\ got[a] = Missing
        /\ \A j \in 1..i - 1 : got[<<Order[j], "checksum">>] # Missing
        /\ a[2] = "checksum" => got[<<a[1], "content">>] # Missing

\* MUTANT: a file need only agree with its own checksum.
Verifies_WithoutManifest(a, got) ==
    a[2] = "checksum" =>
        /\ got[a] = got[<<a[1], "content">>]
        /\ ~got[<<"manifest", "content">>].dirty

\* After a checksum: it is that of its file, which is what the manifest names,
\* and the manifest is of a commit.
Verifies(a, got) ==
    LET manifest == got[<<"manifest", "content">>]
    IN  a[2] = "checksum" =>
          /\ got[a] = got[<<a[1], "content">>]
          /\ ~manifest.dirty
          /\ a[1] = "bundle" => got[a] = manifest.bundle
          /\ a[1] = "sdk" => got[a] = manifest.sdk

Fail == inst' = NoInstall("Failed")

Download(a) ==
    /\ inst.step = "Download" /\ IsNext(a, inst.got)
    /\ release # Missing /\ ~release.draft /\ release.assets[a] # Missing
    /\ LET got == [inst.got EXCEPT ![a] = release.assets[a]]
       IN  IF ~Verifies(a, got) THEN Fail
           ELSE inst' = [step |-> IF a = <<"sdk", "checksum">> THEN "Sdk" ELSE "Download",
                         got |-> got]
    /\ UNCHANGED <<maintainer, remote, pub, sdk, platform, runs>>

\* The SDK installer works at the final path.
BeginSdk ==
    /\ inst.step = "Sdk"
    /\ sdk' = [content |-> inst.got[<<"sdk", "content">>], complete |-> FALSE]
    /\ inst' = [inst EXCEPT !.step = "Relocate"]
    /\ UNCHANGED <<maintainer, remote, pub, platform, runs>>

EndSdk ==
    /\ inst.step = "Relocate"
    /\ sdk' = [sdk EXCEPT !.complete = TRUE]
    /\ inst' = [inst EXCEPT !.step = "Replace"]
    /\ UNCHANGED <<maintainer, remote, pub, platform, runs>>

\* The extracted platform is moved into place in one step.
ReplacePlatform ==
    /\ inst.step = "Replace"
    /\ platform' = [bundle |-> inst.got[<<"bundle", "content">>],
                    manifest |-> inst.got[<<"manifest", "content">>]]
    /\ inst' = NoInstall("Build")
    /\ UNCHANGED <<maintainer, remote, pub, sdk, runs>>

\* The repository is built with what was installed.
CrossBuild ==
    /\ inst.step = "Build"
    /\ inst' = NoInstall("Idle")
    /\ UNCHANGED <<maintainer, remote, pub, sdk, platform, runs>>

\* MUTANT: a failure leaves the SDK where it is.
InstallerFails_KeepsSdk ==
    Installing /\ Fail /\ UNCHANGED <<maintainer, remote, pub, sdk, platform, runs>>

\* An exception: between the SDK installer and the move of the platform it
\* removes the SDK; once both are in place a failing build leaves them there.
InstallerFails ==
    /\ Installing
    /\ Fail
    /\ sdk' = IF inst.step \in {"Sdk", "Relocate", "Replace"} THEN Missing ELSE sdk
    /\ UNCHANGED <<maintainer, remote, pub, platform, runs>>

\* An interrupt is not an exception that is handled: nothing is removed.
InstallerInterrupted ==
    /\ Installing
    /\ inst' = NoInstall("Interrupted")
    /\ UNCHANGED <<maintainer, remote, pub, sdk, platform, runs>>

\* The developer moves both directories aside.
MoveAside ==
    /\ ~Installing /\ (sdk # Missing \/ platform # Missing)
    /\ sdk' = Missing /\ platform' = Missing
    /\ UNCHANGED <<maintainer, remote, pub, inst, runs>>

-----------------------------------------------------------------------------
PublisherStep ==
    \/ CheckMetadata \/ CheckVersion \/ ReadReleases \/ ReadRefs \/ CheckCommit \/ Prepare
    \/ Create \/ (\E a \in Assets : Upload(a)) \/ EndUpload \/ Publish \/ PublisherStops

InstallerStep ==
    \/ (\E a \in Assets : Download(a)) \/ BeginSdk \/ EndSdk \/ ReplacePlatform \/ CrossBuild
    \/ InstallerFails \/ InstallerInterrupted

Next ==
    \/ CommitTree \/ (\E part \in {"image", "sdk"} : Rebuild(part)) \/ Push \/ PushTag
    \/ \E prepareOnly, replace \in BOOLEAN : StartPublishing(prepareOnly, replace)
    \/ PublisherStep
    \/ StartInstalling \/ InstallerStep \/ MoveAside

Spec == Init /\ [][Next]_vars

-----------------------------------------------------------------------------
(* Properties *)

\* Types, and what GitHub can hold: a release is of a commit that is there.
TypeOK ==
    /\ tree \in [commit: Commits, dirty: BOOLEAN, versioned: BOOLEAN]
    /\ build \in Builds /\ pushed \in Commits
    /\ tag # Missing => tag \in 1..pushed
    /\ release # Missing => release.draft \in BOOLEAN /\ release.target \in 1..pushed
    /\ pub.left \subseteq Assets
    /\ inst.step \in {"Idle", "Failed", "Interrupted", "Download", "Sdk", "Relocate", "Replace",
                    "Build"}

\* What is published is complete and of one commit and of an image and an SDK
\* that match, and its tag names that commit, which is on GitHub: whatever stopped
\* earlier runs, and whatever was committed, pushed and rebuilt between them.
\* Only a replacement under way, or one that stopped and has not been repeated,
\* may show a mixture.  The tag is looked up long before the release is
\* published: one pushed in between, by hand, may name another commit.
PublishedReleaseIsComplete ==
    release # Missing /\ ~release.draft /\ ~mixed =>
        \E b \in Matching, c \in Commits :
            release.assets = Prepared(b, c, FALSE) /\ (c = tag \/ raced)

\* Published assets change only when --replace-assets was given.
PublishedAssetsChangeOnlyDeliberately ==
    [][release # Missing /\ ~release.draft /\ release' # release => pub.replace]_vars

\* Once yocto/platform is there, it and a complete SDK come from one commit and
\* from builds that match, the ones its manifest names, even if the assets were
\* replaced in the middle of the downloads.
InstalledPlatformIsOneRelease ==
    platform # Missing =>
        /\ sdk # Missing /\ sdk.complete
        /\ \E b \in Matching :
             /\ platform.manifest = Manifest(b, platform.manifest.commit, FALSE)
             /\ platform.bundle = Bundle(b, platform.manifest.commit)
             /\ sdk.content = Sdk(b)

\* An installation that fails is all or nothing: it leaves no SDK without its
\* platform, which would only make the next attempt be refused, and no platform
\* without its SDK; the failing step may be the build that follows.
FailedInstallIsAllOrNothing ==
    inst.step = "Failed" => (sdk # Missing <=> platform # Missing)

\* docs/guides/publish-platform-release.md:69: --replace-assets retries an
\* interrupted upload for the same tag and source commit.
RetryIsAccepted ==
    [][/\ ReadRefs
       /\ pub.replace
       /\ pub.release # Missing /\ pub.release.draft /\ pub.release.target = pub.commit
       /\ tag \in {Missing, pub.commit}
       => pub'.step = "Commit"]_vars
=============================================================================
