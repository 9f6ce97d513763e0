------------------------- MODULE PlatformReleaseProofs -------------------------
(***************************************************************************)
(* Proofs about PlatformRelease, for any number of commits, builds and runs*)
(* of either script, each of which may stop at any command.                *)
(***************************************************************************)
EXTENDS PlatformRelease, TLAPS

-----------------------------------------------------------------------------
(* Assets *)

\* Manifests of an image and an SDK that match.
Matched == {Manifest(b, c, d) : b \in Matching, c \in Commits, d \in BOOLEAN}

\* Files that are there or missing, each of its kind.
AssetMaps ==
    {f \in [Assets -> Contents] :
        \A k \in {"content", "checksum"} :
            /\ f[<<"manifest", k>>] \in Matched \cup {Missing}
            /\ f[<<"bundle", k>>] \in Bundles \cup {Missing}
            /\ f[<<"sdk", k>>] \in Sdks \cup {Missing}}

Releases == [draft : BOOLEAN, target : Commits, assets : AssetMaps]

\* No release is not a release.
LEMMA ReleasesAreThere == Missing \notin Releases
BY MissingAssumption DEF Releases, AssetMaps

\* An asset is a file or its checksum.
LEMMA AssetPairs ==
    /\ \A a \in Assets : a[1] \in Files /\ a[2] \in {"content", "checksum"} /\ a = <<a[1], a[2]>>
    /\ \A f \in Files, k \in {"content", "checksum"} : <<f, k>> \in Assets
    /\ \A f, g, k, l : <<f, k>> = <<g, l>> <=> f = g /\ k = l
BY DEF Assets

\* What is staged has the contents of one pair of builds and one commit.
LEMMA PreparedContents ==
    ASSUME NEW b, NEW c, NEW d, NEW k \in {"content", "checksum"}
    PROVE  /\ Prepared(b, c, d)[<<"manifest", k>>] = Manifest(b, c, d)
           /\ Prepared(b, c, d)[<<"bundle", k>>] = Bundle(b, c)
           /\ Prepared(b, c, d)[<<"sdk", k>>] = Sdk(b)
BY DEF Prepared, Assets, Files

\* The contents of builds that match and one commit.
LEMMA ContentsAreTyped ==
    ASSUME NEW b \in Matching, NEW c \in Commits, NEW d \in BOOLEAN
    PROVE  /\ Manifest(b, c, d) \in Manifests /\ Bundle(b, c) \in Bundles /\ Sdk(b) \in Sdks
           /\ Manifest(b, c, d) \in Matched
BY DEF Manifests, Bundles, Sdks, Matched, Matching

\* Staged assets are all there.
LEMMA PreparedIsTyped ==
    ASSUME NEW b \in Matching, NEW c \in Commits, NEW d \in BOOLEAN
    PROVE  Prepared(b, c, d) \in AssetMaps
<1> DEFINE p == Prepared(b, c, d)
<1>1. /\ Manifest(b, c, d) \in Manifests /\ Bundle(b, c) \in Bundles /\ Sdk(b) \in Sdks
      /\ Manifest(b, c, d) \in Matched
  BY ContentsAreTyped
<1>2. \A a \in Assets : p[a] \in Contents
  <2> SUFFICES ASSUME NEW a \in Assets PROVE p[a] \in Contents
    OBVIOUS
  <2>1. a = <<a[1], a[2]>> /\ a[1] \in {"manifest", "bundle", "sdk"} /\ a[2] \in {"content", "checksum"}
    BY AssetPairs DEF Files
  <2> QED
    BY <1>1, <2>1, PreparedContents DEF Contents
<1>3. p = [a \in Assets |-> p[a]]
  BY DEF Prepared
<1> HIDE DEF p
<1>4. p \in [Assets -> Contents]
  BY <1>2, <1>3
<1> QED
  BY <1>1, <1>4, PreparedContents DEF AssetMaps, p

\* A new release has no assets.
LEMMA NoAssetsIsTyped == NoAssets \in AssetMaps
<1>1. \A f \in Files, k \in {"content", "checksum"} : <<f, k>> \in Assets
  BY AssetPairs
<1> QED
  BY <1>1 DEF NoAssets, AssetMaps, Contents, Files

\* One asset is added or deleted.
LEMMA OneAsset ==
    ASSUME NEW f \in AssetMaps, NEW g \in AssetMaps, NEW a \in Assets,
           NEW v, v = Missing \/ v = g[a]
    PROVE  /\ [f EXCEPT ![a] = v] \in AssetMaps
           /\ [f EXCEPT ![a] = v][a] = v
           /\ \A c \in Assets : c # a => [f EXCEPT ![a] = v][c] = f[c]
<1> DEFINE new == [f EXCEPT ![a] = v]
<1>1. /\ new \in [Assets -> Contents]
      /\ new[a] = v /\ \A c \in Assets : c # a => new[c] = f[c]
  BY DEF AssetMaps, Contents
<1>2. \A c \in Assets : new[c] \in {Missing, f[c], g[c]}
  BY <1>1
<1> HIDE DEF new
<1>3. ASSUME NEW k \in {"content", "checksum"}
      PROVE  /\ new[<<"manifest", k>>] \in Matched \cup {Missing}
             /\ new[<<"bundle", k>>] \in Bundles \cup {Missing}
             /\ new[<<"sdk", k>>] \in Sdks \cup {Missing}
  <2>1. <<"manifest", k>> \in Assets /\ <<"bundle", k>> \in Assets /\ <<"sdk", k>> \in Assets
    BY AssetPairs DEF Files
  <2> QED
    BY <1>2, <2>1 DEF AssetMaps
<1>4. new \in AssetMaps
  BY <1>1, <1>3 DEF AssetMaps
<1> QED
  BY <1>1, <1>4 DEF new

-----------------------------------------------------------------------------
(* The invariant of the publisher *)

PubFields == {"step", "prepareOnly", "replace", "commit", "dirty", "release", "assets", "left",
              "late"}

Types ==
    /\ tree \in [commit: Commits, dirty: BOOLEAN, versioned: BOOLEAN]
    /\ build \in Builds /\ pushed \in Commits /\ pushed <= tree.commit
    /\ tag = Missing \/ tag \in 1..pushed
    /\ release = Missing \/ (release \in Releases /\ release.target <= pushed)
    /\ DOMAIN pub = PubFields
    /\ pub.left \subseteq Assets
    /\ pub.late \in BOOLEAN /\ raced \in BOOLEAN

\* What the publisher has found out, and nobody has changed since: the tag only
\* from none to some, which makes the run a late one.
Checked ==
    /\ pub.step \in {"Idle", "Metadata", "Version", "Releases", "Refs", "Commit", "Prepare",
                     "Create", "Upload", "Publish"}
    /\ pub.step \in {"Releases", "Refs", "Commit", "Create", "Upload", "Publish"} => ~pub.prepareOnly
    /\ pub.step \notin {"Idle", "Metadata"} => build \in Matching
    /\ pub.step \notin {"Idle", "Metadata", "Version"} =>
         pub.commit \in Commits /\ (~pub.prepareOnly => pub.dirty = FALSE)
    /\ pub.step \in {"Refs", "Commit", "Prepare", "Create"} /\ ~pub.prepareOnly => pub.release = release
    /\ pub.step \in {"Commit", "Prepare", "Create", "Upload", "Publish"} /\ ~pub.prepareOnly =>
         /\ pub.late \/ tag \in {Missing, pub.commit}
         /\ pub.release # Missing => tag = pub.commit /\ pub.replace
    /\ pub.step \in {"Prepare", "Create", "Upload", "Publish"} /\ ~pub.prepareOnly =>
         pub.commit <= pushed

\* What it has uploaded so far.
Uploaded ==
    /\ pub.step \in {"Create", "Upload", "Publish"} =>
         \E b \in Matching : pub.assets = Prepared(b, pub.commit, FALSE)
    /\ pub.step = "Create" => pub.release = Missing /\ pub.left = Assets
    /\ pub.step \in {"Upload", "Publish"} =>
         /\ release \in Releases
         /\ pub.release = Missing => release.draft /\ release.target = pub.commit
         /\ pub.release # Missing => release.draft = pub.release.draft
    /\ pub.step = "Upload" =>
         \A a \in Assets \ pub.left : release.assets[a] = pub.assets[a]
    /\ pub.step = "Publish" => release.draft /\ release.assets = pub.assets

PublishedIsTagged == release # Missing /\ ~release.draft => tag # Missing

PublisherInv == Types /\ Checked /\ Uploaded /\ PublishedIsTagged /\ PublishedReleaseIsComplete

\* At first nothing is published.
LEMMA PublisherInit == Init => PublisherInv
<1> SUFFICES ASSUME Init PROVE PublisherInv
  OBVIOUS
<1>1. 1 \in Commits /\ [image |-> 1, sdk |-> 1] \in Builds
  BY BoundsAssumption DEF Commits, Builds
<1>2. Types
  <2>1. pub.left = {} /\ DOMAIN pub = PubFields /\ pub.late = FALSE /\ raced = FALSE
    BY DEF Init, NoRun, PubFields
  <2>2. tree \in [commit: Commits, dirty: BOOLEAN, versioned: BOOLEAN] /\ tree.commit = 1
    BY <1>1 DEF Init
  <2>3. build \in Builds /\ pushed \in Commits /\ pushed <= tree.commit
    BY <1>1, <2>2 DEF Init
  <2>4. tag = Missing /\ release = Missing
    BY DEF Init
  <2> QED
    BY <2>1, <2>2, <2>3, <2>4 DEF Types
<1>3. Checked /\ Uploaded
  BY DEF Init, NoRun, Checked, Uploaded
<1>4. PublishedIsTagged /\ PublishedReleaseIsComplete
  BY DEF Init, PublishedIsTagged, PublishedReleaseIsComplete
<1> QED
  BY <1>2, <1>3, <1>4 DEF PublisherInv

\* The maintainer works while nothing is published, or pushes.
LEMMA MaintainerStep ==
    ASSUME PublisherInv, CommitTree \/ (\E part \in {"image", "sdk"} : Rebuild(part)) \/ Push
    PROVE  PublisherInv'
<1> USE DEF PublisherInv
<1>1. UNCHANGED <<pub, remote>> /\ (~Publishing \/ UNCHANGED build)
  BY DEF CommitTree, Rebuild, Push
<1>2. /\ tree' \in [commit: Commits, dirty: BOOLEAN, versioned: BOOLEAN]
      /\ tree.commit <= tree'.commit
  <2>1. UNCHANGED tree \/ CommitTree
    BY DEF Rebuild, Push
  <2>2. tree.commit \in 1..MaxCommits /\ MaxCommits \in Nat
    BY BoundsAssumption DEF Types, Commits
  <2>3. CASE CommitTree
    <3>1. tree' = [tree EXCEPT !.commit = @ + 1, !.dirty = FALSE] /\ tree.commit < MaxCommits
      BY <2>3 DEF CommitTree
    <3>2. tree.commit + 1 \in 1..MaxCommits /\ tree.commit <= tree.commit + 1
      BY <2>2, <3>1
    <3> QED
      BY <3>1, <3>2 DEF Types, Commits
  <2> QED
    BY <2>1, <2>2, <2>3 DEF Types
<1>3. build' \in Builds
  <2>1. CASE UNCHANGED build
    BY <2>1 DEF Types
  <2>2. CASE \E part \in {"image", "sdk"} : Rebuild(part)
    <3>1. PICK part \in {"image", "sdk"} :
            build[part] < MaxBuilds /\ build' = [build EXCEPT ![part] = @ + 1]
      BY <2>2 DEF Rebuild
    <3>2. build[part] \in 1..MaxBuilds /\ MaxBuilds \in Nat
      BY BoundsAssumption DEF Types, Builds
    <3>3. build[part] + 1 \in 1..MaxBuilds
      BY <3>1, <3>2
    <3> QED
      BY <3>1, <3>3 DEF Types, Builds
  <2> QED
    BY <2>1, <2>2 DEF CommitTree, Push
<1>9. pushed' \in Commits /\ pushed <= pushed' /\ pushed' <= tree'.commit
  <2>1. pushed' = pushed \/ (pushed < tree.commit /\ pushed' = tree.commit /\ UNCHANGED tree)
    BY DEF CommitTree, Rebuild, Push
  <2>2. pushed \in 1..MaxCommits /\ tree.commit \in 1..MaxCommits /\ tree'.commit \in 1..MaxCommits
        /\ pushed <= tree.commit /\ MaxCommits \in Nat
    BY <1>2, BoundsAssumption DEF Types, Commits
  <2> QED
    BY <1>2, <2>1, <2>2 DEF Commits
<1>5. Types'
  <2>1. pushed \in Nat /\ pushed' \in Nat
    BY <1>9 DEF Types, Commits
  <2>2. tag' = Missing \/ tag' \in 1..pushed'
    BY <1>1, <1>9, <2>1 DEF Types, remote
  <2>3. release' = Missing \/ (release' \in Releases /\ release'.target <= pushed')
    BY <1>1, <1>9, <2>1 DEF Types, Releases, Commits, remote
  <2> QED
    BY <1>1, <1>2, <1>3, <1>9, <2>2, <2>3 DEF Types, remote
<1>6. Checked' /\ Uploaded'
  <2>1. pub.step # "Idle" => build' = build
    BY <1>1 DEF Publishing
  <2>2. pub.commit \in Commits /\ pub.commit <= pushed => pub.commit <= pushed'
    BY <1>9 DEF Types, Commits
  <2>3. Checked'
    BY <1>1, <2>1, <2>2 DEF Checked, remote
  <2>4. Uploaded'
    BY <1>1 DEF Uploaded, remote
  <2> QED
    BY <2>3, <2>4
<1>7. PublishedIsTagged' /\ PublishedReleaseIsComplete'
  BY <1>1 DEF PublishedIsTagged, PublishedReleaseIsComplete, remote
<1> QED
  BY <1>5, <1>6, <1>7

\* A tag is pushed by hand, which the publisher may notice too late.
LEMMA PushTagStep ==
    ASSUME PublisherInv, PushTag
    PROVE  PublisherInv'
<1> USE DEF PublisherInv
<1>1. /\ tag = Missing /\ tag' \in 1..pushed /\ UNCHANGED <<maintainer, release, mixed, raced>>
      /\ pub' = [pub EXCEPT !.late = pub.late \/ pub.step \in RefsAreRead]
  BY DEF PushTag
<1>2. /\ DOMAIN pub' = PubFields /\ \A field \in PubFields \ {"late"} : pub'[field] = pub[field]
      /\ pub'.late \in BOOLEAN /\ (pub.step \in RefsAreRead => pub'.late)
  BY <1>1 DEF Types, PubFields
<1>3. Types'
  BY <1>1, <1>2 DEF Types, PubFields, maintainer
<1>4. Checked'
  <2>1. /\ pub.step \in {"Commit", "Prepare", "Create", "Upload", "Publish"} /\ ~pub.prepareOnly =>
             pub'.late /\ pub.release = Missing
    <3>1. ASSUME pub.step \in {"Commit", "Prepare", "Create", "Upload", "Publish"}, ~pub.prepareOnly
          PROVE  pub.release = Missing
      <4>1. pub.commit # Missing
        BY <3>1, MissingAssumption DEF Checked, Commits
      <4> QED
        BY <1>1, <3>1, <4>1 DEF Checked
    <3> QED
      BY <1>2, <3>1 DEF RefsAreRead
  <2> QED
    BY <1>1, <1>2, <2>1 DEF Checked, PubFields, maintainer
<1>5. Uploaded'
  BY <1>1, <1>2 DEF Uploaded, PubFields
<1>6. tag' # Missing
  BY <1>1, MissingAssumption DEF Types, Commits
<1>7. PublishedIsTagged' /\ PublishedReleaseIsComplete'
  BY <1>1, <1>6 DEF PublishedIsTagged, PublishedReleaseIsComplete
<1> QED
  BY <1>3, <1>4, <1>5, <1>7

\* A step that changes no more than what the publisher remembers.
LEMMA PubStep ==
    ASSUME PublisherInv, UNCHANGED <<maintainer, remote>>,
           DOMAIN pub' = PubFields, pub'.left \subseteq Assets, pub'.late \in BOOLEAN,
           Checked', Uploaded'
    PROVE  PublisherInv'
BY DEF PublisherInv, Types, PublishedIsTagged, PublishedReleaseIsComplete, maintainer, remote

\* The publisher stops, for whatever reason.
LEMMA QuitStep ==
    ASSUME PublisherInv, UNCHANGED <<maintainer, remote>>, Quit
    PROVE  PublisherInv'
<1>1. pub' = NoRun
  BY DEF Quit
<1>2. DOMAIN pub' = PubFields /\ pub'.left \subseteq Assets /\ pub'.late \in BOOLEAN
      /\ Checked' /\ Uploaded'
  BY <1>1 DEF NoRun, PubFields, Checked, Uploaded
<1> QED
  BY <1>2, PubStep

\* The steps of the publisher that look and decide.
LEMMA CheckSteps ==
    ASSUME PublisherInv,
           \/ \E prepareOnly, replace \in BOOLEAN : StartPublishing(prepareOnly, replace)
           \/ CheckMetadata \/ ReadReleases \/ ReadRefs \/ CheckCommit \/ Prepare
           \/ PublisherStops
    PROVE  PublisherInv'
<1>0. UNCHANGED <<maintainer, remote>>
  BY DEF StartPublishing, CheckMetadata, ReadReleases, ReadRefs, CheckCommit, Prepare, PublisherStops
<1>1. CASE Quit
  BY <1>0, <1>1, QuitStep
<1>2. CASE \E prepareOnly, replace \in BOOLEAN : StartPublishing(prepareOnly, replace)
  <2>1. PICK prepareOnly \in BOOLEAN, replace \in BOOLEAN :
          pub' = [NoRun EXCEPT !.step = "Metadata", !.prepareOnly = prepareOnly, !.replace = replace]
    BY <1>2 DEF StartPublishing
  <2>2. pub'.step = "Metadata" /\ DOMAIN pub' = PubFields /\ pub'.left = {} /\ pub'.late = FALSE
    BY <2>1 DEF NoRun, PubFields
  <2> QED
    BY <1>0, <2>2, PubStep DEF Checked, Uploaded
<1>7. CASE CheckMetadata /\ ~Quit
  <2>1. pub' = [pub EXCEPT !.step = "Version"] /\ pub.step = "Metadata" /\ build \in Matching
    BY <1>7 DEF CheckMetadata, At, Goto
  <2>2. /\ pub'.step = "Version" /\ DOMAIN pub' = PubFields
        /\ \A field \in PubFields \ {"step"} : pub'[field] = pub[field]
    BY <2>1 DEF PublisherInv, Types, PubFields
  <2>3. Checked' /\ Uploaded'
    BY <1>0, <2>1, <2>2 DEF PublisherInv, Checked, Uploaded, maintainer
  <2> QED
    BY <1>0, <2>2, <2>3, PubStep DEF PublisherInv, Types, PubFields
<1>3. CASE ReadReleases
  <2>1. /\ pub'.step = "Refs" /\ pub'.release = release /\ pub.step = "Releases"
        /\ DOMAIN pub' = PubFields /\ pub'.left = pub.left /\ pub'.commit = pub.commit
        /\ pub'.prepareOnly = pub.prepareOnly /\ pub'.dirty = pub.dirty /\ pub'.late = pub.late
    BY <1>3 DEF ReadReleases, At, PublisherInv, Types, PubFields
  <2>2. Checked' /\ Uploaded'
    BY <1>0, <2>1 DEF PublisherInv, Checked, Uploaded, remote, maintainer
  <2> QED
    BY <1>0, <2>1, <2>2, PubStep DEF PublisherInv, Types
<1>4. CASE ReadRefs /\ ~Quit
  <2>1. /\ pub' = [pub EXCEPT !.step = "Commit"] /\ pub.step = "Refs" /\ IsAcceptable
    BY <1>4 DEF ReadRefs, At, Goto
  <2>2. /\ pub'.step = "Commit" /\ DOMAIN pub' = PubFields
        /\ \A field \in PubFields \ {"step"} : pub'[field] = pub[field]
    BY <2>1 DEF PublisherInv, Types, PubFields
  <2>3. Checked' /\ Uploaded'
    BY <1>0, <2>1, <2>2 DEF PublisherInv, Checked, Uploaded, remote, maintainer, PubFields, IsAcceptable
  <2> QED
    BY <1>0, <2>2, <2>3, PubStep DEF PublisherInv, Types, PubFields
<1>5. CASE CheckCommit /\ ~Quit
  <2>1. /\ pub' = [pub EXCEPT !.step = "Prepare"] /\ pub.step = "Commit" /\ pub.commit <= pushed
    BY <1>5 DEF CheckCommit, At, Goto
  <2>2. /\ pub'.step = "Prepare" /\ DOMAIN pub' = PubFields
        /\ \A field \in PubFields \ {"step"} : pub'[field] = pub[field]
    BY <2>1 DEF PublisherInv, Types, PubFields
  <2>3. Checked' /\ Uploaded'
    BY <1>0, <2>1, <2>2 DEF PublisherInv, Checked, Uploaded, remote, maintainer, PubFields
  <2> QED
    BY <1>0, <2>2, <2>3, PubStep DEF PublisherInv, Types, PubFields
<1>6. CASE Prepare /\ ~Quit
  <2>1. /\ pub.step = "Prepare" /\ ~pub.prepareOnly
        /\ pub' = [pub EXCEPT !.assets = Prepared(build, pub.commit, pub.dirty), !.left = Assets,
                              !.step = IF pub.release = Missing THEN "Create" ELSE "Upload"]
    BY <1>6 DEF Prepare, At
  <2>2. /\ pub'.step = (IF pub.release = Missing THEN "Create" ELSE "Upload")
        /\ DOMAIN pub' = PubFields /\ pub'.left = Assets
        /\ pub'.assets = Prepared(build, pub.commit, pub.dirty)
        /\ \A field \in PubFields \ {"step", "left", "assets"} : pub'[field] = pub[field]
    BY <2>1 DEF PublisherInv, Types, PubFields
  <2>3. Checked'
    BY <1>0, <2>1, <2>2 DEF PublisherInv, Checked, remote, maintainer, PubFields
  <2>4. pub.dirty = FALSE /\ pub.release = release /\ build \in Matching
    BY <2>1 DEF PublisherInv, Checked, Types
  <2>5. pub'.assets = Prepared(build, pub'.commit, FALSE) /\ pub'.release = release
    BY <2>2, <2>4 DEF PubFields
  <2>6. Uploaded'
    BY <1>0, <2>2, <2>4, <2>5 DEF PublisherInv, Types, Uploaded, remote
  <2>7. pub'.late \in BOOLEAN
    BY <2>2 DEF PublisherInv, Types, PubFields
  <2> QED
    BY <1>0, <2>2, <2>3, <2>6, <2>7, PubStep
<1> QED
  BY <1>1, <1>2, <1>3, <1>4, <1>5, <1>6, <1>7 DEF PublisherStops

\* The version file is written, or found to be right.
LEMMA VersionStep ==
    ASSUME PublisherInv, CheckVersion
    PROVE  PublisherInv'
<1> DEFINE dirty == tree.dirty \/ ~tree.versioned
<1>1. /\ pub.step = "Version" /\ tree' = [tree EXCEPT !.versioned = TRUE, !.dirty = dirty]
      /\ UNCHANGED <<build, pushed, remote>>
      /\ IF dirty /\ ~pub.prepareOnly THEN Quit
         ELSE pub' = [pub EXCEPT !.step = IF pub.prepareOnly THEN "Prepare" ELSE "Releases",
                                 !.commit = tree.commit, !.dirty = dirty]
  BY DEF CheckVersion, At
<1>2. dirty \in BOOLEAN
  BY DEF PublisherInv, Types
<1> HIDE DEF dirty
<1>3. tree' \in [commit: Commits, dirty: BOOLEAN, versioned: BOOLEAN] /\ tree'.commit = tree.commit
  BY <1>1, <1>2 DEF PublisherInv, Types
<1>4. DOMAIN pub' = PubFields /\ pub'.left \subseteq Assets /\ pub'.late \in BOOLEAN
      /\ Checked' /\ Uploaded'
  <2>1. CASE Quit
    BY <2>1 DEF Quit, NoRun, PubFields, Checked, Uploaded
  <2>2. CASE ~Quit
    <3>1. /\ pub' = [pub EXCEPT !.step = IF pub.prepareOnly THEN "Prepare" ELSE "Releases",
                                !.commit = tree.commit, !.dirty = dirty]
          /\ ~pub.prepareOnly => dirty = FALSE
      BY <1>1, <1>2, <2>2
    <3>2. /\ DOMAIN pub' = PubFields
          /\ pub'.step = (IF pub.prepareOnly THEN "Prepare" ELSE "Releases")
          /\ pub'.commit = tree.commit /\ pub'.dirty = dirty
          /\ pub'.prepareOnly = pub.prepareOnly /\ pub'.left = pub.left /\ pub'.late = pub.late
      BY <3>1 DEF PublisherInv, Types, PubFields
    <3>3. tree.commit \in Commits
      BY DEF PublisherInv, Types
    <3> QED
      BY <1>1, <3>1, <3>2, <3>3 DEF Checked, Uploaded, PublisherInv, Types
  <2> QED
    BY <2>1, <2>2
<1> QED
  BY <1>1, <1>3, <1>4 DEF PublisherInv, Types, PublishedIsTagged, PublishedReleaseIsComplete, remote

\* A draft is created on the commit that was checked.
LEMMA CreateStep ==
    ASSUME PublisherInv, Create
    PROVE  PublisherInv'
<1>1. /\ pub.step = "Create" /\ release = Missing
      /\ release' = [draft |-> TRUE, target |-> pub.commit, assets |-> NoAssets]
      /\ pub' = [pub EXCEPT !.step = "Upload"] /\ UNCHANGED <<maintainer, tag, raced>>
  BY DEF Create, At, Goto
<1>2. /\ pub'.step = "Upload" /\ DOMAIN pub' = PubFields
      /\ \A field \in PubFields \ {"step"} : pub'[field] = pub[field]
  BY <1>1 DEF PublisherInv, Types, PubFields
<1>3. pub.commit \in Commits /\ pub.commit <= pushed /\ pub.release = Missing /\ ~pub.prepareOnly
  BY <1>1 DEF PublisherInv, Checked, Uploaded
<1>4. release' \in Releases /\ release'.target <= pushed
  BY <1>1, <1>3, NoAssetsIsTyped DEF Releases
<1>5. Types'
  BY <1>1, <1>2, <1>4 DEF PublisherInv, Types, PubFields, maintainer
<1>6. Checked'
  BY <1>1, <1>2, <1>3 DEF PublisherInv, Checked, PubFields, maintainer
<1>7. Uploaded'
  <2>1. release'.draft /\ release'.target = pub'.commit /\ pub'.release = Missing
    BY <1>1, <1>2, <1>3 DEF PubFields
  <2>2. PICK b \in Matching : pub'.assets = Prepared(b, pub'.commit, FALSE)
    BY <1>1, <1>2 DEF PublisherInv, Uploaded, PubFields
  <2>3. \A a \in Assets \ pub'.left : FALSE
    BY <1>1, <1>2 DEF PublisherInv, Uploaded, PubFields
  <2> QED
    BY <1>2, <1>4, <2>1, <2>2, <2>3 DEF Uploaded
<1>8. PublishedIsTagged' /\ PublishedReleaseIsComplete'
  BY <1>1 DEF PublishedIsTagged, PublishedReleaseIsComplete
<1> QED
  BY <1>5, <1>6, <1>7, <1>8 DEF PublisherInv

\* One asset is uploaded, or deleted to be uploaded again.  What is published
\* may be a mixture from now on.
LEMMA UploadStep ==
    ASSUME PublisherInv, NEW a \in Assets, Upload(a)
    PROVE  PublisherInv'
<1>1. /\ pub.step = "Upload" /\ a \in pub.left /\ UNCHANGED <<maintainer, tag, raced>>
      /\ release \in Releases /\ mixed' = (mixed \/ ~release.draft)
  BY DEF PublisherInv, Uploaded, Upload, At
<1>2. pub.assets \in AssetMaps
  <2>1. PICK b \in Matching : pub.assets = Prepared(b, pub.commit, FALSE)
    BY <1>1 DEF PublisherInv, Uploaded
  <2>2. pub.commit \in Commits
    BY <1>1 DEF PublisherInv, Checked
  <2> QED
    BY <2>1, <2>2, PreparedIsTyped
<1>3. PICK v :
        /\ v = Missing \/ v = pub.assets[a]
        /\ release' = [release EXCEPT !.assets[a] = v]
        /\ \/ v = pub.assets[a] /\ pub' = [pub EXCEPT !.left = @ \ {a}]
           \/ UNCHANGED pub
  BY DEF Upload
<1>4. /\ release' \in Releases /\ release'.draft = release.draft /\ release'.target = release.target
      /\ release'.assets[a] = v
      /\ \A c \in Assets : c # a => release'.assets[c] = release.assets[c]
  <2>1. release' = [release EXCEPT !.assets = [release.assets EXCEPT ![a] = v]]
    BY <1>1, <1>3 DEF Releases
  <2>2. release.assets \in AssetMaps
    BY <1>1 DEF Releases
  <2>3. /\ [release.assets EXCEPT ![a] = v] \in AssetMaps /\ [release.assets EXCEPT ![a] = v][a] = v
        /\ \A c \in Assets : c # a => [release.assets EXCEPT ![a] = v][c] = release.assets[c]
    <3> DEFINE f == release.assets
               g == pub.assets
    <3>1. f \in AssetMaps /\ g \in AssetMaps /\ (v = Missing \/ v = g[a])
      BY <1>2, <1>3, <2>2
    <3> HIDE DEF f, g
    <3>2. /\ [f EXCEPT ![a] = v] \in AssetMaps /\ [f EXCEPT ![a] = v][a] = v
          /\ \A c \in Assets : c # a => [f EXCEPT ![a] = v][c] = f[c]
      BY <3>1, OneAsset
    <3> QED
      BY <3>2 DEF f
  <2> DEFINE new == [release.assets EXCEPT ![a] = v]
  <2> HIDE DEF new
  <2>4. /\ release' \in Releases /\ release'.draft = release.draft /\ release'.target = release.target
        /\ release'.assets = new
    <3>1. new \in AssetMaps /\ release' = [release EXCEPT !.assets = new]
      BY <2>1, <2>3 DEF new
    <3> QED
      BY <1>1, <3>1 DEF Releases
  <2> QED
    BY <2>3, <2>4 DEF new
<1>5. /\ DOMAIN pub' = PubFields /\ \A field \in PubFields \ {"left"} : pub'[field] = pub[field]
      /\ pub.left \ {a} \subseteq pub'.left /\ pub'.left \subseteq pub.left
      /\ a \in pub'.left \/ (v = pub.assets[a] /\ pub'.left = pub.left \ {a})
  BY <1>1, <1>3 DEF PublisherInv, Types, PubFields
<1>6. Types'
  BY <1>1, <1>4, <1>5, ReleasesAreThere DEF PublisherInv, Types, PubFields, maintainer
<1>7. Checked'
  BY <1>1, <1>5 DEF PublisherInv, Checked, PubFields, maintainer
<1>8. Uploaded'
  <2>1. pub'.step = "Upload" /\ pub'.assets = pub.assets /\ pub'.commit = pub.commit
        /\ pub'.release = pub.release
    BY <1>1, <1>5 DEF PubFields
  <2>2. \A c \in Assets \ pub'.left : release'.assets[c] = pub'.assets[c]
    <3> SUFFICES ASSUME NEW c \in Assets \ pub'.left PROVE release'.assets[c] = pub.assets[c]
      BY <2>1
    <3>1. CASE c = a
      BY <1>4, <1>5, <3>1
    <3>2. CASE c # a
      <4>1. c \in Assets \ pub.left
        BY <1>5, <3>2
      <4>2. release.assets[c] = pub.assets[c]
        BY <1>1, <4>1 DEF PublisherInv, Uploaded
      <4> QED
        BY <1>4, <3>2, <4>2
    <3> QED
      BY <3>1, <3>2
  <2> QED
    BY <1>1, <1>4, <2>1, <2>2 DEF PublisherInv, Uploaded
<1>9. PublishedIsTagged'
  <2>1. release # Missing
    BY <1>1, ReleasesAreThere
  <2> QED
    BY <1>1, <1>4, <2>1 DEF PublisherInv, PublishedIsTagged
<1>10. PublishedReleaseIsComplete'
  BY <1>1, <1>4 DEF PublishedReleaseIsComplete
<1> QED
  BY <1>6, <1>7, <1>8, <1>9, <1>10 DEF PublisherInv

\* When every asset is uploaded the release has what was staged.
LEMMA EndUploadStep ==
    ASSUME PublisherInv, EndUpload
    PROVE  PublisherInv'
<1>1. /\ pub.step = "Upload" /\ pub.left = {} /\ UNCHANGED <<maintainer, tag, release>>
      /\ release \in Releases
      /\ IF pub.release = Missing \/ pub.release.draft
         THEN pub' = [pub EXCEPT !.step = "Publish"] /\ UNCHANGED raced
         ELSE pub' = NoRun /\ raced' = pub.late
  BY DEF PublisherInv, Uploaded, EndUpload, At, Goto, Quit
<1>2. PICK b \in Matching : pub.assets = Prepared(b, pub.commit, FALSE)
  BY <1>1 DEF PublisherInv, Uploaded
<1>3. release.assets = pub.assets
  <2>1. \A a \in Assets : release.assets[a] = pub.assets[a]
    BY <1>1 DEF PublisherInv, Uploaded
  <2>2. release.assets \in [Assets -> Contents]
    BY <1>1 DEF Releases, AssetMaps
  <2>3. pub.assets \in [Assets -> Contents]
    <3>1. pub.commit \in Commits
      BY <1>1 DEF PublisherInv, Checked
    <3> QED
      BY <1>2, <3>1, PreparedIsTyped DEF AssetMaps
  <2> QED
    BY <2>1, <2>2, <2>3
<1>4. PublishedIsTagged' /\ PublishedReleaseIsComplete'
  <2>1. CASE release.draft
    BY <1>1, <2>1 DEF PublishedIsTagged, PublishedReleaseIsComplete
  <2>2. CASE ~release.draft
    <3>1. pub.release # Missing /\ tag = pub.commit
      BY <1>1, <2>2 DEF PublisherInv, Checked, Uploaded
    <3>2. tag # Missing
      BY <1>1, <3>1, MissingAssumption DEF PublisherInv, Checked, Commits
    <3> QED
      <4>1. pub.commit \in Commits
        BY <1>1 DEF PublisherInv, Checked
      <4> QED
        BY <1>1, <1>2, <1>3, <3>1, <3>2, <4>1 DEF PublishedIsTagged, PublishedReleaseIsComplete
  <2> QED
    BY <2>1, <2>2
<1>5. CASE pub' = NoRun
  BY <1>1, <1>4, <1>5 DEF PublisherInv, Types, Checked, Uploaded, NoRun, PubFields, maintainer
<1>6. CASE pub' # NoRun
  <2>1. pub' = [pub EXCEPT !.step = "Publish"] /\ (pub.release = Missing \/ pub.release.draft)
    BY <1>1, <1>6
  <2>2. /\ pub'.step = "Publish" /\ DOMAIN pub' = PubFields
        /\ \A field \in PubFields \ {"step"} : pub'[field] = pub[field]
    BY <2>1 DEF PublisherInv, Types, PubFields
  <2>3. Types'
    BY <1>1, <2>2 DEF PublisherInv, Types, PubFields, maintainer
  <2>4. Checked'
    BY <1>1, <2>2 DEF PublisherInv, Checked, PubFields, maintainer
  <2>5. Uploaded'
    BY <1>1, <1>2, <1>3, <2>1, <2>2 DEF PublisherInv, Uploaded, PubFields
  <2> QED
    BY <1>4, <2>3, <2>4, <2>5 DEF PublisherInv
<1> QED
  BY <1>5, <1>6

\* Publication shows what was uploaded, on the commit that was checked.
LEMMA PublishStep ==
    ASSUME PublisherInv, Publish
    PROVE  PublisherInv'
<1>1. /\ pub.step = "Publish" /\ release' = [release EXCEPT !.draft = FALSE]
      /\ tag' = (IF tag = Missing THEN release.target ELSE tag)
      /\ pub' = NoRun /\ UNCHANGED maintainer /\ raced' = pub.late
  BY DEF Publish, At, Quit
<1>2. /\ release \in Releases /\ release.draft /\ release.assets = pub.assets
      /\ release.target <= pushed
  BY <1>1, ReleasesAreThere DEF PublisherInv, Uploaded, Types
<1>3. /\ release' \in Releases /\ release'.assets = pub.assets
      /\ release'.target = release.target
  BY <1>1, <1>2 DEF Releases
<1>4. pub.commit \in Commits /\ (pub.late \/ tag' = pub.commit)
  <2>1. pub.commit \in Commits /\ (pub.late \/ tag \in {Missing, pub.commit})
        /\ (pub.release # Missing => tag = pub.commit)
        /\ (pub.release = Missing => release.target = pub.commit)
    BY <1>1 DEF PublisherInv, Checked, Uploaded
  <2>2. pub.commit # Missing
    BY <2>1, MissingAssumption DEF Commits
  <2> QED
    BY <1>1, <2>1, <2>2
<1>5. PICK b \in Matching : pub.assets = Prepared(b, pub.commit, FALSE)
  BY <1>1 DEF PublisherInv, Uploaded
<1>6. tag' # Missing /\ tag' \in 1..pushed
  <2>1. tag' = release.target \/ (tag' = tag /\ tag \in 1..pushed)
    BY <1>1 DEF PublisherInv, Types
  <2>2. pushed \in Nat /\ release.target \in Nat /\ release.target >= 1
    BY <1>2 DEF PublisherInv, Types, Releases, Commits
  <2>3. tag' \in 1..pushed
    BY <1>2, <2>1, <2>2
  <2> QED
    BY <2>2, <2>3, MissingAssumption
<1>7. Types'
  BY <1>1, <1>2, <1>3, <1>6 DEF PublisherInv, Types, NoRun, PubFields, maintainer
<1>8. Checked' /\ Uploaded'
  BY <1>1 DEF NoRun, Checked, Uploaded
<1>9. PublishedIsTagged' /\ PublishedReleaseIsComplete'
  BY <1>1, <1>3, <1>4, <1>5, <1>6 DEF PublishedIsTagged, PublishedReleaseIsComplete
<1> QED
  BY <1>7, <1>8, <1>9 DEF PublisherInv

\* Every step preserves the invariant of the publisher.
LEMMA PublisherNext == PublisherInv /\ [Next]_vars => PublisherInv'
<1> SUFFICES ASSUME PublisherInv, [Next]_vars PROVE PublisherInv'
  OBVIOUS
<1>1. CASE UNCHANGED <<maintainer, remote, pub>>
  <2>1. Types' /\ PublishedIsTagged' /\ PublishedReleaseIsComplete'
    BY <1>1 DEF maintainer, remote, PublisherInv, Types, PublishedIsTagged, PublishedReleaseIsComplete
  <2>2. Checked' /\ Uploaded'
    BY <1>1 DEF maintainer, remote, PublisherInv, Checked, Uploaded
  <2> QED
    BY <2>1, <2>2 DEF PublisherInv
<1>2. CASE StartInstalling \/ InstallerStep \/ MoveAside
  <2>1. UNCHANGED <<maintainer, remote, pub>>
    BY <1>2 DEF StartInstalling, InstallerStep, Download, BeginSdk, EndSdk, ReplacePlatform, CrossBuild,
       InstallerFails, InstallerInterrupted, MoveAside
  <2> QED
    BY <1>1, <2>1
<1>3. CASE CommitTree \/ (\E part \in {"image", "sdk"} : Rebuild(part)) \/ Push \/ PushTag
  BY <1>3, MaintainerStep, PushTagStep
<1>4. CASE \E prepareOnly, replace \in BOOLEAN : StartPublishing(prepareOnly, replace)
  BY <1>4, CheckSteps
<1>5. CASE PublisherStep
  BY <1>5, CheckSteps, VersionStep, CreateStep, UploadStep, EndUploadStep, PublishStep
     DEF PublisherStep
<1> QED
  BY <1>1, <1>2, <1>3, <1>4, <1>5 DEF Next, vars

\* A published release is complete, of builds that match and of one commit, the
\* one its tag names unless the tag was pushed while the release was published,
\* whatever stopped earlier runs of the publisher.
THEOREM PublishedIsComplete == Spec => []PublishedReleaseIsComplete
<1>1. PublisherInv => PublishedReleaseIsComplete
  BY DEF PublisherInv
<1> QED
  BY <1>1, PublisherInit, PublisherNext, PTL DEF Spec

\* Published assets change only by an upload that may replace them.
THEOREM AssetsChangeOnlyDeliberately == Spec => PublishedAssetsChangeOnlyDeliberately
<1>1. PublisherInv /\ [Next]_vars =>
        [release # Missing /\ ~release.draft /\ release' # release => pub.replace]_vars
  <2> SUFFICES ASSUME PublisherInv, Next, release # Missing, ~release.draft, release' # release
               PROVE  pub.replace
    BY DEF vars
  <2>1. Create \/ (\E a \in Assets : Upload(a)) \/ Publish
    BY DEF Next, CommitTree, Rebuild, Push, PushTag, remote, StartPublishing, PublisherStep,
       CheckMetadata, CheckVersion, ReadReleases, ReadRefs, CheckCommit, Prepare, EndUpload, PublisherStops,
       StartInstalling, InstallerStep, Download, BeginSdk, EndSdk, ReplacePlatform, CrossBuild,
       InstallerFails, InstallerInterrupted, MoveAside
  <2>2. ~Create
    BY DEF Create
  <2>3. ~Publish
    BY DEF Publish, At, PublisherInv, Uploaded
  <2>4. CASE \E a \in Assets : Upload(a)
    BY <2>4 DEF Upload, At, PublisherInv, Checked, Uploaded
  <2> QED
    BY <2>1, <2>2, <2>3, <2>4
<1> QED
  BY <1>1, PublisherInit, PublisherNext, PTL DEF Spec, PublishedAssetsChangeOnlyDeliberately

-----------------------------------------------------------------------------
(* The invariant of the installer *)

Kept(got, f, k) == got[<<f, k>>]

\* A checksum was downloaded and agreed with its file.
Agrees(got, f) == Kept(got, f, "checksum") # Missing => Kept(got, f, "checksum") = Kept(got, f, "content")

\* What was downloaded so far: each file was compared with its checksum, and
\* after the manifest, with what the manifest names.
GotIsSound(got) ==
    /\ got \in AssetMaps
    /\ Agrees(got, "manifest") /\ Agrees(got, "bundle") /\ Agrees(got, "sdk")
    /\ Kept(got, "manifest", "checksum") # Missing => Kept(got, "manifest", "content").dirty = FALSE
    /\ Kept(got, "bundle", "checksum") # Missing =>
         /\ Kept(got, "manifest", "checksum") # Missing
         /\ Kept(got, "bundle", "content") = Kept(got, "manifest", "content").bundle
    /\ Kept(got, "sdk", "checksum") # Missing =>
         /\ Kept(got, "bundle", "checksum") # Missing
         /\ Kept(got, "sdk", "content") = Kept(got, "manifest", "content").sdk

\* Nothing has been installed, or just the SDK that belongs to what was downloaded.
InstallIsSound ==
    /\ DOMAIN inst = {"step", "got"}
    /\ inst.step \in {"Idle", "Failed", "Interrupted", "Download", "Sdk", "Relocate", "Replace", "Build"}
    /\ inst.step \in {"Download", "Sdk", "Relocate", "Replace"} => GotIsSound(inst.got) /\ platform = Missing
    /\ inst.step \in {"Sdk", "Relocate", "Replace"} => Kept(inst.got, "sdk", "checksum") # Missing
    /\ inst.step \in {"Download", "Sdk"} => sdk = Missing
    /\ inst.step = "Relocate" => sdk = [content |-> Kept(inst.got, "sdk", "content"), complete |-> FALSE]
    /\ inst.step = "Replace" => sdk = [content |-> Kept(inst.got, "sdk", "content"), complete |-> TRUE]
    /\ inst.step = "Build" => platform # Missing

InstallerInv ==
    InstallIsSound /\ InstalledPlatformIsOneRelease /\ FailedInstallIsAllOrNothing

\* At first nothing is installed.
LEMMA InstallerInit == Init => InstallerInv
BY DEF Init, InstallerInv, InstallIsSound, InstalledPlatformIsOneRelease, FailedInstallIsAllOrNothing,
   NoInstall

\* Once all three files agree they are of one commit and of builds that match.
LEMMA GotIsOneRelease ==
    ASSUME NEW got, GotIsSound(got), Kept(got, "sdk", "checksum") # Missing
    PROVE  \E b \in Matching, c \in Commits :
               /\ Kept(got, "manifest", "content") = Manifest(b, c, FALSE)
               /\ Kept(got, "bundle", "content") = Bundle(b, c)
               /\ Kept(got, "sdk", "content") = Sdk(b)
<1> DEFINE manifest == Kept(got, "manifest", "content")
<1>1. Kept(got, "manifest", "checksum") # Missing /\ manifest \in Matched \cup {Missing} /\ manifest # Missing
  BY DEF GotIsSound, AssetMaps, Kept, Agrees
<1>2. PICK b \in Matching, c \in Commits, d \in BOOLEAN : manifest = Manifest(b, c, d)
  BY <1>1 DEF Matched
<1>3. manifest.dirty = d /\ manifest.bundle = Bundle(b, c) /\ manifest.sdk = Sdk(b)
  BY <1>2 DEF Manifest
<1>4. d = FALSE
  BY <1>1, <1>3 DEF GotIsSound
<1>5. Kept(got, "bundle", "content") = Bundle(b, c) /\ Kept(got, "sdk", "content") = Sdk(b)
  BY <1>3 DEF GotIsSound
<1> QED
  BY <1>2, <1>4, <1>5

\* One asset of a release is downloaded.
LEMMA OneDownload ==
    ASSUME NEW f \in AssetMaps, NEW g \in AssetMaps, NEW a \in Assets
    PROVE  /\ [f EXCEPT ![a] = g[a]] \in AssetMaps
           /\ [f EXCEPT ![a] = g[a]][a] = g[a]
           /\ \A c \in Assets : c # a => [f EXCEPT ![a] = g[a]][c] = f[c]
BY OneAsset

\* Files are downloaded in order.
LEMMA InOrder ==
    ASSUME NEW got, NEW a, IsNext(a, got)
    PROVE  /\ got[a] = Missing
           /\ a[1] = "bundle" => Kept(got, "manifest", "checksum") # Missing
           /\ a[1] = "sdk" => Kept(got, "bundle", "checksum") # Missing
<1>1. PICK i \in 1..3 : a[1] = Order[i] /\ \A j \in 1..(i - 1) : got[<<Order[j], "checksum">>] # Missing
  BY DEF IsNext, Order
<1>2. Order[1] = "manifest" /\ Order[2] = "bundle" /\ Order[3] = "sdk"
  BY DEF Order
<1>3. i = 1 \/ i = 2 \/ i = 3
  OBVIOUS
<1> QED
  BY <1>1, <1>2, <1>3 DEF IsNext, Kept

\* A download that is not refused leaves what was downloaded sound.
LEMMA DownloadKeepsSound ==
    ASSUME PublisherInv, NEW got, GotIsSound(got), NEW a \in Assets, IsNext(a, got),
           release # Missing, release.assets[a] # Missing,
           NEW new, new = [got EXCEPT ![a] = release.assets[a]], Verifies(a, new)
    PROVE  GotIsSound(new)
<1>1. release.assets \in AssetMaps
  BY DEF PublisherInv, Types, Releases
<1>2. /\ new \in AssetMaps /\ new[a] # Missing
      /\ \A c \in Assets : c # a => new[c] = got[c]
  <2> DEFINE g == release.assets
  <2>1. got \in AssetMaps
    BY DEF GotIsSound
  <2>2. g \in AssetMaps /\ new = [got EXCEPT ![a] = g[a]] /\ g[a] # Missing
    BY <1>1
  <2> HIDE DEF g
  <2>3. [got EXCEPT ![a] = g[a]] \in AssetMaps
    BY <2>1, <2>2, OneDownload
  <2>4. [got EXCEPT ![a] = g[a]][a] = g[a]
    BY <2>1, <2>2, OneDownload
  <2>5. \A c \in Assets : c # a => [got EXCEPT ![a] = g[a]][c] = got[c]
    BY <2>1, <2>2, OneDownload
  <2> QED
    BY <2>2, <2>3, <2>4, <2>5
<1>3. /\ got[a] = Missing
      /\ a[1] = "bundle" => Kept(got, "manifest", "checksum") # Missing
      /\ a[1] = "sdk" => Kept(got, "bundle", "checksum") # Missing
  BY InOrder
<1>4. a = <<a[1], a[2]>> /\ a[1] \in {"manifest", "bundle", "sdk"} /\ a[2] \in {"content", "checksum"}
  BY AssetPairs DEF Files
<1>5. \A f \in Files, k \in {"content", "checksum"} :
        /\ <<f, k>> # a => Kept(new, f, k) = Kept(got, f, k)
        /\ <<f, k>> = a => Kept(new, f, k) # Missing /\ Kept(got, f, k) = Missing
  BY <1>2, <1>3, AssetPairs DEF Kept
<1>6. \A f \in Files, k \in {"content", "checksum"} : <<f, k>> = a <=> f = a[1] /\ k = a[2]
  BY <1>4, AssetPairs
<1>7. /\ Agrees(got, "manifest") /\ Agrees(got, "bundle") /\ Agrees(got, "sdk")
      /\ Kept(got, "manifest", "checksum") # Missing => Kept(got, "manifest", "content").dirty = FALSE
      /\ Kept(got, "bundle", "checksum") # Missing =>
           /\ Kept(got, "manifest", "checksum") # Missing
           /\ Kept(got, "bundle", "content") = Kept(got, "manifest", "content").bundle
      /\ Kept(got, "sdk", "checksum") # Missing =>
           /\ Kept(got, "bundle", "checksum") # Missing
           /\ Kept(got, "sdk", "content") = Kept(got, "manifest", "content").sdk
  BY DEF GotIsSound
<1> HIDE DEF Kept
\* A file: its own checksum, and those of the files after it, are not there yet.
<1>8. CASE a[2] = "content"
  <2>1. Kept(got, a[1], "content") = Missing
    BY <1>4, <1>5, <1>8 DEF Files
  <2>2. \A f \in Files : Kept(new, f, "checksum") = Kept(got, f, "checksum")
    BY <1>5, <1>6, <1>8
  <2>3. \A f \in Files : f # a[1] => Kept(new, f, "content") = Kept(got, f, "content")
    BY <1>5, <1>6
  <2>4. Kept(got, a[1], "checksum") = Missing
    BY <1>4, <1>7, <2>1 DEF Agrees
  <2>5. CASE a[1] = "manifest"
    BY <1>2, <1>7, <2>2, <2>3, <2>4, <2>5 DEF GotIsSound, Agrees, Files
  <2>6. CASE a[1] = "bundle"
    BY <1>2, <1>7, <2>2, <2>3, <2>4, <2>6 DEF GotIsSound, Agrees, Files
  <2>7. CASE a[1] = "sdk"
    BY <1>2, <1>7, <2>2, <2>3, <2>4, <2>7 DEF GotIsSound, Agrees, Files
  <2> QED
    BY <1>4, <2>5, <2>6, <2>7
\* A checksum: Verifies compares it.
<1>9. CASE a[2] = "checksum"
  <2>1. Kept(got, a[1], "checksum") = Missing /\ Kept(new, a[1], "checksum") # Missing
    BY <1>4, <1>5, <1>9 DEF Files
  <2>2. \A f \in Files : Kept(new, f, "content") = Kept(got, f, "content")
    BY <1>5, <1>6, <1>9
  <2>3. \A f \in Files : f # a[1] => Kept(new, f, "checksum") = Kept(got, f, "checksum")
    BY <1>5, <1>6
  <2>4. /\ Kept(new, a[1], "checksum") = Kept(new, a[1], "content")
        /\ ~Kept(new, "manifest", "content").dirty
        /\ a[1] = "bundle" => Kept(new, "bundle", "checksum") = Kept(new, "manifest", "content").bundle
        /\ a[1] = "sdk" => Kept(new, "sdk", "checksum") = Kept(new, "manifest", "content").sdk
    <3>1. new[a] = Kept(new, a[1], "checksum")
      BY <1>4, <1>9 DEF Kept
    <3> QED
      BY <1>9, <3>1 DEF Verifies, Kept
  <2>5. CASE a[1] = "manifest"
    <3>1. Kept(new, "manifest", "content") \in Matched
      BY <1>2, <2>1, <2>4, <2>5 DEF AssetMaps, Kept
    <3>2. Kept(new, "manifest", "content").dirty = FALSE
      BY <2>4, <3>1 DEF Matched, Manifest
    <3> QED
      BY <1>2, <1>7, <2>1, <2>2, <2>3, <2>4, <2>5, <3>2 DEF GotIsSound, Agrees, Files
  <2>6. CASE a[1] = "bundle"
    BY <1>2, <1>3, <1>7, <2>1, <2>2, <2>3, <2>4, <2>6 DEF GotIsSound, Agrees, Files
  <2>7. CASE a[1] = "sdk"
    BY <1>2, <1>3, <1>7, <2>1, <2>2, <2>3, <2>4, <2>7 DEF GotIsSound, Agrees, Files
  <2> QED
    BY <1>4, <2>5, <2>6, <2>7
<1> QED
  BY <1>4, <1>8, <1>9

\* Every step of the installer preserves its invariant.
LEMMA InstallerSteps ==
    ASSUME PublisherInv, InstallerInv, StartInstalling \/ InstallerStep \/ MoveAside
    PROVE  InstallerInv'
<1> USE DEF InstallerInv
<1>1. CASE StartInstalling
  <2>1. GotIsSound(NoAssets)
    <3>1. \A f \in Files, k \in {"content", "checksum"} : Kept(NoAssets, f, k) = Missing
      BY AssetPairs DEF Kept, NoAssets
    <3> QED
      BY <3>1, NoAssetsIsTyped DEF GotIsSound, Agrees, Files
  <2>2. /\ inst' = [step |-> "Download", got |-> NoAssets] /\ sdk' = Missing /\ platform' = Missing
    BY <1>1 DEF StartInstalling, NoInstall
  <2> QED
    BY <2>1, <2>2 DEF InstallIsSound, InstalledPlatformIsOneRelease, FailedInstallIsAllOrNothing
<1>2. CASE \E a \in Assets : Download(a)
  <2>1. PICK a \in Assets : Download(a)
    BY <1>2
  <2>2. /\ inst.step = "Download" /\ GotIsSound(inst.got) /\ sdk = Missing /\ platform = Missing
        /\ UNCHANGED <<sdk, platform>>
    BY <2>1 DEF Download, InstallIsSound
  <2>3. CASE Fail
    BY <2>2, <2>3 DEF Fail, NoInstall, InstallIsSound, InstalledPlatformIsOneRelease,
       FailedInstallIsAllOrNothing
  <2>4. CASE ~Fail
    <3> DEFINE new == [inst.got EXCEPT ![a] = release.assets[a]]
    <3>1. /\ Verifies(a, new) /\ IsNext(a, inst.got) /\ release # Missing /\ release.assets[a] # Missing
          /\ inst' = [step |-> IF a = <<"sdk", "checksum">> THEN "Sdk" ELSE "Download", got |-> new]
      BY <2>1, <2>4 DEF Download
    <3>2. GotIsSound(new)
      BY <2>2, <3>1, DownloadKeepsSound
    <3>3. a = <<"sdk", "checksum">> => Kept(new, "sdk", "checksum") # Missing
      BY <2>2, <3>1 DEF Kept, GotIsSound, AssetMaps
    <3> HIDE DEF new
    <3> QED
      BY <2>2, <3>1, <3>2, <3>3 DEF InstallIsSound, InstalledPlatformIsOneRelease,
         FailedInstallIsAllOrNothing
  <2> QED
    BY <2>3, <2>4
<1>3. CASE BeginSdk
  <2>1. /\ inst.step = "Sdk" /\ inst'.step = "Relocate" /\ inst'.got = inst.got /\ platform' = platform
        /\ DOMAIN inst' = {"step", "got"}
        /\ sdk' = [content |-> Kept(inst.got, "sdk", "content"), complete |-> FALSE]
    BY <1>3 DEF BeginSdk, InstallIsSound, Kept
  <2> QED
    BY <2>1 DEF InstallIsSound, InstalledPlatformIsOneRelease, FailedInstallIsAllOrNothing
<1>4. CASE EndSdk
  <2>1. /\ inst.step = "Relocate" /\ inst'.step = "Replace" /\ inst'.got = inst.got
        /\ DOMAIN inst' = {"step", "got"} /\ platform' = platform
        /\ sdk = [content |-> Kept(inst.got, "sdk", "content"), complete |-> FALSE]
        /\ sdk' = [sdk EXCEPT !.complete = TRUE]
    BY <1>4 DEF EndSdk, InstallIsSound
  <2>2. sdk' = [content |-> Kept(inst.got, "sdk", "content"), complete |-> TRUE]
    BY <2>1
  <2> QED
    BY <2>1, <2>2 DEF InstallIsSound, InstalledPlatformIsOneRelease, FailedInstallIsAllOrNothing
<1>5. CASE ReplacePlatform
  <2>1. PICK b \in Matching, c \in Commits :
          /\ Kept(inst.got, "manifest", "content") = Manifest(b, c, FALSE)
          /\ Kept(inst.got, "bundle", "content") = Bundle(b, c)
          /\ Kept(inst.got, "sdk", "content") = Sdk(b)
    BY <1>5, GotIsOneRelease DEF ReplacePlatform, InstallIsSound
  <2>2. /\ inst' = [step |-> "Build", got |-> NoAssets]
        /\ sdk' = [content |-> Sdk(b), complete |-> TRUE]
        /\ platform' = [bundle |-> Bundle(b, c), manifest |-> Manifest(b, c, FALSE)]
    BY <1>5, <2>1 DEF ReplacePlatform, NoInstall, InstallIsSound, Kept
  <2>3. sdk' # Missing /\ platform' # Missing
    <3>1. Sdk(b) \in Sdks /\ Bundle(b, c) \in Bundles /\ Manifest(b, c, FALSE) \in Manifests
      BY ContentsAreTyped
    <3>2. sdk' \in [content: Sdks, complete: BOOLEAN]
      BY <2>2, <3>1
    <3>3. platform' \in [bundle: Bundles, manifest: Manifests]
      BY <2>2, <3>1
    <3> QED
      BY <3>2, <3>3, MissingAssumption
  <2>4. Manifest(b, c, FALSE).commit = c
    BY DEF Manifest
  <2> QED
    BY <2>2, <2>3, <2>4 DEF InstallIsSound, InstalledPlatformIsOneRelease, FailedInstallIsAllOrNothing
<1>6. CASE CrossBuild \/ InstallerInterrupted
  <2>1. /\ inst'.step \in {"Idle", "Interrupted"} /\ DOMAIN inst' = {"step", "got"}
        /\ UNCHANGED <<sdk, platform>>
    BY <1>6 DEF CrossBuild, InstallerInterrupted, NoInstall
  <2> QED
    BY <2>1 DEF InstallIsSound, InstalledPlatformIsOneRelease, FailedInstallIsAllOrNothing
<1>7. CASE InstallerFails
  <2>1. /\ inst' = [step |-> "Failed", got |-> NoAssets] /\ platform' = platform
        /\ sdk' = IF inst.step \in {"Sdk", "Relocate", "Replace"} THEN Missing ELSE sdk
        /\ inst.step \in {"Download", "Sdk", "Relocate", "Replace", "Build"}
    BY <1>7 DEF InstallerFails, Fail, NoInstall, Installing, InstallIsSound
  <2>2. CASE inst.step = "Build"
    BY <2>1, <2>2 DEF InstallIsSound, InstalledPlatformIsOneRelease, FailedInstallIsAllOrNothing
  <2>3. CASE inst.step # "Build"
    <3>1. sdk' = Missing /\ platform' = Missing
      BY <2>1, <2>3 DEF InstallIsSound
    <3> QED
      BY <2>1, <3>1 DEF InstallIsSound, InstalledPlatformIsOneRelease, FailedInstallIsAllOrNothing
  <2> QED
    BY <2>2, <2>3
<1>8. CASE MoveAside
  <2>1. /\ inst' = inst /\ sdk' = Missing /\ platform' = Missing
        /\ inst.step \in {"Idle", "Failed", "Interrupted"}
    BY <1>8 DEF MoveAside, Installing
  <2> QED
    BY <2>1 DEF InstallIsSound, InstalledPlatformIsOneRelease, FailedInstallIsAllOrNothing
<1> QED
  BY <1>1, <1>2, <1>3, <1>4, <1>5, <1>6, <1>7, <1>8 DEF InstallerStep

\* What the maintainer and the publisher do reaches the installer through
\* downloads alone.
LEMMA InstallerNext == PublisherInv /\ InstallerInv /\ [Next]_vars => InstallerInv'
<1> SUFFICES ASSUME PublisherInv, InstallerInv, [Next]_vars PROVE InstallerInv'
  OBVIOUS
<1>1. CASE StartInstalling \/ InstallerStep \/ MoveAside
  BY <1>1, InstallerSteps
<1>2. CASE ~(StartInstalling \/ InstallerStep \/ MoveAside)
  <2>1. UNCHANGED developer
    BY <1>2 DEF Next, vars, CommitTree, Rebuild, Push, PushTag, StartPublishing, PublisherStep,
       CheckMetadata, CheckVersion, ReadReleases, ReadRefs, CheckCommit, Prepare, Create, Upload, EndUpload,
       Publish, PublisherStops
  <2> QED
    BY <2>1 DEF developer, InstallerInv, InstallIsSound, InstalledPlatformIsOneRelease,
       FailedInstallIsAllOrNothing
<1> QED
  BY <1>1, <1>2

\* The installer's invariant holds of every behaviour.
THEOREM InstallerInvHolds == Spec => []InstallerInv
BY PublisherInit, PublisherNext, InstallerInit, InstallerNext, PTL DEF Spec

\* An installed platform and its SDK are complete and of one build and one
\* commit, even if assets were replaced between the downloads.
THEOREM InstalledIsOneRelease == Spec => []InstalledPlatformIsOneRelease
<1>1. InstallerInv => InstalledPlatformIsOneRelease
  BY DEF InstallerInv
<1> QED
  BY <1>1, InstallerInvHolds, PTL

\* An installation that fails leaves both the platform and its SDK, or neither.
THEOREM FailureIsAllOrNothing == Spec => []FailedInstallIsAllOrNothing
<1>1. InstallerInv => FailedInstallIsAllOrNothing
  BY DEF InstallerInv
<1> QED
  BY <1>1, InstallerInvHolds, PTL

\* Every variable has its type, and GitHub never has a tag or a release of a
\* commit that was not pushed.
THEOREM TypeCorrect == Spec => []TypeOK
<1>1. PublisherInv /\ InstallerInv => TypeOK
  BY DEF PublisherInv, Types, InstallerInv, InstallIsSound, TypeOK, Releases, Commits
<1> QED
  BY <1>1, InstallerInvHolds, PublisherInit, PublisherNext, PTL DEF Spec
=============================================================================
