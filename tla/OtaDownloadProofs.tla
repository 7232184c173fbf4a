------------------------- MODULE OtaDownloadProofs -------------------------
(***************************************************************************)
(* Proofs about OtaDownload and what it is composed of: the publication of *)
(* a release (Release), the update session (OtaSession) and the check that *)
(* runs against them.  They hold for all sizes, versions, images and       *)
(* bounds, whatever the reads return and whatever fails.                   *)
(***************************************************************************)
EXTENDS MCOtaDownload, HttpHeadProofs

-----------------------------------------------------------------------------
(* The release                                                             *)

Files == [exists : BOOLEAN, data : Streams, readable : BOOLEAN]

\* Every digest among the units is the digest of a build of version v.
Sourced(units, v) ==
  \A i \in DOMAIN units :
    units[i].kind = "digest" => units[i].n \in DOMAIN built /\ built[units[i].n] = v

ReleaseTyped ==
  /\ named \in Versions /\ broken \subseteq Versions
  /\ bins \in [Versions -> Files] /\ shas \in [Versions -> Files]
  /\ built \in Seq(Versions) /\ Len(built) \in 1..Len(ImageSizes)
  /\ deploy \in [step : Steps, version : Versions, build : DOMAIN built, stale : Versions]

\* What a run of the script has done when it is at a step.
ScriptAt ==
  /\ deploy.step # "idle" => built[deploy.build] = deploy.version
  /\ deploy.step \in Steps \ {"idle", "bin"} => bins[deploy.version].exists
  /\ deploy.step \in {"sha", "sha_data", "chmod"} =>
       bins[deploy.version].data = Image(deploy.build)
  /\ deploy.step \in {"sha_data", "chmod"} => shas[deploy.version].exists
  /\ deploy.step = "chmod" => shas[deploy.version].data = ShaText(deploy.build)
  /\ deploy.step = "version" => deploy.version \notin broken
  /\ deploy.step \in {"prune", "prune_sha", "trigger"} => named = deploy.version
  /\ deploy.step = "prune_sha" => ~bins[deploy.stale].exists

\* What the files hold: parts of images and the digests of builds of their version.
Contents ==
  \A v \in Versions :
    /\ Len(bins[v].data) <= SlotSize
    /\ \A i \in DOMAIN bins[v].data : bins[v].data[i].kind = "image"
    /\ Sourced(shas[v].data, v)

\* Pairs are whole unless they are being uploaded or an upload failed.
Pairs ==
  /\ bins[named].exists
  /\ \A v \in Versions :
       bins[v].exists /\ v \notin broken /\ ~Uploading(v) => PairWhole(v)

ReleaseInv == ReleaseTyped /\ ScriptAt /\ Contents /\ Pairs

LEMMA SizeFacts ==
  /\ Builds = 1..Len(ImageSizes) /\ Len(ImageSizes) \in Nat \ {0}
  /\ \A b \in Builds : ImageSizes[b] \in Nat \ {0} /\ ImageSizes[b] <= SlotSize
BY ReleaseAssumption, DownloadAssumption, LenProperties, EmptySeq, ElementOfSeq DEF Builds

LEMMA ImageFacts ==
  ASSUME NEW b \in Builds
  PROVE  /\ Image(b) \in Streams /\ Len(Image(b)) = ImageSizes[b]
         /\ \A i \in 1..ImageSizes[b] : Image(b)[i] = ImageUnit(b, i)
<1>1. b \in Nat /\ ImageSizes[b] \in Nat
  BY SizeFacts
<1>2. \A i \in 1..ImageSizes[b] : ImageUnit(b, i) \in UnitSet
  BY <1>1 DEF ImageUnit, UnitSet, Kinds
<1>3. Image(b) \in [1..ImageSizes[b] -> UnitSet]
  BY <1>2 DEF Image
<1>4. Image(b) \in Streams
  BY <1>1, <1>3, SeqDef DEF Streams
<1>. QED
  BY <1>1, <1>3, <1>4, LenProperties DEF Image, Streams

LEMMA ShaFacts ==
  ASSUME NEW b \in Builds
  PROVE  /\ ShaText(b) \in Streams /\ Len(ShaText(b)) = 2
         /\ ShaText(b)[1] = Unit("digest", b) /\ ShaText(b)[2] = LF
<1>1. Unit("digest", b) \in UnitSet
  BY SizeFacts DEF Unit, UnitSet, Kinds
<1>. QED
  BY <1>1, LineEndUnits DEF ShaText, Streams

\* A build that is made leaves what the history said before.
BuiltKept ==
  /\ built' \in Seq(Versions) /\ Len(built') \in 1..Len(ImageSizes)
  /\ \A b \in DOMAIN built : b \in DOMAIN built' /\ built'[b] = built[b]

LEMMA BuiltSame ==
  ASSUME ReleaseTyped, UNCHANGED built
  PROVE  BuiltKept
  BY DEF BuiltKept, ReleaseTyped

LEMMA SourcedKept ==
  ASSUME BuiltKept, NEW units, NEW v, Sourced(units, v)
  PROVE  Sourced(units, v)'
  BY DEF BuiltKept, Sourced

LEMMA PairKept ==
  ASSUME BuiltKept, NEW v, PairWhole(v), bins'[v] = bins[v], shas'[v] = shas[v]
  PROVE  PairWhole(v)'
  BY DEF BuiltKept, PairWhole

LEMMA StepNames ==
  Steps = {"idle", "bin", "bin_data", "sha", "sha_data", "chmod",
           "version", "prune", "prune_sha", "trigger"}
  BY DEF Steps

LEMMA ReleaseStart == Init => ReleaseInv
<1>. SUFFICES ASSUME Init PROVE ReleaseInv
  OBVIOUS
<1>. USE DEF Init, ReleaseInit
<1>1. 1 \in Builds /\ Factory \in Versions /\ DOMAIN built = {1} /\ built[1] = Factory
      /\ built \in Seq(Versions) /\ Len(built) \in 1..Len(ImageSizes)
  BY SizeFacts, ReleaseAssumption
<1>2. /\ Image(1) \in Streams /\ Len(Image(1)) = ImageSizes[1] /\ ImageSizes[1] <= SlotSize
      /\ \A i \in DOMAIN Image(1) : Image(1)[i].kind = "image"
  BY <1>1, SizeFacts, ImageFacts DEF Image, ImageUnit
<1>3. <<>> \in Streams /\ Len(<<>>) = 0
  BY EmptySeq DEF Streams
<1>4. ReleaseTyped
  BY <1>1, <1>2, <1>3, ShaFacts, StepNames DEF ReleaseTyped, Files, File, NoFile, Idle
<1>5. ScriptAt
  BY DEF ScriptAt, Idle
<1>6. Contents
  <2>1. Sourced(ShaText(1), Factory)
    BY <1>1 DEF Sourced, ShaText, Unit, LF
  <2>2. \A v : Sourced(<<>>, v)
    BY DEF Sourced
  <2>3. 0 <= SlotSize
    BY SessionAssumption
  <2>. QED
    BY <1>2, <1>3, <2>1, <2>2, <2>3 DEF Contents, File, NoFile
<1>7. Pairs
  BY <1>1 DEF Pairs, PairWhole, File, NoFile
<1>. QED
  BY <1>4, <1>5, <1>6, <1>7 DEF ReleaseInv

LEMMA StartDeployStep ==
  ASSUME ReleaseInv, NEW v \in Versions, StartDeploy(v)
  PROVE  ReleaseInv' /\ BuiltKept
<1>. USE DEF StartDeploy, At
<1>1. /\ Len(built) \in Nat /\ Len(built) + 1 \in 1..Len(ImageSizes) /\ built \in Seq(Versions)
  BY SizeFacts DEF ReleaseInv, ReleaseTyped
<1>2. /\ built' \in Seq(Versions) /\ Len(built') = Len(built) + 1
      /\ built'[Len(built) + 1] = v
      /\ \A b \in 1..Len(built) : built'[b] = built[b]
  BY <1>1, AppendProperties
<1>3. BuiltKept
  BY <1>1, <1>2 DEF BuiltKept
<1>4. /\ deploy' \in [step : Steps, version : Versions, build : DOMAIN built', stale : Versions]
      /\ deploy'.step = "bin" /\ deploy'.version = v /\ deploy'.build = Len(built) + 1
  <2>1. Len(built) + 1 \in DOMAIN built' /\ Factory \in Versions /\ "bin" \in Steps
    BY <1>1, <1>2, StepNames, ReleaseAssumption
  <2>2. deploy' = [step |-> "bin", version |-> v, build |-> Len(built) + 1, stale |-> Factory]
    BY DEF Idle
  <2>. QED
    BY <2>1, <2>2
<1>5. ReleaseTyped'
  BY <1>1, <1>2, <1>4 DEF ReleaseInv, ReleaseTyped
<1>6. ScriptAt'
  BY <1>2, <1>4 DEF ScriptAt
<1>7. Contents'
  BY <1>3, SourcedKept DEF ReleaseInv, Contents
<1>8. Pairs'
  <2>1. \A w \in Versions : ~Uploading(w)
    BY DEF Uploading
  <2>. QED
    BY <1>3, <2>1, PairKept DEF ReleaseInv, Pairs
<1>. QED
  BY <1>3, <1>5, <1>6, <1>7, <1>8 DEF ReleaseInv

LEMMA NoFileFacts ==
  /\ <<>> \in Streams /\ Len(<<>>) = 0 /\ 0 <= SlotSize
  /\ \A i \in DOMAIN <<>> : FALSE
  /\ \A v : Sourced(<<>>, v)
  BY EmptySeq, SessionAssumption DEF Streams, Sourced

LEMMA TruncatedFacts ==
  ASSUME NEW old \in Files, NEW file \in Truncated(old)
  PROVE  file \in Files /\ file.exists /\ file.data = <<>>
<1>1. \A mode \in BOOLEAN : File(<<>>, mode) \in Files
  BY NoFileFacts DEF File, Files
<1>2. old.readable \in BOOLEAN
  BY DEF Files
<1>3. PICK mode \in BOOLEAN : file = File(<<>>, mode)
  BY <1>2 DEF Truncated
<1>. QED
  BY <1>1, <1>3 DEF File

LEMMA OpenBinStep ==
  ASSUME ReleaseInv, OpenBin
  PROVE  ReleaseInv'
<1>. USE DEF OpenBin, At, Go, ReleaseInv
<1>1. PICK file \in Truncated(bins[deploy.version]) :
         bins' = [bins EXCEPT ![deploy.version] = file]
  OBVIOUS
<1>2. deploy.version \in Versions /\ bins[deploy.version] \in Files
  BY DEF ReleaseTyped
<1>3. file \in Files /\ file.exists /\ file.data = <<>>
  BY <1>2, TruncatedFacts
<1>4. /\ deploy' \in [step : Steps, version : Versions, build : DOMAIN built, stale : Versions]
      /\ deploy'.step = "bin_data" /\ deploy'.version = deploy.version
      /\ deploy'.build = deploy.build
  BY StepNames DEF ReleaseTyped
<1>5. /\ bins' \in [Versions -> Files] /\ bins'[deploy.version] = file
      /\ \A v \in Versions : v # deploy.version => bins'[v] = bins[v]
  BY <1>1, <1>2, <1>3 DEF ReleaseTyped
<1>6. ReleaseTyped'
  BY <1>4, <1>5 DEF ReleaseTyped
<1>7. ScriptAt'
  BY <1>3, <1>4, <1>5 DEF ScriptAt
<1>8. BuiltKept
  BY BuiltSame
<1>9. Contents'
  BY <1>3, <1>5, <1>8, NoFileFacts, SourcedKept DEF Contents
<1>10. Pairs'
  <2>1. Uploading(deploy.version)'
    BY <1>4 DEF Uploading
  <2>2. \A v \in Versions : ~Uploading(v)
    BY DEF Uploading
  <2>3. named \in Versions
    BY DEF ReleaseTyped
  <2>. QED
    BY <1>3, <1>5, <1>8, <2>1, <2>2, <2>3, PairKept DEF Pairs
<1>. QED
  BY <1>6, <1>7, <1>9, <1>10

LEMMA CopyBinStep ==
  ASSUME ReleaseInv, CopyBin
  PROVE  ReleaseInv'
<1>. USE DEF CopyBin, At, Go, ReleaseInv
<1>0. PICK w \in Versions, b \in Builds : w = deploy.version /\ b = deploy.build
  BY SizeFacts DEF ReleaseTyped
<1>1. PICK n \in (Len(bins[w].data) + 1)..ImageSizes[b] :
         /\ bins' = [bins EXCEPT ![w].data = SubSeq(Image(b), 1, n)]
         /\ IF n = ImageSizes[b] THEN Go("sha") ELSE UNCHANGED deploy
  BY <1>0
<1>2. /\ bins[w] \in Files /\ bins[w].exists
      /\ ImageSizes[b] \in Nat /\ ImageSizes[b] <= SlotSize
  BY <1>0, SizeFacts DEF ReleaseTyped, ScriptAt
<1>3. n \in 1..ImageSizes[b]
  BY <1>1, <1>2, LenProperties DEF Files, Streams
<1> DEFINE data == SubSeq(Image(b), 1, n)
<1>4. /\ data \in Streams /\ Len(data) = n
      /\ \A i \in 1..n : data[i] = ImageUnit(b, i)
  <2>1. \A i \in 1..n : Image(b)[i] \in UnitSet /\ Image(b)[i] = ImageUnit(b, i)
    BY <1>2, <1>3, ImageFacts, ElementOfSeq DEF Streams
  <2>. QED
    BY <1>3, <2>1, SubSeqProperties DEF Streams
<1>5. n = ImageSizes[b] => data = Image(b)
  BY <1>2, ImageFacts, SubSeqFull DEF Streams
<1>6. \A i \in DOMAIN data : data[i].kind = "image"
  <2>1. DOMAIN data = 1..n
    BY <1>4, LenProperties DEF Streams
  <2>2. \A i \in 1..n : ImageUnit(b, i).kind = "image"
    BY DEF ImageUnit
  <2>. QED
    BY <1>4, <2>1, <2>2
<1>7. Len(data) <= SlotSize
  BY <1>2, <1>3, <1>4, SessionAssumption
<1>. HIDE DEF data
<1>8. /\ bins' \in [Versions -> Files] /\ bins'[w].data = data /\ bins'[w].exists
      /\ \A v \in Versions : v # w => bins'[v] = bins[v]
  BY <1>1, <1>2, <1>4 DEF ReleaseTyped, Files, data
<1>9. /\ deploy' \in [step : Steps, version : Versions, build : DOMAIN built, stale : Versions]
      /\ deploy'.step = IF n = ImageSizes[b] THEN "sha" ELSE "bin_data"
      /\ deploy'.version = w /\ deploy'.build = b
  BY <1>0, <1>1, StepNames DEF ReleaseTyped
<1>10. ReleaseTyped'
  BY <1>8, <1>9 DEF ReleaseTyped
<1>11. ScriptAt'
  <2>1. deploy'.step \in {"sha", "bin_data"} /\ built' = built /\ built[b] = w
    BY <1>0, <1>9 DEF ScriptAt
  <2>2. deploy'.step = "sha" => bins'[w].data = Image(b)
    BY <1>5, <1>8, <1>9
  <2>. QED
    BY <1>8, <1>9, <2>1, <2>2 DEF ScriptAt
<1>12. BuiltKept
  BY BuiltSame
<1>13. Contents'
  <2>1. \A v \in Versions : shas'[v] = shas[v] /\ Sourced(shas[v].data, v)'
    BY <1>12, SourcedKept DEF Contents
  <2>2. ASSUME NEW v \in Versions
        PROVE  /\ Len(bins'[v].data) <= SlotSize
               /\ \A i \in DOMAIN bins'[v].data : bins'[v].data[i].kind = "image"
    <3>1. CASE v = w
      <4>1. bins'[v].data = data
        BY <1>8, <3>1
      <4>. QED
        BY <1>6, <1>7, <4>1
    <3>2. CASE v # w
      <4>1. bins'[v] = bins[v]
        BY <1>8, <3>2
      <4>. QED
        BY ONLY ReleaseInv, <4>1 DEF ReleaseInv, Contents
    <3>. QED
      BY <3>1, <3>2
  <2>. QED
    BY <2>1, <2>2 DEF Contents
<1>14. Pairs'
  <2>1. Uploading(w)'
    BY <1>9, SizeFacts DEF Uploading
  <2>2. \A v \in Versions : v # w => ~Uploading(v)
    BY <1>0 DEF Uploading
  <2>3. named \in Versions
    BY DEF ReleaseTyped
  <2>. QED
    BY <1>8, <1>12, <2>1, <2>2, <2>3, PairKept DEF Pairs
<1>. QED
  BY <1>10, <1>11, <1>13, <1>14

LEMMA OpenShaStep ==
  ASSUME ReleaseInv, OpenSha
  PROVE  ReleaseInv'
<1>. USE DEF OpenSha, At, Go, ReleaseInv
<1>1. PICK file \in Truncated(shas[deploy.version]) :
         shas' = [shas EXCEPT ![deploy.version] = file]
  OBVIOUS
<1>2. deploy.version \in Versions /\ shas[deploy.version] \in Files
  BY DEF ReleaseTyped
<1>3. file \in Files /\ file.exists /\ file.data = <<>>
  BY <1>2, TruncatedFacts
<1>4. /\ deploy' \in [step : Steps, version : Versions, build : DOMAIN built, stale : Versions]
      /\ deploy'.step = "sha_data" /\ deploy'.version = deploy.version
      /\ deploy'.build = deploy.build
  BY StepNames DEF ReleaseTyped
<1>5. /\ shas' \in [Versions -> Files] /\ shas'[deploy.version] = file
      /\ \A v \in Versions : v # deploy.version => shas'[v] = shas[v]
  BY <1>1, <1>2, <1>3 DEF ReleaseTyped
<1>6. ReleaseTyped'
  BY <1>4, <1>5 DEF ReleaseTyped
<1>7. ScriptAt'
  BY <1>3, <1>4, <1>5, StepNames DEF ScriptAt
<1>8. BuiltKept
  BY BuiltSame
<1>9. Contents'
  BY <1>2, <1>3, <1>5, <1>8, NoFileFacts, SourcedKept, StepNames DEF Contents, ScriptAt
<1>10. Pairs'
  <2>1. Uploading(deploy.version)'
    BY <1>4 DEF Uploading
  <2>2. \A v \in Versions : v # deploy.version => ~Uploading(v)
    BY DEF Uploading
  <2>. QED
    BY <1>5, <1>8, <2>1, <2>2, PairKept DEF Pairs
<1>. QED
  BY <1>6, <1>7, <1>9, <1>10

LEMMA CopyShaStep ==
  ASSUME ReleaseInv, CopySha
  PROVE  ReleaseInv'
<1>. USE DEF CopySha, At, Go, ReleaseInv
<1>1. PICK w \in Versions, b \in DOMAIN built : w = deploy.version /\ b = deploy.build
  BY DEF ReleaseTyped
<1>2. /\ shas[w] \in Files /\ shas[w].exists /\ b \in Builds /\ built[b] = w
      /\ bins[w].exists
  BY <1>1, SizeFacts, StepNames DEF ReleaseTyped, ScriptAt
<1>3. /\ shas' \in [Versions -> Files] /\ shas'[w].data = ShaText(b) /\ shas'[w].exists
      /\ \A v \in Versions : v # w => shas'[v] = shas[v]
  BY <1>1, <1>2, ShaFacts DEF ReleaseTyped, Files
<1>4. /\ deploy' \in [step : Steps, version : Versions, build : DOMAIN built, stale : Versions]
      /\ deploy'.step = "chmod" /\ deploy'.version = w /\ deploy'.build = b
  BY <1>1, StepNames DEF ReleaseTyped
<1>5. ReleaseTyped'
  BY <1>3, <1>4 DEF ReleaseTyped
<1>6. ScriptAt'
  BY <1>1, <1>3, <1>4, StepNames DEF ScriptAt
<1>7. BuiltKept
  BY BuiltSame
<1>8. Contents'
  <2>1. Sourced(ShaText(b), w)
    BY <1>2, ShaFacts DEF Sourced, ShaText, Unit, LF
  <2>2. \A v \in Versions : Sourced(shas'[v].data, v)
    BY <1>3, <2>1 DEF Contents
  <2>3. \A v \in Versions : Sourced(shas[v].data, v)'
    BY <2>2 DEF Sourced
  <2>. QED
    BY <1>2, <1>3, <2>3 DEF Contents
<1>9. Pairs'
  <2>1. \A v \in Versions : v = w => Uploading(v)'
    BY <1>4 DEF Uploading
  <2>2. \A v \in Versions : v # w => ~Uploading(v)
    BY <1>1 DEF Uploading
  <2>. QED
    BY <1>3, <1>7, <2>1, <2>2, PairKept DEF Pairs
<1>. QED
  BY <1>5, <1>6, <1>8, <1>9

LEMMA ChmodStep ==
  ASSUME ReleaseInv, Chmod
  PROVE  ReleaseInv'
<1>. USE DEF Chmod, At, Go, ReleaseInv
<1>1. PICK w \in Versions, b \in DOMAIN built : w = deploy.version /\ b = deploy.build
  BY DEF ReleaseTyped
<1>2. /\ bins[w] \in Files /\ bins[w].exists /\ bins[w].data = Image(b)
      /\ shas[w] \in Files /\ shas[w].exists /\ shas[w].data = ShaText(b)
      /\ built[b] = w
  BY <1>1, StepNames DEF ReleaseTyped, ScriptAt
<1>3. /\ bins' \in [Versions -> Files] /\ bins'[w] = File(bins[w].data, TRUE)
      /\ shas' \in [Versions -> Files] /\ shas'[w] = File(shas[w].data, TRUE)
      /\ \A v \in Versions : v # w => bins'[v] = bins[v] /\ shas'[v] = shas[v]
  BY <1>1, <1>2 DEF ReleaseTyped, Files, File
<1>4. /\ deploy' \in [step : Steps, version : Versions, build : DOMAIN built, stale : Versions]
      /\ deploy'.step = "version" /\ deploy'.version = w /\ deploy'.build = b
  BY <1>1, StepNames DEF ReleaseTyped
<1>5. ReleaseTyped'
  BY <1>3, <1>4 DEF ReleaseTyped
<1>6. ScriptAt'
  BY <1>1, <1>2, <1>3, <1>4, StepNames DEF ScriptAt, File
<1>7. BuiltKept
  BY BuiltSame
<1>8. \A v \in Versions :
        /\ bins'[v].data = bins[v].data /\ bins'[v].exists = bins[v].exists
        /\ shas'[v].data = shas[v].data /\ shas'[v].exists = shas[v].exists
  BY <1>2, <1>3 DEF File
<1>9. Contents'
  BY <1>7, <1>8, SourcedKept DEF Contents
<1>10. Pairs'
  <2>1. PairWhole(w)'
    <3>1. /\ built' = built /\ bins'[w] = File(Image(b), TRUE)
          /\ shas'[w] = File(ShaText(b), TRUE)
      BY <1>2, <1>3
    <3>. QED
      BY <1>2, <3>1 DEF PairWhole
  <2>2. \A v \in Versions : v # w => ~Uploading(v)
    BY <1>1 DEF Uploading
  <2>3. \A v \in Versions : v # w => (v \in broken' <=> v \in broken)
    BY <1>1
  <2>4. bins'[named'].exists
    BY <1>8 DEF ReleaseTyped, Pairs
  <2>5. ASSUME NEW v \in Versions, v # w, bins'[v].exists, v \notin broken'
        PROVE  PairWhole(v)'
    <3>1. PairWhole(v)
      BY <1>3, <2>2, <2>3, <2>5 DEF Pairs
    <3>. QED
      BY <1>3, <1>7, <2>5, <3>1, PairKept
  <2>. QED
    BY <2>1, <2>4, <2>5 DEF Pairs
<1>. QED
  BY <1>5, <1>6, <1>9, <1>10

\* Steps that change no file: what is said of the files stays.
LEMMA FilesKept ==
  ASSUME ReleaseInv, UNCHANGED <<bins, shas, built>>, ReleaseTyped',
         broken \subseteq broken', bins[named'].exists,
         \A v \in Versions : Uploading(v) => Uploading(v)' \/ v \in broken'
  PROVE  Contents' /\ Pairs'
<1>1. BuiltKept
  BY BuiltSame DEF ReleaseInv
<1>2. Contents'
  BY <1>1, SourcedKept DEF ReleaseInv, Contents
<1>3. Pairs'
  BY <1>1, PairKept DEF ReleaseInv, Pairs
<1>. QED
  BY <1>2, <1>3

LEMMA RenameVersionStep ==
  ASSUME ReleaseInv, RenameVersion
  PROVE  ReleaseInv'
<1>. USE DEF RenameVersion, At, Go, ReleaseInv
<1>1. /\ deploy' \in [step : Steps, version : Versions, build : DOMAIN built, stale : Versions]
      /\ deploy'.step = "prune" /\ deploy'.version = deploy.version
      /\ deploy'.build = deploy.build /\ deploy.version \in Versions
  BY StepNames DEF ReleaseTyped
<1>2. ReleaseTyped'
  BY <1>1 DEF ReleaseTyped
<1>3. ScriptAt'
  BY <1>1, StepNames DEF ScriptAt
<1>4. bins[named'].exists
  BY StepNames DEF ScriptAt
<1>5. \A v \in Versions : ~Uploading(v)
  BY DEF Uploading
<1>. QED
  BY <1>2, <1>3, <1>4, <1>5, FilesKept

LEMMA PruneBinStep ==
  ASSUME ReleaseInv, PruneBin
  PROVE  ReleaseInv'
<1>. USE DEF PruneBin, At, ReleaseInv
<1>1. PICK w \in Stale :
        /\ bins' = [bins EXCEPT ![w] = NoFile]
        /\ deploy' = [deploy EXCEPT !.step = "prune_sha", !.stale = w]
  OBVIOUS
<1>2. w \in Versions /\ w # deploy.version /\ named = deploy.version
  BY DEF Stale, ScriptAt
<1>3. /\ bins' \in [Versions -> Files] /\ bins'[w] = NoFile
      /\ \A v \in Versions : v # w => bins'[v] = bins[v]
  BY <1>1, <1>2, NoFileFacts DEF ReleaseTyped, NoFile, Files
<1>4. /\ deploy' \in [step : Steps, version : Versions, build : DOMAIN built, stale : Versions]
      /\ deploy'.step = "prune_sha" /\ deploy'.stale = w
      /\ deploy'.version = deploy.version /\ deploy'.build = deploy.build
  BY <1>1, <1>2, StepNames DEF ReleaseTyped
<1>5. ReleaseTyped'
  BY <1>3, <1>4 DEF ReleaseTyped
<1>6. ScriptAt'
  BY <1>2, <1>3, <1>4 DEF ScriptAt, ReleaseTyped, NoFile
<1>7. BuiltKept
  BY BuiltSame
<1>8. Contents'
  BY <1>3, <1>7, NoFileFacts, SourcedKept DEF Contents, NoFile
<1>9. Pairs'
  <2>1. \A v \in Versions : ~Uploading(v)
    BY DEF Uploading
  <2>2. named \in Versions
    BY DEF ReleaseTyped
  <2>. QED
    BY <1>2, <1>3, <1>7, <2>1, <2>2, PairKept DEF Pairs, NoFile
<1>. QED
  BY <1>5, <1>6, <1>8, <1>9

LEMMA PruneShaStep ==
  ASSUME ReleaseInv, PruneSha
  PROVE  ReleaseInv'
<1>. USE DEF PruneSha, At, ReleaseInv
<1>1. PICK w \in Versions : w = deploy.stale
  BY DEF ReleaseTyped
<1>2. named = deploy.version /\ ~bins[w].exists
  BY <1>1 DEF ScriptAt
<1>3. /\ shas' \in [Versions -> Files] /\ shas'[w] = NoFile
      /\ \A v \in Versions : v # w => shas'[v] = shas[v]
  BY <1>1, NoFileFacts DEF ReleaseTyped, NoFile, Files
<1>4. /\ deploy' \in [step : Steps, version : Versions, build : DOMAIN built, stale : Versions]
      /\ deploy'.step = "prune"
      /\ deploy'.version = deploy.version /\ deploy'.build = deploy.build
  BY StepNames, ReleaseAssumption DEF ReleaseTyped
<1>5. ReleaseTyped'
  BY <1>3, <1>4 DEF ReleaseTyped
<1>6. ScriptAt'
  BY <1>2, <1>4, StepNames DEF ScriptAt
<1>7. BuiltKept
  BY BuiltSame
<1>8. Contents'
  BY <1>3, <1>7, NoFileFacts, SourcedKept DEF Contents, NoFile
<1>9. Pairs'
  <2>1. \A v \in Versions : ~Uploading(v)
    BY DEF Uploading
  <2>. QED
    BY <1>2, <1>3, <1>7, <2>1, PairKept DEF Pairs
<1>. QED
  BY <1>5, <1>6, <1>8, <1>9

LEMMA ScriptEnds ==
  ASSUME ReleaseInv, PruneEnds \/ SendTrigger \/ DeployFails
  PROVE  ReleaseInv'
<1>. USE DEF PruneEnds, SendTrigger, DeployFails, At, Go, ReleaseInv
<1>1. /\ deploy' \in [step : Steps, version : Versions, build : DOMAIN built, stale : Versions]
      /\ deploy'.step = "idle" \/
           /\ deploy'.step = "trigger" /\ deploy.step \in {"prune", "prune_sha"}
           /\ deploy'.version = deploy.version /\ deploy'.build = deploy.build
      /\ UNCHANGED <<named, bins, shas, built>> /\ broken' \subseteq Versions
      /\ broken \subseteq broken'
  <2>1. /\ Idle \in [step : Steps, version : Versions, build : DOMAIN built, stale : Versions]
        /\ Idle.step = "idle" /\ Factory \in Versions
    BY ReleaseAssumption, StepNames, LenProperties DEF Idle, ReleaseTyped
  <2>2. CASE PruneEnds
    BY <2>1, <2>2, StepNames DEF ReleaseTyped
  <2>3. CASE SendTrigger \/ DeployFails
    BY <2>1, <2>3 DEF ReleaseTyped
  <2>. QED
    BY <2>2, <2>3
<1>2. ReleaseTyped'
  BY <1>1 DEF ReleaseTyped
<1>3. ScriptAt'
  BY <1>1, StepNames DEF ScriptAt
<1>4. \A v \in Versions : Uploading(v) => v \in broken'
  BY DEF Uploading
<1>5. bins[named'].exists
  BY <1>1 DEF Pairs
<1>. QED
  BY <1>1, <1>2, <1>3, <1>4, <1>5, FilesKept

LEMMA ReleaseSame ==
  ASSUME ReleaseInv, UNCHANGED releaseVars
  PROVE  ReleaseInv' /\ BuiltKept
<1>1. ReleaseTyped' /\ ScriptAt'
  BY DEF ReleaseInv, ReleaseTyped, ScriptAt, releaseVars
<1>2. Contents' /\ Pairs'
  BY <1>1, FilesKept DEF ReleaseInv, releaseVars, Uploading, Pairs
<1>3. BuiltKept
  BY BuiltSame DEF ReleaseInv, releaseVars
<1>. QED
  BY <1>1, <1>2, <1>3 DEF ReleaseInv

-----------------------------------------------------------------------------
(* The session                                                             *)

LEMMA NextMultiple ==
  ASSUME NEW a \in Nat, NEW b \in Nat
  PROVE  a * b \in Nat /\ (a + 1) * b = a * b + b
OBVIOUS

LEMMA MultipleBelow ==
  ASSUME NEW a \in Nat, NEW k \in Nat, NEW b \in Nat \ {0}, a * b < k * b
  PROVE  a < k
<1>1. SUFFICES ASSUME k <= a PROVE FALSE
  OBVIOUS
<1>2. PICK d \in Nat : a = k + d
  <2>1. a - k \in Nat /\ a = k + (a - k)
    BY <1>1
  <2>. QED
    BY <2>1
<1>3. d * b \in Nat /\ (k + d) * b = k * b + d * b
  OBVIOUS
<1>. QED
  BY <1>2, <1>3

LEMMA WholeMultiple ==
  ASSUME NEW a \in Nat, NEW b \in Nat \ {0}, a % b = 0
  PROVE  \E k \in Nat : a = k * b
BY Z3

LEMMA SlotSectors == \E k \in Nat : SlotSize = k * SectorSize
BY WholeMultiple, SessionAssumption

\* Cells are in the same sector when the quotients agree.
LEMMA SameSector ==
  ASSUME NEW b \in Nat \ {0}, NEW c \in Nat, NEW d \in Nat, NEW k \in Nat,
         c \div b = d \div b, d < (k + 1) * b
  PROVE  c < (k + 1) * b
<1>1. /\ b * (c \div b) <= c /\ c < b * (c \div b) + b
      /\ b * (d \div b) <= d
      /\ c \div b \in Nat
  BY Z3
<1>2. PICK q \in Nat : q = c \div b
  BY <1>1
<1>3. c < b * q + b /\ b * q <= d
  BY <1>1, <1>2
<1>4. q * b < (k + 1) * b
  BY <1>3
<1>5. q < k + 1
  BY <1>4, MultipleBelow
<1>6. (q + 1) * b = b * q + b
  OBVIOUS
<1>7. (q + 1) * b <= (k + 1) * b
  BY <1>5
<1>. QED
  BY <1>3, <1>6, <1>7

SessionTyped ==
  hasher \in Streams /\ staged \in Streams /\ length \in Nat /\ sector \in Nat

\* The second half of WrittenIsHashed.
InOrder ==
  \A i \in 1..Len(hasher) :
    hasher[i] = IF i <= sector * SectorSize THEN slot[i - 1]
                ELSE staged[i - sector * SectorSize]

\* While a body is read every flushed sector is full.
Streaming ==
  /\ SessionTyped /\ InOrder
  /\ Len(hasher) = sector * SectorSize + Len(staged)
  /\ Len(staged) < SectorSize /\ Len(hasher) <= length /\ length <= SlotSize

\* When all of it is in flash, what follows in the last sector is erased.
Written ==
  /\ SessionTyped /\ InOrder /\ staged = <<>> /\ BodyComplete
  /\ length <= SlotSize /\ Len(hasher) <= sector * SectorSize
  /\ sector * SectorSize < Len(hasher) + SectorSize
  /\ \A c \in Cells : Len(hasher) <= c /\ c < sector * SectorSize => slot[c] = Blank

NoSession == hasher = <<>> /\ staged = <<>> /\ sector = 0

LEMMA SessionStarts ==
  ASSUME NEW declared \in 0..SlotSize, StartSession(declared)
  PROVE  Streaming'
<1>1. hasher' = <<>> /\ staged' = <<>> /\ sector' = 0 /\ length' = declared
  BY DEF StartSession
<1>2. <<>> \in Streams /\ Len(<<>>) = 0
  BY NoFileFacts
<1>3. 0 * SectorSize = 0 /\ 0 < SectorSize /\ SlotSize \in Nat
  BY SessionAssumption
<1>. QED
  BY <1>1, <1>2, <1>3 DEF Streaming, SessionTyped, InOrder

LEMMA FlushedAt ==
  ASSUME NEW units \in Streams, Len(units) <= SectorSize, NEW at \in Nat, NEW c \in Cells
  PROVE  Flushed(units, at)[c] =
           IF c < at * SectorSize \/ c >= at * SectorSize + SectorSize THEN slot[c]
           ELSE IF c - at * SectorSize < Len(units) THEN units[(c - at * SectorSize) + 1]
           ELSE Blank
<1>1. PICK base \in Nat : base = at * SectorSize
  BY NextMultiple, SessionAssumption
<1>2. Len(units) \in Nat /\ SectorSize \in Nat \ {0} /\ c \in Int
  BY LenProperties, SessionAssumption DEF Streams, Cells
<1>3. Flushed(units, at)[c] =
        IF c - base \in 0..(Len(units) - 1) THEN units[(c - base) + 1]
        ELSE IF c - base \in 0..(SectorSize - 1) THEN Blank ELSE slot[c]
  BY <1>1 DEF Flushed
<1>4. /\ c - base \in 0..(Len(units) - 1) <=> (c >= base /\ c - base < Len(units))
      /\ c - base \in 0..(SectorSize - 1) <=> (c >= base /\ c < base + SectorSize)
      /\ c - base < Len(units) => c < base + SectorSize
      /\ c >= base <=> ~(c < base)
      /\ c >= base + SectorSize <=> ~(c < base + SectorSize)
  BY <1>2
<1>. QED
  BY <1>1, <1>3, <1>4

LEMMA StreamFacts ==
  ASSUME NEW units \in Streams
  PROVE  Len(units) \in Nat /\ DOMAIN units = 1..Len(units)
  BY LenProperties DEF Streams

LEMMA JoinFacts ==
  ASSUME NEW a \in Streams, NEW b \in Streams
  PROVE  /\ a \o b \in Streams /\ Len(a \o b) = Len(a) + Len(b)
         /\ \A i \in 1..Len(a) : (a \o b)[i] = a[i]
         /\ \A i \in (Len(a) + 1)..Len(a \o b) : (a \o b)[i] = b[i - Len(a)]
<1>1. /\ a \o b \in Streams /\ Len(a \o b) = Len(a) + Len(b)
      /\ \A i \in 1..(Len(a) + Len(b)) :
            (a \o b)[i] = IF i <= Len(a) THEN a[i] ELSE b[i - Len(a)]
  BY ConcatProperties DEF Streams
<1>2. Len(a) \in Nat /\ Len(b) \in Nat
  BY StreamFacts
<1> DEFINE both == a \o b
<1>. HIDE DEF both
<1>3. /\ both \in Streams /\ Len(both) = Len(a) + Len(b)
      /\ \A i \in 1..(Len(a) + Len(b)) : both[i] = IF i <= Len(a) THEN a[i] ELSE b[i - Len(a)]
  BY <1>1 DEF both
<1>4. \A i \in 1..Len(a) : both[i] = a[i]
  BY <1>2, <1>3
<1>5. \A i \in (Len(a) + 1)..Len(both) : both[i] = b[i - Len(a)]
  BY <1>2, <1>3
<1>. QED
  BY <1>3, <1>4, <1>5 DEF both

LEMMA PartFacts ==
  ASSUME NEW units \in Streams, NEW m \in 1..(Len(units) + 1), NEW n \in 0..Len(units),
         m <= n + 1
  PROVE  /\ SubSeq(units, m, n) \in Streams /\ Len(SubSeq(units, m, n)) = n - m + 1
         /\ \A i \in 1..(n - m + 1) : SubSeq(units, m, n)[i] = units[m + i - 1]
<1>1. Len(units) \in Nat /\ m \in Int /\ n \in Int
  BY StreamFacts
<1>2. \A i \in m..n : units[i] \in UnitSet
  BY <1>1, ElementOfSeq DEF Streams
<1>3. /\ SubSeq(units, m, n) \in Streams
      /\ Len(SubSeq(units, m, n)) = IF m <= n THEN n - m + 1 ELSE 0
      /\ \A i \in 1..(n - m + 1) : SubSeq(units, m, n)[i] = units[m + i - 1]
  BY <1>1, <1>2, SubSeqProperties DEF Streams
<1>4. (IF m <= n THEN n - m + 1 ELSE 0) = n - m + 1
  BY <1>1
<1>. QED
  BY <1>3, <1>4

\* A chunk, wherever it is cut, keeps the session in order.
LEMMA ConsumeStep ==
  ASSUME Streaming, NEW data \in Streams, Len(data) <= Wanted, Consume(data)
  PROVE  Streaming' /\ Len(hasher') = Len(hasher) + Len(data)
<1> DEFINE all == staged \o data
           full == SubSeq(all, 1, SectorSize)
           rest == SubSeq(all, SectorSize + 1, Len(all))
<1>1. PICK base \in Nat : base = sector * SectorSize
  BY NextMultiple, SessionAssumption DEF Streaming, SessionTyped
<1>2. /\ hasher \in Streams /\ staged \in Streams /\ length \in Nat /\ sector \in Nat
      /\ Len(hasher) \in Nat /\ Len(staged) \in Nat /\ Len(data) \in Nat
      /\ SectorSize \in Nat \ {0} /\ SlotSize \in Nat /\ Chunk \in 1..SectorSize
      /\ Len(hasher) = base + Len(staged) /\ Len(staged) < SectorSize
      /\ Len(hasher) <= length /\ length <= SlotSize
  BY <1>1, StreamFacts, SessionAssumption DEF Streaming, SessionTyped
<1>3. Len(data) <= SectorSize /\ Len(hasher) + Len(data) <= length
  BY <1>2 DEF Wanted
<1>4. /\ all \in Streams /\ Len(all) = Len(staged) + Len(data)
      /\ \A i \in 1..Len(staged) : all[i] = staged[i]
      /\ \A i \in (Len(staged) + 1)..Len(all) : all[i] = data[i - Len(staged)]
  BY <1>2, JoinFacts
<1>5. /\ hasher' \in Streams /\ Len(hasher') = Len(hasher) + Len(data)
      /\ \A i \in 1..Len(hasher) : hasher'[i] = hasher[i]
      /\ \A i \in (Len(hasher) + 1)..Len(hasher') : hasher'[i] = data[i - Len(hasher)]
  <2> DEFINE both == hasher \o data
  <2>1. hasher' = both
    BY DEF Consume
  <2>2. /\ both \in Streams /\ Len(both) = Len(hasher) + Len(data)
        /\ \A i \in 1..Len(hasher) : both[i] = hasher[i]
        /\ \A i \in (Len(hasher) + 1)..Len(both) : both[i] = data[i - Len(hasher)]
    BY <1>2, JoinFacts
  <2>. HIDE DEF both
  <2>. QED
    BY <2>1, <2>2
<1>6. length' = length
  BY DEF Consume
<1>7. /\ \A i \in 1..base : hasher'[i] = slot[i - 1]
      /\ \A i \in (base + 1)..Len(hasher') : hasher'[i] = all[i - base]
  <2>1. ASSUME NEW i \in 1..base
        PROVE  hasher'[i] = slot[i - 1]
    <3>1. i \in 1..Len(hasher) /\ i <= base
      BY <1>2
    <3>. QED
      BY <1>1, <1>5, <3>1 DEF Streaming, InOrder
  <2>2. ASSUME NEW i \in (base + 1)..Len(hasher')
        PROVE  hasher'[i] = all[i - base]
    <3>1. CASE i <= Len(hasher)
      <4>1. i \in 1..Len(hasher) /\ ~(i <= base) /\ i - base \in 1..Len(staged)
        BY <1>2, <3>1
      <4>. QED
        BY <1>1, <1>4, <1>5, <4>1 DEF Streaming, InOrder
    <3>2. CASE i > Len(hasher)
      <4>1. /\ i \in (Len(hasher) + 1)..Len(hasher')
            /\ i - base \in (Len(staged) + 1)..Len(all)
            /\ (i - base) - Len(staged) = i - Len(hasher)
        BY <1>2, <1>4, <1>5, <3>2
      <4>. QED
        BY <1>4, <1>5, <4>1
    <3>. QED
      BY <1>2, <1>5, StreamFacts, <3>1, <3>2
  <2>. QED
    BY <2>1, <2>2
<1>8. /\ Len(all) < SectorSize => staged' = all /\ slot' = slot /\ sector' = sector
      /\ ~(Len(all) < SectorSize) =>
           slot' = Flushed(full, sector) /\ staged' = rest /\ sector' = sector + 1
  BY DEF Consume, NextSector
<1>. HIDE DEF all
<1>9. CASE Len(all) < SectorSize
  <2>1. staged' = all /\ slot' = slot /\ sector' = sector
    BY <1>8, <1>9
  <2>2. InOrder'
    <3>1. ASSUME NEW i \in 1..Len(hasher')
          PROVE  hasher'[i] = IF i <= base THEN slot[i - 1] ELSE all[i - base]
      <4>1. i <= base => i \in 1..base
        BY <1>2, <1>5
      <4>2. ~(i <= base) => i \in (base + 1)..Len(hasher')
        BY <1>2, <1>5
      <4>. QED
        BY <1>7, <4>1, <4>2
    <3>. QED
      BY <1>1, <2>1, <3>1 DEF InOrder
  <2>3. Len(hasher') = base + Len(all) /\ Len(hasher') <= length
    BY <1>2, <1>3, <1>4, <1>5
  <2>. QED
    BY <1>1, <1>2, <1>4, <1>5, <1>6, <1>9, <2>1, <2>2, <2>3 DEF Streaming, SessionTyped
<1>10. CASE ~(Len(all) < SectorSize)
  <2>1. /\ full \in Streams /\ Len(full) = SectorSize
        /\ \A i \in 1..SectorSize : full[i] = all[i]
    <3>1. 1 \in 1..(Len(all) + 1) /\ SectorSize \in 0..Len(all) /\ 1 <= SectorSize + 1
      BY <1>2, <1>4, <1>10
    <3>2. /\ full \in Streams /\ Len(full) = SectorSize - 1 + 1
          /\ \A i \in 1..(SectorSize - 1 + 1) : full[i] = all[1 + i - 1]
      BY <1>4, <3>1, PartFacts
    <3>3. SectorSize - 1 + 1 = SectorSize /\ \A i \in 1..SectorSize : 1 + i - 1 = i
      BY <1>2
    <3>. HIDE DEF full
    <3>. QED
      BY <3>2, <3>3
  <2>2. /\ rest \in Streams /\ Len(rest) = Len(all) - SectorSize
        /\ \A i \in 1..(Len(all) - SectorSize) : rest[i] = all[SectorSize + i]
    <3>1. /\ SectorSize + 1 \in 1..(Len(all) + 1) /\ Len(all) \in 0..Len(all)
          /\ SectorSize + 1 <= Len(all) + 1
      BY <1>2, <1>4, <1>10
    <3>2. /\ rest \in Streams /\ Len(rest) = Len(all) - (SectorSize + 1) + 1
          /\ \A i \in 1..(Len(all) - (SectorSize + 1) + 1) : rest[i] = all[(SectorSize + 1) + i - 1]
      BY <1>4, <3>1, PartFacts
    <3>3. /\ Len(all) - (SectorSize + 1) + 1 = Len(all) - SectorSize
          /\ \A i \in 1..(Len(all) - SectorSize) : (SectorSize + 1) + i - 1 = SectorSize + i
      BY <1>2, <1>4
    <3>. HIDE DEF rest
    <3>. QED
      BY <3>2, <3>3
  <2>3. slot' = Flushed(full, sector) /\ staged' = rest /\ sector' = sector + 1
    BY <1>8, <1>10
  <2>4. sector' * SectorSize = base + SectorSize
    BY <1>1, <1>2, <2>3, NextMultiple
  <2>. HIDE DEF full, rest
  <2>5. ASSUME NEW i \in 1..Len(hasher')
        PROVE  hasher'[i] = IF i <= base + SectorSize THEN slot'[i - 1]
                            ELSE staged'[i - (base + SectorSize)]
    <3>1. i - 1 \in Cells
      BY <1>2, <1>3, <1>5 DEF Cells
    <3>2. slot'[i - 1] =
            IF i - 1 < base \/ i - 1 >= base + SectorSize THEN slot[i - 1]
            ELSE IF (i - 1) - base < SectorSize THEN full[((i - 1) - base) + 1] ELSE Blank
      <4>1. Len(full) <= SectorSize
        BY <1>2, <2>1
      <4> DEFINE c == i - 1
      <4>2. c \in Cells
        BY <3>1
      <4>. HIDE DEF c
      <4>3. Flushed(full, sector)[c] =
              IF c < sector * SectorSize \/ c >= sector * SectorSize + SectorSize THEN slot[c]
              ELSE IF c - sector * SectorSize < Len(full) THEN full[(c - sector * SectorSize) + 1]
              ELSE Blank
        BY <1>2, <2>1, <4>1, <4>2, FlushedAt
      <4>. QED
        BY <1>1, <2>1, <2>3, <4>3 DEF c
    <3>3. CASE i <= base
      <4>1. i \in 1..base /\ i - 1 < base /\ i <= base + SectorSize
        BY <1>2, <3>3
      <4>. QED
        BY <1>7, <3>2, <4>1
    <3>4. CASE ~(i <= base) /\ i <= base + SectorSize
      <4>1. /\ i \in (base + 1)..Len(hasher') /\ i - base \in 1..SectorSize
            /\ ~(i - 1 < base) /\ ~(i - 1 >= base + SectorSize)
            /\ (i - 1) - base < SectorSize /\ ((i - 1) - base) + 1 = i - base
        BY <1>2, <1>5, <3>4
      <4>. QED
        BY <1>7, <2>1, <3>2, <3>4, <4>1
    <3>5. CASE ~(i <= base + SectorSize)
      <4>1. /\ i \in (base + 1)..Len(hasher')
            /\ i - (base + SectorSize) \in 1..(Len(all) - SectorSize)
            /\ SectorSize + (i - (base + SectorSize)) = i - base
        BY <1>2, <1>4, <1>5, <3>5
      <4>. QED
        BY <1>7, <2>2, <2>3, <3>5, <4>1
    <3>. QED
      BY <3>3, <3>4, <3>5
  <2>6. InOrder'
    BY <2>4, <2>5 DEF InOrder
  <2>7. /\ Len(hasher') = (base + SectorSize) + Len(rest) /\ Len(rest) < SectorSize
        /\ Len(hasher') <= length
    BY <1>2, <1>3, <1>4, <1>5, <2>2
  <2>. QED
    <3>1. /\ hasher' \in Streams /\ staged' \in Streams /\ length' \in Nat /\ sector' \in Nat
      BY <1>2, <1>5, <1>6, <2>2, <2>3
    <3>2. /\ Len(hasher') = sector' * SectorSize + Len(staged') /\ Len(staged') < SectorSize
          /\ Len(hasher') <= length' /\ length' <= SlotSize
      BY <1>2, <1>6, <2>3, <2>4, <2>7
    <3>. QED
      BY <1>5, <2>6, <3>1, <3>2 DEF Streaming, SessionTyped
<1>. QED
  BY <1>5, <1>9, <1>10

\* The flush that ends a session puts the rest of it in place.
LEMMA FlushRestStep ==
  ASSUME Streaming, BodyComplete, FlushRest
  PROVE  Written'
<1>1. PICK base \in Nat : base = sector * SectorSize
  BY NextMultiple, SessionAssumption DEF Streaming, SessionTyped
<1>2. /\ hasher \in Streams /\ staged \in Streams /\ length \in Nat /\ sector \in Nat
      /\ Len(hasher) \in Nat /\ Len(staged) \in Nat
      /\ SectorSize \in Nat \ {0} /\ SlotSize \in Nat
      /\ Len(hasher) = base + Len(staged) /\ Len(staged) < SectorSize
      /\ Len(hasher) = length /\ length <= SlotSize
  BY <1>1, StreamFacts, SessionAssumption DEF Streaming, SessionTyped, BodyComplete
<1>3. hasher' = hasher /\ length' = length
  BY DEF FlushRest
<1>4. CASE staged = <<>>
  <2>1. staged' = <<>> /\ slot' = slot /\ sector' = sector /\ Len(staged) = 0
    BY <1>4, NoFileFacts DEF FlushRest
  <2>2. InOrder' /\ BodyComplete' /\ SessionTyped'
    BY <1>2, <1>3, <1>4, <2>1 DEF Streaming, InOrder, BodyComplete, SessionTyped
  <2>3. /\ Len(hasher') <= sector' * SectorSize
        /\ sector' * SectorSize < Len(hasher') + SectorSize
    BY <1>1, <1>2, <1>3, <2>1
  <2>4. \A c \in Cells : ~(Len(hasher') <= c /\ c < sector' * SectorSize)
    BY <1>1, <1>2, <1>3, <2>1 DEF Cells
  <2>. QED
    BY <1>2, <1>3, <2>1, <2>2, <2>3, <2>4 DEF Written
<1>5. CASE staged # <<>>
  <2>1. staged' = <<>> /\ slot' = Flushed(staged, sector) /\ sector' = sector + 1
    BY <1>5 DEF FlushRest, NextSector
  <2>2. Len(staged) # 0 /\ <<>> \in Streams
    BY <1>2, <1>5, NoFileFacts, EmptySeq DEF Streams
  <2>3. sector' * SectorSize = base + SectorSize
    BY <1>1, <1>2, <2>1, NextMultiple
  <2>4. ASSUME NEW c \in Cells
        PROVE  slot'[c] = IF c < base \/ c >= base + SectorSize THEN slot[c]
                          ELSE IF c - base < Len(staged) THEN staged[(c - base) + 1] ELSE Blank
    <3>1. Len(staged) <= SectorSize
      BY <1>2
    <3>. QED
      BY <1>1, <1>2, <2>1, <3>1, FlushedAt
  <2>5. ASSUME NEW i \in 1..Len(hasher)
        PROVE  i <= base + SectorSize /\ hasher[i] = slot'[i - 1]
    <3>1. i - 1 \in Cells /\ i <= base + SectorSize
      BY <1>2 DEF Cells
    <3>2. CASE i <= base
      <4>1. i - 1 < base
        BY <1>2, <3>2
      <4>. QED
        BY <1>1, <2>4, <3>1, <3>2, <4>1 DEF Streaming, InOrder
    <3>3. CASE ~(i <= base)
      <4>1. /\ ~(i - 1 < base) /\ ~(i - 1 >= base + SectorSize)
            /\ (i - 1) - base < Len(staged) /\ ((i - 1) - base) + 1 = i - base
        BY <1>2, <3>3
      <4>2. hasher[i] = staged[i - base]
        BY <1>1, <3>3 DEF Streaming, InOrder
      <4>. QED
        BY <2>4, <3>1, <4>1, <4>2
    <3>. QED
      BY <3>2, <3>3
  <2>6. InOrder'
    BY <1>3, <2>3, <2>5 DEF InOrder
  <2>7. ASSUME NEW c \in Cells, Len(hasher') <= c, c < sector' * SectorSize
        PROVE  slot'[c] = Blank
    <3>1. ~(c < base) /\ ~(c >= base + SectorSize) /\ ~(c - base < Len(staged))
      BY <1>2, <1>3, <2>3, <2>7 DEF Cells
    <3>. QED
      BY <2>4, <3>1
  <2>8. /\ Len(hasher') <= sector' * SectorSize
        /\ sector' * SectorSize < Len(hasher') + SectorSize
    BY <1>2, <1>3, <2>2, <2>3
  <2>9. SessionTyped' /\ BodyComplete' /\ length' <= SlotSize
    <3>1. sector' \in Nat /\ staged' \in Streams
      BY <1>2, <2>1, <2>2
    <3>2. hasher' \in Streams /\ length' \in Nat /\ Len(hasher') = length' /\ length' <= SlotSize
      BY <1>2, <1>3
    <3>. QED
      BY <3>1, <3>2 DEF SessionTyped, BodyComplete
  <2>. QED
    BY <2>1, <2>6, <2>7, <2>8, <2>9 DEF Written
<1>. QED
  BY <1>4, <1>5

LEMMA SessionEnds ==
  ASSUME EndSession
  PROVE  NoSession' /\ length' = 0
BY DEF EndSession, NoSession

LEMMA NoSessionTyped ==
  ASSUME NoSession, length \in Nat
  PROVE  SessionTyped /\ Len(hasher) = 0 /\ Len(staged) = 0 /\ sector * SectorSize = 0
BY NoFileFacts, SessionAssumption DEF NoSession, SessionTyped

-----------------------------------------------------------------------------
(* The check                                                               *)

ConnSet ==
  [head : Streams, body : Streams, at : Nat, size : Nat,
   file : {"none", "version", "sha256", "bin"}, version : Nat, linked : BOOLEAN]

DeviceTyped ==
  /\ pc \in {"wait", "connect", "head", "text", "body", "mark"}
  /\ want \in {"version", "sha256", "bin"} /\ remote \in Nat
  /\ conn \in ConnSet
  /\ Sound(parser) /\ Within(parser) /\ parser.event \in {"more", "complete"}
  /\ leftover \in Streams /\ Len(leftover) < ReadChunk
  /\ text \in Streams /\ length \in Nat
  /\ faults \in 0..MaxFaults

\* Where a digest can come from: what the connection delivers and the text that
\* was read belong to the version that was asked for.
SourceInv ==
  /\ Sourced(conn.head, conn.version) /\ Sourced(conn.body, conn.version)
  /\ conn.linked /\ conn.file \in {"sha256", "bin"} => conn.version \in Versions
  /\ pc \in {"head", "text", "body"} => conn.version = remote
  /\ Sourced(text, remote)
  /\ want = "bin" => expected \in DOMAIN built /\ built[expected] = remote
  /\ want # "bin" => expected = None
  /\ pc \in {"body", "mark"} => want = "bin"

\* A parser is somewhere in a head, of which this is the rest.
InHead(p, rest) ==
  \E h \in Streams : \E j \in 0..Len(h) :
    Ends(h) /\ p = Fed(NewParser, h)[j] /\ rest = SubSeq(h, j + 1, Len(h))

\* The parser is in a head whose rest the connection holds, or the connection has
\* nothing left.
HeadInv ==
  pc = "head" =>
    /\ parser.event = "more"
    /\ \/ conn.at = 0 /\ InHead(parser, conn.head)
       \/ conn.head = <<>> /\ conn.size = conn.at

\* Behind the head the text or the body comes from its first unit on.
BodyInv ==
  /\ pc \in {"text", "body"} => conn.head = <<>>
  /\ pc = "body" => Len(hasher) + Len(leftover) = conn.at
  /\ pc # "text" => text = <<>>
  /\ pc = "text" => Len(text) <= length

SessionInv ==
  /\ pc = "body" => Streaming
  /\ pc = "mark" => Written /\ DigestMatches
  /\ pc \notin {"body", "mark"} => NoSession
  /\ pc \notin {"text", "body", "mark"} => length = 0

CheckInv == DeviceTyped /\ SourceInv /\ HeadInv /\ BodyInv /\ SessionInv

Inv == ReleaseInv /\ CheckInv /\ RunsPublishedImage

LEMMA MinOfTwo ==
  ASSUME NEW a \in Int, NEW b \in Int
  PROVE  Min({a, b}) = IF a <= b THEN a ELSE b
<1> DEFINE m == IF a <= b THEN a ELSE b
<1>1. m \in {a, b} /\ \A y \in {a, b} : m <= y
  OBVIOUS
<1>2. \A x \in {a, b} : (\A y \in {a, b} : x <= y) => x = m
  OBVIOUS
<1>. HIDE DEF m
<1>3. Min({a, b}) = m
  BY <1>1, <1>2 DEF Min
<1>. QED
  BY <1>3 DEF m

LEMMA TailFacts ==
  ASSUME NEW units \in Streams, NEW a \in Nat, NEW n \in 0..Len(units)
  PROVE  /\ SubSeq(units, a + 1, n) \in Streams
         /\ Len(SubSeq(units, a + 1, n)) = IF a < n THEN n - a ELSE 0
         /\ \A i \in 1..Len(SubSeq(units, a + 1, n)) :
              SubSeq(units, a + 1, n)[i] = units[a + i] /\ a + i \in 1..Len(units)
<1>1. Len(units) \in Nat /\ a + 1 \in Int /\ n \in Int
  BY StreamFacts
<1>2. \A i \in (a + 1)..n : units[i] \in UnitSet
  BY <1>1, ElementOfSeq DEF Streams
<1> DEFINE part == SubSeq(units, a + 1, n)
<1>3. /\ part \in Streams
      /\ Len(part) = IF a + 1 <= n THEN n - (a + 1) + 1 ELSE 0
      /\ \A i \in 1..(n - (a + 1) + 1) : part[i] = units[(a + 1) + i - 1]
  BY <1>1, <1>2, SubSeqProperties DEF Streams
<1>. HIDE DEF part
<1>4. Len(part) = IF a < n THEN n - a ELSE 0
  BY <1>1, <1>3
<1>5. ASSUME NEW i \in 1..Len(part)
      PROVE  part[i] = units[a + i] /\ a + i \in 1..Len(units)
  <2>1. i \in 1..(n - (a + 1) + 1) /\ (a + 1) + i - 1 = a + i /\ a + i \in 1..Len(units)
    BY <1>1, <1>4
  <2>. QED
    BY <1>3, <2>1
<1>. QED
  BY <1>3, <1>4, <1>5 DEF part

LEMMA SourcedTail ==
  ASSUME NEW units \in Streams, NEW a \in Nat, NEW n \in 0..Len(units),
         NEW v, Sourced(units, v)
  PROVE  Sourced(SubSeq(units, a + 1, n), v)
<1> DEFINE part == SubSeq(units, a + 1, n)
<1>1. part \in Streams /\ \A i \in 1..Len(part) : part[i] = units[a + i] /\ a + i \in 1..Len(units)
  BY TailFacts
<1>. HIDE DEF part
<1>2. DOMAIN part = 1..Len(part) /\ DOMAIN units = 1..Len(units)
  BY <1>1, StreamFacts
<1>3. Sourced(part, v)
  BY <1>1, <1>2 DEF Sourced
<1>. QED
  BY <1>3 DEF part

LEMMA SourcedJoin ==
  ASSUME NEW a \in Streams, NEW b \in Streams, NEW v, Sourced(a, v), Sourced(b, v)
  PROVE  Sourced(a \o b, v)
<1> DEFINE both == a \o b
<1>1. /\ both \in Streams /\ Len(both) = Len(a) + Len(b)
      /\ \A i \in 1..Len(a) : both[i] = a[i]
      /\ \A i \in (Len(a) + 1)..Len(both) : both[i] = b[i - Len(a)]
  BY JoinFacts
<1>. HIDE DEF both
<1>2. /\ Len(a) \in Nat /\ Len(b) \in Nat /\ DOMAIN both = 1..Len(both)
      /\ DOMAIN a = 1..Len(a) /\ DOMAIN b = 1..Len(b)
  BY <1>1, StreamFacts
<1>3. ASSUME NEW i \in 1..Len(both)
      PROVE  (i \in 1..Len(a) /\ both[i] = a[i])
             \/ (i - Len(a) \in 1..Len(b) /\ both[i] = b[i - Len(a)])
  <2>1. i \in 1..Len(a) \/ (i \in (Len(a) + 1)..Len(both) /\ i - Len(a) \in 1..Len(b))
    BY <1>1, <1>2
  <2>. QED
    BY <1>1, <2>1
<1>4. Sourced(both, v)
  BY <1>2, <1>3 DEF Sourced
<1>. QED
  BY <1>4 DEF both

\* The first n units.
LEMMA StartFacts ==
  ASSUME NEW units \in Streams, NEW n \in 0..Len(units)
  PROVE  /\ SubSeq(units, 1, n) \in Streams
         /\ Len(SubSeq(units, 1, n)) = n
         /\ \A i \in 1..n : SubSeq(units, 1, n)[i] = units[i]
         /\ \A v : Sourced(units, v) => Sourced(SubSeq(units, 1, n), v)
<1>1. n \in Nat /\ 0 + 1 = 1 /\ 0 \in Nat /\ (IF 0 < n THEN n - 0 ELSE 0) = n
  BY StreamFacts
<1>2. /\ SubSeq(units, 0 + 1, n) \in Streams
      /\ Len(SubSeq(units, 0 + 1, n)) = (IF 0 < n THEN n - 0 ELSE 0)
      /\ \A i \in 1..Len(SubSeq(units, 0 + 1, n)) : SubSeq(units, 0 + 1, n)[i] = units[0 + i]
  BY <1>1, TailFacts
<1>3. \A v : Sourced(units, v) => Sourced(SubSeq(units, 0 + 1, n), v)
  BY <1>1, SourcedTail
<1>4. \A i \in 1..n : 0 + i = i
  BY <1>1
<1>. QED
  BY <1>1, <1>2, <1>3, <1>4

\* What the connection will deliver: the rest of the head, then the body.
LEMMA WireFacts ==
  ASSUME conn \in ConnSet
  PROVE  /\ Wire \in Streams /\ Len(Wire) \in Nat /\ Len(Wire) >= Len(conn.head)
         /\ Len(conn.head) \in Nat
         /\ \A i \in 1..Len(conn.head) : Wire[i] = conn.head[i]
         /\ conn.head = <<>> /\ conn.size = conn.at => Wire = <<>>
         /\ \A v : Sourced(conn.head, v) /\ Sourced(conn.body, v) => Sourced(Wire, v)
<1>1. /\ conn.head \in Streams /\ conn.body \in Streams /\ conn.at \in Nat /\ conn.size \in Nat
      /\ Len(conn.body) \in Nat /\ Len(conn.head) \in Nat
  BY StreamFacts DEF ConnSet
<1>2. PICK n \in 0..Len(conn.body) : n = Min({conn.size, Len(conn.body)}) /\ n <= conn.size
  BY <1>1, MinOfTwo
<1> DEFINE part == SubSeq(conn.body, conn.at + 1, n)
<1>3. Wire = conn.head \o part
  BY <1>2 DEF Wire
<1>4. part \in Streams /\ Len(part) = IF conn.at < n THEN n - conn.at ELSE 0
  BY <1>1, <1>2, TailFacts
<1>5. \A v : Sourced(conn.body, v) => Sourced(part, v)
  BY <1>1, <1>2, SourcedTail
<1>. HIDE DEF part
<1>6. conn.size = conn.at => part = <<>>
  <2>1. conn.size = conn.at => Len(part) = 0
    BY <1>1, <1>2, <1>4
  <2>. QED
    BY <1>4, <2>1, EmptySeq DEF Streams
<1>7. /\ Wire \in Streams /\ Len(Wire) = Len(conn.head) + Len(part) /\ Len(part) \in Nat
      /\ \A i \in 1..Len(conn.head) : Wire[i] = conn.head[i]
  BY <1>1, <1>3, <1>4, JoinFacts, StreamFacts
<1>8. conn.head = <<>> /\ part = <<>> => Wire = <<>>
  BY <1>3
<1>9. \A v : Sourced(conn.head, v) /\ Sourced(conn.body, v) => Sourced(Wire, v)
  BY <1>1, <1>3, <1>4, <1>5, SourcedJoin
<1>10. Len(Wire) \in Nat /\ Len(Wire) >= Len(conn.head)
  BY <1>1, <1>7
<1>. QED
  BY <1>1, <1>6, <1>7, <1>8, <1>9, <1>10

\* The connection after a read of k units.
LEMMA ReadFacts ==
  ASSUME conn \in ConnSet, NEW k \in Nat
  PROVE  /\ Read(k) \in ConnSet
         /\ Read(k).body = conn.body /\ Read(k).version = conn.version
         /\ Read(k).linked = conn.linked /\ Read(k).file = conn.file
         /\ Read(k).head = SubSeq(conn.head, k + 1, Len(conn.head))
         /\ Read(k).at = conn.at + (IF k > Len(conn.head) THEN k - Len(conn.head) ELSE 0)
         /\ Read(k).size = conn.size
         /\ k >= Len(conn.head) => Read(k).head = <<>>
         /\ \A v : Sourced(conn.head, v) => Sourced(Read(k).head, v)
<1>1. conn.head \in Streams /\ Len(conn.head) \in Nat /\ conn.at \in Nat
  BY StreamFacts DEF ConnSet
<1> DEFINE rest == SubSeq(conn.head, k + 1, Len(conn.head))
           next == conn.at + (IF k > Len(conn.head) THEN k - Len(conn.head) ELSE 0)
<1>2. /\ rest \in Streams /\ Len(rest) = IF k < Len(conn.head) THEN Len(conn.head) - k ELSE 0
      /\ \A v : Sourced(conn.head, v) => Sourced(rest, v)
  BY <1>1, TailFacts, SourcedTail
<1>3. next \in Nat
  BY <1>1
<1>4. Read(k) = [conn EXCEPT !.head = rest, !.at = next]
  BY DEF Read
<1>. HIDE DEF rest, next
<1>5. k >= Len(conn.head) => rest = <<>>
  <2>1. k >= Len(conn.head) => Len(rest) = 0
    BY <1>1, <1>2
  <2>. QED
    BY <1>2, <2>1, EmptySeq DEF Streams
<1>6. /\ Read(k) \in ConnSet /\ Read(k).head = rest /\ Read(k).at = next
      /\ Read(k).body = conn.body /\ Read(k).version = conn.version
      /\ Read(k).linked = conn.linked /\ Read(k).file = conn.file /\ Read(k).size = conn.size
  BY <1>2, <1>3, <1>4 DEF ConnSet
<1>. QED
  BY <1>2, <1>5, <1>6 DEF rest, next

-----------------------------------------------------------------------------
(* What the server answers                                                 *)

NoDigest(units) == \A i \in DOMAIN units : units[i].kind # "digest"

LEMMA NoDigestSourced ==
  ASSUME NEW units, NoDigest(units), NEW v
  PROVE  Sourced(units, v)
  BY DEF NoDigest, Sourced

\* Heads that the parser is through with at their end.
CleanHead(h) == h \in Streams /\ Ends(h) /\ NoDigest(h)

LEMMA UnitKinds ==
  ASSUME NEW kind \in Kinds, NEW n \in Nat
  PROVE  /\ Unit(kind, n) \in UnitSet /\ Unit(kind, n).kind = kind
         /\ kind # "lf" => Unit(kind, n) # LF
         /\ kind # "cr" => Unit(kind, n) # CR
  BY DEF Unit, UnitSet, LF, CR

LEMMA LineEnds == CR # LF /\ CR.kind = "cr" /\ LF.kind = "lf" /\ CR \in UnitSet /\ LF \in UnitSet
  BY LineEndUnits DEF CR, LF, Unit

LEMMA HeadOfClean ==
  ASSUME NEW status \in Nat, NEW n \in Nat
  PROVE  CleanHead(HeadOf(status, n))
<1> DEFINE s == Unit("status", status)
           l == Unit("length", n)
           h == <<s, CR, LF, l, CR, LF, CR, LF>>
<1>1. /\ s \in UnitSet /\ s # LF /\ s # CR /\ s.kind = "status"
      /\ l \in UnitSet /\ l # LF /\ l # CR /\ l.kind = "length"
  BY UnitKinds DEF Kinds
<1>. HIDE DEF s, l
<1>2. /\ h \in Seq(UnitSet) /\ Len(h) = 8 /\ DOMAIN h = 1..8
      /\ h[1] = s /\ h[2] = CR /\ h[3] = LF /\ h[4] = l /\ h[5] = CR /\ h[6] = LF
      /\ h[7] = CR /\ h[8] = LF
  BY <1>1, LineEnds
<1>. HIDE DEF h
<1>3. \A i \in 1..(Len(h) - 1) : ~EmptyLineAt(h, i)
  <2>1. 1..(Len(h) - 1) = {1, 2, 3, 4, 5, 6, 7}
    BY <1>2
  <2>. QED
    BY <1>1, <1>2, <2>1, LineEnds DEF EmptyLineAt
<1>4. EmptyLineAt(h, Len(h)) /\ Len(h) > 0
  BY <1>2 DEF EmptyLineAt
<1>5. Ends(h)
  BY <1>2, <1>3, <1>4, EndsAtLastLine DEF Streams
<1>6. NoDigest(h)
  <2>1. DOMAIN h = {1, 2, 3, 4, 5, 6, 7, 8}
    BY <1>2
  <2>. QED
    BY <1>1, <1>2, <2>1, LineEnds DEF NoDigest
<1>7. HeadOf(status, n) = h
  BY DEF HeadOf, h, s, l
<1>. QED
  BY <1>2, <1>5, <1>6, <1>7 DEF CleanHead, Streams

\* A bare head: a status line, the lines in between and an empty line.
LEMMA BareHeadClean ==
  ASSUME NEW a \in UnitSet, a # LF, a # CR, a.kind # "digest"
  PROVE  CleanHead(<<a, LF, LF>>)
<1> DEFINE h == <<a, LF, LF>>
<1>1. /\ h \in Seq(UnitSet) /\ Len(h) = 3 /\ DOMAIN h = 1..3
      /\ h[1] = a /\ h[2] = LF /\ h[3] = LF
  BY LineEnds
<1>. HIDE DEF h
<1>2. 1..(Len(h) - 1) = {1, 2} /\ DOMAIN h = {1, 2, 3}
  BY <1>1
<1>3. Ends(h)
  <2>1. \A i \in 1..(Len(h) - 1) : ~EmptyLineAt(h, i)
    BY <1>1, <1>2, LineEnds DEF EmptyLineAt
  <2>2. EmptyLineAt(h, Len(h)) /\ Len(h) > 0
    BY <1>1 DEF EmptyLineAt
  <2>. QED
    BY <1>1, <2>1, <2>2, EndsAtLastLine DEF Streams
<1>4. NoDigest(h)
  BY <1>1, <1>2, LineEnds DEF NoDigest
<1>. QED
  BY <1>1, <1>3, <1>4 DEF CleanHead, Streams, h

LEMMA OneLineHeadClean ==
  ASSUME NEW a \in UnitSet, a # LF, a # CR, a.kind # "digest",
         NEW b \in UnitSet, b # LF, b # CR, b.kind # "digest"
  PROVE  CleanHead(<<a, LF, b, LF, LF>>)
<1> DEFINE h == <<a, LF, b, LF, LF>>
<1>1. /\ h \in Seq(UnitSet) /\ Len(h) = 5 /\ DOMAIN h = 1..5
      /\ h[1] = a /\ h[2] = LF /\ h[3] = b /\ h[4] = LF /\ h[5] = LF
  BY LineEnds
<1>. HIDE DEF h
<1>2. 1..(Len(h) - 1) = {1, 2, 3, 4} /\ DOMAIN h = {1, 2, 3, 4, 5}
  BY <1>1
<1>3. Ends(h)
  <2>1. \A i \in 1..(Len(h) - 1) : ~EmptyLineAt(h, i)
    BY <1>1, <1>2, LineEnds DEF EmptyLineAt
  <2>2. EmptyLineAt(h, Len(h)) /\ Len(h) > 0
    BY <1>1 DEF EmptyLineAt
  <2>. QED
    BY <1>1, <2>1, <2>2, EndsAtLastLine DEF Streams
<1>4. NoDigest(h)
  BY <1>1, <1>2, LineEnds DEF NoDigest
<1>. QED
  BY <1>1, <1>3, <1>4 DEF CleanHead, Streams, h

LEMMA TwoLineHeadClean ==
  ASSUME NEW a \in UnitSet, a # LF, a # CR, a.kind # "digest",
         NEW b \in UnitSet, b # LF, b # CR, b.kind # "digest"
  PROVE  CleanHead(<<a, LF, b, LF, b, LF, LF>>)
<1> DEFINE h == <<a, LF, b, LF, b, LF, LF>>
<1>1. /\ h \in Seq(UnitSet) /\ Len(h) = 7 /\ DOMAIN h = 1..7
      /\ h[1] = a /\ h[2] = LF /\ h[3] = b /\ h[4] = LF /\ h[5] = b /\ h[6] = LF /\ h[7] = LF
  BY LineEnds
<1>. HIDE DEF h
<1>2. 1..(Len(h) - 1) = {1, 2, 3, 4, 5, 6} /\ DOMAIN h = {1, 2, 3, 4, 5, 6, 7}
  BY <1>1
<1>3. Ends(h)
  <2>1. \A i \in 1..(Len(h) - 1) : ~EmptyLineAt(h, i)
    BY <1>1, <1>2, LineEnds DEF EmptyLineAt
  <2>2. EmptyLineAt(h, Len(h)) /\ Len(h) > 0
    BY <1>1 DEF EmptyLineAt
  <2>. QED
    BY <1>1, <2>1, <2>2, EndsAtLastLine DEF Streams
<1>4. NoDigest(h)
  BY <1>1, <1>2, LineEnds DEF NoDigest
<1>. QED
  BY <1>1, <1>3, <1>4 DEF CleanHead, Streams, h

\* A head that does not end within the limit.
LEMMA EndlessHeadClean == CleanHead([i \in 1..(MaxHead + 1) |-> Unit("field", 0)])
<1> DEFINE h == [i \in 1..(MaxHead + 1) |-> Unit("field", 0)]
<1>1. Unit("field", 0) \in UnitSet /\ Unit("field", 0) # LF /\ Unit("field", 0).kind = "field"
  BY UnitKinds DEF Kinds
<1>2. MaxHead + 1 \in Nat
  BY HeadAssumption
<1>3. h \in [1..(MaxHead + 1) -> UnitSet]
  BY <1>1
<1>4. h \in Streams
  BY <1>2, <1>3, SeqDef DEF Streams
<1>5. DOMAIN h = 1..(MaxHead + 1) /\ \A i \in 1..(MaxHead + 1) : h[i] = Unit("field", 0)
  BY <1>3
<1>. HIDE DEF h
<1>6. Len(h) = MaxHead + 1
  BY <1>2, <1>4, <1>5, LenProperties DEF Streams
<1>7. Ends(h)
  <2>1. \A i \in 1..(Len(h) - 1) : ~EmptyLineAt(h, i)
    BY <1>1, <1>2, <1>5, <1>6 DEF EmptyLineAt
  <2>2. Len(h) > MaxHead
    BY <1>6, HeadAssumption
  <2>. QED
    BY <1>4, <2>1, <2>2, EndsAtLastLine
<1>8. NoDigest(h)
  BY <1>1, <1>5 DEF NoDigest
<1>. QED
  BY <1>4, <1>7, <1>8 DEF CleanHead, h

\* The units of a status line, the lines that follow and the empty line.
LEMMA ThreeParts ==
  ASSUME NEW x \in Streams, NEW y \in Streams, NEW z \in Streams
  PROVE  LET h == x \o y \o z
         IN  /\ h \in Streams /\ Len(h) = Len(x) + Len(y) + Len(z)
             /\ \A i \in 1..Len(x) : h[i] = x[i]
             /\ \A i \in 1..Len(y) : h[Len(x) + i] = y[i]
             /\ \A i \in 1..Len(z) : h[Len(x) + Len(y) + i] = z[i]
<1> DEFINE xy == x \o y
           h == xy \o z
<1>1. Len(x) \in Nat /\ Len(y) \in Nat /\ Len(z) \in Nat
  BY StreamFacts
<1>2. /\ xy \in Streams /\ Len(xy) = Len(x) + Len(y)
      /\ \A i \in 1..Len(x) : xy[i] = x[i]
      /\ \A i \in (Len(x) + 1)..Len(xy) : xy[i] = y[i - Len(x)]
  BY JoinFacts
<1>. HIDE DEF xy
<1>3. /\ h \in Streams /\ Len(h) = Len(xy) + Len(z)
      /\ \A i \in 1..Len(xy) : h[i] = xy[i]
      /\ \A i \in (Len(xy) + 1)..Len(h) : h[i] = z[i - Len(xy)]
  BY <1>2, JoinFacts
<1>. HIDE DEF h
<1>4. \A i \in 1..Len(x) : i \in 1..Len(xy)
  BY <1>1, <1>2
<1>5. \A i \in 1..Len(y) : /\ Len(x) + i \in (Len(x) + 1)..Len(xy) /\ Len(x) + i \in 1..Len(xy)
                           /\ (Len(x) + i) - Len(x) = i
  BY <1>1, <1>2
<1>6. \A i \in 1..Len(z) : /\ Len(x) + Len(y) + i \in (Len(xy) + 1)..Len(h)
                           /\ (Len(x) + Len(y) + i) - Len(xy) = i
  BY <1>1, <1>2, <1>3
<1>7. \A i \in 1..Len(x) : h[i] = x[i]
  BY <1>2, <1>3, <1>4
<1>8. \A i \in 1..Len(y) : h[Len(x) + i] = y[i]
  BY <1>2, <1>3, <1>5
<1>9. \A i \in 1..Len(z) : h[Len(x) + Len(y) + i] = z[i]
  BY <1>3, <1>6
<1>. QED
  BY <1>2, <1>3, <1>7, <1>8, <1>9 DEF h, xy

LEMMA HeadOfNoLines ==
  ASSUME NEW a \in UnitSet
  PROVE  <<a, LF>> \o <<>> \o <<LF>> = <<a, LF, LF>>
<1> DEFINE x == <<a, LF>>
           y == <<>>
           z == <<LF>>
           h == x \o y \o z
           t == <<a, LF, LF>>
<1>1. /\ x \in Streams /\ y \in Streams /\ z \in Streams
      /\ Len(x) = 2 /\ Len(y) = 0 /\ Len(z) = 1
      /\ x[1] = a /\ x[2] = LF /\ z[1] = LF
  BY LineEnds, NoFileFacts DEF Streams
<1>2. t \in Streams /\ Len(t) = 3 /\ t[1] = a /\ t[2] = LF /\ t[3] = LF
  BY LineEnds DEF Streams
<1>. HIDE DEF x, y, z, t
<1>3. /\ h \in Streams /\ Len(h) = Len(x) + Len(y) + Len(z)
      /\ \A i \in 1..Len(x) : h[i] = x[i]
      /\ \A i \in 1..Len(y) : h[Len(x) + i] = y[i]
      /\ \A i \in 1..Len(z) : h[Len(x) + Len(y) + i] = z[i]
  <2>1. x \in Streams /\ y \in Streams /\ z \in Streams
    BY <1>1
  <2>. QED
    BY ONLY <2>1, ThreeParts
<1>. HIDE DEF h
<1>4. /\ 1..Len(x) = {1, 2} /\ 1..Len(z) = {1}
      /\ Len(x) + Len(y) + 1 = 3
  BY <1>1
<1>5. Len(h) = 3 /\ 1..Len(h) = {1, 2, 3}
  BY <1>1, <1>3
<1>6. /\ h[1] = x[1] /\ h[2] = x[2] /\ h[3] = z[1]
  BY <1>3, <1>4
<1>7. \A i \in 1..Len(h) : h[i] = t[i]
  BY <1>1, <1>2, <1>5, <1>6
<1>8. h = t
  BY <1>2, <1>3, <1>5, <1>7, SeqEqual DEF Streams
<1>. QED
  BY <1>8 DEF h, t, x, y, z

LEMMA HeadOfOneLine ==
  ASSUME NEW a \in UnitSet, NEW b \in UnitSet
  PROVE  <<a, LF>> \o <<b, LF>> \o <<LF>> = <<a, LF, b, LF, LF>>
<1> DEFINE x == <<a, LF>>
           y == <<b, LF>>
           z == <<LF>>
           h == x \o y \o z
           t == <<a, LF, b, LF, LF>>
<1>1. /\ x \in Streams /\ y \in Streams /\ z \in Streams
      /\ Len(x) = 2 /\ Len(y) = 2 /\ Len(z) = 1
      /\ x[1] = a /\ x[2] = LF /\ y[1] = b /\ y[2] = LF /\ z[1] = LF
  BY LineEnds DEF Streams
<1>2. /\ t \in Streams /\ Len(t) = 5
      /\ t[1] = a /\ t[2] = LF /\ t[3] = b /\ t[4] = LF /\ t[5] = LF
  BY LineEnds DEF Streams
<1>. HIDE DEF x, y, z, t
<1>3. /\ h \in Streams /\ Len(h) = Len(x) + Len(y) + Len(z)
      /\ \A i \in 1..Len(x) : h[i] = x[i]
      /\ \A i \in 1..Len(y) : h[Len(x) + i] = y[i]
      /\ \A i \in 1..Len(z) : h[Len(x) + Len(y) + i] = z[i]
  <2>1. x \in Streams /\ y \in Streams /\ z \in Streams
    BY <1>1
  <2>. QED
    BY ONLY <2>1, ThreeParts
<1>. HIDE DEF h
<1>4. /\ 1..Len(x) = {1, 2} /\ 1..Len(y) = {1, 2} /\ 1..Len(z) = {1}
      /\ Len(x) + 1 = 3 /\ Len(x) + 2 = 4 /\ Len(x) + Len(y) + 1 = 5
  BY <1>1
<1>5. Len(h) = 5 /\ 1..Len(h) = {1, 2, 3, 4, 5}
  BY <1>1, <1>3
<1>6. /\ h[1] = x[1] /\ h[2] = x[2] /\ h[3] = y[1] /\ h[4] = y[2]
      /\ h[5] = z[1]
  BY <1>3, <1>4
<1>7. \A i \in 1..Len(h) : h[i] = t[i]
  BY <1>1, <1>2, <1>5, <1>6
<1>8. h = t
  BY <1>2, <1>3, <1>5, <1>7, SeqEqual DEF Streams
<1>. QED
  BY <1>8 DEF h, t, x, y, z

LEMMA HeadOfTwoLines ==
  ASSUME NEW a \in UnitSet, NEW b \in UnitSet
  PROVE  <<a, LF>> \o <<b, LF, b, LF>> \o <<LF>> = <<a, LF, b, LF, b, LF, LF>>
<1> DEFINE x == <<a, LF>>
           y == <<b, LF, b, LF>>
           z == <<LF>>
           h == x \o y \o z
           t == <<a, LF, b, LF, b, LF, LF>>
<1>1. /\ x \in Streams /\ y \in Streams /\ z \in Streams
      /\ Len(x) = 2 /\ Len(y) = 4 /\ Len(z) = 1
      /\ x[1] = a /\ x[2] = LF /\ z[1] = LF
      /\ y[1] = b /\ y[2] = LF /\ y[3] = b /\ y[4] = LF
  BY LineEnds DEF Streams
<1>2. /\ t \in Streams /\ Len(t) = 7 /\ t[1] = a /\ t[2] = LF /\ t[3] = b /\ t[4] = LF
      /\ t[5] = b /\ t[6] = LF /\ t[7] = LF
  BY LineEnds DEF Streams
<1>. HIDE DEF x, y, z, t
<1>3. /\ h \in Streams /\ Len(h) = Len(x) + Len(y) + Len(z)
      /\ \A i \in 1..Len(x) : h[i] = x[i]
      /\ \A i \in 1..Len(y) : h[Len(x) + i] = y[i]
      /\ \A i \in 1..Len(z) : h[Len(x) + Len(y) + i] = z[i]
  <2>1. x \in Streams /\ y \in Streams /\ z \in Streams
    BY <1>1
  <2>. QED
    BY ONLY <2>1, ThreeParts
<1>. HIDE DEF h
<1>4. /\ 1..Len(x) = {1, 2} /\ 1..Len(y) = {1, 2, 3, 4} /\ 1..Len(z) = {1}
      /\ Len(x) + 1 = 3 /\ Len(x) + 2 = 4 /\ Len(x) + 3 = 5 /\ Len(x) + 4 = 6
      /\ Len(x) + Len(y) + 1 = 7
  BY <1>1
<1>5. Len(h) = 7 /\ 1..Len(h) = {1, 2, 3, 4, 5, 6, 7}
  BY <1>1, <1>3
<1>6. /\ h[1] = x[1] /\ h[2] = x[2] /\ h[3] = y[1] /\ h[4] = y[2]
      /\ h[5] = y[3] /\ h[6] = y[4] /\ h[7] = z[1]
  BY <1>3, <1>4
<1>7. \A i \in 1..Len(h) : h[i] = t[i]
  BY <1>1, <1>2, <1>5, <1>6
<1>8. h = t
  BY <1>2, <1>3, <1>5, <1>7, SeqEqual DEF Streams
<1>. QED
  BY <1>8 DEF h, t, x, y, z

LEMMA OddHeadsClean ==
  ASSUME NEW n \in Nat, NEW h \in OddHeads(n)
  PROVE  CleanHead(h)
<1> DEFINE a == Unit("status", 200)
<1>1. a \in UnitSet /\ a # LF /\ a # CR /\ a.kind # "digest"
  BY UnitKinds DEF Kinds
<1>2. ASSUME NEW kind \in {"chunked", "text", "length"}, NEW m \in Nat
      PROVE  Unit(kind, m) \in UnitSet /\ Unit(kind, m) # LF /\ Unit(kind, m) # CR
             /\ Unit(kind, m).kind # "digest"
  BY UnitKinds DEF Kinds
<1>. HIDE DEF a
<1>3. CASE \E m \in {0, 1, n + 1, SlotSize + 1, UsizeRange + 1} : h = HeadOf(200, m)
  BY <1>3, HeadOfClean, SessionAssumption, DownloadAssumption
<1>4. CASE h = HeadOf(500, n)
  BY <1>4, HeadOfClean
<1>5. ASSUME NEW b \in UnitSet, b # LF, b # CR, b.kind # "digest",
             h = <<a, LF>> \o <<b, LF>> \o <<LF>>
      PROVE  CleanHead(h)
  <2>1. h = <<a, LF, b, LF, LF>>
    BY <1>1, <1>5, HeadOfOneLine
  <2>. QED
    BY <1>1, <1>5, <2>1, OneLineHeadClean
<1>6. CASE h = <<a, LF>> \o <<>> \o <<LF>>
  <2>1. h = <<a, LF, LF>>
    BY <1>1, <1>6, HeadOfNoLines
  <2>. QED
    BY <1>1, <2>1, BareHeadClean
<1>7. ASSUME NEW b \in UnitSet, b # LF, b # CR, b.kind # "digest",
             h = <<a, LF>> \o <<b, LF, b, LF>> \o <<LF>>
      PROVE  CleanHead(h)
  <2>1. h = <<a, LF, b, LF, b, LF, LF>>
    BY <1>1, <1>7, HeadOfTwoLines
  <2>. QED
    BY <1>1, <1>7, <2>1, TwoLineHeadClean
<1>8. \/ \E m \in {0, 1, n + 1, SlotSize + 1, UsizeRange + 1} : h = HeadOf(200, m)
      \/ h = HeadOf(500, n)
      \/ h = <<a, LF>> \o <<Unit("chunked", 0), LF>> \o <<LF>>
      \/ h = <<a, LF>> \o <<>> \o <<LF>>
      \/ h = <<a, LF>> \o <<Unit("text", 0), LF>> \o <<LF>>
      \/ h = <<a, LF>> \o <<Unit("length", n), LF, Unit("length", n), LF>> \o <<LF>>
      \/ h = [i \in 1..(MaxHead + 1) |-> Unit("field", 0)]
  BY DEF OddHeads, a
<1>9. CASE h = <<a, LF>> \o <<Unit("chunked", 0), LF>> \o <<LF>>
  BY <1>2, <1>5, <1>9
<1>10. CASE h = <<a, LF>> \o <<Unit("text", 0), LF>> \o <<LF>>
  BY <1>2, <1>5, <1>10
<1>11. CASE h = <<a, LF>> \o <<Unit("length", n), LF, Unit("length", n), LF>> \o <<LF>>
  BY <1>2, <1>7, <1>11
<1>12. CASE h = [i \in 1..(MaxHead + 1) |-> Unit("field", 0)]
  BY <1>12, EndlessHeadClean
<1>. QED
  BY <1>3, <1>4, <1>6, <1>8, <1>9, <1>10, <1>11, <1>12

LEMMA AppendFacts ==
  ASSUME NEW x \in Streams, NEW c \in UnitSet
  PROVE  /\ Append(x, c) \in Streams /\ Len(Append(x, c)) = Len(x) + 1
         /\ \A i \in 1..Len(x) : Append(x, c)[i] = x[i]
         /\ Append(x, c)[Len(x) + 1] = c
  BY AppendProperties DEF Streams

LEMMA AppendToOne ==
  ASSUME NEW a \in UnitSet, NEW b \in UnitSet
  PROVE  Append(<<a>>, b) = <<a, b>>
<1> DEFINE x == <<a>>
           t == <<a, b>>
<1>1. x \in Streams /\ Len(x) = 1 /\ x[1] = a
  BY DEF Streams
<1>2. t \in Streams /\ Len(t) = 2 /\ t[1] = a /\ t[2] = b
  BY DEF Streams
<1>. HIDE DEF x, t
<1>3. /\ Append(x, b) \in Streams /\ Len(Append(x, b)) = 2
      /\ Append(x, b)[1] = a /\ Append(x, b)[2] = b
  <2>1. /\ Append(x, b) \in Streams /\ Len(Append(x, b)) = Len(x) + 1
        /\ \A i \in 1..Len(x) : Append(x, b)[i] = x[i]
        /\ Append(x, b)[Len(x) + 1] = b
    BY <1>1, AppendFacts
  <2>2. 1 \in 1..Len(x) /\ Len(x) + 1 = 2
    BY <1>1
  <2>. QED
    BY <1>1, <2>1, <2>2
<1>4. \A i \in 1..2 : Append(x, b)[i] = t[i]
  <2>1. 1..2 = {1, 2}
    OBVIOUS
  <2>. QED
    BY <1>2, <1>3, <2>1
<1>. QED
  BY <1>2, <1>3, <1>4, SeqEqual DEF Streams, x, t

LEMMA AppendToTwo ==
  ASSUME NEW a \in UnitSet, NEW b \in UnitSet, NEW c \in UnitSet
  PROVE  Append(<<a, b>>, c) = <<a, b, c>>
<1> DEFINE x == <<a, b>>
           t == <<a, b, c>>
<1>1. x \in Streams /\ Len(x) = 2 /\ x[1] = a /\ x[2] = b
  BY DEF Streams
<1>2. t \in Streams /\ Len(t) = 3 /\ t[1] = a /\ t[2] = b /\ t[3] = c
  BY DEF Streams
<1>. HIDE DEF x, t
<1>3. /\ Append(x, c) \in Streams /\ Len(Append(x, c)) = 3
      /\ Append(x, c)[1] = a /\ Append(x, c)[2] = b /\ Append(x, c)[3] = c
  <2>1. /\ Append(x, c) \in Streams /\ Len(Append(x, c)) = Len(x) + 1
        /\ \A i \in 1..Len(x) : Append(x, c)[i] = x[i]
        /\ Append(x, c)[Len(x) + 1] = c
    BY <1>1, AppendFacts
  <2>2. 1 \in 1..Len(x) /\ 2 \in 1..Len(x) /\ Len(x) + 1 = 3
    BY <1>1
  <2>. QED
    BY <1>1, <2>1, <2>2
<1>4. \A i \in 1..3 : Append(x, c)[i] = t[i]
  <2>1. 1..3 = {1, 2, 3}
    OBVIOUS
  <2>. QED
    BY <1>2, <1>3, <2>1
<1>. QED
  BY <1>2, <1>3, <1>4, SeqEqual DEF Streams, x, t

LEMMA VersionTextFacts ==
  ASSUME NEW v \in Versions
  PROVE  VersionText(v) \in Streams /\ NoDigest(VersionText(v))
<1>1. v \in 1..99
  BY ReleaseAssumption
<1>2. CASE v < 10
  <2> DEFINE d == Unit("digit", v)
             t == <<d, LF>>
  <2>1. d \in UnitSet /\ d.kind = "digit"
    BY <1>1, UnitKinds DEF Kinds
  <2>. HIDE DEF d
  <2>2. VersionText(v) = t
    <3>1. VersionText(v) = <<d>> \o <<LF>>
      BY <1>2 DEF VersionText, d
    <3>2. <<d>> \o <<LF>> = Append(<<d>>, LF)
      BY <2>1, LineEnds, AppendIsConcat
    <3>3. Append(<<d>>, LF) = t
      BY <2>1, LineEnds, AppendToOne
    <3>. QED
      BY <3>1, <3>2, <3>3
  <2>3. t \in Seq(UnitSet) /\ DOMAIN t = {1, 2} /\ t[1] = d /\ t[2] = LF
    BY <2>1, LineEnds
  <2>. HIDE DEF t
  <2>. QED
    BY <2>1, <2>2, <2>3, LineEnds DEF NoDigest, Streams
<1>3. CASE ~(v < 10)
  <2> DEFINE d == Unit("digit", v \div 10)
             e == Unit("digit", v % 10)
             t == <<d, e, LF>>
  <2>1. v \div 10 \in Nat /\ v % 10 \in Nat
    BY <1>1
  <2>2. d \in UnitSet /\ d.kind = "digit" /\ e \in UnitSet /\ e.kind = "digit"
    BY <2>1, UnitKinds DEF Kinds
  <2>. HIDE DEF d, e
  <2>3. VersionText(v) = t
    <3>1. VersionText(v) = <<d, e>> \o <<LF>>
      BY <1>3 DEF VersionText, d, e
    <3>2. <<d, e>> \o <<LF>> = Append(<<d, e>>, LF)
      BY <2>2, LineEnds, AppendIsConcat
    <3>3. Append(<<d, e>>, LF) = t
      BY <2>2, LineEnds, AppendToTwo
    <3>. QED
      BY <3>1, <3>2, <3>3
  <2>4. t \in Seq(UnitSet) /\ DOMAIN t = {1, 2, 3} /\ t[1] = d /\ t[2] = e /\ t[3] = LF
    BY <2>2, LineEnds
  <2>. HIDE DEF t
  <2>. QED
    BY <2>2, <2>3, <2>4, LineEnds DEF NoDigest, Streams
<1>. QED
  BY <1>2, <1>3

LEMMA FileFacts ==
  ASSUME ReleaseInv, NEW file \in {"version", "sha256", "bin"}, NEW v \in Nat
  PROVE  /\ FileOf(file, v) \in Files /\ Sourced(FileOf(file, v).data, v)
         /\ file # "version" /\ FileOf(file, v).exists => v \in Versions
<1>1. CASE file = "version"
  <2>1. named \in Versions
    BY DEF ReleaseInv, ReleaseTyped
  <2>2. VersionText(named) \in Streams /\ Sourced(VersionText(named), v)
    BY <2>1, VersionTextFacts, NoDigestSourced
  <2>3. FileOf(file, v) = File(VersionText(named), TRUE)
    BY <1>1 DEF FileOf
  <2>4. FileOf(file, v).data = VersionText(named)
    BY <2>3 DEF File
  <2>5. FileOf(file, v) \in Files
    BY <2>2, <2>3 DEF File, Files
  <2>. QED
    BY <1>1, <2>2, <2>4, <2>5
<1>2. CASE file # "version" /\ v \notin Versions
  <2>1. FileOf(file, v) = NoFile
    BY <1>2 DEF FileOf
  <2>. QED
    BY <2>1, NoFileFacts DEF NoFile, Files
<1>3. CASE file = "sha256" /\ v \in Versions
  <2>1. FileOf(file, v) = shas[v]
    BY <1>3 DEF FileOf
  <2>. QED
    BY <1>3, <2>1 DEF ReleaseInv, ReleaseTyped, Contents
<1>4. CASE file = "bin" /\ v \in Versions
  <2>1. FileOf(file, v) = bins[v]
    BY <1>4 DEF FileOf
  <2>2. Sourced(bins[v].data, v)
    BY <1>4 DEF ReleaseInv, Contents, Sourced
  <2>. QED
    BY <1>4, <2>1, <2>2 DEF ReleaseInv, ReleaseTyped
<1>. QED
  BY <1>1, <1>2, <1>3, <1>4

\* The answer to a request for a file of version v.
Answers(r, v) ==
  /\ r \in ConnSet /\ r.at = 0 /\ r.version = v
  /\ CleanHead(r.head) /\ Sourced(r.body, v)
  /\ r.linked /\ r.file \in {"sha256", "bin"} => v \in Versions

LEMMA ResponseFacts ==
  ASSUME ReleaseInv, NEW file \in {"version", "sha256", "bin"}, NEW v \in Nat
  PROVE  Answers(Response(file, v), v)
<1> DEFINE f == FileOf(file, v)
           n == IF f.exists /\ f.readable THEN Len(f.data) ELSE ErrorPage
           status == IF ~f.exists THEN 404 ELSE IF f.readable THEN 200 ELSE 403
           head == HeadOf(status, n)
<1>1. /\ f \in Files /\ Sourced(f.data, v)
      /\ file # "version" /\ f.exists => v \in Versions
  BY FileFacts
<1>2. Response(file, v) =
        [NoConn EXCEPT !.head = head, !.body = f.data, !.size = n, !.file = file,
                       !.version = v, !.linked = f.exists /\ f.readable]
  BY DEF Response
<1>. HIDE DEF f
<1>3. f.data \in Streams /\ Len(f.data) \in Nat /\ f.exists \in BOOLEAN /\ f.readable \in BOOLEAN
  BY <1>1, StreamFacts DEF Files
<1>4. n \in Nat /\ status \in Nat
  BY <1>3 DEF ErrorPage
<1>. HIDE DEF n, status
<1>5. CleanHead(head) /\ head \in Streams
  BY <1>4, HeadOfClean DEF CleanHead
<1>. HIDE DEF head
<1> DEFINE r == Response(file, v)
<1>6. /\ r.head = head /\ r.body = f.data /\ r.size = n /\ r.file = file /\ r.at = 0
      /\ r.version = v /\ r.linked = (f.exists /\ f.readable)
      /\ r = [head |-> head, body |-> f.data, at |-> 0, size |-> n, file |-> file,
              version |-> v, linked |-> f.exists /\ f.readable]
  BY <1>2 DEF NoConn
<1>7. r \in ConnSet
  BY <1>3, <1>4, <1>5, <1>6 DEF ConnSet
<1>. HIDE DEF r
<1>8. Answers(r, v)
  BY <1>1, <1>3, <1>5, <1>6, <1>7 DEF Answers
<1>. QED
  BY <1>8 DEF r

\* A server that does not work, too, sends heads that end.
LEMMA OddResponseFacts ==
  ASSUME ReleaseInv, NEW file \in {"version", "sha256", "bin"}, NEW v \in Nat,
         NEW head \in OddHeads(Response(file, v).size)
  PROVE  Answers([Response(file, v) EXCEPT !.head = head], v)
<1>1. Answers(Response(file, v), v)
  BY ResponseFacts
<1> DEFINE r == Response(file, v)
<1>. HIDE DEF r
<1>2. r.size \in Nat
  BY <1>1 DEF Answers, ConnSet, r
<1>3. CleanHead(head) /\ head \in Streams
  BY <1>2, OddHeadsClean DEF CleanHead, r
<1>4. Answers(r, v)
  BY <1>1 DEF r
<1>5. Answers([r EXCEPT !.head = head], v)
  BY <1>3, <1>4 DEF Answers, ConnSet
<1>. QED
  BY <1>5 DEF r

-----------------------------------------------------------------------------
(* What the device makes of a text                                         *)

LEMMA LeastOf ==
  ASSUME NEW T, T \subseteq Nat, T # {}
  PROVE  Min(T) \in T /\ \A n \in T : Min(T) <= n
<1>1. PICK m \in T : \A n \in T : ~(<<n, m>> \in OpToRel(<, Nat))
  <2>1. IsWellFoundedOn(OpToRel(<, Nat), Nat)
    BY NatLessThanWellFounded
  <2>. QED
    BY <2>1, WFMin
<1>2. m \in Nat /\ \A n \in T : n \in Nat
  OBVIOUS
<1>3. \A n \in T : ~(n < m)
  BY <1>1, <1>2 DEF OpToRel
<1>4. \A n \in T : m <= n
  BY <1>2, <1>3
<1>. QED
  BY <1>4 DEF Min

LEMMA GreatestOf ==
  ASSUME NEW top \in Nat, NEW T, T \subseteq 0..top, T # {}
  PROVE  Max(T) \in T /\ \A n \in T : Max(T) >= n
<1> DEFINE D == {top - n : n \in T}
<1>0. \A n \in T : n \in Nat /\ top - n \in Nat /\ top - n \in D
  OBVIOUS
<1>1. D \subseteq Nat /\ D # {}
  BY <1>0
<1>2. Min(D) \in D /\ \A d \in D : Min(D) <= d
  BY <1>1, LeastOf
<1>3. PICK m \in T : \A d \in D : top - m <= d
  BY <1>2
<1>. HIDE DEF D
<1>4. ASSUME NEW n \in T
      PROVE  m >= n
  <2>1. top - m <= top - n /\ n \in Nat /\ m \in Nat
    BY <1>0, <1>3
  <2>. QED
    BY <2>1
<1>. QED
  BY <1>4 DEF Max

\* What is left of a text when it is trimmed.
LEMMA DigitsFacts ==
  ASSUME NEW units \in Streams
  PROVE  /\ Digits(units) \in Streams /\ Len(Digits(units)) \in Nat
         /\ \A v : Sourced(units, v) => Sourced(Digits(units), v)
<1> DEFINE kept == {i \in DOMAIN units : units[i] \notin {CR, LF}}
<1>1. Digits(units) = IF kept = {} THEN <<>> ELSE SubSeq(units, Min(kept), Max(kept))
  BY DEF Digits
<1>2. Len(units) \in Nat /\ kept \subseteq 1..Len(units)
  BY StreamFacts
<1>. HIDE DEF kept
<1>3. CASE kept = {}
  BY <1>1, <1>3, NoFileFacts
<1>4. CASE kept # {}
  <2>1. kept \subseteq Nat /\ kept \subseteq 0..Len(units)
    BY <1>2
  <2>2. Min(kept) \in kept /\ Max(kept) \in kept
    BY <1>2, <1>4, <2>1, LeastOf, GreatestOf
  <2>3. PICK a \in Nat, n \in 0..Len(units) : Min(kept) = a + 1 /\ Max(kept) = n
    <3>1. PICK low \in 1..Len(units) : low = Min(kept)
      BY <1>2, <2>2
    <3>2. PICK high \in 1..Len(units) : high = Max(kept)
      BY <1>2, <2>2
    <3>3. low - 1 \in Nat /\ low = (low - 1) + 1 /\ high \in 0..Len(units)
      BY <1>2
    <3>. QED
      BY <3>1, <3>2, <3>3
  <2>4. Digits(units) = SubSeq(units, a + 1, n)
    BY <1>1, <1>4, <2>3
  <2>5. SubSeq(units, a + 1, n) \in Streams
    BY TailFacts
  <2>6. \A v : Sourced(units, v) => Sourced(SubSeq(units, a + 1, n), v)
    BY SourcedTail
  <2>. QED
    BY <2>4, <2>5, <2>6, StreamFacts
<1>. QED
  BY <1>3, <1>4

LEMMA ParseVersionType ==
  ASSUME NEW units \in Streams
  PROVE  ParseVersion(units) \in Nat
<1>1. PICK d \in Streams : d = Digits(units)
  BY DigitsFacts
<1> DEFINE Is(g, n) == g = [i \in 0..n |-> IF i = 0 THEN 0 ELSE 10 * g[i - 1] + d[i].n]
           S == {n \in Nat : \E g : Is(g, n)}
<1>2. 0 \in S
  <2>1. Is([i \in {0} |-> 0], 0)
    OBVIOUS
  <2>. QED
    BY <2>1
<1>3. ASSUME NEW n \in Nat, n \in S
      PROVE  n + 1 \in S
  <2>1. PICK g : Is(g, n)
    BY <1>3
  <2> DEFINE h == [i \in 0..(n + 1) |-> IF i = n + 1 THEN 10 * g[n] + d[n + 1].n ELSE g[i]]
  <2>2. \A i \in 0..(n + 1) : h[i] = IF i = 0 THEN 0 ELSE 10 * h[i - 1] + d[i].n
    BY <2>1
  <2>3. Is(h, n + 1)
    BY <2>2
  <2>. HIDE DEF h, Is
  <2>. QED
    BY <2>3
<1>. HIDE DEF S
<1>4. Nat \subseteq S
  BY <1>2, <1>3, SetInduction
<1>5. Len(d) \in Nat
  BY StreamFacts
<1>6. \E g : Is(g, Len(d))
  BY <1>4, <1>5 DEF S
<1>7. PICK value : Is(value, Len(d)) /\ ParseVersion(units) = value[Len(d)]
  <2> DEFINE chosen == CHOOSE g : Is(g, Len(d))
  <2>1. Is(chosen, Len(d))
    BY <1>6
  <2>2. ParseVersion(units) = chosen[Len(d)]
    BY <1>1 DEF ParseVersion
  <2>. HIDE DEF chosen, Is
  <2>. QED
    BY <2>1, <2>2
<1> DEFINE T == {n \in Nat : n <= Len(d) => value[n] \in Nat}
<1>8. 0 \in T
  BY <1>5, <1>7
<1>9. ASSUME NEW n \in Nat, n \in T
      PROVE  n + 1 \in T
  <2>1. ASSUME n + 1 <= Len(d)
        PROVE  value[n + 1] \in Nat
    <3>1. value[n] \in Nat /\ n + 1 \in 1..Len(d) /\ n + 1 # 0 /\ (n + 1) - 1 = n
      BY <1>5, <1>9, <2>1
    <3>2. d[n + 1] \in UnitSet
      BY <3>1, ElementOfSeq DEF Streams
    <3>3. d[n + 1].n \in Nat
      BY <3>2 DEF UnitSet
    <3>4. value[n + 1] = 10 * value[n] + d[n + 1].n
      BY <1>5, <1>7, <3>1
    <3>. QED
      BY <3>1, <3>3, <3>4
  <2>. QED
    BY <2>1
<1>. HIDE DEF T
<1>10. Nat \subseteq T
  BY <1>8, <1>9, SetInduction
<1>. QED
  BY <1>5, <1>7, <1>10 DEF T

-----------------------------------------------------------------------------
(* The steps of a check                                                    *)

LEMMA SourcedSame ==
  ASSUME UNCHANGED built, NEW units, NEW v, Sourced(units, v)
  PROVE  Sourced(units, v)'
  BY DEF Sourced

LEMMA NoConnFacts == NoConn \in ConnSet /\ NoConn.head = <<>> /\ NoConn.body = <<>> /\ ~NoConn.linked
<1>1. Factory \in Nat
  BY ReleaseAssumption
<1>. QED
  BY <1>1, NoFileFacts DEF NoConn, ConnSet

LEMMA FaultFacts ==
  ASSUME faults \in 0..MaxFaults, Ok \/ Fault
  PROVE  faults' \in 0..MaxFaults
  BY DownloadAssumption DEF Ok, Fault

\* Between two requests there is no connection, no text and no session.
LEMMA BetweenRequests ==
  ASSUME pc' \in {"wait", "connect"}, want' \in {"version", "sha256", "bin"},
         remote' \in Nat, faults' \in 0..MaxFaults,
         conn' = NoConn, parser' = NewParser, leftover' = <<>>, text' = <<>>, EndSession,
         want' = "bin" => expected' \in DOMAIN built' /\ built'[expected'] = remote',
         want' # "bin" => expected' = None
  PROVE  CheckInv'
<1>1. /\ pc' # "head" /\ pc' # "text" /\ pc' # "body" /\ pc' # "mark"
      /\ NoSession' /\ length' = 0
  BY SessionEnds
<1>2. conn' \in ConnSet /\ conn'.head = <<>> /\ conn'.body = <<>> /\ ~conn'.linked
  BY NoConnFacts
<1>3. Sound(parser') /\ Within(parser') /\ parser'.event = "more"
  BY NewParserSound
<1>4. leftover' \in Streams /\ text' \in Streams /\ Len(leftover') < ReadChunk /\ length' \in Nat
  BY <1>1, NoFileFacts, DownloadAssumption
<1>5. DeviceTyped'
  BY <1>2, <1>3, <1>4 DEF DeviceTyped, Sound, Within
<1>6. SourceInv'
  BY <1>1, <1>2, NoFileFacts DEF SourceInv, Sourced
<1>7. HeadInv' /\ BodyInv' /\ SessionInv'
  BY <1>1 DEF HeadInv, BodyInv, SessionInv
<1>. QED
  BY <1>5, <1>6, <1>7 DEF CheckInv

\* However a check ends, nothing of it is left.
LEMMA ReturnStep ==
  ASSUME Return, EndSession, faults' \in 0..MaxFaults
  PROVE  CheckInv'
<1>1. Factory \in Nat
  BY ReleaseAssumption
<1>. QED
  BY <1>1, BetweenRequests DEF Return

LEMMA CheckStart == Init => CheckInv
<1>. SUFFICES ASSUME Init PROVE CheckInv
  OBVIOUS
<1>. USE DEF Init
<1>1. Factory \in Nat /\ 0 \in 0..MaxFaults /\ 0 < ReadChunk
  BY ReleaseAssumption, DownloadAssumption
<1>2. conn \in ConnSet /\ conn.head = <<>> /\ conn.body = <<>> /\ ~conn.linked
  BY NoConnFacts
<1>3. Sound(parser) /\ Within(parser) /\ parser.event = "more"
  BY NewParserSound
<1>4. DeviceTyped
  BY <1>1, <1>2, <1>3, NoFileFacts DEF DeviceTyped
<1>5. SourceInv
  BY <1>2, NoFileFacts DEF SourceInv
<1>6. HeadInv /\ BodyInv /\ SessionInv
  BY DEF HeadInv, BodyInv, SessionInv, NoSession
<1>. QED
  BY <1>4, <1>5, <1>6 DEF CheckInv

LEMMA WakeStep ==
  ASSUME CheckInv, Wake
  PROVE  CheckInv'
<1>. USE DEF Wake, Device, Ok, releaseVars, sessionVars, CheckInv
<1>1. DeviceTyped'
  BY DEF DeviceTyped, Sound, Within
<1>2. SourceInv'
  BY DEF SourceInv, Sourced
<1>3. HeadInv' /\ BodyInv'
  BY DEF HeadInv, BodyInv
<1>4. SessionInv'
  BY DEF SessionInv, NoSession
<1>. QED
  BY <1>1, <1>2, <1>3, <1>4

LEMMA ConnectedStep ==
  ASSUME CheckInv, NEW answer, Answers(answer, remote), Connected(answer), Ok \/ Fault
  PROVE  CheckInv'
<1>. USE DEF Connected, Device, releaseVars, sessionVars, CheckInv
<1>1. faults' \in 0..MaxFaults
  BY FaultFacts DEF DeviceTyped
<1>2. Sound(parser') /\ Within(parser') /\ parser'.event = "more"
  BY NewParserSound
<1>3. answer \in ConnSet /\ answer.at = 0 /\ answer.version = remote /\ CleanHead(answer.head)
      /\ Sourced(answer.body, remote) /\ Sourced(answer.head, remote)
      /\ (answer.linked /\ answer.file \in {"sha256", "bin"} => answer.version \in Versions)
  BY NoDigestSourced DEF Answers, CleanHead
<1>4. DeviceTyped'
  BY <1>1, <1>2, <1>3, NoFileFacts, DownloadAssumption DEF DeviceTyped, Sound, Within
<1>5. SourceInv'
  <2>1. Sourced(answer.body, remote)' /\ Sourced(answer.head, remote)' /\ Sourced(text, remote)'
    BY <1>3, NoFileFacts DEF Sourced
  <2>. QED
    BY <1>3, <2>1 DEF SourceInv, Sourced
<1>6. HeadInv'
  <2>1. PICK h \in Streams : h = answer.head
    BY <1>3 DEF CleanHead
  <2>2. Ends(h) /\ Len(h) \in Nat
    BY <1>3, <2>1, StreamFacts DEF CleanHead
  <2>3. 0 \in 0..Len(h) /\ NewParser = Fed(NewParser, h)[0]
    BY <2>2, FedAt
  <2>4. SubSeq(h, 0 + 1, Len(h)) = h
    BY SubSeqFull DEF Streams
  <2>5. InHead(NewParser, answer.head)
    BY <2>1, <2>2, <2>3, <2>4 DEF InHead
  <2>. QED
    BY <1>2, <1>3, <2>5 DEF HeadInv
<1>7. BodyInv'
  BY DEF BodyInv
<1>8. SessionInv'
  BY DEF SessionInv, NoSession
<1>. QED
  BY <1>4, <1>5, <1>6, <1>7, <1>8

LEMMA TailOfTail ==
  ASSUME NEW h \in Streams, NEW j \in 0..Len(h), NEW k \in Nat
  PROVE  SubSeq(SubSeq(h, j + 1, Len(h)), k + 1, Len(SubSeq(h, j + 1, Len(h))))
           = SubSeq(h, (j + k) + 1, Len(h))
<1> DEFINE x == SubSeq(h, j + 1, Len(h))
           y == SubSeq(x, k + 1, Len(x))
           z == SubSeq(h, (j + k) + 1, Len(h))
<1>1. Len(h) \in Nat /\ Len(h) \in 0..Len(h) /\ j \in Nat /\ j + k \in Nat
  BY StreamFacts
<1>2. /\ x \in Streams /\ Len(x) = (IF j < Len(h) THEN Len(h) - j ELSE 0)
      /\ \A i \in 1..Len(x) : x[i] = h[j + i]
  BY <1>1, TailFacts
<1>3. /\ z \in Streams /\ Len(z) = (IF j + k < Len(h) THEN Len(h) - (j + k) ELSE 0)
      /\ \A i \in 1..Len(z) : z[i] = h[(j + k) + i]
  BY <1>1, TailFacts
<1>. HIDE DEF x, z
<1>4. Len(x) \in Nat /\ Len(x) \in 0..Len(x)
  BY <1>1, <1>2
<1>5. /\ y \in Streams /\ Len(y) = (IF k < Len(x) THEN Len(x) - k ELSE 0)
      /\ \A i \in 1..Len(y) : y[i] = x[k + i]
  BY <1>2, <1>4, TailFacts
<1>. HIDE DEF y
<1>6. Len(y) = Len(z)
  BY <1>1, <1>2, <1>3, <1>5
<1>7. ASSUME NEW i \in 1..Len(y)
      PROVE  y[i] = z[i]
  <2>1. k + i \in 1..Len(x) /\ i \in 1..Len(z) /\ j + (k + i) = (j + k) + i
    BY <1>1, <1>4, <1>5, <1>6
  <2>. QED
    BY <1>2, <1>3, <1>5, <2>1
<1>8. y = z
  BY <1>3, <1>5, <1>6, <1>7, SeqEqual DEF Streams
<1>. QED
  BY <1>8 DEF x, y, z

\* A read of the head: the parser goes on where it was, and when it is through
\* with the head everything behind it, and nothing else, is left over.
ReadOf(k) == k \in 1..Min({ReadChunk, Len(Wire)})

LEMMA HeadChunk ==
  ASSUME CheckInv, pc = "head", NEW k, ReadOf(k),
         NEW units, units = SubSeq(Wire, 1, k), NEW p, p = Feed(parser, units)
  PROVE  /\ Sound(p) /\ Within(p) /\ conn.at = 0 /\ k \in Nat
         /\ Sourced(units, remote)
         /\ p.event = "more" => Read(k).at = 0 /\ InHead(p, Read(k).head)
         /\ p.event = "complete" =>
              /\ Read(k).head = <<>>
              /\ Leftover(parser, units) \in Streams
              /\ Len(Leftover(parser, units)) < ReadChunk
              /\ Len(Leftover(parser, units)) = Read(k).at
              /\ Sourced(Leftover(parser, units), remote)
<1>. USE DEF CheckInv
<1>1. conn \in ConnSet /\ Sound(parser) /\ Within(parser) /\ parser.event = "more"
  BY DEF DeviceTyped, HeadInv
<1>2. /\ Wire \in Streams /\ Len(Wire) \in Nat /\ Len(Wire) >= Len(conn.head)
      /\ Len(conn.head) \in Nat /\ conn.head \in Streams
      /\ \A i \in 1..Len(conn.head) : Wire[i] = conn.head[i]
      /\ conn.head = <<>> /\ conn.size = conn.at => Wire = <<>>
      /\ Sourced(Wire, remote)
  BY <1>1, WireFacts DEF SourceInv, ConnSet
<1>3. k \in Nat /\ k >= 1 /\ k <= ReadChunk /\ k <= Len(Wire) /\ ReadChunk \in Nat
  BY <1>2, MinOfTwo, DownloadAssumption DEF ReadOf
<1>4. k \in 0..Len(Wire) /\ SubSeq(Wire, 1, k) = units
  BY <1>2, <1>3
<1>5. /\ units \in Streams /\ Len(units) = k
      /\ \A i \in 1..k : units[i] = Wire[i]
      /\ Sourced(units, remote)
  <2>1. Wire \in Streams /\ k \in 0..Len(Wire) /\ Sourced(Wire, remote)
    BY <1>2, <1>4
  <2>2. /\ SubSeq(Wire, 1, k) \in Streams
        /\ Len(SubSeq(Wire, 1, k)) = k
        /\ \A i \in 1..k : SubSeq(Wire, 1, k)[i] = Wire[i]
        /\ Sourced(SubSeq(Wire, 1, k), remote)
    BY ONLY <2>1, StartFacts
  <2>. QED
    BY <1>4, <2>2
<1>6. Wire # <<>>
  BY <1>2, <1>3, NoFileFacts
<1>7. conn.at = 0
  BY <1>2, <1>6 DEF HeadInv
<1>8. PICK h \in Streams : \E j \in 0..Len(h) :
               /\ Ends(h) /\ parser = Fed(NewParser, h)[j]
               /\ conn.head = SubSeq(h, j + 1, Len(h))
  BY <1>2, <1>6 DEF HeadInv, InHead
<1>9. PICK j \in 0..Len(h) :
               /\ Ends(h) /\ parser = Fed(NewParser, h)[j]
               /\ conn.head = SubSeq(h, j + 1, Len(h))
  BY <1>8
<1>10. Len(h) \in Nat /\ j \in Nat /\ Len(h) \in 0..Len(h)
  BY StreamFacts
<1>11. /\ Len(conn.head) = (IF j < Len(h) THEN Len(h) - j ELSE 0)
       /\ \A i \in 1..Len(conn.head) : conn.head[i] = h[j + i]
  BY <1>9, <1>10, TailFacts
<1>12. \A i \in 1..Len(units) : j + i <= Len(h) => units[i] = h[j + i]
  <2>1. ASSUME NEW i \in 1..Len(units), j + i <= Len(h)
        PROVE  i \in 1..k /\ i \in 1..Len(conn.head)
    BY <1>3, <1>5, <1>10, <1>11, <2>1
  <2>. QED
    BY <1>2, <1>5, <1>11, <2>1
<1>13. /\ j < Len(h)
       /\ p.event = "more" => j + k < Len(h) /\ p = Fed(NewParser, h)[j + k]
       /\ p.event = "complete" => j + k >= Len(h) /\ p.total - parser.total = Len(h) - j
  <2>1. GoesOn(h, j, parser, units)
    BY <1>9, <1>12 DEF GoesOn
  <2>2. /\ j < Len(h)
        /\ Feed(parser, units).event = "more" =>
             j + Len(units) < Len(h) /\ Feed(parser, units) = Fed(NewParser, h)[j + Len(units)]
        /\ Feed(parser, units).event = "complete" =>
             j + Len(units) >= Len(h) /\ Feed(parser, units).total - parser.total = Len(h) - j
    <3>1. parser.event = "more" /\ units \in Streams
      BY <1>1, <1>5
    <3>. QED
      BY ONLY <2>1, <3>1, HeadRead
  <2>. QED
    BY <1>5, <2>2
<1>14. Sound(p) /\ Within(p) /\ p.total \in Nat /\ parser.total \in Nat
  <2>1. Len(units) \in 0..Len(units)
    BY <1>3, <1>5
  <2>2. Sound(p) /\ Within(p)
    BY <1>1, <1>5, <2>1, FedFacts DEF Feed
  <2>. QED
    BY <1>1, <2>2 DEF Sound, ParserSet
<1>15. ASSUME p.event = "more"
       PROVE  Read(k).at = 0 /\ InHead(p, Read(k).head)
  <2>1. j + k \in 0..Len(h) /\ ~(k > Len(conn.head)) /\ p = Fed(NewParser, h)[j + k]
    BY <1>3, <1>10, <1>11, <1>13, <1>15
  <2>2. Read(k).at = 0
    BY <1>1, <1>3, <1>7, <2>1, ReadFacts
  <2>3. Read(k).head = SubSeq(h, (j + k) + 1, Len(h))
    BY <1>1, <1>3, <1>9, ReadFacts, TailOfTail
  <2>. QED
    BY <1>9, <2>1, <2>2, <2>3 DEF InHead
<1>16. ASSUME p.event = "complete"
       PROVE  /\ Read(k).head = <<>>
              /\ Leftover(parser, units) \in Streams
              /\ Len(Leftover(parser, units)) < ReadChunk
              /\ Len(Leftover(parser, units)) = Read(k).at
              /\ Sourced(Leftover(parser, units), remote)
  <2>1. PICK m \in Nat : m = Len(conn.head)
    BY <1>2
  <2>2. /\ m = Len(h) - j /\ m >= 1 /\ m <= k
        /\ 1 + p.total - parser.total = m + 1
    BY <1>3, <1>10, <1>11, <1>13, <1>14, <1>16, <2>1
  <2>3. Leftover(parser, units) = SubSeq(units, m + 1, k)
    BY <1>5, <2>2 DEF Leftover
  <2>4. k \in 0..Len(units)
    BY <1>3, <1>5
  <2>5. /\ SubSeq(units, m + 1, k) \in Streams
        /\ Len(SubSeq(units, m + 1, k)) = (IF m < k THEN k - m ELSE 0)
        /\ Sourced(SubSeq(units, m + 1, k), remote)
    BY <1>5, <2>4, TailFacts, SourcedTail
  <2>6. Read(k).head = <<>> /\ Read(k).at = 0 + (IF k > m THEN k - m ELSE 0)
    BY <1>1, <1>3, <1>7, <2>1, <2>2, ReadFacts
  <2>7. /\ (IF m < k THEN k - m ELSE 0) < ReadChunk
        /\ (IF m < k THEN k - m ELSE 0) = 0 + (IF k > m THEN k - m ELSE 0)
    BY <1>3, <2>2
  <2>. QED
    BY <2>3, <2>5, <2>6, <2>7
<1>. QED
  BY <1>3, <1>5, <1>7, <1>14, <1>15, <1>16

LEMMA AsUsizeNat ==
  ASSUME NEW n \in Nat
  PROVE  AsUsize(n) \in Nat
<1>1. n % UsizeRange \in Nat
  BY DownloadAssumption
<1>. QED
  BY <1>1 DEF AsUsize

\* What the sources say stays when no build is made and no version changes.
LEMMA SourceKept ==
  ASSUME SourceInv, UNCHANGED <<built, remote, want, expected>>,
         conn' = conn \/ \E k \in Nat : conn' = Read(k),
         conn \in ConnSet, pc = "head" \/ pc' = pc,
         pc' \in {"head", "text"} \/ want = "bin", pc' \in {"head", "text", "body"},
         pc \in {"head", "text", "body"}, Sourced(text', remote)
  PROVE  SourceInv'
<1>1. /\ conn'.version = conn.version /\ conn'.linked = conn.linked /\ conn'.file = conn.file
      /\ conn'.body = conn.body /\ Sourced(conn'.head, conn.version)
  BY ReadFacts DEF SourceInv
<1>. QED
  BY <1>1 DEF SourceInv, Sourced

LEMMA ReadHeadStep ==
  ASSUME CheckInv, ReadHead
  PROVE  CheckInv'
<1>. USE DEF Device, Ok, releaseVars, CheckInv
<1>1. /\ pc = "head" /\ faults' \in 0..MaxFaults /\ conn \in ConnSet /\ Sourced(text, remote)
      /\ UNCHANGED built /\ NoSession /\ length = 0 /\ text = <<>>
  BY DEF ReadHead, DeviceTyped, SourceInv, BodyInv, SessionInv
<1>2. CASE GiveUp
  BY <1>1, <1>2, ReturnStep DEF GiveUp
<1>3. ASSUME ~GiveUp
      PROVE  CheckInv'
  <2>1. PICK k \in 1..Min({ReadChunk, Len(Wire)}) :
          LET units == SubSeq(Wire, 1, k)
              p     == Feed(parser, units)
          IN  \/ /\ p.event = "more"
                 /\ parser' = p /\ conn' = Read(k)
                 /\ UNCHANGED <<pc, want, remote, expected, leftover, text, sessionVars>>
              \/ /\ p.event = "complete"
                 /\ HeadComplete(p, Leftover(parser, units))
                 /\ pc' # "wait" => conn' = Read(k)
    BY <1>3 DEF ReadHead
  <2>2. PICK units : units = SubSeq(Wire, 1, k)
    OBVIOUS
  <2>3. PICK p : p = Feed(parser, units)
    OBVIOUS
  <2>4. PICK rest : rest = Leftover(parser, units)
    OBVIOUS
  <2>5. /\ Sound(p) /\ Within(p) /\ k \in Nat
        /\ p.event = "more" => Read(k).at = 0 /\ InHead(p, Read(k).head)
        /\ p.event = "complete" =>
             /\ Read(k).head = <<>> /\ rest \in Streams /\ Len(rest) < ReadChunk
             /\ Len(rest) = Read(k).at /\ Sourced(rest, remote)
    <3>1. CheckInv /\ pc = "head" /\ ReadOf(k)
      BY <1>1, <2>1 DEF ReadOf
    <3>. QED
      BY ONLY <2>2, <2>3, <2>4, <3>1, HeadChunk
  <2>6. Read(k) \in ConnSet
    BY <1>1, <2>5, ReadFacts
  <2>7. CASE p.event = "more"
    <3>1. /\ parser' = p /\ conn' = Read(k)
          /\ UNCHANGED <<pc, want, remote, expected, leftover, text, sessionVars>>
      BY <2>1, <2>2, <2>3, <2>7
    <3>2. DeviceTyped'
      BY <1>1, <2>5, <2>6, <2>7, <3>1 DEF DeviceTyped, sessionVars, Sound, Within
    <3>3. SourceInv'
      BY <1>1, <2>5, <3>1, SourceKept
    <3>4. HeadInv'
      BY <2>5, <2>7, <3>1 DEF HeadInv
    <3>5. BodyInv' /\ SessionInv'
      BY <1>1, <3>1 DEF BodyInv, SessionInv, NoSession, sessionVars
    <3>. QED
      BY <3>2, <3>3, <3>4, <3>5
  <2>8. CASE p.event = "complete"
    <3>1. HeadComplete(p, rest) /\ ~GiveUp
      BY <1>3, <2>1, <2>2, <2>3, <2>4, <2>8
    <3>2. HeadUsable(p) /\ pc' \in {"text", "body"} /\ conn' = Read(k) /\ parser' = p
      BY <2>1, <2>2, <2>3, <2>8, <3>1 DEF HeadComplete
    <3>3. p.length \in Nat
      BY <2>5, <2>8, <3>2 DEF HeadUsable, Sound
    <3>4. CASE want # "bin"
      <4>1. /\ pc' = "text" /\ length' = AsUsize(p.length)
            /\ text' = SubSeq(rest, 1, Min({Len(rest), AsUsize(p.length)}))
            /\ leftover' = <<>>
            /\ UNCHANGED <<want, remote, expected, slot, hasher, staged, sector>>
        BY <3>1, <3>2, <3>4 DEF HeadComplete
      <4>2. length' \in Nat
        BY <3>3, <4>1, AsUsizeNat
      <4>3. PICK n \in 0..Len(rest) : n = Min({Len(rest), length'}) /\ n <= length'
        BY <2>5, <2>8, <4>2, StreamFacts, MinOfTwo
      <4>4. text' = SubSeq(rest, 1, n)
        BY <4>1, <4>3
      <4>5. text' \in Streams /\ Len(text') = n /\ Sourced(text', remote)
        <5>1. rest \in Streams /\ n \in 0..Len(rest) /\ Sourced(rest, remote)
          BY <2>5, <2>8
        <5>2. /\ SubSeq(rest, 1, n) \in Streams /\ Len(SubSeq(rest, 1, n)) = n
              /\ Sourced(SubSeq(rest, 1, n), remote)
          BY ONLY <5>1, StartFacts
        <5>. QED
          BY <4>4, <5>2
      <4>6. Len(text') <= length'
        BY <2>5, <2>8, <4>2, <4>3, <4>5, StreamFacts
      <4>7. DeviceTyped'
        BY <1>1, <2>5, <2>6, <2>8, <3>2, <4>1, <4>2, <4>5, NoFileFacts, DownloadAssumption
           DEF DeviceTyped, Sound, Within
      <4>8. SourceInv'
        BY <1>1, <2>5, <3>2, <4>1, <4>5, SourceKept
      <4>9. HeadInv' /\ BodyInv' /\ SessionInv'
        BY <1>1, <2>5, <2>8, <3>2, <4>1, <4>6 DEF HeadInv, BodyInv, SessionInv, NoSession
      <4>. QED
        BY <4>7, <4>8, <4>9
    <3>5. CASE want = "bin"
      <4>1. /\ pc' = "body" /\ StartSession(p.length) /\ leftover' = rest
            /\ UNCHANGED <<want, remote, expected, text>>
        BY <3>1, <3>2, <3>5 DEF HeadComplete
      <4>2. p.length \in 0..SlotSize
        BY <3>2, <3>3, <3>5, SessionAssumption DEF HeadUsable, Oversize
      <4>3. Streaming' /\ hasher' = <<>> /\ length' = p.length
        BY <4>1, <4>2, SessionStarts DEF StartSession
      <4>4. DeviceTyped'
        BY <1>1, <2>5, <2>6, <2>8, <3>2, <3>3, <4>1, <4>3 DEF DeviceTyped, Sound, Within
      <4>5. SourceInv'
        BY <1>1, <2>5, <3>2, <3>5, <4>1, SourceKept
      <4>6. Len(hasher') + Len(leftover') = conn'.at
        <5>1. Len(hasher') = 0 /\ Len(rest) \in Nat
          BY <2>5, <2>8, <4>3, NoFileFacts, StreamFacts
        <5>. QED
          BY <2>5, <2>8, <3>2, <4>1, <5>1
      <4>7. HeadInv' /\ BodyInv' /\ SessionInv'
        BY <1>1, <2>5, <2>8, <3>2, <4>1, <4>3, <4>6 DEF HeadInv, BodyInv, SessionInv
      <4>. QED
        BY <4>4, <4>5, <4>7
    <3>. QED
      BY <3>4, <3>5
  <2>. QED
    BY <2>1, <2>2, <2>3, <2>7, <2>8
<1>. QED
  BY <1>2, <1>3

\* What a read of k units from the wire returns once the head is over.
LEMMA WireChunk ==
  ASSUME CheckInv, conn.head = <<>>, pc \in {"text", "body"}, NEW wanted \in Nat,
         NEW k \in 1..Min({wanted, Len(Wire)})
  PROVE  /\ k \in Nat /\ k <= wanted
         /\ SubSeq(Wire, 1, k) \in Streams /\ Len(SubSeq(Wire, 1, k)) = k
         /\ Sourced(SubSeq(Wire, 1, k), remote)
         /\ Read(k) \in ConnSet /\ Read(k).head = <<>> /\ Read(k).at = conn.at + k
<1>. USE DEF CheckInv
<1>1. conn \in ConnSet /\ conn.at \in Nat /\ Len(conn.head) = 0
  BY NoFileFacts DEF DeviceTyped, ConnSet
<1>2. Wire \in Streams /\ Len(Wire) \in Nat /\ Sourced(Wire, remote)
  BY <1>1, WireFacts DEF SourceInv
<1>3. k \in Nat /\ k >= 1 /\ k <= wanted /\ k \in 0..Len(Wire)
  BY <1>2, MinOfTwo
<1>4. SubSeq(Wire, 0 + 1, k) = SubSeq(Wire, 1, k)
  OBVIOUS
<1>5. /\ SubSeq(Wire, 0 + 1, k) \in Streams
      /\ Len(SubSeq(Wire, 0 + 1, k)) = (IF 0 < k THEN k - 0 ELSE 0)
      /\ Sourced(SubSeq(Wire, 0 + 1, k), remote)
  BY <1>2, <1>3, TailFacts, SourcedTail
<1>6. (IF 0 < k THEN k - 0 ELSE 0) = k
  BY <1>3
<1>7. /\ Read(k) \in ConnSet
      /\ Read(k).at = conn.at + (IF k > Len(conn.head) THEN k - Len(conn.head) ELSE 0)
      /\ k >= Len(conn.head) => Read(k).head = <<>>
  BY <1>1, <1>3, ReadFacts
<1>8. /\ conn.at + (IF k > Len(conn.head) THEN k - Len(conn.head) ELSE 0) = conn.at + k
      /\ k >= Len(conn.head)
  BY <1>1, <1>3
<1>. QED
  BY <1>3, <1>4, <1>5, <1>6, <1>7, <1>8

LEMMA ReadTextStep ==
  ASSUME CheckInv, ReadText
  PROVE  CheckInv'
<1>. USE DEF Device, Ok, releaseVars, CheckInv
<1>1. /\ pc = "text" /\ faults' \in 0..MaxFaults /\ conn \in ConnSet /\ conn.head = <<>>
      /\ text \in Streams /\ length \in Nat /\ Len(text) <= length /\ Sourced(text, remote)
      /\ UNCHANGED built /\ NoSession /\ remote \in Nat
      /\ want \in {"version", "sha256", "bin"} /\ Len(text) \in Nat
  BY StreamFacts DEF ReadText, DeviceTyped, SourceInv, BodyInv, SessionInv
<1>2. ASSUME NEW k \in 1..Min({length - Len(text), Len(Wire)}),
             text' = text \o SubSeq(Wire, 1, k), conn' = Read(k),
             UNCHANGED <<pc, want, remote, expected, parser, leftover, sessionVars>>
      PROVE  CheckInv'
  <2>1. PICK wanted \in Nat : wanted = length - Len(text)
    BY <1>1
  <2>2. /\ k \in Nat /\ k <= wanted
        /\ SubSeq(Wire, 1, k) \in Streams /\ Len(SubSeq(Wire, 1, k)) = k
        /\ Sourced(SubSeq(Wire, 1, k), remote)
        /\ Read(k) \in ConnSet /\ Read(k).head = <<>>
    BY <1>1, <1>2, <2>1, WireChunk
  <2>3. text' \in Streams /\ Len(text') = Len(text) + k /\ Sourced(text', remote)
    BY <1>1, <1>2, <2>2, JoinFacts, SourcedJoin
  <2>4. Len(text') <= length
    BY <1>1, <2>1, <2>2, <2>3
  <2>5. DeviceTyped'
    BY <1>1, <1>2, <2>2, <2>3 DEF DeviceTyped, sessionVars, Sound, Within
  <2>6. SourceInv'
    <3>1. /\ conn'.version = conn.version /\ conn'.linked = conn.linked
          /\ conn'.file = conn.file /\ conn'.body = conn.body
      BY <1>1, <1>2, <2>2, ReadFacts
    <3>. QED
      BY <1>1, <1>2, <2>2, <2>3, <3>1, NoFileFacts DEF SourceInv, Sourced
  <2>7. HeadInv' /\ BodyInv' /\ SessionInv'
    BY <1>1, <1>2, <2>2, <2>4 DEF HeadInv, BodyInv, SessionInv, NoSession, sessionVars
  <2>. QED
    BY <2>5, <2>6, <2>7
<1>3. CASE /\ \/ /\ want = "version"
                 /\ IsVersion(text) /\ ParseVersion(text) # running.version
                 /\ pc' = "connect" /\ want' = "sha256" /\ remote' = ParseVersion(text)
                 /\ UNCHANGED expected
              \/ /\ want = "sha256" /\ IsSha(text)
                 /\ pc' = "connect" /\ want' = "bin" /\ expected' = Digits(text)[1].n
                 /\ UNCHANGED remote
           /\ conn' = NoConn /\ parser' = NewParser /\ leftover' = <<>> /\ text' = <<>>
           /\ EndSession /\ UNCHANGED slot
  <2>1. CASE want = "version"
    <3>1. remote' \in Nat /\ want' = "sha256" /\ pc' = "connect" /\ expected' = None
      BY <1>1, <1>3, <2>1, ParseVersionType DEF SourceInv
    <3>. QED
      BY <1>1, <1>3, <3>1, BetweenRequests
  <2>2. CASE want = "sha256"
    <3>1. /\ pc' = "connect" /\ want' = "bin" /\ expected' = Digits(text)[1].n
          /\ remote' = remote /\ IsSha(text)
      BY <1>3, <2>2
    <3>2. Sourced(Digits(text), remote) /\ Digits(text) \in Streams
      BY <1>1, DigitsFacts
    <3>3. 1 \in DOMAIN Digits(text) /\ Digits(text)[1].kind = "digest"
      BY <3>1, <3>2, StreamFacts DEF IsSha
    <3>4. expected' \in DOMAIN built' /\ built'[expected'] = remote'
      BY <1>1, <3>1, <3>2, <3>3 DEF Sourced
    <3>. QED
      BY <1>1, <1>3, <3>1, <3>4, BetweenRequests
  <2>. QED
    BY <1>3, <2>1, <2>2
<1>4. CASE GiveUp
  BY <1>1, <1>4, ReturnStep DEF GiveUp
<1>. QED
  BY <1>2, <1>3, <1>4 DEF ReadText

LEMMA WantedFacts ==
  ASSUME Streaming
  PROVE  Wanted \in Nat
<1>1. length \in Nat /\ Len(hasher) \in Nat /\ Len(hasher) <= length /\ Chunk \in Nat
  BY StreamFacts, SessionAssumption DEF Streaming, SessionTyped
<1>. QED
  BY <1>1 DEF Wanted

LEMMA ReadBodyStep ==
  ASSUME CheckInv, ReadBody
  PROVE  CheckInv'
<1>. USE DEF Device, Ok, releaseVars, CheckInv
<1>1. /\ pc = "body" /\ faults' \in 0..MaxFaults /\ conn \in ConnSet /\ conn.head = <<>>
      /\ leftover \in Streams /\ Len(leftover) \in Nat /\ Len(leftover) < ReadChunk
      /\ Sourced(text, remote) /\ Streaming /\ Wanted \in Nat /\ Len(hasher) \in Nat
      /\ Len(hasher) + Len(leftover) = conn.at /\ want = "bin" /\ text = <<>>
      /\ UNCHANGED built /\ conn.at \in Nat /\ ReadChunk \in Nat
  BY StreamFacts, WantedFacts, DownloadAssumption
     DEF ReadBody, DeviceTyped, SourceInv, BodyInv, SessionInv, Streaming, SessionTyped, ConnSet
<1>2. ASSUME UNCHANGED <<pc, want, remote, expected, parser, text>>,
             conn' = conn \/ \E k \in Nat : conn' = Read(k),
             conn' \in ConnSet, conn'.head = <<>>, leftover' \in Streams,
             Len(leftover') < ReadChunk, Streaming',
             Len(hasher') + Len(leftover') = conn'.at
      PROVE  CheckInv'
  <2>1. length' \in Nat
    BY <1>2 DEF Streaming, SessionTyped
  <2>2. DeviceTyped'
    BY <1>1, <1>2, <2>1 DEF DeviceTyped, Sound, Within
  <2>3. SourceInv'
    BY <1>1, <1>2, SourceKept
  <2>4. HeadInv' /\ BodyInv' /\ SessionInv'
    BY <1>1, <1>2 DEF HeadInv, BodyInv, SessionInv
  <2>. QED
    BY <2>2, <2>3, <2>4
<1>3. ASSUME leftover # <<>>, NEW k, k = Min({Wanted, Len(leftover)}),
             Consume(SubSeq(leftover, 1, k)), leftover' = SubSeq(leftover, k + 1, Len(leftover)),
             UNCHANGED <<pc, want, remote, expected, conn, parser, text>>
      PROVE  CheckInv'
  <2>1. k \in 0..Len(leftover) /\ k <= Wanted /\ k \in Nat /\ Len(leftover) \in 0..Len(leftover)
    BY <1>1, <1>3, MinOfTwo
  <2>2. PICK data : data = SubSeq(leftover, 0 + 1, k)
    OBVIOUS
  <2>3. data \in Streams /\ Len(data) = (IF 0 < k THEN k - 0 ELSE 0)
    BY <1>1, <2>1, <2>2, TailFacts
  <2>4. Len(data) = k
    BY <2>1, <2>3
  <2>5. Consume(data) /\ Len(data) <= Wanted
    BY <1>3, <2>1, <2>2, <2>4
  <2>6. Streaming' /\ Len(hasher') = Len(hasher) + k
    BY <1>1, <2>3, <2>4, <2>5, ConsumeStep
  <2>7. /\ leftover' \in Streams
        /\ Len(leftover') = (IF k < Len(leftover) THEN Len(leftover) - k ELSE 0)
    BY <1>1, <1>3, <2>1, TailFacts
  <2>8. Len(leftover') < ReadChunk /\ Len(hasher') + Len(leftover') = conn.at
    BY <1>1, <2>1, <2>6, <2>7
  <2>. QED
    BY <1>1, <1>2, <1>3, <2>6, <2>7, <2>8
<1>4. ASSUME leftover = <<>>, NEW k \in 1..Min({Wanted, Len(Wire)}),
             Consume(SubSeq(Wire, 1, k)), conn' = Read(k),
             UNCHANGED <<pc, want, remote, expected, parser, leftover, text>>
      PROVE  CheckInv'
  <2>1. /\ k \in Nat /\ k <= Wanted
        /\ SubSeq(Wire, 1, k) \in Streams /\ Len(SubSeq(Wire, 1, k)) = k
        /\ Read(k) \in ConnSet /\ Read(k).head = <<>> /\ Read(k).at = conn.at + k
    BY <1>1, WireChunk
  <2>2. Streaming' /\ Len(hasher') = Len(hasher) + k
    BY <1>1, <1>4, <2>1, ConsumeStep
  <2>3. Len(leftover) = 0
    BY <1>4, NoFileFacts
  <2>4. Len(hasher') + Len(leftover') = conn'.at
    BY <1>1, <1>4, <2>1, <2>2, <2>3
  <2>. QED
    BY <1>1, <1>2, <1>4, <2>1, <2>2, <2>4
<1>5. CASE GiveUp
  BY <1>1, <1>5, ReturnStep DEF GiveUp
<1>. QED
  BY <1>3, <1>4, <1>5 DEF ReadBody

LEMMA CommitStep ==
  ASSUME CheckInv, Commit
  PROVE  CheckInv'
<1>. USE DEF Commit, Device, Ok, releaseVars, CheckInv
<1>1. /\ pc = "body" /\ pc' = "mark" /\ Streaming /\ BodyComplete /\ FlushRest /\ DigestMatches
      /\ want = "bin" /\ text = <<>>
  BY DEF SessionInv, SourceInv, BodyInv
<1>2. Written'
  BY <1>1, FlushRestStep
<1>3. DigestMatches'
  BY <1>1 DEF DigestMatches, FlushRest, Image
<1>4. DeviceTyped'
  BY <1>1, <1>2 DEF DeviceTyped, Written, SessionTyped, Sound, Within
<1>5. SourceInv'
  BY <1>1 DEF SourceInv, Sourced
<1>6. HeadInv' /\ BodyInv' /\ SessionInv'
  BY <1>1, <1>2, <1>3 DEF HeadInv, BodyInv, SessionInv
<1>. QED
  BY <1>4, <1>5, <1>6

\* The steps that end a check, by success or failure.
LEMMA CheckOver ==
  ASSUME CheckInv, Mismatch \/ Restart \/ StepFails \/ PowerCut
  PROVE  CheckInv'
<1>1. faults \in 0..MaxFaults
  BY DEF CheckInv, DeviceTyped
<1>2. faults' \in 0..MaxFaults
  BY <1>1, FaultFacts DEF Mismatch, Restart, StepFails, PowerCut
<1>3. Return /\ EndSession
  BY DEF Mismatch, Abort, Restart, StepFails, FlushFails, PowerCut
<1>. QED
  BY <1>2, <1>3, ReturnStep

\* What the network and the server do meanwhile leaves the device as it is; its
\* connection may end, and the file behind it may change.
LEMMA DeviceSame ==
  ASSUME CheckInv, BuiltKept, faults' \in 0..MaxFaults,
         UNCHANGED <<pc, want, remote, expected, parser, leftover, text, sessionVars>>,
         conn' \in ConnSet, conn'.at = conn.at, conn'.version = conn.version,
         \/ conn'.head = conn.head /\ conn'.size = conn.size
         \/ conn'.head = <<>> /\ conn'.size = conn.at,
         conn'.linked /\ conn'.file \in {"sha256", "bin"} => conn'.version \in Versions,
         Sourced(conn.body, conn.version)'
  PROVE  CheckInv'
<1>. USE DEF CheckInv, sessionVars
<1>1. DeviceTyped'
  BY DEF DeviceTyped, Sound, Within
<1>2. SourceInv'
  <2>1. Sourced(conn.head, conn.version) /\ Sourced(text, remote)
    BY DEF SourceInv
  <2>2. \A i \in DOMAIN conn'.head :
          conn'.head[i].kind = "digest" =>
            conn'.head[i].n \in DOMAIN built' /\ built'[conn'.head[i].n] = conn'.version
    BY <2>1, NoFileFacts DEF Sourced, BuiltKept
  <2>3. \A i \in DOMAIN text' :
          text'[i].kind = "digest" =>
            text'[i].n \in DOMAIN built' /\ built'[text'[i].n] = remote'
    BY <2>1 DEF Sourced, BuiltKept
  <2>4. want' = "bin" => expected' \in DOMAIN built' /\ built'[expected'] = remote'
    BY DEF SourceInv, BuiltKept
  <2>. QED
    BY <2>2, <2>3, <2>4 DEF SourceInv, Sourced
<1>3. HeadInv'
  BY DEF HeadInv
<1>4. BodyInv'
  BY NoFileFacts DEF BodyInv
<1>5. SessionInv'
  BY DEF SessionInv, NoSession, Streaming, Written, SessionTyped, InOrder, BodyComplete,
         DigestMatches
<1>. QED
  BY <1>1, <1>2, <1>3, <1>4, <1>5

LEMMA ClosedEarlyStep ==
  ASSUME ReleaseInv, CheckInv, ClosedEarly
  PROVE  CheckInv'
<1>. USE DEF ClosedEarly, Device
<1>1. faults' \in 0..MaxFaults /\ conn \in ConnSet
  BY FaultFacts DEF CheckInv, DeviceTyped
<1>2. BuiltKept /\ UNCHANGED built
  BY BuiltSame DEF ReleaseInv, releaseVars
<1>3. /\ conn' \in ConnSet /\ conn'.at = conn.at /\ conn'.version = conn.version
      /\ conn'.head = <<>> /\ conn'.size = conn.at /\ conn'.linked = conn.linked
      /\ conn'.file = conn.file /\ conn'.body = conn.body
  BY <1>1, NoFileFacts DEF ConnSet
<1>4. Sourced(conn.body, conn.version)
      /\ (conn.linked /\ conn.file \in {"sha256", "bin"} => conn.version \in Versions)
  BY DEF CheckInv, SourceInv
<1>5. Sourced(conn.body, conn.version)'
  BY <1>2, <1>3, <1>4 DEF Sourced
<1>. QED
  BY <1>1, <1>2, <1>3, <1>4, <1>5, DeviceSame

LEMMA FollowedFacts ==
  ASSUME ReleaseInv, ReleaseInv', BuiltKept, CheckInv, conn' = Followed
  PROVE  /\ conn' \in ConnSet /\ conn'.at = conn.at /\ conn'.version = conn.version
         /\ conn'.head = conn.head /\ conn'.size = conn.size
         /\ conn'.linked /\ conn'.file \in {"sha256", "bin"} => conn'.version \in Versions
         /\ Sourced(conn.body, conn.version)'
<1>1. /\ conn \in ConnSet /\ Sourced(conn.body, conn.version)
      /\ conn.linked /\ conn.file \in {"sha256", "bin"} => conn.version \in Versions
  BY DEF CheckInv, DeviceTyped, SourceInv
<1>2. CASE conn' = conn
  <2>1. Sourced(conn.body, conn.version)'
    BY <1>1, <1>2 DEF Sourced, BuiltKept
  <2>. QED
    BY <1>1, <1>2, <2>1
<1>3. CASE conn.linked /\ conn.file \in {"bin", "sha256"}
  <2>1. PICK v \in Versions : v = conn.version
    BY <1>1, <1>3
  <2>2. PICK f : f = IF conn.file = "bin" THEN bins'[v] ELSE shas'[v]
    OBVIOUS
  <2>3. conn' = IF f.exists THEN [conn EXCEPT !.body = f.data] ELSE [conn EXCEPT !.linked = FALSE]
    BY <1>3, <2>1, <2>2 DEF Followed
  <2>4. f \in Files
    BY <2>2 DEF ReleaseInv, ReleaseTyped
  <2>5. Sourced(f.data, v)'
    <3>1. Contents'
      BY DEF ReleaseInv
    <3>2. /\ \A i \in DOMAIN bins'[v].data : bins'[v].data[i].kind = "image"
          /\ \A i \in DOMAIN shas'[v].data :
               shas'[v].data[i].kind = "digest" =>
                 shas'[v].data[i].n \in DOMAIN built' /\ built'[shas'[v].data[i].n] = v
      BY <3>1 DEF Contents, Sourced
    <3>. QED
      BY <2>2, <3>2 DEF Sourced
  <2>6. CASE f.exists
    <3>1. /\ conn' \in ConnSet /\ conn'.at = conn.at /\ conn'.version = conn.version
          /\ conn'.head = conn.head /\ conn'.size = conn.size /\ conn'.body = f.data
      BY <1>1, <2>3, <2>4, <2>6 DEF ConnSet, Files
    <3>2. Sourced(conn.body, conn.version)'
      BY <2>1, <2>5, <3>1 DEF Sourced
    <3>. QED
      BY <2>1, <3>1, <3>2
  <2>7. CASE ~f.exists
    <3>1. /\ conn' \in ConnSet /\ conn'.at = conn.at /\ conn'.version = conn.version
          /\ conn'.head = conn.head /\ conn'.size = conn.size /\ conn'.body = conn.body
      BY <1>1, <2>3, <2>7 DEF ConnSet
    <3>2. Sourced(conn.body, conn.version)'
      BY <1>1, <3>1 DEF Sourced, BuiltKept
    <3>. QED
      BY <2>1, <3>1, <3>2
  <2>. QED
    BY <2>6, <2>7
<1>. QED
  BY <1>2, <1>3 DEF Followed

LEMMA ReleaseStep ==
  ASSUME ReleaseInv,
         (\E v \in Versions : StartDeploy(v)) \/ Upload \/ Publish \/ DeployFails \/ SendTrigger
  PROVE  ReleaseInv' /\ BuiltKept
<1>1. CASE \E v \in Versions : StartDeploy(v)
  BY <1>1, StartDeployStep
<1>2. CASE Upload \/ Publish \/ DeployFails \/ SendTrigger
  <2>1. ReleaseInv'
    BY <1>2, OpenBinStep, CopyBinStep, OpenShaStep, CopyShaStep, ChmodStep,
       RenameVersionStep, PruneBinStep, PruneShaStep, ScriptEnds DEF Upload, Publish
  <2>2. UNCHANGED built
    BY <1>2 DEF Upload, Publish, DeployFails, SendTrigger, OpenBin, CopyBin, OpenSha, CopySha,
                Chmod, RenameVersion, PruneBin, PruneSha, PruneEnds
  <2>. QED
    BY <2>1, <2>2, BuiltSame DEF ReleaseInv
<1>. QED
  BY <1>1, <1>2

LEMMA DeployingStep ==
  ASSUME ReleaseInv, CheckInv, Deploying
  PROVE  ReleaseInv' /\ CheckInv' /\ BuiltKept
<1>1. ReleaseInv' /\ BuiltKept
  BY ReleaseStep DEF Deploying
<1>2. faults' \in 0..MaxFaults
  BY FaultFacts DEF Deploying, CheckInv, DeviceTyped, Ok
<1>3. CheckInv'
  BY <1>1, <1>2, FollowedFacts, DeviceSame DEF Deploying
<1>. QED
  BY <1>1, <1>3

LEMMA TriggerStep ==
  ASSUME ReleaseInv, CheckInv, Trigger
  PROVE  ReleaseInv' /\ CheckInv' /\ BuiltKept
<1>. USE DEF Trigger, fetchVars
<1>1. ReleaseInv' /\ BuiltKept
  BY ReleaseStep
<1>2. faults' \in 0..MaxFaults /\ conn \in ConnSet /\ UNCHANGED conn
  BY FaultFacts DEF CheckInv, DeviceTyped, Ok
<1>3. /\ Sourced(conn.body, conn.version)
      /\ conn.linked /\ conn.file \in {"sha256", "bin"} => conn.version \in Versions
  BY DEF CheckInv, SourceInv
<1>4. Sourced(conn.body, conn.version)'
  BY <1>1, <1>2, <1>3 DEF Sourced, BuiltKept
<1>5. CheckInv'
  BY <1>1, <1>2, <1>3, <1>4, DeviceSame
<1>. QED
  BY <1>1, <1>5

-----------------------------------------------------------------------------
(* What runs                                                               *)

LEMMA RunningKept ==
  ASSUME RunsPublishedImage, BuiltKept, UNCHANGED running
  PROVE  RunsPublishedImage'
<1>1. PICK b \in DOMAIN built :
        /\ built[b] = running.version
        /\ \A c \in Cells :
             /\ c < ImageSizes[b] => running.cells[c] = Image(b)[c + 1]
             /\ c >= ImageSizes[b]
                  /\ c \div SectorSize = (ImageSizes[b] - 1) \div SectorSize =>
                  running.cells[c] = Blank
  BY DEF RunsPublishedImage
<1>2. b \in DOMAIN built' /\ built'[b] = running'.version
  BY <1>1 DEF BuiltKept
<1>. QED
  BY <1>1, <1>2 DEF RunsPublishedImage

LEMMA RunningStart == Init => RunsPublishedImage
<1>. SUFFICES ASSUME Init PROVE RunsPublishedImage
  OBVIOUS
<1>1. 1 \in DOMAIN built /\ built[1] = Factory
  BY DEF Init, ReleaseInit
<1>2. /\ running.version = Factory
      /\ \A c \in Cells : running.cells[c] = IF c < ImageSizes[1] THEN Image(1)[c + 1] ELSE Blank
  BY DEF Init
<1>3. ImageSizes[1] \in Nat
  BY SizeFacts
<1>4. \A c \in Cells : c >= ImageSizes[1] => ~(c < ImageSizes[1])
  BY <1>3 DEF Cells
<1>. QED
  BY <1>1, <1>2, <1>4 DEF RunsPublishedImage

\* The slot that is marked holds the build whose digest was asked for.
LEMMA RestartRuns ==
  ASSUME ReleaseInv, CheckInv, Restart
  PROVE  RunsPublishedImage'
<1>1. /\ pc = "mark" /\ Written /\ hasher = Image(expected)
      /\ expected \in DOMAIN built /\ built[expected] = remote /\ UNCHANGED built
      /\ running' = [version |-> remote, cells |-> slot]
  BY DEF Restart, CheckInv, SourceInv, SessionInv, DigestMatches, releaseVars
<1>2. PICK b \in Builds : b = expected
  BY <1>1, SizeFacts DEF ReleaseInv, ReleaseTyped
<1>3. PICK size \in Nat \ {0} : size = ImageSizes[b]
  BY SizeFacts
<1>4. Len(hasher) = size
  BY <1>1, <1>2, <1>3, ImageFacts
<1>5. /\ sector \in Nat /\ SectorSize \in Nat \ {0} /\ SlotSize \in Nat
      /\ size <= sector * SectorSize
      /\ \A i \in 1..size : hasher[i] = IF i <= sector * SectorSize THEN slot[i - 1]
                                         ELSE staged[i - sector * SectorSize]
      /\ \A c \in Cells : size <= c /\ c < sector * SectorSize => slot[c] = Blank
  BY <1>1, <1>4, SessionAssumption DEF Written, SessionTyped, InOrder
<1>6. PICK full \in Nat : full = sector * SectorSize
  BY <1>5, NextMultiple
<1>7. ASSUME NEW c \in Cells, c < size
      PROVE  slot[c] = Image(b)[c + 1]
  <2>1. c + 1 \in 1..size /\ c + 1 <= full /\ (c + 1) - 1 = c
    BY <1>3, <1>5, <1>6, <1>7 DEF Cells
  <2>. QED
    BY <1>1, <1>2, <1>5, <1>6, <2>1
<1>8. ASSUME NEW c \in Cells, c >= size, c \div SectorSize = (size - 1) \div SectorSize
      PROVE  slot[c] = Blank
  <2>1. sector # 0
    BY <1>3, <1>5, NextMultiple
  <2>2. PICK k \in Nat : sector = k + 1
    <3>1. sector - 1 \in Nat /\ sector = (sector - 1) + 1
      BY <1>5, <2>1
    <3>. QED
      BY <3>1
  <2>3. c \in Nat /\ size - 1 \in Nat
    BY <1>3 DEF Cells
  <2>4. size - 1 < (k + 1) * SectorSize
    BY <1>3, <1>5, <1>6, <2>2
  <2>5. c < (k + 1) * SectorSize
    BY <1>5, <1>8, <2>3, <2>4, SameSector
  <2>6. size <= c /\ c < sector * SectorSize
    BY <1>3, <1>8, <2>2, <2>3, <2>5
  <2>. QED
    BY <1>5, <2>6
<1>9. expected \in DOMAIN built' /\ built'[expected] = running'.version /\ running'.cells = slot
  BY <1>1
<1>. QED
  BY <1>2, <1>3, <1>7, <1>8, <1>9 DEF RunsPublishedImage

LEMMA InvStart == Init => Inv
BY ReleaseStart, CheckStart, RunningStart DEF Inv

\* The steps of the device and of the network, which leave the server as it is.
LEMMA DeviceStep ==
  ASSUME ReleaseInv, CheckInv, RunsPublishedImage,
         Step \/ ConnectOdd \/ StepFails \/ ClosedEarly \/ PowerCut
  PROVE  Inv'
<1>1. UNCHANGED releaseVars
  BY DEF Step, Wake, Connect, ConnectOdd, Connected, ReadHead, ReadText, ReadBody, Mismatch,
         Commit, Restart, StepFails, ClosedEarly, PowerCut, Device
<1>2. ReleaseInv' /\ BuiltKept
  BY <1>1, ReleaseSame
<1>3. want \in {"version", "sha256", "bin"} /\ remote \in Nat
  BY DEF CheckInv, DeviceTyped
<1>4. CheckInv'
  <2>1. CASE Wake
    BY <2>1, WakeStep
  <2>2. CASE Connect
    <3>1. Answers(Response(want, remote), remote)
      BY <1>3, ResponseFacts
    <3>. QED
      BY <2>2, <3>1, ConnectedStep DEF Connect
  <2>3. CASE ConnectOdd
    <3>1. PICK head \in OddHeads(Response(want, remote).size) :
            Connected([Response(want, remote) EXCEPT !.head = head])
      BY <2>3 DEF ConnectOdd
    <3>2. Answers([Response(want, remote) EXCEPT !.head = head], remote)
      BY <1>3, OddResponseFacts
    <3>. QED
      BY <2>3, <3>1, <3>2, ConnectedStep DEF ConnectOdd
  <2>4. CASE ReadHead
    BY <2>4, ReadHeadStep
  <2>5. CASE ReadText
    BY <2>5, ReadTextStep
  <2>6. CASE ReadBody
    BY <2>6, ReadBodyStep
  <2>7. CASE Commit
    BY <2>7, CommitStep
  <2>8. CASE Mismatch \/ Restart \/ StepFails \/ PowerCut
    BY <2>8, CheckOver
  <2>9. CASE ClosedEarly
    BY <2>9, ClosedEarlyStep
  <2>. QED
    BY <2>1, <2>2, <2>3, <2>4, <2>5, <2>6, <2>7, <2>8, <2>9 DEF Step
<1>5. RunsPublishedImage'
  <2>1. CASE Restart
    BY <2>1, RestartRuns
  <2>2. CASE UNCHANGED running
    BY <1>2, <2>2, RunningKept
  <2>3. Restart \/ UNCHANGED running
    BY DEF Step, Wake, Connect, ConnectOdd, Connected, ReadHead, ReadText, ReadBody, Mismatch,
           Commit, StepFails, ClosedEarly, PowerCut, Device
  <2>. QED
    BY <2>1, <2>2, <2>3
<1>. QED
  BY <1>2, <1>4, <1>5 DEF Inv

LEMMA InvNext == Inv /\ [Next]_vars => Inv'
<1>. SUFFICES ASSUME Inv, [Next]_vars PROVE Inv'
  OBVIOUS
<1>1. ReleaseInv /\ CheckInv /\ RunsPublishedImage
  BY DEF Inv
<1>2. CASE Step \/ ConnectOdd \/ StepFails \/ ClosedEarly \/ PowerCut
  BY <1>1, <1>2, DeviceStep
<1>3. CASE Deploying
  <2>1. ReleaseInv' /\ CheckInv' /\ BuiltKept
    BY <1>1, <1>3, DeployingStep
  <2>2. UNCHANGED running
    BY <1>3 DEF Deploying
  <2>. QED
    BY <1>1, <2>1, <2>2, RunningKept DEF Inv
<1>4. CASE Trigger
  <2>1. ReleaseInv' /\ CheckInv' /\ BuiltKept
    BY <1>1, <1>4, TriggerStep
  <2>2. UNCHANGED running
    BY <1>4 DEF Trigger
  <2>. QED
    BY <1>1, <2>1, <2>2, RunningKept DEF Inv
<1>5. CASE UNCHANGED vars
  <2>. USE <1>5 DEF vars, fetchVars, releaseVars
  <2>1. ReleaseInv' /\ BuiltKept
    BY <1>1, ReleaseSame
  <2>2. faults' \in 0..MaxFaults /\ conn \in ConnSet /\ Sourced(conn.body, conn.version)
        /\ (conn.linked /\ conn.file \in {"sha256", "bin"} => conn.version \in Versions)
    BY <1>1 DEF CheckInv, DeviceTyped, SourceInv
  <2>3. Sourced(conn.body, conn.version)'
    BY <2>2 DEF Sourced
  <2>4. CheckInv'
    BY <1>1, <2>1, <2>2, <2>3, DeviceSame
  <2>5. RunsPublishedImage'
    BY <1>1, <2>1, RunningKept
  <2>. QED
    BY <2>1, <2>4, <2>5 DEF Inv
<1>. QED
  BY <1>2, <1>3, <1>4, <1>5 DEF Next

\* The invariant of a check against a server whose files change: what the
\* script has published, where the units in flight come from, how far the
\* parser, the hasher and flash have got with them, and what runs.
THEOREM Invariance == Spec => []Inv
<1>1. Init => Inv
  BY InvStart
<1>2. Inv /\ [Next]_vars => Inv'
  BY InvNext
<1>. QED
  BY <1>1, <1>2, PTL DEF Spec

\* deploy.sh: whatever command fails and whatever is pruned, the pair that the
\* version file names is there, whole, matching and readable, unless that version
\* is being uploaded again or such an upload failed.
THEOREM NamedPairHolds == Spec => []NamedPairWhole
<1>1. Inv => NamedPairWhole
  BY DEF Inv, ReleaseInv, ReleaseTyped, Pairs, NamedPairWhole
<1>. QED
  BY <1>1, Invariance, PTL

\* get and HttpBody: what was read with the head is neither lost nor read twice,
\* wherever the reads cut the stream.
THEOREM BodyOrdered == Spec => []BodyInOrder
<1>1. Inv => BodyInOrder
  BY DEF Inv, CheckInv, BodyInv, BodyInOrder
<1>. QED
  BY <1>1, Invariance, PTL

\* apply_update and SlotFlasher: what has been hashed is what flash and the
\* sector buffer hold, in order.
THEOREM WrittenHashed == Spec => []WrittenIsHashed
<1>1. ASSUME Inv
      PROVE  WrittenIsHashed
  <2>1. CheckInv
    BY <1>1 DEF Inv
  <2>2. CASE pc = "body"
    BY <2>1, <2>2 DEF CheckInv, SessionInv, Streaming, InOrder, WrittenIsHashed
  <2>3. CASE pc = "mark"
    BY <2>1, <2>3 DEF CheckInv, SessionInv, Written, InOrder, WrittenIsHashed
  <2>4. CASE pc \notin {"body", "mark"}
    <3>1. NoSession /\ length \in Nat
      BY <2>1, <2>4 DEF CheckInv, SessionInv, DeviceTyped
    <3>2. Len(hasher) = 0 /\ Len(staged) = 0 /\ sector * SectorSize = 0
      BY <3>1, NoSessionTyped
    <3>. QED
      BY <3>2 DEF WrittenIsHashed
  <2>. QED
    BY <2>2, <2>3, <2>4
<1>. QED
  BY <1>1, Invariance, PTL

\* ota_task: whatever is published, pruned or published again while a check
\* runs, and whatever the network does, the device boots only whole images of
\* builds that were published under the version it believes to run.
THEOREM PublishedImageRuns == Spec => []RunsPublishedImage
<1>1. Inv => RunsPublishedImage
  BY DEF Inv
<1>. QED
  BY <1>1, Invariance, PTL

\* Buffers, counters and positions stay in their bounds: no flush leaves the
\* slot, no read overruns its buffer.
THEOREM DownloadTyping == Spec => []TypeOK
<1>1. ASSUME Inv
      PROVE  TypeOK
  <2>1. ReleaseInv /\ CheckInv
    BY <1>1 DEF Inv
  <2>2. DOMAIN built \subseteq Builds
    BY <2>1, SizeFacts, LenProperties DEF ReleaseInv, ReleaseTyped
  <2>3. /\ pc \in {"wait", "connect", "head", "text", "body", "mark"}
        /\ want \in {"version", "sha256", "bin"} /\ faults \in 0..MaxFaults
        /\ Len(leftover) < ReadChunk /\ parser.total \in 0..MaxHead
    BY <2>1 DEF CheckInv, DeviceTyped, Sound, ParserSet, Within
  <2>4. expected \in Builds \cup {None}
    BY <2>1, <2>2 DEF CheckInv, SourceInv
  <2>5. named \in Versions /\ deploy.step \in Steps
        /\ \A v \in Versions : Len(bins[v].data) <= SlotSize
    BY <2>1 DEF ReleaseInv, ReleaseTyped, Contents
  <2>6. length \in Nat /\ Len(<<>>) = 0 /\ SectorSize \in Nat \ {0} /\ SlotSize \in Nat
    BY <2>1, NoFileFacts, SessionAssumption DEF CheckInv, DeviceTyped
  <2>7. Len(text) <= length
    BY <2>1, <2>6 DEF CheckInv, BodyInv
  <2>8. Len(hasher) <= length /\ Len(staged) < SectorSize /\ sector * SectorSize <= SlotSize
    <3>1. CASE pc = "body"
      <4>1. Streaming
        BY <2>1, <3>1 DEF CheckInv, SessionInv
      <4>2. Len(hasher) = sector * SectorSize + Len(staged) /\ Len(staged) \in Nat
            /\ sector * SectorSize \in Nat /\ Len(hasher) <= length /\ length <= SlotSize
        BY <4>1, <2>6, StreamFacts, NextMultiple DEF Streaming, SessionTyped
      <4>. QED
        BY <4>1, <4>2, <2>6 DEF Streaming
    <3>2. CASE pc = "mark"
      <4>1. Written
        BY <2>1, <3>2 DEF CheckInv, SessionInv
      <4>2. PICK k \in Nat : SlotSize = k * SectorSize
        BY SlotSectors
      <4>3. PICK s \in Nat : s = sector
        BY <4>1 DEF Written, SessionTyped
      <4>4. s * SectorSize < SlotSize + SectorSize /\ Len(hasher) = length
            /\ s * SectorSize \in Nat
        BY <4>1, <4>3, <2>6, StreamFacts, NextMultiple DEF Written, SessionTyped, BodyComplete
      <4>5. s * SectorSize < (k + 1) * SectorSize
        BY <4>2, <4>4, <2>6, NextMultiple
      <4>6. s < k + 1
        BY <4>5, <2>6, MultipleBelow
      <4>7. s * SectorSize <= k * SectorSize
        <5>1. PICK d \in Nat : k = s + d
          <6>1. k - s \in Nat /\ k = s + (k - s)
            BY <4>6
          <6>. QED
            BY <6>1
        <5>2. d * SectorSize \in Nat /\ (s + d) * SectorSize = s * SectorSize + d * SectorSize
          BY <2>6
        <5>. QED
          BY <4>4, <5>1, <5>2
      <4>. QED
        BY <4>1, <4>2, <4>3, <4>4, <4>7, <2>6 DEF Written
    <3>3. CASE pc \notin {"body", "mark"}
      <4>1. NoSession
        BY <2>1, <3>3 DEF CheckInv, SessionInv
      <4>2. Len(hasher) = 0 /\ Len(staged) = 0 /\ sector * SectorSize = 0
        BY <4>1, <2>6, NoSessionTyped
      <4>. QED
        BY <4>2, <2>6
    <3>. QED
      BY <3>1, <3>2, <3>3
  <2>. QED
    BY <2>3, <2>4, <2>5, <2>7, <2>8 DEF TypeOK
<1>. QED
  BY <1>1, Invariance, PTL

-----------------------------------------------------------------------------
(* The head parser                                                         *)

LEMMA LinesInLineSet == Lines \subseteq LineSet
<1>1. ASSUME NEW unit \in LineTexts
      PROVE  <<unit>> \in LineSet
  <2>1. unit \in UnitSet /\ unit # CR /\ unit # LF
    BY DEF LineTexts, Unit, UnitSet, Kinds, CR, LF
  <2> DEFINE one == <<unit>>
  <2>2. one \in Streams /\ Len(one) = 1 /\ one[1] = unit
    BY <2>1 DEF Streams
  <2>. HIDE DEF one
  <2>3. \A i \in 1..Len(one) : one[i] # CR /\ one[i] # LF
    BY <2>1, <2>2
  <2>4. one \in LineSet
    BY <2>2, <2>3 DEF LineSet
  <2>. QED
    BY <2>4 DEF one
<1>2. <<>> \in LineSet
  BY EmptySeq DEF LineSet, Streams
<1>. QED
  BY <1>1, <1>2 DEF Lines

\* The parser of ota/http.rs decides the heads that the runs enumerate as the
\* reference does: they are among the lines of ParserDecides.
THEOREM ParserAgreesHolds == Spec => []ParserAgrees
<1>1. ASSUME NEW n \in 0..4, NEW lines \in [1..n -> Lines],
             NEW ending \in {CRLF, <<LF>>}, NEW body \in {<<>>, <<LF, CR>>}
      PROVE  ParserAgreesOn(lines, ending, body)
  <2>1. lines \in Seq(LineSet)
    <3>1. n \in Nat /\ lines \in [1..n -> LineSet]
      BY LinesInLineSet
    <3>. QED
      BY <3>1
  <2>2. ending \in Endings
    BY DEF Endings, CRLF
  <2>3. body \in Streams
    <3>1. <<>> \in Streams
      BY EmptySeq DEF Streams
    <3>2. <<LF, CR>> \in Streams
      BY LineEndUnits DEF Streams
    <3>. QED
      BY <3>1, <3>2
  <2>. QED
    BY <2>1, <2>2, <2>3, ParserDecides
<1>2. ParserAgrees
  BY <1>1 DEF ParserAgrees
<1>. QED
  BY <1>2, PTL

=============================================================================
