------------------------------ MODULE Release ------------------------------
(***************************************************************************)
(* The publication of a release: the files the web server serves and       *)
(* deploy.sh, the script that uploads an image and its digest, renames the *)
(* version file into place, prunes older pairs and triggers the device.    *)
(* Every remote command may fail; set -e then ends the script.  An upload  *)
(* writes a file in place, so a reader may see any prefix of it, and one   *)
(* version may be published more than once.                                *)
(***************************************************************************)
EXTENDS Units, Integers, Sequences

CONSTANTS
  Versions,   \* what the VERSION file may hold
  Factory,    \* the release the device is flashed with, already published
  ImageSizes  \* the size of each build, in the order they are made

\* The script refuses an empty image (and one that exceeds a slot).
ASSUME ReleaseAssumption ==
  /\ Factory \in Versions /\ Versions \subseteq 1..99
  /\ ImageSizes \in Seq(Nat \ {0}) /\ ImageSizes # <<>>

VARIABLES
  named,   \* the version the version file holds
  bins,    \* [Versions -> Files]: {v}.bin
  shas,    \* [Versions -> Files]: {v}.bin.sha256
  deploy,  \* where a run of the script is, the version and build it publishes, and
           \* the version whose pair it is deleting
  built,   \* history: the version of each build made so far
  broken   \* history: versions whose last upload did not finish

releaseVars == <<named, bins, shas, deploy, built, broken>>

Builds == DOMAIN ImageSizes

\* A unit of an image, and the digest of a build, which stands for its 64 digits.
ImageUnit(b, i) == [kind |-> "image", n |-> b, at |-> i]
Image(b)        == [i \in 1..ImageSizes[b] |-> ImageUnit(b, i)]
ShaText(b)      == <<Unit("digest", b), LF>>

File(data, readable) == [exists |-> TRUE, data |-> data, readable |-> readable]
NoFile == [exists |-> FALSE, data |-> <<>>, readable |-> FALSE]

Steps == {"idle", "bin", "bin_data", "sha", "sha_data", "chmod",
          "version", "prune", "prune_sha", "trigger"}

Idle == [step |-> "idle", version |-> Factory, build |-> 1, stale |-> Factory]

ReleaseInit ==
  /\ named = Factory
  /\ bins = [v \in Versions |-> IF v = Factory THEN File(Image(1), TRUE) ELSE NoFile]
  /\ shas = [v \in Versions |-> IF v = Factory THEN File(ShaText(1), TRUE) ELSE NoFile]
  /\ deploy = Idle
  /\ built = <<Factory>>
  /\ broken = {}

At(step) == deploy.step = step
Go(step) == deploy' = [deploy EXCEPT !.step = step]

\* The version file says what to publish; the image is built and hashed.
StartDeploy(v) ==
  /\ At("idle") /\ Len(built) < Len(ImageSizes)
  /\ built' = Append(built, v)
  /\ deploy' = [Idle EXCEPT !.step = "bin", !.version = v, !.build = Len(built) + 1]
  /\ UNCHANGED <<named, bins, shas, broken>>

\* What an open for writing leaves: a file that was there keeps its mode, a new
\* one has the mode the umask of the SSH user gives it.
Truncated(file) ==
  IF file.exists THEN {File(<<>>, file.readable)}
                 ELSE {File(<<>>, mode) : mode \in BOOLEAN}

\* scp of the image.
OpenBin ==
  /\ At("bin") /\ Go("bin_data")
  /\ \E file \in Truncated(bins[deploy.version]) :
       bins' = [bins EXCEPT ![deploy.version] = file]
  /\ UNCHANGED <<named, shas, built, broken>>

CopyBin ==
  /\ At("bin_data")
  /\ \E n \in (Len(bins[deploy.version].data) + 1)..ImageSizes[deploy.build] :
       /\ bins' = [bins EXCEPT ![deploy.version].data = SubSeq(Image(deploy.build), 1, n)]
       /\ IF n = ImageSizes[deploy.build] THEN Go("sha") ELSE UNCHANGED deploy
  /\ UNCHANGED <<named, shas, built, broken>>

\* scp of the checksum.
OpenSha ==
  /\ At("sha") /\ Go("sha_data")
  /\ \E file \in Truncated(shas[deploy.version]) :
       shas' = [shas EXCEPT ![deploy.version] = file]
  /\ UNCHANGED <<named, bins, built, broken>>

CopySha ==
  /\ At("sha_data") /\ Go("chmod")
  /\ shas' = [shas EXCEPT ![deploy.version].data = ShaText(deploy.build)]
  /\ UNCHANGED <<named, bins, built, broken>>

Chmod ==
  /\ At("chmod") /\ Go("version")
  /\ bins' = [bins EXCEPT ![deploy.version].readable = TRUE]
  /\ shas' = [shas EXCEPT ![deploy.version].readable = TRUE]
  /\ broken' = broken \ {deploy.version}
  /\ UNCHANGED <<named, built>>

\* mv -f of the temporary file.
RenameVersion ==
  /\ At("version") /\ Go("prune")
  /\ named' = deploy.version
  /\ UNCHANGED <<bins, shas, built, broken>>

Older(v) == {o \in Versions : bins[o].exists /\ o < v}

\* Mutant: the older pairs are kept, the current one is not.
StaleKeepsOlder == {v \in Versions : bins[v].exists /\ v \notin Older(deploy.version)}

\* What the prune deletes: every pair but the current one and the largest below.
\* It looks for images only, so a digest without one stays.
Stale ==
  {v \in Versions :
     /\ bins[v].exists
     /\ v # deploy.version
     /\ ~(v \in Older(deploy.version) /\ \A o \in Older(deploy.version) : o <= v)}

\* rm of a pair deletes the image, then the digest.
PruneBin ==
  /\ At("prune")
  /\ \E v \in Stale :
       /\ bins' = [bins EXCEPT ![v] = NoFile]
       /\ deploy' = [deploy EXCEPT !.step = "prune_sha", !.stale = v]
  /\ UNCHANGED <<named, shas, built, broken>>

PruneSha ==
  /\ At("prune_sha")
  /\ shas' = [shas EXCEPT ![deploy.stale] = NoFile]
  /\ deploy' = [deploy EXCEPT !.step = "prune", !.stale = Factory]
  /\ UNCHANGED <<named, bins, built, broken>>

\* The prune is over, or has failed at either file, which only warns.
PruneEnds ==
  /\ At("prune") \/ At("prune_sha")
  /\ deploy' = [deploy EXCEPT !.step = "trigger", !.stale = Factory]
  /\ UNCHANGED <<named, bins, shas, built, broken>>

\* mosquitto_pub has sent the trigger, and the script is done.
SendTrigger ==
  /\ At("trigger") /\ deploy' = Idle
  /\ UNCHANGED <<named, bins, shas, built, broken>>

\* A command fails, anywhere: the script ends and leaves the server as it is.
DeployFails ==
  /\ deploy.step \notin {"idle", "prune", "prune_sha"}
  /\ deploy' = Idle
  /\ broken' = IF deploy.step \in {"bin_data", "sha", "sha_data", "chmod"}
                 THEN broken \cup {deploy.version} ELSE broken
  /\ UNCHANGED <<named, bins, shas, built>>

\* The steps that change a file, and those that do not.
Upload == OpenBin \/ CopyBin \/ OpenSha \/ CopySha \/ Chmod
Publish == RenameVersion \/ PruneBin \/ PruneSha \/ PruneEnds

-----------------------------------------------------------------------------

PairWhole(v) ==
  \E b \in DOMAIN built :
    /\ built[b] = v
    /\ bins[v] = File(Image(b), TRUE)
    /\ shas[v] = File(ShaText(b), TRUE)

Uploading(v) ==
  deploy.version = v /\ deploy.step \in {"bin_data", "sha", "sha_data", "chmod"}

\* The version file is the commit point (deploy.sh, step 9): the pair it names is
\* there, whole, matching and readable, whatever failed and whatever was pruned,
\* unless that very version is being uploaded again or such an upload failed.
NamedPairWhole == ~Uploading(named) /\ named \notin broken => PairWhole(named)

=============================================================================
